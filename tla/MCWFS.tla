------------------------------- MODULE MCWFS -------------------------------
(* Instances of WFS for TLC. *)
EXTENDS WFS
==============================================================================
