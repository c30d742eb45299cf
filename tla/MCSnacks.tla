------------------------------ MODULE MCSnacks ------------------------------
(* Instances of Snacks for TLC. *)
EXTENDS Snacks
==============================================================================
