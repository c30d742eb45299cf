----------------------------- MODULE Namespace -----------------------------
(***************************************************************************)
(* What WFS promises of names: a tree of directories and files in which a  *)
(* call creates or removes one entry at once, or changes nothing.  A call  *)
(* that is cut short by the death of the daemon may have done its work or  *)
(* not; the one thing more it may leave is the entry it was making, under  *)
(* another name.  WFS implements this module.                              *)
(***************************************************************************)
EXTENDS Naturals

CONSTANTS
  Names,        \* names of entries
  Inums,        \* inode numbers; 0 is the root directory
  Unique        \* whether the names in a directory are distinct

VARIABLES
  entries,      \* set of [dir, name, ino, kind]
  interrupted   \* calls cut short so far

nsVars == <<entries, interrupted>>

Entry == [dir : Inums, name : Names, ino : Inums \ {0}, kind : {"file", "dir"}]

Dirs == {0} \cup {e.ino : e \in {f \in entries : f.kind = "dir"}}

Init ==
  /\ entries = {}
  /\ interrupted = 0

(* The directory exists, the inode is not in use. *)
Fresh(e) ==
  /\ e.dir \in Dirs
  /\ \A f \in entries : f.ino # e.ino

Create(e) ==
  /\ Fresh(e)
  /\ Unique => \A f \in entries : f.dir = e.dir => f.name # e.name
  /\ entries' = entries \cup {e}
  /\ UNCHANGED interrupted

(* A directory goes only when it is empty. *)
Remove(e) ==
  /\ e \in entries
  /\ \A f \in entries : f.dir # e.ino
  /\ entries' = entries \ {e}
  /\ UNCHANGED interrupted

Interrupt ==
  /\ interrupted' = interrupted + 1
  /\ \/ UNCHANGED entries
     \/ \E e \in Entry \cap entries' : Fresh(e) /\ entries' = entries \cup {e}

Next ==
  \/ \E e \in Entry \cap entries' : Create(e)
  \/ \E e \in entries \ entries' : Remove(e)
  \/ Interrupt

Spec == Init /\ [][Next]_nsVars
==============================================================================
