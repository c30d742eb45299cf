------------------------------ MODULE FileStore ------------------------------
(***************************************************************************)
(* What WFS promises of the files of a directory: each name has a tape of  *)
(* bytes, a size and a color.  Where nothing was ever written the tape has *)
(* a hole.  A write stores all it was given, or it is refused for want of  *)
(* space and what it stored by then stays; it never touches another file.  *)
(* A call sets the times of what it changed.  WFSFile implements this.     *)
(***************************************************************************)
EXTENDS Integers, Sequences, FiniteSetsExt, Functions

CONSTANTS
  Names,      \* names of files
  Bytes,      \* values of a byte; 0 is one
  Hole,       \* a position nothing was written to
  Limit,      \* bytes a file can have
  Colors,     \* "none" is one
  Data,       \* what is written by one call: non-empty sequences of bytes
  Offs        \* where

VARIABLES
  files,      \* a function from the names there are to [tape, size, color]
  free,       \* blocks that are free
  touched     \* the times the last call set to now: <<name, time>>

fsVars == <<files, free, touched>>

Root == <<>>  \* the directory, among the names
Times == {"atim", "mtim", "ctim"}
Set(n, times) == {n} \X times

Positions == 0 .. Limit - 1
NewFile == [tape |-> [p \in Positions |-> Hole], size |-> 0, color |-> "none"]

Init ==
  /\ files = [n \in {} |-> NewFile]
  /\ free \in Nat
  /\ touched = {}

(* The entry may take a block, and one that lists the directory's blocks. *)
Entered(n) ==
  /\ n \notin DOMAIN files
  /\ files' = [m \in DOMAIN files \cup {n} |->
                 IF m = n THEN NewFile ELSE files[m]]
  /\ free' \in free - 2 .. free

Create(n) ==
  /\ Entered(n)
  /\ touched' = Set(n, Times) \cup Set(Root, {"mtim", "ctim"})

(* Not a step of this specification: a Create after which the directory    *)
(* looks as old as before.                                                 *)
CreateUntimed(n) ==
  /\ Entered(n)
  /\ touched' = Set(n, Times)

(* The directory keeps the last block if there is not another one.         *)
CreateFails(n) ==
  /\ touched' = {}
  /\ n \notin DOMAIN files
  /\ free' \in {0, free}
  /\ UNCHANGED files

Remove(n) ==
  /\ touched' = Set(Root, {"mtim", "ctim"})
  /\ n \in DOMAIN files
  /\ files' = Restrict(files, DOMAIN files \ {n})
  /\ free' >= free

(* The first k bytes of data are on the tape from off; a hole elsewhere may *)
(* have become a zero, and nothing else has changed.                        *)
Stored(old, new, off, data, k) ==
  \A p \in Positions :
    IF p \in off .. off + k - 1 THEN new[p] = data[p - off + 1]
    ELSE new[p] = old[p] \/ (old[p] = Hole /\ new[p] = 0)

(* Only the tape and the size of file n may change. *)
Changed(n, tape, size) ==
  files' = [files EXCEPT ![n].tape = tape, ![n].size = size]

Write(n, off, data) ==
  /\ touched' = Set(n, {"mtim", "ctim"})
  /\ n \in DOMAIN files
  /\ free' <= free
  /\ LET old == files[n]
         new == files'[n]
     IN  /\ new.size = Max({old.size, off + Len(data)})
         /\ Stored(old.tape, new.tape, off, data, Len(data))
         /\ Changed(n, new.tape, new.size)

(* Only for want of space, in the image or in the file. *)
WriteFails(n, off, data) ==
  /\ touched' = {}
  /\ n \in DOMAIN files
  /\ free' = 0 \/ (off + Len(data) > Limit /\ free' <= free)
  /\ LET old == files[n]
         new == files'[n]
     IN  /\ \E k \in 0 .. Len(data) - 1 : Stored(old.tape, new.tape, off, data, k)
         /\ Changed(n, new.tape, old.size)

Paint(n, c) ==
  /\ touched' = Set(n, {"ctim"})
  /\ n \in DOMAIN files
  /\ files' = [files EXCEPT ![n].color = c]
  /\ UNCHANGED free

(* A call that reads or is refused: only an access time may be set. *)
Look ==
  /\ UNCHANGED <<files, free>>
  /\ \/ touched' = {}
     \/ \E n \in DOMAIN files \cup {Root} : touched' = Set(n, {"atim"})

Next ==
  \/ Look
  \/ \E n \in Names :
       \/ Create(n) \/ CreateFails(n) \/ Remove(n)
       \/ \E c \in Colors : Paint(n, c)
       \/ \E off \in Offs, data \in Data : Write(n, off, data) \/ WriteFails(n, off, data)

Spec == Init /\ [][Next]_fsVars
==============================================================================
