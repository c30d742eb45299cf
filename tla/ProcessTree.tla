----------------------------- MODULE ProcessTree -----------------------------
(***************************************************************************)
(* What fork, clone, exit and wait promise to programs, without slot       *)
(* states, locks or scheduling: a tree of processes under a root.  Every   *)
(* process has a pid of its own; a process that finishes leaves its        *)
(* children to the root and stays a zombie until its parent reaps it.      *)
(***************************************************************************)
CONSTANTS Slots, Pids, Root, FirstPid, Nobody

VARIABLES
    status,     \* "free", "live" or "zombie"
    parent,     \* the parent of a process that is not free, else Nobody
    pid         \* its pid, Nobody for a free slot

tree == <<status, parent, pid>>

TreeInit ==
    /\ status = [q \in Slots |-> IF q = Root THEN "live" ELSE "free"]
    /\ parent = [q \in Slots |-> Nobody]
    /\ pid = [q \in Slots |-> IF q = Root THEN FirstPid ELSE Nobody]

\* A live process creates a child under a pid no other process has.
Spawn(p, q) ==
    /\ status[p] = "live" /\ status[q] = "free"
    /\ status' = [status EXCEPT ![q] = "live"]
    /\ parent' = [parent EXCEPT ![q] = p]
    /\ \E n \in Pids \ {pid[r] : r \in Slots} : pid' = [pid EXCEPT ![q] = n]

\* A process other than the root finishes; its children go to the root.
Finish(p) ==
    /\ status[p] = "live" /\ p # Root
    /\ status' = [status EXCEPT ![p] = "zombie"]
    /\ parent' = [q \in Slots |-> IF parent[q] = p THEN Root ELSE parent[q]]
    /\ UNCHANGED pid

\* Only its parent reaps a zombie.
Reap(p, q) ==
    /\ status[p] = "live" /\ status[q] = "zombie" /\ parent[q] = p
    /\ status' = [status EXCEPT ![q] = "free"]
    /\ parent' = [parent EXCEPT ![q] = Nobody]
    /\ pid' = [pid EXCEPT ![q] = Nobody]

TreeNext == \E p, q \in Slots : Spawn(p, q) \/ Finish(p) \/ Reap(p, q)

TreeSpec == TreeInit /\ [][TreeNext]_tree
=============================================================================
