----------------------------- MODULE StcfProofs -----------------------------
(***************************************************************************)
(* The inductive invariant of Stcf, for every number of slots and          *)
(* processors, what its operators do to a process table of proper entries, *)
(* and that every step keeps the invariant: the types are right and no     *)
(* wakeup of wait is lost.  The slots of Stcf implement ProcessTree, the   *)
(* scheduler and the timer keep their promises about order, and on one     *)
(* processor the descriptors of shared memory are right.                   *)
(***************************************************************************)
EXTENDS Stcf, NatLemmas

USE StcfAssumption

-----------------------------------------------------------------------------
(* The inductive invariant *)

\* Where a builder is: between the two locked sections of fork and clone.
Build == {"fork", "forked", "clone", "count", "cloned"}

Alive(p) == ptable[p].state \in {"SLEEPING", "RUNNABLE", "RUNNING"}

Entries == [state : States, pid : 0..MaxPid, parent : Slots \union {None},
            chan : 0..(NPROC + 1), killed : BOOLEAN, sleepticks : Int,
            ec : Int, globalTick : 0..MaxTicks, skip : BOOLEAN,
            pgdir : Pgdirs \union {0}]

Locals == [np : Slots \union {None}, n : Int, t0 : Nat, rc : Int]

PtableOK == ptable \in [Slots -> Entries]

LocksOK == /\ holder \in Slots \union {None} /\ tickslock \in 0..(NPROC + 1)
           /\ nextpid \in 2..(MaxPid + 1) /\ ticks \in 0..MaxTicks

MemoryOK == uvmrefcount \in [Pgdirs -> {-1} \union Nat] /\ vm \subseteq Pgdirs

StackOK == /\ pc \in [Slots -> Locations]
           /\ local \in [Slots -> Locals]
           /\ \A p \in Slots : pc[p] = "count" => local[p].rc \in Nat

Types == PtableOK /\ LocksOK /\ MemoryOK /\ StackOK

\* The state of a slot and where its process is in the kernel fit together;
\* only a process that is back from sleep in wait has the lock.
Placed(p) ==
    /\ ptable[p].state \in {"UNUSED", "EMBRYO", "ZOMBIE"} => pc[p] = "user"
    /\ In(p, "RUNNABLE") => pc[p] \in {"born", "given", "exec", "wait", "roused"}
    /\ In(p, "SLEEPING") => \/ pc[p] = "wait" /\ ptable[p].chan = p
                            \/ pc[p] = "roused" /\ ptable[p].chan = Ticks
    /\ In(p, "RUNNING") => pc[p] \notin {"born", "given"} /\ (pc[p] = "wait" => holder = p)
    /\ holder = p => In(p, "RUNNING") /\ pc[p] = "wait"
    /\ pc[p] \in {"user", "born", "yield"} => local[p].np = None

PlaceInv == \A p \in Slots : Placed(p)

\* A builder has an EMBRYO, and no other builder has it.
Builds(p, c) == pc[p] \in Build /\ local[p].np = c

BuildInv ==
    /\ \A p \in Slots : pc[p] \in Build => local[p].np \in Slots
    /\ \A p, c \in Slots : Builds(p, c) => In(c, "EMBRYO")
    /\ \A p, q, c \in Slots : Builds(p, c) /\ Builds(q, c) => p = q

\* Who is a parent is there, and parents are set when the entry is published.
ParentInv ==
    /\ Alive(initproc) /\ ptable[initproc].parent = None
    /\ \A q \in Slots : ptable[q].parent # q
    /\ \A q \in Slots : In(q, "UNUSED") => ptable[q].parent = None
    /\ \A q, p \in Slots : ptable[q].parent = p => Alive(p)
    /\ \A p, c \in Slots : Builds(p, c) =>
         ptable[c].parent = (IF pc[p] \in {"fork", "clone"} THEN None ELSE p)

\* Pids are unique, and a child has a higher one than the parent that builds it.
PidInv ==
    /\ \A q \in Slots : ~In(q, "UNUSED") => ptable[q].pid \in 1..(nextpid - 1)
    /\ \A q, r \in Slots : ~In(q, "UNUSED") /\ ~In(r, "UNUSED") /\ ptable[q].pid = ptable[r].pid => q = r
    /\ \A p, c \in Slots : Builds(p, c) => ptable[c].pid > ptable[p].pid

\* A process has a page directory, an EMBRYO from when fork or clone set it.
ImageInv ==
    /\ \A q \in Slots : There(q) => ptable[q].pgdir \in Pgdirs
    /\ \A p, c \in Slots : Builds(p, c) /\ pc[p] \notin {"fork", "clone"} =>
         ptable[c].pgdir \in Pgdirs

\* The parent that gave up the CPU at the end of fork, and a child that has
\* not run, are as fork left them.
Forked(p, c) ==
    /\ c # p
    /\ pc[p] # "forked" => There(c) /\ ptable[c].parent = p
    /\ In(c, "EMBRYO") \/ pc[c] = "born" =>
         ptable[c].ec = ptable[p].ec /\ ptable[c].pid > ptable[p].pid /\ ~ptable[c].skip

ForkInv == \A p, c \in Slots :
    pc[p] \in {"forked", "giving", "given"} /\ local[p].np = c => Forked(p, c)

\* A sleeper's count of ticks is what is left of its nap; who is awake again
\* has slept long enough or is killed.
Heard(p) == ticks - local[p].t0 - (IF tickslock = Timer THEN 1 ELSE 0)

Napping(p) ==
    /\ pc[p] \in {"nap", "drowse"} => tickslock = p
    /\ pc[p] = "drowse" => ticks = local[p].t0 /\ ptable[p].sleepticks = local[p].n
    /\ pc[p] = "nap" => \/ ticks = local[p].t0 /\ ptable[p].sleepticks = local[p].n
                        \/ NapOver(p) \/ ptable[p].killed
    /\ pc[p] = "roused" /\ In(p, "SLEEPING") =>
         Heard(p) >= 0 /\ ptable[p].sleepticks = local[p].n - Heard(p)
    /\ pc[p] = "roused" /\ ~In(p, "SLEEPING") => NapOver(p) \/ ptable[p].killed

NapInv == \A p \in Slots : Napping(p)

CpusInv == Cardinality(Running) <= Cpus

IInv == /\ Types /\ PlaceInv /\ BuildInv /\ ParentInv /\ PidInv /\ ImageInv /\ ForkInv /\ NapInv
        /\ WaitersCanBeWoken /\ CpusInv

-----------------------------------------------------------------------------
(* The scan of the scheduler *)

\* The recursion of the scan has a solution.
LEMMA ScanDef ==
  /\ Scan[0] = None
  /\ \A i \in Slots : Scan[i] = IF Candidate(i) /\ Beats(i, Scan[i - 1])
                                 THEN i ELSE Scan[i - 1]
<1> DEFINE V == Slots \union {None}
           next == [i \in 1..NPROC |-> [b \in V |->
                      IF Candidate(i) /\ Beats(i, b) THEN i ELSE b]]
           Def(f) == f = [i \in 0..NPROC |->
                            IF i = 0 THEN None
                            ELSE IF Candidate(i) /\ Beats(i, f[i - 1]) THEN i ELSE f[i - 1]]
<1>1. Steps(next, NPROC, V) /\ None \in V /\ NPROC \in Nat
  BY DEF Slots, Steps
<1>2. PICK f : Recursion(f, NPROC, V, None, next)
  <2> HIDE DEF next, V
  <2> QED BY <1>1, RecursiveFunction
<1>3. ASSUME NEW i \in 1..NPROC
      PROVE  f[i] = IF Candidate(i) /\ Beats(i, f[i - 1]) THEN i ELSE f[i - 1]
  <2>1. f[i - 1] \in V
    BY <1>2 DEF Recursion
  <2>2. next[i][f[i - 1]] = IF Candidate(i) /\ Beats(i, f[i - 1]) THEN i ELSE f[i - 1]
    BY <2>1
  <2> QED BY <1>2, <2>2 DEF Recursion
<1>4. Def(f)
  BY <1>2, <1>3 DEF Recursion
<1>5. Def(Scan)
  <2> HIDE DEF Def
  <2>1. Scan = CHOOSE g : Def(g)
    BY DEF Scan, Def
  <2> QED BY <1>4, <2>1
<1>6. ASSUME NEW i \in 0..NPROC
      PROVE  Scan[i] = IF i = 0 THEN None
                       ELSE IF Candidate(i) /\ Beats(i, Scan[i - 1]) THEN i ELSE Scan[i - 1]
  <2> DEFINE body(j) == IF j = 0 THEN None
                        ELSE IF Candidate(j) /\ Beats(j, Scan[j - 1]) THEN j ELSE Scan[j - 1]
  <2>1. Scan = [j \in 0..NPROC |-> body(j)]
    BY <1>5
  <2> HIDE DEF body
  <2>2. Scan[i] = body(i)
    BY <2>1
  <2> QED BY <2>2 DEF body
<1>7. 0 \in 0..NPROC /\ \A i \in Slots : i \in 0..NPROC /\ i # 0
  BY DEF Slots
<1> QED BY <1>6, <1>7

\* b is what the scan should have picked among the slots up to i.
Picked(b, i) ==
    IF b = None
      THEN \A q \in 1..i : Candidate(q) => ptable[q].ec >= MaxInt
      ELSE /\ b \in 1..i /\ Candidate(b) /\ ptable[b].ec < MaxInt
           /\ \A q \in 1..i : Candidate(q) =>
                \/ ptable[b].ec < ptable[q].ec
                \/ ptable[b].ec = ptable[q].ec /\ ptable[b].pid >= ptable[q].pid

\* The scan picks a candidate that no other candidate beats.
LEMMA BestIsBest ==
  ASSUME Types
  PROVE  Picked(Best, NPROC)
<1> DEFINE Bad == {i \in 0..NPROC : ~Picked(Scan[i], i)}
<1>1. ASSUME NEW i \in Slots, Picked(Scan[i - 1], i - 1) PROVE Picked(Scan[i], i)
  <2>1. \A q \in 1..i : /\ q \in Slots /\ (q = i \/ q \in 1 .. i - 1)
                        /\ ptable[q].ec \in Int /\ ptable[q].pid \in Int
    BY SMTT(30) DEF Types, PtableOK, Entries, Slots
  <2>2. i \in Int /\ i >= 1
    BY DEF Slots
  <2> DEFINE b == Scan[i - 1]
  <2>3. CASE Candidate(i) /\ Beats(i, b)
    <3>1. Scan[i] = i /\ i # None
      BY <2>2, <2>3, ScanDef DEF None
    <3>2. CASE b = None
      BY <1>1, <2>1, <2>2, <2>3, <3>1, <3>2 DEF Picked, Beats
    <3>3. CASE b # None
      BY <1>1, <2>1, <2>2, <2>3, <3>1, <3>3 DEF Picked, Beats
    <3> QED BY <3>2, <3>3
  <2>4. CASE ~(Candidate(i) /\ Beats(i, b))
    <3>1. Scan[i] = b
      BY <2>4, ScanDef
    <3>2. CASE b = None
      BY <1>1, <2>1, <2>2, <2>4, <3>1, <3>2 DEF Picked, Beats
    <3>3. CASE b # None
      BY <1>1, <2>1, <2>2, <2>4, <3>1, <3>3 DEF Picked, Beats
    <3> QED BY <3>2, <3>3
  <2> QED BY <2>3, <2>4
<1>2. Picked(Scan[0], 0)
  BY ScanDef DEF Picked
<1>3. ASSUME Bad # {} PROVE FALSE
  <2>1. PICK m \in Bad : \A k \in Bad : m <= k
    <3>1. Bad \in SUBSET Nat
      OBVIOUS
    <3> HIDE DEF Bad
    <3> QED BY <1>3, <3>1, LeastElement
  <2>2. m \in 0..NPROC /\ ~Picked(Scan[m], m)
    OBVIOUS
  <2>3. m # 0 /\ m - 1 \in 0..NPROC /\ m \in Slots
    BY <1>2, <2>2 DEF Slots
  <2>4. m - 1 \notin Bad
    <3> HIDE DEF Bad
    <3> QED BY <2>1, <2>2
  <2> QED BY <1>1, <2>2, <2>3, <2>4
<1> QED BY <1>3 DEF Best

\* What most steps do not do: start a process, wake one that sleeps on ticks
\* without killing it, change the tree of processes, change who shares what.
StartsNone == Running' \subseteq Running

RousesNone == \A q \in Slots :
    ptable[q].state = "SLEEPING" /\ ptable[q].chan = Ticks /\ ptable'[q].state = "RUNNABLE"
      => ptable'[q].killed

TreeKept == \A q \in Slots :
    /\ There(q)' <=> There(q)
    /\ There(q) => /\ ptable'[q].state = "ZOMBIE" <=> ptable[q].state = "ZOMBIE"
                   /\ ptable'[q].parent = ptable[q].parent /\ ptable'[q].pid = ptable[q].pid

ImageKept ==
    /\ UNCHANGED <<uvmrefcount, vm>>
    /\ \A q \in Slots : /\ Owns(q)' <=> Owns(q)
                        /\ Owns(q) => ptable'[q].pgdir = ptable[q].pgdir
    /\ \A q \in Slots : pc'[q] = "count" =>
         /\ pc[q] = "count" /\ local'[q] = local[q] /\ ptable'[q].pgdir = ptable[q].pgdir
         /\ \A c \in Slots : local[q].np = c => ptable'[c].pgdir = ptable[c].pgdir

Moves(p, l) == \A q \in Slots : pc'[q] = IF q = p THEN l ELSE pc[q]
Others(p)   == \A q \in Slots \ {p} : ptable'[q] = ptable[q]
Frames(p)   == \A q \in Slots \ {p} : local'[q] = local[q]

\* What publishing the child c and reaping the child z do to the tree.
Publishes(p, c) ==
    /\ c # p /\ ptable[p].state = "RUNNING" /\ ptable[c].state = "EMBRYO"
    /\ Others(c) /\ ptable'[c].state = "RUNNABLE"
    /\ ptable'[c].parent = p /\ ptable'[c].pid = ptable[c].pid

Frees(p, z) ==
    /\ ptable[p].state = "RUNNING" /\ ptable[z].state = "ZOMBIE" /\ ptable[z].parent = p
    /\ Others(z) /\ ptable'[z].state = "UNUSED"

\* What a step leaves alone in a process table entry.
SameName(r, s)  == r.pid = s.pid /\ r.parent = s.parent /\ r.pgdir = s.pgdir
SameTimes(r, s) == r.ec = s.ec /\ r.skip = s.skip
SameNap(r, s)   == r.chan = s.chan /\ r.killed = s.killed /\ r.sleepticks = s.sleepticks

\* Goto changes the place of one process and leaves the others' stacks alone.
LEMMA GotoMoves ==
  ASSUME StackOK, NEW p \in Slots, NEW l, Goto(p, l)
  PROVE  Moves(p, l)
BY DEF StackOK, Goto, Moves

\* A return to user mode clears the stack of one process.
LEMMA ReturnMoves ==
  ASSUME StackOK, NEW p \in Slots, Return(p)
  PROVE  Moves(p, "user") /\ Frames(p) /\ local'[p] = NoLocal /\ StackOK'
<1>1. local' = [local EXCEPT ![p] = NoLocal] /\ Goto(p, "user")
  BY DEF Return
<1>2. NoLocal \in Locals
  BY DEF NoLocal, Locals, None
<1> QED BY <1>1, <1>2, GotoMoves DEF StackOK, Moves, Frames, Goto, Locations

\* Free page directories have a least one.
LEMMA FreshIsFree ==
  ASSUME MemoryOK, Pgdirs # vm
  PROVE  FreshPgdir \in Pgdirs \ vm
<1>1. Pgdirs \ vm # {}
  BY DEF MemoryOK
<1>2. Pgdirs \ vm \in SUBSET Nat
  BY DEF Pgdirs
<1> QED BY <1>1, <1>2, MinNat DEF FreshPgdir

\* freevm of an address space keeps the memory in order.
LEMMA FreevmOK ==
  ASSUME MemoryOK, NEW d, NEW fresh \in SUBSET Pgdirs, Freevm(d, fresh)
  PROVE  MemoryOK'
BY DEF MemoryOK, Freevm

\* The fields allocproc sets last leave a proper entry.
LEMMA FreshOK ==
  ASSUME NEW c, ptable[c] \in Entries, ticks \in 0..MaxTicks
  PROVE  /\ Fresh(c) \in Entries
         /\ Fresh(c).state = ptable[c].state /\ SameName(Fresh(c), ptable[c])
         /\ SameNap(Fresh(c), ptable[c]) /\ Fresh(c).ec = 0 /\ ~Fresh(c).skip
<1>1. ASSUME NEW r \in Entries, NEW s, s = [r EXCEPT !.ec = 0, !.globalTick = ticks, !.skip = FALSE]
      PROVE  /\ s \in Entries /\ s.state = r.state /\ SameName(s, r) /\ SameNap(s, r)
             /\ s.ec = 0 /\ ~s.skip
  <2>1. s \in Entries
    <3>1. [r EXCEPT !.ec = 0] \in Entries
      BY DEF Entries
    <3>2. [r EXCEPT !.ec = 0, !.globalTick = ticks] \in Entries
      BY <3>1 DEF Entries
    <3> QED BY <1>1, <3>2 DEF Entries
  <2>2. /\ s.state = r.state /\ SameName(s, r) /\ SameNap(s, r)
    BY <1>1 DEF Entries, SameName, SameNap
  <2>3. s.ec = 0 /\ ~s.skip
    BY <1>1 DEF Entries
  <2> QED BY <2>1, <2>2, <2>3
<1> QED BY <1>1 DEF Fresh

\* Slots, channels and the absent process are different things.
LEMMA SlotsAreMany ==
  /\ \A p \in Slots : p # None /\ p # Ticks /\ p # Timer /\ p \in Nat
  /\ initproc \in Slots /\ Ticks = Timer /\ None # Ticks
  /\ IsFiniteSet(Slots)
BY FS_Interval DEF Slots, None, Ticks, Timer, initproc

\* Where no process starts to run, there are still enough processors.
LEMMA FewerRun ==
  ASSUME CpusInv, Running' \subseteq Running
  PROVE  CpusInv'
<1>1. IsFiniteSet(Running)
  BY SlotsAreMany, FS_Subset DEF Running
<1>2. Cardinality(Running') <= Cardinality(Running) /\ Cardinality(Running) \in Nat
      /\ Cardinality(Running') \in Nat
  BY <1>1, FS_Subset, FS_CardinalityType
<1>3. CpusInv' <=> Cardinality(Running') <= Cpus
  BY DEF CpusInv
<1> QED BY <1>2, <1>3 DEF CpusInv

\* What wait does, one disjunct for each way it goes on.
Reaps(p, z) ==
    /\ ptable[z].parent = p /\ In(z, "ZOMBIE")
    /\ Freevm(ptable[z].pgdir, {}) /\ Return(p)
    /\ ptable' = [ptable EXCEPT ![z].pid = 0, ![z].parent = None,
                                ![z].killed = FALSE, ![z].state = "UNUSED"]

GivesUp(p) == Return(p) /\ UNCHANGED <<ptable, uvmrefcount, vm>>

Waits(p) ==
    /\ Children(p) # {} /\ ~ptable[p].killed
    /\ \A q \in Children(p) : ~In(q, "ZOMBIE")
    /\ ptable' = Asleep(p, p) /\ Goto(p, "wait")
    /\ UNCHANGED <<uvmrefcount, vm, local>>

\* A step in wait reaps a zombie, gives up for want of children, or sleeps.
LEMMA WaitCases ==
  ASSUME NEW p \in Slots, Wait(p)
  PROVE  /\ ptable[p].state = "RUNNING" /\ pc[p] \in {"user", "wait"} /\ holder \in {None, p}
         /\ holder' = None /\ UNCHANGED <<nextpid, ticks, tickslock>>
         /\ (\E z \in Slots : Reaps(p, z)) \/ GivesUp(p) \/ Waits(p)
<1> DEFINE zombies == {q \in Children(p) : In(q, "ZOMBIE")}
<1>1. /\ ptable[p].state = "RUNNING" /\ pc[p] \in {"user", "wait"} /\ holder \in {None, p}
      /\ holder' = None /\ UNCHANGED <<nextpid, ticks, tickslock>>
  BY DEF Wait, LockFree, Enter, At, In
<1>2. CASE zombies # {}
  <2>1. zombies \in SUBSET Nat /\ zombies \subseteq Slots
    BY DEF Children, Slots
  <2>2. Min(zombies) \in zombies
    <3> HIDE DEF zombies
    <3> QED BY <1>2, <2>1, MinNat
  <2>3. /\ Freevm(ptable[Min(zombies)].pgdir, {}) /\ Return(p)
        /\ ptable' = [ptable EXCEPT ![Min(zombies)].pid = 0, ![Min(zombies)].parent = None,
                        ![Min(zombies)].killed = FALSE, ![Min(zombies)].state = "UNUSED"]
    BY <1>2 DEF Wait
  <2>4. ptable[Min(zombies)].parent = p /\ In(Min(zombies), "ZOMBIE") /\ Min(zombies) \in Slots
    BY <2>2 DEF Children
  <2> HIDE DEF zombies
  <2> QED BY <1>1, <2>3, <2>4 DEF Reaps
<1>3. CASE zombies = {}
  BY <1>1, <1>3 DEF Wait, GivesUp, Waits
<1> QED BY <1>2, <1>3

\* sleep leaves a proper entry.
LEMMA AsleepOK ==
  ASSUME Types, NEW p \in Slots, NEW c \in 0..(NPROC + 1), ptable' = Asleep(p, c)
  PROVE  \E s \in Entries :
           /\ ptable' = [ptable EXCEPT ![p] = s]
           /\ s.state = "SLEEPING" /\ s.chan = c /\ SameName(s, ptable[p])
           /\ s.killed = ptable[p].killed /\ s.sleepticks = ptable[p].sleepticks
<1> DEFINE s == [ptable[p] EXCEPT !.state = "SLEEPING", !.chan = c,
                                  !.ec = SleepCharged(p), !.globalTick = ticks]
<1>1. ptable[p] \in Entries /\ ticks \in 0..MaxTicks
  BY DEF Types, PtableOK, LocksOK
<1>2. SleepCharged(p) \in Int
  <2>1. ptable[p].ec \in Int /\ Charged(p) \in Int
    BY <1>1 DEF Entries, Charged, Elapsed
  <2>2. Max({0, Charged(p)}) \in Int
    BY <2>1, MaxPair
  <2> QED BY <2>1, <2>2 DEF SleepCharged
<1>3. s \in Entries
  <2>1. [ptable[p] EXCEPT !.state = "SLEEPING", !.chan = c] \in Entries
    BY <1>1 DEF Entries, States
  <2>2. [ptable[p] EXCEPT !.state = "SLEEPING", !.chan = c, !.ec = SleepCharged(p)] \in Entries
    BY <1>2, <2>1 DEF Entries
  <2> QED BY <1>1, <2>2 DEF Entries
<1>4. ptable' = [ptable EXCEPT ![p] = s]
  BY DEF Asleep, Types, PtableOK
<1>5. /\ s.state = "SLEEPING" /\ s.chan = c /\ SameName(s, ptable[p])
      /\ s.killed = ptable[p].killed /\ s.sleepticks = ptable[p].sleepticks
  BY <1>1 DEF Entries, SameName
<1> HIDE DEF s
<1> QED BY <1>3, <1>4, <1>5

\* wakeup1 on a table of proper entries.
LEMMA WokenTable ==
  ASSUME NEW t \in [Slots -> Entries], NEW c
  PROVE  /\ Wakeup1(t, c) \in [Slots -> Entries]
         /\ \A q \in Slots :
              LET e == Wakeup1(t, c)[q]
              IN /\ SameName(e, t[q]) /\ SameTimes(e, t[q]) /\ SameNap(e, t[q])
                 /\ e.state = (IF t[q].state = "SLEEPING" /\ t[q].chan = c THEN "RUNNABLE"
                                                                         ELSE t[q].state)
<1>1. ASSUME NEW r \in Entries, NEW e,
             e = IF r.state = "SLEEPING" /\ r.chan = c THEN [r EXCEPT !.state = "RUNNABLE"] ELSE r
      PROVE  /\ e \in Entries /\ SameName(e, r) /\ SameTimes(e, r) /\ SameNap(e, r)
             /\ e.state = (IF r.state = "SLEEPING" /\ r.chan = c THEN "RUNNABLE" ELSE r.state)
  <2>1. e \in Entries
    BY <1>1 DEF Entries, States
  <2>2. /\ SameName(e, r) /\ SameTimes(e, r) /\ SameNap(e, r)
        /\ e.state = (IF r.state = "SLEEPING" /\ r.chan = c THEN "RUNNABLE" ELSE r.state)
    BY <1>1 DEF Entries, SameName, SameTimes, SameNap
  <2> QED BY <2>1, <2>2
<1>2. \A q \in Slots : t[q] \in Entries /\
        Wakeup1(t, c)[q] = IF t[q].state = "SLEEPING" /\ t[q].chan = c
                             THEN [t[q] EXCEPT !.state = "RUNNABLE"] ELSE t[q]
  BY DEF Wakeup1
<1>3. ASSUME NEW q \in Slots
      PROVE  /\ Wakeup1(t, c)[q] \in Entries
             /\ SameName(Wakeup1(t, c)[q], t[q]) /\ SameTimes(Wakeup1(t, c)[q], t[q])
             /\ SameNap(Wakeup1(t, c)[q], t[q])
             /\ Wakeup1(t, c)[q].state = (IF t[q].state = "SLEEPING" /\ t[q].chan = c THEN "RUNNABLE"
                                                                         ELSE t[q].state)
  BY <1>1, <1>2
<1>4. Wakeup1(t, c) \in [Slots -> Entries]
  BY <1>3 DEF Wakeup1
<1> QED BY <1>3, <1>4

\* The process table after exit.
LEMMA ExitEffect ==
  ASSUME PtableOK, NEW p \in Slots, Exit(p)
  PROVE  /\ ptable' \in [Slots -> Entries]
         /\ \A q \in Slots :
           /\ SameTimes(ptable'[q], ptable[q]) /\ SameNap(ptable'[q], ptable[q])
           /\ ptable'[q].pid = ptable[q].pid /\ ptable'[q].pgdir = ptable[q].pgdir
           /\ ptable'[q].parent = (IF ptable[q].parent = p THEN initproc ELSE ptable[q].parent)
           /\ q # p => \/ ptable'[q].state = ptable[q].state
                       \/ /\ ptable[q].state = "SLEEPING" /\ ptable'[q].state = "RUNNABLE"
                          /\ ptable[q].chan \in {ptable[p].parent, initproc}
           /\ q # p /\ ptable[q].state = "SLEEPING" =>
                /\ ptable[q].chan = ptable[p].parent => ptable'[q].state = "RUNNABLE"
                /\ ptable[q].chan = initproc /\ (\E r \in Slots : ptable[r].parent = p /\ ptable[r].state = "ZOMBIE")
                     => ptable'[q].state = "RUNNABLE"
         /\ ptable'[p].state = "ZOMBIE"
<1> DEFINE woken == Wakeup1(ptable, ptable[p].parent)
           given == [q \in Slots |-> IF q \in Children(p)
                       THEN [woken[q] EXCEPT !.parent = initproc] ELSE woken[q]]
           told  == IF \E q \in Children(p) : In(q, "ZOMBIE")
                      THEN Wakeup1(given, initproc) ELSE given
<1>1. woken \in [Slots -> Entries] /\
      \A q \in Slots : /\ SameName(woken[q], ptable[q]) /\ SameTimes(woken[q], ptable[q])
                       /\ SameNap(woken[q], ptable[q])
                       /\ woken[q].state = (IF ptable[q].state = "SLEEPING" /\ ptable[q].chan = ptable[p].parent
                                            THEN "RUNNABLE" ELSE ptable[q].state)
  BY WokenTable DEF PtableOK
<1>2. ASSUME NEW q \in Slots
      PROVE  /\ given[q] \in Entries /\ given[q].state = woken[q].state
             /\ SameTimes(given[q], woken[q]) /\ SameNap(given[q], woken[q])
             /\ given[q].pid = woken[q].pid /\ given[q].pgdir = woken[q].pgdir
             /\ given[q].parent = (IF ptable[q].parent = p THEN initproc ELSE woken[q].parent)
  <2> DEFINE r == woken[q]
             e == [r EXCEPT !.parent = initproc]
  <2>1. r \in Entries
    BY <1>1
  <2>2. e \in Entries
    BY <2>1, SlotsAreMany DEF Entries
  <2>3. /\ e.state = r.state /\ SameTimes(e, r) /\ SameNap(e, r) /\ e.pid = r.pid
        /\ e.pgdir = r.pgdir /\ e.parent = initproc
    BY <2>1 DEF Entries, SameTimes, SameNap
  <2>4. given[q] = IF ptable[q].parent = p THEN e ELSE r
    BY DEF Children
  <2> HIDE DEF e, given, woken
  <2> QED BY <2>1, <2>2, <2>3, <2>4 DEF SameTimes, SameNap
<1>3. given \in [Slots -> Entries]
  <2> HIDE DEF woken
  <2> QED BY <1>2
<1>4. /\ told \in [Slots -> Entries]
      /\ \A q \in Slots :
           /\ SameTimes(told[q], given[q]) /\ SameNap(told[q], given[q]) /\ SameName(told[q], given[q])
           /\ told[q].state = (IF /\ \E r \in Slots : ptable[r].parent = p /\ ptable[r].state = "ZOMBIE"
                                  /\ given[q].state = "SLEEPING" /\ given[q].chan = initproc
                               THEN "RUNNABLE" ELSE given[q].state)
  <2>1. (\E q \in Children(p) : In(q, "ZOMBIE")) <=> \E r \in Slots : ptable[r].parent = p /\ ptable[r].state = "ZOMBIE"
    BY DEF Children, In
  <2> HIDE DEF given
  <2> QED BY <1>3, <2>1, WokenTable DEF SameTimes, SameNap, SameName
<1>5. ptable' = [told EXCEPT ![p].state = "ZOMBIE"]
  BY DEF Exit
<1> HIDE DEF told, given, woken
<1>6. /\ ptable' \in [Slots -> Entries]
      /\ \A q \in Slots \ {p} : ptable'[q] = told[q]
      /\ ptable'[p].state = "ZOMBIE" /\ SameName(ptable'[p], told[p])
      /\ SameTimes(ptable'[p], told[p]) /\ SameNap(ptable'[p], told[p])
  <2> DEFINE e == [told[p] EXCEPT !.state = "ZOMBIE"]
  <2>1. told[p] \in Entries
    BY <1>4
  <2>2. e \in Entries
    BY <2>1 DEF Entries, States
  <2>3. /\ e.state = "ZOMBIE" /\ SameName(e, told[p])
        /\ SameTimes(e, told[p]) /\ SameNap(e, told[p])
    BY <2>1 DEF Entries, SameName, SameTimes, SameNap
  <2>4. ptable' = [told EXCEPT ![p] = e]
    BY <1>4, <1>5
  <2> HIDE DEF e
  <2> QED BY <1>4, <2>2, <2>3, <2>4
<1> QED BY <1>1, <1>2, <1>4, <1>6 DEF SameName, SameTimes, SameNap

\* The scan takes marks off and changes nothing else.
LEMMA UnskippedOK ==
  ASSUME PtableOK
  PROVE  /\ Unskipped \in [Slots -> Entries]
         /\ \A q \in Slots :
              LET e == Unskipped[q]
              IN /\ e.state = ptable[q].state /\ SameName(e, ptable[q]) /\ SameNap(e, ptable[q])
                 /\ e.ec = ptable[q].ec /\ (~ptable[q].skip => ~e.skip)
<1>1. ASSUME NEW r \in Entries, NEW e,
             e = IF r.state = "RUNNABLE" THEN [r EXCEPT !.skip = FALSE] ELSE r
      PROVE  /\ e \in Entries /\ e.state = r.state /\ SameName(e, r) /\ SameNap(e, r)
             /\ e.ec = r.ec /\ (~r.skip => ~e.skip)
  <2>1. e \in Entries
    BY <1>1 DEF Entries
  <2>2. e.state = r.state /\ SameName(e, r) /\ SameNap(e, r) /\ e.ec = r.ec
    BY <1>1 DEF Entries, SameName, SameNap
  <2>3. ~r.skip => ~e.skip
    BY <1>1 DEF Entries
  <2> QED BY <2>1, <2>2, <2>3
<1>2. \A q \in Slots : ptable[q] \in Entries /\
        Unskipped[q] = IF ptable[q].state = "RUNNABLE" THEN [ptable[q] EXCEPT !.skip = FALSE]
                                                       ELSE ptable[q]
  BY DEF PtableOK, Unskipped, In
<1>3. ASSUME NEW q \in Slots
      PROVE  /\ Unskipped[q] \in Entries /\ Unskipped[q].state = ptable[q].state
             /\ SameName(Unskipped[q], ptable[q]) /\ SameNap(Unskipped[q], ptable[q])
             /\ Unskipped[q].ec = ptable[q].ec /\ (~ptable[q].skip => ~Unskipped[q].skip)
  BY <1>1, <1>2
<1>4. Unskipped \in [Slots -> Entries]
  BY <1>3 DEF Unskipped
<1> QED BY <1>3, <1>4

\* The process table when p starts to run again.
LEMMA ResumeOK ==
  ASSUME PtableOK, ticks \in 0..MaxTicks, NEW p \in Slots, Resume(p)
  PROVE  \E s \in Entries :
           /\ ptable' = [Unskipped EXCEPT ![p] = s]
           /\ s.state = "RUNNING" /\ SameName(s, ptable[p]) /\ s.ec = ptable[p].ec
           /\ s.sleepticks = ptable[p].sleepticks /\ s.killed = ptable[p].killed
           /\ (~ptable[p].skip => ~s.skip)
<1> DEFINE r == Unskipped[p]
           s == [r EXCEPT !.state = "RUNNING", !.globalTick = ticks, !.chan = None]
<1>1. r \in Entries
  BY UnskippedOK
<1>2. s \in Entries
  <2>1. [r EXCEPT !.state = "RUNNING"] \in Entries
    BY <1>1 DEF Entries, States
  <2>2. [r EXCEPT !.state = "RUNNING", !.globalTick = ticks] \in Entries
    BY <2>1 DEF Entries
  <2>3. None \in 0..(NPROC + 1)
    BY DEF None
  <2> QED BY <2>2, <2>3 DEF Entries
<1>3. /\ s.state = "RUNNING" /\ SameName(s, r) /\ s.ec = r.ec
      /\ s.sleepticks = r.sleepticks /\ s.killed = r.killed /\ s.skip = r.skip
  BY <1>1 DEF Entries, SameName
<1>4. ptable' = [Unskipped EXCEPT ![p] = s]
  BY UnskippedOK DEF Resume
<1>5. /\ SameName(r, ptable[p]) /\ SameNap(r, ptable[p])
      /\ r.ec = ptable[p].ec /\ (~ptable[p].skip => ~r.skip)
  BY UnskippedOK
<1> HIDE DEF s, r
<1> QED BY <1>2, <1>3, <1>4, <1>5 DEF SameName, SameNap

\* sleep_proc_notify on a table of proper entries.
LEMMA NotifiedOK ==
  ASSUME NEW r \in Entries
  PROVE  /\ Notified(r) \in Entries
         /\ SameName(Notified(r), r) /\ SameTimes(Notified(r), r)
         /\ Notified(r).chan = r.chan /\ Notified(r).killed = r.killed
         /\ IF r.state = "SLEEPING" /\ r.chan = Ticks
              THEN IF r.sleepticks = 0
                     THEN Notified(r).state = "RUNNABLE"
                     ELSE Notified(r).state = r.state /\ Notified(r).sleepticks = r.sleepticks - 1
              ELSE Notified(r) = r
<1>1. CASE ~(r.state = "SLEEPING" /\ r.chan = Ticks)
  BY <1>1 DEF Notified, SameName, SameTimes
<1>2. CASE r.state = "SLEEPING" /\ r.chan = Ticks /\ r.sleepticks = 0
  <2> DEFINE e == [r EXCEPT !.state = "RUNNABLE"]
  <2>1. e \in Entries
    BY DEF Entries, States
  <2>2. /\ SameName(e, r) /\ SameTimes(e, r) /\ e.chan = r.chan /\ e.killed = r.killed
        /\ e.state = "RUNNABLE"
    BY DEF Entries, SameName, SameTimes
  <2>3. Notified(r) = e
    BY <1>2 DEF Notified
  <2> HIDE DEF e
  <2> QED BY <1>2, <2>1, <2>2, <2>3
<1>3. CASE r.state = "SLEEPING" /\ r.chan = Ticks /\ r.sleepticks # 0
  <2> DEFINE e == [r EXCEPT !.sleepticks = r.sleepticks - 1]
  <2>1. e \in Entries
    BY DEF Entries
  <2>2. /\ SameName(e, r) /\ SameTimes(e, r) /\ e.chan = r.chan /\ e.killed = r.killed
        /\ e.state = r.state /\ e.sleepticks = r.sleepticks - 1
    BY DEF Entries, SameName, SameTimes
  <2>3. Notified(r) = e
    BY <1>3 DEF Notified
  <2> HIDE DEF e
  <2> QED BY <1>3, <2>1, <2>2, <2>3
<1> QED BY <1>1, <1>2, <1>3

-----------------------------------------------------------------------------
(* The invariant: the scheduler *)

\* The scan finds nothing to run.
LEMMA IdleStep ==
  ASSUME IInv, Schedule, Best = None
  PROVE  IInv' /\ StartsNone /\ RousesNone /\ TreeKept /\ ImageKept
<1> USE DEF None, initproc
<1>1. /\ ptable' = Unskipped
      /\ UNCHANGED <<holder, nextpid, ticks, tickslock, uvmrefcount, vm, pc, local>>
  BY DEF Schedule
<1>2. /\ ptable' \in [Slots -> Entries]
      /\ \A q \in Slots :
           /\ ptable'[q].state = ptable[q].state /\ SameName(ptable'[q], ptable[q])
           /\ SameNap(ptable'[q], ptable[q])
           /\ ptable'[q].ec = ptable[q].ec /\ (~ptable[q].skip => ~ptable'[q].skip)
  BY <1>1, UnskippedOK DEF IInv, Types
<1>3. Types'
  BY <1>1, <1>2 DEF IInv, Types, PtableOK, LocksOK, MemoryOK, StackOK
<1>4. PlaceInv'
  BY SlotsAreMany, <1>1, <1>2 DEF IInv, PlaceInv, Placed, In, Ticks, SameNap
<1>5. BuildInv'
  BY SlotsAreMany, <1>1, <1>2 DEF IInv, BuildInv, Builds, Build, In
<1>6. ParentInv'
  BY SlotsAreMany, <1>1, <1>2 DEF IInv, ParentInv, BuildInv, Builds, Build, In, Alive, SameName
<1>7. PidInv'
  BY SlotsAreMany, <1>1, <1>2 DEF IInv, PidInv, BuildInv, Builds, Build, PlaceInv, Placed, In,
     SameName
<1>8. ImageInv'
  BY SlotsAreMany, <1>1, <1>2 DEF IInv, ImageInv, BuildInv, Builds, Build, There, In, SameName
<1>9. ForkInv'
  <2> SUFFICES ASSUME NEW q \in Slots, NEW c \in Slots,
                      pc'[q] \in {"forked", "giving", "given"}, local'[q].np = c
               PROVE  Forked(q, c)'
    BY DEF ForkInv
  <2> QED BY SlotsAreMany, <1>1, <1>2 DEF IInv, ForkInv, Forked, In, There, PlaceInv, Placed,
             SameName
<1>10. NapInv'
  BY SlotsAreMany, <1>1, <1>2 DEF IInv, NapInv, Napping, PlaceInv, Placed, In, NapOver, Heard,
     SameNap
<1>11. WaitersCanBeWoken'
  BY SlotsAreMany, <1>1, <1>2 DEF IInv, WaitersCanBeWoken, In, Children, SameName, SameNap
<1>12. StartsNone
  BY <1>1, <1>2 DEF StartsNone, Running, In
<1>13. CpusInv'
  BY IInv, <1>12, FewerRun DEF IInv, StartsNone
<1>14. RousesNone
  BY <1>1, <1>2 DEF RousesNone, In, SameNap
<1>15. TreeKept
  BY <1>1, <1>2 DEF TreeKept, There, In, SameName
<1>16. ImageKept
  BY SlotsAreMany, <1>1, <1>2 DEF IInv, ImageKept, Owns, BuildInv, Builds, Build, PlaceInv,
     Placed, There, In, SameName
<1> QED BY <1>3, <1>4, <1>5, <1>6, <1>7, <1>8, <1>9, <1>10, <1>11, <1>12, <1>13, <1>14, <1>15,
           <1>16 DEF IInv

\* The scan picked p, which runs again.
LEMMA DispatchStep ==
  ASSUME IInv, Schedule, NEW p \in Slots, p = Best, Candidate(p)
  PROVE  IInv' /\ RousesNone /\ TreeKept /\ ImageKept
         /\ Running' = Running \union {p}
<1> USE DEF None, initproc
<1>1. /\ Resume(p) /\ holder = None /\ ptable[p].state = "RUNNABLE"
      /\ Cardinality(Running) < Cpus
      /\ holder' = (IF pc[p] = "wait" THEN p ELSE None)
      /\ UNCHANGED <<nextpid, ticks, tickslock, uvmrefcount, vm>>
  BY DEF Schedule, LockFree, Candidate, In, Resume, Slots
<1>2. PICK s \in Entries :
        /\ ptable' = [Unskipped EXCEPT ![p] = s]
        /\ s.state = "RUNNING" /\ SameName(s, ptable[p]) /\ s.ec = ptable[p].ec
        /\ s.sleepticks = ptable[p].sleepticks /\ s.killed = ptable[p].killed
        /\ (~ptable[p].skip => ~s.skip)
  BY <1>1, ResumeOK DEF IInv, Types, LocksOK
<1>3. /\ StackOK' /\ Frames(p)
      /\ IF pc[p] \in {"born", "given"} THEN Moves(p, "user") /\ local'[p].np = None
                                        ELSE UNCHANGED <<pc, local>>
  <2>1. CASE pc[p] \in {"born", "given"}
    BY <1>1, <2>1, ReturnMoves DEF IInv, Types, Resume, NoLocal
  <2>2. CASE pc[p] \notin {"born", "given"}
    BY <1>1, <2>2 DEF IInv, Types, Resume, StackOK, Frames
  <2> QED BY <2>1, <2>2
<1>4. /\ \A q \in Slots \ {p} :
           /\ ptable'[q].state = ptable[q].state /\ SameName(ptable'[q], ptable[q])
           /\ SameNap(ptable'[q], ptable[q])
           /\ ptable'[q].ec = ptable[q].ec /\ (~ptable[q].skip => ~ptable'[q].skip)
      /\ ptable'[p].state = "RUNNING" /\ SameName(ptable'[p], ptable[p]) /\ ptable'[p].ec = ptable[p].ec
      /\ ptable'[p].sleepticks = ptable[p].sleepticks /\ ptable'[p].killed = ptable[p].killed
      /\ (~ptable[p].skip => ~ptable'[p].skip)
      /\ ptable' \in [Slots -> Entries]
  <2> DEFINE u == Unskipped
  <2>1. /\ u \in [Slots -> Entries]
        /\ \A q \in Slots :
             /\ u[q].state = ptable[q].state /\ SameName(u[q], ptable[q]) /\ SameNap(u[q],
               ptable[q])
             /\ u[q].ec = ptable[q].ec /\ (~ptable[q].skip => ~u[q].skip)
    BY UnskippedOK DEF IInv, Types
  <2>2. ptable' = [u EXCEPT ![p] = s]
    BY <1>2
  <2> HIDE DEF u
  <2> QED BY <1>2, <2>1, <2>2, ZenonT(40)
<1>5. Types'
  BY SlotsAreMany, <1>1, <1>3, <1>4 DEF IInv, Types, PtableOK, LocksOK, MemoryOK
<1>6. PlaceInv'
  BY SlotsAreMany, <1>1, <1>3, <1>4 DEF Moves, Frames, IInv, PlaceInv, Placed, In, Ticks, SameNap
<1>7. BuildInv'
  BY SlotsAreMany, <1>1, <1>3, <1>4 DEF Moves, Frames, IInv, BuildInv, Builds, Build, In
<1>8. ParentInv'
  BY SlotsAreMany, <1>1, <1>3, <1>4 DEF Moves, Frames, IInv, ParentInv, BuildInv, Builds, Build,
     In, Alive, SameName
<1>9. PidInv'
  BY SlotsAreMany, <1>1, <1>3, <1>4 DEF Moves, Frames, IInv, PidInv, BuildInv, Builds, Build,
     PlaceInv, Placed, In, SameName
<1>10. ImageInv'
  BY SlotsAreMany, <1>1, <1>3, <1>4 DEF Moves, Frames, IInv, ImageInv, BuildInv, Builds, Build,
     There, In, SameName
<1>11. ForkInv'
  <2> SUFFICES ASSUME NEW q \in Slots, NEW c \in Slots,
                      pc'[q] \in {"forked", "giving", "given"}, local'[q].np = c
               PROVE  Forked(q, c)'
    BY DEF ForkInv
  <2> QED BY SlotsAreMany, <1>1, <1>3, <1>4 DEF IInv, Moves, Frames, ForkInv, Forked, In, There,
             PlaceInv, Placed, SameName
<1>12. NapInv'
  BY SlotsAreMany, <1>1, <1>3, <1>4 DEF Moves, Frames, IInv, NapInv, Napping, PlaceInv, Placed,
     In, NapOver, Heard, SameNap
<1>13. WaitersCanBeWoken'
  BY SlotsAreMany, <1>1, <1>3, <1>4 DEF Moves, Frames, IInv, WaitersCanBeWoken, In, Children,
     SameName, SameNap
<1>14. CpusInv'
  <2>1. Running' = Running \union {p} /\ p \notin Running
    BY <1>1, <1>4 DEF Running, In
  <2>2. IsFiniteSet(Running) /\ Cardinality(Running) \in Nat
    BY SlotsAreMany, FS_Subset, FS_CardinalityType DEF Running
  <2>3. Cardinality(Running') = Cardinality(Running) + 1
    BY <2>1, <2>2, FS_AddElement
  <2> QED BY <1>1, <2>2, <2>3 DEF CpusInv
<1>15. RousesNone
  BY <1>1, <1>3, <1>4 DEF RousesNone, In, SameNap
<1>16. TreeKept
  BY <1>1, <1>3, <1>4 DEF TreeKept, There, In, SameName
<1>17. ImageKept
  BY SlotsAreMany, <1>1, <1>3, <1>4 DEF Moves, Frames, IInv, ImageKept, Owns, BuildInv, Builds,
     Build, PlaceInv, Placed, There, In, SameName
<1>18. Running' = Running \union {p}
  BY <1>1, <1>4 DEF Running, In
<1> QED BY <1>5, <1>6, <1>7, <1>8, <1>9, <1>10, <1>11, <1>12, <1>13, <1>14, <1>15, <1>16, <1>17,
           <1>18 DEF IInv
-----------------------------------------------------------------------------
(* The invariant: leaving the CPU *)

\* yield charges the process and gives the CPU away.
LEMMA YieldStep ==
  ASSUME IInv, NEW p \in Slots, Yield(p)
  PROVE  IInv' /\ StartsNone /\ RousesNone /\ TreeKept /\ ImageKept
<1> USE DEF None, initproc
<1> DEFINE s == [ptable[p] EXCEPT !.state = "RUNNABLE", !.ec = Charged(p)]
<1>1. s \in Entries /\ ptable' = [ptable EXCEPT ![p] = s]
  <2>1. ptable[p] \in Entries /\ ticks \in Int
    BY DEF IInv, Types, PtableOK, LocksOK
  <2>2. Charged(p) \in Int
    BY <2>1 DEF Charged, Elapsed, Entries
  <2> QED BY <2>1, <2>2 DEF Entries, States, Yield, IInv, Types, PtableOK
<1>2. /\ Others(p) /\ SameName(ptable'[p], ptable[p]) /\ SameNap(ptable'[p], ptable[p])
      /\ ptable'[p].state = "RUNNABLE"
  BY <1>1 DEF IInv, Types, PtableOK, Entries, Others, SameName, SameNap
<1> HIDE DEF s
<1>3. /\ ptable[p].state = "RUNNING" /\ holder = None
      /\ \/ pc[p] = "yield" /\ Goto(p, "given") /\ Moves(p, "given")
         \/ pc[p] = "exec2" /\ Goto(p, "exec") /\ Moves(p, "exec")
      /\ UNCHANGED <<holder, nextpid, ticks, tickslock, uvmrefcount, vm, local>>
  BY GotoMoves DEF IInv, Yield, At, In, LockFree, Types
<1>4. Types'
  BY <1>1, <1>3 DEF IInv, Types, PtableOK, LocksOK, MemoryOK, StackOK, Locations, Goto
<1>5. PlaceInv'
  BY SlotsAreMany, <1>1, <1>2, <1>3 DEF Moves, Others, IInv, PlaceInv, Placed, In, Ticks, SameNap
<1>6. BuildInv'
  BY SlotsAreMany, <1>1, <1>2, <1>3 DEF Moves, Others, IInv, BuildInv, Builds, Build, In
<1>7. ParentInv'
  BY SlotsAreMany, <1>1, <1>2, <1>3 DEF Moves, Others, IInv, ParentInv, BuildInv, Builds, Build,
     In, Alive, SameName
<1>8. PidInv'
  BY SlotsAreMany, <1>1, <1>2, <1>3 DEF Moves, Others, IInv, PidInv, BuildInv, Builds, Build,
     PlaceInv, Placed, In, SameName
<1>9. ImageInv'
  BY SlotsAreMany, <1>1, <1>2, <1>3 DEF Moves, Others, IInv, ImageInv, BuildInv, Builds, Build,
     There, In, SameName
<1>10. ForkInv'
  <2> SUFFICES ASSUME NEW q \in Slots, NEW c \in Slots,
                      pc'[q] \in {"forked", "giving", "given"}, local'[q].np = c
               PROVE  Forked(q, c)'
    BY DEF ForkInv
  <2> QED BY SlotsAreMany, <1>1, <1>2, <1>3 DEF IInv, Moves, Others, ForkInv, Forked, In, There,
             PlaceInv, Placed, SameName
<1>11. NapInv'
  BY SlotsAreMany, <1>1, <1>2, <1>3 DEF Moves, Others, IInv, NapInv, Napping, PlaceInv, Placed,
     In, NapOver, Heard, SameNap
<1>12. WaitersCanBeWoken'
  BY SlotsAreMany, <1>1, <1>2, <1>3 DEF Moves, Others, IInv, WaitersCanBeWoken, In, Children,
     SameName, SameNap
<1>13. StartsNone
  BY <1>1, <1>2, <1>3 DEF StartsNone, Running, In, Others
<1>14. CpusInv'
  BY IInv, <1>13, FewerRun DEF IInv, StartsNone
<1>15. RousesNone
  BY <1>1, <1>2, <1>3 DEF RousesNone, In, Others, SameNap
<1>16. TreeKept
  BY <1>1, <1>2, <1>3 DEF TreeKept, There, In, Others, SameName
<1>17. ImageKept
  BY SlotsAreMany, <1>1, <1>2, <1>3 DEF Moves, Others, IInv, ImageKept, Owns, BuildInv, Builds,
     Build, PlaceInv, Placed, There, In, SameName
<1> QED BY <1>4, <1>5, <1>6, <1>7, <1>8, <1>9, <1>10, <1>11, <1>12, <1>13, <1>14, <1>15, <1>16,
           <1>17 DEF IInv

\* give_cpu marks the caller to be passed over.
LEMMA GiveCpuStep ==
  ASSUME IInv, NEW p \in Slots, GiveCpu(p)
  PROVE  IInv' /\ StartsNone /\ RousesNone /\ TreeKept /\ ImageKept
<1> USE DEF None, initproc
<1> DEFINE s == [ptable[p] EXCEPT !.state = "RUNNABLE", !.skip = TRUE]
<1>1. s \in Entries /\ ptable' = [ptable EXCEPT ![p] = s]
  <2>1. ptable[p] \in Entries
    BY DEF IInv, Types, PtableOK
  <2> QED BY <2>1 DEF Entries, States, GiveCpu, IInv, Types, PtableOK
<1>2. /\ Others(p) /\ SameName(ptable'[p], ptable[p]) /\ SameNap(ptable'[p], ptable[p])
      /\ ptable'[p].state = "RUNNABLE" /\ ptable'[p].ec = ptable[p].ec
  BY <1>1 DEF IInv, Types, PtableOK, Entries, Others, SameName, SameNap
<1> HIDE DEF s
<1>3. /\ ptable[p].state = "RUNNING" /\ holder = None /\ pc[p] \in {"user", "giving"}
      /\ Goto(p, "given") /\ Moves(p, "given")
      /\ UNCHANGED <<holder, nextpid, ticks, tickslock, uvmrefcount, vm, local>>
  BY GotoMoves DEF IInv, GiveCpu, Enter, At, In, LockFree, Types
<1>4. Types'
  BY <1>1, <1>3 DEF IInv, Types, PtableOK, LocksOK, MemoryOK, StackOK, Locations, Goto
<1>5. PlaceInv'
  BY SlotsAreMany, <1>1, <1>2, <1>3 DEF Moves, Others, IInv, PlaceInv, Placed, In, Ticks, SameNap
<1>6. BuildInv'
  BY SlotsAreMany, <1>1, <1>2, <1>3 DEF Moves, Others, IInv, BuildInv, Builds, Build, In
<1>7. ParentInv'
  BY SlotsAreMany, <1>1, <1>2, <1>3 DEF Moves, Others, IInv, ParentInv, BuildInv, Builds, Build,
     In, Alive, SameName
<1>8. PidInv'
  BY SlotsAreMany, <1>1, <1>2, <1>3 DEF Moves, Others, IInv, PidInv, BuildInv, Builds, Build,
     PlaceInv, Placed, In, SameName
<1>9. ImageInv'
  BY SlotsAreMany, <1>1, <1>2, <1>3 DEF Moves, Others, IInv, ImageInv, BuildInv, Builds, Build,
     There, In, SameName
<1>10. ForkInv'
  <2> SUFFICES ASSUME NEW q \in Slots, NEW c \in Slots,
                      pc'[q] \in {"forked", "giving", "given"}, local'[q].np = c
               PROVE  Forked(q, c)'
    BY DEF ForkInv
  <2> QED BY SlotsAreMany, <1>1, <1>2, <1>3 DEF IInv, Moves, Others, ForkInv, Forked, In, There,
             PlaceInv, Placed, SameName
<1>11. NapInv'
  BY SlotsAreMany, <1>1, <1>2, <1>3 DEF Moves, Others, IInv, NapInv, Napping, PlaceInv, Placed,
     In, NapOver, Heard, SameNap
<1>12. WaitersCanBeWoken'
  BY SlotsAreMany, <1>1, <1>2, <1>3 DEF Moves, Others, IInv, WaitersCanBeWoken, In, Children,
     SameName, SameNap
<1>13. StartsNone
  BY <1>1, <1>2, <1>3 DEF StartsNone, Running, In, Others
<1>14. CpusInv'
  BY IInv, <1>13, FewerRun DEF IInv, StartsNone
<1>15. RousesNone
  BY <1>1, <1>2, <1>3 DEF RousesNone, In, Others, SameNap
<1>16. TreeKept
  BY <1>1, <1>2, <1>3 DEF TreeKept, There, In, Others, SameName
<1>17. ImageKept
  BY SlotsAreMany, <1>1, <1>2, <1>3 DEF Moves, Others, IInv, ImageKept, Owns, BuildInv, Builds,
     Build, PlaceInv, Placed, There, In, SameName
<1> QED BY <1>4, <1>5, <1>6, <1>7, <1>8, <1>9, <1>10, <1>11, <1>12, <1>13, <1>14, <1>15, <1>16,
           <1>17 DEF IInv
-----------------------------------------------------------------------------
(* The invariant: completion times and exec *)

\* remain stores a completion time.
LEMMA RemainStep ==
  ASSUME IInv, NEW p \in Slots, Remain(p)
  PROVE  IInv' /\ StartsNone /\ RousesNone /\ TreeKept /\ ImageKept
<1> USE DEF None, initproc
<1>1. PICK s \in Entries :
        /\ ptable' = [ptable EXCEPT ![p] = s] /\ s.state = ptable[p].state
        /\ SameName(s, ptable[p]) /\ SameNap(s, ptable[p])
  <2>1. PICK t \in Times :
          \/ ptable' = [ptable EXCEPT ![p].ec = t, ![p].globalTick = ticks]
          \/ ptable' = [ptable EXCEPT ![p].ec = t]
    BY DEF Remain
  <2>2. ptable[p] \in Entries /\ t \in Int /\ ticks \in 0..MaxTicks
    BY DEF IInv, Types, PtableOK, LocksOK
  <2> DEFINE s == [ptable[p] EXCEPT !.ec = t, !.globalTick = ticks]
             r == [ptable[p] EXCEPT !.ec = t]
  <2>3. s \in Entries /\ r \in Entries
    BY <2>2 DEF Entries
  <2>4. ptable' = [ptable EXCEPT ![p] = s] \/ ptable' = [ptable EXCEPT ![p] = r]
    BY <2>1 DEF IInv, Types, PtableOK
  <2>5. \A e \in {s, r} : e.state = ptable[p].state /\ SameName(e, ptable[p]) /\ SameNap(e, ptable[p])
    BY <2>2 DEF Entries, SameName, SameNap
  <2> HIDE DEF s, r
  <2> QED BY <2>3, <2>4, <2>5
<1>2. /\ Others(p) /\ SameName(ptable'[p], ptable[p]) /\ SameNap(ptable'[p], ptable[p])
      /\ ptable'[p].state = ptable[p].state
  BY <1>1 DEF IInv, Types, PtableOK, Others
<1>3. /\ ptable[p].state = "RUNNING" /\ holder = None /\ pc[p] = "user"
      /\ \/ Goto(p, "user") /\ Moves(p, "user")
         \/ Goto(p, "yield") /\ Moves(p, "yield")
      /\ UNCHANGED <<holder, nextpid, ticks, tickslock, uvmrefcount, vm, local>>
  <2>1. Goto(p, "user") \/ Goto(p, "yield")
    BY DEF IInv, Types, StackOK, Remain, Enter, At, Goto
  <2> QED BY <2>1, GotoMoves DEF IInv, Types, Remain, Enter, At, In, LockFree
<1>4. Types'
  BY <1>1, <1>3 DEF IInv, Types, PtableOK, LocksOK, MemoryOK, StackOK, Locations, Goto
<1>5. PlaceInv'
  BY SlotsAreMany, <1>1, <1>2, <1>3 DEF Moves, Others, IInv, PlaceInv, Placed, In, Ticks, SameNap
<1>6. BuildInv'
  BY SlotsAreMany, <1>1, <1>2, <1>3 DEF Moves, Others, IInv, BuildInv, Builds, Build, In
<1>7. ParentInv'
  BY SlotsAreMany, <1>1, <1>2, <1>3 DEF Moves, Others, IInv, ParentInv, BuildInv, Builds, Build,
     In, Alive, SameName
<1>8. PidInv'
  BY SlotsAreMany, <1>1, <1>2, <1>3 DEF Moves, Others, IInv, PidInv, BuildInv, Builds, Build,
     PlaceInv, Placed, In, SameName
<1>9. ImageInv'
  BY SlotsAreMany, <1>1, <1>2, <1>3 DEF Moves, Others, IInv, ImageInv, BuildInv, Builds, Build,
     There, In, SameName
<1>10. ForkInv'
  <2> SUFFICES ASSUME NEW q \in Slots, NEW c \in Slots,
                      pc'[q] \in {"forked", "giving", "given"}, local'[q].np = c
               PROVE  Forked(q, c)'
    BY DEF ForkInv
  <2> QED BY SlotsAreMany, <1>1, <1>2, <1>3 DEF IInv, Moves, Others, ForkInv, Forked, In, There,
             PlaceInv, Placed, SameName
<1>11. NapInv'
  BY SlotsAreMany, <1>1, <1>2, <1>3 DEF Moves, Others, IInv, NapInv, Napping, PlaceInv, Placed,
     In, NapOver, Heard, SameNap
<1>12. WaitersCanBeWoken'
  BY SlotsAreMany, <1>1, <1>2, <1>3 DEF Moves, Others, IInv, WaitersCanBeWoken, In, Children,
     SameName, SameNap
<1>13. StartsNone
  BY <1>1, <1>2, <1>3 DEF StartsNone, Running, In, Others
<1>14. CpusInv'
  BY IInv, <1>13, FewerRun DEF IInv, StartsNone
<1>15. RousesNone
  BY <1>1, <1>2, <1>3 DEF RousesNone, In, Others, SameNap
<1>16. TreeKept
  BY <1>1, <1>2, <1>3 DEF TreeKept, There, In, Others, SameName
<1>17. ImageKept
  BY SlotsAreMany, <1>1, <1>2, <1>3 DEF Moves, Others, IInv, ImageKept, Owns, BuildInv, Builds,
     Build, PlaceInv, Placed, There, In, SameName
<1> QED BY <1>4, <1>5, <1>6, <1>7, <1>8, <1>9, <1>10, <1>11, <1>12, <1>13, <1>14, <1>15, <1>16,
           <1>17 DEF IInv

\* exec2 stores a completion time, without the lock.
LEMMA Exec2Step ==
  ASSUME IInv, NEW p \in Slots, Exec2(p)
  PROVE  IInv' /\ StartsNone /\ RousesNone /\ TreeKept /\ ImageKept
<1> USE DEF None, initproc
<1>1. PICK s \in Entries :
        /\ ptable' = [ptable EXCEPT ![p] = s] /\ s.state = ptable[p].state
        /\ SameName(s, ptable[p]) /\ SameNap(s, ptable[p])
  <2>1. PICK t \in Times : ptable' = [ptable EXCEPT ![p].ec = t]
    BY DEF Exec2
  <2>2. ptable[p] \in Entries /\ t \in Int
    BY DEF IInv, Types, PtableOK
  <2> DEFINE s == [ptable[p] EXCEPT !.ec = t]
  <2>3. s \in Entries /\ ptable' = [ptable EXCEPT ![p] = s]
    BY <2>1, <2>2 DEF Entries, IInv, Types, PtableOK
  <2>4. s.state = ptable[p].state /\ SameName(s, ptable[p]) /\ SameNap(s, ptable[p])
    BY <2>2 DEF Entries, SameName, SameNap
  <2> HIDE DEF s
  <2> QED BY <2>3, <2>4
<1>2. /\ Others(p) /\ SameName(ptable'[p], ptable[p]) /\ SameNap(ptable'[p], ptable[p])
      /\ ptable'[p].state = ptable[p].state
  BY <1>1 DEF IInv, Types, PtableOK, Others
<1>3. /\ ptable[p].state = "RUNNING" /\ pc[p] = "user"
      /\ \/ Goto(p, "exec2") /\ Moves(p, "exec2")
         \/ Goto(p, "exec") /\ Moves(p, "exec")
      /\ UNCHANGED <<holder, nextpid, ticks, tickslock, uvmrefcount, vm, local>>
  BY GotoMoves DEF IInv, Types, Exec2, Enter, At, In
<1>4. Types'
  BY <1>1, <1>3 DEF IInv, Types, PtableOK, LocksOK, MemoryOK, StackOK, Locations, Goto
<1>5. PlaceInv'
  BY SlotsAreMany, <1>1, <1>2, <1>3 DEF Moves, Others, IInv, PlaceInv, Placed, In, Ticks, SameNap
<1>6. BuildInv'
  BY SlotsAreMany, <1>1, <1>2, <1>3 DEF Moves, Others, IInv, BuildInv, Builds, Build, In
<1>7. ParentInv'
  BY SlotsAreMany, <1>1, <1>2, <1>3 DEF Moves, Others, IInv, ParentInv, BuildInv, Builds, Build,
     In, Alive, SameName
<1>8. PidInv'
  BY SlotsAreMany, <1>1, <1>2, <1>3 DEF Moves, Others, IInv, PidInv, BuildInv, Builds, Build,
     PlaceInv, Placed, In, SameName
<1>9. ImageInv'
  BY SlotsAreMany, <1>1, <1>2, <1>3 DEF Moves, Others, IInv, ImageInv, BuildInv, Builds, Build,
     There, In, SameName
<1>10. ForkInv'
  <2> SUFFICES ASSUME NEW q \in Slots, NEW c \in Slots,
                      pc'[q] \in {"forked", "giving", "given"}, local'[q].np = c
               PROVE  Forked(q, c)'
    BY DEF ForkInv
  <2> QED BY SlotsAreMany, <1>1, <1>2, <1>3 DEF IInv, Moves, Others, ForkInv, Forked, In, There,
             PlaceInv, Placed, SameName
<1>11. NapInv'
  BY SlotsAreMany, <1>1, <1>2, <1>3 DEF Moves, Others, IInv, NapInv, Napping, PlaceInv, Placed,
     In, NapOver, Heard, SameNap
<1>12. WaitersCanBeWoken'
  BY SlotsAreMany, <1>1, <1>2, <1>3 DEF Moves, Others, IInv, WaitersCanBeWoken, In, Children,
     SameName, SameNap
<1>13. StartsNone
  BY <1>1, <1>2, <1>3 DEF StartsNone, Running, In, Others
<1>14. CpusInv'
  BY IInv, <1>13, FewerRun DEF IInv, StartsNone
<1>15. RousesNone
  BY <1>1, <1>2, <1>3 DEF RousesNone, In, Others, SameNap
<1>16. TreeKept
  BY <1>1, <1>2, <1>3 DEF TreeKept, There, In, Others, SameName
<1>17. ImageKept
  BY SlotsAreMany, <1>1, <1>2, <1>3 DEF Moves, Others, IInv, ImageKept, Owns, BuildInv, Builds,
     Build, PlaceInv, Placed, There, In, SameName
<1> QED BY <1>4, <1>5, <1>6, <1>7, <1>8, <1>9, <1>10, <1>11, <1>12, <1>13, <1>14, <1>15, <1>16,
           <1>17 DEF IInv

\* exec replaces the image or fails.
LEMMA ExecStep ==
  ASSUME IInv, NEW p \in Slots, Exec(p)
  PROVE  IInv' /\ StartsNone /\ RousesNone /\ TreeKept
<1> USE DEF None, initproc
<1>1. ptable[p].pgdir \in Pgdirs
  BY DEF Exec, Enter, At, In, There, IInv, ImageInv
<1>2. PICK s \in Entries :
        /\ ptable' = [ptable EXCEPT ![p] = s] /\ s.state = ptable[p].state
        /\ s.pid = ptable[p].pid /\ s.parent = ptable[p].parent /\ s.pgdir \in Pgdirs /\ SameNap(s, ptable[p]) /\ SameTimes(s, ptable[p])
        /\ MemoryOK'
  <2>1. ptable[p] \in Entries
    BY DEF IInv, Types, PtableOK
  <2>2. CASE UNCHANGED <<ptable, uvmrefcount, vm>>
    BY <2>1, <2>2, <1>1 DEF IInv, Types, PtableOK, MemoryOK, SameName, SameNap, SameTimes
  <2>3. CASE /\ Pgdirs # vm
             /\ ptable' = [ptable EXCEPT ![p].pgdir = FreshPgdir]
             /\ Freevm(ptable[p].pgdir, {FreshPgdir})
    <3> DEFINE s == [ptable[p] EXCEPT !.pgdir = FreshPgdir]
    <3>1. FreshPgdir \in Pgdirs
      BY <2>3, FreshIsFree DEF IInv, Types
    <3>2. s \in Entries /\ ptable' = [ptable EXCEPT ![p] = s] /\ MemoryOK'
      BY <2>1, <2>3, <3>1, FreevmOK DEF Entries, IInv, Types, PtableOK
    <3>3. /\ s.state = ptable[p].state /\ s.pid = ptable[p].pid /\ s.parent = ptable[p].parent /\ s.pgdir \in Pgdirs
          /\ SameNap(s, ptable[p]) /\ SameTimes(s, ptable[p])
      BY <2>1, <3>1 DEF Entries, SameName, SameNap, SameTimes
    <3> HIDE DEF s
    <3> QED BY <3>2, <3>3
  <2> QED BY <2>2, <2>3 DEF Exec
<1>3. /\ Others(p) /\ ptable'[p].pid = ptable[p].pid /\ ptable'[p].parent = ptable[p].parent
      /\ ptable'[p].pgdir \in Pgdirs /\ SameNap(ptable'[p], ptable[p])
      /\ SameTimes(ptable'[p], ptable[p]) /\ ptable'[p].state = ptable[p].state
  BY <1>2 DEF IInv, Types, PtableOK, Others
<1>4. /\ ptable[p].state = "RUNNING" /\ pc[p] \in {"user", "exec"}
      /\ Moves(p, "user") /\ Frames(p) /\ local'[p].np = None /\ StackOK'
      /\ UNCHANGED <<holder, nextpid, ticks, tickslock>>
  BY ReturnMoves DEF IInv, Types, Exec, Enter, At, In, NoLocal
<1>5. Types'
  BY <1>2, <1>4 DEF IInv, Types, PtableOK, LocksOK
<1>6. PlaceInv'
  BY SlotsAreMany, <1>2, <1>3, <1>4 DEF Moves, Frames, Others, IInv, PlaceInv, Placed, In,
     Ticks, SameNap
<1>7. BuildInv'
  BY SlotsAreMany, <1>2, <1>3, <1>4 DEF Moves, Frames, Others, IInv, BuildInv, Builds, Build, In
<1>8. ParentInv'
  BY SlotsAreMany, <1>2, <1>3, <1>4 DEF Moves, Frames, Others, IInv, ParentInv, BuildInv,
     Builds, Build, In, Alive, SameName
<1>9. PidInv'
  BY SlotsAreMany, <1>2, <1>3, <1>4 DEF Moves, Frames, Others, IInv, PidInv, BuildInv, Builds,
     Build, PlaceInv, Placed, In, SameName
<1>10. ImageInv'
  BY SlotsAreMany, <1>2, <1>3, <1>4 DEF Moves, Frames, Others, IInv, ImageInv, BuildInv, Builds,
     Build, There, In, SameName
<1>11. ForkInv'
  <2> SUFFICES ASSUME NEW q \in Slots, NEW c \in Slots,
                      pc'[q] \in {"forked", "giving", "given"}, local'[q].np = c
               PROVE  Forked(q, c)'
    BY DEF ForkInv
  <2> QED BY SlotsAreMany, <1>2, <1>3, <1>4 DEF IInv, Moves, Frames, Others, ForkInv, Forked,
             In, There, PlaceInv, Placed, SameName, SameTimes
<1>12. NapInv'
  BY SlotsAreMany, <1>2, <1>3, <1>4 DEF Moves, Frames, Others, IInv, NapInv, Napping, PlaceInv,
     Placed, In, NapOver, Heard, SameNap
<1>13. WaitersCanBeWoken'
  BY SlotsAreMany, <1>2, <1>3, <1>4 DEF Moves, Frames, Others, IInv, WaitersCanBeWoken, In,
     Children, SameName, SameNap
<1>14. StartsNone
  BY <1>2, <1>3, <1>4 DEF StartsNone, Running, In, Others
<1>15. CpusInv'
  BY IInv, <1>14, FewerRun DEF IInv, StartsNone
<1>16. RousesNone
  BY <1>2, <1>3, <1>4 DEF RousesNone, In, Others, SameNap
<1>17. TreeKept
  BY <1>2, <1>3, <1>4 DEF TreeKept, There, In, Others, SameName
<1> QED BY <1>5, <1>6, <1>7, <1>8, <1>9, <1>10, <1>11, <1>12, <1>13, <1>14, <1>15, <1>16,
           <1>17 DEF IInv
-----------------------------------------------------------------------------
(* The invariant: fork and clone *)

\* The locked part of allocproc, called by fork and clone.
LEMMA AllocStep ==
  ASSUME IInv, NEW p \in Slots, NEW c, NEW l \in {"fork", "clone"}, Alloc(p, c, l)
  PROVE  IInv' /\ StartsNone /\ RousesNone /\ TreeKept /\ ImageKept
<1> USE DEF None, initproc
<1>1. PICK np \in Slots, s \in Entries :
        /\ In(np, "UNUSED") /\ ptable' = [ptable EXCEPT ![np] = s]
        /\ s.state = "EMBRYO" /\ s.pid = nextpid /\ s.parent = ptable[np].parent
        /\ local' = [local EXCEPT ![p].np = np]
  <2>1. PICK np \in Slots :
          /\ In(np, "UNUSED") /\ local' = [local EXCEPT ![p].np = np]
          /\ ptable' = [ptable EXCEPT ![np].state = "EMBRYO", ![np].pid = nextpid,
                                      ![np].sleepticks = -1, ![np].chan = None]
    BY DEF Alloc
  <2>2. ptable[np] \in Entries /\ nextpid \in 0..MaxPid
    BY DEF IInv, Types, PtableOK, LocksOK, Alloc
  <2> DEFINE s == [ptable[np] EXCEPT !.state = "EMBRYO", !.pid = nextpid,
                                     !.sleepticks = -1, !.chan = None]
  <2>3. s \in Entries
    <3>1. [ptable[np] EXCEPT !.state = "EMBRYO", !.pid = nextpid] \in Entries
      BY <2>2 DEF Entries, States
    <3>2. 0 \in 0..(NPROC + 1) /\ -1 \in Int
      OBVIOUS
    <3> QED BY <3>1, <3>2 DEF Entries
  <2>4. ptable' = [ptable EXCEPT ![np] = s]
    BY <2>1 DEF IInv, Types, PtableOK
  <2>5. s.state = "EMBRYO" /\ s.pid = nextpid /\ s.parent = ptable[np].parent
    BY <2>2 DEF Entries
  <2> HIDE DEF s
  <2> QED BY <2>1, <2>3, <2>4, <2>5
<1>2. /\ Others(np) /\ ptable'[np].state = "EMBRYO" /\ ptable'[np].pid = nextpid
      /\ ptable[np].state = "UNUSED" /\ ptable'[np].parent = ptable[np].parent
      /\ Frames(p) /\ local'[p].np = np /\ local' \in [Slots -> Locals]
  BY <1>1 DEF IInv, Types, PtableOK, Others, StackOK, Frames, Locals, In
<1>3. /\ ptable[p].state = "RUNNING" /\ holder = None /\ pc[p] = "user" /\ nextpid <= MaxPid
      /\ Moves(p, l) /\ Goto(p, l) /\ nextpid' = nextpid + 1 /\ nextpid \in Nat
      /\ UNCHANGED <<holder, ticks, tickslock, uvmrefcount, vm>>
  BY GotoMoves DEF IInv, Types, LocksOK, Alloc, Enter, At, In, LockFree
<1>4. Types'
  BY <1>1, <1>2, <1>3 DEF IInv, Types, PtableOK, LocksOK, MemoryOK, StackOK, Locations, Goto
<1>5. PlaceInv'
  BY SlotsAreMany, <1>1, <1>2, <1>3 DEF Moves, Frames, Others, IInv, PlaceInv, Placed, In, Ticks
<1>6. BuildInv'
  BY SlotsAreMany, <1>1, <1>2, <1>3 DEF Moves, Frames, Others, IInv, BuildInv, Builds, Build, In
<1>7. ParentInv'
  BY SlotsAreMany, <1>1, <1>2, <1>3 DEF Moves, Frames, Others, IInv, ParentInv, BuildInv,
     Builds, Build, In, Alive
<1>8. PidInv'
  <2>1. \A q \in Slots : ptable'[q].state # "UNUSED" => ptable'[q].pid \in 1..(nextpid' - 1)
    BY <1>2, <1>3 DEF IInv, PidInv, In, Others
  <2>2. \A q, r \in Slots : ptable'[q].state # "UNUSED" /\ ptable'[r].state # "UNUSED"
                            /\ ptable'[q].pid = ptable'[r].pid => q = r
    BY <1>2, <1>3 DEF IInv, PidInv, In, Others
  <2>3. \A q, r \in Slots : Builds(q, r)' => ptable'[r].pid > ptable'[q].pid
    BY <1>2, <1>3 DEF IInv, PidInv, BuildInv, Builds, Build, PlaceInv, Placed, In, Others,
       Moves, Frames
  <2> QED BY <2>1, <2>2, <2>3 DEF PidInv, In
<1>9. ImageInv'
  BY SlotsAreMany, <1>1, <1>2, <1>3 DEF Moves, Frames, Others, IInv, ImageInv, BuildInv, Builds,
     Build, There, In
<1>10. ForkInv'
  <2> SUFFICES ASSUME NEW q \in Slots, NEW ch \in Slots,
                      pc'[q] \in {"forked", "giving", "given"}, local'[q].np = ch
               PROVE  Forked(q, ch)'
    BY DEF ForkInv
  <2> QED BY SlotsAreMany, <1>1, <1>2, <1>3 DEF IInv, Moves, Frames, Others, ForkInv, Forked,
             In, There, PlaceInv, Placed, BuildInv, Builds, Build
<1>11. NapInv'
  BY SlotsAreMany, <1>1, <1>2, <1>3 DEF Moves, Frames, Others, IInv, NapInv, Napping, PlaceInv,
     Placed, In, NapOver, Heard
<1>12. WaitersCanBeWoken'
  BY SlotsAreMany, <1>1, <1>2, <1>3 DEF Moves, Frames, Others, IInv, WaitersCanBeWoken, In, Children
<1>13. StartsNone
  BY <1>1, <1>2, <1>3 DEF StartsNone, Running, In, Others
<1>14. CpusInv'
  BY IInv, <1>13, FewerRun DEF IInv, StartsNone
<1>15. RousesNone
  BY <1>1, <1>2, <1>3 DEF RousesNone, In, Others
<1>16. TreeKept
  BY <1>1, <1>2, <1>3 DEF TreeKept, There, In, Others
<1>17. ImageKept
  BY SlotsAreMany, <1>1, <1>2, <1>3 DEF Moves, Frames, Others, IInv, ImageKept, Owns, BuildInv,
     Builds, Build, PlaceInv, Placed, There, In
<1> QED BY <1>4, <1>5, <1>6, <1>7, <1>8, <1>9, <1>10, <1>11, <1>12, <1>13, <1>14, <1>15, <1>16,
           <1>17 DEF IInv

\* A failed fork or clone gives the slot back.
LEMMA AllocFailStep ==
  ASSUME IInv, NEW p \in Slots, AllocFail(p)
  PROVE  IInv' /\ StartsNone /\ RousesNone /\ TreeKept /\ ImageKept
<1> USE DEF None, initproc
<1> DEFINE np == local[p].np
<1>1. /\ np \in Slots /\ Builds(p, np) /\ ptable[np].state = "EMBRYO" /\ ptable[np].parent = None
      /\ ptable[p].state = "RUNNING" /\ pc[p] \in {"fork", "clone"}
  BY DEF IInv, BuildInv, ParentInv, Builds, Build, AllocFail, At, In
<1>2. PICK s \in Entries :
        ptable' = [ptable EXCEPT ![np] = s] /\ s.state = "UNUSED" /\ s.parent = None
  <2>1. PICK e \in {ptable[np], Fresh(np)} : ptable' = [ptable EXCEPT ![np] = [e EXCEPT !.state = "UNUSED"]]
    BY <1>1 DEF AllocFail
  <2>2. ptable[np] \in Entries /\ ticks \in 0..MaxTicks
    BY <1>1 DEF IInv, Types, PtableOK, LocksOK
  <2>3. Fresh(np) \in Entries /\ Fresh(np).parent = None
    BY <2>2, <1>1, FreshOK DEF SameName
  <2> DEFINE s == [e EXCEPT !.state = "UNUSED"]
  <2>4. e \in Entries /\ e.parent = None
    BY <2>1, <2>2, <2>3, <1>1
  <2>5. s \in Entries /\ s.state = "UNUSED" /\ s.parent = None
    BY <2>4 DEF Entries, States
  <2> QED BY <2>1, <2>5
<1>3. /\ Others(np) /\ ptable'[np].state = "UNUSED" /\ ptable'[np].parent = None
      /\ Moves(p, "user") /\ Frames(p) /\ local'[p].np = None /\ StackOK'
      /\ UNCHANGED <<holder, nextpid, ticks, tickslock, uvmrefcount, vm>>
  <2>1. Others(np) /\ ptable'[np].state = "UNUSED" /\ ptable'[np].parent = None
    BY <1>1, <1>2 DEF IInv, Types, PtableOK, Others
  <2> QED BY <2>1, ReturnMoves DEF IInv, Types, AllocFail, NoLocal
<1> HIDE DEF np
<1>4. Types'
  BY <1>1, <1>2, <1>3 DEF IInv, Types, PtableOK, LocksOK, MemoryOK
<1>5. PlaceInv'
  BY SlotsAreMany, <1>1, <1>3 DEF Moves, Frames, Others, IInv, PlaceInv, Placed, In, Ticks
<1>6. BuildInv'
  BY SlotsAreMany, <1>1, <1>2, <1>3 DEF Moves, Frames, Others, IInv, BuildInv, Builds, Build, In
<1>7. ParentInv'
  BY SlotsAreMany, <1>1, <1>2, <1>3 DEF Moves, Frames, Others, IInv, ParentInv, BuildInv,
     Builds, Build, In, Alive, SameName
<1>8. PidInv'
  BY SlotsAreMany, <1>1, <1>2, <1>3 DEF Moves, Frames, Others, IInv, PidInv, BuildInv, Builds,
     Build, PlaceInv, Placed, In, SameName
<1>9. ImageInv'
  BY SlotsAreMany, <1>1, <1>2, <1>3 DEF Moves, Frames, Others, IInv, ImageInv, BuildInv, Builds,
     Build, There, In, SameName
<1>10. ForkInv'
  <2> SUFFICES ASSUME NEW q \in Slots, NEW c \in Slots,
                      pc'[q] \in {"forked", "giving", "given"}, local'[q].np = c
               PROVE  Forked(q, c)'
    BY DEF ForkInv
  <2> QED BY SlotsAreMany, <1>1, <1>2, <1>3 DEF IInv, Moves, Frames, Others, ForkInv, Forked,
             In, There, PlaceInv, Placed, SameName
<1>11. NapInv'
  BY SlotsAreMany, <1>1, <1>2, <1>3 DEF Moves, Frames, Others, IInv, NapInv, Napping, PlaceInv,
     Placed, In, NapOver, Heard
<1>12. WaitersCanBeWoken'
  BY SlotsAreMany, <1>1, <1>2, <1>3 DEF Moves, Frames, Others, IInv, WaitersCanBeWoken, In,
     Children, SameName
<1>13. StartsNone
  BY <1>1, <1>2, <1>3 DEF StartsNone, Running, In, Others
<1>14. CpusInv'
  BY IInv, <1>13, FewerRun DEF IInv, StartsNone
<1>15. RousesNone
  BY <1>1, <1>2, <1>3 DEF RousesNone, In, Others
<1>16. TreeKept
  BY <1>1, <1>2, <1>3 DEF TreeKept, There, In, Others, SameName
<1>17. ImageKept
  BY SlotsAreMany, <1>1, <1>2, <1>3 DEF Moves, Frames, Others, IInv, ImageKept, Owns, BuildInv,
     Builds, Build, PlaceInv, Placed, There, In, SameName
<1> QED BY <1>4, <1>5, <1>6, <1>7, <1>8, <1>9, <1>10, <1>11, <1>12, <1>13, <1>14, <1>15, <1>16,
           <1>17 DEF IInv

\* fork fills the EMBRYO in.
LEMMA ForkInheritStep ==
  ASSUME IInv, NEW p \in Slots, ForkInherit(p)
  PROVE  IInv' /\ StartsNone /\ RousesNone /\ TreeKept
<1> USE DEF None, initproc
<1> DEFINE np == local[p].np
<1>1. /\ np \in Slots /\ Builds(p, np) /\ ptable[np].state = "EMBRYO"
      /\ ptable[p].state = "RUNNING" /\ np # p /\ pc[p] = "fork"
      /\ ptable[np] \in Entries /\ ptable[p] \in Entries /\ ticks \in 0..MaxTicks
  <2>1. pc[p] = "fork" /\ ptable[p].state = "RUNNING"
    BY DEF ForkInherit, At, In
  <2>2. np \in Slots /\ Builds(p, np) /\ ptable[np].state = "EMBRYO"
    BY <2>1 DEF IInv, BuildInv, Builds, Build, In
  <2> QED BY <2>1, <2>2 DEF IInv, Types, PtableOK, LocksOK
<1>2. PICK s \in Entries, e \in Entries :
        /\ ptable' = [ptable EXCEPT ![p] = s, ![np] = e]
        /\ s.state = ptable[p].state /\ SameName(s, ptable[p]) /\ SameNap(s, ptable[p])
        /\ e.state = ptable[np].state /\ e.pid = ptable[np].pid /\ SameNap(e, ptable[np])
        /\ e.parent = p /\ e.pgdir \in Pgdirs /\ e.ec = s.ec /\ ~e.skip
        /\ FreshPgdir \in Pgdirs
  <2> DEFINE s == [ptable[p] EXCEPT !.ec = Charged(p), !.globalTick = ticks]
             e == [Fresh(np) EXCEPT !.parent = p, !.pgdir = FreshPgdir, !.ec = Charged(p)]
  <2>1. Charged(p) \in Int
    BY <1>1 DEF Charged, Elapsed, Entries
  <2>2. FreshPgdir \in Pgdirs
    BY FreshIsFree DEF IInv, Types, ForkInherit
  <2>3. s \in Entries
    <3>1. [ptable[p] EXCEPT !.ec = Charged(p)] \in Entries
      BY <1>1, <2>1 DEF Entries
    <3> QED BY <1>1, <3>1 DEF Entries
  <2>4. s.state = ptable[p].state /\ SameName(s, ptable[p]) /\ SameNap(s, ptable[p]) /\ s.ec = Charged(p)
    BY <1>1 DEF Entries, SameName, SameNap
  <2>5. e \in Entries
    <3>1. [Fresh(np) EXCEPT !.parent = p] \in Entries
      BY <1>1, FreshOK DEF Entries
    <3>2. [Fresh(np) EXCEPT !.parent = p, !.pgdir = FreshPgdir] \in Entries
      BY <3>1, <2>2 DEF Entries
    <3> QED BY <3>2, <2>1 DEF Entries
  <2>6. /\ e.state = ptable[np].state /\ e.pid = ptable[np].pid /\ SameNap(e, ptable[np])
        /\ e.parent = p /\ e.pgdir \in Pgdirs /\ e.ec = Charged(p) /\ ~e.skip
    BY <1>1, <2>2, FreshOK DEF Entries, SameName, SameNap
  <2>7. ptable' = [ptable EXCEPT ![p] = s, ![np] = e]
    BY <1>1 DEF ForkInherit, IInv, Types, PtableOK
  <2> HIDE DEF s, e
  <2> QED BY <2>2, <2>3, <2>4, <2>5, <2>6, <2>7
<1>3. /\ Moves(p, "forked") /\ Goto(p, "forked")
      /\ vm' = vm \union {FreshPgdir}
      /\ UNCHANGED <<holder, nextpid, ticks, tickslock, uvmrefcount, local>>
  BY GotoMoves DEF IInv, Types, ForkInherit
<1>4. /\ \A q \in Slots \ {p, np} : ptable'[q] = ptable[q]
      /\ ptable'[p].state = "RUNNING" /\ SameName(ptable'[p], ptable[p]) /\ SameNap(ptable'[p], ptable[p])
      /\ ptable'[np].state = "EMBRYO" /\ ptable'[np].pid = ptable[np].pid /\ SameNap(ptable'[np], ptable[np])
      /\ ptable'[np].parent = p /\ ptable'[np].pgdir \in Pgdirs /\ ptable'[np].ec = ptable'[p].ec /\ ~ptable'[np].skip
  BY <1>1, <1>2 DEF IInv, Types, PtableOK
<1> HIDE DEF np
<1>5. Types'
  BY <1>1, <1>2, <1>3 DEF IInv, Types, PtableOK, LocksOK, MemoryOK, StackOK, Locations, Goto
<1>6. PlaceInv'
  BY SlotsAreMany, <1>1, <1>3, <1>4 DEF Moves, IInv, PlaceInv, Placed, In, Ticks, SameNap
<1>7. BuildInv'
  BY SlotsAreMany, <1>1, <1>3, <1>4 DEF Moves, IInv, BuildInv, Builds, Build, In
<1>8. ParentInv'
  BY SlotsAreMany, <1>1, <1>3, <1>4 DEF Moves, IInv, ParentInv, BuildInv, Builds, Build, In,
     Alive, SameName
<1>9. PidInv'
  BY SlotsAreMany, <1>1, <1>3, <1>4 DEF Moves, IInv, PidInv, BuildInv, Builds, Build, PlaceInv,
     Placed, In, SameName
<1>10. ImageInv'
  BY SlotsAreMany, <1>1, <1>3, <1>4 DEF Moves, IInv, ImageInv, BuildInv, Builds, Build, There,
     In, SameName
<1>11. ForkInv'
  <2> SUFFICES ASSUME NEW q \in Slots, NEW c \in Slots,
                      pc'[q] \in {"forked", "giving", "given"}, local'[q].np = c
               PROVE  Forked(q, c)'
    BY DEF ForkInv
  <2> QED BY SlotsAreMany, <1>1, <1>3, <1>4 DEF IInv, Moves, ForkInv, Forked, In, There,
             PlaceInv, Placed, SameName, PidInv, BuildInv, Builds, Build
<1>12. NapInv'
  BY SlotsAreMany, <1>1, <1>3, <1>4 DEF Moves, IInv, NapInv, Napping, PlaceInv, Placed, In,
     NapOver, Heard, SameNap
<1>13. WaitersCanBeWoken'
  BY SlotsAreMany, <1>1, <1>3, <1>4 DEF Moves, IInv, WaitersCanBeWoken,
     ParentInv, BuildInv, Builds, Build, In, Children, SameName, SameNap
<1>14. StartsNone
  BY <1>1, <1>3, <1>4 DEF StartsNone, Running, In
<1>15. CpusInv'
  BY IInv, <1>14, FewerRun DEF IInv, StartsNone
<1>16. RousesNone
  BY <1>1, <1>3, <1>4 DEF RousesNone, In, SameNap
<1>17. TreeKept
  BY <1>1, <1>3, <1>4 DEF TreeKept, There, In, SameName
<1> QED BY <1>5, <1>6, <1>7, <1>8, <1>9, <1>10, <1>11, <1>12, <1>13, <1>14, <1>15, <1>16,
           <1>17 DEF IInv

\* clone fills the EMBRYO in and loads the count of sharers.
LEMMA CloneLoadStep ==
  ASSUME IInv, NEW p \in Slots, CloneLoad(p)
  PROVE  IInv' /\ StartsNone /\ RousesNone /\ TreeKept
<1> USE DEF None, initproc
<1> DEFINE np == local[p].np
<1>1. /\ np \in Slots /\ Builds(p, np) /\ ptable[np].state = "EMBRYO"
      /\ ptable[p].state = "RUNNING" /\ np # p /\ pc[p] = "clone"
      /\ ptable[np] \in Entries /\ ptable[p] \in Entries /\ ticks \in 0..MaxTicks
  <2>1. pc[p] = "clone" /\ ptable[p].state = "RUNNING"
    BY DEF CloneLoad, At, In
  <2>2. np \in Slots /\ Builds(p, np) /\ ptable[np].state = "EMBRYO"
    BY <2>1 DEF IInv, BuildInv, Builds, Build, In
  <2> QED BY <2>1, <2>2 DEF IInv, Types, PtableOK, LocksOK
<1>2. PICK e \in Entries :
        /\ ptable' = [ptable EXCEPT ![np] = e]
        /\ e.state = ptable[np].state /\ e.pid = ptable[np].pid /\ SameNap(e, ptable[np])
        /\ e.parent = p /\ e.pgdir \in Pgdirs
  <2> DEFINE e == [Fresh(np) EXCEPT !.parent = p, !.pgdir = ptable[p].pgdir]
  <2>1. ptable[p].pgdir \in Pgdirs \union {0}
    BY <1>1 DEF Entries
  <2>2. e \in Entries
    <3>1. [Fresh(np) EXCEPT !.parent = p] \in Entries
      BY <1>1, FreshOK DEF Entries
    <3> QED BY <3>1, <2>1 DEF Entries
  <2>3. /\ e.state = ptable[np].state /\ e.pid = ptable[np].pid /\ SameNap(e, ptable[np])
        /\ e.parent = p /\ e.pgdir \in Pgdirs
    <3>1. ptable[p].pgdir \in Pgdirs
      BY <1>1 DEF IInv, ImageInv, There, In
    <3> QED BY <1>1, <3>1, FreshOK DEF Entries, SameName, SameNap
  <2>4. ptable' = [ptable EXCEPT ![np] = e]
    BY <1>1 DEF CloneLoad, IInv, Types, PtableOK
  <2> HIDE DEF e
  <2> QED BY <2>2, <2>3, <2>4
<1>3. /\ Moves(p, "count") /\ Goto(p, "count") /\ Frames(p) /\ local'[p].np = np
      /\ local' \in [Slots -> Locals] /\ local'[p].rc \in Nat
      /\ UNCHANGED <<holder, nextpid, ticks, tickslock, uvmrefcount, vm>>
  <2>1. PICK rc : rc \in Nat /\ local' = [local EXCEPT ![p].rc = rc]
    <3> DEFINE d == ptable[p].pgdir
               rc == IF uvmrefcount[d] = -1 THEN 2 ELSE uvmrefcount[d] + 1
    <3>1. local' = [local EXCEPT ![p].rc = rc]
      BY DEF CloneLoad
    <3>2. rc \in Nat
      <4>1. d \in Pgdirs
        BY <1>1 DEF IInv, ImageInv, There, In
      <4>2. uvmrefcount[d] \in {-1} \union Nat
        BY <4>1 DEF IInv, Types, MemoryOK
      <4> QED BY <4>2
    <3> QED BY <3>1, <3>2
  <2>2. Frames(p) /\ local'[p].np = np /\ local' \in [Slots -> Locals] /\ local'[p].rc \in Nat
    BY <1>1, <2>1 DEF IInv, Types, StackOK, Frames, Locals
  <2> QED BY <2>2, GotoMoves DEF IInv, Types, CloneLoad
<1>4. /\ Others(np)
      /\ ptable'[np].state = "EMBRYO" /\ ptable'[np].pid = ptable[np].pid /\ SameNap(ptable'[np], ptable[np])
      /\ ptable'[np].parent = p /\ ptable'[np].pgdir \in Pgdirs
  BY <1>1, <1>2 DEF IInv, Types, PtableOK, Others
<1> HIDE DEF np
<1>5. Types'
  <2>1. StackOK'
    BY <1>3 DEF IInv, Types, StackOK, Locations, Goto, Moves, Frames
  <2> QED BY <1>1, <1>2, <1>3, <2>1 DEF IInv, Types, PtableOK, LocksOK, MemoryOK
<1>6. PlaceInv'
  BY SlotsAreMany, <1>1, <1>3, <1>4 DEF Moves, Frames, Others, IInv, PlaceInv, Placed, In,
     Ticks, SameNap
<1>7. BuildInv'
  BY SlotsAreMany, <1>1, <1>3, <1>4 DEF Moves, Frames, Others, IInv, BuildInv, Builds, Build, In
<1>8. ParentInv'
  BY SlotsAreMany, <1>1, <1>3, <1>4 DEF Moves, Frames, Others, IInv, ParentInv, BuildInv,
     Builds, Build, In, Alive, SameName
<1>9. PidInv'
  BY SlotsAreMany, <1>1, <1>3, <1>4 DEF Moves, Frames, Others, IInv, PidInv, BuildInv, Builds,
     Build, PlaceInv, Placed, In, SameName
<1>10. ImageInv'
  BY SlotsAreMany, <1>1, <1>3, <1>4 DEF Moves, Frames, Others, IInv, ImageInv, BuildInv, Builds,
     Build, There, In, SameName
<1>11. ForkInv'
  <2> SUFFICES ASSUME NEW q \in Slots, NEW c \in Slots,
                      pc'[q] \in {"forked", "giving", "given"}, local'[q].np = c
               PROVE  Forked(q, c)'
    BY DEF ForkInv
  <2> QED BY SlotsAreMany, <1>1, <1>3, <1>4 DEF IInv, Moves, Frames, Others, ForkInv, Forked,
             In, There, PlaceInv, Placed, SameName, BuildInv, Builds, Build
<1>12. NapInv'
  BY SlotsAreMany, <1>1, <1>3, <1>4 DEF Moves, Frames, Others, IInv, NapInv, Napping, PlaceInv,
     Placed, In, NapOver, Heard, SameNap
<1>13. WaitersCanBeWoken'
  BY SlotsAreMany, <1>1, <1>3, <1>4 DEF Moves, Others, IInv, WaitersCanBeWoken,
     ParentInv, BuildInv, Builds, Build, In, Children, SameName, SameNap
<1>14. StartsNone
  BY <1>1, <1>3, <1>4 DEF StartsNone, Running, In, Others
<1>15. CpusInv'
  BY IInv, <1>14, FewerRun DEF IInv, StartsNone
<1>16. RousesNone
  BY <1>1, <1>3, <1>4 DEF RousesNone, In, Others, SameNap
<1>17. TreeKept
  BY <1>1, <1>3, <1>4 DEF TreeKept, There, In, Others, SameName
<1> QED BY <1>5, <1>6, <1>7, <1>8, <1>9, <1>10, <1>11, <1>12, <1>13, <1>14, <1>15, <1>16,
           <1>17 DEF IInv

\* clone stores the count of sharers.
LEMMA CloneStoreStep ==
  ASSUME IInv, NEW p \in Slots, CloneStore(p)
  PROVE  IInv' /\ StartsNone /\ RousesNone /\ TreeKept
<1> USE DEF None, initproc
<1>1. /\ ptable[p].state = "RUNNING" /\ pc[p] = "count"
      /\ MemoryOK'
      /\ Moves(p, "cloned") /\ Goto(p, "cloned")
      /\ UNCHANGED <<ptable, holder, nextpid, ticks, tickslock, vm, local>>
  <2>1. local[p].rc \in Nat
    BY DEF IInv, Types, StackOK, CloneStore, At
  <2>2. MemoryOK'
    BY <2>1 DEF IInv, Types, MemoryOK, CloneStore
  <2> QED BY <2>2, GotoMoves DEF IInv, Types, CloneStore, At, In
<1>2. Types'
  BY <1>1 DEF IInv, Types, PtableOK, LocksOK, StackOK, Locations, Goto
<1>3. PlaceInv'
  BY SlotsAreMany, <1>1 DEF Moves, IInv, PlaceInv, Placed, In, Ticks
<1>4. BuildInv'
  BY SlotsAreMany, <1>1 DEF Moves, IInv, BuildInv, Builds, Build, In
<1>5. ParentInv'
  BY SlotsAreMany, <1>1 DEF Moves, IInv, ParentInv, BuildInv, Builds, Build, In, Alive
<1>6. PidInv'
  BY SlotsAreMany, <1>1 DEF Moves, IInv, PidInv, BuildInv, Builds, Build, PlaceInv, Placed, In
<1>7. ImageInv'
  BY SlotsAreMany, <1>1 DEF Moves, IInv, ImageInv, BuildInv, Builds, Build, There, In
<1>8. ForkInv'
  <2> SUFFICES ASSUME NEW q \in Slots, NEW c \in Slots,
                      pc'[q] \in {"forked", "giving", "given"}, local'[q].np = c
               PROVE  Forked(q, c)'
    BY DEF ForkInv
  <2> QED BY SlotsAreMany, <1>1 DEF IInv, Moves, ForkInv, Forked, In, There, PlaceInv, Placed
<1>9. NapInv'
  BY SlotsAreMany, <1>1 DEF Moves, IInv, NapInv, Napping, PlaceInv, Placed, In, NapOver, Heard
<1>10. WaitersCanBeWoken'
  BY SlotsAreMany, <1>1 DEF Moves, IInv, WaitersCanBeWoken, In, Children
<1>11. StartsNone
  BY <1>1 DEF StartsNone, Running, In
<1>12. CpusInv'
  BY IInv, <1>11, FewerRun DEF IInv, StartsNone
<1>13. RousesNone
  BY <1>1 DEF RousesNone, In
<1>14. TreeKept
  BY <1>1 DEF TreeKept, There, In
<1> QED BY <1>2, <1>3, <1>4, <1>5, <1>6, <1>7, <1>8, <1>9, <1>10, <1>11, <1>12, <1>13, <1>14
           DEF IInv

\* The EMBRYO becomes RUNNABLE.
LEMMA PublishStep ==
  ASSUME IInv, NEW p \in Slots, Publish(p)
  PROVE  IInv' /\ StartsNone /\ RousesNone /\ ImageKept
         /\ \E c \in Slots : Publishes(p, c)
<1> USE DEF None, initproc
<1> DEFINE np == local[p].np
<1>1. /\ np \in Slots /\ Builds(p, np) /\ ptable[np].state = "EMBRYO" /\ ptable[np].parent = p
      /\ ptable[np].pgdir \in Pgdirs
      /\ ptable[p].state = "RUNNING" /\ np # p /\ pc[p] \in {"forked", "cloned"} /\ holder = None
  <2>1. pc[p] \in {"forked", "cloned"} /\ ptable[p].state = "RUNNING" /\ holder = None
    BY DEF Publish, At, In, LockFree
  <2> QED BY <2>1 DEF IInv, BuildInv, ParentInv, ImageInv, Builds, Build, In
<1>2. PICK e \in Entries :
        /\ ptable' = [ptable EXCEPT ![np] = e]
        /\ e.state = "RUNNABLE" /\ SameName(e, ptable[np]) /\ SameNap(e, ptable[np]) /\ SameTimes(e, ptable[np])
  <2> DEFINE e == [ptable[np] EXCEPT !.state = "RUNNABLE"]
  <2>1. ptable[np] \in Entries
    BY <1>1 DEF IInv, Types, PtableOK
  <2>2. /\ e \in Entries
        /\ e.state = "RUNNABLE" /\ SameName(e, ptable[np]) /\ SameNap(e, ptable[np]) /\ SameTimes(e, ptable[np])
    BY <2>1 DEF Entries, States, SameName, SameNap, SameTimes
  <2>3. ptable' = [ptable EXCEPT ![np] = e]
    BY <1>1 DEF Publish, IInv, Types, PtableOK
  <2> HIDE DEF e
  <2> QED BY <2>2, <2>3
<1>3. PICK l \in {"giving", "user"} :
        /\ \A q \in Slots : pc'[q] = IF q = np THEN "born" ELSE IF q = p THEN l ELSE pc[q]
        /\ StackOK' /\ Frames(p)
        /\ IF pc[p] = "forked" THEN l = "giving" /\ local'[p] = local[p]
                               ELSE l = "user" /\ local'[p].np = None
  <2> DEFINE l == IF pc[p] = "forked" THEN "giving" ELSE "user"
  <2>1. pc' = [pc EXCEPT ![p] = l, ![np] = "born"]
    BY DEF Publish
  <2>2. local' \in [Slots -> Locals] /\ Frames(p)
        /\ IF pc[p] = "forked" THEN local'[p] = local[p] ELSE local'[p] = NoLocal
    BY <1>1 DEF Publish, IInv, Types, StackOK, NoLocal, Locals, Frames
  <2>3. \A q \in Slots : pc'[q] = IF q = np THEN "born" ELSE IF q = p THEN l ELSE pc[q]
    BY <2>1, <1>1 DEF IInv, Types, StackOK
  <2>4. pc' \in [Slots -> Locations]
    BY <2>1, <1>1 DEF IInv, Types, StackOK, Locations
  <2>5. StackOK'
    BY <1>1, <2>2, <2>3, <2>4 DEF StackOK, IInv, Types, Frames
  <2> QED BY <2>2, <2>3, <2>5 DEF NoLocal
<1>4. /\ Others(np) /\ ptable'[np].state = "RUNNABLE"
      /\ SameName(ptable'[np], ptable[np]) /\ SameNap(ptable'[np],
        ptable[np]) /\ SameTimes(ptable'[np], ptable[np])
      /\ UNCHANGED <<holder, nextpid, ticks, tickslock, uvmrefcount, vm>>
  BY <1>1, <1>2 DEF IInv, Types, PtableOK, Others, Publish
<1> HIDE DEF np
<1>5. Types'
  BY <1>1, <1>2, <1>3, <1>4 DEF IInv, Types, PtableOK, LocksOK, MemoryOK
<1>6. PlaceInv'
  BY SlotsAreMany, <1>1, <1>3, <1>4 DEF Frames, Others, IInv, PlaceInv, Placed, In, Ticks, SameNap
<1>7. BuildInv'
  BY SlotsAreMany, <1>1, <1>3, <1>4 DEF Frames, Others, IInv, BuildInv, Builds, Build, In
<1>8. ParentInv'
  BY SlotsAreMany, <1>1, <1>3, <1>4 DEF Frames, Others, IInv, ParentInv, BuildInv, Builds,
     Build, In, Alive, SameName
<1>9. PidInv'
  BY SlotsAreMany, <1>1, <1>3, <1>4 DEF Frames, Others, IInv, PidInv, BuildInv, Builds, Build,
     PlaceInv, Placed, In, SameName
<1>10. ImageInv'
  BY SlotsAreMany, <1>1, <1>3, <1>4 DEF Frames, Others, IInv, ImageInv, BuildInv, Builds, Build,
     There, In, SameName
<1>11. ForkInv'
  <2> SUFFICES ASSUME NEW q \in Slots, NEW c \in Slots,
                      pc'[q] \in {"forked", "giving", "given"}, local'[q].np = c
               PROVE  Forked(q, c)'
    BY DEF ForkInv
  <2> QED BY SlotsAreMany, <1>1, <1>3, <1>4 DEF IInv, Frames, Others, ForkInv, Forked, In,
             There, PlaceInv, Placed, SameName, SameTimes, BuildInv, Builds, Build
<1>12. NapInv'
  BY SlotsAreMany, <1>1, <1>3, <1>4 DEF Frames, Others, IInv, NapInv, Napping, PlaceInv, Placed,
     In, NapOver, Heard, SameNap
<1>13. WaitersCanBeWoken'
  BY SlotsAreMany, <1>1, <1>3, <1>4 DEF Frames, Others, IInv, WaitersCanBeWoken, In, Children,
     SameName, SameNap
<1>14. StartsNone
  BY <1>1, <1>3, <1>4 DEF StartsNone, Running, In, Others
<1>15. CpusInv'
  BY IInv, <1>14, FewerRun DEF IInv, StartsNone
<1>16. RousesNone
  BY <1>1, <1>3, <1>4 DEF RousesNone, In, Others, SameNap
<1>17. ImageKept
  BY SlotsAreMany, <1>1, <1>3, <1>4 DEF Frames, Others, IInv, ImageKept, Owns, BuildInv, Builds,
     Build, PlaceInv, Placed, There, In, SameName
<1>18. \E c \in Slots : Publishes(p, c)
  BY <1>1, <1>4 DEF Publishes, SameName
<1> QED BY <1>5, <1>6, <1>7, <1>8, <1>9, <1>10, <1>11, <1>12, <1>13, <1>14, <1>15, <1>16, <1>17,
           <1>18 DEF IInv
-----------------------------------------------------------------------------
(* The invariant: wait, exit and kill *)

\* wait frees a zombie child.
LEMMA ReapStep ==
  ASSUME IInv, NEW p \in Slots, Wait(p), NEW z \in Slots, Reaps(p, z)
  PROVE  IInv' /\ StartsNone /\ RousesNone
         /\ Frees(p, z)
<1> USE DEF None, initproc
<1>1. /\ ptable[p].state = "RUNNING" /\ pc[p] \in {"user", "wait"} /\ holder \in {None, p}
      /\ holder' = None /\ UNCHANGED <<nextpid, ticks, tickslock>>
  BY WaitCases
<1>2. PICK s \in Entries :
        ptable' = [ptable EXCEPT ![z] = s] /\ s.state = "UNUSED" /\ s.parent = None
  <2> DEFINE s == [ptable[z] EXCEPT !.pid = 0, !.parent = None, !.killed = FALSE, !.state = "UNUSED"]
  <2>1. ptable[z] \in Entries
    BY DEF IInv, Types, PtableOK
  <2>2. s \in Entries
    <3>1. [ptable[z] EXCEPT !.pid = 0] \in Entries
      BY <2>1 DEF Entries
    <3>2. [ptable[z] EXCEPT !.pid = 0, !.parent = None] \in Entries
      BY <3>1 DEF Entries
    <3>3. [ptable[z] EXCEPT !.pid = 0, !.parent = None, !.killed = FALSE] \in Entries
      BY <3>2 DEF Entries
    <3> QED BY <3>3 DEF Entries, States
  <2>3. s.state = "UNUSED" /\ s.parent = None
    BY <2>1 DEF Entries
  <2>4. ptable' = [ptable EXCEPT ![z] = s]
    BY DEF Reaps, IInv, Types, PtableOK
  <2> HIDE DEF s
  <2> QED BY <2>2, <2>3, <2>4
<1>3. /\ Moves(p, "user") /\ Frames(p) /\ local'[p].np = None /\ StackOK'
      /\ MemoryOK'
  BY ReturnMoves, FreevmOK DEF IInv, Types, Reaps, NoLocal
<1>4. /\ Others(z) /\ ptable'[z].state = "UNUSED" /\ ptable'[z].parent = None
      /\ ptable[z].state = "ZOMBIE" /\ ptable[z].parent = p /\ pc[z] = "user"
  BY <1>2 DEF IInv, Types, PtableOK, Others, Reaps, PlaceInv, Placed, In
<1>5. Types'
  BY <1>1, <1>2, <1>3 DEF IInv, Types, PtableOK, LocksOK
<1>6. PlaceInv'
  BY SlotsAreMany, <1>1, <1>3, <1>4 DEF Moves, Frames, Others, IInv, PlaceInv, Placed, In, Ticks
<1>7. BuildInv'
  BY SlotsAreMany, <1>1, <1>3, <1>4 DEF Moves, Frames, Others, IInv, BuildInv, Builds, Build, In
<1>8. ParentInv'
  BY SlotsAreMany, <1>1, <1>3, <1>4 DEF Moves, Frames, Others, IInv, ParentInv, BuildInv,
     Builds, Build, In, Alive
<1>9. PidInv'
  BY SlotsAreMany, <1>1, <1>3, <1>4 DEF Moves, Frames, Others, IInv, PidInv, BuildInv, Builds,
     Build, PlaceInv, Placed, In
<1>10. ImageInv'
  BY SlotsAreMany, <1>1, <1>3, <1>4 DEF Moves, Frames, Others, IInv, ImageInv, BuildInv, Builds,
     Build, There, In
<1>11. ForkInv'
  <2> SUFFICES ASSUME NEW q \in Slots, NEW c \in Slots,
                      pc'[q] \in {"forked", "giving", "given"}, local'[q].np = c
               PROVE  Forked(q, c)'
    BY DEF ForkInv
  <2> QED BY SlotsAreMany, <1>1, <1>3, <1>4 DEF IInv, Moves, Frames, Others, ForkInv, Forked,
             In, There, PlaceInv, Placed
<1>12. NapInv'
  BY SlotsAreMany, <1>1, <1>3, <1>4 DEF Moves, Frames, Others, IInv, NapInv, Napping, PlaceInv,
     Placed, In, NapOver, Heard
<1>13. WaitersCanBeWoken'
  BY SlotsAreMany, <1>1, <1>3, <1>4 DEF Moves, Frames, Others, IInv, WaitersCanBeWoken, In, Children
<1>14. StartsNone
  BY <1>1, <1>3, <1>4 DEF StartsNone, Running, In, Others
<1>15. CpusInv'
  BY IInv, <1>14, FewerRun DEF IInv, StartsNone
<1>16. RousesNone
  BY <1>1, <1>3, <1>4 DEF RousesNone, In, Others
<1>17. Frees(p, z)
  BY <1>1, <1>4 DEF Frees
<1> QED BY <1>5, <1>6, <1>7, <1>8, <1>9, <1>10, <1>11, <1>12, <1>13, <1>14, <1>15, <1>16,
           <1>17 DEF IInv

\* wait returns -1.
LEMMA WaitEndStep ==
  ASSUME IInv, NEW p \in Slots, Wait(p), GivesUp(p)
  PROVE  IInv' /\ StartsNone /\ RousesNone /\ TreeKept /\ ImageKept
<1> USE DEF None, initproc
<1>1. /\ ptable[p].state = "RUNNING" /\ pc[p] \in {"user", "wait"} /\ holder \in {None, p}
      /\ holder' = None /\ UNCHANGED <<nextpid, ticks, tickslock>>
  BY WaitCases
<1>2. /\ Moves(p, "user") /\ Frames(p) /\ local'[p].np = None /\ StackOK'
      /\ UNCHANGED <<ptable, uvmrefcount, vm>>
  BY ReturnMoves DEF IInv, Types, GivesUp, NoLocal
<1>3. Types'
  BY <1>1, <1>2 DEF IInv, Types, PtableOK, LocksOK, MemoryOK
<1>4. PlaceInv'
  BY SlotsAreMany, <1>1, <1>2 DEF Moves, Frames, IInv, PlaceInv, Placed, In, Ticks
<1>5. BuildInv'
  BY SlotsAreMany, <1>1, <1>2 DEF Moves, Frames, IInv, BuildInv, Builds, Build, In
<1>6. ParentInv'
  BY SlotsAreMany, <1>1, <1>2 DEF Moves, Frames, IInv, ParentInv, BuildInv, Builds, Build, In, Alive
<1>7. PidInv'
  BY SlotsAreMany, <1>1, <1>2 DEF Moves, Frames, IInv, PidInv, BuildInv, Builds, Build,
     PlaceInv, Placed, In
<1>8. ImageInv'
  BY SlotsAreMany, <1>1, <1>2 DEF Moves, Frames, IInv, ImageInv, BuildInv, Builds, Build, There, In
<1>9. ForkInv'
  <2> SUFFICES ASSUME NEW q \in Slots, NEW c \in Slots,
                      pc'[q] \in {"forked", "giving", "given"}, local'[q].np = c
               PROVE  Forked(q, c)'
    BY DEF ForkInv
  <2> QED BY SlotsAreMany, <1>1, <1>2 DEF IInv, Moves, Frames, ForkInv, Forked, In, There,
             PlaceInv, Placed
<1>10. NapInv'
  BY SlotsAreMany, <1>1, <1>2 DEF Moves, Frames, IInv, NapInv, Napping, PlaceInv, Placed, In,
     NapOver, Heard
<1>11. WaitersCanBeWoken'
  BY SlotsAreMany, <1>1, <1>2 DEF Moves, Frames, IInv, WaitersCanBeWoken, In, Children
<1>12. StartsNone
  BY <1>1, <1>2 DEF StartsNone, Running, In
<1>13. CpusInv'
  BY IInv, <1>12, FewerRun DEF IInv, StartsNone
<1>14. RousesNone
  BY <1>1, <1>2 DEF RousesNone, In
<1>15. TreeKept
  BY <1>1, <1>2 DEF TreeKept, There, In
<1>16. ImageKept
  BY SlotsAreMany, <1>1, <1>2 DEF Moves, Frames, IInv, ImageKept, Owns, BuildInv, Builds, Build,
     PlaceInv, Placed, There, In
<1> QED BY <1>3, <1>4, <1>5, <1>6, <1>7, <1>8, <1>9, <1>10, <1>11, <1>12, <1>13, <1>14, <1>15,
           <1>16 DEF IInv

\* wait goes to sleep.
LEMMA WaitSleepStep ==
  ASSUME IInv, NEW p \in Slots, Wait(p), Waits(p)
  PROVE  IInv' /\ StartsNone /\ RousesNone /\ TreeKept /\ ImageKept
<1> USE DEF None, initproc
<1>1. /\ ptable[p].state = "RUNNING" /\ pc[p] \in {"user", "wait"} /\ holder \in {None, p}
      /\ holder' = None /\ UNCHANGED <<nextpid, ticks, tickslock>>
  BY WaitCases
<1>2. PICK s \in Entries :
        /\ ptable' = [ptable EXCEPT ![p] = s]
        /\ s.state = "SLEEPING" /\ s.chan = p /\ SameName(s, ptable[p])
        /\ s.killed = ptable[p].killed /\ s.sleepticks = ptable[p].sleepticks
  BY AsleepOK DEF IInv, Types, Waits, Slots
<1>3. /\ Moves(p, "wait") /\ Goto(p, "wait") /\ UNCHANGED <<uvmrefcount, vm, local>>
      /\ Children(p) # {} /\ ~ptable[p].killed /\ \A q \in Children(p) : ~In(q, "ZOMBIE")
  BY GotoMoves DEF IInv, Types, Waits
<1>4. /\ Others(p) /\ ptable'[p].state = "SLEEPING" /\ ptable'[p].chan = p
      /\ SameName(ptable'[p], ptable[p]) /\ ptable'[p].killed = ptable[p].killed
  BY <1>2 DEF IInv, Types, PtableOK, Others
<1>5. Types'
  BY <1>1, <1>2, <1>3 DEF IInv, Types, PtableOK, LocksOK, MemoryOK, StackOK, Locations, Goto
<1>6. PlaceInv'
  BY SlotsAreMany, <1>1, <1>3, <1>4 DEF Moves, Others, IInv, PlaceInv, Placed, In, Ticks
<1>7. BuildInv'
  BY SlotsAreMany, <1>1, <1>3, <1>4 DEF Moves, Others, IInv, BuildInv, Builds, Build, In
<1>8. ParentInv'
  BY SlotsAreMany, <1>1, <1>3, <1>4 DEF Moves, Others, IInv, ParentInv, BuildInv, Builds, Build,
     In, Alive, SameName
<1>9. PidInv'
  BY SlotsAreMany, <1>1, <1>3, <1>4 DEF Moves, Others, IInv, PidInv, BuildInv, Builds, Build,
     PlaceInv, Placed, In, SameName
<1>10. ImageInv'
  BY SlotsAreMany, <1>1, <1>3, <1>4 DEF Moves, Others, IInv, ImageInv, BuildInv, Builds, Build,
     There, In, SameName
<1>11. ForkInv'
  <2> SUFFICES ASSUME NEW q \in Slots, NEW c \in Slots,
                      pc'[q] \in {"forked", "giving", "given"}, local'[q].np = c
               PROVE  Forked(q, c)'
    BY DEF ForkInv
  <2> QED BY SlotsAreMany, <1>1, <1>3, <1>4 DEF IInv, Moves, Others, ForkInv, Forked, In, There,
             PlaceInv, Placed, SameName
<1>12. NapInv'
  BY SlotsAreMany, <1>1, <1>3, <1>4 DEF Moves, Others, IInv, NapInv, Napping, PlaceInv, Placed,
     In, NapOver, Heard
<1>13. WaitersCanBeWoken'
  BY SlotsAreMany, <1>1, <1>3, <1>4 DEF Moves, Others, IInv, WaitersCanBeWoken, In, Children,
     SameName
<1>14. StartsNone
  BY <1>1, <1>3, <1>4 DEF StartsNone, Running, In, Others
<1>15. CpusInv'
  BY IInv, <1>14, FewerRun DEF IInv, StartsNone
<1>16. RousesNone
  BY <1>1, <1>3, <1>4 DEF RousesNone, In, Others
<1>17. TreeKept
  BY <1>1, <1>3, <1>4 DEF TreeKept, There, In, Others, SameName
<1>18. ImageKept
  BY SlotsAreMany, <1>1, <1>3, <1>4 DEF Moves, Others, IInv, ImageKept, Owns, BuildInv, Builds,
     Build, PlaceInv, Placed, There, In, SameName
<1> QED BY <1>5, <1>6, <1>7, <1>8, <1>9, <1>10, <1>11, <1>12, <1>13, <1>14, <1>15, <1>16, <1>17,
           <1>18 DEF IInv

\* exit wakes the parent and gives the children to init.
LEMMA ExitStep ==
  ASSUME IInv, NEW p \in Slots, Exit(p)
  PROVE  IInv' /\ StartsNone /\ RousesNone /\ ImageKept
<1> USE DEF None, initproc
<1>1. /\ ptable[p].state = "RUNNING" /\ pc[p] = "user" /\ p # initproc /\ holder = None
      /\ UNCHANGED <<holder, nextpid, ticks, tickslock, uvmrefcount, vm, pc, local>>
      /\ ptable[p].parent \in Slots \union {None}
  BY DEF Exit, At, In, LockFree, IInv, Types, PtableOK, Entries
<1>2. /\ ptable' \in [Slots -> Entries]
      /\ \A q \in Slots :
           /\ SameTimes(ptable'[q], ptable[q]) /\ SameNap(ptable'[q], ptable[q])
           /\ ptable'[q].pid = ptable[q].pid /\ ptable'[q].pgdir = ptable[q].pgdir
           /\ ptable'[q].parent = (IF ptable[q].parent = p THEN initproc ELSE ptable[q].parent)
           /\ q # p => \/ ptable'[q].state = ptable[q].state
                       \/ /\ ptable[q].state = "SLEEPING" /\ ptable'[q].state = "RUNNABLE"
                          /\ ptable[q].chan \in {ptable[p].parent, initproc}
           /\ q # p /\ ptable[q].state = "SLEEPING" =>
                /\ ptable[q].chan = ptable[p].parent => ptable'[q].state = "RUNNABLE"
                /\ ptable[q].chan = initproc /\ (\E r \in Slots : ptable[r].parent = p /\ ptable[r].state = "ZOMBIE")
                     => ptable'[q].state = "RUNNABLE"
      /\ ptable'[p].state = "ZOMBIE"
  BY ExitEffect DEF IInv, Types
<1>3. Types'
  BY <1>1, <1>2 DEF IInv, Types, PtableOK, LocksOK, MemoryOK, StackOK
<1>4. PlaceInv'
  BY SlotsAreMany, <1>1, <1>2 DEF IInv, PlaceInv, Placed, In, Ticks, SameNap
<1>5. BuildInv'
  BY SlotsAreMany, <1>1, <1>2 DEF IInv, BuildInv, Builds, Build, In
<1>6. ParentInv'
  BY SlotsAreMany, <1>1, <1>2 DEF IInv, ParentInv, BuildInv, Builds, Build, In, Alive
<1>7. PidInv'
  BY SlotsAreMany, <1>1, <1>2 DEF IInv, PidInv, BuildInv, Builds, Build, PlaceInv, Placed, In
<1>8. ImageInv'
  BY SlotsAreMany, <1>1, <1>2 DEF IInv, ImageInv, BuildInv, Builds, Build, There, In
<1>9. ForkInv'
  <2> SUFFICES ASSUME NEW q \in Slots, NEW c \in Slots,
                      pc'[q] \in {"forked", "giving", "given"}, local'[q].np = c
               PROVE  Forked(q, c)'
    BY DEF ForkInv
  <2> QED BY SlotsAreMany, <1>1, <1>2 DEF IInv, ForkInv, Forked, In, There, PlaceInv, Placed,
             SameTimes
<1>10. NapInv'
  <2> SUFFICES ASSUME NEW q \in Slots PROVE Napping(q)'
    BY DEF NapInv
  <2>0. Napping(q) /\ Placed(q)
    BY DEF IInv, NapInv, PlaceInv
  <2>1. ptable[q].chan = Ticks => ptable[q].chan \notin {ptable[p].parent, initproc}
    BY SlotsAreMany, <1>1
  <2>2. ~(pc[q] = "roused" /\ In(q, "SLEEPING")) \/ ptable'[q].state = ptable[q].state
    BY SlotsAreMany, <1>1, <1>2, <2>0, <2>1 DEF Placed, In
  <2>3. pc[q] = "roused" => q # p
    BY <1>1
  <2> QED BY <1>1, <1>2, <2>0, <2>2, <2>3 DEF Napping, In, NapOver, Heard, SameNap, Timer
<1>11. WaitersCanBeWoken'
  <2> SUFFICES ASSUME NEW q \in Slots, ptable'[q].state = "SLEEPING", ptable'[q].chan = q
               PROVE  /\ ~ptable'[q].killed
                      /\ \E c \in Slots : ptable'[c].parent = q
                      /\ \A c \in Slots : ptable'[c].parent = q => ptable'[c].state # "ZOMBIE"
    BY DEF WaitersCanBeWoken, In, Children
  <2>1. /\ q # p /\ ptable[q].state = "SLEEPING" /\ ptable[q].chan = q
        /\ q # ptable[p].parent
        /\ q = initproc => ~\E r \in Slots : ptable[r].parent = p /\ ptable[r].state = "ZOMBIE"
    BY <1>1, <1>2 DEF SameNap
  <2>2. /\ ~ptable[q].killed
        /\ \E c \in Slots : ptable[c].parent = q
        /\ \A c \in Slots : ptable[c].parent = q => ptable[c].state # "ZOMBIE"
    BY <2>1 DEF IInv, WaitersCanBeWoken, In, Children
  <2>3. ptable[p].parent # p
    BY DEF IInv, ParentInv
  <2> QED BY <1>1, <1>2, <2>1, <2>2, <2>3 DEF SameNap
<1>12. StartsNone
  BY <1>1, <1>2 DEF StartsNone, Running, In
<1>13. CpusInv'
  BY IInv, <1>12, FewerRun DEF IInv, StartsNone
<1>14. RousesNone
  <2>1. \A q \in Slots : ptable[q].chan = Ticks => ptable[q].chan \notin {ptable[p].parent, initproc}
    BY SlotsAreMany, <1>1
  <2> QED BY <1>1, <1>2, <2>1 DEF RousesNone
<1>15. ImageKept
  BY SlotsAreMany, <1>1, <1>2 DEF IInv, ImageKept, Owns, BuildInv, Builds, Build, PlaceInv,
     Placed, There, In
<1> QED BY <1>3, <1>4, <1>5, <1>6, <1>7, <1>8, <1>9, <1>10, <1>11, <1>12, <1>13, <1>14,
           <1>15 DEF IInv

\* kill marks a process and wakes it.
LEMMA KillStep ==
  ASSUME IInv, NEW p \in Slots, Kill(p)
  PROVE  IInv' /\ StartsNone /\ RousesNone /\ TreeKept /\ ImageKept
<1> USE DEF None, initproc
<1>1. /\ ptable[p].state = "RUNNING" /\ pc[p] = "user"
      /\ UNCHANGED <<holder, nextpid, ticks, tickslock, uvmrefcount, vm, pc, local>>
  BY DEF Kill, Enter, At, In
<1>2. PICK k \in Slots, s \in Entries :
        /\ ptable' = [ptable EXCEPT ![k] = s]
        /\ s.state = (IF In(k, "SLEEPING") THEN "RUNNABLE" ELSE ptable[k].state)
        /\ SameName(s, ptable[k]) /\ SameTimes(s, ptable[k])
        /\ s.killed /\ s.chan = ptable[k].chan /\ s.sleepticks = ptable[k].sleepticks
  <2>1. PICK k \in Slots :
          ptable' = [ptable EXCEPT ![k].killed = TRUE,
                                   ![k].state = IF @ = "SLEEPING" THEN "RUNNABLE" ELSE @]
    BY DEF Kill
  <2> DEFINE st == IF In(k, "SLEEPING") THEN "RUNNABLE" ELSE ptable[k].state
             s == [ptable[k] EXCEPT !.killed = TRUE, !.state = st]
  <2>2. ptable[k] \in Entries /\ st \in States
    BY DEF IInv, Types, PtableOK, Entries, States
  <2>3. s \in Entries
    <3>1. [ptable[k] EXCEPT !.killed = TRUE] \in Entries
      BY <2>2 DEF Entries
    <3> QED BY <3>1, <2>2 DEF Entries
  <2>4. s.state = st /\ SameName(s, ptable[k]) /\ SameTimes(s, ptable[k])
        /\ s.killed /\ s.chan = ptable[k].chan /\ s.sleepticks = ptable[k].sleepticks
    BY <2>2 DEF Entries, SameName, SameTimes
  <2>5. ptable' = [ptable EXCEPT ![k] = s]
    BY <2>1, <2>2 DEF IInv, Types, PtableOK, Entries, In
  <2> HIDE DEF s
  <2> QED BY <2>3, <2>4, <2>5
<1>3. /\ Others(k)
      /\ ptable'[k].state = (IF ptable[k].state = "SLEEPING" THEN "RUNNABLE" ELSE ptable[k].state)
      /\ SameName(ptable'[k], ptable[k]) /\ SameTimes(ptable'[k], ptable[k])
      /\ ptable'[k].killed /\ ptable'[k].chan = ptable[k].chan
      /\ ptable'[k].sleepticks = ptable[k].sleepticks
  BY <1>2 DEF IInv, Types, PtableOK, Others, In
<1>4. Types'
  BY <1>1, <1>2 DEF IInv, Types, PtableOK, LocksOK, MemoryOK, StackOK
<1>5. PlaceInv'
  BY SlotsAreMany, <1>1, <1>3 DEF Others, IInv, PlaceInv, Placed, In, Ticks
<1>6. BuildInv'
  BY SlotsAreMany, <1>1, <1>3 DEF Others, IInv, BuildInv, Builds, Build, In
<1>7. ParentInv'
  BY SlotsAreMany, <1>1, <1>3 DEF Others, IInv, ParentInv, BuildInv, Builds, Build, In, Alive,
     SameName
<1>8. PidInv'
  BY SlotsAreMany, <1>1, <1>3 DEF Others, IInv, PidInv, BuildInv, Builds, Build, PlaceInv,
     Placed, In, SameName
<1>9. ImageInv'
  BY SlotsAreMany, <1>1, <1>3 DEF Others, IInv, ImageInv, BuildInv, Builds, Build, There, In,
     SameName
<1>10. ForkInv'
  <2> SUFFICES ASSUME NEW q \in Slots, NEW c \in Slots,
                      pc'[q] \in {"forked", "giving", "given"}, local'[q].np = c
               PROVE  Forked(q, c)'
    BY DEF ForkInv
  <2> QED BY SlotsAreMany, <1>1, <1>3 DEF IInv, Others, ForkInv, Forked, In, There, PlaceInv,
             Placed, SameName, SameTimes
<1>11. NapInv'
  BY SlotsAreMany, <1>1, <1>3 DEF Others, IInv, NapInv, Napping, PlaceInv, Placed, In, NapOver,
     Heard
<1>12. WaitersCanBeWoken'
  BY SlotsAreMany, <1>1, <1>3 DEF Others, IInv, WaitersCanBeWoken, In, Children, SameName
<1>13. StartsNone
  BY <1>1, <1>3 DEF StartsNone, Running, In, Others
<1>14. CpusInv'
  BY IInv, <1>13, FewerRun DEF IInv, StartsNone
<1>15. RousesNone
  BY <1>1, <1>3 DEF RousesNone, In, Others
<1>16. TreeKept
  BY <1>1, <1>3 DEF TreeKept, There, In, Others, SameName
<1>17. ImageKept
  BY SlotsAreMany, <1>1, <1>3 DEF Others, IInv, ImageKept, Owns, BuildInv, Builds, Build,
     PlaceInv, Placed, There, In, SameName
<1> QED BY <1>4, <1>5, <1>6, <1>7, <1>8, <1>9, <1>10, <1>11, <1>12, <1>13, <1>14, <1>15, <1>16,
           <1>17 DEF IInv
-----------------------------------------------------------------------------
(* The invariant: sys_sleep and the timer *)

\* sleep(0) goes on to yield.
LEMMA NapZeroStep ==
  ASSUME IInv, NEW p \in Slots, Nap(p), Goto(p, "yield"), UNCHANGED <<ptable, tickslock, local>>
  PROVE  IInv' /\ StartsNone /\ RousesNone /\ TreeKept /\ ImageKept
<1> USE DEF None, initproc
<1>1. /\ ptable[p].state = "RUNNING" /\ pc[p] = "user"
      /\ UNCHANGED <<holder, nextpid, ticks, uvmrefcount, vm>>
      /\ Moves(p, "yield")
  BY GotoMoves DEF IInv, Types, Nap, Enter, At, In
<1>2. Types'
  BY <1>1 DEF IInv, Types, PtableOK, LocksOK, MemoryOK, StackOK, Locations, Goto
<1>3. PlaceInv'
  BY SlotsAreMany, <1>1 DEF Moves, IInv, PlaceInv, Placed, In, Ticks
<1>4. BuildInv'
  BY SlotsAreMany, <1>1 DEF Moves, IInv, BuildInv, Builds, Build, In
<1>5. ParentInv'
  BY SlotsAreMany, <1>1 DEF Moves, IInv, ParentInv, BuildInv, Builds, Build, In, Alive
<1>6. PidInv'
  BY SlotsAreMany, <1>1 DEF Moves, IInv, PidInv, BuildInv, Builds, Build, PlaceInv, Placed, In
<1>7. ImageInv'
  BY SlotsAreMany, <1>1 DEF Moves, IInv, ImageInv, BuildInv, Builds, Build, There, In
<1>8. ForkInv'
  <2> SUFFICES ASSUME NEW q \in Slots, NEW c \in Slots,
                      pc'[q] \in {"forked", "giving", "given"}, local'[q].np = c
               PROVE  Forked(q, c)'
    BY DEF ForkInv
  <2> QED BY SlotsAreMany, <1>1 DEF IInv, Moves, ForkInv, Forked, In, There, PlaceInv, Placed
<1>9. NapInv'
  BY SlotsAreMany, <1>1 DEF Moves, IInv, NapInv, Napping, PlaceInv, Placed, In, NapOver, Heard
<1>10. WaitersCanBeWoken'
  BY SlotsAreMany, <1>1 DEF Moves, IInv, WaitersCanBeWoken, In, Children
<1>11. StartsNone
  BY <1>1 DEF StartsNone, Running, In
<1>12. CpusInv'
  BY IInv, <1>11, FewerRun DEF IInv, StartsNone
<1>13. RousesNone
  BY <1>1 DEF RousesNone, In
<1>14. TreeKept
  BY <1>1 DEF TreeKept, There, In
<1>15. ImageKept
  BY SlotsAreMany, <1>1 DEF Moves, IInv, ImageKept, Owns, BuildInv, Builds, Build, PlaceInv,
     Placed, There, In
<1> QED BY <1>2, <1>3, <1>4, <1>5, <1>6, <1>7, <1>8, <1>9, <1>10, <1>11, <1>12, <1>13, <1>14,
           <1>15 DEF IInv

\* sleep(n) notes the tick it starts at.
LEMMA NapStartStep ==
  ASSUME IInv, NEW p \in Slots, Nap(p), NEW n \in Naps, TakeTickslock(p), Goto(p, "nap"),
         ptable' = [ptable EXCEPT ![p].sleepticks = n],
         local' = [local EXCEPT ![p].n = n, ![p].t0 = ticks]
  PROVE  IInv' /\ StartsNone /\ RousesNone /\ TreeKept /\ ImageKept
<1> USE DEF None, initproc
<1>1. /\ ptable[p].state = "RUNNING" /\ pc[p] = "user"
      /\ UNCHANGED <<holder, nextpid, ticks, uvmrefcount, vm>>
      /\ Moves(p, "nap") /\ tickslock = None /\ tickslock' = p
  BY GotoMoves DEF IInv, Types, Nap, Enter, At, In, TakeTickslock
<1>2. /\ ptable' \in [Slots -> Entries] /\ Others(p)
      /\ ptable'[p].state = ptable[p].state /\ SameName(ptable'[p], ptable[p])
      /\ SameTimes(ptable'[p], ptable[p]) /\ ptable'[p].sleepticks = n
      /\ ptable'[p].chan = ptable[p].chan /\ ptable'[p].killed = ptable[p].killed
  <2> DEFINE s == [ptable[p] EXCEPT !.sleepticks = n]
  <2>1. ptable[p] \in Entries /\ n \in Int
    BY DEF IInv, Types, PtableOK
  <2>2. s \in Entries
    BY <2>1 DEF Entries
  <2>3. /\ s.state = ptable[p].state /\ SameName(s, ptable[p]) /\ SameTimes(s, ptable[p])
        /\ s.sleepticks = n /\ s.chan = ptable[p].chan /\ s.killed = ptable[p].killed
    BY <2>1 DEF Entries, SameName, SameTimes
  <2>4. ptable' = [ptable EXCEPT ![p] = s]
    BY DEF IInv, Types, PtableOK
  <2> HIDE DEF s
  <2> QED BY <2>2, <2>3, <2>4 DEF IInv, Types, PtableOK, Others
<1>3. /\ local' \in [Slots -> Locals] /\ Frames(p)
      /\ local'[p].np = local[p].np /\ local'[p].n = n /\ local'[p].t0 = ticks
  <2> DEFINE r == [local[p] EXCEPT !.n = n, !.t0 = ticks]
  <2>1. local[p] \in Locals /\ n \in Int /\ ticks \in Nat
    BY DEF IInv, Types, StackOK, LocksOK
  <2>2. r \in Locals /\ r.np = local[p].np /\ r.n = n /\ r.t0 = ticks
    BY <2>1 DEF Locals
  <2>3. local' = [local EXCEPT ![p] = r]
    BY DEF IInv, Types, StackOK
  <2> HIDE DEF r
  <2> QED BY <2>2, <2>3, ZenonT(40) DEF IInv, Types, StackOK, Frames
<1>4. Types'
  BY SlotsAreMany, <1>1, <1>2, <1>3, SMTT(30)
     DEF IInv, Types, PtableOK, LocksOK, MemoryOK, StackOK, Locations, Goto, Slots
<1>5. PlaceInv'
  BY SlotsAreMany, <1>1, <1>2, <1>3 DEF Moves, Frames, Others, IInv, PlaceInv, Placed, In, Ticks
<1>6. BuildInv'
  BY SlotsAreMany, <1>1, <1>2, <1>3 DEF Moves, Frames, Others, IInv, BuildInv, Builds, Build, In
<1>7. ParentInv'
  BY SlotsAreMany, <1>1, <1>2, <1>3 DEF Moves, Frames, Others, IInv, ParentInv, BuildInv,
     Builds, Build, In, Alive, SameName
<1>8. PidInv'
  BY SlotsAreMany, <1>1, <1>2, <1>3 DEF Moves, Frames, Others, IInv, PidInv, BuildInv, Builds,
     Build, PlaceInv, Placed, In, SameName
<1>9. ImageInv'
  BY SlotsAreMany, <1>1, <1>2, <1>3 DEF Moves, Frames, Others, IInv, ImageInv, BuildInv, Builds,
     Build, There, In, SameName
<1>10. ForkInv'
  <2> SUFFICES ASSUME NEW q \in Slots, NEW c \in Slots,
                      pc'[q] \in {"forked", "giving", "given"}, local'[q].np = c
               PROVE  Forked(q, c)'
    BY DEF ForkInv
  <2> QED BY SlotsAreMany, <1>1, <1>2, <1>3 DEF IInv, Moves, Frames, Others, ForkInv, Forked,
             In, There, PlaceInv, Placed, SameName, SameTimes
<1>11. NapInv'
  <2> SUFFICES ASSUME NEW q \in Slots PROVE Napping(q)'
    BY DEF NapInv
  <2>0. Napping(q) /\ Placed(q)
    BY DEF IInv, NapInv, PlaceInv
  <2>1. CASE q = p
    BY SlotsAreMany, <1>1, <1>2, <1>3, <2>0, <2>1 DEF Moves, Napping, Placed, In, NapOver,
       Heard, Timer, Ticks
  <2>2. CASE q # p
    BY SlotsAreMany, <1>1, <1>2, <1>3, <2>0, <2>2 DEF Moves, Frames, Others, Napping, Placed,
       In, NapOver, Heard, Timer, Ticks
  <2> QED BY <2>1, <2>2
<1>12. WaitersCanBeWoken'
  BY SlotsAreMany, <1>1, <1>2, <1>3 DEF Moves, Frames, Others, IInv, WaitersCanBeWoken, In,
     Children, SameName
<1>13. StartsNone
  BY <1>1, <1>2, <1>3 DEF StartsNone, Running, In, Others
<1>14. CpusInv'
  BY IInv, <1>13, FewerRun DEF IInv, StartsNone
<1>15. RousesNone
  BY <1>1, <1>2, <1>3 DEF RousesNone, In, Others
<1>16. TreeKept
  BY <1>1, <1>2, <1>3 DEF TreeKept, There, In, Others, SameName
<1>17. ImageKept
  BY SlotsAreMany, <1>1, <1>2, <1>3 DEF Moves, Frames, Others, IInv, ImageKept, Owns, BuildInv,
     Builds, Build, PlaceInv, Placed, There, In, SameName
<1> QED BY <1>4, <1>5, <1>6, <1>7, <1>8, <1>9, <1>10, <1>11, <1>12, <1>13, <1>14, <1>15, <1>16,
           <1>17 DEF IInv

\* The nap is over, or the process is killed.
LEMMA NapEndStep ==
  ASSUME IInv, NEW p \in Slots, NapTest(p), Return(p)
  PROVE  IInv' /\ StartsNone /\ RousesNone /\ TreeKept /\ ImageKept
<1> USE DEF None, initproc
<1>1. /\ ptable[p].state = "RUNNING" /\ pc[p] = "nap" /\ tickslock' = None
      /\ UNCHANGED <<holder, nextpid, ticks, uvmrefcount, vm>>
      /\ Moves(p, "user") /\ Frames(p) /\ local'[p].np = None /\ StackOK'
      /\ tickslock = p
  <2>1. ptable[p].state = "RUNNING" /\ pc[p] = "nap"
    BY DEF NapTest, At, In
  <2>2. pc'[p] = "user"
    BY ReturnMoves DEF IInv, Types, Moves
  <2>3. ~Goto(p, "drowse")
    BY <2>2 DEF Goto, IInv, Types, StackOK
  <2> QED BY <2>1, <2>3, ReturnMoves DEF IInv, Types, NapTest, NapInv, Napping, NoLocal
<1>2. /\ ptable' \in [Slots -> Entries] /\ Others(p)
      /\ ptable'[p].state = ptable[p].state /\ SameName(ptable'[p], ptable[p])
      /\ SameTimes(ptable'[p], ptable[p])
      /\ ptable'[p].chan = ptable[p].chan /\ ptable'[p].killed = ptable[p].killed
  <2> DEFINE s == [ptable[p] EXCEPT !.sleepticks = -1]
  <2>1. ptable[p] \in Entries
    BY DEF IInv, Types, PtableOK
  <2>2. s \in Entries
    BY <2>1 DEF Entries
  <2>3. /\ s.state = ptable[p].state /\ SameName(s, ptable[p]) /\ SameTimes(s, ptable[p])
        /\ s.chan = ptable[p].chan /\ s.killed = ptable[p].killed
    BY <2>1 DEF Entries, SameName, SameTimes
  <2>4. ptable' = [ptable EXCEPT ![p] = s] \/ ptable' = ptable
    BY DEF IInv, Types, PtableOK, NapTest
  <2>5. CASE ptable' = ptable
    BY <2>5 DEF IInv, Types, PtableOK, Others, SameName, SameTimes
  <2>6. CASE ptable' = [ptable EXCEPT ![p] = s]
    <3> HIDE DEF s
    <3> QED BY <2>2, <2>3, <2>6 DEF IInv, Types, PtableOK, Others
  <2> QED BY <2>4, <2>5, <2>6
<1>3. Types'
  BY SlotsAreMany, <1>1, <1>2 DEF IInv, Types, PtableOK, LocksOK, MemoryOK
<1>4. PlaceInv'
  BY SlotsAreMany, <1>1, <1>2 DEF Moves, Frames, Others, IInv, PlaceInv, Placed, In, Ticks
<1>5. BuildInv'
  BY SlotsAreMany, <1>1, <1>2 DEF Moves, Frames, Others, IInv, BuildInv, Builds, Build, In
<1>6. ParentInv'
  BY SlotsAreMany, <1>1, <1>2 DEF Moves, Frames, Others, IInv, ParentInv, BuildInv, Builds,
     Build, In, Alive, SameName
<1>7. PidInv'
  BY SlotsAreMany, <1>1, <1>2 DEF Moves, Frames, Others, IInv, PidInv, BuildInv, Builds, Build,
     PlaceInv, Placed, In, SameName
<1>8. ImageInv'
  BY SlotsAreMany, <1>1, <1>2 DEF Moves, Frames, Others, IInv, ImageInv, BuildInv, Builds,
     Build, There, In, SameName
<1>9. ForkInv'
  <2> SUFFICES ASSUME NEW q \in Slots, NEW c \in Slots,
                      pc'[q] \in {"forked", "giving", "given"}, local'[q].np = c
               PROVE  Forked(q, c)'
    BY DEF ForkInv
  <2> QED BY SlotsAreMany, <1>1, <1>2 DEF IInv, Moves, Frames, Others, ForkInv, Forked, In,
             There, PlaceInv, Placed, SameName, SameTimes
<1>10. NapInv'
  <2> SUFFICES ASSUME NEW q \in Slots PROVE Napping(q)'
    BY DEF NapInv
  <2>0. Napping(q) /\ Placed(q)
    BY DEF IInv, NapInv, PlaceInv
  <2>1. CASE q = p
    BY SlotsAreMany, <1>1, <1>2, <2>0, <2>1 DEF Moves, Napping, Placed, In, NapOver, Heard,
       Timer, Ticks
  <2>2. CASE q # p
    BY SlotsAreMany, <1>1, <1>2, <2>0, <2>2 DEF Moves, Frames, Others, Napping, Placed, In,
       NapOver, Heard, Timer, Ticks
  <2> QED BY <2>1, <2>2
<1>11. WaitersCanBeWoken'
  BY SlotsAreMany, <1>1, <1>2 DEF Moves, Frames, Others, IInv, WaitersCanBeWoken, In, Children,
     SameName
<1>12. StartsNone
  BY <1>1, <1>2 DEF StartsNone, Running, In, Others
<1>13. CpusInv'
  BY IInv, <1>12, FewerRun DEF IInv, StartsNone
<1>14. RousesNone
  BY <1>1, <1>2 DEF RousesNone, In, Others
<1>15. TreeKept
  BY <1>1, <1>2 DEF TreeKept, There, In, Others, SameName
<1>16. ImageKept
  BY SlotsAreMany, <1>1, <1>2 DEF Moves, Frames, Others, IInv, ImageKept, Owns, BuildInv,
     Builds, Build, PlaceInv, Placed, There, In, SameName
<1> QED BY <1>3, <1>4, <1>5, <1>6, <1>7, <1>8, <1>9, <1>10, <1>11, <1>12, <1>13, <1>14, <1>15,
           <1>16 DEF IInv

\* The nap is not over.
LEMMA NapGoOnStep ==
  ASSUME IInv, NEW p \in Slots, NapTest(p), Goto(p, "drowse"), UNCHANGED <<ptable, tickslock, local>>
  PROVE  IInv' /\ StartsNone /\ RousesNone /\ TreeKept /\ ImageKept
<1> USE DEF None, initproc
<1>1. /\ ptable[p].state = "RUNNING" /\ pc[p] = "nap"
      /\ UNCHANGED <<holder, nextpid, ticks, uvmrefcount, vm>>
      /\ Moves(p, "drowse") /\ ~NapOver(p) /\ ~ptable[p].killed
  <2>1. Moves(p, "drowse")
    BY GotoMoves DEF IInv, Types
  <2>2. ~Return(p)
    BY <2>1, ReturnMoves DEF IInv, Types, Moves
  <2> QED BY <2>1, <2>2 DEF NapTest, At, In
<1>2. Types'
  BY <1>1 DEF IInv, Types, PtableOK, LocksOK, MemoryOK, StackOK, Locations, Goto
<1>3. PlaceInv'
  BY SlotsAreMany, <1>1 DEF Moves, IInv, PlaceInv, Placed, In, Ticks
<1>4. BuildInv'
  BY SlotsAreMany, <1>1 DEF Moves, IInv, BuildInv, Builds, Build, In
<1>5. ParentInv'
  BY SlotsAreMany, <1>1 DEF Moves, IInv, ParentInv, BuildInv, Builds, Build, In, Alive
<1>6. PidInv'
  BY SlotsAreMany, <1>1 DEF Moves, IInv, PidInv, BuildInv, Builds, Build, PlaceInv, Placed, In
<1>7. ImageInv'
  BY SlotsAreMany, <1>1 DEF Moves, IInv, ImageInv, BuildInv, Builds, Build, There, In
<1>8. ForkInv'
  <2> SUFFICES ASSUME NEW q \in Slots, NEW c \in Slots,
                      pc'[q] \in {"forked", "giving", "given"}, local'[q].np = c
               PROVE  Forked(q, c)'
    BY DEF ForkInv
  <2> QED BY SlotsAreMany, <1>1 DEF IInv, Moves, ForkInv, Forked, In, There, PlaceInv, Placed
<1>9. NapInv'
  BY SlotsAreMany, <1>1 DEF Moves, IInv, NapInv, Napping, PlaceInv, Placed, In, NapOver, Heard
<1>10. WaitersCanBeWoken'
  BY SlotsAreMany, <1>1 DEF Moves, IInv, WaitersCanBeWoken, In, Children
<1>11. StartsNone
  BY <1>1 DEF StartsNone, Running, In
<1>12. CpusInv'
  BY IInv, <1>11, FewerRun DEF IInv, StartsNone
<1>13. RousesNone
  BY <1>1 DEF RousesNone, In
<1>14. TreeKept
  BY <1>1 DEF TreeKept, There, In
<1>15. ImageKept
  BY SlotsAreMany, <1>1 DEF Moves, IInv, ImageKept, Owns, BuildInv, Builds, Build, PlaceInv,
     Placed, There, In
<1> QED BY <1>2, <1>3, <1>4, <1>5, <1>6, <1>7, <1>8, <1>9, <1>10, <1>11, <1>12, <1>13, <1>14,
           <1>15 DEF IInv

\* The process falls asleep on ticks.
LEMMA NapSleepStep ==
  ASSUME IInv, NEW p \in Slots, NapSleep(p)
  PROVE  IInv' /\ StartsNone /\ RousesNone /\ TreeKept /\ ImageKept
<1> USE DEF None, initproc
<1>1. PICK s \in Entries :
        /\ ptable' = [ptable EXCEPT ![p] = s]
        /\ s.state = "SLEEPING" /\ s.chan = Ticks /\ SameName(s, ptable[p])
        /\ s.killed = ptable[p].killed /\ s.sleepticks = ptable[p].sleepticks
  BY AsleepOK DEF IInv, Types, NapSleep, Ticks
<1>2. /\ Others(p) /\ ptable'[p].state = "SLEEPING" /\ ptable'[p].chan = Ticks
      /\ SameName(ptable'[p], ptable[p]) /\ ptable'[p].killed = ptable[p].killed
      /\ ptable'[p].sleepticks = ptable[p].sleepticks
  BY <1>1 DEF IInv, Types, PtableOK, Others
<1>3. /\ ptable[p].state = "RUNNING" /\ pc[p] = "drowse" /\ tickslock' = None /\ holder = None
      /\ UNCHANGED <<holder, nextpid, ticks, uvmrefcount, vm, local>>
      /\ Moves(p, "roused") /\ Goto(p, "roused")
      /\ ticks \in Int /\ local[p].n \in Int /\ ptable[p].sleepticks \in Int /\ local[p].t0 \in Int
  BY GotoMoves DEF IInv, Types, PtableOK, Entries, StackOK, Locals, LocksOK, NapSleep, At, In,
     LockFree
<1>4. tickslock = p
  BY <1>3 DEF IInv, NapInv, Napping
<1>5. Types'
  BY SlotsAreMany, <1>1, <1>2, <1>3 DEF IInv, Types, PtableOK, LocksOK, MemoryOK, StackOK,
     Locations, Goto
<1>6. PlaceInv'
  BY SlotsAreMany, <1>2, <1>3 DEF Moves, Others, IInv, PlaceInv, Placed, In, Ticks
<1>7. BuildInv'
  BY SlotsAreMany, <1>2, <1>3 DEF Moves, Others, IInv, BuildInv, Builds, Build, In
<1>8. ParentInv'
  BY SlotsAreMany, <1>2, <1>3 DEF Moves, Others, IInv, ParentInv, BuildInv, Builds, Build, In,
     Alive, SameName
<1>9. PidInv'
  BY SlotsAreMany, <1>2, <1>3 DEF Moves, Others, IInv, PidInv, BuildInv, Builds, Build,
     PlaceInv, Placed, In, SameName
<1>10. ImageInv'
  BY SlotsAreMany, <1>2, <1>3 DEF Moves, Others, IInv, ImageInv, BuildInv, Builds, Build, There,
     In, SameName
<1>11. ForkInv'
  <2> SUFFICES ASSUME NEW q \in Slots, NEW c \in Slots,
                      pc'[q] \in {"forked", "giving", "given"}, local'[q].np = c
               PROVE  Forked(q, c)'
    BY DEF ForkInv
  <2> QED BY SlotsAreMany, <1>2, <1>3 DEF IInv, Moves, Others, ForkInv, Forked, In, There,
             PlaceInv, Placed, SameName
<1>12. NapInv'
  <2> SUFFICES ASSUME NEW q \in Slots PROVE Napping(q)'
    BY DEF NapInv
  <2>0. Napping(q) /\ Placed(q)
    BY DEF IInv, NapInv, PlaceInv
  <2>1. CASE q = p
    <3>1. /\ pc'[p] = "roused" /\ tickslock' = 0 /\ ptable'[p].state = "SLEEPING"
          /\ ticks' = local'[p].t0 /\ ptable'[p].sleepticks = local'[p].n
          /\ ticks' \in Int /\ local'[p].n \in Int
      BY <1>2, <1>3, <2>0, <2>1 DEF Moves, Napping
    <3>2. 0 # NPROC + 1
      OBVIOUS
    <3>3. (tickslock = Timer)' <=> FALSE
      BY <3>1, <3>2 DEF Timer
    <3>4. Heard(p)' = 0
      BY <3>1, <3>3 DEF Heard
    <3>5. Napping(p)'
      BY <3>1, <3>4 DEF Napping, In
    <3> QED BY <3>5, <2>1
  <2>2. CASE q # p
    BY SlotsAreMany, <1>2, <1>3, <1>4, <2>0, <2>2 DEF Moves, Others, Napping, Placed, In,
       NapOver, Heard, Timer, Ticks
  <2> QED BY <2>1, <2>2
<1>13. WaitersCanBeWoken'
  BY SlotsAreMany, <1>2, <1>3 DEF Moves, Others, IInv, WaitersCanBeWoken, In, Children, SameName
<1>14. StartsNone
  BY <1>2, <1>3 DEF StartsNone, Running, In, Others
<1>15. CpusInv'
  BY IInv, <1>14, FewerRun DEF IInv, StartsNone
<1>16. RousesNone
  BY <1>2, <1>3 DEF RousesNone, In, Others
<1>17. TreeKept
  BY <1>2, <1>3 DEF TreeKept, There, In, Others, SameName
<1>18. ImageKept
  BY SlotsAreMany, <1>2, <1>3 DEF Moves, Others, IInv, ImageKept, Owns, BuildInv, Builds, Build,
     PlaceInv, Placed, There, In, SameName
<1> QED BY <1>5, <1>6, <1>7, <1>8, <1>9, <1>10, <1>11, <1>12, <1>13, <1>14, <1>15, <1>16, <1>17,
           <1>18 DEF IInv

\* The process takes tickslock again.
LEMMA NapWakeStep ==
  ASSUME IInv, NEW p \in Slots, NapWake(p)
  PROVE  IInv' /\ StartsNone /\ RousesNone /\ TreeKept /\ ImageKept
<1> USE DEF None, initproc
<1>1. /\ ptable[p].state = "RUNNING" /\ pc[p] = "roused" /\ tickslock = None /\ tickslock' = p
      /\ UNCHANGED <<ptable, holder, nextpid, ticks, uvmrefcount, vm, local>>
      /\ Moves(p, "nap") /\ Goto(p, "nap")
  BY GotoMoves DEF IInv, Types, NapWake, TakeTickslock, At, In
<1>2. Types'
  BY SlotsAreMany, <1>1 DEF IInv, Types, PtableOK, LocksOK, MemoryOK, StackOK, Locations, Goto,
     Slots
<1>3. PlaceInv'
  BY SlotsAreMany, <1>1 DEF Moves, IInv, PlaceInv, Placed, In, Ticks
<1>4. BuildInv'
  BY SlotsAreMany, <1>1 DEF Moves, IInv, BuildInv, Builds, Build, In
<1>5. ParentInv'
  BY SlotsAreMany, <1>1 DEF Moves, IInv, ParentInv, BuildInv, Builds, Build, In, Alive
<1>6. PidInv'
  BY SlotsAreMany, <1>1 DEF Moves, IInv, PidInv, BuildInv, Builds, Build, PlaceInv, Placed, In
<1>7. ImageInv'
  BY SlotsAreMany, <1>1 DEF Moves, IInv, ImageInv, BuildInv, Builds, Build, There, In
<1>8. ForkInv'
  <2> SUFFICES ASSUME NEW q \in Slots, NEW c \in Slots,
                      pc'[q] \in {"forked", "giving", "given"}, local'[q].np = c
               PROVE  Forked(q, c)'
    BY DEF ForkInv
  <2> QED BY SlotsAreMany, <1>1 DEF IInv, Moves, ForkInv, Forked, In, There, PlaceInv, Placed
<1>9. NapInv'
  <2> SUFFICES ASSUME NEW q \in Slots PROVE Napping(q)'
    BY DEF NapInv
  <2>0. Napping(q) /\ Placed(q)
    BY DEF IInv, NapInv, PlaceInv
  <2>1. CASE q = p
    BY SlotsAreMany, <1>1, <2>0, <2>1 DEF Moves, Napping, Placed, In, NapOver, Heard, Timer, Ticks
  <2>2. CASE q # p
    BY SlotsAreMany, <1>1, <2>0, <2>2 DEF Moves, Napping, Placed, In, NapOver, Heard, Timer, Ticks
  <2> QED BY <2>1, <2>2
<1>10. WaitersCanBeWoken'
  BY SlotsAreMany, <1>1 DEF Moves, IInv, WaitersCanBeWoken, In, Children
<1>11. StartsNone
  BY <1>1 DEF StartsNone, Running, In
<1>12. CpusInv'
  BY IInv, <1>11, FewerRun DEF IInv, StartsNone
<1>13. RousesNone
  BY <1>1 DEF RousesNone, In
<1>14. TreeKept
  BY <1>1 DEF TreeKept, There, In
<1>15. ImageKept
  BY SlotsAreMany, <1>1 DEF Moves, IInv, ImageKept, Owns, BuildInv, Builds, Build, PlaceInv,
     Placed, There, In
<1> QED BY <1>2, <1>3, <1>4, <1>5, <1>6, <1>7, <1>8, <1>9, <1>10, <1>11, <1>12, <1>13, <1>14,
           <1>15 DEF IInv

\* The timer counts a tick.
LEMMA TickStep ==
  ASSUME IInv, Tick
  PROVE  IInv' /\ StartsNone /\ RousesNone /\ TreeKept /\ ImageKept
<1> USE DEF None, initproc
<1>1. /\ ticks' = ticks + 1 /\ ticks \in Int /\ ticks < MaxTicks
      /\ tickslock = None /\ tickslock' = Timer
      /\ UNCHANGED <<ptable, holder, nextpid, uvmrefcount, vm, pc, local>>
      /\ \A q \in Slots : local[q].n \in Int /\ local[q].t0 \in Int /\ ptable[q].sleepticks \in Int
  BY DEF Tick, IInv, Types, PtableOK, Entries, StackOK, Locals, LocksOK
<1>2. Types'
  BY <1>1 DEF IInv, Types, PtableOK, LocksOK, MemoryOK, StackOK, Timer
<1>3. PlaceInv'
  BY SlotsAreMany, <1>1 DEF IInv, PlaceInv, Placed, In, Ticks
<1>4. BuildInv'
  BY SlotsAreMany, <1>1 DEF IInv, BuildInv, Builds, Build, In
<1>5. ParentInv'
  BY SlotsAreMany, <1>1 DEF IInv, ParentInv, BuildInv, Builds, Build, In, Alive
<1>6. PidInv'
  BY SlotsAreMany, <1>1 DEF IInv, PidInv, BuildInv, Builds, Build, PlaceInv, Placed, In
<1>7. ImageInv'
  BY SlotsAreMany, <1>1 DEF IInv, ImageInv, BuildInv, Builds, Build, There, In
<1>8. ForkInv'
  <2> SUFFICES ASSUME NEW q \in Slots, NEW c \in Slots,
                      pc'[q] \in {"forked", "giving", "given"}, local'[q].np = c
               PROVE  Forked(q, c)'
    BY DEF ForkInv
  <2> QED BY SlotsAreMany, <1>1 DEF IInv, ForkInv, Forked, In, There, PlaceInv, Placed
<1>9. NapInv'
  <2> SUFFICES ASSUME NEW q \in Slots PROVE Napping(q)'
    BY DEF NapInv
  <2>1. Napping(q) /\ pc[q] \notin {"nap", "drowse"}
    BY SlotsAreMany, <1>1 DEF IInv, NapInv, Napping
  <2>2. NapOver(q) => NapOver(q)'
    BY <1>1 DEF NapOver
  <2>3. Heard(q)' = Heard(q)
    <3>1. Heard(q) = ticks - local[q].t0
      BY SlotsAreMany, <1>1 DEF Heard, Timer
    <3>2. Heard(q)' = ticks + 1 - local[q].t0 - 1
      BY <1>1 DEF Heard, Timer
    <3> QED BY <1>1, <3>1, <3>2
  <2> QED BY <1>1, <2>1, <2>2, <2>3 DEF Napping, In
<1>10. WaitersCanBeWoken'
  BY SlotsAreMany, <1>1 DEF IInv, WaitersCanBeWoken, In, Children
<1>11. StartsNone
  BY <1>1 DEF StartsNone, Running, In
<1>12. CpusInv'
  BY IInv, <1>11, FewerRun DEF IInv, StartsNone
<1>13. RousesNone
  BY <1>1 DEF RousesNone, In
<1>14. TreeKept
  BY <1>1 DEF TreeKept, There, In
<1>15. ImageKept
  BY SlotsAreMany, <1>1 DEF IInv, ImageKept, Owns, BuildInv, Builds, Build, PlaceInv, Placed,
     There, In
<1> QED BY <1>2, <1>3, <1>4, <1>5, <1>6, <1>7, <1>8, <1>9, <1>10, <1>11, <1>12, <1>13, <1>14,
           <1>15 DEF IInv

\* The timer counts the tick off every sleeper.
LEMMA NotifyStep ==
  ASSUME IInv, Notify
  PROVE  IInv' /\ StartsNone /\ TreeKept /\ ImageKept
<1> USE DEF None, initproc
<1>1. /\ tickslock = Timer /\ holder = None /\ tickslock' = None
      /\ UNCHANGED <<holder, nextpid, ticks, uvmrefcount, vm, pc, local>>
      /\ ticks \in Int
      /\ \A q \in Slots : local[q].n \in Int /\ local[q].t0 \in Int /\ ptable[q].sleepticks \in Int
  BY DEF Notify, IInv, Types, PtableOK, Entries, StackOK, Locals, LocksOK
<1>2. /\ ptable' \in [Slots -> Entries]
      /\ \A q \in Slots :
           /\ SameName(ptable'[q], ptable[q]) /\ SameTimes(ptable'[q], ptable[q])
           /\ ptable'[q].chan = ptable[q].chan /\ ptable'[q].killed = ptable[q].killed
           /\ IF ptable[q].state = "SLEEPING" /\ ptable[q].chan = Ticks
                THEN IF ptable[q].sleepticks = 0
                       THEN ptable'[q].state = "RUNNABLE"
                       ELSE ptable'[q].state = ptable[q].state
                            /\ ptable'[q].sleepticks = ptable[q].sleepticks - 1
                ELSE ptable'[q] = ptable[q]
  <2>1. ptable' = [q \in Slots |-> Notified(ptable[q])] /\ \A q \in Slots : ptable[q] \in Entries
    BY DEF Notify, IInv, Types, PtableOK
  <2> QED BY <2>1, NotifiedOK
<1>3. Types'
  BY <1>1, <1>2 DEF IInv, Types, PtableOK, LocksOK, MemoryOK, StackOK
<1>4. PlaceInv'
  BY SlotsAreMany, <1>1, <1>2 DEF IInv, PlaceInv, Placed, In, Ticks
<1>5. BuildInv'
  BY SlotsAreMany, <1>1, <1>2 DEF IInv, BuildInv, Builds, Build, In
<1>6. ParentInv'
  BY SlotsAreMany, <1>1, <1>2 DEF IInv, ParentInv, BuildInv, Builds, Build, In, Alive, SameName
<1>7. PidInv'
  BY SlotsAreMany, <1>1, <1>2 DEF IInv, PidInv, BuildInv, Builds, Build, PlaceInv, Placed, In,
     SameName
<1>8. ImageInv'
  BY SlotsAreMany, <1>1, <1>2 DEF IInv, ImageInv, BuildInv, Builds, Build, There, In, SameName
<1>9. ForkInv'
  <2> SUFFICES ASSUME NEW q \in Slots, NEW c \in Slots,
                      pc'[q] \in {"forked", "giving", "given"}, local'[q].np = c
               PROVE  Forked(q, c)'
    BY DEF ForkInv
  <2> QED BY SlotsAreMany, <1>1, <1>2 DEF IInv, ForkInv, Forked, In, There, PlaceInv, Placed,
             SameName, SameTimes
<1>10. NapInv'
  <2> SUFFICES ASSUME NEW q \in Slots PROVE Napping(q)'
    BY DEF NapInv
  <2>1. Napping(q) /\ Placed(q) /\ pc[q] \notin {"nap", "drowse"}
    BY SlotsAreMany, <1>1 DEF IInv, NapInv, Napping, PlaceInv
  <2>2. NapOver(q)' <=> NapOver(q)
    BY <1>1 DEF NapOver
  <2>3. Heard(q) = ticks - local[q].t0 - 1 /\ Heard(q)' = ticks - local[q].t0
    BY <1>1 DEF Heard, Timer
  <2>4. CASE ptable[q].state = "SLEEPING" /\ ptable[q].chan = Ticks
    <3>1. pc[q] = "roused" /\ Heard(q) >= 0 /\ ptable[q].sleepticks = local[q].n - Heard(q)
      BY SlotsAreMany, <2>1, <2>4 DEF Placed, Napping, In
    <3>2. CASE ptable[q].sleepticks = 0
      <4>1. NapOver(q)
        BY <1>1, <2>3, <3>1, <3>2 DEF NapOver
      <4> QED BY <1>1, <1>2, <2>1, <2>2, <2>4, <3>1, <3>2, <4>1 DEF Napping, In
    <3>3. CASE ptable[q].sleepticks # 0
      <4>1. ptable'[q].sleepticks = local[q].n - Heard(q)' /\ Heard(q)' >= 0
        BY <1>1, <1>2, <2>3, <2>4, <3>1, <3>3
      <4> QED BY <1>1, <1>2, <2>1, <2>4, <3>1, <3>3, <4>1 DEF Napping, In
    <3> QED BY <3>2, <3>3
  <2>5. CASE ~(ptable[q].state = "SLEEPING" /\ ptable[q].chan = Ticks)
    <3>1. ~(pc[q] = "roused" /\ ptable[q].state = "SLEEPING")
      BY <2>1, <2>5 DEF Placed, In
    <3> QED BY <1>1, <1>2, <2>1, <2>2, <2>5, <3>1 DEF Napping, In
  <2> QED BY <2>4, <2>5
<1>11. WaitersCanBeWoken'
  BY SlotsAreMany, <1>1, <1>2 DEF IInv, WaitersCanBeWoken, In, Children, SameName
<1>12. StartsNone
  BY <1>1, <1>2 DEF StartsNone, Running, In
<1>13. CpusInv'
  BY IInv, <1>12, FewerRun DEF IInv, StartsNone
<1>14. TreeKept
  BY <1>1, <1>2 DEF TreeKept, There, In, SameName
<1>15. ImageKept
  BY SlotsAreMany, <1>1, <1>2 DEF IInv, ImageKept, Owns, BuildInv, Builds, Build, PlaceInv,
     Placed, There, In, SameName
<1> QED BY <1>3, <1>4, <1>5, <1>6, <1>7, <1>8, <1>9, <1>10, <1>11, <1>12, <1>13, <1>14,
           <1>15 DEF IInv
-----------------------------------------------------------------------------
(* The invariant *)

\* The invariant holds when userinit has made the first process.
LEMMA InitIInv == Init => IInv
<1> SUFFICES ASSUME Init PROVE IInv
  OBVIOUS
<1> USE DEF None, initproc
<1>1. ASSUME NEW q \in Slots, q # 1
      PROVE  /\ ptable[q] = Blank /\ pc[q] = "user" /\ ptable[q] \in Entries
  <2>1. Blank \in Entries
    BY DEF Blank, Entries, States, Pgdirs
  <2> QED BY <1>1, <2>1 DEF Init
<1>2. /\ ptable[1].state = "RUNNABLE" /\ ptable[1].pid = 1 /\ ptable[1].parent = 0
      /\ ptable[1].pgdir = 1 /\ pc[1] = "born" /\ ptable[1] \in Entries
  <2> DEFINE r == [Blank EXCEPT !.state = "RUNNABLE", !.pid = 1, !.sleepticks = -1, !.pgdir = 1]
  <2>1. Blank \in Entries /\ Blank.parent = 0
    BY DEF Blank, Entries, States, Pgdirs
  <2>2. r \in Entries
    <3>1. ASSUME NEW e \in Entries, NEW i \in 0..MaxPid, NEW n \in Int, NEW d \in Pgdirs
          PROVE  [e EXCEPT !.state = "RUNNABLE", !.pid = i, !.sleepticks = n, !.pgdir = d] \in Entries
      <4>1. [e EXCEPT !.state = "RUNNABLE", !.pid = i] \in Entries
        BY DEF Entries, States
      <4>2. [e EXCEPT !.state = "RUNNABLE", !.pid = i, !.sleepticks = n] \in Entries
        BY <4>1 DEF Entries
      <4> QED BY <4>2 DEF Entries
    <3>2. 1 \in 0..MaxPid /\ -1 \in Int /\ 1 \in Pgdirs
      BY DEF Pgdirs
    <3> QED BY <2>1, <3>1, <3>2
  <2>3. r.state = "RUNNABLE" /\ r.pid = 1 /\ r.parent = 0 /\ r.pgdir = 1
    BY <2>1 DEF Entries
  <2>4. ptable[1] = r /\ pc[1] = "born"
    BY SlotsAreMany DEF Init
  <2> HIDE DEF r
  <2> QED BY <2>2, <2>3, <2>4
<1>3. \A q \in Slots : local[q] = NoLocal /\ NoLocal.np = 0 /\ NoLocal \in Locals
  BY DEF Init, NoLocal, Locals
<1>4. /\ ptable \in [Slots -> Entries] /\ pc \in [Slots -> Locations] /\ local \in [Slots -> Locals]
  BY <1>1, <1>2, <1>3 DEF Init, Locations
<1>5. holder = 0 /\ nextpid = 2 /\ ticks = 0 /\ tickslock = 0
  BY DEF Init
<1>6. \A q \in Slots : pc[q] \in {"user", "born"}
  BY <1>1, <1>2
<1>7. Blank.state = "UNUSED" /\ Blank.parent = 0
  BY DEF Blank
<1>8. Types
  <2>1. MemoryOK
    BY DEF Init, MemoryOK, Pgdirs
  <2> QED BY <1>4, <1>5, <1>6, <2>1 DEF Types, PtableOK, LocksOK, StackOK
<1>9. PlaceInv
  BY SlotsAreMany, <1>1, <1>2, <1>3, <1>5, <1>7 DEF PlaceInv, Placed, In
<1>10. BuildInv /\ ParentInv /\ PidInv /\ ImageInv /\ ForkInv
  <2>1. \A p, c \in Slots : ~Builds(p, c)
    BY <1>6 DEF Builds, Build
  <2>2. 1 \in Pgdirs
    BY DEF Pgdirs
  <2>3. BuildInv
    BY <1>6, <2>1 DEF BuildInv, Build
  <2>4. ParentInv
    BY SlotsAreMany, <1>1, <1>2, <1>7, <2>1 DEF ParentInv, In, Alive
  <2>5. PidInv
    BY SlotsAreMany, <1>1, <1>2, <1>5, <1>7, <2>1 DEF PidInv, In
  <2>6. ImageInv
    BY <1>1, <1>2, <1>7, <2>1, <2>2 DEF ImageInv, There, In
  <2>7. ForkInv
    BY <1>6 DEF ForkInv
  <2> QED BY <2>3, <2>4, <2>5, <2>6, <2>7
<1>11. NapInv
  BY <1>6 DEF NapInv, Napping
<1>12. WaitersCanBeWoken
  BY SlotsAreMany, <1>1, <1>2, <1>7 DEF WaitersCanBeWoken, In
<1>13. CpusInv
  <2>1. Running = {}
    BY <1>1, <1>2, <1>7 DEF Running, In
  <2> QED BY <2>1, FS_EmptySet DEF CpusInv
<1> QED BY <1>8, <1>9, <1>10, <1>11, <1>12, <1>13 DEF IInv

\* Only the scheduler starts a process and only the timer wakes a napper;
\* the tree of processes and the shares of memory change where they should.
Effects ==
    /\ StartsNone \/ (Schedule /\ Best # None /\ Running' = Running \union {Best})
    /\ RousesNone \/ Notify
    /\ \/ TreeKept
       \/ \E p \in Slots : \/ \E c \in Slots : Publishes(p, c)
                           \/ Exit(p)
                           \/ \E z \in Slots : Frees(p, z)
    /\ \/ ImageKept
       \/ \E p \in Slots : \/ Exec(p) \/ ForkInherit(p) \/ CloneLoad(p) \/ CloneStore(p)
                           \/ \E z \in Slots : Wait(p) /\ Reaps(p, z)

\* Every step of the kernel keeps the invariant.
LEMMA StepIInv ==
  ASSUME IInv, [Next]_vars
  PROVE  IInv' /\ Effects
<1>1. CASE Schedule
  <2>1. CASE Best = None
    BY <1>1, <2>1, IdleStep DEF Effects
  <2>2. CASE Best # None
    <3>1. Best \in Slots /\ Candidate(Best)
      BY <2>2, BestIsBest DEF IInv, Picked, Slots
    <3> QED BY <1>1, <2>2, <3>1, DispatchStep DEF Effects
  <2> QED BY <2>1, <2>2
<1>2. CASE Tick
  BY <1>2, TickStep DEF Effects
<1>3. CASE Notify
  BY <1>3, NotifyStep DEF Effects
<1>4. ASSUME NEW p \in Slots, Fork(p) \/ Clone(p)
      PROVE  IInv' /\ Effects
  BY <1>4, AllocStep DEF Fork, Clone, Effects
<1>5. ASSUME NEW p \in Slots, Wait(p)
      PROVE  IInv' /\ Effects
  <2>1. CASE \E z \in Slots : Reaps(p, z)
    BY <1>5, <2>1, ReapStep DEF Effects
  <2>2. CASE GivesUp(p) \/ Waits(p)
    BY <1>5, <2>2, WaitEndStep, WaitSleepStep DEF Effects
  <2> QED BY <1>5, <2>1, <2>2, WaitCases
<1>6. ASSUME NEW p \in Slots, Nap(p)
      PROVE  IInv' /\ Effects
  <2>1. PICK n \in Naps :
          IF n = 0 THEN Goto(p, "yield") /\ UNCHANGED <<ptable, tickslock, local>>
          ELSE /\ TakeTickslock(p)
               /\ ptable' = [ptable EXCEPT ![p].sleepticks = n]
               /\ local' = [local EXCEPT ![p].n = n, ![p].t0 = ticks]
               /\ Goto(p, "nap")
    BY <1>6 DEF Nap
  <2>2. CASE n = 0
    BY <1>6, <2>1, <2>2, NapZeroStep DEF Effects
  <2>3. CASE n # 0
    BY <1>6, <2>1, <2>3, NapStartStep DEF Effects
  <2> QED BY <2>2, <2>3
<1>7. ASSUME NEW p \in Slots, NapTest(p)
      PROVE  IInv' /\ Effects
  <2>1. Return(p) \/ (Goto(p, "drowse") /\ UNCHANGED <<ptable, tickslock, local>>)
    BY <1>7 DEF NapTest
  <2> QED BY <1>7, <2>1, NapEndStep, NapGoOnStep DEF Effects
<1>8. ASSUME NEW p \in Slots,
             \/ Yield(p) \/ GiveCpu(p) \/ Remain(p) \/ Exec2(p) \/ AllocFail(p)
             \/ Kill(p) \/ NapSleep(p) \/ NapWake(p)
      PROVE  IInv' /\ Effects
  <2>1. IInv' /\ StartsNone /\ RousesNone /\ TreeKept /\ ImageKept
    BY <1>8, YieldStep, GiveCpuStep, RemainStep, Exec2Step, AllocFailStep, KillStep,
       NapSleepStep, NapWakeStep
  <2> QED BY <2>1 DEF Effects
<1>9. ASSUME NEW p \in Slots, Exec(p) \/ ForkInherit(p) \/ CloneLoad(p) \/ CloneStore(p)
      PROVE  IInv' /\ Effects
  <2>1. IInv' /\ StartsNone /\ RousesNone /\ TreeKept
    BY <1>9, ExecStep, ForkInheritStep, CloneLoadStep, CloneStoreStep
  <2> QED BY <1>9, <2>1 DEF Effects
<1>10. ASSUME NEW p \in Slots, Publish(p) \/ Exit(p)
       PROVE  IInv' /\ Effects
  BY <1>10, PublishStep, ExitStep DEF Effects
<1>11. CASE UNCHANGED vars
  <2>1. /\ Types' /\ PlaceInv' /\ BuildInv' /\ ParentInv' /\ PidInv' /\ ImageInv'
    BY <1>11 DEF vars, IInv, Types, PtableOK, LocksOK, MemoryOK, StackOK, PlaceInv, Placed, In,
       BuildInv, Builds, ParentInv, Alive, PidInv, ImageInv, There
  <2>2. ForkInv' /\ NapInv' /\ WaitersCanBeWoken' /\ CpusInv'
    BY <1>11 DEF vars, IInv, ForkInv, Forked, There, In, NapInv, Napping, NapOver, Heard,
       WaitersCanBeWoken, Children, CpusInv, Running
  <2>3. StartsNone /\ RousesNone /\ TreeKept /\ ImageKept
    BY <1>11 DEF vars, StartsNone, Running, RousesNone, TreeKept, There, ImageKept, Owns, In
  <2> QED BY <2>1, <2>2, <2>3 DEF IInv, Effects
<1> QED
  BY <1>1, <1>2, <1>3, <1>4, <1>5, <1>6, <1>7, <1>8, <1>9, <1>10, <1>11 DEF Next, Syscall, Kernel

\* The invariant holds in every state.
THEOREM Invariance == Spec => []IInv
<1>1. IInv /\ [Next]_vars => IInv'
  BY StepIInv
<1> QED BY InitIInv, <1>1, PTL DEF Spec

\* The process table, the locks and the kernel stacks only ever hold values of
\* their C types, and no more processes run than there are processors.
THEOREM TypeCorrect == Spec => []TypeOK
<1>1. IInv => TypeOK
  BY DEF IInv, Types, PtableOK, LocksOK, MemoryOK, StackOK, Entries, Locals, CpusInv, TypeOK
<1> QED BY <1>1, Invariance, PTL

\* No wakeup of wait is lost, on any number of processors.
THEOREM NoLostWakeup == Spec => []WaitersCanBeWoken
<1>1. IInv => WaitersCanBeWoken
  BY DEF IInv
<1> QED BY <1>1, Invariance, PTL

-----------------------------------------------------------------------------
(* The order of processes *)

\* The process the scan dispatches is the one it picked.
LEMMA DispatchedIsBest ==
  ASSUME IInv, [Next]_vars, NEW p \in Slots, Dispatched(p)
  PROVE  p = Best /\ Candidate(p) /\ Picked(p, NPROC)
<1>1. p \in Running' /\ p \notin Running
  BY DEF Dispatched, Running, In
<1>2. ~StartsNone
  BY <1>1 DEF StartsNone
<1>3. Best # None /\ Running' = Running \union {Best}
  BY <1>2, StepIInv DEF Effects
<1>4. Picked(Best, NPROC)
  BY BestIsBest DEF IInv
<1> QED BY <1>1, <1>3, <1>4 DEF Picked

\* The scheduler never runs a process while a candidate has less time to
\* completion, or as much and a higher pid, for any table and any order of it.
THEOREM RunsTheShortest == Spec => ShortestRuns
<1> DEFINE Shortest == \A p \in Slots : Dispatched(p) =>
             \A q \in Slots \ {p} : Candidate(q) =>
                \/ ptable[p].ec < ptable[q].ec
                \/ ptable[p].ec = ptable[q].ec /\ ptable[p].pid > ptable[q].pid
<1>1. IInv /\ [Next]_vars => Shortest
  <2> SUFFICES ASSUME IInv, [Next]_vars, NEW p \in Slots, Dispatched(p),
                      NEW q \in Slots \ {p}, Candidate(q)
               PROVE  \/ ptable[p].ec < ptable[q].ec
                      \/ ptable[p].ec = ptable[q].ec /\ ptable[p].pid > ptable[q].pid
    OBVIOUS
  <2>1. Candidate(p) /\ Picked(p, NPROC) /\ p # None /\ q \in 1..NPROC
    BY DispatchedIsBest, SlotsAreMany DEF Slots
  <2>2. \/ ptable[p].ec < ptable[q].ec
        \/ ptable[p].ec = ptable[q].ec /\ ptable[p].pid >= ptable[q].pid
    BY <2>1 DEF Picked
  <2>3. ptable[p].pid # ptable[q].pid
    BY <2>1 DEF IInv, PidInv, Candidate, In
  <2>4. ptable[p].pid \in Int /\ ptable[q].pid \in Int
    BY DEF IInv, Types, PtableOK, Entries
  <2> QED BY <2>2, <2>3, <2>4
<1> QED BY <1>1, Invariance, PTL DEF Spec, ShortestRuns

\* After fork the child runs before its parent runs again, whatever runs in
\* between.
THEOREM ChildRunsFirst == Spec => ForkChildFirst
<1> DEFINE First == \A p \in Slots : Dispatched(p) /\ pc[p] = "given" /\ local[p].np # None =>
             ~(In(local[p].np, "RUNNABLE") /\ pc[local[p].np] = "born")
<1>1. IInv /\ [Next]_vars => First
  <2> SUFFICES ASSUME IInv, [Next]_vars, NEW p \in Slots, Dispatched(p), pc[p] = "given",
                      NEW c, c = local[p].np, c # None, In(c, "RUNNABLE"), pc[c] = "born"
               PROVE  FALSE
    OBVIOUS
  <2>1. c \in Slots
    BY DEF IInv, Types, StackOK, Locals
  <2>2. c # p /\ ptable[c].ec = ptable[p].ec /\ ptable[c].pid > ptable[p].pid /\ ~ptable[c].skip
    BY <2>1 DEF IInv, ForkInv, Forked
  <2>3. Picked(p, NPROC) /\ p # None /\ c \in 1..NPROC /\ Candidate(c)
    BY <2>1, <2>2, DispatchedIsBest, SlotsAreMany DEF Slots, Candidate
  <2>4. /\ ptable[p].pid \in Int /\ ptable[c].pid \in Int
        /\ ptable[p].ec \in Int /\ ptable[c].ec \in Int
    BY <2>1 DEF IInv, Types, PtableOK, Entries
  <2>5. \/ ptable[p].ec < ptable[c].ec
        \/ ptable[p].ec = ptable[c].ec /\ ptable[p].pid >= ptable[c].pid
    BY <2>3 DEF Picked
  <2> QED BY <2>2, <2>4, <2>5
<1> QED BY <1>1, Invariance, PTL DEF Spec, ForkChildFirst

\* The timer wakes a sleeper after exactly n + 1 ticks, never early and never
\* late.
THEOREM NapsLastTheirTicks == Spec => NapLasts
<1> DEFINE Lasts == \A p \in Slots :
             In(p, "SLEEPING") /\ ptable[p].chan = Ticks /\ ptable'[p].state = "RUNNABLE"
                /\ ~ptable'[p].killed
             => ticks - local[p].t0 = local[p].n + 1
<1>1. IInv /\ [Next]_vars => Lasts
  <2> SUFFICES ASSUME IInv, [Next]_vars, NEW p \in Slots, In(p, "SLEEPING"), ptable[p].chan = Ticks,
                      ptable'[p].state = "RUNNABLE", ~ptable'[p].killed
               PROVE  ticks - local[p].t0 = local[p].n + 1
    OBVIOUS
  <2>1. Notify
    BY StepIInv DEF Effects, RousesNone, In
  <2>2. ptable[p] \in Entries /\ ptable'[p] = Notified(ptable[p]) /\ tickslock = Timer
    BY <2>1 DEF Notify, IInv, Types, PtableOK
  <2>3. ptable[p].sleepticks = 0
    BY <2>2, NotifiedOK DEF In
  <2>4. pc[p] = "roused"
    BY SlotsAreMany DEF IInv, PlaceInv, Placed
  <2>5. Heard(p) = ticks - local[p].t0 - 1
    BY <2>2 DEF Heard
  <2>6. 0 = local[p].n - Heard(p)
    BY <2>3, <2>4 DEF IInv, NapInv, Napping
  <2>7. ticks \in Int /\ local[p].t0 \in Int /\ local[p].n \in Int
    BY DEF IInv, Types, LocksOK, StackOK, Locals
  <2> QED BY <2>5, <2>6, <2>7
<1> QED BY <1>1, Invariance, PTL DEF Spec, NapLasts

-----------------------------------------------------------------------------
(* The tree of processes *)

\* The three variables of ProcessTree.
status == [p \in Slots |-> IF ~There(p) THEN "free" ELSE IF In(p, "ZOMBIE") THEN "zombie" ELSE "live"]
parent == [p \in Slots |-> IF There(p) THEN ptable[p].parent ELSE None]
pid    == [p \in Slots |-> IF There(p) THEN ptable[p].pid ELSE None]

\* The first process is the whole tree.
LEMMA InitTree == Init => Tree!TreeInit
<1> SUFFICES ASSUME Init PROVE status = [q \in Slots |-> IF q = initproc THEN "live" ELSE "free"]
       /\ parent = [q \in Slots |-> None] /\ pid = [q \in Slots |-> IF q = initproc THEN 1 ELSE None]
  BY DEF Tree!TreeInit, status, parent, pid
<1>1. \A q \in Slots : /\ There(q) <=> q = initproc
                       /\ q = initproc => ptable[q].parent = None /\ ptable[q].pid = 1 /\ ~In(q, "ZOMBIE")
  <2>1. \A q \in Slots : q # initproc => ptable[q].state = "UNUSED"
    BY DEF Init, Blank
  <2>2. ptable[initproc].state = "RUNNABLE" /\ ptable[initproc].parent = None /\ ptable[initproc].pid = 1
    BY SlotsAreMany DEF Init, Blank
  <2> QED BY <2>1, <2>2 DEF There, In
<1> QED BY <1>1 DEF status, parent, pid

\* Every step is a step of the tree or leaves the tree as it is.
LEMMA StepTree ==
  ASSUME IInv, [Next]_vars
  PROVE  Tree!TreeNext \/ UNCHANGED <<status, parent, pid>>
<1>1. CASE TreeKept
  BY <1>1 DEF TreeKept, status, parent, pid, In
<1>2. ASSUME NEW p \in Slots, NEW c \in Slots, Publishes(p, c) PROVE Tree!Spawn(p, c)
  <2>1. status[p] = "live" /\ status[c] = "free"
    BY <1>2 DEF Publishes, status, There, In
  <2>2. status' = [status EXCEPT ![c] = "live"]
    BY <1>2 DEF Publishes, Others, status, There, In
  <2>3. parent' = [parent EXCEPT ![c] = p]
    BY <1>2 DEF Publishes, Others, parent, There, In
  <2>4. pid' = [pid EXCEPT ![c] = ptable[c].pid]
    BY <1>2 DEF Publishes, Others, pid, There, In
  <2>5. ptable[c].pid \in 1..MaxPid /\ \A r \in Slots : pid[r] # ptable[c].pid
    <3>1. ptable[c].pid \in 1..(nextpid - 1) /\ ptable[c].pid \in 0..MaxPid /\ nextpid \in Int
      BY <1>2 DEF Publishes, IInv, PidInv, In, Types, PtableOK, Entries, LocksOK
    <3>2. \A r \in Slots : There(r) => ptable[r].pid # ptable[c].pid
      BY <1>2 DEF Publishes, IInv, PidInv, There, In
    <3> QED BY <3>1, <3>2 DEF pid, None
  <2>6. ptable[c].pid \in (1..MaxPid) \ {pid[r] : r \in Slots}
    BY <2>5
  <2> QED BY <2>1, <2>2, <2>3, <2>4, <2>6 DEF Tree!Spawn, status, parent, pid
<1>3. ASSUME NEW p \in Slots, Exit(p) PROVE Tree!Finish(p)
  <2>1. In(p, "RUNNING") /\ p # initproc
    BY <1>3 DEF Exit, At
  <2>2. \A q \in Slots :
          /\ There(q)' <=> There(q)
          /\ q # p /\ There(q) => (ptable'[q].state = "ZOMBIE" <=> ptable[q].state = "ZOMBIE")
          /\ ptable'[q].parent = (IF ptable[q].parent = p THEN initproc ELSE ptable[q].parent)
          /\ ptable'[q].pid = ptable[q].pid
    <3>1. \A q \in Slots : q # p =>
            \/ ptable'[q].state = ptable[q].state
            \/ ptable[q].state = "SLEEPING" /\ ptable'[q].state = "RUNNABLE"
      BY <1>3, ExitEffect DEF IInv, Types
    <3>2. /\ ptable'[p].state = "ZOMBIE"
          /\ \A q \in Slots : /\ ptable'[q].pid = ptable[q].pid
                              /\ ptable'[q].parent = (IF ptable[q].parent = p THEN initproc
                                                                          ELSE ptable[q].parent)
      BY <1>3, ExitEffect DEF IInv, Types
    <3> QED BY <2>1, <3>1, <3>2 DEF There, In
  <2>3. status[p] = "live" /\ status' = [status EXCEPT ![p] = "zombie"]
    <3>1. status[p] = "live" /\ There(p) /\ ptable'[p].state = "ZOMBIE"
      BY <1>3, <2>1, ExitEffect DEF status, There, In, IInv, Types
    <3> QED BY <2>2, <3>1 DEF status, In
  <2>4. parent' = [q \in Slots |-> IF parent[q] = p THEN initproc ELSE parent[q]]
    BY <2>2, SlotsAreMany DEF parent
  <2>5. pid' = pid
    BY <2>2 DEF pid
  <2> QED BY <2>1, <2>3, <2>4, <2>5 DEF Tree!Finish, status, parent, pid
<1>4. ASSUME NEW p \in Slots, NEW z \in Slots, Frees(p, z) PROVE Tree!Reap(p, z)
  <2>1. status[p] = "live" /\ status[z] = "zombie" /\ parent[z] = p
    BY <1>4 DEF Frees, status, parent, There, In
  <2>2. status' = [status EXCEPT ![z] = "free"]
    BY <1>4 DEF Frees, Others, status, There, In
  <2>3. parent' = [parent EXCEPT ![z] = None]
    BY <1>4 DEF Frees, Others, parent, There, In
  <2>4. pid' = [pid EXCEPT ![z] = None]
    BY <1>4 DEF Frees, Others, pid, There, In
  <2> QED BY <2>1, <2>2, <2>3, <2>4 DEF Tree!Reap, status, parent, pid
<1>5. TreeKept \/ \E p \in Slots : \/ \E c \in Slots : Publishes(p, c)
                                   \/ Exit(p)
                                   \/ \E z \in Slots : Frees(p, z)
  BY StepIInv DEF Effects
<1> QED BY <1>1, <1>2, <1>3, <1>4, <1>5 DEF Tree!TreeNext

\* fork, clone, exit and wait keep the promises of ProcessTree: a step that
\* changes the tree publishes one child, finishes one process and hands its
\* children to init, or reaps one zombie of the process that waits.
THEOREM ImplementsTree == Spec => TreeSpec
<1>1. IInv /\ [Next]_vars => [Tree!TreeNext]_(Tree!tree)
  <2>1. UNCHANGED <<status, parent, pid>> => UNCHANGED Tree!tree
    BY DEF Tree!tree, status, parent, pid
  <2> QED BY <2>1, StepTree
<1> QED BY <1>1, InitTree, Invariance, PTL DEF Spec, TreeSpec, Tree!TreeSpec

-----------------------------------------------------------------------------
(* Shared memory on one processor *)

\* The record of page directory d is right: it is in use exactly when somebody
\* shares it, and its descriptor, if it has one, counts the sharers.
Recorded(d) ==
    /\ d \in vm <=> Sharers(d) # {}
    /\ d \in vm => \/ uvmrefcount[d] = Cardinality(Sharers(d))
                   \/ uvmrefcount[d] = -1 /\ Cardinality(Sharers(d)) = 1
    /\ d \notin vm => uvmrefcount[d] = -1

\* The count that clone loaded, and has still to store, includes the child.
Counting(p, c) ==
    pc[p] = "count" /\ local[p].np = c =>
       /\ ptable[c].pgdir = ptable[p].pgdir
       /\ local[p].rc = Cardinality(Sharers(ptable[p].pgdir)) + 1

ShareInv == /\ \A d \in Pgdirs : Recorded(d)
            /\ \A p, c \in Slots : Counting(p, c)

\* The processes of an address space can be counted.
LEMMA SharersFinite ==
  ASSUME NEW d
  PROVE  IsFiniteSet(Sharers(d)) /\ Cardinality(Sharers(d)) \in Nat /\ Sharers(d) \subseteq Slots
<1>1. Sharers(d) \subseteq Slots
  BY DEF Sharers
<1>2. IsFiniteSet(Sharers(d))
  BY <1>1, SlotsAreMany, FS_Subset
<1> QED BY <1>1, <1>2, FS_CardinalityType

\* On one processor, while p runs nobody else is between the two halves of
\* the count.
LEMMA OneCounts ==
  ASSUME Cpus = 1, IInv, NEW p \in Slots, In(p, "RUNNING"), NEW q \in Slots, pc[q] = "count"
  PROVE  q = p
<1>1. In(q, "RUNNING")
  <2>1. ptable[q].state \in States
    BY DEF IInv, Types, PtableOK, Entries
  <2> QED BY <2>1 DEF IInv, PlaceInv, Placed, In, States
<1>2. SUFFICES ASSUME q # p PROVE FALSE
  OBVIOUS
<1>3. p \in Running /\ q \in Running
  BY <1>1 DEF Running
<1>4. IsFiniteSet(Running) /\ IsFiniteSet({p})
  BY SlotsAreMany, FS_Subset, FS_Singleton DEF Running
<1>5. Cardinality({p}) = 1 /\ {p} \subseteq Running /\ {p} # Running
  BY <1>2, <1>3, FS_Singleton
<1>6. Cardinality({p}) < Cardinality(Running)
  BY <1>4, <1>5, FS_Subset, FS_CardinalityType
<1>7. Cardinality(Running) \in Nat /\ Cardinality(Running) <= 1
  BY <1>4, FS_CardinalityType DEF IInv, CpusInv
<1> QED BY <1>5, <1>6, <1>7

\* A page directory nobody joins or leaves stays recorded.
LEMMA StaysRecorded ==
  ASSUME NEW d \in Pgdirs, Recorded(d), Sharers(d)' = Sharers(d),
         uvmrefcount'[d] = uvmrefcount[d], d \in vm' <=> d \in vm
  PROVE  Recorded(d)'
BY DEF Recorded

\* A fresh page directory has one sharer and no descriptor.
LEMMA FreshRecorded ==
  ASSUME NEW d \in Pgdirs, NEW q, Sharers(d)' = {q}, uvmrefcount'[d] = -1, d \in vm'
  PROVE  Recorded(d)'
<1>1. Cardinality({q}) = 1
  BY FS_Singleton
<1> QED BY <1>1 DEF Recorded

\* freevm, when z stops sharing d, leaves every other directory alone.
LEMMA FreevmRecorded ==
  ASSUME MemoryOK, NEW d \in Pgdirs, Recorded(d), NEW z \in Sharers(d),
         NEW fresh \in SUBSET (Pgdirs \ vm), Freevm(d, fresh), Sharers(d)' = Sharers(d) \ {z}
  PROVE  /\ Recorded(d)'
         /\ \A e \in Pgdirs \ {d} : /\ uvmrefcount'[e] = uvmrefcount[e]
                                    /\ e \in vm' <=> e \in vm \/ e \in fresh
<1>1. d \in vm /\ d \notin fresh
  BY DEF Recorded
<1>2. /\ Cardinality(Sharers(d) \ {z}) = Cardinality(Sharers(d)) - 1
      /\ IsFiniteSet(Sharers(d) \ {z}) /\ Cardinality(Sharers(d)) \in Nat
      /\ Cardinality(Sharers(d) \ {z}) \in Nat
  BY SharersFinite, FS_RemoveElement, FS_CardinalityType
<1>3. Sharers(d) \ {z} = {} <=> Cardinality(Sharers(d) \ {z}) = 0
  BY <1>2, FS_EmptySet
<1>4. CASE uvmrefcount[d] > 1
  <2>1. /\ uvmrefcount' = [uvmrefcount EXCEPT ![d] = uvmrefcount[d] - 1]
        /\ vm' = vm \union fresh
    BY <1>4 DEF Freevm
  <2>2. uvmrefcount[d] = Cardinality(Sharers(d))
    BY <1>1, <1>4 DEF Recorded
  <2>3. /\ uvmrefcount'[d] = Cardinality(Sharers(d)) - 1
        /\ \A e \in Pgdirs \ {d} : uvmrefcount'[e] = uvmrefcount[e]
    BY <2>1, <2>2 DEF MemoryOK
  <2>4. Recorded(d)'
    BY <1>1, <1>2, <1>3, <1>4, <2>1, <2>2, <2>3 DEF Recorded
  <2> QED BY <2>1, <2>3, <2>4
<1>5. CASE ~(uvmrefcount[d] > 1)
  <2>1. /\ uvmrefcount' = [uvmrefcount EXCEPT ![d] = -1]
        /\ vm' = (vm \union fresh) \ {d}
    BY <1>5 DEF Freevm
  <2>2. /\ uvmrefcount'[d] = -1
        /\ \A e \in Pgdirs \ {d} : uvmrefcount'[e] = uvmrefcount[e]
    BY <2>1 DEF MemoryOK
  <2>3. Cardinality(Sharers(d)) = 1
    <3>1. uvmrefcount[d] \in Int
      BY DEF MemoryOK
    <3> QED BY <1>1, <1>2, <1>5, <3>1 DEF Recorded
  <2>4. Sharers(d)' = {}
    BY <1>2, <1>3, <2>3
  <2>5. Recorded(d)'
    BY <2>1, <2>2, <2>4 DEF Recorded
  <2> QED BY <2>1, <2>2, <2>5
<1> QED BY <1>4, <1>5

\* The first process has its address space alone.
LEMMA InitShare == Init => ShareInv
<1> SUFFICES ASSUME Init PROVE ShareInv
  OBVIOUS
<1>1. \A q \in Slots : /\ q = initproc => ptable[q].state = "RUNNABLE" /\ ptable[q].pgdir = 1
                       /\ q # initproc => ptable[q].state = "UNUSED"
                       /\ pc[q] \notin {"count", "forked", "cloned"}
  BY SlotsAreMany DEF Init, Blank
<1>2. \A d \in Pgdirs : Sharers(d) = IF d = 1 THEN {initproc} ELSE {}
  <2>1. \A q \in Slots : Owns(q) <=> q = initproc
    BY <1>1 DEF Owns, In
  <2> QED BY <1>1, <2>1, SlotsAreMany DEF Sharers
<1>3. Cardinality({initproc}) = 1
  BY FS_Singleton
<1>4. ASSUME NEW d \in Pgdirs PROVE Recorded(d)
  BY <1>2, <1>3 DEF Recorded, Init
<1> QED BY <1>1, <1>4 DEF ShareInv, Counting

\* exec that succeeds: p leaves its page directory for a fresh one.
LEMMA ExecShare ==
  ASSUME Cpus = 1, IInv, ShareInv, NEW p \in Slots, Exec(p)
  PROVE  ShareInv'
<1>1. /\ In(p, "RUNNING") /\ pc[p] \in {"user", "exec"} /\ Moves(p, "user") /\ Frames(p)
      /\ local'[p] = NoLocal
  BY ReturnMoves DEF IInv, Types, Exec, Enter, At, In
<1>2. \A q, c \in Slots : Counting(q, c)'
  BY <1>1, OneCounts DEF Counting, Moves
<1>3. PICK d \in Pgdirs : d = ptable[p].pgdir
  BY <1>1 DEF IInv, ImageInv, There, In
<1>4. CASE UNCHANGED <<ptable, uvmrefcount, vm>>
  <2>1. \A q \in Slots : Owns(q)' <=> Owns(q)
    BY <1>1, <1>4 DEF Owns, In, Moves, Frames
  <2>2. ASSUME NEW e \in Pgdirs PROVE Recorded(e)'
    <3>1. Sharers(e)' = Sharers(e)
      BY <1>4, <2>1 DEF Sharers
    <3> QED BY <1>4, <3>1, StaysRecorded DEF ShareInv
  <2> QED BY <1>2, <2>2 DEF ShareInv
<1>5. CASE /\ Pgdirs # vm
           /\ ptable' = [ptable EXCEPT ![p].pgdir = FreshPgdir]
           /\ Freevm(ptable[p].pgdir, {FreshPgdir})
  <2>1. PICK f \in Pgdirs \ vm : f = FreshPgdir
    BY <1>5, FreshIsFree DEF IInv, Types
  <2>2. \A q \in Slots : /\ ptable'[q].state = ptable[q].state
                         /\ ptable'[q].pgdir = IF q = p THEN f ELSE ptable[q].pgdir
    <3>1. ptable[p] \in Entries
      BY DEF IInv, Types, PtableOK
    <3>2. PICK s : s = [ptable[p] EXCEPT !.pgdir = f]
      OBVIOUS
    <3>3. s.state = ptable[p].state /\ s.pgdir = f
      BY <3>1, <3>2 DEF Entries
    <3>4. ptable' = [ptable EXCEPT ![p] = s]
      BY <1>5, <2>1, <3>2 DEF IInv, Types, PtableOK
    <3> QED BY <3>3, <3>4 DEF IInv, Types, PtableOK
  <2>3. \A q \in Slots : Owns(q)' <=> Owns(q)
    BY <1>1, <2>2 DEF Owns, In, Moves, Frames
  <2>4. Owns(p) /\ p \in Sharers(d) /\ d \in vm /\ f # d
    BY <1>1, <1>3, <2>1 DEF Owns, In, Sharers, ShareInv, Recorded
  <2>5. Sharers(f) = {} /\ uvmrefcount[f] = -1
    BY <2>1 DEF ShareInv, Recorded
  <2>6. /\ Sharers(d)' = Sharers(d) \ {p} /\ Sharers(f)' = {p}
        /\ \A e \in Pgdirs \ {d, f} : Sharers(e)' = Sharers(e)
    BY <1>3, <2>2, <2>3, <2>4, <2>5 DEF Sharers
  <2>7. /\ Recorded(d)'
        /\ \A e \in Pgdirs \ {d} : /\ uvmrefcount'[e] = uvmrefcount[e]
                                   /\ e \in vm' <=> e \in vm \/ e \in {f}
    BY <1>3, <1>5, <2>1, <2>4, <2>6, FreevmRecorded DEF IInv, Types, ShareInv
  <2>8. Recorded(f)'
    BY <2>1, <2>4, <2>5, <2>6, <2>7, FreshRecorded
  <2>9. ASSUME NEW e \in Pgdirs \ {d, f} PROVE Recorded(e)'
    BY <2>6, <2>7, StaysRecorded DEF ShareInv
  <2> QED BY <1>2, <2>7, <2>8, <2>9 DEF ShareInv
<1> QED BY <1>4, <1>5 DEF Exec

\* wait that reaps: the zombie z leaves its page directory.
LEMMA ReapShare ==
  ASSUME Cpus = 1, IInv, ShareInv, NEW p \in Slots, Wait(p), NEW z \in Slots, Reaps(p, z)
  PROVE  ShareInv'
<1>1. /\ In(p, "RUNNING") /\ pc[p] \in {"user", "wait"} /\ Moves(p, "user") /\ Frames(p)
      /\ local'[p] = NoLocal
  BY ReturnMoves, WaitCases DEF IInv, Types, Reaps, In
<1>2. \A q, c \in Slots : Counting(q, c)'
  BY <1>1, OneCounts DEF Counting, Moves
<1>3. In(z, "ZOMBIE") /\ ptable'[z].state = "UNUSED" /\ Others(z)
  BY ReapStep DEF Frees, In
<1>4. PICK d \in Pgdirs : d = ptable[z].pgdir
  BY <1>3 DEF IInv, ImageInv, There, In
<1>5. \A q \in Slots : Owns(q)' <=> Owns(q) /\ q # z
  <2>1. \A b \in Slots : pc[b] \in {"forked", "cloned"} => local[b].np # z
    BY <1>3 DEF IInv, BuildInv, Builds, Build, In
  <2> QED BY <1>1, <1>3, <2>1 DEF Owns, In, Moves, Frames, Others
<1>6. z \in Sharers(d)
  BY <1>3, <1>4 DEF Sharers, Owns, In
<1>7. /\ Sharers(d)' = Sharers(d) \ {z}
      /\ \A e \in Pgdirs \ {d} : Sharers(e)' = Sharers(e)
  BY <1>3, <1>4, <1>5 DEF Sharers, Others
<1>8. /\ Recorded(d)'
      /\ \A e \in Pgdirs \ {d} : /\ uvmrefcount'[e] = uvmrefcount[e]
                                 /\ e \in vm' <=> e \in vm \/ e \in {}
  BY <1>4, <1>6, <1>7, FreevmRecorded DEF IInv, Types, ShareInv, Reaps
<1>9. ASSUME NEW e \in Pgdirs \ {d} PROVE Recorded(e)'
  BY <1>7, <1>8, StaysRecorded DEF ShareInv
<1> QED BY <1>2, <1>8, <1>9 DEF ShareInv

\* fork: the child c gets a fresh page directory.
LEMMA ForkShare ==
  ASSUME Cpus = 1, IInv, ShareInv, NEW p \in Slots, ForkInherit(p)
  PROVE  ShareInv'
<1>1. /\ In(p, "RUNNING") /\ pc[p] = "fork" /\ Moves(p, "forked") /\ local' = local
      /\ uvmrefcount' = uvmrefcount
  BY GotoMoves DEF IInv, Types, ForkInherit, At
<1>2. PICK c \in Slots : c = local[p].np /\ In(c, "EMBRYO") /\ c # p
  BY <1>1 DEF IInv, BuildInv, Builds, Build, In
<1>3. PICK f \in Pgdirs \ vm : f = FreshPgdir /\ vm' = vm \union {f}
  BY FreshIsFree DEF IInv, Types, ForkInherit
<1>4. \A q \in Slots : /\ ptable'[q].state = ptable[q].state
                       /\ ptable'[q].pgdir = IF q = c THEN f ELSE ptable[q].pgdir
  <2>1. ptable[p] \in Entries /\ ptable[c] \in Entries /\ ticks \in 0..MaxTicks
    BY DEF IInv, Types, PtableOK, LocksOK
  <2>2. PICK s : s = [ptable[p] EXCEPT !.ec = Charged(p), !.globalTick = ticks]
    OBVIOUS
  <2>3. PICK e : e = [Fresh(c) EXCEPT !.parent = p, !.pgdir = f, !.ec = Charged(p)]
    OBVIOUS
  <2>4. s.state = ptable[p].state /\ s.pgdir = ptable[p].pgdir
    BY <2>1, <2>2 DEF Entries
  <2>5. e.state = ptable[c].state /\ e.pgdir = f
    BY <2>1, <2>3, FreshOK DEF Entries
  <2>6. ptable' = [ptable EXCEPT ![p] = s, ![c] = e]
    BY <1>2, <1>3, <2>2, <2>3 DEF ForkInherit, IInv, Types, PtableOK
  <2> QED BY <1>2, <2>4, <2>5, <2>6 DEF IInv, Types, PtableOK
<1>5. \A q, r \in Slots : Counting(q, r)'
  BY <1>1, OneCounts DEF Counting, Moves
<1>6. \A q \in Slots : Owns(q)' <=> Owns(q) \/ q = c
  BY <1>1, <1>2, <1>4 DEF Owns, In, Moves
<1>7. Sharers(f) = {} /\ uvmrefcount[f] = -1
  BY <1>3 DEF ShareInv, Recorded
<1>8. ~Owns(c)
  BY <1>1, <1>2 DEF Owns, In, IInv, BuildInv, Builds, Build
<1>9. Sharers(f)' = {c} /\ \A e \in Pgdirs \ {f} : Sharers(e)' = Sharers(e)
  BY <1>4, <1>6, <1>7, <1>8 DEF Sharers
<1>10. Recorded(f)'
  BY <1>1, <1>3, <1>7, <1>9, FreshRecorded
<1>11. ASSUME NEW e \in Pgdirs \ {f} PROVE Recorded(e)'
  BY <1>1, <1>3, <1>9, StaysRecorded DEF ShareInv
<1> QED BY <1>5, <1>10, <1>11 DEF ShareInv

\* clone, first half: the child c gets the page directory of p, and p has
\* loaded the count that includes it.
LEMMA LoadShare ==
  ASSUME Cpus = 1, IInv, ShareInv, NEW p \in Slots, CloneLoad(p)
  PROVE  ShareInv'
<1>1. /\ In(p, "RUNNING") /\ pc[p] = "clone" /\ Moves(p, "count")
      /\ uvmrefcount' = uvmrefcount /\ vm' = vm
  BY GotoMoves DEF IInv, Types, CloneLoad, At
<1>2. PICK c \in Slots : c = local[p].np /\ In(c, "EMBRYO") /\ c # p
  BY <1>1 DEF IInv, BuildInv, Builds, Build, In
<1>3. PICK d \in Pgdirs : d = ptable[p].pgdir
  BY <1>1 DEF IInv, ImageInv, There, In
<1>4. /\ Frames(p) /\ local'[p].np = c
      /\ local'[p].rc = IF uvmrefcount[d] = -1 THEN 2 ELSE uvmrefcount[d] + 1
  <2>1. local[p] \in Locals
    BY DEF IInv, Types, StackOK
  <2>2. PICK k : k = IF uvmrefcount[d] = -1 THEN 2 ELSE uvmrefcount[d] + 1
    OBVIOUS
  <2>3. PICK s : s = [local[p] EXCEPT !.rc = k]
    OBVIOUS
  <2>4. s.np = c /\ s.rc = k
    BY <1>2, <2>1, <2>3 DEF Locals
  <2>5. local' = [local EXCEPT ![p] = s]
    BY <1>3, <2>2, <2>3 DEF CloneLoad, IInv, Types, StackOK
  <2> QED BY <2>2, <2>4, <2>5 DEF Frames, IInv, Types, StackOK
<1>5. \A q \in Slots : /\ ptable'[q].state = ptable[q].state
                       /\ ptable'[q].pgdir = IF q = c THEN d ELSE ptable[q].pgdir
  <2>1. ptable[c] \in Entries /\ ticks \in 0..MaxTicks
    BY DEF IInv, Types, PtableOK, LocksOK
  <2>2. PICK e : e = [Fresh(c) EXCEPT !.parent = p, !.pgdir = d]
    OBVIOUS
  <2>3. e.state = ptable[c].state /\ e.pgdir = d
    BY <2>1, <2>2, FreshOK DEF Entries
  <2>4. ptable' = [ptable EXCEPT ![c] = e]
    BY <1>2, <1>3, <2>2 DEF CloneLoad, IInv, Types, PtableOK
  <2> QED BY <2>3, <2>4 DEF IInv, Types, PtableOK
<1>6. \A q \in Slots : Owns(q)' <=> Owns(q)
  BY <1>1, <1>4, <1>5 DEF Owns, In, Moves, Frames
<1>7. ~Owns(c)
  BY <1>1, <1>2 DEF Owns, In, IInv, BuildInv, Builds, Build
<1>8. \A e \in Pgdirs : Sharers(e)' = Sharers(e)
  BY <1>5, <1>6, <1>7 DEF Sharers
<1>9. ASSUME NEW e \in Pgdirs PROVE Recorded(e)'
  BY <1>1, <1>8, StaysRecorded DEF ShareInv
<1>10. local'[p].rc = Cardinality(Sharers(d)) + 1
  <2>1. p \in Sharers(d)
    BY <1>1, <1>3 DEF Sharers, Owns, In
  <2>2. Recorded(d) /\ d \in vm
    BY <2>1 DEF ShareInv, Recorded
  <2>3. uvmrefcount[d] \in Int /\ Cardinality(Sharers(d)) \in Nat
    BY SharersFinite DEF IInv, Types, MemoryOK
  <2> QED BY <1>4, <2>2, <2>3 DEF Recorded
<1>11. ASSUME NEW q \in Slots, NEW r \in Slots PROVE Counting(q, r)'
  <2>1. SUFFICES ASSUME pc'[q] = "count", local'[q].np = r
                 PROVE  /\ ptable'[r].pgdir = ptable'[q].pgdir
                        /\ local'[q].rc = Cardinality(Sharers(ptable[q].pgdir)') + 1
    BY DEF Counting
  <2>2. q = p /\ r = c
    BY <1>1, <1>4, <2>1, OneCounts DEF Moves
  <2>3. ptable'[p].pgdir = d /\ ptable'[c].pgdir = d
    BY <1>2, <1>3, <1>5
  <2>4. Sharers(ptable[p].pgdir)' = Sharers(d)
    BY <1>8, <2>3 DEF Sharers
  <2> QED BY <1>10, <2>2, <2>3, <2>4
<1> QED BY <1>9, <1>11 DEF ShareInv

\* clone, second half: the count is stored when the child becomes a sharer.
LEMMA StoreShare ==
  ASSUME Cpus = 1, IInv, ShareInv, NEW p \in Slots, CloneStore(p)
  PROVE  ShareInv'
<1>1. /\ In(p, "RUNNING") /\ pc[p] = "count" /\ Moves(p, "cloned")
      /\ UNCHANGED <<ptable, vm, local>>
  BY GotoMoves DEF IInv, Types, CloneStore, At
<1>2. PICK c \in Slots : c = local[p].np /\ In(c, "EMBRYO")
  BY <1>1 DEF IInv, BuildInv, Builds, Build
<1>3. PICK d \in Pgdirs : d = ptable[p].pgdir
  BY <1>1 DEF IInv, ImageInv, There, In
<1>4. ptable[c].pgdir = d /\ local[p].rc = Cardinality(Sharers(d)) + 1
  BY <1>1, <1>2, <1>3 DEF ShareInv, Counting
<1>5. uvmrefcount'[d] = Cardinality(Sharers(d)) + 1
      /\ \A e \in Pgdirs \ {d} : uvmrefcount'[e] = uvmrefcount[e]
  BY <1>3, <1>4 DEF CloneStore, IInv, Types, MemoryOK
<1>6. \A q \in Slots : Owns(q)' <=> Owns(q) \/ q = c
  BY <1>1, <1>2 DEF Owns, In, Moves
<1>7. ~Owns(c)
  BY <1>1, <1>2 DEF Owns, In, IInv, BuildInv, Builds, Build
<1>8. /\ Sharers(d)' = Sharers(d) \union {c} /\ c \notin Sharers(d)
      /\ \A e \in Pgdirs \ {d} : Sharers(e)' = Sharers(e)
  BY <1>1, <1>4, <1>6, <1>7 DEF Sharers
<1>9. p \in Sharers(d) /\ d \in vm
  BY <1>1, <1>3 DEF Sharers, Owns, In, ShareInv, Recorded
<1>10. Recorded(d)'
  <2>1. Cardinality(Sharers(d) \union {c}) = Cardinality(Sharers(d)) + 1
    BY <1>8, SharersFinite, FS_AddElement
  <2> QED BY <1>1, <1>5, <1>8, <1>9, <2>1 DEF Recorded
<1>11. ASSUME NEW e \in Pgdirs \ {d} PROVE Recorded(e)'
  BY <1>1, <1>5, <1>8, StaysRecorded DEF ShareInv
<1>12. \A q, r \in Slots : Counting(q, r)'
  BY <1>1, OneCounts DEF Counting, Moves
<1> QED BY <1>10, <1>11, <1>12 DEF ShareInv

\* Every other step leaves who shares what as it is.
LEMMA KeptShare ==
  ASSUME ShareInv, ImageKept
  PROVE  ShareInv'
<1>1. \A d \in Pgdirs : Sharers(d)' = Sharers(d)
  BY DEF ImageKept, Sharers, Owns
<1>2. ASSUME NEW d \in Pgdirs PROVE Recorded(d)'
  BY <1>1, StaysRecorded DEF ImageKept, ShareInv
<1>3. ASSUME NEW p \in Slots, NEW c \in Slots PROVE Counting(p, c)'
  <2>1. SUFFICES ASSUME pc'[p] = "count", local'[p].np = c
                 PROVE  /\ ptable'[c].pgdir = ptable'[p].pgdir
                        /\ local'[p].rc = Cardinality(Sharers(ptable[p].pgdir)') + 1
    BY DEF Counting
  <2>2. /\ pc[p] = "count" /\ local'[p] = local[p] /\ ptable'[p].pgdir = ptable[p].pgdir
        /\ ptable'[c].pgdir = ptable[c].pgdir
    BY <2>1 DEF ImageKept
  <2>3. ptable[c].pgdir = ptable[p].pgdir /\ local[p].rc = Cardinality(Sharers(ptable[p].pgdir)) + 1
    BY <2>1, <2>2 DEF ShareInv, Counting
  <2>4. Sharers(ptable[p].pgdir)' = Sharers(ptable[p].pgdir)
    BY <2>2 DEF ImageKept, Sharers, Owns
  <2> QED BY <2>2, <2>3, <2>4
<1> QED BY <1>2, <1>3 DEF ShareInv

\* With one processor every step keeps the counts of the sharers.
LEMMA StepShare ==
  ASSUME Cpus = 1, IInv, ShareInv, [Next]_vars
  PROVE  ShareInv'
BY StepIInv, KeptShare, ExecShare, ForkShare, LoadShare, StoreShare, ReapShare DEF Effects

\* On one processor page directories are freed exactly when their last sharer
\* goes, and a descriptor counts the sharers, for every interleaving of fork,
\* clone, exec, exit and wait.  On two processors clone's unlocked count loses
\* an increment.
THEOREM SharersAreCounted ==
  ASSUME Cpus = 1
  PROVE  Spec => []SharersCounted
<1>1. IInv /\ ShareInv => SharersCounted
  <2> SUFFICES ASSUME IInv, ShareInv PROVE SharersCounted
    OBVIOUS
  <2>1. vm \subseteq Pgdirs
    BY DEF IInv, Types, MemoryOK
  <2>2. \A d \in Pgdirs : Recorded(d)
    BY DEF ShareInv
  <2> QED BY <2>1, <2>2 DEF SharersCounted, Recorded
<1>2. IInv /\ ShareInv /\ [Next]_vars => ShareInv'
  BY StepShare
<1> QED BY <1>1, <1>2, InitShare, Invariance, PTL DEF Spec
=============================================================================
