---------------------------- MODULE RWLockProofs ----------------------------
(***************************************************************************)
(* What TLAPS proves of RWLock for every set of attendees and organizers   *)
(* and every number of rounds: its type invariant, mutual exclusion, that  *)
(* the reader that sleeps on the semaphore with m held never waits for a   *)
(* thread that needs m, and that the lock implements the writer-priority   *)
(* board.                                                                  *)
(***************************************************************************)
EXTENDS RWLock, FiniteSetTheorems, TLAPS

(***************************************************************************)
(* The inductive invariant.                                                *)
(***************************************************************************)

(* The variables are of their types, the counters only natural numbers.    *)
Types ==
  /\ m \in Threads \cup {NoThread}
  /\ wlock \in {0, 1}
  /\ readers \in Nat
  /\ writers_waiting \in Nat
  /\ writer_active \in BOOLEAN
  /\ schedule_version \in Nat
  /\ readers_in_cs \in Nat
  /\ writers_in_cs \in Nat
  /\ violation_count \in Nat
  /\ pc \in [Threads -> ReaderPCs \cup WriterPCs]
  /\ \A r \in Readers : pc[r] \in ReaderPCs
  /\ \A w \in Writers : pc[w] \in WriterPCs
  /\ rounds \in [Threads -> Nat]
  /\ local \in [Threads -> Nat]
  /\ main \in {"joining", "destroyed"}

(* Who owns m is told by the program counters, and the lock is destroyed   *)
(* only when all of them say "done".                                       *)
ReaderOwns == {r \in Readers : pc[r] \in {"gate", "sem", "drop"}}
WriterOwns == {w \in Writers : pc[w] \in {"announce", "retract"}}
MutexInv ==
  /\ \A t \in ReaderOwns \cup WriterOwns : m = t
  /\ m # NoThread => m \in ReaderOwns \cup WriterOwns
JoinInv == main = "destroyed" => \A t \in Threads : pc[t] = "done"

(* The counters count, and so do those of the instrumentation. *)
ReadersInCS == {r \in Readers : pc[r] \in {"read", "leave"}}
WritersInCS == {w \in Writers : pc[w] \in {"load", "store", "leave"}}
CountInv ==
  /\ readers = Cardinality(Counted)
  /\ writers_waiting = Cardinality(Announced)
  /\ readers_in_cs = Cardinality(ReadersInCS)
  /\ writers_in_cs = Cardinality(WritersInCS)

(* The semaphore's only permit is free, with one writer or with the group  *)
(* of the readers that were let in.                                        *)
SemInv ==
  /\ wlock = 1 <=> Holding = {} /\ Inside = {}
  /\ Holding # {} => Inside = {}
  /\ \A w1, w2 \in Holding : w1 = w2

(* HolderNeverNeedsM in terms of the sets: the reader in sem_wait is the   *)
(* one that is counted and not inside.                                     *)
BlockedInv == Counted # Inside => Announced = {} /\ Inside = {}

(* A writer that has loaded the version loaded the current one. *)
LoadInv == \A w \in Writers : pc[w] = "store" => local[w] = schedule_version

IInv ==
  /\ Types
  /\ MutexInv
  /\ JoinInv
  /\ CountInv
  /\ SemInv
  /\ BlockedInv
  /\ LoadInv
  /\ NoViolation

Sets == <<Counted, Inside, Announced, Holding, ReadersInCS, WritersInCS>>

USE ThreadsAssumption, RoundsAssumption

------------------------------------------------------------------------------
(* Every set of threads the invariant counts is finite. *)
LEMMA SetsFinite ==
  /\ IsFiniteSet(Counted) /\ Cardinality(Counted) \in 0..Cardinality(Readers)
  /\ IsFiniteSet(Announced) /\ Cardinality(Announced) \in 0..Cardinality(Writers)
  /\ IsFiniteSet(ReadersInCS)
  /\ Cardinality(ReadersInCS) \in 0..Cardinality(Readers)
  /\ IsFiniteSet(WritersInCS)
  /\ Cardinality(WritersInCS) \in 0..Cardinality(Writers)
<1>1. ASSUME NEW S, IsFiniteSet(S), NEW T \in SUBSET S
      PROVE  IsFiniteSet(T) /\ Cardinality(T) \in 0..Cardinality(S)
  <2>1. Cardinality(S) \in Nat
    BY <1>1, FS_CardinalityType
  <2>2. IsFiniteSet(T) /\ Cardinality(T) <= Cardinality(S)
    BY <1>1, FS_Subset
  <2>3. Cardinality(T) \in Nat
    BY <2>2, FS_CardinalityType
  <2> QED BY <2>1, <2>2, <2>3
<1>2. /\ Counted \in SUBSET Readers
      /\ ReadersInCS \in SUBSET Readers
      /\ Announced \in SUBSET Writers
      /\ WritersInCS \in SUBSET Writers
  BY DEF Counted, ReadersInCS, Announced, WritersInCS
<1> QED BY <1>1, <1>2

(* The lock starts free and all counts at zero.                            *)
LEMMA InitIInv == Init => IInv
<1> SUFFICES ASSUME Init PROVE IInv
  OBVIOUS
<1>1. /\ Counted = {} /\ Inside = {} /\ Announced = {} /\ Holding = {}
      /\ ReadersInCS = {} /\ WritersInCS = {}
      /\ ReaderOwns = {} /\ WriterOwns = {}
  BY DEF Init, Counted, Inside, Announced, Holding, ReadersInCS, WritersInCS,
         ReaderOwns, WriterOwns, Threads
<1>2. Cardinality({}) = 0
  BY FS_EmptySet
<1>3. Types
  BY DEF Init, Types, Threads, ReaderPCs, WriterPCs
<1>4. MutexInv
  BY <1>1 DEF Init, MutexInv
<1>5. CountInv
  BY <1>1, <1>2 DEF Init, CountInv
<1>6. SemInv /\ BlockedInv
  BY <1>1 DEF Init, SemInv, BlockedInv
<1>7. JoinInv /\ LoadInv /\ NoViolation
  BY DEF Init, JoinInv, LoadInv, NoViolation, Threads
<1> QED BY <1>3, <1>4, <1>5, <1>6, <1>7 DEF IInv

(* A step that leaves the six sets and the variables they are compared     *)
(* with as they are keeps what the invariant says of them.                 *)
LEMMA QuietStep ==
  ASSUME IInv,
         UNCHANGED <<Counted, Inside, Announced, Holding>>,
         UNCHANGED <<wlock, readers, writers_waiting>>
  PROVE  /\ SemInv'
         /\ BlockedInv'
         /\ readers' = Cardinality(Counted')
         /\ writers_waiting' = Cardinality(Announced')
BY DEF IInv, SemInv, BlockedInv, CountInv

(* Taking m: the owner is recorded and its counter moves within the sets.  *)
LEMMA LockMStep ==
  ASSUME IInv, NEW t \in Threads, NEW l0, NEW l1,
         LockM(t, l0, l1),
         \/ t \in Readers /\ <<l0, l1>> \in {<<"rlock", "gate">>, <<"runlock", "drop">>}
         \/ t \in Writers /\ <<l0, l1>> \in {<<"wlock", "announce">>, <<"entered", "retract">>}
  PROVE  IInv'
<1> USE DEF LockM, Goto, lockVars, instrVars, IInv, Threads
<1>1. Types'
  BY DEF Types, ReaderPCs, WriterPCs
<1>2. MutexInv'
  BY DEF Types, MutexInv, ReaderOwns, WriterOwns
<1>3. UNCHANGED Sets
  BY DEF Types, Sets, Counted, Inside, Announced, Holding, ReadersInCS, WritersInCS
<1>4. CountInv' /\ SemInv' /\ BlockedInv'
  BY <1>3, QuietStep DEF Sets, CountInv
<1>5. JoinInv' /\ LoadInv' /\ NoViolation'
  BY DEF Types, JoinInv, LoadInv, NoViolation
<1> QED BY <1>1, <1>2, <1>4, <1>5

(* The reader's steps. *)
LEMMA ReaderStep ==
  ASSUME IInv, NEW r \in Readers, Reader(r)
  PROVE  IInv'
<1> USE DEF Goto, lockVars, instrVars, EndRound, Threads
<1> r \in Threads
  OBVIOUS
<1>1. CASE RLockAcquire(r)
  BY <1>1, LockMStep DEF RLockAcquire
<1>2. CASE RBackoff(r)
  <2> USE <1>2 DEF RBackoff, IInv
  <2>1. Types'
    BY DEF Types, ReaderPCs, WriterPCs
  <2>2. MutexInv'
    BY DEF Types, MutexInv, ReaderOwns, WriterOwns
  <2>3. UNCHANGED Sets
    BY DEF Types, Sets, Counted, Inside, Announced, Holding, ReadersInCS, WritersInCS
  <2>4. CountInv' /\ SemInv' /\ BlockedInv'
    BY <2>3, QuietStep DEF Sets, CountInv
  <2>5. JoinInv' /\ LoadInv' /\ NoViolation'
    BY DEF Types, JoinInv, LoadInv, NoViolation
  <2> QED BY <2>1, <2>2, <2>4, <2>5
<1>3. CASE RAdmit(r)
  <2> USE <1>3 DEF RAdmit
  <2>1. r \in ReaderOwns /\ m = r
    BY DEF IInv, Types, MutexInv, ReaderOwns
  <2>2. Types'
    BY DEF IInv, Types, ReaderPCs, WriterPCs
  <2>3. MutexInv'
    BY <2>1 DEF IInv, Types, MutexInv, ReaderOwns, WriterOwns
  <2>4. /\ Counted' = Counted \cup {r} /\ r \notin Counted
        /\ UNCHANGED <<Announced, Holding, ReadersInCS, WritersInCS>>
    BY DEF IInv, Types, Counted, Announced, Holding, ReadersInCS, WritersInCS
  <2>5. CountInv'
    BY <2>4, SetsFinite, FS_AddElement DEF IInv, Types, CountInv
  <2>6. Announced = {}
    BY SetsFinite, FS_EmptySet DEF IInv, Types, CountInv
  <2>7. SemInv' /\ BlockedInv'
    <3>1. CASE readers = 0
      <4>1. Counted = {} /\ Inside = {}
        BY <3>1, SetsFinite, FS_EmptySet DEF IInv, CountInv, Counted, Inside
      <4>2. Inside' = Inside
        BY <3>1, <4>1 DEF IInv, Types, Inside
      <4> QED BY <2>4, <2>6, <4>1, <4>2 DEF IInv, SemInv, BlockedInv
    <3>2. CASE readers # 0
      <4>1. Inside' = Inside \cup {r}
        BY <3>2 DEF IInv, Types, Inside
      <4>2. PICK q \in Readers : q \in Counted
        BY <3>2, FS_EmptySet DEF IInv, CountInv, Counted
      <4>3. pc[q] # "sem"
        BY <2>1, <4>2 DEF IInv, Types, MutexInv, ReaderOwns
      <4>4. q \in Inside
        BY <4>2, <4>3 DEF Counted, Inside
      <4>5. Counted = Inside
        BY <4>4 DEF IInv, BlockedInv
      <4> QED BY <2>4, <4>1, <4>4, <4>5 DEF IInv, SemInv, BlockedInv
    <3> QED BY <3>1, <3>2
  <2>8. JoinInv' /\ LoadInv' /\ NoViolation'
    BY DEF IInv, Types, JoinInv, LoadInv, NoViolation
  <2> QED BY <2>2, <2>3, <2>5, <2>7, <2>8 DEF IInv
<1>4. CASE RSemWait(r)
  <2> USE <1>4 DEF RSemWait
  <2>1. r \in ReaderOwns /\ m = r
    BY DEF IInv, Types, MutexInv, ReaderOwns
  <2>2. Types'
    BY DEF IInv, Types, ReaderPCs, WriterPCs
  <2>3. MutexInv'
    BY <2>1 DEF IInv, Types, MutexInv, ReaderOwns, WriterOwns
  <2>4. /\ Inside' = Inside \cup {r}
        /\ UNCHANGED <<Counted, Announced, Holding, ReadersInCS, WritersInCS>>
    BY DEF IInv, Types, Counted, Inside, Announced, Holding, ReadersInCS, WritersInCS
  <2>5. CountInv'
    BY <2>4 DEF IInv, CountInv
  <2>6. Counted = {r} /\ Inside = {}
    <3>1. \A q \in Counted : q \notin Inside => q = r
      BY <2>1 DEF IInv, MutexInv, ReaderOwns, Counted, Inside
    <3>2. Inside = {}
      BY DEF IInv, Types, SemInv
    <3> QED BY <3>1, <3>2 DEF IInv, Types, Counted, Inside
  <2>7. SemInv' /\ BlockedInv'
    BY <2>4, <2>6 DEF IInv, Types, SemInv, BlockedInv
  <2>8. JoinInv' /\ LoadInv' /\ NoViolation'
    BY DEF IInv, Types, JoinInv, LoadInv, NoViolation
  <2> QED BY <2>2, <2>3, <2>5, <2>7, <2>8 DEF IInv
<1>5. CASE REnter(r)
  <2> USE <1>5 DEF REnter
  <2>1. Types'
    BY DEF IInv, Types, ReaderPCs, WriterPCs
  <2>2. MutexInv'
    BY DEF IInv, Types, MutexInv, ReaderOwns, WriterOwns
  <2>3. /\ UNCHANGED <<Counted, Inside, Announced, Holding, WritersInCS>>
        /\ ReadersInCS' = ReadersInCS \cup {r} /\ r \notin ReadersInCS
    BY DEF IInv, Types, Counted, Inside, Announced, Holding, ReadersInCS, WritersInCS
  <2>4. CountInv' /\ SemInv' /\ BlockedInv'
    BY <2>3, QuietStep, SetsFinite, FS_AddElement DEF IInv, Types, CountInv
  <2>5. WritersInCS = {}
    BY DEF IInv, SemInv, Inside, Holding, WritersInCS
  <2>6. JoinInv' /\ LoadInv' /\ NoViolation'
    BY <2>5, FS_EmptySet DEF IInv, Types, JoinInv, LoadInv, NoViolation, CountInv
  <2> QED BY <2>1, <2>2, <2>4, <2>6 DEF IInv
<1>6. CASE RRead(r)
  <2> USE <1>6 DEF RRead, IInv
  <2>1. Types'
    BY DEF Types, ReaderPCs, WriterPCs
  <2>2. MutexInv'
    BY DEF Types, MutexInv, ReaderOwns, WriterOwns
  <2>3. UNCHANGED Sets
    BY DEF Types, Sets, Counted, Inside, Announced, Holding, ReadersInCS, WritersInCS
  <2>4. CountInv' /\ SemInv' /\ BlockedInv'
    BY <2>3, QuietStep DEF Sets, CountInv
  <2>5. JoinInv' /\ LoadInv' /\ NoViolation'
    BY DEF Types, JoinInv, LoadInv, NoViolation
  <2> QED BY <2>1, <2>2, <2>4, <2>5
<1>7. CASE RLeave(r)
  <2> USE <1>7 DEF RLeave
  <2>1. /\ UNCHANGED <<Counted, Inside, Announced, Holding, WritersInCS>>
        /\ ReadersInCS' = ReadersInCS \ {r} /\ r \in ReadersInCS
    BY DEF IInv, Types, Counted, Inside, Announced, Holding, ReadersInCS, WritersInCS
  <2>2. CountInv' /\ SemInv' /\ BlockedInv'
    BY <2>1, QuietStep, SetsFinite, FS_RemoveElement DEF IInv, Types, CountInv
  <2>3. readers_in_cs > 0
    BY <2>1, SetsFinite, FS_EmptySet DEF IInv, CountInv
  <2>4. Types'
    BY <2>3 DEF IInv, Types, ReaderPCs, WriterPCs
  <2>5. MutexInv'
    BY DEF IInv, Types, MutexInv, ReaderOwns, WriterOwns
  <2>6. JoinInv' /\ LoadInv' /\ NoViolation'
    BY DEF IInv, Types, JoinInv, LoadInv, NoViolation
  <2> QED BY <2>2, <2>4, <2>5, <2>6 DEF IInv
<1>8. CASE RUnlockAcquire(r)
  BY <1>8, LockMStep DEF RUnlockAcquire
<1>9. CASE RDrop(r)
  <2> USE <1>9 DEF RDrop
  <2>1. r \in ReaderOwns /\ m = r
    BY DEF IInv, Types, MutexInv, ReaderOwns
  <2>2. /\ Counted' = Counted \ {r} /\ r \in Counted
        /\ Inside' = Inside \ {r} /\ r \in Inside
        /\ UNCHANGED <<Announced, Holding, ReadersInCS, WritersInCS>>
    BY DEF IInv, Types, Counted, Inside, Announced, Holding, ReadersInCS, WritersInCS
  <2>3. CountInv'
    BY <2>2, SetsFinite, FS_RemoveElement DEF IInv, Types, CountInv
  <2>4. readers > 0
    BY <2>2, SetsFinite, FS_EmptySet DEF IInv, CountInv
  <2>5. /\ wlock = 0 /\ Holding = {}
        /\ Counted = Inside
    BY <2>2 DEF IInv, Types, SemInv, BlockedInv
  <2>6. readers' = 0 <=> Inside' = {}
    BY <2>2, <2>3, <2>5, SetsFinite, FS_EmptySet, FS_RemoveElement DEF CountInv
  <2>7. Types'
    BY <2>4, <2>5 DEF IInv, Types, ReaderPCs, WriterPCs
  <2>8. MutexInv'
    BY <2>1 DEF IInv, Types, MutexInv, ReaderOwns, WriterOwns
  <2>9. SemInv' /\ BlockedInv'
    BY <2>2, <2>4, <2>5, <2>6 DEF IInv, Types, SemInv, BlockedInv
  <2>10. JoinInv' /\ LoadInv' /\ NoViolation'
    BY DEF IInv, Types, JoinInv, LoadInv, NoViolation
  <2> QED BY <2>3, <2>7, <2>8, <2>9, <2>10 DEF IInv
<1> QED BY <1>1, <1>2, <1>3, <1>4, <1>5, <1>6, <1>7, <1>8, <1>9 DEF Reader

(* The writer's steps. *)
LEMMA WriterStep ==
  ASSUME IInv, NEW w \in Writers, Writer(w)
  PROVE  IInv'
<1> USE DEF Goto, lockVars, instrVars, EndRound, Threads
<1> w \in Threads
  OBVIOUS
<1>1. CASE WAnnounceAcquire(w)
  BY <1>1, LockMStep DEF WAnnounceAcquire
<1>2. CASE WAnnounce(w)
  <2> USE <1>2 DEF WAnnounce
  <2>1. w \in WriterOwns /\ m = w
    BY DEF IInv, Types, MutexInv, WriterOwns
  <2>2. Types'
    BY DEF IInv, Types, ReaderPCs, WriterPCs
  <2>3. MutexInv'
    BY <2>1 DEF IInv, Types, MutexInv, ReaderOwns, WriterOwns
  <2>4. /\ Announced' = Announced \cup {w} /\ w \notin Announced
        /\ UNCHANGED <<Counted, Inside, Holding, ReadersInCS, WritersInCS>>
    BY DEF IInv, Types, Counted, Inside, Announced, Holding, ReadersInCS, WritersInCS
  <2>5. CountInv'
    BY <2>4, SetsFinite, FS_AddElement DEF IInv, Types, CountInv
  <2>6. Counted = Inside
    BY <2>1 DEF IInv, Types, MutexInv, ReaderOwns, Counted, Inside
  <2>7. SemInv' /\ BlockedInv'
    BY <2>4, <2>6 DEF IInv, SemInv, BlockedInv
  <2>8. JoinInv' /\ LoadInv' /\ NoViolation'
    BY DEF IInv, Types, JoinInv, LoadInv, NoViolation
  <2> QED BY <2>2, <2>3, <2>5, <2>7, <2>8 DEF IInv
<1>3. CASE WSemWait(w)
  <2> USE <1>3 DEF WSemWait
  <2>1. Types'
    BY DEF IInv, Types, ReaderPCs, WriterPCs
  <2>2. MutexInv'
    BY DEF IInv, Types, MutexInv, ReaderOwns, WriterOwns
  <2>3. /\ Holding' = Holding \cup {w}
        /\ UNCHANGED <<Counted, Inside, Announced, ReadersInCS, WritersInCS>>
    BY DEF IInv, Types, Counted, Inside, Announced, Holding, ReadersInCS, WritersInCS
  <2>4. Holding = {} /\ Inside = {}
    BY DEF IInv, Types, SemInv
  <2>5. CountInv' /\ SemInv' /\ BlockedInv'
    BY <2>3, <2>4 DEF IInv, Types, CountInv, SemInv, BlockedInv
  <2>6. JoinInv' /\ LoadInv' /\ NoViolation'
    BY DEF IInv, Types, JoinInv, LoadInv, NoViolation
  <2> QED BY <2>1, <2>2, <2>5, <2>6 DEF IInv
<1>4. CASE WRetractAcquire(w)
  BY <1>4, LockMStep DEF WRetractAcquire
<1>5. CASE WRetract(w)
  <2> USE <1>5 DEF WRetract
  <2>1. w \in WriterOwns /\ m = w
    BY DEF IInv, Types, MutexInv, WriterOwns
  <2>2. /\ Announced' = Announced \ {w} /\ w \in Announced
        /\ UNCHANGED <<Counted, Inside, Holding, ReadersInCS, WritersInCS>>
    BY DEF IInv, Types, Counted, Inside, Announced, Holding, ReadersInCS, WritersInCS
  <2>3. CountInv'
    BY <2>2, SetsFinite, FS_RemoveElement DEF IInv, Types, CountInv
  <2>4. writers_waiting > 0
    BY <2>2, SetsFinite, FS_EmptySet DEF IInv, CountInv
  <2>5. Types'
    BY <2>4 DEF IInv, Types, ReaderPCs, WriterPCs
  <2>6. MutexInv'
    BY <2>1 DEF IInv, Types, MutexInv, ReaderOwns, WriterOwns
  <2>7. SemInv' /\ BlockedInv'
    BY <2>2 DEF IInv, SemInv, BlockedInv
  <2>8. JoinInv' /\ LoadInv' /\ NoViolation'
    BY DEF IInv, Types, JoinInv, LoadInv, NoViolation
  <2> QED BY <2>3, <2>5, <2>6, <2>7, <2>8 DEF IInv
<1>6. CASE WEnter(w)
  <2> USE <1>6 DEF WEnter
  <2>1. Types'
    BY DEF IInv, Types, ReaderPCs, WriterPCs
  <2>2. MutexInv'
    BY DEF IInv, Types, MutexInv, ReaderOwns, WriterOwns
  <2>3. /\ UNCHANGED <<Counted, Inside, Announced, Holding, ReadersInCS>>
        /\ WritersInCS' = WritersInCS \cup {w} /\ w \notin WritersInCS
    BY DEF IInv, Types, Counted, Inside, Announced, Holding, ReadersInCS, WritersInCS
  <2>4. CountInv' /\ SemInv' /\ BlockedInv'
    BY <2>3, QuietStep, SetsFinite, FS_AddElement DEF IInv, Types, CountInv
  <2>5. WritersInCS = {} /\ ReadersInCS = {}
    BY <2>3 DEF IInv, SemInv, Inside, Holding, ReadersInCS, WritersInCS
  <2>6. JoinInv' /\ LoadInv' /\ NoViolation'
    BY <2>5, FS_EmptySet DEF IInv, Types, JoinInv, LoadInv, NoViolation, CountInv
  <2> QED BY <2>1, <2>2, <2>4, <2>6 DEF IInv
<1>7. CASE WLoad(w)
  <2> USE <1>7 DEF WLoad, IInv
  <2>1. Types'
    BY DEF Types, ReaderPCs, WriterPCs
  <2>2. MutexInv'
    BY DEF Types, MutexInv, ReaderOwns, WriterOwns
  <2>3. UNCHANGED Sets
    BY DEF Types, Sets, Counted, Inside, Announced, Holding, ReadersInCS, WritersInCS
  <2>4. CountInv' /\ SemInv' /\ BlockedInv'
    BY <2>3, QuietStep DEF Sets, CountInv
  <2>5. JoinInv' /\ LoadInv' /\ NoViolation'
    BY DEF Types, JoinInv, LoadInv, NoViolation
  <2> QED BY <2>1, <2>2, <2>4, <2>5
<1>8. CASE WStore(w)
  <2> USE <1>8 DEF WStore, IInv
  <2>1. Types'
    BY DEF Types, ReaderPCs, WriterPCs
  <2>2. MutexInv'
    BY DEF Types, MutexInv, ReaderOwns, WriterOwns
  <2>3. UNCHANGED Sets
    BY DEF Types, Sets, Counted, Inside, Announced, Holding, ReadersInCS, WritersInCS
  <2>4. CountInv' /\ SemInv' /\ BlockedInv'
    BY <2>3, QuietStep DEF Sets, CountInv
  <2>5. \A v \in Writers : pc[v] = "store" => v = w
    BY DEF SemInv, Holding
  <2>6. JoinInv' /\ LoadInv' /\ NoViolation'
    BY <2>5 DEF Types, JoinInv, LoadInv, NoViolation
  <2> QED BY <2>1, <2>2, <2>4, <2>6
<1>9. CASE WLeave(w)
  <2> USE <1>9 DEF WLeave
  <2>1. /\ UNCHANGED <<Counted, Inside, Announced, Holding, ReadersInCS>>
        /\ WritersInCS' = WritersInCS \ {w} /\ w \in WritersInCS
    BY DEF IInv, Types, Counted, Inside, Announced, Holding, ReadersInCS, WritersInCS
  <2>2. CountInv' /\ SemInv' /\ BlockedInv'
    BY <2>1, QuietStep, SetsFinite, FS_RemoveElement DEF IInv, Types, CountInv
  <2>3. writers_in_cs > 0
    BY <2>1, SetsFinite, FS_EmptySet DEF IInv, CountInv
  <2>4. Types'
    BY <2>3 DEF IInv, Types, ReaderPCs, WriterPCs
  <2>5. MutexInv'
    BY DEF IInv, Types, MutexInv, ReaderOwns, WriterOwns
  <2>6. JoinInv' /\ LoadInv' /\ NoViolation'
    BY DEF IInv, Types, JoinInv, LoadInv, NoViolation
  <2> QED BY <2>2, <2>4, <2>5, <2>6 DEF IInv
<1>10. CASE WUnlock(w)
  <2> USE <1>10 DEF WUnlock
  <2>1. /\ Holding' = Holding \ {w} /\ w \in Holding
        /\ UNCHANGED <<Counted, Inside, Announced, ReadersInCS, WritersInCS>>
    BY DEF IInv, Types, Counted, Inside, Announced, Holding, ReadersInCS, WritersInCS
  <2>2. Holding' = {} /\ Inside = {} /\ wlock = 0
    BY <2>1 DEF IInv, Types, SemInv
  <2>3. Types'
    BY <2>2 DEF IInv, Types, ReaderPCs, WriterPCs
  <2>4. MutexInv'
    BY DEF IInv, Types, MutexInv, ReaderOwns, WriterOwns
  <2>5. CountInv' /\ SemInv' /\ BlockedInv'
    BY <2>1, <2>2 DEF IInv, Types, CountInv, SemInv, BlockedInv
  <2>6. JoinInv' /\ LoadInv' /\ NoViolation'
    BY DEF IInv, Types, JoinInv, LoadInv, NoViolation
  <2> QED BY <2>3, <2>4, <2>5, <2>6 DEF IInv
<1> QED BY <1>1, <1>2, <1>3, <1>4, <1>5, <1>6, <1>7, <1>8, <1>9, <1>10 DEF Writer

(* A step of schedule_run, and a stuttering step, disturb nothing. *)
LEMMA MainStep ==
  ASSUME IInv, RwDestroy \/ UNCHANGED vars
  PROVE  IInv'
<1> USE DEF RwDestroy, vars, lockVars, instrVars, IInv
<1>1. Types' /\ JoinInv' /\ LoadInv' /\ NoViolation'
  BY DEF Types, JoinInv, LoadInv, NoViolation
<1>2. MutexInv'
  BY DEF MutexInv, ReaderOwns, WriterOwns
<1>3. UNCHANGED Sets
  BY DEF Sets, Counted, Inside, Announced, Holding, ReadersInCS, WritersInCS
<1>4. CountInv' /\ SemInv' /\ BlockedInv'
  BY <1>3, QuietStep DEF Sets, CountInv
<1> QED BY <1>1, <1>2, <1>4

\* Every step of the lock keeps the invariant.
LEMMA NextIInv == IInv /\ [Next]_vars => IInv'
BY ReaderStep, WriterStep, MainStep DEF Next, Returned

(* The inductive invariant holds throughout. *)
LEMMA InductiveInvariant == Spec => []IInv
BY InitIInv, NextIInv, PTL DEF Spec

------------------------------------------------------------------------------
(* Every variable of the lock and of its threads keeps its type: in        *)
(* particular the semaphore stays binary and no counter of rwlock_t goes   *)
(* below zero or above the number of threads it counts.                    *)
THEOREM TypeCorrectness == Spec => []TypeOK
<1>1. IInv => TypeOK
  BY SetsFinite DEF IInv, Types, CountInv, TypeOK
<1> QED BY <1>1, InductiveInvariant, PTL

(* For any number of threads and rounds, an organizer changes the board    *)
(* alone (rw_wlock, rw_rlock).                                             *)
THEOREM MutualExclusionHolds == Spec => []MutualExclusion
<1>1. IInv => MutualExclusion
  BY DEF IInv, SemInv, MutualExclusion, Writing, Holding
<1> QED BY <1>1, InductiveInvariant, PTL

(* The program's own violation counter stays at zero                       *)
(* (get_violation_count, readers_writers.c:81 and :101).                   *)
THEOREM NoViolationHolds == Spec => []NoViolation
<1>1. IInv => NoViolation
  BY DEF IInv
<1> QED BY <1>1, InductiveInvariant, PTL

(* The reader that blocks in sem_wait while it holds m waits for a thread  *)
(* that never needs m again before its sem_post (readers_writers.c:37).    *)
THEOREM HolderNeverNeedsMHolds == Spec => []HolderNeverNeedsM
<1>1. IInv => HolderNeverNeedsM
  BY DEF IInv, BlockedInv, HolderNeverNeedsM, Counted, Inside
<1> QED BY <1>1, InductiveInvariant, PTL

(* No deadlock, for any number of threads: if m is taken its owner runs,   *)
(* or it is the reader in sem_wait and the writer it waits for runs; if m  *)
(* is free, whoever holds the permit runs.                                 *)
THEOREM NoDeadlockHolds == Spec => []NoDeadlock
<1>1. ASSUME IInv PROVE NoDeadlock
  <2> USE <1>1 DEF IInv, Threads
  <2>1. SUFFICES ASSUME NEW t \in Threads, pc[t] # "done",
                        \A u \in Threads : pc[u] # "done" => Blocked(u)
                 PROVE  FALSE
    BY DEF NoDeadlock
  <2>2. CASE m # NoThread
    <3>1. m \in ReaderOwns /\ pc[m] = "sem" /\ wlock = 0
      BY <2>1, <2>2 DEF MutexInv, ReaderOwns, WriterOwns, Blocked, Types
    <3>2. Announced = {} /\ Inside = {}
      BY <3>1 DEF BlockedInv, ReaderOwns, Counted, Inside
    <3>3. PICK w \in Writers : w \in Holding
      BY <3>1, <3>2 DEF SemInv, Holding
    <3>4. pc[w] \in {"enter", "load", "store", "leave", "wunlock"}
      BY <3>2, <3>3 DEF Holding, Announced
    <3> QED BY <2>1, <3>4 DEF Blocked
  <2>3. CASE m = NoThread
    <3>1. \A u \in Threads : pc[u] # "done" => pc[u] = "sem" /\ wlock = 0
      BY <2>1, <2>3 DEF Blocked
    <3>2. Holding = {} /\ Inside = {}
      BY <3>1 DEF Holding, Inside
    <3> QED BY <2>1, <3>1, <3>2 DEF SemInv
  <2> QED BY <2>2, <2>3
<1> QED BY <1>1, InductiveInvariant, PTL

(* When schedule_run calls rw_destroy the lock is as rw_init made it.      *)
THEOREM QuiescentAtDestroyHolds == Spec => []QuiescentAtDestroy
<1>1. ASSUME IInv PROVE QuiescentAtDestroy
  <2> USE <1>1 DEF IInv
  <2>1. SUFFICES ASSUME \A t \in Threads : pc[t] = "done"
                 PROVE  /\ m = NoThread /\ wlock = 1
                        /\ readers = 0 /\ writers_waiting = 0
    BY DEF JoinInv, QuiescentAtDestroy
  <2>2. /\ Counted = {} /\ Inside = {} /\ Announced = {} /\ Holding = {}
        /\ ReaderOwns \cup WriterOwns = {}
    BY <2>1 DEF Counted, Inside, Announced, Holding, ReaderOwns, WriterOwns, Threads
  <2> QED BY <2>2, FS_EmptySet DEF MutexInv, CountInv, SemInv
<1> QED BY <1>1, InductiveInvariant, PTL

------------------------------------------------------------------------------
(* The refinement.  A step of the lock is a step of the board or leaves    *)
(* the board as it is.                                                     *)
BoardVars == <<Announced, Inside, Writing, Stored, schedule_version>>

\* A step of a reader is one of the board's, or none: rw_rlock, the visit, rw_runlock.
LEMMA BoardReaderStep ==
  ASSUME IInv, NEW r \in Readers, Reader(r)
  PROVE  [Board!Next]_BoardVars
<1> USE DEF Goto, lockVars, instrVars, EndRound, Threads, LockM, IInv
<1>1. CASE RAdmit(r) \/ RSemWait(r)
  <2>1. r \in ReaderOwns /\ m = r
    BY <1>1 DEF Types, MutexInv, ReaderOwns, RAdmit, RSemWait
  <2>2. UNCHANGED <<Announced, Writing, Stored, schedule_version>>
    BY <1>1 DEF Types, Announced, Writing, Stored, RAdmit, RSemWait
  <2>3. CASE Inside' = Inside
    BY <2>2, <2>3 DEF BoardVars
  <2>4. CASE Inside' # Inside
    <3>1. Inside' = Inside \cup {r} /\ r \notin Inside
      BY <1>1, <2>4 DEF Types, Inside, RAdmit, RSemWait
    <3>2. Announced = {}
      <4>1. CASE RSemWait(r)
        BY <4>1 DEF BlockedInv, RSemWait, Counted, Inside
      <4>2. CASE RAdmit(r)
        BY <4>2, SetsFinite, FS_EmptySet DEF RAdmit, CountInv, Types
      <4> QED BY <1>1, <4>1, <4>2
    <3>3. Writing = {}
      <4>1. CASE RSemWait(r)
        BY <4>1 DEF SemInv, Types, RSemWait, Holding, Writing
      <4>2. CASE RAdmit(r)
        <5>1. readers # 0
          BY <2>4, <4>2 DEF Types, RAdmit, Inside
        <5>2. PICK q \in Readers : q \in Counted
          BY <5>1, FS_EmptySet DEF CountInv, Counted
        <5>3. q \in Inside
          BY <2>1, <4>2, <5>2 DEF MutexInv, ReaderOwns, Counted, Inside, RAdmit
        <5> QED BY <5>3 DEF SemInv, Holding, Writing
      <4> QED BY <1>1, <4>1, <4>2
    <3>4. Board!StartRead(r)
      BY <2>2, <3>1, <3>2, <3>3 DEF Board!StartRead
    <3> QED BY <3>4 DEF Board!Next
  <2> QED BY <2>3, <2>4
<1>2. CASE RDrop(r)
  <2>1. /\ Inside' = Inside \ {r} /\ r \in Inside
        /\ UNCHANGED <<Announced, Writing, Stored, schedule_version>>
    BY <1>2 DEF Types, Inside, Announced, Writing, Stored, RDrop
  <2> QED BY <2>1 DEF Board!FinishRead, Board!Next
<1>3. CASE \/ RLockAcquire(r) \/ RBackoff(r) \/ REnter(r) \/ RRead(r)
           \/ RLeave(r) \/ RUnlockAcquire(r)
  BY <1>3 DEF Types, BoardVars, Inside, Announced, Writing, Stored,
     RLockAcquire, RBackoff, REnter, RRead, RLeave, RUnlockAcquire
<1> QED BY <1>1, <1>2, <1>3 DEF Reader

\* A step of a writer is one of the board's, or none: rw_wlock, publishing, rw_wunlock.
LEMMA BoardWriterStep ==
  ASSUME IInv, NEW w \in Writers, Writer(w)
  PROVE  [Board!Next]_BoardVars
<1> USE DEF Goto, lockVars, instrVars, EndRound, Threads, LockM, IInv
<1>1. CASE WAnnounce(w)
  <2>1. /\ Announced' = Announced \cup {w} /\ w \notin Announced \cup Writing
        /\ UNCHANGED <<Inside, Writing, Stored, schedule_version>>
    BY <1>1 DEF Types, Inside, Announced, Writing, Stored, WAnnounce
  <2> QED BY <2>1 DEF Board!Announce, Board!Next
<1>2. CASE WRetract(w)
  <2>1. /\ Announced' = Announced \ {w} /\ w \in Announced
        /\ Writing' = Writing \cup {w} /\ w \in Holding \ Writing
        /\ UNCHANGED <<Inside, Stored, schedule_version>>
    BY <1>2 DEF Types, Inside, Announced, Holding, Writing, Stored, WRetract
  <2>2. Inside = {} /\ Writing = {}
    BY <2>1 DEF SemInv, Holding, Writing
  <2> QED BY <2>1, <2>2 DEF Board!StartWrite, Board!Next
<1>3. CASE WStore(w)
  <2>1. /\ Stored' = Stored \cup {w} /\ w \in Writing \ Stored
        /\ UNCHANGED <<Announced, Inside, Writing>>
    BY <1>3 DEF Types, Inside, Announced, Writing, Stored, WStore
  <2>2. schedule_version' = schedule_version + 1
    BY <1>3 DEF LoadInv, WStore
  <2> QED BY <2>1, <2>2 DEF Board!Publish, Board!Next
<1>4. CASE WUnlock(w)
  <2>1. /\ Stored' = Stored \ {w} /\ Writing' = Writing \ {w}
        /\ w \in Writing \cap Stored
        /\ UNCHANGED <<Announced, Inside, schedule_version>>
    BY <1>4 DEF Types, Inside, Announced, Writing, Stored, WUnlock
  <2> QED BY <2>1 DEF Board!FinishWrite, Board!Next
<1>5. CASE \/ WAnnounceAcquire(w) \/ WSemWait(w) \/ WRetractAcquire(w)
           \/ WEnter(w) \/ WLoad(w) \/ WLeave(w)
  BY <1>5 DEF Types, BoardVars, Inside, Announced, Writing, Stored,
     WAnnounceAcquire, WSemWait, WRetractAcquire, WEnter, WLoad, WLeave
<1> QED BY <1>1, <1>2, <1>3, <1>4, <1>5 DEF Writer

(* The lock implements the board for any number of threads: readers are    *)
(* let in only when no organizer is announced or writing, an organizer is  *)
(* let in alone, and each of its rounds adds exactly one to the version.   *)
THEOREM ImplementsBoardHolds == Spec => ImplementsBoard
<1>1. Init => Board!Init
  BY DEF Init, Board!Init, Announced, Inside, Writing, Stored, Threads
<1>2. IInv /\ [Next]_vars => [Board!Next]_(Board!boardVars)
  <2>1. ASSUME RwDestroy \/ UNCHANGED vars PROVE UNCHANGED BoardVars
    BY <2>1 DEF RwDestroy, vars, lockVars, instrVars, BoardVars,
                Announced, Inside, Writing, Stored
  <2>2. IInv /\ [Next]_vars => [Board!Next]_BoardVars
    BY <2>1, BoardReaderStep, BoardWriterStep DEF Next, Returned
  <2> QED BY <2>2 DEF BoardVars, Board!boardVars
<1> QED
  BY <1>1, <1>2, InductiveInvariant, PTL DEF Spec, ImplementsBoard, Board!Spec
==============================================================================
