------------------------------- MODULE RWLock -------------------------------
(***************************************************************************)
(* The writer-priority lock of the schedule board (readers_writers.c) and  *)
(* the attendee and organizer threads that schedule_run starts on it.      *)
(*                                                                         *)
(* A step of the model is what one thread does between two points at       *)
(* which another thread can observe or block it: taking m is a step of its *)
(* own, and the code under m up to the unlock is one step, except where    *)
(* rw_rlock blocks in sem_wait while it holds m.  The instrumentation      *)
(* mutex protects two counters only and nothing blocks under it, so        *)
(* lock-update-unlock of it is one step.  schedule_version is protected by *)
(* nothing but the lock under study, so its increment is a load and a      *)
(* store.                                                                  *)
(***************************************************************************)
EXTENDS Integers, FiniteSets, FiniteSetsExt

CONSTANTS
  Readers,       \* attendee threads (8 in schedule_run)
  Writers,       \* organizer threads (2 in schedule_run)
  ReaderRounds,  \* iterations of the reader loop (5)
  WriterRounds,  \* iterations of the writer loop (3)
  NoThread       \* the owner of a free mutex

ASSUME ThreadsAssumption ==
  /\ IsFiniteSet(Readers)
  /\ IsFiniteSet(Writers)
  /\ Readers \cap Writers = {}
  /\ NoThread \notin Readers \cup Writers

ASSUME RoundsAssumption ==
  /\ ReaderRounds \in Nat \ {0}
  /\ WriterRounds \in Nat \ {0}

VARIABLES
  m,                 \* owner of rw->m
  wlock,             \* value of the semaphore rw->wlock
  readers,           \* rw->readers
  writers_waiting,   \* rw->writers_waiting
  writer_active,     \* rw->writer_active
  schedule_version,  \* the shared datum
  readers_in_cs, writers_in_cs, violation_count,  \* the instrumentation
  pc,                \* where each thread is
  rounds,            \* loop iterations each thread has completed
  local,             \* the copy of schedule_version a thread holds
  main               \* "joining", then "destroyed"

lockVars == <<m, wlock, readers, writers_waiting, writer_active>>
instrVars == <<readers_in_cs, writers_in_cs, violation_count>>
vars == <<lockVars, instrVars, schedule_version, pc, rounds, local, main>>

Threads == Readers \cup Writers

ReaderPCs == {"rlock", "gate", "sem", "enter", "read", "leave",
              "runlock", "drop", "done"}
WriterPCs == {"wlock", "announce", "sem", "entered", "retract", "enter",
              "load", "store", "leave", "wunlock", "done"}

Goto(t, l) == pc' = [pc EXCEPT ![t] = l]

(***************************************************************************)
(* pthread_mutex_lock(&rw->m), from l0 to l1.                              *)
(***************************************************************************)
LockM(t, l0, l1) ==
  /\ pc[t] = l0
  /\ m = NoThread
  /\ m' = t
  /\ Goto(t, l1)
  /\ UNCHANGED <<wlock, readers, writers_waiting, writer_active,
                 instrVars, schedule_version, rounds, local, main>>

(***************************************************************************)
(* The end of a loop body of thread t, whose loop starts at label l.       *)
(***************************************************************************)
EndRound(t, l, bound) ==
  /\ rounds' = [rounds EXCEPT ![t] = @ + 1]
  /\ Goto(t, IF rounds[t] + 1 < bound THEN l ELSE "done")

Init ==
  /\ m = NoThread
  /\ wlock = 1
  /\ readers = 0
  /\ writers_waiting = 0
  /\ writer_active = FALSE
  /\ schedule_version = 0
  /\ readers_in_cs = 0
  /\ writers_in_cs = 0
  /\ violation_count = 0
  /\ pc = [t \in Threads |-> IF t \in Readers THEN "rlock" ELSE "wlock"]
  /\ rounds = [t \in Threads |-> 0]
  /\ local = [t \in Threads |-> 0]
  /\ main = "joining"

------------------------------------------------------------------------------
(* rw_rlock *)

RLockAcquire(r) == LockM(r, "rlock", "gate")

(* A writer is waiting: give m back, sleep, try again. *)
RBackoff(r) ==
  /\ pc[r] = "gate"
  /\ writers_waiting > 0
  /\ m' = NoThread
  /\ Goto(r, "rlock")
  /\ UNCHANGED <<wlock, readers, writers_waiting, writer_active,
                 instrVars, schedule_version, rounds, local, main>>

(* A bug of the kind RAdmit must not have: it does not look at the gate. *)
RAdmitPastGate(r) ==
  /\ pc[r] = "gate"
  /\ readers' = readers + 1
  /\ IF readers' = 1
       THEN Goto(r, "sem") /\ UNCHANGED m
       ELSE Goto(r, "enter") /\ m' = NoThread
  /\ UNCHANGED <<wlock, writers_waiting, writer_active,
                 instrVars, schedule_version, rounds, local, main>>

(* The first reader goes on to sem_wait and keeps m; a later one leaves m. *)
RAdmit(r) ==
  /\ pc[r] = "gate"
  /\ ~(writers_waiting > 0)
  /\ readers' = readers + 1
  /\ IF readers' = 1
       THEN Goto(r, "sem") /\ UNCHANGED m
       ELSE Goto(r, "enter") /\ m' = NoThread
  /\ UNCHANGED <<wlock, writers_waiting, writer_active,
                 instrVars, schedule_version, rounds, local, main>>

RSemWait(r) ==
  /\ pc[r] = "sem"
  /\ wlock > 0
  /\ wlock' = wlock - 1
  /\ m' = NoThread
  /\ Goto(r, "enter")
  /\ UNCHANGED <<readers, writers_waiting, writer_active,
                 instrVars, schedule_version, rounds, local, main>>

------------------------------------------------------------------------------
(* The body of the reader loop *)

REnter(r) ==
  /\ pc[r] = "enter"
  /\ readers_in_cs' = readers_in_cs + 1
  /\ violation_count' = violation_count + (IF writers_in_cs > 0 THEN 1 ELSE 0)
  /\ Goto(r, "read")
  /\ UNCHANGED <<lockVars, writers_in_cs, schedule_version, rounds, local, main>>

RRead(r) ==
  /\ pc[r] = "read"
  /\ local' = [local EXCEPT ![r] = schedule_version]
  /\ Goto(r, "leave")
  /\ UNCHANGED <<lockVars, instrVars, schedule_version, rounds, main>>

RLeave(r) ==
  /\ pc[r] = "leave"
  /\ readers_in_cs' = readers_in_cs - 1
  /\ Goto(r, "runlock")
  /\ UNCHANGED <<lockVars, writers_in_cs, violation_count,
                 schedule_version, rounds, local, main>>

------------------------------------------------------------------------------
(* rw_runlock *)

RUnlockAcquire(r) == LockM(r, "runlock", "drop")

(* Bugs of the kind RDrop must not have: every reader posts, or the last  *)
(* one posts only for a writer that waits.                                *)
RDropAlwaysPosts(r) ==
  /\ pc[r] = "drop"
  /\ readers' = readers - 1
  /\ wlock' = wlock + 1
  /\ m' = NoThread
  /\ EndRound(r, "rlock", ReaderRounds)
  /\ UNCHANGED <<writers_waiting, writer_active, instrVars,
                 schedule_version, local, main>>

RDropPostsForWriter(r) ==
  /\ pc[r] = "drop"
  /\ readers' = readers - 1
  /\ wlock' = wlock + (IF readers' = 0 /\ writers_waiting > 0 THEN 1 ELSE 0)
  /\ m' = NoThread
  /\ EndRound(r, "rlock", ReaderRounds)
  /\ UNCHANGED <<writers_waiting, writer_active, instrVars,
                 schedule_version, local, main>>

(* The last reader posts the semaphore before it leaves m. *)
RDrop(r) ==
  /\ pc[r] = "drop"
  /\ readers' = readers - 1
  /\ wlock' = wlock + (IF readers' = 0 THEN 1 ELSE 0)
  /\ m' = NoThread
  /\ EndRound(r, "rlock", ReaderRounds)
  /\ UNCHANGED <<writers_waiting, writer_active, instrVars,
                 schedule_version, local, main>>

------------------------------------------------------------------------------
(* rw_wlock *)

WAnnounceAcquire(w) == LockM(w, "wlock", "announce")

WAnnounce(w) ==
  /\ pc[w] = "announce"
  /\ writers_waiting' = writers_waiting + 1
  /\ m' = NoThread
  /\ Goto(w, "sem")
  /\ UNCHANGED <<wlock, readers, writer_active, instrVars,
                 schedule_version, rounds, local, main>>

(* A bug of the kind WSemWait must not have: nobody waits. *)
WNoSemWait(w) ==
  /\ pc[w] = "sem"
  /\ Goto(w, "entered")
  /\ UNCHANGED <<m, wlock, readers, writers_waiting, writer_active, instrVars,
                 schedule_version, rounds, local, main>>

WSemWait(w) ==
  /\ pc[w] = "sem"
  /\ wlock > 0
  /\ wlock' = wlock - 1
  /\ Goto(w, "entered")
  /\ UNCHANGED <<m, readers, writers_waiting, writer_active, instrVars,
                 schedule_version, rounds, local, main>>

WRetractAcquire(w) == LockM(w, "entered", "retract")

WRetract(w) ==
  /\ pc[w] = "retract"
  /\ writers_waiting' = writers_waiting - 1
  /\ m' = NoThread
  /\ Goto(w, "enter")
  /\ UNCHANGED <<wlock, readers, writer_active, instrVars,
                 schedule_version, rounds, local, main>>

------------------------------------------------------------------------------
(* The body of the writer loop, and rw_wunlock *)

WEnter(w) ==
  /\ pc[w] = "enter"
  /\ writers_in_cs' = writers_in_cs + 1
  /\ violation_count' = violation_count
       + (IF writers_in_cs' > 1 \/ readers_in_cs > 0 THEN 1 ELSE 0)
  /\ Goto(w, "load")
  /\ UNCHANGED <<lockVars, readers_in_cs, schedule_version, rounds, local, main>>

WLoad(w) ==
  /\ pc[w] = "load"
  /\ local' = [local EXCEPT ![w] = schedule_version]
  /\ Goto(w, "store")
  /\ UNCHANGED <<lockVars, instrVars, schedule_version, rounds, main>>

WStore(w) ==
  /\ pc[w] = "store"
  /\ schedule_version' = local[w] + 1
  /\ Goto(w, "leave")
  /\ UNCHANGED <<lockVars, instrVars, rounds, local, main>>

WLeave(w) ==
  /\ pc[w] = "leave"
  /\ writers_in_cs' = writers_in_cs - 1
  /\ Goto(w, "wunlock")
  /\ UNCHANGED <<lockVars, readers_in_cs, violation_count,
                 schedule_version, rounds, local, main>>

WUnlock(w) ==
  /\ pc[w] = "wunlock"
  /\ wlock' = wlock + 1
  /\ EndRound(w, "wlock", WriterRounds)
  /\ UNCHANGED <<m, readers, writers_waiting, writer_active, instrVars,
                 schedule_version, local, main>>

------------------------------------------------------------------------------
(* schedule_run: every thread joined, the lock is destroyed. *)

RwDestroy ==
  /\ main = "joining"
  /\ \A t \in Threads : pc[t] = "done"
  /\ main' = "destroyed"
  /\ UNCHANGED <<lockVars, instrVars, schedule_version, pc, rounds, local>>

Returned ==
  /\ main = "destroyed"
  /\ UNCHANGED vars

Reader(r) ==
  \/ RLockAcquire(r) \/ RBackoff(r) \/ RAdmit(r) \/ RSemWait(r)
  \/ REnter(r) \/ RRead(r) \/ RLeave(r)
  \/ RUnlockAcquire(r) \/ RDrop(r)

Writer(w) ==
  \/ WAnnounceAcquire(w) \/ WAnnounce(w) \/ WSemWait(w)
  \/ WRetractAcquire(w) \/ WRetract(w)
  \/ WEnter(w) \/ WLoad(w) \/ WStore(w) \/ WLeave(w) \/ WUnlock(w)

Next ==
  \/ \E r \in Readers : Reader(r)
  \/ \E w \in Writers : Writer(w)
  \/ RwDestroy
  \/ Returned

Spec == Init /\ [][Next]_vars

(***************************************************************************)
(* Every thread that is not blocked runs on.  A mutex is handed over       *)
(* fairly to a thread that leaves the lock or that wants it as a writer:   *)
(* the only threads that take m again and again are the readers in         *)
(* RBackoff, which sleep 100us between two attempts while m is held for a  *)
(* few instructions.  The attempts of those readers need no more than      *)
(* weak fairness.                                                          *)
(***************************************************************************)
Fairness ==
  /\ \A r \in Readers :
       /\ WF_vars(Reader(r))
       /\ SF_vars(RUnlockAcquire(r))
  /\ \A w \in Writers :
       /\ WF_vars(Writer(w))
       /\ SF_vars(WAnnounceAcquire(w) \/ WRetractAcquire(w))
  /\ WF_vars(RwDestroy)

FairSpec == Spec /\ Fairness

------------------------------------------------------------------------------
(* Where the threads are, in the terms of the lock *)

(* Counted by readers: from rw_rlock's increment to rw_runlock's decrement. *)
Counted == {r \in Readers : pc[r] \in
              {"sem", "enter", "read", "leave", "runlock", "drop"}}

(* Readers that were let in. *)
Inside == {r \in Readers : pc[r] \in
             {"enter", "read", "leave", "runlock", "drop"}}

(* Counted by writers_waiting. *)
Announced == {w \in Writers : pc[w] \in {"sem", "entered", "retract"}}

(* Writers between their sem_wait and their sem_post. *)
Holding == {w \in Writers : pc[w] \in
              {"entered", "retract", "enter", "load", "store", "leave", "wunlock"}}

(* Writers that returned from rw_wlock and have not posted yet. *)
Writing == {w \in Writers : pc[w] \in
              {"enter", "load", "store", "leave", "wunlock"}}

(* Writers whose store of this round is done. *)
Stored == {w \in Writers : pc[w] \in {"leave", "wunlock"}}

------------------------------------------------------------------------------
(* Every variable has its type; the semaphore is binary and the counters   *)
(* count threads (comments of rwlock_t in sync_utils.h).                   *)
TypeOK ==
  /\ m \in Threads \cup {NoThread}
  /\ wlock \in {0, 1}
  /\ readers \in 0..Cardinality(Readers)
  /\ writers_waiting \in 0..Cardinality(Writers)
  /\ writer_active \in BOOLEAN
  /\ schedule_version \in Nat
  /\ readers_in_cs \in 0..Cardinality(Readers)
  /\ writers_in_cs \in 0..Cardinality(Writers)
  /\ violation_count \in Nat
  /\ pc \in [Threads -> ReaderPCs \cup WriterPCs]
  /\ \A r \in Readers : pc[r] \in ReaderPCs
  /\ \A w \in Writers : pc[w] \in WriterPCs
  /\ rounds \in [Threads -> Nat]
  /\ local \in [Threads -> Nat]
  /\ main \in {"joining", "destroyed"}

(* A writer inside the lock is alone: no second writer, no reader          *)
(* (rw_rlock, rw_wlock; README "Only one writer ... at a time").           *)
MutualExclusion ==
  /\ \A w1, w2 \in Writing : w1 = w2
  /\ Writing # {} => Inside = {}

(* What the program itself counts and test_scenario.c checks.              *)
NoViolation == violation_count = 0

(* A reader that blocks in sem_wait keeps m (readers_writers.c:36-37).     *)
(* That is safe only because the thread it waits for never needs m before  *)
(* it posts: no writer is announced, and no reader is inside.  With a      *)
(* writer between its sem_wait and its second lock of m, or a reader that  *)
(* has yet to call rw_runlock, both would wait forever.                    *)
HolderNeverNeedsM ==
  \A r \in Readers : pc[r] = "sem" => Announced = {} /\ Inside = {}

(* A thread that has to wait for another one: for m, or for the permit.    *)
Blocked(t) ==
  \/ /\ pc[t] \in {"rlock", "runlock", "wlock", "entered"}
     /\ m # NoThread
  \/ /\ pc[t] = "sem"
     /\ wlock = 0

(* As long as a thread has work left, some thread is not blocked, although *)
(* rw_rlock sleeps on the semaphore with m held (README "without           *)
(* deadlocks").                                                            *)
NoDeadlock ==
  (\E t \in Threads : pc[t] # "done") =>
    \E t \in Threads : pc[t] # "done" /\ ~Blocked(t)

(* schedule_run destroys a lock that is as rw_init left it: no permit was  *)
(* lost or gained and no count leaked over all the rounds.                 *)
QuiescentAtDestroy ==
  main = "destroyed" =>
    /\ m = NoThread
    /\ wlock = 1
    /\ readers = 0
    /\ writers_waiting = 0

(* The lock implements the writer-priority board.                          *)
Board == INSTANCE ScheduleBoard WITH
           waiting <- Announced,
           reading <- Inside,
           writing <- Writing,
           published <- Stored,
           version <- schedule_version
ImplementsBoard == Board!Spec

(* schedule_run returns: no deadlock, no writer or reader waits forever.   *)
AllJoined == <>(main = "destroyed")
==============================================================================
