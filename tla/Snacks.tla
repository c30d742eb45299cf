------------------------------- MODULE Snacks -------------------------------
(***************************************************************************)
(* The bounded buffer (bb_t in sync_utils.c) with the cooks and attendees  *)
(* that snacks_run starts on it (bounded_buffer.c).                        *)
(*                                                                         *)
(* A step is what a thread does between two points where it can block or   *)
(* be observed: the code under q->m up to the unlock is one step.  A tray  *)
(* is known by its tray_id, so a pointer to it is that number.  The cooks  *)
(* loop for ever; nothing but the buffer bounds what they make.            *)
(***************************************************************************)
EXTENDS Integers, FiniteSets, Sequences, FiniteSetsExt

CONSTANTS
  Cooks,              \* NUM_COOKS threads, 2
  Attendees,          \* NUM_ATTENDEES threads, 40
  Cap,                \* BUF_C, 8
  SnacksPerAttendee,  \* SNACKS_PER_ATTENDEE, 1
  NoThread,           \* the owner of a free mutex
  NoTray              \* the NULL pointer

ASSUME KitchenAssumption ==
  /\ IsFiniteSet(Cooks) /\ Cooks # {}
  /\ IsFiniteSet(Attendees)
  /\ Cooks \cap Attendees = {}
  /\ NoThread \notin Cooks \cup Attendees
  /\ Cap \in Nat \ {0}
  /\ SnacksPerAttendee \in Nat \ {0}
  /\ NoTray \notin Nat

VARIABLES
  buf, head, tail,    \* the ring: q->buf, q->head, q->tail
  empty, full,        \* the values of the two semaphores
  m,                  \* owner of q->m
  tray_counter,       \* the next tray_id
  pc,                 \* where each thread is
  hand,               \* the tray pointer a thread holds
  heap,               \* the trays allocated and not freed
  eaten,              \* iterations each attendee has completed
  main,               \* snacks_run: "joining", "destroyed", "returned"
  wild                \* cooks that used the buffer after bb_destroy

ringVars == <<buf, head, tail>>
vars == <<ringVars, empty, full, m, tray_counter, pc, hand, heap, eaten,
          main, wild>>

Threads == Cooks \cup Attendees
Slots == 0 .. Cap - 1

CookPCs == {"create", "put", "plock", "store", "pfull"}
AttendeePCs == {"take", "tlock", "load", "tempty", "eat", "done"}

Goto(t, l) == pc' = [pc EXCEPT ![t] = l]

(* bb_init; then the threads are spawned. *)
Init ==
  /\ buf = [i \in Slots |-> NoTray]
  /\ head = 0
  /\ tail = 0
  /\ empty = Cap
  /\ full = 0
  /\ m = NoThread
  /\ tray_counter = 0
  /\ pc = [t \in Threads |-> IF t \in Cooks THEN "create" ELSE "take"]
  /\ hand = [t \in Threads |-> NoTray]
  /\ heap = {}
  /\ eaten = [a \in Attendees |-> 0]
  /\ main = "joining"
  /\ wild = {}

(* pthread_mutex_lock(&q->m), from l0 to l1. *)
LockM(t, l0, l1) ==
  /\ main = "joining"
  /\ pc[t] = l0
  /\ m = NoThread
  /\ m' = t
  /\ Goto(t, l1)
  /\ UNCHANGED <<ringVars, empty, full, tray_counter, hand, heap, eaten,
                 main, wild>>

------------------------------------------------------------------------------
(* cook, and bb_put *)

(* The tray's number is taken under its own mutex; the tray is the cook's. *)
CreateTray(c) ==
  /\ pc[c] = "create"
  /\ main # "returned"
  /\ hand' = [hand EXCEPT ![c] = tray_counter]
  /\ heap' = heap \cup {tray_counter}
  /\ tray_counter' = tray_counter + 1
  /\ Goto(c, "put")
  /\ UNCHANGED <<ringVars, empty, full, m, eaten, main, wild>>

(* A bug of the kind WaitEmpty must not have: nobody waits for room. *)
NoWaitEmpty(c) ==
  /\ main = "joining"
  /\ pc[c] = "put"
  /\ Goto(c, "plock")
  /\ UNCHANGED <<ringVars, empty, full, m, tray_counter, hand, heap, eaten,
                 main, wild>>

WaitEmpty(c) ==
  /\ main = "joining"
  /\ pc[c] = "put"
  /\ empty > 0
  /\ empty' = empty - 1
  /\ Goto(c, "plock")
  /\ UNCHANGED <<ringVars, full, m, tray_counter, hand, heap, eaten, main, wild>>

PutLock(c) == LockM(c, "plock", "store")

(* A bug of the kind Store must not have: the tail does not wrap. *)
StoreNoWrap(c) ==
  /\ main = "joining"
  /\ pc[c] = "store"
  /\ buf' = [buf EXCEPT ![tail] = hand[c]]
  /\ tail' = tail + 1
  /\ hand' = [hand EXCEPT ![c] = NoTray]
  /\ m' = NoThread
  /\ Goto(c, "pfull")
  /\ UNCHANGED <<head, empty, full, tray_counter, heap, eaten, main, wild>>

(* From here on the tray is no longer the cook's: the LOG that follows     *)
(* bb_put uses the number and the food name the cook kept.                 *)
Store(c) ==
  /\ main = "joining"
  /\ pc[c] = "store"
  /\ buf' = [buf EXCEPT ![tail] = hand[c]]
  /\ tail' = (tail + 1) % Cap
  /\ hand' = [hand EXCEPT ![c] = NoTray]
  /\ m' = NoThread
  /\ Goto(c, "pfull")
  /\ UNCHANGED <<head, empty, full, tray_counter, heap, eaten, main, wild>>

(* A bug of the kind PostFull must not have: the attendees are not told. *)
NoPostFull(c) ==
  /\ main = "joining"
  /\ pc[c] = "pfull"
  /\ Goto(c, "create")
  /\ UNCHANGED <<ringVars, empty, full, m, tray_counter, hand, heap, eaten,
                 main, wild>>

PostFull(c) ==
  /\ main = "joining"
  /\ pc[c] = "pfull"
  /\ full' = full + 1
  /\ Goto(c, "create")
  /\ UNCHANGED <<ringVars, empty, m, tray_counter, hand, heap, eaten, main, wild>>

(* A cook that uses the buffer after bb_destroy: what it does from here on *)
(* is undefined, the model only records that it happened.                  *)
UseDestroyed(c) ==
  /\ main = "destroyed"
  /\ pc[c] \in {"put", "plock", "store", "pfull"}
  /\ c \notin wild
  /\ wild' = wild \cup {c}
  /\ UNCHANGED <<ringVars, empty, full, m, tray_counter, pc, hand, heap, eaten, main>>

------------------------------------------------------------------------------
(* attendee, and bb_take *)

WaitFull(a) ==
  /\ pc[a] = "take"
  /\ full > 0
  /\ full' = full - 1
  /\ Goto(a, "tlock")
  /\ UNCHANGED <<ringVars, empty, m, tray_counter, hand, heap, eaten, main, wild>>

TakeLock(a) == LockM(a, "tlock", "load")

(* A bug of the kind Load must not have: it reads the slot put last. *)
LoadNewest(a) ==
  /\ pc[a] = "load"
  /\ hand' = [hand EXCEPT ![a] = buf[(tail + Cap - 1) % Cap]]
  /\ head' = (head + 1) % Cap
  /\ m' = NoThread
  /\ Goto(a, "tempty")
  /\ UNCHANGED <<buf, tail, empty, full, tray_counter, heap, eaten, main, wild>>

Load(a) ==
  /\ pc[a] = "load"
  /\ hand' = [hand EXCEPT ![a] = buf[head]]
  /\ head' = (head + 1) % Cap
  /\ m' = NoThread
  /\ Goto(a, "tempty")
  /\ UNCHANGED <<buf, tail, empty, full, tray_counter, heap, eaten, main, wild>>

PostEmpty(a) ==
  /\ pc[a] = "tempty"
  /\ empty' = empty + 1
  /\ Goto(a, "eat")
  /\ UNCHANGED <<ringVars, full, m, tray_counter, hand, heap, eaten, main, wild>>

FreeTray(a) ==
  /\ pc[a] = "eat"
  /\ heap' = heap \ {hand[a]}
  /\ hand' = [hand EXCEPT ![a] = NoTray]
  /\ eaten' = [eaten EXCEPT ![a] = @ + 1]
  /\ Goto(a, IF eaten[a] + 1 < SnacksPerAttendee THEN "take" ELSE "done")
  /\ UNCHANGED <<ringVars, empty, full, m, tray_counter, main, wild>>

------------------------------------------------------------------------------
(* snacks_run: join the attendees, not the cooks; bb_destroy; return, which *)
(* ends the process.                                                        *)
BbDestroy ==
  /\ main = "joining"
  /\ \A a \in Attendees : pc[a] = "done"
  /\ main' = "destroyed"
  /\ UNCHANGED <<ringVars, empty, full, m, tray_counter, pc, hand, heap, eaten, wild>>

Return ==
  /\ main = "destroyed"
  /\ main' = "returned"
  /\ UNCHANGED <<ringVars, empty, full, m, tray_counter, pc, hand, heap, eaten, wild>>

Returned ==
  /\ main = "returned"
  /\ UNCHANGED vars

Cook(c) ==
  \/ CreateTray(c) \/ WaitEmpty(c) \/ PutLock(c) \/ Store(c) \/ PostFull(c)
  \/ UseDestroyed(c)

Attendee(a) ==
  \/ WaitFull(a) \/ TakeLock(a) \/ Load(a) \/ PostEmpty(a) \/ FreeTray(a)

Next ==
  \/ \E c \in Cooks : Cook(c)
  \/ \E a \in Attendees : Attendee(a)
  \/ BbDestroy
  \/ Return
  \/ Returned

Spec == Init /\ [][Next]_vars

(***************************************************************************)
(* A thread that can run does run.  Weak fairness is enough even for the   *)
(* mutex: the cooks, the only threads without an end, stop at a full       *)
(* buffer.                                                                 *)
(***************************************************************************)
Fairness ==
  /\ \A c \in Cooks : WF_vars(Cook(c))
  /\ \A a \in Attendees : WF_vars(Attendee(a))
  /\ WF_vars(BbDestroy \/ Return)

FairSpec == Spec /\ Fairness

------------------------------------------------------------------------------
At(S, labels) == {t \in S : pc[t] \in labels}

(* Trays in the ring: those whose permit is in full, those stored whose    *)
(* permit is not posted yet and those whose permit an attendee has taken.  *)
Queued ==
  full + Cardinality(At(Cooks, {"pfull"}))
       + Cardinality(At(Attendees, {"tlock", "load"}))

Queue == [i \in 1..Queued |-> buf[(head + i - 1) % Cap]]

Holders == {t \in Threads : hand[t] # NoTray}

(* Every variable has its type: the ring's indices stay on the ring and    *)
(* each semaphore between zero and the capacity.                           *)
TypeOK ==
  /\ buf \in [Slots -> Nat \cup {NoTray}]
  /\ head \in Slots
  /\ tail \in Slots
  /\ empty \in 0..Cap
  /\ full \in 0..Cap
  /\ m \in Threads \cup {NoThread}
  /\ tray_counter \in Nat
  /\ pc \in [Threads -> CookPCs \cup AttendeePCs]
  /\ \A c \in Cooks : pc[c] \in CookPCs
  /\ \A a \in Attendees : pc[a] \in AttendeePCs
  /\ hand \in [Threads -> Nat \cup {NoTray}]
  /\ heap \subseteq Nat
  /\ eaten \in [Attendees -> 0..SnacksPerAttendee]
  /\ main \in {"joining", "destroyed", "returned"}
  /\ wild \subseteq Cooks

(* Every permit is somewhere: free, posted, or on its way with a thread    *)
(* inside bb_put or bb_take; so neither semaphore gains or loses one.      *)
PermitsConserved ==
  empty + full
    + Cardinality(At(Cooks, {"plock", "store", "pfull"}))
    + Cardinality(At(Attendees, {"tlock", "load", "tempty"})) = Cap

(* Every tray that is allocated has one owner: the cook that made it, one  *)
(* place in the queue or the attendee that took it.  No tray is lost, none *)
(* is delivered twice, none is freed twice or used after it is freed.      *)
Custody ==
  /\ heap = {hand[t] : t \in Holders} \cup {Queue[i] : i \in 1..Queued}
  /\ \A t, u \in Holders : hand[t] = hand[u] => t = u
  /\ \A i, j \in 1..Queued : Queue[i] = Queue[j] => i = j
  /\ \A t \in Holders : \A i \in 1..Queued : hand[t] # Queue[i]

(* The ring implements the bounded first-in first-out supply.              *)
Supply == INSTANCE TraySupply WITH
            made <- tray_counter,
            cookHand <- [c \in Cooks |-> hand[c]],
            queue <- Queue,
            guestHand <- [a \in Attendees |-> hand[a]],
            freed <- (0 .. tray_counter - 1) \ heap
ImplementsSupply == Supply!Spec

(* Every attendee is served and snacks_run returns.                        *)
AllServed == <>(main = "returned")

(* The buffer is not used once it is destroyed.                            *)
NoUseAfterDestroy == wild = {}
==============================================================================
