---------------------------- MODULE SnacksProofs ----------------------------
(***************************************************************************)
(* What TLAPS proves of Snacks for every number of cooks and attendees and *)
(* every capacity: its type invariant, that no semaphore permit is lost,   *)
(* that every tray in memory has exactly one owner, and that the ring      *)
(* implements the bounded first-in first-out supply.                       *)
(***************************************************************************)
EXTENDS Snacks, FiniteSetTheorems, SequenceTheorems, TLAPS

USE KitchenAssumption

------------------------------------------------------------------------------
(* Indices on the ring.  For the sums that occur, % is a subtraction.      *)

\* An index below two rounds is brought back to the ring by one subtraction.
LEMMA ModCap ==
  ASSUME NEW x \in 0 .. 2 * Cap - 1
  PROVE  x % Cap = IF x < Cap THEN x ELSE x - Cap
OBVIOUS

\* The index i places after h is a slot of the ring.
LEMMA SlotOf ==
  ASSUME NEW h \in Slots, NEW i \in 0 .. Cap
  PROVE  /\ (h + i) % Cap = IF h + i < Cap THEN h + i ELSE h + i - Cap
         /\ (h + i) % Cap \in Slots
BY ModCap DEF Slots

\* The place after the k-th is the k+1-st, from the head or from its successor.
LEMMA NextSlot ==
  ASSUME NEW h \in Slots, NEW k \in 0 .. Cap - 1
  PROVE  /\ (((h + k) % Cap) + 1) % Cap = (h + (k + 1)) % Cap
         /\ (((h + 1) % Cap) + k) % Cap = (h + (k + 1)) % Cap
<1> DEFINE Wrap(x) == IF x < Cap THEN x ELSE x - Cap
<1>1. \A x \in 0 .. 2 * Cap - 1 : x % Cap = Wrap(x) /\ Wrap(x) \in 0 .. Cap - 1
  BY ModCap
<1>2. /\ h + k \in 0 .. 2 * Cap - 1
      /\ h + 1 \in 0 .. 2 * Cap - 1
      /\ h + (k + 1) \in 0 .. 2 * Cap - 1
  BY DEF Slots
<1>3. /\ Wrap(h + k) + 1 \in 0 .. 2 * Cap - 1
      /\ Wrap(h + 1) + k \in 0 .. 2 * Cap - 1
  BY <1>2
<1>4. /\ Wrap(Wrap(h + k) + 1) = Wrap(h + (k + 1))
      /\ Wrap(Wrap(h + 1) + k) = Wrap(h + (k + 1))
  BY DEF Slots
<1> HIDE DEF Wrap
<1> QED BY <1>1, <1>2, <1>3, <1>4

\* Less than a round apart, two places are different slots.
LEMMA SlotsDiffer ==
  ASSUME NEW h \in Slots, NEW j \in Nat, NEW k \in 0 .. Cap - 1, j < k
  PROVE  (h + j) % Cap # (h + k) % Cap
<1>1. h + j \in 0 .. 2 * Cap - 1 /\ h + k \in 0 .. 2 * Cap - 1
  BY DEF Slots
<1> QED BY <1>1, ModCap DEF Slots

------------------------------------------------------------------------------
(* The inductive invariant.                                                *)

(* The variables are of their types, the semaphores only natural numbers.  *)
Types ==
  /\ buf \in [Slots -> Nat \cup {NoTray}]
  /\ head \in Slots
  /\ tail \in Slots
  /\ empty \in Nat
  /\ full \in Nat
  /\ m \in Threads \cup {NoThread}
  /\ tray_counter \in Nat
  /\ pc \in [Threads -> CookPCs \cup AttendeePCs]
  /\ \A c \in Cooks : pc[c] \in CookPCs
  /\ \A a \in Attendees : pc[a] \in AttendeePCs
  /\ hand \in [Threads -> Nat \cup {NoTray}]
  /\ heap \subseteq 0 .. tray_counter - 1
  /\ eaten \in [Attendees -> 0..SnacksPerAttendee]
  /\ \A a \in Attendees : pc[a] # "done" => eaten[a] < SnacksPerAttendee
  /\ main \in {"joining", "destroyed", "returned"}
  /\ wild \subseteq Cooks

(* Threads by what they hold of the permits. *)
Room == At(Cooks, {"plock", "store"})          \* a free slot reserved
Stored == At(Cooks, {"pfull"})                 \* a tray stored, not posted
Promised == At(Attendees, {"tlock", "load"})   \* a tray reserved
Emptied == At(Attendees, {"tempty"})           \* a slot emptied, not posted

(* Who is under m. *)
MutexInv ==
  \A t \in At(Cooks, {"store"}) \cup At(Attendees, {"load"}) : m = t

(* The permits and the ring agree. *)
RingInv ==
  /\ empty + Cardinality(Room) + Queued + Cardinality(Emptied) = Cap
  /\ tail = (head + Queued) % Cap

(* Who has a tray in the hand. *)
HandInv ==
  /\ \A c \in Cooks : hand[c] # NoTray <=> pc[c] \in {"put", "plock", "store"}
  /\ \A a \in Attendees : hand[a] # NoTray <=> pc[a] \in {"tempty", "eat"}

IInv == Types /\ MutexInv /\ RingInv /\ HandInv /\ Custody

Groups == <<Room, Stored, Promised, Emptied>>

(* The groups are finite, and so are the numbers made of their sizes.      *)
LEMMA GroupsFinite ==
  /\ IsFiniteSet(Room) /\ Cardinality(Room) \in Nat
  /\ IsFiniteSet(Stored) /\ Cardinality(Stored) \in Nat
  /\ IsFiniteSet(Promised) /\ Cardinality(Promised) \in Nat
  /\ IsFiniteSet(Emptied) /\ Cardinality(Emptied) \in Nat
<1>1. /\ Room \in SUBSET Cooks /\ Stored \in SUBSET Cooks
      /\ Promised \in SUBSET Attendees /\ Emptied \in SUBSET Attendees
  BY DEF Room, Stored, Promised, Emptied, At
<1> QED BY <1>1, FS_Subset, FS_CardinalityType

(* The length of the queue, before and after a step.                       *)
LEMMA QueuedDef ==
  /\ Queued = full + Cardinality(Stored) + Cardinality(Promised)
  /\ Queued' = full' + Cardinality(Stored') + Cardinality(Promised')
BY DEF Queued, Stored, Promised

\* The trays counted fit the ring; who has a permit finds room, or a tray.
LEMMA QueuedBound ==
  ASSUME Types, RingInv
  PROVE  /\ Queued \in 0..Cap
         /\ Room # {} => Queued < Cap
         /\ Promised # {} => Queued > 0
<1>1. Queued \in Nat
  BY GroupsFinite, QueuedDef DEF Types
<1>2. /\ Room # {} => Cardinality(Room) > 0
      /\ Promised # {} => Cardinality(Promised) > 0
  BY GroupsFinite, FS_EmptySet
<1> QED BY <1>1, <1>2, GroupsFinite, QueuedDef DEF Types, RingInv

\* The invariant holds after bb_init.
LEMMA InitIInv == Init => IInv
<1> SUFFICES ASSUME Init PROVE IInv
  OBVIOUS
<1>1. Room = {} /\ Stored = {} /\ Promised = {} /\ Emptied = {}
  BY DEF Init, Threads, Room, Stored, Promised, Emptied, At
<1>2. Cardinality({}) = 0
  BY FS_EmptySet
<1>3. Queued = 0
  BY <1>1, <1>2, QueuedDef DEF Init
<1>4. Types
  BY DEF Init, Types, Threads, Slots, CookPCs, AttendeePCs
<1>5. MutexInv /\ HandInv
  BY DEF Init, MutexInv, HandInv, Threads, At
<1>6. RingInv
  BY <1>1, <1>2, <1>3 DEF Init, RingInv
<1>7. Holders = {}
  BY DEF Init, Holders, Threads
<1>8. Custody
  BY <1>3, <1>7 DEF Init, Custody
<1> QED BY <1>4, <1>5, <1>6, <1>8 DEF IInv

(* The queue is what its length, the head and the slots say.               *)
LEMMA QuietQueue ==
  ASSUME UNCHANGED <<buf, head, Queued>>
  PROVE  Queue' = Queue
BY DEF Queue

(* A step that leaves the queue, the hands and the heap leaves custody.    *)
LEMMA QuietCustody ==
  ASSUME Custody, UNCHANGED <<Queued, Queue, hand, heap>>
  PROVE  Custody'
BY DEF Custody, Holders

------------------------------------------------------------------------------
(* The cooks' steps. *)

\* A cook that makes a tray keeps the invariant.
LEMMA CreateTrayStep ==
  ASSUME IInv, NEW c \in Cooks, CreateTray(c)
  PROVE  IInv'
<1> USE DEF CreateTray, Goto, ringVars, IInv
<1>1. Types'
  BY DEF Types, Threads, CookPCs, AttendeePCs
<1>2. MutexInv'
  BY DEF Types, Threads, MutexInv, At
<1>3. UNCHANGED Groups
  BY DEF Types, Threads, Groups, Room, Stored, Promised, Emptied, At
<1>4. UNCHANGED <<Queued, Queue>>
  BY <1>3, QueuedDef, QuietQueue DEF Groups
<1>5. RingInv' /\ HandInv'
  BY <1>3, <1>4 DEF Types, Threads, RingInv, HandInv, Groups
<1>6. Custody'
  <2>1. c \notin Holders /\ c \in Threads
    BY DEF HandInv, Holders, Threads
  <2>2. Holders' = Holders \cup {c}
    BY <2>1 DEF Types, Holders, Threads
  <2>3. hand'[c] = tray_counter /\ tray_counter \notin heap
    BY DEF Types, Threads
  <2>4. \A t \in Holders : hand'[t] = hand[t]
    BY <2>1 DEF Types, Holders, Threads
  <2> QED BY <1>4, <2>2, <2>3, <2>4 DEF Custody
<1> QED BY <1>1, <1>2, <1>5, <1>6

\* A cook that takes a permit of empty keeps the invariant.
LEMMA WaitEmptyStep ==
  ASSUME IInv, NEW c \in Cooks, WaitEmpty(c)
  PROVE  IInv'
<1> USE DEF WaitEmpty, Goto, ringVars, IInv
<1>1. Types'
  BY DEF Types, Threads, CookPCs, AttendeePCs
<1>2. MutexInv'
  BY DEF Types, Threads, MutexInv, At
<1>3. /\ Room' = Room \cup {c} /\ c \notin Room
      /\ UNCHANGED <<Stored, Promised, Emptied>>
  BY DEF Types, Threads, Room, Stored, Promised, Emptied, At
<1>4. UNCHANGED <<Queued, Queue>>
  BY <1>3, QueuedDef, QuietQueue
<1>5. RingInv'
  <2>1. Cardinality(Room') = Cardinality(Room) + 1
    BY <1>3, GroupsFinite, FS_AddElement
  <2> QED BY <1>3, <1>4, <2>1, GroupsFinite, QueuedBound DEF Types, RingInv
<1>6. HandInv' /\ Custody'
  BY <1>4, QuietCustody DEF Types, Threads, HandInv
<1> QED BY <1>1, <1>2, <1>5, <1>6

\* Who takes the mutex, in bb_put or bb_take, keeps the invariant.
LEMMA LockStep ==
  ASSUME IInv, NEW t \in Threads, NEW l0, NEW l1, LockM(t, l0, l1),
         \/ t \in Cooks /\ l0 = "plock" /\ l1 = "store"
         \/ t \in Attendees /\ l0 = "tlock" /\ l1 = "load"
  PROVE  IInv'
<1> USE DEF LockM, Goto, ringVars, IInv
<1>1. Types'
  BY DEF Types, Threads, CookPCs, AttendeePCs
<1>2. MutexInv'
  BY DEF Types, Threads, MutexInv, At
<1>3. UNCHANGED Groups
  BY DEF Types, Threads, Groups, Room, Stored, Promised, Emptied, At
<1>4. UNCHANGED <<Queued, Queue>>
  BY <1>3, QueuedDef, QuietQueue DEF Groups
<1>5. RingInv' /\ HandInv' /\ Custody'
  BY <1>3, <1>4, QuietCustody DEF Types, Threads, RingInv, HandInv, Groups
<1> QED BY <1>1, <1>2, <1>5

(* The slot the cook fills is not one of the queue's: the queue grows by   *)
(* the tray.                                                               *)
LEMMA StoreQueue ==
  ASSUME IInv, NEW c \in Cooks, Store(c)
  PROVE  /\ Room' = Room \ {c} /\ c \in Room
         /\ Stored' = Stored \cup {c} /\ c \notin Stored
         /\ UNCHANGED <<Promised, Emptied>>
         /\ Queued' = Queued + 1
         /\ Queued \in 0 .. Cap - 1
         /\ Queue' = [i \in 1 .. Queued + 1 |->
                         IF i <= Queued THEN Queue[i] ELSE hand[c]]
<1> USE DEF Store, Goto, IInv
<1>1. /\ Room' = Room \ {c} /\ c \in Room
      /\ Stored' = Stored \cup {c} /\ c \notin Stored
      /\ UNCHANGED <<Promised, Emptied>>
  BY DEF Types, Threads, Room, Stored, Promised, Emptied, At
<1>2. Queued \in 0 .. Cap - 1
  BY <1>1, QueuedBound
<1>3. Queued' = Queued + 1
  <2>1. /\ Cardinality(Stored') = Cardinality(Stored) + 1
        /\ Cardinality(Promised') = Cardinality(Promised)
    BY <1>1, GroupsFinite, FS_AddElement
  <2> QED BY <2>1, QueuedDef, GroupsFinite DEF Types
<1>4. ASSUME NEW i \in 1 .. Queued + 1
      PROVE  buf'[(head' + i - 1) % Cap] =
               IF i <= Queued THEN buf[(head + i - 1) % Cap] ELSE hand[c]
  <2>1. /\ head' = head /\ head \in Slots /\ i - 1 \in 0 .. Cap
        /\ tail = (head + Queued) % Cap
        /\ (head + i) - 1 = head + (i - 1)
    BY <1>2 DEF Types, RingInv, Slots
  <2>2. (head + (i - 1)) % Cap \in Slots
    BY <2>1, SlotOf
  <2>3. CASE i <= Queued
    <3>1. (head + (i - 1)) % Cap # tail
      BY <1>2, <2>1, <2>3, SlotsDiffer
    <3> QED BY <2>1, <2>2, <2>3, <3>1 DEF Types
  <2>4. CASE i = Queued + 1
    BY <1>2, <2>1, <2>2, <2>4 DEF Types
  <2> QED BY <1>2, <2>3, <2>4
<1> QED BY <1>1, <1>2, <1>3, <1>4 DEF Queue

\* A cook that stores its tray at the tail keeps the invariant.
LEMMA StoreStep ==
  ASSUME IInv, NEW c \in Cooks, Store(c)
  PROVE  IInv'
<1>1. /\ Room' = Room \ {c} /\ c \in Room
      /\ UNCHANGED Emptied
      /\ Queued' = Queued + 1
      /\ Queued \in 0 .. Cap - 1
      /\ Queue' = [i \in 1 .. Queued + 1 |->
                      IF i <= Queued THEN Queue[i] ELSE hand[c]]
  BY StoreQueue
<1>2. /\ \A i \in 1..Queued : Queue'[i] = Queue[i]
      /\ Queue'[Queued + 1] = hand[c]
      /\ 1..Queued' = (1..Queued) \cup {Queued + 1}
  BY <1>1
<1>3. /\ head \in Slots
      /\ tail = (head + Queued) % Cap
      /\ tail' = (tail + 1) % Cap
      /\ head' = head
  BY DEF IInv, Types, RingInv, Store
<1>4. tail' = (head + (Queued + 1)) % Cap /\ tail' \in Slots
  <2>1. Queued \in 0 .. Cap - 1 /\ Queued + 1 \in 0 .. Cap
    BY <1>1
  <2>2. (head + (Queued + 1)) % Cap \in Slots
    BY <1>3, <2>1, SlotOf
  <2> QED BY <1>3, <2>1, <2>2, NextSlot
<1> USE DEF Store, Goto, IInv
<1>5. Types'
  BY <1>4 DEF Types, Threads, CookPCs, AttendeePCs
<1>6. MutexInv' /\ HandInv'
  BY DEF Types, Threads, MutexInv, HandInv, At
<1>7. RingInv'
  <2>1. Cardinality(Room') = Cardinality(Room) - 1
    BY <1>1, GroupsFinite, FS_RemoveElement
  <2>2. /\ empty + Cardinality(Room) + Queued + Cardinality(Emptied) = Cap
        /\ empty' = empty /\ empty \in Nat
    BY DEF Types, RingInv
  <2>3. empty' + Cardinality(Room') + Queued' + Cardinality(Emptied') = Cap
    BY <1>1, <2>1, <2>2, GroupsFinite, SMTT(30)
  <2> QED BY <1>1, <1>3, <1>4, <2>3 DEF RingInv
<1>8. Custody'
  <2>1. c \in Holders /\ Holders' = Holders \ {c}
    BY DEF Types, HandInv, Holders, Threads
  <2>2. \A t \in Holders' : hand'[t] = hand[t]
    BY <2>1 DEF Types, Holders, Threads
  <2> QED BY <1>1, <1>2, <2>1, <2>2 DEF Custody
<1> QED BY <1>5, <1>6, <1>7, <1>8

\* A cook that posts full keeps the invariant.
LEMMA PostFullStep ==
  ASSUME IInv, NEW c \in Cooks, PostFull(c)
  PROVE  IInv'
<1> USE DEF PostFull, Goto, ringVars, IInv
<1>1. /\ Stored' = Stored \ {c} /\ c \in Stored
      /\ UNCHANGED <<Room, Promised, Emptied>>
  BY DEF Types, Threads, Room, Stored, Promised, Emptied, At
<1>2. Cardinality(Stored') = Cardinality(Stored) - 1
  BY <1>1, GroupsFinite, FS_RemoveElement
<1>3. UNCHANGED <<Queued, Queue>>
  <2>1. UNCHANGED Queued
    BY <1>1, <1>2, QueuedDef, GroupsFinite DEF Types
  <2> QED BY <2>1, QuietQueue
<1>4. Types' /\ HandInv'
  BY DEF Types, Threads, CookPCs, AttendeePCs, HandInv
<1>5. MutexInv'
  BY DEF Types, Threads, MutexInv, At
<1>6. RingInv' /\ Custody'
  BY <1>1, <1>3, QuietCustody DEF RingInv
<1> QED BY <1>4, <1>5, <1>6

\* A cook that uses the destroyed buffer keeps the invariant.
LEMMA UseDestroyedStep ==
  ASSUME IInv, NEW c \in Cooks, UseDestroyed(c)
  PROVE  IInv'
<1> USE DEF UseDestroyed, ringVars, IInv
<1>1. UNCHANGED Groups
  BY DEF Groups, Room, Stored, Promised, Emptied, At
<1>2. UNCHANGED <<Queued, Queue>>
  BY <1>1, QueuedDef, QuietQueue DEF Groups
<1>3. Types' /\ MutexInv' /\ HandInv'
  BY DEF Types, MutexInv, HandInv, At
<1>4. RingInv' /\ Custody'
  BY <1>1, <1>2, QuietCustody DEF RingInv, Groups
<1> QED BY <1>3, <1>4

------------------------------------------------------------------------------
(* The attendees' steps. *)

\* An attendee that takes a permit of full keeps the invariant.
LEMMA WaitFullStep ==
  ASSUME IInv, NEW a \in Attendees, WaitFull(a)
  PROVE  IInv'
<1> USE DEF WaitFull, Goto, ringVars, IInv
<1>1. /\ Promised' = Promised \cup {a} /\ a \notin Promised
      /\ UNCHANGED <<Room, Stored, Emptied>>
  BY DEF Types, Threads, Room, Stored, Promised, Emptied, At
<1>2. Cardinality(Promised') = Cardinality(Promised) + 1
  BY <1>1, GroupsFinite, FS_AddElement
<1>3. UNCHANGED <<Queued, Queue>>
  <2>1. UNCHANGED Queued
    BY <1>1, <1>2, QueuedDef, GroupsFinite DEF Types
  <2> QED BY <2>1, QuietQueue
<1>4. Types' /\ HandInv'
  BY DEF Types, Threads, CookPCs, AttendeePCs, HandInv
<1>5. MutexInv'
  BY DEF Types, Threads, MutexInv, At
<1>6. RingInv' /\ Custody'
  BY <1>1, <1>3, QuietCustody DEF RingInv
<1> QED BY <1>4, <1>5, <1>6

(* What the attendee takes is the head of the queue.                       *)
LEMMA LoadQueue ==
  ASSUME IInv, NEW a \in Attendees, Load(a)
  PROVE  /\ Promised' = Promised \ {a} /\ a \in Promised
         /\ Emptied' = Emptied \cup {a} /\ a \notin Emptied
         /\ UNCHANGED <<Room, Stored>>
         /\ Queued \in 1 .. Cap
         /\ Queued' = Queued - 1
         /\ hand'[a] = Queue[1]
         /\ head' \in Slots
         /\ tail = (head' + Queued') % Cap
         /\ Queue' = [i \in 1 .. Queued - 1 |-> Queue[i + 1]]
<1>1. /\ head \in Slots
      /\ head' = (head + 1) % Cap
      /\ buf' = buf
      /\ tail = (head + Queued) % Cap
      /\ hand'[a] = buf[head]
  BY DEF IInv, Types, RingInv, Load, Threads
<1>2. /\ Promised' = Promised \ {a} /\ a \in Promised
      /\ Emptied' = Emptied \cup {a} /\ a \notin Emptied
      /\ UNCHANGED <<Room, Stored>>
  BY DEF IInv, Load, Goto, Types, Threads, Room, Stored, Promised, Emptied, At
<1>3. Queued \in 1 .. Cap
  BY <1>2, QueuedBound DEF IInv
<1>4. Queued' = Queued - 1
  <2>1. Cardinality(Promised') = Cardinality(Promised) - 1
    BY <1>2, GroupsFinite, FS_RemoveElement
  <2>2. full' = full /\ full \in Nat
    BY DEF IInv, Types, Load
  <2>3. Cardinality(Stored') = Cardinality(Stored)
    BY <1>2
  <2> QED BY <2>1, <2>2, <2>3, QueuedDef, GroupsFinite
<1>5. head' \in Slots
  BY <1>1, SlotOf, 1 \in 0..Cap
<1>6. \A k \in 0 .. Cap - 1 : (head' + k) % Cap = (head + (k + 1)) % Cap
  BY <1>1, NextSlot
<1>7. (head + (1 - 1)) % Cap = head
  <2>1. 0 \in 0..Cap /\ 1 - 1 = 0 /\ head + 0 = head /\ head < Cap
    BY <1>1 DEF Slots
  <2> QED BY <1>1, <2>1, SlotOf
<1>8. tail = (head' + Queued') % Cap
  <2>1. Queued - 1 \in 0 .. Cap - 1 /\ (Queued - 1) + 1 = Queued
    BY <1>3
  <2> QED BY <1>1, <1>4, <1>6, <2>1
<1>9. hand'[a] = Queue[1]
  <2>1. Queue[1] = buf[(head + 1 - 1) % Cap]
    BY <1>3 DEF Queue
  <2>2. head + 1 - 1 = head + (1 - 1)
    BY <1>1 DEF Slots
  <2> QED BY <1>1, <1>7, <2>1, <2>2
<1>10. Queue' = [i \in 1 .. Queued - 1 |-> Queue[i + 1]]
  <2>1. ASSUME NEW i \in 1 .. Queued - 1
        PROVE  buf'[(head' + i - 1) % Cap] = Queue[i + 1]
    <3>1. /\ i - 1 \in 0 .. Cap - 1 /\ i + 1 \in 1 .. Queued
          /\ head' + i - 1 = head' + (i - 1)
          /\ head + (i + 1) - 1 = head + ((i - 1) + 1)
      BY <1>1, <1>3, <1>5 DEF Slots
    <3>2. Queue[i + 1] = buf[(head + (i + 1) - 1) % Cap]
      BY <3>1 DEF Queue
    <3> QED BY <1>1, <1>6, <3>1, <3>2
  <2> QED BY <1>4, <2>1 DEF Queue
<1> QED BY <1>2, <1>3, <1>4, <1>5, <1>8, <1>9, <1>10

\* An attendee that loads the tray at the head keeps the invariant.
LEMMA LoadStep ==
  ASSUME IInv, NEW a \in Attendees, Load(a)
  PROVE  IInv'
<1>1. /\ Emptied' = Emptied \cup {a} /\ a \notin Emptied
      /\ UNCHANGED Room
      /\ Queued \in 1 .. Cap
      /\ Queued' = Queued - 1
      /\ hand'[a] = Queue[1]
      /\ head' \in Slots
      /\ tail = (head' + Queued') % Cap
      /\ Queue' = [i \in 1 .. Queued - 1 |-> Queue[i + 1]]
  BY LoadQueue
<1>2. /\ \A i \in 1 .. Queued - 1 : Queue'[i] = Queue[i + 1]
      /\ 1 .. Queued' = 1 .. Queued - 1
      /\ \A i \in 1 .. Queued - 1 : i + 1 \in 1 .. Queued /\ i + 1 # 1
      /\ \A i, j \in 1 .. Queued - 1 : i + 1 = j + 1 => i = j
      /\ \A i \in 1 .. Queued : i = 1 \/ \E j \in 1 .. Queued - 1 : i = j + 1
      /\ 1 \in 1 .. Queued
  <2>1. \A i \in 1 .. Queued : i # 1 => i - 1 \in 1 .. Queued - 1 /\ i = (i - 1) + 1
    BY <1>1
  <2> QED BY <1>1, <2>1
<1>3. Queue[1] \in Nat
  BY <1>2 DEF IInv, Types, Custody
<1> USE DEF Load, Goto, IInv
<1>4. Types'
  BY <1>1, <1>3 DEF Types, Threads, CookPCs, AttendeePCs
<1>5. MutexInv' /\ HandInv'
  BY <1>1, <1>3 DEF Types, Threads, MutexInv, HandInv, At
<1>6. RingInv'
  <2>1. Cardinality(Emptied') = Cardinality(Emptied) + 1
    BY <1>1, GroupsFinite, FS_AddElement
  <2>2. /\ empty + Cardinality(Room) + Queued + Cardinality(Emptied) = Cap
        /\ empty' = empty /\ empty \in Nat /\ tail' = tail
    BY DEF Types, RingInv
  <2>3. empty' + Cardinality(Room') + Queued' + Cardinality(Emptied') = Cap
    BY <1>1, <2>1, <2>2, GroupsFinite
  <2> QED BY <1>1, <2>2, <2>3 DEF RingInv
<1>7. Custody'
  <2>1. /\ a \in Threads /\ hand \in [Threads -> Nat \cup {NoTray}]
        /\ hand' = [hand EXCEPT ![a] = hand'[a]]
        /\ hand[a] = NoTray /\ hand'[a] \in Nat /\ heap' = heap
    BY <1>1, <1>3 DEF Types, HandInv, Threads
  <2>2. /\ Holders' = Holders \cup {a} /\ a \notin Holders
        /\ \A t \in Holders : hand'[t] = hand[t]
    BY <2>1 DEF Holders
  <2> DEFINE InHand == {hand[t] : t \in Holders}
             InQueue == {Queue[i] : i \in 1..Queued}
  <2>3. InHand' = InHand \cup {Queue[1]}
    BY <1>1, <2>2
  <2>4. InQueue' = InQueue \ {Queue[1]} /\ Queue[1] \in InQueue
    <3>1. \A x : x \in InQueue <=> \E i \in 1..Queued : x = Queue[i]
      OBVIOUS
    <3>2. \A x : x \in InQueue' <=> \E i \in 1 .. Queued - 1 : x = Queue[i + 1]
      <4>1. \A x : x \in InQueue' <=> \E i \in 1 .. Queued' : x = Queue'[i]
        OBVIOUS
      <4>2. 1 .. Queued' = 1 .. Queued - 1
        BY <1>2
      <4>3. \A i \in 1 .. Queued - 1 : Queue'[i] = Queue[i + 1]
        BY <1>2
      <4> HIDE DEF InQueue
      <4>4. \A x : x \in InQueue' <=> \E i \in 1 .. Queued - 1 : x = Queue'[i]
        BY <4>1, <4>2
      <4> QED BY <4>3, <4>4
    <3>3. \A i, j \in 1..Queued : Queue[i] = Queue[j] => i = j
      BY DEF Custody
    <3> HIDE DEF InQueue
    <3>4. ASSUME NEW x \in InQueue'
          PROVE  x \in InQueue /\ x # Queue[1]
      <4>1. PICK i \in 1 .. Queued - 1 : x = Queue[i + 1]
        BY <3>2, <3>4
      <4>2. i + 1 \in 1..Queued /\ i + 1 # 1
        BY <1>2
      <4> QED BY <1>2, <3>1, <3>3, <4>1, <4>2
    <3>5. ASSUME NEW x \in InQueue, x # Queue[1]
          PROVE  x \in InQueue'
      <4>1. PICK i \in 1 .. Queued : x = Queue[i]
        BY <3>1, <3>5
      <4>2. PICK j \in 1 .. Queued - 1 : i = j + 1
        BY <1>2, <3>5, <4>1
      <4> QED BY <3>2, <4>1, <4>2
    <3>6. Queue[1] \in InQueue
      BY <1>2, <3>1
    <3> QED BY <3>4, <3>5, <3>6
  <2>5. heap' = InHand' \cup InQueue'
    BY <2>1, <2>3, <2>4 DEF Custody
  <2>6. \A t, u \in Holders' : hand'[t] = hand'[u] => t = u
    BY <1>1, <1>2, <2>2 DEF Custody
  <2>7. \A i, j \in 1..Queued' : Queue'[i] = Queue'[j] => i = j
    <3>1. \A i, j \in 1..Queued : Queue[i] = Queue[j] => i = j
      BY DEF Custody
    <3>2. ASSUME NEW i \in 1 .. Queued - 1, NEW j \in 1 .. Queued - 1,
                 Queue'[i] = Queue'[j]
          PROVE  i = j
      <4>1. Queue[i + 1] = Queue[j + 1]
        BY <1>2, <3>2
      <4>2. i + 1 \in 1..Queued /\ j + 1 \in 1..Queued
        BY <1>2
      <4> QED BY <1>2, <3>1, <4>1, <4>2
    <3> QED BY <1>2, <3>2
  <2>8. \A t \in Holders' : \A i \in 1..Queued' : hand'[t] # Queue'[i]
    BY <1>1, <1>2, <2>2 DEF Custody
  <2> QED BY <2>5, <2>6, <2>7, <2>8 DEF Custody
<1> QED BY <1>4, <1>5, <1>6, <1>7

\* An attendee that posts empty keeps the invariant.
LEMMA PostEmptyStep ==
  ASSUME IInv, NEW a \in Attendees, PostEmpty(a)
  PROVE  IInv'
<1> USE DEF PostEmpty, Goto, ringVars, IInv
<1>1. /\ Emptied' = Emptied \ {a} /\ a \in Emptied
      /\ UNCHANGED <<Room, Stored, Promised>>
  BY DEF Types, Threads, Room, Stored, Promised, Emptied, At
<1>2. UNCHANGED <<Queued, Queue>>
  BY <1>1, QueuedDef, QuietQueue
<1>3. RingInv'
  <2>1. Cardinality(Emptied') = Cardinality(Emptied) - 1
    BY <1>1, GroupsFinite, FS_RemoveElement
  <2>2. Queued \in Nat
    BY QueuedBound
  <2> QED BY <1>1, <1>2, <2>1, <2>2, GroupsFinite DEF Types, RingInv
<1>4. Types' /\ HandInv'
  BY DEF Types, Threads, CookPCs, AttendeePCs, HandInv
<1>5. MutexInv' /\ Custody'
  BY <1>2, QuietCustody DEF Types, Threads, MutexInv, At
<1> QED BY <1>3, <1>4, <1>5

\* An attendee that frees its tray keeps the invariant.
LEMMA FreeTrayStep ==
  ASSUME IInv, NEW a \in Attendees, FreeTray(a)
  PROVE  IInv'
<1> USE DEF FreeTray, Goto, ringVars, IInv
<1>1. UNCHANGED Groups
  BY DEF Types, Threads, Groups, Room, Stored, Promised, Emptied, At
<1>2. UNCHANGED <<Queued, Queue>>
  BY <1>1, QueuedDef, QuietQueue DEF Groups
<1>3. Types' /\ HandInv'
  <2>1. eaten[a] + 1 \in 0..SnacksPerAttendee
    BY DEF Types
  <2>2. Types'
    BY <2>1 DEF Types, Threads, CookPCs, AttendeePCs
  <2> QED BY <2>2 DEF Types, Threads, HandInv
<1>4. MutexInv' /\ RingInv'
  BY <1>1, <1>2 DEF Types, Threads, MutexInv, RingInv, Groups, At
<1>5. Custody'
  <2>1. a \in Holders /\ Holders' = Holders \ {a}
    BY DEF Types, HandInv, Holders, Threads
  <2>2. /\ \A t \in Holders' : hand'[t] = hand[t]
        /\ heap' = heap \ {hand[a]}
    BY <2>1 DEF Types, Holders, Threads
  <2> QED BY <1>2, <2>1, <2>2 DEF Custody
<1> QED BY <1>3, <1>4, <1>5

------------------------------------------------------------------------------
(* snacks_run's own steps, and a step that changes nothing.                *)

\* The end of snacks_run keeps the invariant.
LEMMA MainStep ==
  ASSUME IInv, BbDestroy \/ Return \/ UNCHANGED vars
  PROVE  IInv'
<1> USE DEF BbDestroy, Return, vars, ringVars, IInv
<1>1. UNCHANGED Groups
  BY DEF Groups, Room, Stored, Promised, Emptied, At
<1>2. UNCHANGED <<Queued, Queue>>
  BY <1>1, QueuedDef, QuietQueue DEF Groups
<1>3. Types' /\ MutexInv' /\ HandInv'
  BY DEF Types, MutexInv, HandInv, At
<1>4. RingInv' /\ Custody'
  BY <1>1, <1>2, QuietCustody DEF RingInv, Groups
<1> QED BY <1>3, <1>4

\* Every step of the kitchen keeps the invariant.
LEMMA NextIInv == IInv /\ [Next]_vars => IInv'
<1> SUFFICES ASSUME IInv, [Next]_vars PROVE IInv'
  OBVIOUS
<1>1. ASSUME NEW c \in Cooks, Cook(c) PROVE IInv'
  <2>1. CASE CreateTray(c)
    BY <2>1, CreateTrayStep
  <2>2. CASE WaitEmpty(c)
    BY <2>2, WaitEmptyStep
  <2>3. CASE PutLock(c)
    BY <2>3, LockStep DEF PutLock, Threads
  <2>4. CASE Store(c)
    BY <2>4, StoreStep
  <2>5. CASE PostFull(c)
    BY <2>5, PostFullStep
  <2>6. CASE UseDestroyed(c)
    BY <2>6, UseDestroyedStep
  <2> QED BY <1>1, <2>1, <2>2, <2>3, <2>4, <2>5, <2>6 DEF Cook
<1>2. ASSUME NEW a \in Attendees, Attendee(a) PROVE IInv'
  <2>1. CASE WaitFull(a)
    BY <2>1, WaitFullStep
  <2>2. CASE TakeLock(a)
    BY <2>2, LockStep DEF TakeLock, Threads
  <2>3. CASE Load(a)
    BY <2>3, LoadStep
  <2>4. CASE PostEmpty(a)
    BY <2>4, PostEmptyStep
  <2>5. CASE FreeTray(a)
    BY <2>5, FreeTrayStep
  <2> QED BY <1>2, <2>1, <2>2, <2>3, <2>4, <2>5 DEF Attendee
<1> QED BY <1>1, <1>2, MainStep DEF Next, Returned

(* The inductive invariant holds in every reachable state.                 *)
THEOREM Inductive == Spec => []IInv
BY InitIInv, NextIInv, PTL DEF Spec

------------------------------------------------------------------------------
(* The type invariant: in particular the semaphores never exceed Cap.      *)
THEOREM TypeCorrectness == Spec => []TypeOK
<1>1. IInv => TypeOK
  <2> SUFFICES ASSUME IInv PROVE TypeOK
    OBVIOUS
  <2>1. empty \in 0..Cap /\ full \in 0..Cap
    BY QueuedBound, QueuedDef, GroupsFinite DEF IInv, Types, RingInv
  <2> QED BY <2>1 DEF IInv, Types, TypeOK
<1> QED BY <1>1, Inductive, PTL

\* Disjoint finite sets have as many elements as both together.
LEMMA Disjoint ==
  ASSUME NEW S, NEW T, IsFiniteSet(S), IsFiniteSet(T), S \cap T = {}
  PROVE  Cardinality(S \cup T) = Cardinality(S) + Cardinality(T)
<1>1. Cardinality(S \cup T) = Cardinality(S) + Cardinality(T) - Cardinality({})
  BY FS_Union
<1>2. Cardinality({}) = 0 /\ Cardinality(S) \in Nat /\ Cardinality(T) \in Nat
  BY FS_EmptySet, FS_CardinalityType
<1> QED BY <1>1, <1>2

(* No permit of either semaphore is lost or made twice.                    *)
THEOREM PermitsConservedHolds == Spec => []PermitsConserved
<1>1. IInv => PermitsConserved
  <2> SUFFICES ASSUME IInv PROVE PermitsConserved
    OBVIOUS
  <2>1. /\ At(Cooks, {"plock", "store", "pfull"}) = Room \cup Stored
        /\ Room \cap Stored = {}
        /\ At(Attendees, {"tlock", "load", "tempty"}) = Promised \cup Emptied
        /\ Promised \cap Emptied = {}
    BY DEF At, Room, Stored, Promised, Emptied
  <2>2. Cardinality(Room \cup Stored) = Cardinality(Room) + Cardinality(Stored)
    BY <2>1, GroupsFinite, Disjoint
  <2>3. Cardinality(Promised \cup Emptied)
          = Cardinality(Promised) + Cardinality(Emptied)
    BY <2>1, GroupsFinite, Disjoint
  <2>4. /\ empty + Cardinality(Room) + Queued + Cardinality(Emptied) = Cap
        /\ Queued = full + Cardinality(Stored) + Cardinality(Promised)
        /\ empty \in Nat /\ full \in Nat
    BY QueuedDef DEF IInv, Types, RingInv
  <2>5. empty + full + (Cardinality(Room) + Cardinality(Stored))
          + (Cardinality(Promised) + Cardinality(Emptied)) = Cap
    BY <2>4, GroupsFinite
  <2> QED BY <2>1, <2>2, <2>3, <2>5 DEF PermitsConserved
<1> QED BY <1>1, Inductive, PTL

(* Every tray in memory has exactly one owner: one cook, one place in the  *)
(* queue, or one attendee.                                                 *)
THEOREM CustodyHolds == Spec => []Custody
<1>1. IInv => Custody
  BY DEF IInv
<1> QED BY <1>1, Inductive, PTL

------------------------------------------------------------------------------
(* Refinement: a Store appends, a Load takes the head, a FreeTray frees;   *)
(* the steps on the semaphores and on the mutex change nothing that is     *)
(* promised.                                                               *)

SupplyVars == <<tray_counter, [c \in Cooks |-> hand[c]], Queue,
                [a \in Attendees |-> hand[a]], (0 .. tray_counter - 1) \ heap>>

(* The queue is a sequence, of the length its name says.                   *)
LEMMA QueueIsSeq ==
  ASSUME IInv
  PROVE  /\ Queue \in Seq(Nat)
         /\ Len(Queue) = Queued
         /\ Queued \in 0..Cap
<1>1. Queued \in 0..Cap
  BY QueuedBound DEF IInv
<1>2. \A i \in 1..Queued : Queue[i] \in Nat
  BY DEF IInv, Types, Custody
<1>3. DOMAIN Queue = 1..Queued /\ Queue = [i \in 1..Queued |-> Queue[i]]
  BY DEF Queue
<1>4. Queue \in [1..Queued -> Nat]
  BY <1>2, <1>3
<1>5. Queue \in Seq(Nat)
  BY <1>1, <1>4, SeqDef
<1> QED BY <1>1, <1>3, <1>5, LenProperties

\* Storing at the tail puts the tray last in the supply.
LEMMA StoreSupply ==
  ASSUME IInv, NEW c \in Cooks, Store(c)
  PROVE  Supply!Put(c)
<1>1. /\ Queued' = Queued + 1
      /\ Queued \in 0 .. Cap - 1
      /\ Queue' = [i \in 1 .. Queued + 1 |->
                      IF i <= Queued THEN Queue[i] ELSE hand[c]]
  BY StoreQueue
<1>2. /\ hand[c] # NoTray /\ hand[c] \in Nat
      /\ hand' = [hand EXCEPT ![c] = NoTray]
      /\ hand \in [Threads -> Nat \cup {NoTray}]
      /\ UNCHANGED <<tray_counter, heap>>
  BY DEF IInv, Types, HandInv, Store, Threads
<1>3. Queue' = Append(Queue, hand[c])
  <2>1. /\ Queue \in Seq(Nat) /\ Len(Queue) = Queued
        /\ Queued + 1 \in Nat /\ DOMAIN Queue' = 1 .. Queued + 1
    BY <1>1, QueueIsSeq
  <2>2. /\ Append(Queue, hand[c]) \in Seq(Nat)
        /\ Len(Append(Queue, hand[c])) = Queued + 1
        /\ \A i \in 1..Queued + 1 :
              Append(Queue, hand[c])[i] = IF i <= Queued THEN Queue[i] ELSE hand[c]
    BY <1>1, <1>2, <2>1
  <2>3. \A i \in 1..Queued + 1 :
          Queue'[i] = IF i <= Queued THEN Queue[i] ELSE hand[c]
    BY <1>1
  <2>4. \A i \in 1..Queued : Queue[i] \in Nat
    BY <2>1, ElementOfSeq
  <2>5. Queue' \in [1 .. Queued + 1 -> Nat]
    BY <1>1, <1>2, <2>4
  <2>6. Queue' \in Seq(Nat) /\ Len(Queue') = Queued + 1
    BY <2>1, <2>5, SeqDef
  <2> QED BY <2>2, <2>3, <2>6, SeqEqual
<1>4. UNCHANGED [a \in Attendees |-> hand[a]]
  BY <1>2 DEF Threads
<1>5. [d \in Cooks |-> hand[d]]' = [[d \in Cooks |-> hand[d]] EXCEPT ![c] = NoTray]
  BY <1>2 DEF Threads
<1> QED BY <1>1, <1>2, <1>3, <1>4, <1>5, QueueIsSeq DEF Supply!Put

\* Loading at the head takes the first tray of the supply.
LEMMA LoadSupply ==
  ASSUME IInv, NEW a \in Attendees, Load(a)
  PROVE  Supply!Take(a)
<1>1. /\ Queued \in 1 .. Cap
      /\ Queued' = Queued - 1
      /\ hand'[a] = Queue[1]
      /\ Queue' = [i \in 1 .. Queued - 1 |-> Queue[i + 1]]
  BY LoadQueue
<1>2. /\ hand[a] = NoTray
      /\ hand' = [hand EXCEPT ![a] = Queue[1]]
      /\ hand \in [Threads -> Nat \cup {NoTray}]
      /\ UNCHANGED <<tray_counter, heap>>
  BY <1>1 DEF IInv, Types, HandInv, Load, Threads
<1>3. /\ Queue \in Seq(Nat) /\ Len(Queue) = Queued
      /\ Queue' \in Seq(Nat) /\ Len(Queue') = Queued - 1
  BY <1>1, QueueIsSeq
<1>4. Queue # <<>> /\ Head(Queue) = Queue[1]
  BY <1>1, <1>3
<1>5. Queue' = Tail(Queue)
  <2>1. /\ Tail(Queue) \in Seq(Nat)
        /\ Len(Tail(Queue)) = Queued - 1
        /\ \A i \in 1 .. Queued - 1 : Tail(Queue)[i] = Queue[i + 1]
    BY <1>1, <1>3, <1>4, HeadTailProperties
  <2> QED BY <1>1, <1>3, <2>1, SeqEqual
<1>6. UNCHANGED [c \in Cooks |-> hand[c]]
  BY <1>2 DEF Threads
<1>7. [d \in Attendees |-> hand[d]]'
        = [[d \in Attendees |-> hand[d]] EXCEPT ![a] = Head(Queue)]
  BY <1>2, <1>4 DEF Threads
<1> QED BY <1>2, <1>4, <1>5, <1>6, <1>7 DEF Supply!Take

\* What a cook allocates is a new tray of the supply.
LEMMA CreateSupply ==
  ASSUME IInv, NEW c \in Cooks, CreateTray(c)
  PROVE  Supply!Make(c)
<1>1. UNCHANGED Queue
  <2>1. UNCHANGED Groups
    BY DEF IInv, CreateTray, Goto, Types, Threads, Groups, Room, Stored,
           Promised, Emptied, At
  <2> QED BY <2>1, QueuedDef, QuietQueue DEF Groups, CreateTray, ringVars
<1>2. /\ hand[c] = NoTray
      /\ hand' = [hand EXCEPT ![c] = tray_counter]
      /\ hand \in [Threads -> Nat \cup {NoTray}]
      /\ tray_counter \in Nat /\ tray_counter' = tray_counter + 1
      /\ heap' = heap \cup {tray_counter}
  BY DEF IInv, Types, HandInv, CreateTray, Threads
<1>3. UNCHANGED ((0 .. tray_counter - 1) \ heap)
  BY <1>2
<1>4. UNCHANGED [a \in Attendees |-> hand[a]]
  BY <1>2 DEF Threads
<1>5. [d \in Cooks |-> hand[d]]'
        = [[d \in Cooks |-> hand[d]] EXCEPT ![c] = tray_counter]
  BY <1>2 DEF Threads
<1> QED BY <1>1, <1>2, <1>3, <1>4, <1>5 DEF Supply!Make

\* What an attendee frees leaves the supply.
LEMMA FreeSupply ==
  ASSUME IInv, NEW a \in Attendees, FreeTray(a)
  PROVE  Supply!Free(a)
<1>1. UNCHANGED Queue
  <2>1. UNCHANGED Groups
    BY DEF IInv, FreeTray, Goto, Types, Threads, Groups, Room, Stored,
           Promised, Emptied, At
  <2> QED BY <2>1, QueuedDef, QuietQueue DEF Groups, FreeTray, ringVars
<1>2. /\ hand[a] # NoTray /\ a \in Threads
      /\ hand' = [hand EXCEPT ![a] = NoTray]
      /\ hand \in [Threads -> Nat \cup {NoTray}]
      /\ tray_counter' = tray_counter
      /\ heap' = heap \ {hand[a]}
      /\ heap \subseteq 0 .. tray_counter - 1
  BY DEF IInv, Types, HandInv, FreeTray, Threads
<1>3. hand[a] \in heap
  BY <1>2 DEF IInv, Custody, Holders
<1>4. ((0 .. tray_counter - 1) \ heap)'
        = ((0 .. tray_counter - 1) \ heap) \cup {hand[a]}
  BY <1>2, <1>3
<1>5. UNCHANGED [c \in Cooks |-> hand[c]]
  BY <1>2 DEF Threads
<1>6. [d \in Attendees |-> hand[d]]'
        = [[d \in Attendees |-> hand[d]] EXCEPT ![a] = NoTray]
  BY <1>2 DEF Threads
<1> QED BY <1>1, <1>2, <1>3, <1>4, <1>5, <1>6 DEF Supply!Free

(* The steps on the semaphores, on the mutex and of the main thread.       *)
LEMMA QuietSupply ==
  ASSUME IInv,
         \/ \E c \in Cooks : WaitEmpty(c) \/ PutLock(c) \/ PostFull(c) \/ UseDestroyed(c)
         \/ \E a \in Attendees : WaitFull(a) \/ TakeLock(a) \/ PostEmpty(a)
         \/ BbDestroy \/ Return \/ UNCHANGED vars
  PROVE  UNCHANGED SupplyVars
<1> USE DEF IInv, Goto, ringVars
<1>1. UNCHANGED <<buf, head, hand, heap, tray_counter>>
  BY DEF WaitEmpty, PutLock, TakeLock, LockM, PostFull, UseDestroyed, WaitFull,
         PostEmpty, BbDestroy, Return, vars
<1>2. UNCHANGED Queued
  <2>1. ASSUME NEW c \in Cooks, PostFull(c) PROVE UNCHANGED Queued
    <3>1. Stored' = Stored \ {c} /\ c \in Stored /\ Promised' = Promised
      BY <2>1 DEF PostFull, Types, Threads, Stored, Promised, At
    <3>2. Cardinality(Stored') = Cardinality(Stored) - 1
      BY <3>1, GroupsFinite, FS_RemoveElement
    <3> QED BY <2>1, <3>1, <3>2, QueuedDef, GroupsFinite DEF PostFull, Types
  <2>2. ASSUME NEW a \in Attendees, WaitFull(a) PROVE UNCHANGED Queued
    <3>1. Promised' = Promised \cup {a} /\ a \notin Promised /\ Stored' = Stored
      BY <2>2 DEF WaitFull, Types, Threads, Stored, Promised, At
    <3>2. Cardinality(Promised') = Cardinality(Promised) + 1
      BY <3>1, GroupsFinite, FS_AddElement
    <3> QED BY <2>2, <3>1, <3>2, QueuedDef, GroupsFinite DEF WaitFull, Types
  <2>3. CASE \/ \E c \in Cooks : WaitEmpty(c) \/ PutLock(c) \/ UseDestroyed(c)
             \/ \E a \in Attendees : TakeLock(a) \/ PostEmpty(a)
             \/ BbDestroy \/ Return \/ UNCHANGED vars
    <3>1. UNCHANGED <<Stored, Promised, full>>
      BY <2>3 DEF WaitEmpty, PutLock, TakeLock, LockM, UseDestroyed, PostEmpty,
                  BbDestroy, Return, vars, Types, Threads, Stored, Promised, At
    <3> QED BY <3>1, QueuedDef
  <2> QED BY <2>1, <2>2, <2>3
<1> QED BY <1>1, <1>2, QuietQueue DEF SupplyVars

(* The ring implements the supply for any number of cooks and attendees    *)
(* and any capacity: first in, first out, never more than Cap trays.       *)
THEOREM ImplementsSupplyHolds == Spec => ImplementsSupply
<1>1. Init => Supply!Init
  <2> SUFFICES ASSUME Init PROVE Supply!Init
    OBVIOUS
  <2>1. IInv
    BY InitIInv
  <2>2. Queued = 0
    <3>1. Stored = {} /\ Promised = {}
      BY DEF Init, Threads, Stored, Promised, At
    <3> QED BY <3>1, QueuedDef, FS_EmptySet DEF Init
  <2>3. Queue = <<>>
    BY <2>1, <2>2, QueueIsSeq, EmptySeq
  <2> QED BY <2>3 DEF Init, Supply!Init, Threads
<1>2. IInv /\ [Next]_vars => [Supply!Next]_SupplyVars
  <2> SUFFICES ASSUME IInv, [Next]_vars
               PROVE  Supply!Next \/ UNCHANGED SupplyVars
    OBVIOUS
  <2>1. ASSUME NEW c \in Cooks, Cook(c)
        PROVE  Supply!Next \/ UNCHANGED SupplyVars
    BY <2>1, CreateSupply, StoreSupply, QuietSupply DEF Cook, Supply!Next
  <2>2. ASSUME NEW a \in Attendees, Attendee(a)
        PROVE  Supply!Next \/ UNCHANGED SupplyVars
    BY <2>2, LoadSupply, FreeSupply, QuietSupply DEF Attendee, Supply!Next
  <2> QED BY <2>1, <2>2, QuietSupply DEF Next, Returned
<1>3. [Supply!Next]_SupplyVars => [Supply!Next]_(Supply!supplyVars)
  BY DEF SupplyVars, Supply!supplyVars
<1> QED
  BY <1>1, <1>2, <1>3, Inductive, PTL DEF Spec, ImplementsSupply, Supply!Spec
==============================================================================
