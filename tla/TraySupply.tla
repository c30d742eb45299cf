----------------------------- MODULE TraySupply -----------------------------
(***************************************************************************)
(* What the snack kitchen promises: trays go from a cook's hand through a  *)
(* first-in first-out queue of bounded length into one attendee's hand,    *)
(* who frees them.  Snacks implements this module.                         *)
(***************************************************************************)
EXTENDS Naturals, Sequences

CONSTANTS
  Cooks, Attendees,
  Cap,          \* the capacity of the buffer
  NoTray        \* an empty hand

VARIABLES
  made,         \* trays made so far; tray n is the (n+1)-th
  cookHand,     \* the tray a cook is about to put
  queue,        \* the trays in the buffer, oldest first
  guestHand,    \* the tray an attendee has taken and not freed yet
  freed         \* the trays freed so far

supplyVars == <<made, cookHand, queue, guestHand, freed>>

Init ==
  /\ made = 0
  /\ cookHand = [c \in Cooks |-> NoTray]
  /\ queue = <<>>
  /\ guestHand = [a \in Attendees |-> NoTray]
  /\ freed = {}

Make(c) ==
  /\ cookHand[c] = NoTray
  /\ cookHand' = [cookHand EXCEPT ![c] = made]
  /\ made' = made + 1
  /\ UNCHANGED <<queue, guestHand, freed>>

Put(c) ==
  /\ cookHand[c] # NoTray
  /\ Len(queue) < Cap
  /\ queue' = Append(queue, cookHand[c])
  /\ cookHand' = [cookHand EXCEPT ![c] = NoTray]
  /\ UNCHANGED <<made, guestHand, freed>>

Take(a) ==
  /\ guestHand[a] = NoTray
  /\ queue # <<>>
  /\ guestHand' = [guestHand EXCEPT ![a] = Head(queue)]
  /\ queue' = Tail(queue)
  /\ UNCHANGED <<made, cookHand, freed>>

Free(a) ==
  /\ guestHand[a] # NoTray
  /\ guestHand[a] \notin freed
  /\ freed' = freed \cup {guestHand[a]}
  /\ guestHand' = [guestHand EXCEPT ![a] = NoTray]
  /\ UNCHANGED <<made, cookHand, queue>>

Next ==
  \/ \E c \in Cooks : Make(c) \/ Put(c)
  \/ \E a \in Attendees : Take(a) \/ Free(a)

Spec == Init /\ [][Next]_supplyVars
==============================================================================
