---------------------------- MODULE ScheduleBoard ----------------------------
(***************************************************************************)
(* What the schedule board of the conference simulation promises, without  *)
(* a word on how it is done: attendees read together, one organizer        *)
(* publishes alone, and an organizer that has announced itself is served   *)
(* before any attendee that has not been let in yet (the writer priority   *)
(* of P5 README.md).  RWLock implements this module.                       *)
(***************************************************************************)
EXTENDS Naturals

CONSTANTS
  Readers,    \* the attendees
  Writers     \* the organizers

VARIABLES
  waiting,    \* organizers that announced themselves and are not served yet
  reading,    \* attendees that may look at the board
  writing,    \* organizers that may change the board
  published,  \* those of them that have changed it since they were let in
  version     \* the version of the schedule on the board

boardVars == <<waiting, reading, writing, published, version>>

Init ==
  /\ waiting = {}
  /\ reading = {}
  /\ writing = {}
  /\ published = {}
  /\ version = 0

Announce(w) ==
  /\ w \notin waiting \cup writing
  /\ waiting' = waiting \cup {w}
  /\ UNCHANGED <<reading, writing, published, version>>

StartWrite(w) ==
  /\ w \in waiting
  /\ reading = {}
  /\ writing = {}
  /\ waiting' = waiting \ {w}
  /\ writing' = {w}
  /\ UNCHANGED <<reading, published, version>>

Publish(w) ==
  /\ w \in writing \ published
  /\ published' = published \cup {w}
  /\ version' = version + 1
  /\ UNCHANGED <<waiting, reading, writing>>

FinishWrite(w) ==
  /\ w \in writing \cap published
  /\ writing' = writing \ {w}
  /\ published' = published \ {w}
  /\ UNCHANGED <<waiting, reading, version>>

StartRead(r) ==
  /\ r \notin reading
  /\ waiting = {}
  /\ writing = {}
  /\ reading' = reading \cup {r}
  /\ UNCHANGED <<waiting, writing, published, version>>

FinishRead(r) ==
  /\ r \in reading
  /\ reading' = reading \ {r}
  /\ UNCHANGED <<waiting, writing, published, version>>

Next ==
  \/ \E w \in Writers :
        Announce(w) \/ StartWrite(w) \/ Publish(w) \/ FinishWrite(w)
  \/ \E r \in Readers : StartRead(r) \/ FinishRead(r)

Spec == Init /\ [][Next]_boardVars
==============================================================================
