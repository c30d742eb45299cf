CONSTANTS
  Cooks = {c1, c2}
  Attendees = {a1, a2, a3}
  Cap = 2
  SnacksPerAttendee = 1
  NoThread = NoThread
  NoTray = NoTray
SPECIFICATION FairSpec
INVARIANTS
  TypeOK
  PermitsConserved
  Custody
PROPERTIES
  ImplementsSupply
  AllServed
