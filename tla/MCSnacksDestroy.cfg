CONSTANTS
  Cooks = {c1, c2}
  Attendees = {a1}
  Cap = 2
  SnacksPerAttendee = 1
  NoThread = NoThread
  NoTray = NoTray
SPECIFICATION Spec
INVARIANT NoUseAfterDestroy
