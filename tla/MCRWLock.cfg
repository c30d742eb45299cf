CONSTANTS
  Readers = {r1, r2, r3}
  Writers = {w1, w2}
  ReaderRounds = 2
  WriterRounds = 1
  NoThread = NoThread
SPECIFICATION FairSpec
INVARIANTS
  TypeOK
  MutualExclusion
  NoDeadlock
  QuiescentAtDestroy
PROPERTIES
  ImplementsBoard
  AllJoined
