CONSTANTS
  NumInodes = 3
  NumBlocks = 4
  NDirect = 1
  DPB = 1
  PPB = 1
  Names = {a, b}
  LongNames = {l}
  NoName = NoName
  MaxDepth = 2
  MaxWrite = 1
  MaxCrashes = 2
  KernelChecks = TRUE
SPECIFICATION Spec
INVARIANTS
  TypeOK
  InodesExclusive
  BlocksExclusive
  InodeDamage
PROPERTIES
  OnlyKillsAndRmdirStrand
  ImplementsNamespace
