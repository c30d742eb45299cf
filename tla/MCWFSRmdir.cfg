CONSTANTS
  NumInodes = 4
  NumBlocks = 4
  NDirect = 1
  DPB = 1
  PPB = 1
  Names = {a, b}
  LongNames = {l}
  NoName = NoName
  MaxDepth = 2
  MaxWrite = 1
  MaxCrashes = 0
  KernelChecks = TRUE
SPECIFICATION Spec
INVARIANT RmdirFreesBlocks
