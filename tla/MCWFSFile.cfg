SPECIFICATION Spec
CONSTANTS
  NumInodes = 3
  AskedBlocks = 3
  Word = 2
  BS = 2
  NDirect = 1
  PPB = 1
  DPB = 1
  Chars <- MCChars
  Names <- MCNames
  Esc = "e"
  Ansi <- MCAnsi
  Reset <- MCReset
  Paths <- MCPaths
  Data <- MCData
  Offs <- MCOffs
  Lens <- MCLens
INVARIANT TypeOK
INVARIANT ReadsTheFile
INVARIANT StatfsTrue
INVARIANT ListedResolve
PROPERTY ImplementsFilesButATime
CHECK_DEADLOCK FALSE
