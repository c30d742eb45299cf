SPECIFICATION Spec
CONSTANTS
    Scripts <- MCTwice
    Words <- MCWords
    Buckets = {1}
    Hash <- MCHash
    Parse <- MCParse
    Lookup <- MCLookup
    Number <- MCNumber
    Local <- MCLocal
    BadQuote <- MCBadQuote
    HistoryCap = 1
    Pids <- MCPids
    Root = 1
    Failures = 0
CHECK_DEADLOCK FALSE
INVARIANTS
    EachLineOnce
