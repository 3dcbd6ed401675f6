\* Two directories with up to two entries each, the watcher dying up to twice.
SPECIFICATION FairSpec
CONSTANTS
    Dirs = {d1, d2}
    Entries = {e1, e2}
    NoDir = NoDir
    NoEntry = NoEntry
    MaxCrashes = 2
INVARIANTS
    CallsBounded
PROPERTIES
    ImplementsRequestQueue
    NoticedIsProcessed
CHECK_DEADLOCK FALSE
