CONSTANTS
    Node = {1, 2}
    name = 1
    Batch = {100}
    Header = {21, 22}
    header <- Headers
    Holds <- HoldersOnly
    Commands <- OneCommand
    RetryNodes = 1
    GCDepth = 0
    Lossy = TRUE
    LastCommit = 1
SPECIFICATION FairSpec
CHECK_DEADLOCK FALSE
INVARIANTS
    EntryHasFuture
    RequestsAreWaitedFor
PROPERTIES
    BatchFetched
