CONSTANTS
    Messages = 3
    Connections = 3
SPECIFICATION FairSpec
INVARIANTS
    TypeOK
    NothingLost
PROPERTIES
    ImplementsAtLeastOnce
CHECK_DEADLOCK FALSE
