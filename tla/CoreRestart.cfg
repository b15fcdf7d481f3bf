SPECIFICATION Spec
CONSTANTS
    Authority <- Authorities
    stake <- Stakes
    MaxStake = 2
    Self = 0
    includesOf <- Quorums
    leader <- Leaders
    Fsync = TRUE
    MachineCrash = TRUE
    EarlyCrash = FALSE
    MaxRound = 3
    MaxBatch = 3
    MaxPayloads = 2
    MaxCrashes = 1
CHECK_DEADLOCK FALSE
INVARIANTS
    NoEquivocation
    OwnBlockOnce
    PendingRecovered
    PayloadOnce
    OwnValid
