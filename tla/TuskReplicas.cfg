CONSTANTS
    Authority = {1, 2, 3, 4}
    stake <- MCStake
    MaxStake = 1
    Replica = {r1, r2}
    Digest <- ForkDigest
    certificate <- ForkCertificate
    keys <- MCKeys
    GCDepth = 2
    Again = {3, 41}
SPECIFICATION Spec
CHECK_DEADLOCK FALSE
INVARIANTS
    TypeOK
    CommitOnce
    ParentsFirst
    WholeHistory
    OrderFollowsLeaders
    LeaderInHistory
SYMMETRY Symmetric
