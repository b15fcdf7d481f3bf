CONSTANTS
    Authority = {1, 2, 3, 4}
    stake <- MCStake
    MaxStake = 1
    Replica = {1, 2}
    Digest <- ForkDigest
    certificate <- ForkCertificate
    keys <- MCKeys
    GCDepth = 2
    Again = {}
SPECIFICATION Spec
INVARIANTS
    Agreement
CHECK_DEADLOCK FALSE
