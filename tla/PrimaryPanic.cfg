CONSTANTS
    Authority = {1, 2}
    stake <- PeerStake
    MaxStake = 3
    Faulty = {}
    Digest <- PeerDigest
    header <- PeerHeader
    Batch = {}
    GenesisSent = {}
    GCDepth = 0
    CommitLag = 3
    NoHeader = NoHeader
SPECIFICATION Spec
INVARIANTS
    OwnVoteAccepted
