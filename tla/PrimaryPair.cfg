CONSTANTS
    Authority = {1, 2}
    stake <- PairStake
    MaxStake = 1
    Faulty = {}
    Digest <- PairDigest
    header <- PairHeader
    Batch = {}
    GenesisSent = {}
    GCDepth = 0
    CommitLag = 3
    NoHeader = NoHeader
SPECIFICATION FairSpec
INVARIANTS
    CertificateHasVotes
PROPERTIES
    RoundAdvances
    ImplementsCertifiedDag
