CONSTANTS
    Authority = {1, 2, 3, 4}
    stake <- TwinStake
    MaxStake = 1
    Faulty = {4}
    Digest <- TwinDigest
    header <- TwinHeader
    Batch = {}
    GenesisSent = {}
    GCDepth = 0
    CommitLag = 0
    NoHeader = NoHeader
SPECIFICATION Spec
INVARIANTS
    CertificateUnique
PROPERTIES
    ImplementsCertifiedDag
