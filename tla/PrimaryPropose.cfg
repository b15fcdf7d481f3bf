CONSTANTS
    Authority = {1, 2, 3}
    stake <- SoloStake
    MaxStake = 2
    Faulty = {2, 3}
    Digest <- ProposeDigest
    header <- ProposeHeader
    Batch = {"b"}
    GenesisSent = {"g1", "g3"}
    GCDepth = 1
    CommitLag = 0
    NoHeader = NoHeader
SPECIFICATION Spec
INVARIANTS
    TypeOK
    VoteOnce
    CausalDelivery
    VotedAvailable
    OneHeaderPerRound
    ProposedValid
    AssembledOnce
