CONSTANTS
    Digest <- MalformedDigest
    header <- Malformed
    Peer = {1, 2}
    Holds <- OneHolder
    SentHeaders = {31, 99}
    SentCertificates = {21}
    RetryNodes = 1
    GCDepth = 1
    Capacity = 1
    LastCommit = 2
    MaxReceived = 2
SPECIFICATION FairSpec
CHECK_DEADLOCK FALSE
INVARIANTS
    LostWithEarlier
    RequestsBelong
    PendingIsWaiting
PROPERTIES
    HeaderResumes
