SPECIFICATION CommitSpec
CONSTANTS
    Authority <- Authorities
    stake <- Stakes
    MaxStake = 1
    Replica = 0
    Faulty = {3}
    Dags <- MCDags
    elected <- Elected
    FirstAuthority = 0
    NumberOfLeaders = 2
    Pipeline = TRUE
    Processes = {4, 10}
    RoundFactor = 3
    AuthorFactor = 5
    KeySpace = 16
    MaxRestarts = 1
CHECK_DEADLOCK FALSE
INVARIANTS
    Agreement
    OneCertified
    NoneTwice
    HistoryFirst
