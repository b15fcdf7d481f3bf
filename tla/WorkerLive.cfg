CONSTANTS
    Authority = {1, 2, 3, 4}
    stake <- Equal
    MaxStake = 1
    BatchSize = 2
    Clients = {1}
    Silent = {4}
    MaxTransactions = 2
SPECIFICATION FairSpec
CHECK_DEADLOCK FALSE
INVARIANTS
    ReportedIsAvailable
    PayloadIsStored
PROPERTIES
    TransactionsBatched
