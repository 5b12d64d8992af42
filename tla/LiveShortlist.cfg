SPECIFICATION Spec
CONSTANTS
    Client = {c1}
    None = None
    SampleLimit = 1
    JoinLimit = 2
    MaxSamples = 1
    Requests <- MCRequests
    Inventories <- MCInventories
    Usual <- MCUsual
    Results <- MCResults
    Protocols = {1, 2}
    Complete = 2
    Contracts <- MCContracts
    Intakes <- MCIntakes
    HardwareItems <- MCHardware
    ModelItems <- MCModels
    SingleUserRate <- MCRate
    WordsPerPage = 10
    TokensPerWord = 134
    Overhead = 8
    Shortest = 2
    Longest = 3
    Null = Null
    Percent = 50
    MaxFaults = 2
INVARIANT DiversityKeepsTier
CHECK_DEADLOCK FALSE
