\* One campaign against everything around it, and two given the same source.
SPECIFICATION FairSpec
CONSTANTS
    Runner = {r1, r2}
    Source = {s1}
    TheSource = s1
    SourceOf <- MCSourceOf
    None = None
    Foreign = Foreign
    Torn = Torn
    SameSecond = TRUE
    Alone = r1
    FaultsAlone = 2
    SignalsAlone = 1
    ResultsAlone = 2
    FaultsTogether = 1
    SignalsTogether = 0
    MaxFaults <- MCMaxFaults
    MaxSignals <- MCMaxSignals
    MaxResults <- MCMaxResults
INVARIANTS
    TypeOK
    JournalNamesVariant
    NeverBoth
    EvidenceIsOwn
    OneCampaignPerSource
PROPERTIES
    SourceComesBack
    LoanEnds
    LoanKept
CHECK_DEADLOCK FALSE
