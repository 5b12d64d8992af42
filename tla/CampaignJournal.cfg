\* Does campaign.json mark restoration only after readiness?
SPECIFICATION Spec
CONSTANTS
    Runner = {r1}
    Source = {s1}
    TheSource = s1
    SourceOf <- MCSourceOf
    None = None
    Foreign = Foreign
    Torn = Torn
    SameSecond = FALSE
    Alone = r1
    FaultsAlone = 1
    SignalsAlone = 0
    ResultsAlone = 0
    FaultsTogether = 0
    SignalsTogether = 0
    MaxFaults <- MCMaxFaults
    MaxSignals <- MCMaxSignals
    MaxResults <- MCMaxResults
INVARIANT
    RestoredOnlyAfterReady
CHECK_DEADLOCK FALSE
