\* Is the source restarted whenever the campaign gets SIGTERM?
SPECIFICATION Spec
CONSTANTS
    Runner = {r1}
    Source = {s1}
    TheSource = s1
    SourceOf <- MCSourceOf
    None = None
    Foreign = Foreign
    Torn = Torn
    SameSecond = FALSE
    Alone = r1
    FaultsAlone = 0
    SignalsAlone = 1
    ResultsAlone = 0
    FaultsTogether = 0
    SignalsTogether = 0
    MaxFaults <- MCMaxFaults
    MaxSignals <- MCMaxSignals
    MaxResults <- MCMaxResults
INVARIANT
    SigtermRestartsSource
CHECK_DEADLOCK FALSE
