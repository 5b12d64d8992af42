SPECIFICATION Spec
CONSTANTS
    None = None
    Unreadable = Unreadable
    Check = {"order", "evidence"}
    Setups <- MCSetups
    Repetitions = 2
    Streams <- MCStreams
    Usual <- MCUsual
    Restarts = {{}, {2}, {1, 3}, {4}}
    MaxFaults <- MCMaxFaults
    Target <- MCTarget
    Percent = 95
    Grain = 1
INVARIANTS TypeOK StableMeansUnchanged CacheStateHonoured EvidenceReplays
PROPERTY RunEnds
CHECK_DEADLOCK FALSE
