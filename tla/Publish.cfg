SPECIFICATION FairSpec
CONSTANTS
    Publisher = {p1, p2}
    Local = {c1, c2}
    Begin = {{c1}}
    Upstream = {u1}
    None = None
    MaxPulls = 3
    MaxFaults = 1
    MaxMeddling = 2
INVARIANTS
    TypeOK
    PublishedIsVerified
PROPERTIES
    MergesItsCommit
    Reconciles
CHECK_DEADLOCK FALSE
