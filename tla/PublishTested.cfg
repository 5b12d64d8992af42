SPECIFICATION Spec
CONSTANTS
    Publisher = {p1}
    Local = {c1, c2}
    Begin = {{c1}}
    Upstream = {u1}
    None = None
    MaxPulls = 1
    MaxFaults = 0
    MaxMeddling = 1
INVARIANT PublishedWasTested
CHECK_DEADLOCK FALSE
