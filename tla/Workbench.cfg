SPECIFICATION FairSpec
CONSTANTS
    Client = {a, b}
    Demo = demo
    Model = {m1, m2}
    None = None
    MaxRequests = 2
INVARIANTS
    TypeOK
    ReportIsCurrent
    DecisionIsForPlan
    OffersValidComparison
PROPERTY
    BenchmarkComesBack
