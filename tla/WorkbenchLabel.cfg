\* Is the report's label backed by evidence of the current contract?
SPECIFICATION Spec
CONSTANTS
    Client = {a, b}
    Demo = demo
    Model = {m1}
    None = None
    MaxRequests = 2
INVARIANT LabelMatchesEvidence
