SPECIFICATION Spec
CONSTANTS
    Profile = {1, 2, 3}
    Condition = {"c1", "c2"}
    System = {"s1", "s2"}
    Check = {"structured", "order", "activity", "evidence", "allowed"}
    Required = {"order", "evidence"}
    Target <- MCTarget
    Percent = 50
    Grain = 2
    MinRepetitions = 2
    Inputs <- MCInputs
    Manifests <- MCManifests
    None = None
    Refused = Refused
INVARIANTS TypeOK DecisionIsOfTheSet RecommendedIsBorneOut
CHECK_DEADLOCK FALSE
