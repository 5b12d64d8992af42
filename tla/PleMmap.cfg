SPECIFICATION FairSpec
CONSTANTS
    Vocab = 5
    Parts = 2
    Chunk = 2
    FastRows = 1
    MinRows = 2
    MaxCalls = 2
    Inputs <- MCInputs
    Absent = Absent
    Bad = Bad
    Blank = Blank
    Zero = Zero
INVARIANTS TypeOK RowsAreOwn TasksDisjoint
PROPERTIES StagingQuiet CallsAreAnswered
CHECK_DEADLOCK FALSE
