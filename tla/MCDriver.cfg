CONSTANTS
    Jobs = {j1, j2}
    CommandLines <- MCCommandLines
    Names = {"d1", "d2", "d3"}
    Strangers = {"d3"}
    Results = {0, 1}
    Signals = {2}
    MaxTries = 2
SPECIFICATION Spec
INVARIANTS TypeOK NothingLeft OwnProgram ZeroMeansDone OutputKept
PROPERTIES Ends
CHECK_DEADLOCK FALSE
