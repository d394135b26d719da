CONSTANTS
    Names = {"x", "y"}
    Cells = {1, 2}
    Functions = {0}
    NumVars = 1
    MemCells = 10
    MaxOps = 2
    MaxScopes = 2
    MaxObjects = 3
    MaxUses = 1
SPECIFICATION Spec
CONSTRAINT Small
INVARIANTS TypeOK ObjectsApart UsesHaveStorage DeclaredBefore InitialisedFirst LayoutContract
CHECK_DEADLOCK FALSE
