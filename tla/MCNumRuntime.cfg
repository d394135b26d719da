CONSTANTS
    StackSize = 2
    MemCells = 7
    NumVars = 1
    StaticTop = 4
    Functions = {0, 1}
    FrameCells <- MCFrameCells
    Statics <- MCStatics
    Locals <- MCLocals
    Numbers <- MCNumbers
    Truncations <- MCTruncations
    TargetCells = {2}
    Leftovers = {3}
    MaxIndex = 1
    MaxCalls = 2
    MaxPending = 2
SPECIFICATION Spec
CONSTRAINT Light
INVARIANTS TypeOK FramesTile NullCellUntouched PendingAtHome
PROPERTIES CallerFramesPrivate ImplementsActivations StructCopied
CHECK_DEADLOCK FALSE
