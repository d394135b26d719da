CONSTANTS
    StackSize = 3
    ArrCount = 2
    Numbers <- MCNumbers
    Truncations <- MCTruncations
    Blocks = {b1, b2, b3}
SPECIFICATION HeapSpec
INVARIANTS TypeOK HeapSound
PROPERTIES ImplementsArrays
CHECK_DEADLOCK FALSE
