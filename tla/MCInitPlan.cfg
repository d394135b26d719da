CONSTANTS
    Types <- MCTypes
    Objects <- MCObjects
    Lists <- MCLists
    Designators <- MCDesignators
    MaxItems = 3
SPECIFICATION Spec
INVARIANTS EveryValuePlaced PlanStaysInside
PROPERTIES PlanEnds
CHECK_DEADLOCK FALSE
