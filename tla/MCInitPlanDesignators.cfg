CONSTANTS
    Types <- MCTypes
    Objects <- MCObjects
    Lists <- MCLists
    Designators <- MCDesignators
    MaxItems = 2
SPECIFICATION Spec
INVARIANTS DesignatorsFollowC
CHECK_DEADLOCK FALSE
