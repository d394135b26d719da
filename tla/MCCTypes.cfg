CONSTANTS
    Tags = {"A", "U"}
    UnionTags = {"U"}
    Scalars = {"char"}
    Size <- MCSize
    PtrBytes = 8
    Counts = {0, 2}
    MaxFields = 2
    MaxObjects = 1
    MaxOpen = 2
    MaxDeclared = 3
SPECIFICATION Spec
CONSTRAINT Declarations
INVARIANTS TypeOK LayoutSound NoSelfContainment
PROPERTIES DefinitionsPermanent
CHECK_DEADLOCK FALSE
