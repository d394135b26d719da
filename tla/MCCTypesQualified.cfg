CONSTANTS
    Tags = {"A"}
    UnionTags = {}
    Scalars = {"char"}
    Size <- MCSize
    PtrBytes = 8
    Counts = {1, 2}
    MaxFields = 2
    MaxObjects = 1
    MaxOpen = 2
    MaxDeclared = 3
SPECIFICATION Spec
CONSTRAINT Declarations
INVARIANTS QualifiedCopiesShareIdentity
CHECK_DEADLOCK FALSE
