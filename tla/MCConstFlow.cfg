CONSTANTS
    BaseTypes <- MCBaseTypes
    Structs <- MCStructs
    Members <- MCMembers
    MemberType <- MCMemberType
    Nested <- MCNested
    Objects <- MCObjects
    Roots <- MCRoots
    DeclaredType <- MCDeclaredType
    Field <- MCField
    Elements <- MCElements
    Leaves <- MCLeaves
    Twin <- MCTwin
    Numbers <- MCNumbers
    Functions <- MCFunctions
    Zero <- MCZero
    Initial <- MCInitial
SPECIFICATION FlowSpec
INVARIANTS PointersTyped ConstKept
CHECK_DEADLOCK FALSE
