CONSTANTS
    Structs <- MCStructs
    NodeTagTy = NodeTagTy
    OtherTy = OtherTy

SPECIFICATION Spec

INVARIANTS
    TypeOK
    SubtypeGraphFaithful
    IteratedChildrenVisited

PROPERTIES
    ImplementsNodeFamily
