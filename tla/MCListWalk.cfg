\* Traversal of Lists of nodes and of IntLists.
CONSTANTS
    Nodes = {n1, n2}
    Ints <- MCInts
    NullPtr = NullPtr
    Shown = Shown
    UB = UB
    Unknown = Unknown
    NoDisplayArm = {}
    MaxLen = 3
    Cases <- MCCases

SPECIFICATION Spec

INVARIANT
    TypeOK

PROPERTY
    ImplementsListSeq
