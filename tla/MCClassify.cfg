CONSTANTS
    Versions <- MCVersions
    NodesOrder <- MCNodesOrder
    NodeSet <- MCNodeSet
    Layout <- MCLayout
    FixedTypes <- MCFixedTypes
    Shapes <- MCShapes

SPECIFICATION Spec

INVARIANTS
    TypeOK
    ProblemsBatched
    TraversalProgramPerSpec
