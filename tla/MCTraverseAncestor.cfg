CONSTANTS
    K <- MCK
    MaxDepth <- MCMaxDepth
    MaxElems <- MCMaxElems
    Version <- MCVersion
    RteKinds <- MCRteKinds
    MaxRteLinks <- MCMaxRteLinks

SPECIFICATION Spec

INVARIANTS
    AncestorIsOwner
