CONSTANTS
    NR <- MCNR
    Bindings <- MCBindings

SPECIFICATION Spec

INVARIANTS
    TypeOK
    ResultReflectsWorkers
    ShimOnlyAfterBindings
    OidFilesAgree
    FromU32Inverse

