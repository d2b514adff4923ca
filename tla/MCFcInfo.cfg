CONSTANTS
    Datums <- MCDatums
    None = None
    ArgCounts <- MCArgCounts
    Probes <- MCProbes
    FuncMaxArgs = 100
    UsizeHuge = 1000000

SPECIFICATION Spec

INVARIANTS
    TypeOK
    NullResultIffReturnNull
