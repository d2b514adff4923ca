CONSTANTS
    Datums <- MCDatums
    None = None
    ArgCounts <- MCAccessArgCounts
    Probes <- MCProbes
    FuncMaxArgs = 100
    UsizeHuge = 1000000

SPECIFICATION Spec

INVARIANTS
    ArgReadInBounds
