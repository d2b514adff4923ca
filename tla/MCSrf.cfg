CONSTANTS
    MaxRows = 2
    MaxScans = 3
    NoLimit = NoLimit
    NoIter = NoIter

SPECIFICATION Spec

\* The executor stops after its last scan.
CHECK_DEADLOCK FALSE

INVARIANTS
    TypeOK
    ScanYieldsOwnIterator

PROPERTIES
    Terminates
