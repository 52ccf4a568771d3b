\* A probe of a service whose key is rotated and whose card is renewed meanwhile.
CONSTANTS
    Keys <- TwoKeys
    Contents <- TwoContents
    AcnContents <- AcnFirst
    MaxMoves = 4
SPECIFICATION Spec
CHECK_DEADLOCK FALSE
INVARIANTS
    TypeOK
    ConformantIsTrue
    FailureIsReal
