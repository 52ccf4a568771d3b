\* Two files that change while the suite and then two builds run, the first maybe killed.
CONSTANTS
    Files <- TwoFiles
    Contents <- SomeKinds
    MaxChanges = 2
    MaxBuilds = 2
SPECIFICATION ReleaseSpec
CHECK_DEADLOCK FALSE
INVARIANTS
    TypeOK
    VerdictTruthful
    VouchedIsWhole
    PassedIsPacked
PROPERTIES
    Reports
