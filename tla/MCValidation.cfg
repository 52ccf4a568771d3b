\* One edit of any field of any document, or three of amounts.
CONSTANTS
    Precision = 3
    MaxExponent = 1
    MaxLines = 2
    Types <- AllTypes
    Values <- AllValues
    Prices <- ShortAmounts
    MaxEdits = 3
SPECIFICATION Spec
CHECK_DEADLOCK FALSE
INVARIANTS
    AcceptedFitsSchema
    OnlyContractErrors
    TotalsExact
    WireStable
