\* Two concurrent calls, one of each SDK, over a faulty path, an edit of an envelope in
\* flight, and a server that answers.
CONSTANTS
    Call = {"c1", "c2"}
    SdkOf <- OneOfEach
    Envelopes <- MCEnvelopes
    Acceptable <- MCAcceptable
    RetryAttempts = 1
    Faults <- FewerFaults
    MaxFaults = 2
    MaxEdits = 1
SPECIFICATION ResponsiveSpec
INVARIANTS
    TypeOK
    IndInv
    OneEventPerCall
    ResultTruthful
    RefusalIsFinal
    FinalAnswerEndsCall
    RetryableFlagTruthful
    TypeScriptPersistent
    KnownBindingsAgree
PROPERTIES
    ImplementsService
    FaultsTolerated
