\* The caller edits its envelope between two attempts of one call.
CONSTANTS
    Call = {"c1"}
    SdkOf <- AllTypeScript
    Envelopes <- FewEnvelopes
    Acceptable <- MCAcceptable
    RetryAttempts = 1
    Faults <- PathFaults
    MaxFaults = 1
    MaxEdits = 1
SPECIFICATION Spec
INVARIANTS
    RetryIsOneAction
