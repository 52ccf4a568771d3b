\* The Python SDK gives up on a lost answer without a retry.
CONSTANTS
    Call = {"c1"}
    SdkOf <- AllPython
    Envelopes <- FewEnvelopes
    Acceptable <- MCAcceptable
    RetryAttempts = 2
    Faults <- PathFaults
    MaxFaults = 3
    MaxEdits = 0
SPECIFICATION Spec
INVARIANTS
    TransientRetried
