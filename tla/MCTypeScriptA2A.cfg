\* The TypeScript SDK labels A2A parts with another media type.
CONSTANTS
    Call = {"c1", "c2"}
    SdkOf <- AllTypeScript
    Envelopes <- FewEnvelopes
    Acceptable <- MCAcceptable
    RetryAttempts = 2
    Faults <- Transients
    MaxFaults = 1
    MaxEdits = 0
SPECIFICATION Spec
INVARIANTS
    BindingsAgree
