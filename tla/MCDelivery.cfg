\* Two workers, one delivery, late requests, expiring leases.
CONSTANTS
    Worker = {"w1", "w2"}
    SdkOf <- AllPython
    Deliveries = {"d1"}
    Limit = 2
    RetryAttempts = 1
    Faults <- PathFaults
    MaxCalls = 4
    MaxFaults = 2
    MaxRejects = 1
    MaxExpiries = 1
SPECIFICATION Spec
CHECK_DEADLOCK FALSE
INVARIANTS
    TypeOK
    OneEffectPerCall
    ConflictIsFinal
    ToldTruthful
    HolderNotRefused
PROPERTIES
    ImplementsInbox
