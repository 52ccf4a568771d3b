\* The TypeScript SDK does not send the lease.
CONSTANTS
    Worker = {"w1"}
    SdkOf <- AllTypeScript
    Deliveries = {"d1"}
    Limit = 1
    RetryAttempts = 1
    Faults <- GatewayFaults
    MaxCalls = 2
    MaxFaults = 1
    MaxRejects = 0
    MaxExpiries = 0
SPECIFICATION Spec
CHECK_DEADLOCK FALSE
INVARIANTS
    HolderNotRefused
