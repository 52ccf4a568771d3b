\* Polling workers complete every delivery.
CONSTANTS
    Worker = {"w1", "w2"}
    SdkOf <- AllPython
    Deliveries = {"d1"}
    Limit = 1
    RetryAttempts = 1
    Faults <- PathFaults
    MaxCalls = 10
    MaxFaults = 1
    MaxRejects = 0
    MaxExpiries = 1
SPECIFICATION PollingSpec
CHECK_DEADLOCK FALSE
PROPERTIES
    EveryDeliveryDone
