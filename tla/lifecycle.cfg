SPECIFICATION FairSpec
CONSTANTS
    BrokerModes = {TRUE, FALSE}
    Faults = {"database", "broker", "listen", "shutdown"}
    MaxRequests = 2
    MaxMessages = 2
    MaxRebalances = 2
INVARIANTS
    LifecycleTypeOK
    LifecycleInv
    CleanExit
PROPERTIES
    Termination
CHECK_DEADLOCK FALSE
