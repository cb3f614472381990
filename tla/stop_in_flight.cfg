SPECIFICATION Spec
CONSTANTS
    BrokerModes = {TRUE}
    Faults = {}
    MaxRequests = 1
    MaxMessages = 1
    MaxRebalances = 1
INVARIANTS
    StorageOpenWhileHandling
CHECK_DEADLOCK FALSE
