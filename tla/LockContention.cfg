SPECIFICATION Spec
CONSTANTS
    d1 = d1
    d2 = d2
    d3 = d3
    d4 = d4
    h1 = h1
    h2 = h2
    Free = Free
    Deployers = {d1, d2, d3, d4}
    Hosts = {h1, h2}
    HostList <- SameLists
    OperatorList <- OperatorHosts
    Faults = {"crash"}
    ForcePolicy = "quiet"
\* Every invocation ends, so the system stops.
CHECK_DEADLOCK FALSE
INVARIANTS
    OneContenderWins
    FailedAcquireLeavesNothing
PROPERTIES
    ImplementsServiceLock
