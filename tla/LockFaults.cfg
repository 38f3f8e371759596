SPECIFICATION FairSpec
CONSTANTS
    d1 = d1
    d2 = d2
    d3 = d3
    d4 = d4
    h1 = h1
    h2 = h2
    Free = Free
    Deployers = {d1, d2, d3}
    Hosts = {h1, h2}
    HostList <- SwappedLists
    OperatorList <- OperatorHosts
    Faults = {"refused", "lost", "crash"}
    ForcePolicy = "never"
\* Every invocation ends, so the system stops.
CHECK_DEADLOCK FALSE
INVARIANTS
    TypeOK
    MutualExclusion
    HolderNamesLocker
    WinnersLeftoverIsReported
PROPERTIES
    EveryRunEnds
    OnlyMakerRemoves
