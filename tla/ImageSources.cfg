SPECIFICATION Spec
CONSTANTS
    HostList <- MCHosts
    Actors = {a1, a2}
    Configs <- MCConfigs
    Retries = 1
    MaxRevisions = 2
    MaxOps = 3
    MaxLate = 1
PROPERTIES OneContent RunsWhatWasBuilt ReconcileNeverUpgrades
CHECK_DEADLOCK FALSE
SYMMETRY MCSymmetry
