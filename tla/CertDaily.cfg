SPECIFICATION Spec
CONSTANTS
    Apps = {"p", "q"}
    Build = 2
    Domains = {1, 2}
    Primary <- MCPrimary
    Names <- MCNames
    Actors = {"timer", "operator"}
    Configs <- MCConfigs
    Kinds <- MCKinds
    Envs = {TRUE}
    Faults = {"refused", "lost", "hidden", "exits", "crash"}
    Flaky = {"p"}
    MaxOps = 2
INVARIANTS NoStrayCredentials
PROPERTIES RenewalIsServed RenewAllKeepsNames RenewAllAttendsAll UpgradeTakesNewBuild
CHECK_DEADLOCK FALSE
