CONSTANTS
    a1 = a1
    a2 = a2
    v1 = v1
    v2 = v2
    v3 = v3
    Actors = {a1}
    Versions = {v1, v2, v3}
    Roles = {"proxied", "extra_ports", "published", "internal"}
    Retain = 1
    Kinds = {"deploy", "rollback", "rollback_to", "reconcile", "sweep", "prune", "stop", "start", "restart", "remove", "reregister"}
    Faults = {"refused", "lost"}
    MaxOps = 5
    NoName = NoName
    NoVersion = NoVersion
    Nobody = Nobody
SPECIFICATION Spec
SYMMETRY Symmetry
INVARIANTS TypeOK NeverStopsServing SuccessConverges RollbackTargetKept AliasUnshared
CHECK_DEADLOCK FALSE
