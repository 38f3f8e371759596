CONSTANTS
    a1 = a1
    a2 = a2
    v1 = v1
    v2 = v2
    v3 = v3
    s1 = s1
    s2 = s2
    e0 = e0
    e1 = e1
    e2 = e2
    Actors = {a1}
    Ids = {v1, v2, v3}
    Sums = {s1, s2}
    Envs = {e0, e1, e2}
    Empty = e0
    Builds <- SomeBuilds
    Works <- SomeWork
    NUnits = 1
    Retain = 2
    Kinds = {"deploy", "rollback", "rollback_to", "reconcile", "prune", "stop", "start", "restart", "setup", "remove", "purge"}
    Faults = {"refused", "lost", "half", "crash"}
    MaxOps = 4
    None = None
SPECIFICATION Spec
INVARIANTS TypeOK RestoredIsAsBefore OkIsLive LiveIsPresent
PROPERTY PruneSparesTarget
CHECK_DEADLOCK FALSE
