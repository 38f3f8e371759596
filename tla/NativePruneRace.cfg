CONSTANTS
    a1 = a1
    a2 = a2
    v1 = v1
    v2 = v2
    v3 = v3
    s1 = s1
    s2 = s2
    e0 = e0
    e1 = e1
    e2 = e2
    Actors = {a1, a2}
    Ids = {v1, v2, v3}
    Sums = {s1}
    Envs = {e0, e1}
    Empty = e0
    Builds <- PlainBuilds
    Works <- PlainBuilds
    NUnits = 1
    Retain = 2
    Kinds = {"deploy", "rollback_to", "prune"}
    Faults = {}
    MaxOps = 6
    None = None
SPECIFICATION Spec
INVARIANT LiveIsPresent
CHECK_DEADLOCK FALSE
