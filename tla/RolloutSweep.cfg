CONSTANTS
    a1 = a1
    a2 = a2
    v1 = v1
    v2 = v2
    v3 = v3
    Actors = {a1}
    Versions = {v1, v2}
    Roles = {"proxied"}
    Retain = 1
    Kinds = {"deploy"}
    Faults = {}
    MaxOps = 4
    NoName = NoName
    NoVersion = NoVersion
    Nobody = Nobody
SPECIFICATION Spec
SYMMETRY Symmetry
PROPERTY SweepSparesServing
CHECK_DEADLOCK FALSE
