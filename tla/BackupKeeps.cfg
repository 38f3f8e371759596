SPECIFICATION Spec
CONSTANTS
    Savers = {s1}
    Restorers = {r1}
    Modes = {"container", "host"}
    Retains = {0, 1, 2}
    Stamped = TRUE
    MaxRevisions = 2
    MaxOps = 3
INVARIANTS AlwaysOneKept
PROPERTIES ReportedIsThere RoundTrip
CHECK_DEADLOCK FALSE
