SPECIFICATION FairSpec
CONSTANTS
    v1 = v1
    v2 = v2
    Versions = {v1, v2}
    Modes = {"docker", "native"}
    Lengths <- SmallLists
    BatchSizes <- SmallSizes
    Faults = {"host", "early", "append", "cancel", "crash"}
    MaxRuns = 2
    None = None
INVARIANTS TypeOK OneBatchDown LogTellsSuccess EndedIsQuiet
PROPERTIES BatchesInOrder TerminalIsLast RunEnds
\* The runs are used up, so the system stops.
CHECK_DEADLOCK FALSE
