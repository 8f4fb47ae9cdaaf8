\* Every command, more children than slots: what survives the fg command.
SPECIFICATION Spec
CONSTANTS
    p1 = p1
    p2 = p2
    p3 = p3
    NoPid = NoPid
    Pids <- ThreePids
    MaxJobs = 2
    JidBound = 4
    Commands = {"run", "run&", "fg", "bg", "quit"}
    Keys = {"SIGINT"}
SYMMETRY Symmetry
INVARIANTS JobsListed OneForegroundJob WaitsForForeground
