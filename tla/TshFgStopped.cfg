\* The fg command: a job that runs is listed as stopped.
SPECIFICATION Spec
CONSTANTS
    p1 = p1
    p2 = p2
    p3 = p3
    NoPid = NoPid
    Pids <- TwoPids
    MaxJobs = 2
    JidBound = 4
    Commands = {"run&", "fg"}
    Keys = {}
INVARIANT StatesAgree
