\* The fg command: the shell waits for a job that has ended.
SPECIFICATION FairSpec
CONSTANTS
    p1 = p1
    p2 = p2
    p3 = p3
    NoPid = NoPid
    Pids <- TwoPids
    MaxJobs = 2
    JidBound = 4
    Commands = {"run&", "fg"}
    Keys = {}
PROPERTY ForegroundReturns
