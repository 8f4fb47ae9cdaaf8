\* The fg command: two jobs in the foreground.
SPECIFICATION Spec
CONSTANTS
    p1 = p1
    p2 = p2
    p3 = p3
    NoPid = NoPid
    Pids <- TwoPids
    MaxJobs = 2
    JidBound = 4
    Commands = {"run", "run&", "fg"}
    Keys = {}
INVARIANT AtMostOneForeground
