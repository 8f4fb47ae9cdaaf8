\* Jobs started in either way, stopped, continued by bg, and both keys.
SPECIFICATION FairSpec
CONSTANTS
    p1 = p1
    p2 = p2
    p3 = p3
    NoPid = NoPid
    Pids <- TwoPids
    MaxJobs = 2
    JidBound = 2
    Commands = {"run", "run&", "bg"}
    Keys = {"SIGINT", "SIGTSTP"}
INVARIANT StatesAgree
PROPERTIES ForegroundReturns ZombiesReaped
