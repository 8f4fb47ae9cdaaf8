\* A client that goes away while it is answered.
SPECIFICATION Spec
CONSTANTS
    w1 = w1
    w2 = w2
    x = x
    Free = Free
    Workers <- TwoWorkers
    Tags <- OneTag
    Fds = {4, 5, 6, 7}
    SbufSize = 1
    MaxLines = 1
    StoreLimit = 1
    MaxConns = 3
    Failures = {"clientBroken"}
INVARIANT ResponsesReachTheirClient
