\* An origin server that cannot be reached, or resets the connection.
SPECIFICATION Spec
CONSTANTS
    w1 = w1
    w2 = w2
    x = x
    Free = Free
    Workers <- TwoWorkers
    Tags <- OneTag
    Fds = {4, 5, 6, 7}
    SbufSize = 1
    MaxLines = 2
    StoreLimit = 1
    MaxConns = 1
    Failures = {"hostUnknown", "hostRefused", "hostReset"}
INVARIANT ReadErrorsNotCached
