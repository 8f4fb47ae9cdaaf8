\* Two workers, every failure: descriptors, answers, what is cached; every
\* accepted client is let go of, and every worker comes back.
SPECIFICATION FairSpec
CONSTANTS
    w1 = w1
    w2 = w2
    x = x
    Free = Free
    Workers <- TwoWorkers
    Tags <- OneTag
    Fds = {4, 5, 6}
    SbufSize = 1
    MaxLines = 2
    StoreLimit = 1
    MaxConns = 2
    Failures <- AllFailures
INVARIANTS OwnDescriptors DescriptorsAccounted ResponsesAreNotCrossed CachedWhole
PROPERTIES ClientsServed WorkersReturn
