\* Two workers: a walk may stand on a freed node.
SPECIFICATION Spec
CONSTANTS
    w1 = w1
    w2 = w2
    x = x
    y = y
    z = z
    n1 = n1
    n2 = n2
    n3 = n3
    Nil = Nil
    Workers <- TwoWorkers
    Tags <- TwoTags
    Sizes = {2}
    Addrs <- TwoAddrs
    MaxCacheSize = 3
    MaxObjectSize = 2
    AgeMod = 8
    MaxRequests = 4
INVARIANT WalksLiveNodes
