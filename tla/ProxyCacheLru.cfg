\* One worker: strict LRU.
SPECIFICATION Spec
CONSTANTS
    w1 = w1
    w2 = w2
    x = x
    y = y
    z = z
    n1 = n1
    n2 = n2
    n3 = n3
    Nil = Nil
    Workers <- OneWorker
    Tags <- ThreeTags
    Sizes <- SomeSizes
    Addrs <- ThreeAddrs
    MaxCacheSize = 3
    MaxObjectSize = 2
    AgeMod = 12
    MaxRequests = 5
PROPERTY ImplementsLru
