\* Two workers: the locks, the list, the refinement, and that requests end.
SPECIFICATION FairSpec
CONSTANTS
    w1 = w1
    w2 = w2
    x = x
    y = y
    z = z
    n1 = n1
    n2 = n2
    n3 = n3
    Nil = Nil
    Workers <- TwoWorkers
    Tags <- TwoTags
    Sizes = {2}
    Addrs <- ThreeAddrs
    MaxCacheSize = 5
    MaxObjectSize = 2
    AgeMod = 10
    MaxRequests = 4
INVARIANTS ListSound ReadersExcludeWriters OnlyRacesGoWrong
PROPERTIES RequestsAnswered ImplementsObjectCache
