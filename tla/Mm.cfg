\* Requests of every kind on a heap that fills up.
SPECIFICATION Spec
CONSTANTS
    ChunkSize = 8
    NoOfSizeType = 3
    MaxHeap = 28
    Sizes = {0, 8, 20, 40}
INVARIANTS HeapConsistent ListsAreFreeBlocks AllocatedIsLive ServesWhatFits
PROPERTY ImplementsAllocator
CHECK_DEADLOCK FALSE
