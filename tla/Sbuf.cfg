\* Two inserters and two removers on a two-slot buffer.
SPECIFICATION FairSpec
CONSTANTS
    r1 = r1
    r2 = r2
    a = a
    b = b
    Inserters <- TwoInserters
    Removers <- Workers
    Items <- Descriptors
    N = 2
    NoItem = NoItem
    MaxRear = 4
INVARIANTS Ledgers SlotSafety
PROPERTIES ImplementsFifo EveryItemRemoved InsertReturns
