\* Any short trace on small caches, and the transposes on the cache of the lab;
\* every puzzle on boundary words and floats.
SPECIFICATION LabsSpec
CONSTANTS
    AddrWidth = 20
    Args <- SomeArgs
    ABase = 0
    BBase = 262144
    Shapes <- LabShapes
    TraceAddrs = {0, 1, 2, 4, 8, 14, 17}
    MaxAccesses = 6
    Words <- SomeWords
    Floats <- SomeFloats
INVARIANTS RecencyOrder StoresOnceAndRight NumbersRight FewestBits BitsMoved FloatsRight
PROPERTIES ImplementsTrueLru TransposeSubmitEnsures FewMisses
