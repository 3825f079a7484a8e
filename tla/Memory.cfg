SPECIFICATION MemorySpec
CONSTANTS
    Main = main
    Workers = {w1}
    Classes = {c1, c2}
    Spans = 2
    SpanBlocks = 3
    Window = 2
    Batch = 2
    MainFirst = TRUE
    Lists = {l1, l2}
    Blocks = {b1, b2, b3}
    None = None
    Modes = {"none", "object", "rc", "string", "flat"}
    Replaceable = {"object"}
    SelfViews = FALSE
    MaxLen = 2
    Vecs = {l1, l2}
    Chunks = {k1, k2}
    ChunkUnits = 3
    PoolMax = 1
    MaxDepth = 2
    FirstCap = 1
    FusedMax = 1
    MaxCap = 2
    Loops <- MCLoops
    Aliased = FALSE
    StartCaps = {0, 3}
    IntMax = 4
    FillMin = 2
    LenBound = 4
INVARIANTS
    SlabIsSound
    NothingStranded
    NeverToLibc
    CountsAreContainers
    OneOwner
    ViewsStayReadable
    ListsStayHome
    FreesAreHeapBlocks
    AccessesInBlock
    LoopIsPlain
SYMMETRY Symmetry
CHECK_DEADLOCK FALSE
