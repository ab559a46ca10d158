CONSTANTS
    Lines = {l1, l2}
    Msb = 8
    MaxHeld = 2
    MaxDepth = 2
    Ops = {}
    Threads = {"t1", "t2"}
    Irqs = {"i1", "i2", "i3"}
    NoOwner = None
    MaxLocks = 2
    Window = FALSE
    None = None
    Blocks = {b1, b2, b3, b4, b5}
    PoolSize = 4
    MaxRegions = 3
    PoolOps = {}
    Callbacks = {"c1", "c2"}
    Nodes = {"n1", "n2", "n3"}
    Calls = {"w1", "w2"}
    NoNode = None
    MaxCalled = 1
    EvOps = {}
    States = {"s1", "s2"}
    Promises = {"p1", "p2"}
    FuThreads = {"t1", "t2"}
    NoState = None
    FuOps = {}
    MemObjects = {"o1", "o2"}
    HostBlocks = {b1, b2}
    DosBlocks = {"d1", "d2"}
    NoBlock = None
    Sizes = {1, 3, 6}
    PageSize = 2
    MaxPage = 2
    MeOps = {}
    DeObjects = {"o1", "o2", "o3"}
    Selectors = {"s1", "s2"}
    NoDescriptor = None
    PageBytes = 2
    Mega = 4
    MaxLimit = 7
    b1 = b1
    b2 = b2
    b3 = b3
    b4 = b4
    b5 = b5
SPECIFICATION LibrarySpec
INVARIANTS TypeOK MaskHolds MaskRestores OwnersOnly DeliveredOnce PoolKept MemoryHeld
PROPERTIES ImplementsRWLock
