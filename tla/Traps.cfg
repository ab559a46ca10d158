CONSTANTS
    h1 = h1
    h2 = h2
    h3 = h3
    h4 = h4
    h5 = h5
    Null = Null
    Handlers = {h1, h2, h3, h4, h5}
    Irqs = {3, 5}
    Flags <- TrapsFlags
    Line <- TrapsLine
    Masked0 = {3, 5}
    BiosLines = {3}
    MaxReq = 3
    Ops = {"teardown"}
    None = None
    Host = Host
    main = main
    other = other
    RmHandlers = {1, 2, 3}
    IrqHandlers = {2}
    NoHandler = 0
    RegPool = 2
    MaxMade = 4
    MaxDepth = 3
    RmOps = {}
    LastAddr = 6
    MaskOn = 1
    MaskOff = 3
    IrqAt = 6
    MaxBreakpoints = 2
    MaxStops = 4
    StopsOps = {}
    MaxNest = 2
    MaxLimit = 2
    ExitOps = {}
    Signals = {1, 2}
    Pool = 2
    MaxFaults = 3
    MaxRaised = 3
    MaxContexts = 7
    ExOps = {}
    TcHandlers = {1, 2, 3}
    PoolSize = 5
    MaxBuilt = 6
    NoTrampoline = 0
    TcOps = {}
    Threads = {main, other}
    Main = main
    WatchAddrs = {1}
    Slots = {1, 2}
    GtOps = {}
    Values = {0, 1}
    MaxWrites = 1
    MaxRun = 210
SPECIFICATION TrapsSpec
INVARIANTS LinesAgree EoisExact RequestKept FallbackKept ExceptionsArrive HandlersAsked BreakpointsHit DebuggerTold ExitsClean
PROPERTY AskedInTurn
CHECK_DEADLOCK FALSE
