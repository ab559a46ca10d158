CONSTANTS
    MaxId = 3
    MaxDepth = 3
    Fns = {f1}
    Ops = {"cancel", "join", "detach", "suspend", "invoke", "irq", "safe", "atexit"}
    UnwindOps = {"cancel", "join", "detach", "throw", "fnthrow", "fnyield", "drop", "swallow", "invoke", "atexit"}
    UnwindDepth = 5
SPECIFICATION SetupsSpec
INVARIANTS TypeOK ThreadsAlive HandlesValid CallsKept UnwindsApart ExitLeavesNoThread
PROPERTY JoinMeansFinished
