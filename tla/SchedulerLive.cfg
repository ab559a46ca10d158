CONSTANTS
    MaxId = 3
    MaxDepth = 3
    Fns = {}
    Ops = {"cancel", "join", "detach"}
    UnwindOps = {}
    UnwindDepth = 3
SPECIFICATION FairSetupSpec
PROPERTIES NoStarvation ThreadsEnd
