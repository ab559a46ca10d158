CONSTANTS
    h1 = h1
    h2 = h2
    h3 = h3
    Null = Null
    Handlers = {h1}
    Irqs = {3}
    Flags <- OldBlasterFlags
    Line <- OneLine
    Masked0 = {3}
    BiosLines = {}
    MaxReq = 2
    Ops = {"teardown", "alone"}
SPECIFICATION Spec
INVARIANTS NoNullCall
