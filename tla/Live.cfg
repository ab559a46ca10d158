CONSTANTS
    h1 = h1
    h2 = h2
    h3 = h3
    Null = Null
    Handlers = {h1, h2, h3}
    Irqs = {3, 5}
    Flags <- FallbackFlags
    Line <- FallbackLine
    Masked0 = {3, 5}
    BiosLines = {5}
    MaxReq = 1
    Ops = {"irq"}
    None = None
    f1 = f1
    f2 = f2
SPECIFICATION LiveSpec
PROPERTIES RequestsServed TransfersEnd Answered GetEnds ProgramEnds
CHECK_DEADLOCK FALSE
