CONSTANTS
    RmHandlers = {1, 2, 3}
    IrqHandlers = {2}
    NoHandler = 0
    RegPool = 2
    MaxMade = 4
    MaxDepth = 3
    RmOps = {"newer"}
SPECIFICATION RmSpec
INVARIANT HandlersAsked
CHECK_DEADLOCK FALSE
