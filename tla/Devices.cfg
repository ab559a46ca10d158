CONSTANTS
    None = None
    t1 = t1
    t2 = t2
    o1 = o1
    o2 = o2
    o3 = o3
    k1 = k1
    k2 = k2
    Flows = {"continuous", "xon_xoff", "rtr_cts"}
    Fifo = 2
    Low = 1
    RsRxMax = 2
    RsPutback = 1
    RsTxMax = 2
    RtMax = 1
    RtChars = 0
    RsMaxIn = 4
    RsMaxOut = 0
    MaxHold = 0
    RsKinds = {"good", "framing", "break"}
    RsOps = {}
    MpuRxMax = 2
    MpuPutback = 1
    MpuTxMax = 2
    MpuMaxIn = 5
    MpuMaxOut = 3
    MpuOps = {}
    Voices2 = {"a", "b"}
    Voices4 = {"x"}
    Priority <- VoicePriority
    Plain <- PlainChannels
    Pairs <- ChannelPairs
    OplModes = {"no", "yes", "force", "automatic", "auto_force"}
    OplMaxTime = 2
    ModeNums = {257, 259}
    VgaNums = {19}
    Depths = {8, 16}
    Xs = {0, 3}
    Ys = {0, 2}
    VbOps = {}
    Objects = {o1, o2, o3}
    Addresses <- PcAddresses
    Kinds = {k1, k2}
    Full = 8
    Divisors = {2, 3, 8}
    Tolerance = 1
    Rate = 3
    MaxSetups = 3
    CkOps = {}
    Threads = {t1, t2}
    LockKeys = {"num", "caps"}
    Left = "l"
    Right = "r"
    Any = "any"
    MaxNest = 2
    MaxTyped = 4
    MaxQueue = 2
    KbOps = {"fail"}
    Codes = {29, 54, 157, 224, 225, 240}
    MaxBytes = 4
    Digits = {2, 5}
    BufSize = 2
    Width = 4096
    MaxChars = 3
    Para = 2
    Boundary = 4
    Arena = 14
    Sizes = {1, 4, 8}
    MaxBuffers = 3
    Highs = {5}
    Pages = {0, 2}
SPECIFICATION DevicesSpec
INVARIANTS LocksAgree KeysDecoded ClocksRight ModeFollowed BuffersWhole DevicesOwned
PROPERTIES LossesMarked NotesKept
CHECK_DEADLOCK FALSE
