\* A null-modem cable with RTR and CTS: the peer sends four characters, nothing is written.
CONSTANTS
    Flows = {"rtr_cts"}
    Fifo = 2
    Low = 1
    RsRxMax = 3
    RsPutback = 0
    RsTxMax = 1
    RtMax = 1
    RtChars = 0
    RsMaxIn = 4
    RsMaxOut = 0
    MaxHold = 1
    RsKinds = {"good"}
    RsOps = {}
SPECIFICATION RsSpec
PROPERTY RtsComesBack
CHECK_DEADLOCK FALSE
