------------------------------- MODULE Mpu401 -------------------------------
(***************************************************************************)
(* The MPU-401 driver (mpu401.cpp, io/mpu401.h): detection, and a stream   *)
(* buffer that works with interrupts or by polling.  Positions in the      *)
(* receive queue count from the first byte, and a get area ends where the  *)
(* ring of the queue, one slot longer than what it holds, wraps.           *)
(***************************************************************************)
EXTENDS Integers, Sequences, FiniteSetsExt

CONSTANTS
    MpuRxMax, MpuPutback, MpuTxMax,
    MpuMaxIn, MpuMaxOut,    \* bounds: bytes received and written
    MpuOps      \* "early": the device can take a command before it sent the ACK of the last
                \* "wild": first_error, which nothing initializes, is not null at first
                \* "stale": bytes are put back that the queue no longer holds

ASSUME MpuAssumption == MpuRxMax \in Nat \ {0}

VARIABLES
    useIrq,     \* mpu401_config.irq
    mpuPc,      \* the thread: "drain", "reset", "uart", "ack", "open", "failed", "looks",
                \* "waits", "raises", "syncs", "realtime"
    mpuMode, acks, mpuReady,    \* the device: "normal" or "uart", ACKs to come, ~dont_send_data
    input, mpuNextId,           \* bytes it has for us, and the next one
    mpuBuf, mpuBegin, mpuEback, mpuGptr, mpuEgptr, mpuNewEnd,   \* the receive queue
    mpuMarks, wild, mpuStamp,   \* first_error is garbage; the time stamp
    mpuWritten, mpuStop, mpuSent,
    mpuTop, mpuHigh, mpuWarned, stray   \* ghosts: as in Rs232; a stray ACK came in

mpuVars == <<useIrq, mpuPc, mpuMode, acks, mpuReady, input, mpuNextId, mpuBuf, mpuBegin, mpuEback,
             mpuGptr, mpuEgptr, mpuNewEnd, mpuMarks, wild, mpuStamp, mpuWritten, mpuStop, mpuSent,
             mpuTop, mpuHigh, mpuWarned, stray>>
mpuDev == <<mpuMode, acks, mpuReady, input, mpuNextId>>
mpuRx == <<mpuBuf, mpuMarks, wild, mpuStamp, stray>>
mpuArea == <<mpuBegin, mpuEback, mpuGptr, mpuEgptr, mpuNewEnd>>
mpuTx == <<mpuWritten, mpuStop, mpuSent>>
mpuGhosts == <<mpuTop, mpuHigh, mpuWarned>>

Ack == 0

MpuInit ==
    /\ useIrq \in BOOLEAN /\ mpuPc = "drain"
    /\ mpuMode \in {"normal", "uart"} /\ acks = 0 /\ mpuReady \in BOOLEAN
    /\ input = <<>> /\ mpuNextId = 1
    /\ mpuBuf = <<>> /\ mpuBegin = 1 /\ mpuEback = 1 /\ mpuGptr = 1 /\ mpuEgptr = 1 /\ mpuNewEnd = 1
    /\ mpuMarks = <<>> /\ mpuStamp = 0
    /\ wild \in IF "wild" \in MpuOps THEN BOOLEAN ELSE {FALSE}
    /\ mpuWritten = 0 /\ mpuStop = 0 /\ mpuSent = 0
    /\ mpuTop = 1 /\ mpuHigh = 0 /\ mpuWarned = FALSE /\ stray = FALSE

MpuEnd == Len(mpuBuf) + 1

\* Where the part of the ring that holds position p begins, and ends
MpuSlots == MpuRxMax + 1
MpuRunBegin(p) == p - ((p - 1) % MpuSlots)
MpuRunEnd(p) == MpuRunBegin(p) + MpuSlots

-----------------------------------------------------------------------------
(* The device                                                              *)

BecomeReady ==
    /\ ~mpuReady /\ (acks > 0 => "early" \in MpuOps) /\ mpuReady' = TRUE
    /\ UNCHANGED <<useIrq, mpuPc, mpuMode, acks, input, mpuNextId, mpuRx, mpuArea, mpuTx,
                   mpuGhosts>>

MpuAnswer ==
    /\ acks > 0 /\ acks' = acks - 1 /\ input' = Append(input, Ack)
    /\ UNCHANGED <<useIrq, mpuPc, mpuMode, mpuReady, mpuNextId, mpuRx, mpuArea, mpuTx, mpuGhosts>>

Midi ==
    /\ mpuMode = "uart" /\ Len(input) < 2 /\ mpuNextId <= MpuMaxIn
    /\ input' = Append(input, mpuNextId) /\ mpuNextId' = mpuNextId + 1
    /\ mpuPc \notin {"drain", "reset", "uart", "ack"}
    /\ UNCHANGED <<useIrq, mpuPc, mpuMode, acks, mpuReady, mpuRx, mpuArea, mpuTx, mpuGhosts>>

-----------------------------------------------------------------------------
(* The constructor                                                         *)

\* Reads what there is until a command can be sent; 0xff is not acknowledged in UART mode.
MpuReset ==
    /\ mpuPc = "drain" /\ input = <<>> /\ mpuReady
    /\ mpuPc' = "reset" /\ mpuMode' = "normal" /\ acks' = IF mpuMode = "normal" THEN 1 ELSE 0
    /\ mpuReady' = FALSE
    /\ UNCHANGED <<useIrq, input, mpuNextId, mpuRx, mpuArea, mpuTx, mpuGhosts>>

Discard ==
    /\ mpuPc \in {"drain", "reset"} /\ input # <<>> /\ input' = Tail(input)
    /\ mpuPc' = IF mpuPc = "reset" /\ Head(input) # Ack THEN "failed" ELSE mpuPc
    /\ UNCHANGED <<useIrq, mpuMode, acks, mpuReady, mpuNextId, mpuRx, mpuArea, mpuTx, mpuGhosts>>

EnterUart ==
    /\ mpuPc = "reset" /\ mpuReady /\ input = <<>>
    /\ mpuPc' = "ack" /\ mpuMode' = "uart" /\ acks' = acks + 1 /\ mpuReady' = FALSE
    /\ UNCHANGED <<useIrq, input, mpuNextId, mpuRx, mpuArea, mpuTx, mpuGhosts>>

\* With an IRQ, what came after the ACK is dropped.
ReceiveAck ==
    /\ mpuPc = "ack" /\ input # <<>>
    /\ IF Head(input) = Ack
       THEN mpuPc' = "open" /\ input' = IF useIrq THEN <<>> ELSE Tail(input)
       ELSE mpuPc' = "failed" /\ UNCHANGED input
    /\ UNCHANGED <<useIrq, mpuMode, acks, mpuReady, mpuNextId, mpuRx, mpuArea, mpuTx, mpuGhosts>>

Timeout ==
    /\ \/ mpuPc \in {"drain", "reset"} /\ ~mpuReady
       \/ mpuPc = "ack" /\ input = <<>>
    /\ mpuPc' = "failed"
    /\ UNCHANGED <<useIrq, mpuDev, mpuRx, mpuArea, mpuTx, mpuGhosts>>

-----------------------------------------------------------------------------
(* do_sync(), by the interrupt handler or by a thread that masks interrupts *)

\* Mutant: a byte that finds the queue full leaves no mark.
GetOneSilently ==
    /\ input' = Tail(input) /\ stray' = (stray \/ Head(input) = Ack)
    /\ mpuStamp' = IF mpuBegin = MpuEnd THEN Head(input) ELSE mpuStamp
    /\ mpuBuf' = IF MpuEnd - mpuBegin < MpuRxMax THEN Append(mpuBuf, Head(input)) ELSE mpuBuf
    /\ UNCHANGED <<mpuMarks, wild>>

\* get_one()
GetOne ==
    /\ input' = Tail(input) /\ stray' = (stray \/ Head(input) = Ack)
    /\ mpuStamp' = IF mpuBegin = MpuEnd THEN Head(input) ELSE mpuStamp
    /\ IF MpuEnd - mpuBegin < MpuRxMax
       THEN mpuBuf' = Append(mpuBuf, Head(input)) /\ UNCHANGED <<mpuMarks, wild>>
       ELSE /\ UNCHANGED mpuBuf
            /\ wild' = IF mpuMarks = <<>> THEN FALSE ELSE wild
            /\ mpuMarks' = IF mpuMarks # <<>> /\ mpuMarks[Len(mpuMarks)] = MpuEnd THEN mpuMarks
                           ELSE Append(mpuMarks, MpuEnd)

SendOne == mpuReady /\ mpuSent # mpuStop /\ mpuSent' = mpuSent + 1 /\ mpuReady' = FALSE

Opened == mpuPc \notin {"drain", "reset", "uart", "ack", "failed"}

\* A sync()ing thread polls with interrupts masked; underflow() polls when there is no IRQ.
Handler == Opened /\ useIrq /\ mpuPc \notin {"raises", "syncs", "realtime"} /\ input # <<>>

MpuReceive ==
    /\ input # <<>> /\ GetOne
    /\ \/ Handler \/ mpuPc \in {"syncs", "realtime"}
       \/ ~useIrq /\ mpuPc = "waits"
    /\ UNCHANGED <<useIrq, mpuPc, mpuMode, acks, mpuReady, mpuNextId, mpuArea, mpuTx, mpuGhosts>>

Transmit ==
    /\ SendOne
    /\ Handler \/ mpuPc = "syncs" \/ (~useIrq /\ mpuPc = "waits")
    /\ UNCHANGED <<useIrq, mpuPc, mpuMode, acks, input, mpuNextId, mpuRx, mpuArea, mpuWritten,
                   mpuStop, mpuGhosts>>

-----------------------------------------------------------------------------
(* The stream buffer                                                       *)

MpuGetChar ==
    /\ mpuPc = "open" /\ mpuGptr < mpuEgptr /\ mpuGptr' = mpuGptr + 1
    /\ IF mpuGptr = mpuTop
       THEN mpuTop' = mpuTop + 1 /\ mpuHigh' = mpuBuf[mpuGptr] /\ mpuWarned' = FALSE
       ELSE UNCHANGED mpuGhosts
    /\ UNCHANGED <<useIrq, mpuPc, mpuDev, mpuRx, mpuBegin, mpuEback, mpuEgptr, mpuNewEnd, mpuTx>>

\* The slot that is written: the queue may have another byte there by now.
MpuOverwrite(p) == IF p + MpuSlots < MpuEnd THEN [mpuBuf EXCEPT ![p + MpuSlots] = -1] ELSE mpuBuf

\* sputbackc() and pbackfail(): the byte before in the get area, which is all that is tested of it;
\* eback() stays when underflow() takes bytes from the queue and then raises the overflow.
MpuPutBack ==
    /\ mpuPc = "open" /\ mpuEback < mpuGptr /\ mpuGptr' = mpuGptr - 1
    /\ \/ mpuBegin < mpuGptr /\ UNCHANGED mpuBuf
       \/ "stale" \in MpuOps /\ mpuBegin >= mpuGptr /\ mpuBuf' \in {mpuBuf, MpuOverwrite(mpuGptr - 1)}
    /\ UNCHANGED <<useIrq, mpuPc, mpuDev, mpuMarks, wild, mpuStamp, stray, mpuBegin, mpuEback,
                   mpuEgptr, mpuNewEnd, mpuTx, mpuGhosts>>

\* pbackfail() at the begin of the get area: the run before, where the ring wraps
MpuPutBackRun ==
    /\ mpuPc = "open" /\ mpuEback >= mpuGptr /\ mpuBegin < mpuGptr
    /\ mpuGptr' = mpuGptr - 1
    /\ mpuEback' = Max({mpuBegin, MpuRunBegin(mpuGptr - 1)})
    /\ mpuEgptr' = Min({MpuEnd, MpuRunEnd(mpuGptr - 1)})
    /\ UNCHANGED <<useIrq, mpuPc, mpuDev, mpuRx, mpuBegin, mpuNewEnd, mpuTx, mpuGhosts>>

\* underflow() reads the end of the queue, ...
MpuUnderflow ==
    /\ mpuPc = "waits" \/ (mpuPc = "open" /\ mpuGptr = mpuEgptr)
    /\ mpuBegin' = Max({mpuBegin, mpuGptr - MpuPutback})
    /\ mpuNewEnd' = Min({MpuEnd, MpuRunEnd(mpuGptr)})
    /\ mpuPc' = "looks"
    /\ UNCHANGED <<useIrq, mpuDev, mpuRx, mpuEback, mpuGptr, mpuEgptr, mpuTx, mpuGhosts>>

\* ... then the first mark, which it raises when it is reached; with nothing to read it yields, or
\* polls, and tries again.
MpuLookAhead ==
    LET end == IF mpuMarks = <<>> THEN mpuNewEnd ELSE Min({mpuNewEnd, mpuMarks[1]}) IN
    /\ mpuPc = "looks"
    /\ IF wild \/ (mpuMarks # <<>> /\ mpuMarks[1] = mpuGptr)
       THEN mpuPc' = "raises" /\ UNCHANGED <<mpuEback, mpuEgptr>>
       ELSE IF end = mpuGptr THEN mpuPc' = "waits" /\ UNCHANGED <<mpuEback, mpuEgptr>>
       ELSE /\ mpuPc' = "open" /\ mpuEgptr' = end
            /\ mpuEback' = Max({mpuBegin, MpuRunBegin(mpuGptr)})
    /\ UNCHANGED <<useIrq, mpuDev, mpuRx, mpuBegin, mpuGptr, mpuNewEnd, mpuTx, mpuGhosts>>

MpuRaise ==
    /\ mpuPc = "raises" /\ mpuMarks # <<>>
    /\ mpuMarks' = Tail(mpuMarks) /\ wild' = FALSE /\ mpuWarned' = TRUE /\ mpuPc' = "open"
    /\ UNCHANGED <<useIrq, mpuDev, mpuBuf, mpuStamp, stray, mpuArea, mpuTx, mpuTop, mpuHigh>>

MpuWrite ==
    /\ mpuPc = "open" /\ mpuWritten < MpuMaxOut /\ mpuWritten - mpuSent < MpuTxMax
    /\ mpuWritten' = mpuWritten + 1
    /\ UNCHANGED <<useIrq, mpuPc, mpuDev, mpuRx, mpuArea, mpuStop, mpuSent, mpuGhosts>>

\* sync(), and overflow() when the put area is full
Sync ==
    /\ mpuPc = "open" /\ mpuStop # mpuWritten /\ mpuStop' = mpuWritten /\ mpuPc' = "syncs"
    /\ UNCHANGED <<useIrq, mpuDev, mpuRx, mpuArea, mpuWritten, mpuSent, mpuGhosts>>

\* sync() waits for all of the queue, overflow() for room in it.
Synced ==
    /\ mpuPc = "syncs" /\ (mpuSent = mpuStop \/ mpuWritten - mpuSent < MpuTxMax) /\ mpuPc' = "open"
    /\ UNCHANGED <<useIrq, mpuDev, mpuRx, mpuArea, mpuTx, mpuGhosts>>

PutRealtime ==
    /\ mpuPc = "open" /\ ~mpuReady /\ mpuPc' = "realtime"
    /\ UNCHANGED <<useIrq, mpuDev, mpuRx, mpuArea, mpuTx, mpuGhosts>>

SentRealtime ==
    /\ mpuPc = "realtime" /\ mpuReady /\ mpuReady' = FALSE /\ mpuPc' = "open"
    /\ UNCHANGED <<useIrq, mpuMode, acks, input, mpuNextId, mpuRx, mpuArea, mpuTx, mpuGhosts>>

MpuNext ==
    \/ BecomeReady \/ MpuAnswer \/ Midi
    \/ MpuReset \/ Discard \/ EnterUart \/ ReceiveAck \/ Timeout
    \/ MpuReceive \/ Transmit
    \/ MpuGetChar \/ MpuPutBack \/ MpuPutBackRun \/ MpuUnderflow \/ MpuLookAhead \/ MpuRaise
    \/ MpuWrite \/ Sync \/ Synced \/ PutRealtime \/ SentRealtime

MpuSpec == MpuInit /\ [][MpuNext]_mpuVars

-----------------------------------------------------------------------------
(* Properties                                                              *)

\* Bytes are read once, in order, an overflow is raised between two that are not neighbours,
\* no overflow is raised without a mark, and no ACK of the detection shows up among them.
MpuLossesMarked ==
    /\ [][mpuTop' # mpuTop =>
            mpuBuf[mpuTop] > mpuHigh /\ (mpuBuf[mpuTop] # mpuHigh + 1 => mpuWarned)]_mpuVars
    /\ [](~stray /\ (mpuPc = "raises" => mpuMarks # <<>>))

\* "Time stamp of the first byte received in the current get area." (mpu401.h:48)
StampOfGetArea == mpuGptr < mpuEgptr /\ mpuBegin = mpuGptr => mpuStamp = mpuBuf[mpuBegin]
=============================================================================
