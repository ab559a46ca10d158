-------------------------------- MODULE Rs232 --------------------------------
(***************************************************************************)
(* The 16550A driver (rs232.cpp, io/rs232.h): an interrupt handler and a   *)
(* stream buffer share two circular queues, the queue of error marks and   *)
(* the flow control state.  Positions in the receive queue count from the  *)
(* first character, and a get area ends where the ring of the queue        *)
(* (jwutil), one slot longer than what it holds, wraps.                    *)
(***************************************************************************)
EXTENDS Integers, Sequences, FiniteSetsExt

CONSTANTS
    Flows,      \* subset of {"continuous", "xon_xoff", "rtr_cts"}
    Fifo,       \* size of the UART's FIFOs (16)
    Low,        \* RTS is dropped when there is no more room than this (32)
    RsRxMax, RsPutback, RsTxMax, RtMax,   \* sizes of the queues
    RtChars,    \* bound: realtime characters of the program that wait at once
    RsMaxIn, RsMaxOut, MaxHold, \* bounds: characters either way, times the peer stops us
    RsKinds,    \* of what the peer sends: subset of {"good", "framing", "break"}
    RsOps       \* "stale": characters are put back that the queue no longer holds
                \* "torn": a handler between the test and the removal of a mark
                \* "late": a handler finds the FIFO overrun later than at its start, or
                \* characters arrive while it empties one that overran

ASSUME RsAssumption == RsRxMax \in Nat \ {0}

VARIABLES
    flow, eofOnBreak,   \* of rs232_config
    rsNextId, fifo, overrun, cts, rsHeld, holds,  \* the peer, the UART; does XOFF hold the peer?
    rsBuf, rsBegin, rsEback, rsGptr, rsEgptr, rsNewEnd, \* the receive queue, the reader's area
    rsMarks,          \* sequence of [pos, st]
    rsReader,         \* "runs", "looks", "pops", "drops" or "waits": where underflow() is
    rsQuiet,          \* the error that pop() took off is not told
    rsHandler,        \* "off", "get", "put" and what do_sync() counts
    canTx, canRx, rt, rsWritten, rsStop, rsSent, thr, txIrq,
    rsTop, rsHigh, rsWarned   \* ghosts: first position never read, last one read, errors since

rsVars == <<flow, eofOnBreak, rsNextId, fifo, overrun, cts, rsHeld, holds, rsBuf, rsBegin, rsEback,
            rsGptr, rsEgptr, rsNewEnd, rsMarks, rsReader, rsQuiet, rsHandler, canTx, canRx, rt,
            rsWritten, rsStop, rsSent, thr, txIrq, rsTop, rsHigh, rsWarned>>
rsConfig == <<flow, eofOnBreak>>
peer == <<rsConfig, rsNextId, fifo, overrun, cts, rsHeld, holds>>
rsArea == <<rsBegin, rsEback, rsGptr, rsEgptr, rsNewEnd, rsReader, rsQuiet>>
rsTx == <<canTx, canRx, rt, rsWritten, rsStop, rsSent, thr, txIrq>>
rsGhosts == <<rsTop, rsHigh, rsWarned>>

Idle == [at |-> "off", n |-> 0, min |-> 0, over |-> FALSE]

RsInit ==
    /\ flow \in Flows /\ eofOnBreak \in BOOLEAN /\ rsNextId = 1 /\ fifo = <<>> /\ overrun = FALSE
    /\ cts = TRUE /\ rsHeld = FALSE /\ holds = 0
    /\ rsBuf = <<>> /\ rsBegin = 1 /\ rsEback = 1 /\ rsGptr = 1 /\ rsEgptr = 1 /\ rsNewEnd = 1 /\ rsMarks = <<>>
    /\ rsReader = "runs" /\ rsQuiet = FALSE /\ rsHandler = Idle
    /\ canTx = TRUE /\ canRx = (flow # "continuous") /\ rt = <<>>
    /\ rsWritten = 0 /\ rsStop = 0 /\ rsSent = 0 /\ thr = TRUE /\ txIrq = FALSE
    /\ rsTop = 1 /\ rsHigh = 0 /\ rsWarned = {}

RsEnd == Len(rsBuf) + 1
Room == RsRxMax - (RsEnd - rsBegin)

\* Where the part of the ring that holds position p begins, and ends
Slots == RsRxMax + 1
RunBegin(p) == p - ((p - 1) % Slots)
RunEnd(p) == RunBegin(p) + Slots

-----------------------------------------------------------------------------
(* The peer and the UART                                                   *)

\* The peer obeys RTS at once, and XOFF when it got it.
MaySend == CASE flow = "rtr_cts" -> canRx [] flow = "xon_xoff" -> ~rsHeld [] OTHER -> TRUE

Arrive(c) ==
    /\ rsHandler.at # "off" /\ (rsHandler.over \/ Len(fifo) = Fifo) => "late" \in RsOps
    /\ IF Len(fifo) < Fifo THEN fifo' = Append(fifo, c) /\ UNCHANGED overrun
       ELSE overrun' = TRUE /\ UNCHANGED fifo

\* A break is a character of the stream only when it is not told as the end of the file.
IsChar(k) == k \in {"good", "framing"} \/ (k = "break" /\ ~eofOnBreak)

RsReceive(k) ==
    /\ rsNextId <= RsMaxIn /\ MaySend
    /\ Arrive([id |-> IF IsChar(k) THEN rsNextId ELSE 0, kind |-> k])
    /\ rsNextId' = IF IsChar(k) THEN rsNextId + 1 ELSE rsNextId
    /\ k = "break" => \A i \in DOMAIN fifo : fifo[i].kind # "break"
    /\ UNCHANGED <<rsConfig, cts, rsHeld, holds, rsBuf, rsMarks, rsHandler, rsArea, rsTx, rsGhosts>>

\* The peer stops us, or lets us go on.
Stop ==
    /\ flow # "continuous" /\ holds < MaxHold /\ cts /\ holds' = holds + 1 /\ cts' = FALSE
    /\ IF flow = "xon_xoff" THEN Arrive([id |-> 0, kind |-> "xoff"])
       ELSE UNCHANGED <<fifo, overrun>>
    /\ UNCHANGED <<rsConfig, rsNextId, rsHeld, rsBuf, rsMarks, rsHandler, rsArea, rsTx, rsGhosts>>

GoOn ==
    /\ ~cts /\ cts' = TRUE
    /\ IF flow = "xon_xoff" THEN Len(fifo) < Fifo /\ Arrive([id |-> 0, kind |-> "xon"])
       ELSE UNCHANGED <<fifo, overrun>>
    /\ UNCHANGED <<rsConfig, rsNextId, rsHeld, holds, rsBuf, rsMarks, rsHandler, rsArea, rsTx,
                   rsGhosts>>

\* The transmitter holding register is empty again.
Transmitted ==
    /\ ~thr /\ thr' = TRUE
    /\ UNCHANGED <<peer, rsBuf, rsMarks, rsHandler, rsArea, canTx, canRx, rt, rsWritten, rsStop,
                   rsSent, txIrq, rsGhosts>>

-----------------------------------------------------------------------------
(* irq_handler() and do_sync()                                             *)

\* add_error_mark()
Mark(ms, p, s) ==
    IF ms # <<>> /\ ms[Len(ms)].pos = p THEN [ms EXCEPT ![Len(ms)].st = @ \cup s]
    ELSE Append(ms, [pos |-> p, st |-> s])

\* The head of do_sync(): the overrun bit is for the end of the FIFO.
Enter(min) ==
    /\ rsHandler.at = "off" /\ rsReader = "drops" => "torn" \in RsOps
    /\ rsHandler' = [at |-> IF fifo = <<>> THEN "put" ELSE "get", n |-> 0,
                   min |-> IF overrun THEN Fifo ELSE min, over |-> overrun]
    /\ overrun' = FALSE

\* The trigger level is half the FIFO; after a pause the FIFO times out with less.
DataAvailable ==
    /\ rsHandler.at = "off" /\ fifo # <<>> /\ Enter(IF 2 * Len(fifo) < Fifo THEN 1 ELSE Fifo \div 2)
    /\ UNCHANGED <<rsConfig, rsNextId, fifo, cts, rsHeld, holds, rsBuf, rsMarks, rsArea, rsTx,
                   rsGhosts>>

TransmitterEmpty ==
    /\ rsHandler.at = "off" /\ thr /\ txIrq /\ Enter(0)
    /\ UNCHANGED <<rsConfig, rsNextId, fifo, cts, rsHeld, holds, rsBuf, rsMarks, rsArea, rsTx,
                   rsGhosts>>

ModemStatus ==
    /\ rsHandler.at = "off" /\ flow = "rtr_cts" /\ canTx # cts /\ canTx' = cts /\ Enter(0)
    /\ UNCHANGED <<rsConfig, rsNextId, fifo, cts, rsHeld, holds, rsBuf, rsMarks, rsArea, canRx, rt,
                   rsWritten, rsStop, rsSent, thr, txIrq, rsGhosts>>

Status(c) == ({c.kind} \cap {"framing", "break"}) \cup IF overrun THEN {"overflow"} ELSE {}

\* One character: XON and XOFF are consumed, a break only leaves a mark (or is a '\0' with one),
\* and so does a character that finds the queue full.
Get ==
    /\ rsHandler.at = "get"
    /\ LET c == Head(fifo) IN
          /\ IF c.kind \in {"xon", "xoff"} /\ ~overrun
             THEN canTx' = (c.kind = "xon") /\ UNCHANGED <<rsBuf, rsMarks>>
             ELSE /\ UNCHANGED canTx
                  /\ IF c.kind = "break" /\ eofOnBreak
                     THEN rsMarks' = Mark(rsMarks, RsEnd, Status(c)) /\ UNCHANGED rsBuf
                     ELSE IF Room = 0
                     THEN rsMarks' = Mark(rsMarks, RsEnd, {"overflow"}) /\ UNCHANGED rsBuf
                     ELSE /\ rsBuf' = Append(rsBuf, c)
                          /\ rsMarks' = IF Status(c) = {} THEN rsMarks
                                        ELSE Mark(rsMarks, RsEnd, Status(c))
    /\ fifo' = Tail(fifo) /\ overrun' = FALSE
    /\ rsHandler' = [rsHandler EXCEPT !.n = @ + 1, !.at = IF fifo' = <<>> THEN "put" ELSE "get"]
    /\ UNCHANGED <<rsConfig, rsNextId, cts, rsHeld, holds, rsArea, canRx, rt, rsWritten, rsStop, rsSent,
                   thr, txIrq, rsGhosts>>

\* Mutant: a full FIFO of the peer is not waited for.
SetTxForgets == txIrq' = (rt' # <<>>)

\* set_tx()
SetTx == txIrq' = ((rsStop' # rsSent' /\ canTx') \/ rt' # <<>>)

\* set_rts(): an XOFF that finds the realtime queue full is lost.
SetRts(on, q) ==
    IF flow = "continuous" \/ canRx = on THEN rt' = q /\ UNCHANGED canRx
    ELSE /\ canRx' = on
         /\ rt' = IF flow = "xon_xoff" /\ Len(q) < RtMax
                  THEN Append(q, IF on THEN "xon" ELSE "xoff") ELSE q

\* One turn of "put:", realtime characters first, then the stream up to tx_stop; then the
\* loop goes on, or do_sync() ends.
Put ==
    LET n == IF thr THEN Min({Fifo, Len(rt)}) ELSE 0
        controls == {i \in 1..n : rt[i] # "char"}
        m == IF thr /\ canTx THEN Min({Fifo - n, rsStop - rsSent}) ELSE 0
        rest == SubSeq(rt, n + 1, Len(rt)) IN
    /\ rsHandler.at = "put" /\ UNCHANGED <<canTx, rsStop>>
    /\ rsSent' = rsSent + m /\ thr' = (thr /\ n + m = 0)
    /\ rsHeld' = IF controls = {} THEN rsHeld ELSE rt[Max(controls)] = "xoff"
    /\ IF rsHandler.n < rsHandler.min
       THEN /\ fifo # <<>> /\ rsHandler' = [rsHandler EXCEPT !.at = "get"]
            /\ rt' = rest /\ UNCHANGED <<rsMarks, canRx, txIrq>>
       ELSE /\ rsHandler' = Idle
            /\ rsMarks' = IF ~rsHandler.over THEN rsMarks
                          ELSE Mark(rsMarks, RsEnd - (rsHandler.n - Fifo), {"overflow"})
            /\ SetRts(Room > Low, rest) /\ SetTx
    /\ UNCHANGED <<rsConfig, rsNextId, fifo, overrun, cts, holds, rsBuf, rsArea, rsWritten, rsGhosts>>

-----------------------------------------------------------------------------
(* The reader                                                              *)

Thread == rsHandler.at = "off"

\* A character of the get area; it is read for the first time at "top".
RsGetChar ==
    /\ Thread /\ rsReader = "runs" /\ rsGptr < rsEgptr
    /\ rsGptr' = rsGptr + 1
    /\ IF rsGptr = rsTop THEN rsTop' = rsTop + 1 /\ rsWarned' = {} /\ rsHigh' = rsBuf[rsGptr].id
       ELSE UNCHANGED rsGhosts
    /\ UNCHANGED <<peer, rsBuf, rsMarks, rsHandler, rsBegin, rsEback, rsEgptr, rsNewEnd, rsReader,
                   rsQuiet, rsTx>>

\* The slot that is written: the queue may have another character there by now.
Overwrite(p) == IF p + Slots < RsEnd THEN [rsBuf EXCEPT ![p + Slots].id = -1] ELSE rsBuf

\* sputbackc() and pbackfail(): the character before in the get area, which is all that is tested
\* of it; eback() stays when underflow() takes characters from the queue and then raises an error.
RsPutBack ==
    /\ Thread /\ rsReader = "runs" /\ rsEback < rsGptr /\ rsGptr' = rsGptr - 1
    /\ \/ rsBegin < rsGptr /\ UNCHANGED rsBuf
       \/ "stale" \in RsOps /\ rsBegin >= rsGptr /\ rsBuf' \in {rsBuf, Overwrite(rsGptr - 1)}
    /\ UNCHANGED <<peer, rsMarks, rsHandler, rsBegin, rsEback, rsEgptr, rsNewEnd, rsReader, rsQuiet,
                   rsTx, rsGhosts>>

\* pbackfail() at the begin of the get area: the run before, where the ring wraps
RsPutBackRun ==
    /\ Thread /\ rsReader = "runs" /\ rsEback >= rsGptr /\ rsBegin < rsGptr
    /\ rsGptr' = rsGptr - 1
    /\ rsEback' = Max({rsBegin, RunBegin(rsGptr - 1)})
    /\ rsEgptr' = Min({RsEnd, RunEnd(rsGptr - 1)})
    /\ UNCHANGED <<peer, rsBuf, rsMarks, rsHandler, rsBegin, rsNewEnd, rsReader, rsQuiet, rsTx,
                   rsGhosts>>

\* underflow(): room is made, and the end of the queue is read ...
RsUnderflow ==
    /\ Thread /\ (rsReader = "waits" \/ (rsReader = "runs" /\ rsGptr = rsEgptr))
    /\ rsBegin' = Max({rsBegin, rsGptr - RsPutback})
    /\ rsNewEnd' = Min({RsEnd, RunEnd(rsGptr)})
    /\ rsReader' = "looks"
    /\ UNCHANGED <<peer, rsBuf, rsMarks, rsHandler, rsEback, rsGptr, rsEgptr, rsQuiet, rsTx,
                   rsGhosts>>

\* The get area is set, or there is nothing in it: the thread waits, and tries again.
SetArea(end) ==
    /\ IF end = rsGptr THEN rsReader' = "waits" /\ UNCHANGED <<rsEback, rsEgptr>>
       ELSE /\ rsEback' = Max({rsBegin, RunBegin(rsGptr)}) /\ rsEgptr' = end
            /\ rsReader' = "runs"
    /\ UNCHANGED <<peer, rsBuf, rsMarks, rsHandler, rsBegin, rsGptr, rsNewEnd, rsQuiet, rsTx,
                   rsGhosts>>

\* Mutant: the get area does not end at the first mark.
LookPast ==
    /\ Thread /\ rsReader = "looks" /\ (rsMarks # <<>> => rsGptr # rsMarks[1].pos)
    /\ SetArea(rsNewEnd)

\* ... and then the first mark, which ends the get area.
RsLookAhead ==
    /\ Thread /\ rsReader = "looks" /\ (rsMarks # <<>> => rsGptr # rsMarks[1].pos)
    /\ SetArea(IF rsMarks # <<>> /\ rsMarks[1].pos < rsNewEnd THEN rsMarks[1].pos ELSE rsNewEnd)

\* At a mark one of its errors is taken off and raised; a break takes all of them, and may be
\* passed over.
RsRaise ==
    /\ Thread /\ rsReader = "looks" /\ rsMarks # <<>> /\ rsGptr = rsMarks[1].pos
    /\ LET st == rsMarks[1].st
           e == CHOOSE x \in st : \/ x = "overflow"
                                  \/ x = "break" /\ "overflow" \notin st
                                  \/ st = {x} IN
          /\ rsMarks' = [rsMarks EXCEPT ![1].st = IF e = "break" THEN {} ELSE @ \ {e}]
          /\ rsQuiet' = (e = "break" /\ ~eofOnBreak)
          /\ rsWarned' = IF rsQuiet' THEN rsWarned ELSE rsWarned \cup {e}
    /\ rsReader' = "pops"
    /\ UNCHANGED <<peer, rsBuf, rsHandler, rsBegin, rsEback, rsGptr, rsEgptr, rsNewEnd, rsTx, rsTop,
                   rsHigh>>

\* Where underflow() goes on after pop()
Popped == IF rsQuiet THEN "waits" ELSE "runs"

\* pop() tests the mark before it masks interrupts and removes it.
TestMark ==
    /\ Thread /\ rsReader = "pops"
    /\ rsReader' = IF rsMarks[1].st = {} THEN "drops" ELSE Popped
    /\ UNCHANGED <<peer, rsBuf, rsMarks, rsHandler, rsBegin, rsEback, rsGptr, rsEgptr, rsNewEnd,
                   rsQuiet, rsTx, rsGhosts>>

DropMark ==
    /\ Thread /\ rsReader = "drops" /\ rsMarks' = Tail(rsMarks) /\ rsReader' = Popped
    /\ UNCHANGED <<peer, rsBuf, rsHandler, rsBegin, rsEback, rsGptr, rsEgptr, rsNewEnd, rsQuiet, rsTx,
                   rsGhosts>>

-----------------------------------------------------------------------------
(* The writer                                                              *)

RsWrite ==
    /\ Thread /\ rsWritten < RsMaxOut /\ rsWritten - rsSent < RsTxMax /\ rsWritten' = rsWritten + 1
    /\ UNCHANGED <<peer, rsBuf, rsMarks, rsHandler, rsArea, canTx, canRx, rt, rsStop, rsSent, thr,
                   txIrq, rsGhosts>>

\* update_tx_stop(), by sync(), and by overflow() when the put area is full
UpdateTxStop ==
    /\ Thread /\ rsStop # rsWritten /\ rsStop' = rsWritten
    /\ rt' = rt /\ canTx' = canTx /\ rsSent' = rsSent /\ SetTx
    /\ UNCHANGED <<peer, rsBuf, rsMarks, rsHandler, rsArea, canRx, rsWritten, thr, rsGhosts>>

\* put_realtime() waits for room; a handler that takes it first loses the character.
RsPutRealtime ==
    /\ Thread /\ Len(SelectSeq(rt, LAMBDA c : c = "char")) < RtChars /\ Len(rt) < RtMax
    /\ rt' = Append(rt, "char") /\ rsStop' = rsWritten
    /\ canTx' = canTx /\ rsSent' = rsSent /\ SetTx
    /\ UNCHANGED <<peer, rsBuf, rsMarks, rsHandler, rsArea, canRx, rsWritten, thr, rsGhosts>>

\* The destructor sends what is left without flow control.
Close ==
    /\ Thread /\ rsStop # rsSent /\ rsWritten = RsMaxOut /\ ~canTx /\ canTx' = TRUE
    /\ rsStop' = rsWritten /\ rt' = rt /\ rsSent' = rsSent /\ SetTx
    /\ UNCHANGED <<peer, rsBuf, rsMarks, rsHandler, rsArea, canRx, rsWritten, thr, rsGhosts>>

PeerHandled == DataAvailable \/ ModemStatus
Handling == DataAvailable \/ TransmitterEmpty \/ ModemStatus \/ Get \/ Put
Reading == RsGetChar \/ RsUnderflow \/ RsLookAhead \/ RsRaise \/ TestMark \/ DropMark

RsNext ==
    \/ \E k \in RsKinds : RsReceive(k)
    \/ Stop \/ GoOn \/ Transmitted
    \/ Handling \/ Reading
    \/ RsPutBack \/ RsPutBackRun \/ RsWrite \/ UpdateTxStop \/ RsPutRealtime \/ Close

\* Interrupts are served, those of the peer also while the transmitter has its own again and again;
\* the peer lets us go on, and the reader reads.
RsFairness ==
    /\ WF_rsVars(Handling) /\ SF_rsVars(PeerHandled)
    /\ WF_rsVars(Reading) /\ WF_rsVars(Transmitted) /\ WF_rsVars(GoOn)

RsSpec == RsInit /\ [][RsNext]_rsVars /\ RsFairness

-----------------------------------------------------------------------------
(* Properties                                                              *)

\* Characters are read once, in order; between two of them that are not neighbours the
\* reader got an overflow, and before one with an error that error, or a break that takes
\* its place, whatever handler ran inside underflow() and whichever queue was full.
NewChar(c) ==
    c.id # 0 => /\ c.id > rsHigh
                /\ c.id # rsHigh + 1 => "overflow" \in rsWarned
                /\ c.kind = "framing" => rsWarned \cap {"framing", "break"} # {}

RsLossesMarked == [][rsTop' # rsTop => NewChar(rsBuf[rsTop])]_rsVars

\* Flushed characters are sent: the interrupt is on when there is something to send.
AllSent == rsStop # rsSent ~> rsStop = rsSent

\* A peer that an XOFF holds gets its XON when there is room again.
PeerGoesOn == rsHeld /\ canRx ~> ~rsHeld \/ ~canRx

\* "RTS (used as RTR) is asserted while there is free space in the receive buffer" (rs232.h:63)
RtsComesBack == (flow = "rtr_cts" /\ ~canRx /\ rsGptr = RsEnd) ~> (canRx \/ rsGptr # RsEnd)
=============================================================================
