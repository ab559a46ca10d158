------------------------------ MODULE GdbLink ------------------------------
(***************************************************************************)
(* The packet layer of the GDB stub (debug.cpp): send() and receive() over *)
(* the serial line, the interrupt that notices a packet while the program  *)
(* runs, and the loop that talks to GDB while it is stopped.  GDB sends    *)
(* one request at a time, acknowledges, and sends again on a NACK.  The    *)
(* line garbles packets, but loses nothing.                                *)
(***************************************************************************)
EXTENDS Integers, Sequences

CONSTANTS
    MaxRequests, MaxStops, MaxGarbled, \* bounds
    Ops         \* "behind": a packet is garbled while the stub has the next one ready to send

Nothing == "none"

VARIABLES
    toStub, toGdb,  \* what is on the line
    pc,         \* "run", "raised" (irq_signal pending), "send" with sends left to do, or "loop"
    sends,      \* packets to send; the first is in txbuf
    txbuf,      \* the packet in txbuf
    sent,       \* the packet that tx_size is the size of
    needAck, received, ctrlC,
    stopped,    \* thread_info::stopped of the current thread
    request,    \* GDB: request not acknowledged yet
    waiting,    \* GDB: what it waits for: Nothing, "reply", or "stop"
    requests, stops, garbled

gdb == <<request, waiting, requests, garbled>>
line == <<toStub, toGdb>>
stub == <<pc, sends, txbuf, sent, needAck, received, ctrlC, stopped, stops>>
glVars == <<line, stub, gdb>>

Init ==
    /\ toStub = <<>> /\ toGdb = <<>> /\ pc = "run" /\ sends = <<>> /\ txbuf = Nothing /\ sent = Nothing
    /\ needAck = FALSE /\ received = Nothing /\ ctrlC = FALSE /\ stopped = FALSE
    /\ request = Nothing /\ waiting = "stop" /\ requests = 0 /\ stops = 0 /\ garbled = 0

\* One character or one packet.
Char(c) == [kind |-> c, pkt |-> Nothing, good |-> TRUE]
Packet(p, good) == [kind |-> "packet", pkt |-> p, good |-> good]

-----------------------------------------------------------------------------
(* The stub                                                                *)

head == Head(toStub)
gotPacket == head.kind = "packet" /\ head.good

\* Mutant: an acknowledgement is not remembered.
AckForgotten(kind) == needAck

\* '+': the packet arrived.
Acknowledge(kind) == needAck /\ kind # "+"

\* receive(): a NACK sends again what is in txbuf now, as many characters as the last packet
\* had; a bad checksum asks for the packet again.
Receive ==
    /\ toStub # <<>> /\ toStub' = Tail(toStub)
    /\ ctrlC' = (ctrlC \/ head.kind = "^C")
    /\ toGdb' = CASE head.kind = "-" -> Append(toGdb, Packet(sent, txbuf = sent))
                  [] head.kind = "packet" -> Append(toGdb, Char(IF head.good THEN "+" ELSE "-"))
                  [] OTHER -> toGdb
    /\ received' = IF head.kind # "packet" THEN received ELSE IF head.good THEN head.pkt ELSE Nothing

\* The handler of the line's interrupt; a packet or ^C raises the signal.
SerialIrq ==
    /\ pc = "run" /\ Receive /\ needAck' = Acknowledge(head.kind)
    /\ pc' = (IF gotPacket \/ ctrlC' THEN "raised" ELSE "run")
    /\ UNCHANGED <<sends, txbuf, sent, stopped, stops, gdb>>

\* handle_exception() for irq_signal: there is no stop to report yet.
SignalTaken == pc = "raised" /\ pc' = "loop" /\ UNCHANGED <<line, sends, txbuf, sent, needAck, received, ctrlC, stopped, stops, gdb>>

\* A packet is put together in txbuf before send() waits for the acknowledgement of the last.
Compose(ps) == sends' = ps /\ txbuf' = Head(ps) /\ pc' = "send"

\* The program stops with an exception (ps has its message, and the stop), at a breakpoint (the
\* stop), or only prints a message for GDB.
Break(ps) ==
    /\ pc = "run" /\ stops < MaxStops /\ waiting = "stop" /\ stops' = stops + 1
    /\ stopped' = (ps # <<"O">>) /\ Compose(ps)
    /\ UNCHANGED <<line, sent, needAck, received, ctrlC, gdb>>

afterSend == IF Len(sends) > 1 THEN "send" ELSE IF stopped THEN "loop" ELSE "run"
DropSent == sends' = Tail(sends) /\ pc' = afterSend /\ txbuf' = (IF Len(sends) > 1 THEN sends[2] ELSE txbuf)

\* send() while need_ack: a packet instead of the acknowledgement drops what was to be sent.
SendWaits ==
    /\ pc = "send" /\ needAck /\ Receive
    /\ needAck' = (Acknowledge(head.kind) /\ ~gotPacket)
    /\ IF gotPacket THEN DropSent ELSE UNCHANGED <<sends, txbuf, pc>>
    /\ UNCHANGED <<sent, stopped, stops, gdb>>

\* send(): the packet leaves, and stop_reply() or the next message is put together.
SendNow ==
    /\ pc = "send" /\ ~needAck
    /\ toGdb' = Append(toGdb, Packet(txbuf, TRUE)) /\ sent' = txbuf /\ needAck' = TRUE
    /\ DropSent
    /\ UNCHANGED <<toStub, received, ctrlC, stopped, stops, gdb>>

LoopReceives ==
    /\ pc = "loop" /\ received = Nothing /\ (stopped \/ toStub # <<>>)
    /\ Receive /\ needAck' = Acknowledge(head.kind)
    /\ UNCHANGED <<pc, sends, txbuf, sent, stopped, stops, gdb>>

\* handle_packet(): vCont resumes, anything else is answered, if only with "E04".
HandlePacket ==
    /\ pc = "loop" /\ received # Nothing /\ received' = Nothing
    /\ IF received = "cont" THEN stopped' = FALSE /\ UNCHANGED <<sends, txbuf, pc>>
       ELSE Compose(<<"reply">>) /\ UNCHANGED stopped
    /\ UNCHANGED <<line, sent, needAck, ctrlC, stops, gdb>>

\* The loop ends: ^C stops the program again, else it goes on.
LoopEnds ==
    /\ pc = "loop" /\ ~stopped /\ received = Nothing /\ toStub = <<>>
    /\ ctrlC' = FALSE /\ stopped' = ctrlC
    /\ IF ctrlC THEN Compose(<<"stop">>) ELSE pc' = "run" /\ UNCHANGED <<sends, txbuf>>
    /\ UNCHANGED <<line, sent, needAck, received, stops, gdb>>

-----------------------------------------------------------------------------
(* GDB and the line                                                        *)

\* GDB asks or continues when the program has stopped, and may interrupt it when it runs.
GdbAsks(r) ==
    /\ waiting = Nothing /\ request = Nothing /\ requests < MaxRequests /\ requests' = requests + 1
    /\ request' = r /\ waiting' = (IF r = "cont" THEN "stop" ELSE "reply")
    /\ toStub' = Append(toStub, Packet(r, TRUE))
    /\ UNCHANGED <<toGdb, garbled, stub>>

GdbInterrupts ==
    /\ waiting = "stop" /\ request = Nothing /\ requests < MaxRequests /\ requests' = requests + 1
    /\ toStub' = Append(toStub, Char("^C"))
    /\ UNCHANGED <<toGdb, request, waiting, garbled, stub>>

GdbReceives ==
    /\ toGdb # <<>> /\ toGdb' = Tail(toGdb)
    /\ LET item == Head(toGdb)
           answer == CASE item.kind = "+" -> <<>>
                       [] item.kind = "-" -> <<Packet(request, TRUE)>>
                       [] item.kind = "packet" -> <<Char(IF item.good THEN "+" ELSE "-")>> IN
       /\ toStub' = toStub \o answer
       /\ request' = (IF item.kind = "+" THEN Nothing ELSE request)
       /\ waiting' = (IF item.good /\ item.pkt = waiting THEN Nothing ELSE waiting)
    /\ UNCHANGED <<requests, garbled, stub>>

Spoil(q) == [q EXCEPT ![1].good = FALSE]
CanSpoil(q) == q # <<>> /\ Head(q).kind = "packet"

\* A packet is garbled on its way.
Garble ==
    /\ garbled < MaxGarbled /\ garbled' = garbled + 1
    /\ \/ CanSpoil(toStub) /\ toStub' = Spoil(toStub) /\ UNCHANGED toGdb
       \/ /\ CanSpoil(toGdb) /\ ("behind" \in Ops \/ (stopped /\ sends = <<>>))
          /\ toGdb' = Spoil(toGdb) /\ UNCHANGED toStub
    /\ UNCHANGED <<request, waiting, requests, stub>>

Stub == SerialIrq \/ SignalTaken \/ SendWaits \/ SendNow \/ LoopReceives \/ HandlePacket \/ LoopEnds

Next ==
    \/ SerialIrq \/ SignalTaken \/ SendWaits \/ SendNow \/ LoopReceives \/ HandlePacket \/ LoopEnds
    \/ \E ps \in {<<"O">>, <<"stop">>, <<"O", "stop">>} : Break(ps)
    \/ \E r \in {"query", "cont"} : GdbAsks(r)
    \/ GdbInterrupts \/ GdbReceives \/ Garble

Fairness == WF_glVars(Stub) /\ WF_glVars(GdbReceives)
Spec == Init /\ [][Next]_glVars /\ Fairness

-----------------------------------------------------------------------------
(* Properties                                                              *)

\* Over a line that garbles packets GDB gets the answer to every question, and the stub the
\* acknowledgement of every packet it sends: neither side waits for the other for ever.
Answered ==
    /\ waiting = "reply" ~> waiting # "reply"
    /\ needAck ~> ~needAck
=============================================================================
