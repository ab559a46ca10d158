---------------------------- MODULE GdbRegisters ----------------------------
(***************************************************************************)
(* How the GDB stub reads and writes registers (debug.cpp): reg() and      *)
(* set_reg() for the thread that stopped and for one that waits in         *)
(* yield(), the packets P, g and G, and the run-length encoding that       *)
(* every answer goes through.  A byte in hexadecimal is a cell: the value  *)
(* it is part of, and its place there; <<X, 0>> is a byte of x-es.         *)
(***************************************************************************)
EXTENDS Integers, Sequences

CONSTANTS
    Values,         \* of registers
    MaxWrites,      \* bound
    MaxRun          \* bound on the runs of equal characters in an answer

\* A register is told from its neighbours by its lowest byte.
ASSUME GrAssumption == 0 \in Values /\ Values \subseteq 0 .. 255

Segments == {"cs", "ss", "ds", "es", "fs", "gs"}
\* What g and G go through.
Order == <<"eax", "ecx", "edx", "ebx", "esp", "ebp", "esi", "edi", "eip", "eflags",
           "cs", "ss", "ds", "es", "fs", "gs">>
\* Those that only p and P reach: one of each array, and the fields of the x87.
X87 == {"fctrl", "fstat", "ftag", "fioff", "fiseg", "fop", "fooff", "foseg"}
Others == {"st0", "xmm0"} \cup X87
General == {Order[i] : i \in DOMAIN Order}
Registers == General \cup Others
Size == [r \in Registers |-> CASE r = "st0" -> 10 [] r = "xmm0" -> 16 [] OTHER -> 4]

VARIABLES
    grQuery,      \* query_thread: "current" or "other"
    frame10,    \* is_dpmi10_frame
    fpu,        \* saved state of the x87: "none", "fsave" or "fxsave"
    file,       \* the registers of both threads
    done,       \* the last packet: [kind, ...]
    writes

grVars == <<grQuery, frame10, fpu, file, done, writes>>

GrInit ==
    /\ grQuery \in {"current", "other"} /\ frame10 \in BOOLEAN /\ fpu \in {"none", "fsave", "fxsave"}
    /\ file \in {[t \in {"current", "other"} |-> [r \in Registers |-> v]] : v \in Values}
    /\ done = [kind |-> "none"] /\ writes = 0

-----------------------------------------------------------------------------
(* reg() and set_reg()                                                     *)

\* The registers that the exception's frame has, or those of a suspended thread's context.
Writable(r) ==
    IF grQuery = "other" THEN r \in {"ebx", "ebp", "esi", "edi", "fs", "gs"}
    ELSE CASE r \in {"ds", "es", "fs", "gs"} -> frame10
           [] r \in {"st0"} \cup X87 -> fpu # "none"
           [] r = "xmm0" -> fpu = "fxsave"
           [] OTHER -> TRUE

\* A suspended thread's eip, esp and segments are known, but not to be changed.
Readable(r) == Writable(r) \/ (grQuery = "other" /\ r \in {"eip", "esp"} \cup Segments)

Junk == -1
X == -2
Cells(v, n) == [k \in 1 .. n |-> <<v, k>>]
Unreadable(n) == [k \in 1 .. n |-> <<X, 0>>]

\* Mutant: a segment register takes the two bytes it has.
EncodeShort(r, v) == Cells(v, IF r \in Segments THEN 2 ELSE Size[r])

\* encode(): a segment is widened to 32 bits first.
Encode(r, v) == Cells(v, Size[r])

Read(r) == IF Readable(r) THEN Encode(r, file[grQuery][r]) ELSE Unreadable(Size[r])

\* reverse_decode() of as many bytes as the register has; a segment has two.
Decode(r, cells) ==
    LET n == IF r \in Segments THEN 2 ELSE Size[r]
        Shown(v) == n <= Len(cells) /\ \A k \in 1 .. n : cells[k] = Cells(v, n)[k] IN
    IF \E v \in Values : Shown(v) THEN CHOOSE v \in Values : Shown(v) ELSE Junk

-----------------------------------------------------------------------------
(* The packets                                                             *)

Joined(parts) ==
    LET text[i \in 0 .. Len(parts)] == IF i = 0 THEN <<>> ELSE text[i - 1] \o parts[i]
    IN text[Len(parts)]

\* g, with the new value of one register.
GeneralText(r, v) ==
    Joined([i \in DOMAIN Order |-> IF Order[i] = r THEN Encode(r, v) ELSE Read(Order[i])])

\* Where G looks for the i-th register
Position[i \in 1 .. Len(Order)] == IF i = 1 THEN 0 ELSE Position[i - 1] + Size[Order[i - 1]]

\* In the saved state these fields have 16 bits (ftag has 8) and are followed by another one;
\* set_fpu_reg() writes 32 bits, the upper half into that one.
Overlaps ==
    CASE fpu = "fsave" -> {<<"fiseg", "fop">>, <<"fop", "fooff">>}
      [] fpu = "fxsave" -> {<<"fctrl", "fstat">>, <<"fstat", "ftag">>, <<"ftag", "fop">>,
                            <<"fop", "fioff">>}
      [] OTHER -> {}

\* set_reg(): the values are bytes, so that what is overwritten becomes 0.
SetReg(r, v) ==
    [q \in Registers |-> CASE q = r -> v
                          [] <<r, q>> \in Overlaps -> 0
                          [] OTHER -> file[grQuery][q]]

Write(new, packet) == file' = [file EXCEPT ![grQuery] = new] /\ done' = packet

\* P
WriteRegister(r, v) ==
    /\ writes < MaxWrites /\ writes' = writes + 1
    /\ Write(IF Writable(r) THEN SetReg(r, Decode(r, Encode(r, v))) ELSE file[grQuery],
             [kind |-> "P", reg |-> r, value |-> v, ok |-> Writable(r), old |-> file])
    /\ UNCHANGED <<grQuery, frame10, fpu>>

\* G writes one after another, up to the first that cannot be written.
WriteGeneral(r, v) ==
    LET text == GeneralText(r, v)
        refused == {i \in DOMAIN Order : ~Writable(Order[i])}
        written == {i \in DOMAIN Order : \A j \in refused : i < j} IN
    /\ writes < MaxWrites /\ writes' = writes + 1
    /\ Write([q \in Registers |->
                  IF \E i \in written : Order[i] = q
                  THEN Decode(q, SubSeq(text, Position[CHOOSE i \in written : Order[i] = q] + 1, Len(text)))
                  ELSE file[grQuery][q]],
             [kind |-> "G", reg |-> r, value |-> v, ok |-> refused = {}, old |-> file])
    /\ UNCHANGED <<grQuery, frame10, fpu>>

\* Hg
SetThread ==
    /\ grQuery' = (IF grQuery = "other" THEN "current" ELSE "other")
    /\ done' = [kind |-> "H"] /\ UNCHANGED <<frame10, fpu, file, writes>>

-----------------------------------------------------------------------------
(* send()                                                                  *)

\* Mutant: the run that gives '#' or '$' is not avoided.
ChunkAny(n) == IF n > 98 THEN 98 ELSE n

\* The part of a run of n > 3 characters that one repetition stands for.
Chunk(n) == IF n > 98 THEN 98 ELSE IF n \in {7, 8} THEN 6 ELSE n

\* The run as what is sent: characters, and repetitions by the character that counts them.
Compress[n \in 0 .. MaxRun] ==
    IF n = 0 THEN <<>>
    ELSE IF n <= 3 THEN [k \in 1 .. n |-> [repeat |-> FALSE]]
    ELSE <<[repeat |-> FALSE], [repeat |-> TRUE, count |-> Chunk(n) + 28]>> \o Compress[n - Chunk(n)]

GrNext ==
    \/ \E r \in Registers, v \in Values : WriteRegister(r, v)
    \/ \E r \in General, v \in Values : WriteGeneral(r, v)
    \/ SetThread

GrSpec == GrInit /\ [][GrNext]_grVars

-----------------------------------------------------------------------------
(* Properties                                                              *)

\* Changing one register with P, or with g and G, changes that register of that thread, if it is
\* accepted, and no other: the two directions agree on every register's place and size, but for
\* the fields of the x87 that are narrower than what is written to them.
OneRegisterWritten ==
    done.kind \in {"P", "G"} =>
        /\ \A t \in DOMAIN file, r \in Registers :
               (t # grQuery \/ (r # done.reg /\ <<done.reg, r>> \notin Overlaps))
               => file[t][r] = done.old[t][r]
        /\ done.ok => file[grQuery][done.reg] = done.value

\* How many characters GDB makes of what was sent: a count is 29 more than those it adds.
Expanded(s) ==
    LET total[i \in 0 .. Len(s)] ==
            IF i = 0 THEN 0 ELSE total[i - 1] + (IF s[i].repeat THEN s[i].count - 29 ELSE 1)
    IN total[Len(s)]

\* A run of any length reaches GDB as long as it was, and a count is printable and neither '#' nor '$'.
AnswersExpand ==
    \A n \in 1 .. MaxRun :
        /\ Expanded(Compress[n]) = n
        /\ \A i \in DOMAIN Compress[n] :
               Compress[n][i].repeat => Compress[n][i].count \in 32 .. 126 \ {35, 36}
=============================================================================
