-------------------------------- MODULE Opl --------------------------------
(***************************************************************************)
(* Voice allocation of the OPL3 driver (opl.cpp, opl.h).  A pair of        *)
(* channels plays either two 2-operator voices or, with its bit in the     *)
(* chip's 4-operator register set, one 4-operator voice.  One thread.      *)
(***************************************************************************)
EXTENDS Optional, Sequences

CONSTANTS
    Voices2, Voices4,   \* opl_voice_2op and opl_voice_4op objects
    Priority,   \* a voice's priority
    Plain,      \* sequence of the channels that belong to no pair
    Pairs,      \* sequence of the pairs, each <<opl_4to2_pri, opl_4to2_sec>>
    OplModes,   \* values of prioritize_4op
    OplMaxTime  \* bound: clock

Voices == Voices2 \cup Voices4
Paired == {Pairs[p][1] : p \in DOMAIN Pairs} \cup {Pairs[p][2] : p \in DOMAIN Pairs}
Channels == {Plain[i] : i \in DOMAIN Plain} \cup Paired
Inf == OplMaxTime + 2

VARIABLES
    oplMode,
    ch2, ch4,   \* channels_2op, channels_4op
    oplBits,    \* the 4-operator register
    oplKey,     \* the chip's key_on, by channel
    voice,      \* a voice's owner, channel_num, key_on, on_time, off_time
    now         \* clock

oplVars == <<oplMode, ch2, ch4, oplBits, oplKey, voice, now>>

Silent == [owned |-> FALSE, num |-> 0, on |-> FALSE, since |-> 0, off |-> 0]

OplInit ==
    /\ oplMode \in OplModes
    /\ ch2 = [c \in Channels |-> None] /\ ch4 = [p \in DOMAIN Pairs |-> None]
    /\ oplBits = [p \in DOMAIN Pairs |-> FALSE] /\ oplKey = [c \in Channels |-> FALSE]
    /\ voice = [v \in Voices |-> Silent] /\ now = 1

\* The driver's state as a record, for the steps to hand on.
chip == [ch2 |-> ch2, ch4 |-> ch4, bits |-> oplBits, key |-> oplKey, voice |-> voice]

Become(s) ==
    ch2' = s.ch2 /\ ch4' = s.ch4 /\ oplBits' = s.bits /\ oplKey' = s.key /\ voice' = s.voice

PairOf(c) == CHOOSE p \in DOMAIN Pairs : c \in {Pairs[p][1], Pairs[p][2]}

\* basic_opl::write(opl_channel): the second channel of a 4-operator voice has no key of its own.
WriteKey(s, c, on) ==
    IF \E p \in DOMAIN Pairs : c = Pairs[p][2] /\ s.bits[p] THEN s ELSE [s EXCEPT !.key[c] = on]

\* The channel that has a voice's key
Main(s, v) == IF v \in Voices4 THEN Pairs[s.voice[v].num][1] ELSE s.voice[v].num

\* write(): all registers of a voice
WriteVoice(s, v) ==
    LET t == IF v \in Voices4 THEN WriteKey(s, Pairs[s.voice[v].num][2], s.voice[v].on) ELSE s
    IN WriteKey(t, Main(s, v), s.voice[v].on)

\* start(), with an estimate of when the voice will be silent
StartVoice(s, v, off) ==
    WriteVoice([s EXCEPT !.voice[v].on = TRUE, !.voice[v].since = now, !.voice[v].off = off], v)

Detach(s, v) ==
    IF v \in Voices2 THEN [s EXCEPT !.ch2[s.voice[v].num] = None, !.voice[v].owned = FALSE]
    ELSE [s EXCEPT !.ch4[s.voice[v].num] = None, !.voice[v].owned = FALSE]

\* remove()
RemoveVoice(s, v) == IF v = None THEN s ELSE Detach(WriteKey(s, Main(s, v), FALSE), v)

\* insert_at(): whatever plays there is removed first.
InsertAt2(s, v, n, off) ==
    LET a == RemoveVoice(s, s.ch2[n])
        b == IF n \notin Paired THEN a
             ELSE [RemoveVoice(a, a.ch4[PairOf(n)]) EXCEPT !.bits[PairOf(n)] = FALSE]
    IN StartVoice([b EXCEPT !.ch2[n] = v, !.voice[v].num = n, !.voice[v].owned = TRUE], v, off)

InsertAt4(s, v, p, off) ==
    LET a == RemoveVoice(s, s.ch4[p])
        b == RemoveVoice(a, a.ch2[Pairs[p][1]])
        c == [RemoveVoice(b, b.ch2[Pairs[p][2]]) EXCEPT !.bits[p] = TRUE]
    IN StartVoice([c EXCEPT !.ch4[p] = v, !.voice[v].num = p, !.voice[v].owned = TRUE], v, off)

-----------------------------------------------------------------------------
(* insert(): candidates in the order the code looks at them; a free one    *)
(* is taken at once, else the best.                                        *)

Larger(a, b) == IF a > b THEN a ELSE b
Sounds(v) == now < voice[v].off

Candidate(at, v) ==
    IF v = None THEN [at |-> at, free |-> TRUE, prio |-> 0, since |-> 0, off |-> 0]
    ELSE [at |-> at, free |-> FALSE, prio |-> Priority[v], since |-> voice[v].since,
          off |-> voice[v].off]

\* Two voices in the way of one: the sounding one counts, or the larger values of both.
Both(at, v, w) ==
    LET Most(x, y) == IF Sounds(v) = Sounds(w) THEN Larger(x, y) ELSE IF Sounds(v) THEN x ELSE y
    IN [at |-> at, free |-> FALSE, prio |-> Most(Priority[v], Priority[w]),
        since |-> Most(voice[v].since, voice[w].since), off |-> Larger(voice[v].off, voice[w].off)]

InPlain == [i \in DOMAIN Plain |-> Candidate(Plain[i], ch2[Plain[i]])]

\* Both channels of each pair in turn: for a 4-operator voice the second repeats the first.
PairOrder == [i \in 1 .. 2 * Len(Pairs) |-> Pairs[(i + 1) \div 2][IF i % 2 = 1 THEN 1 ELSE 2]]
InPairs2 ==
    [i \in DOMAIN PairOrder |->
        LET c == PairOrder[i] p == PairOf(c) IN
        IF oplBits[p] THEN Candidate(Pairs[p][1], ch4[p]) ELSE Candidate(c, ch2[c])]

InPairs4(p) ==
    LET v == ch2[Pairs[p][1]] w == ch2[Pairs[p][2]] IN
    IF oplBits[p] THEN Candidate(p, ch4[p])
    ELSE IF v = None THEN Candidate(p, w)
    ELSE IF w = None THEN Candidate(p, v)
    ELSE Both(p, v, w)

npos == 255
Nothing == [at |-> npos, free |-> FALSE, prio |-> 99, since |-> 99, off |-> 99]

\* Mutant: the voice's own priority is not looked at.
BetterAnyway(best, c, prio) ==
    /\ ~(c.off > best.off \/ (c.off = best.off /\ c.since > best.since))
    /\ now < c.off => c.prio <= best.prio

\* check()
Better(best, c, prio) ==
    /\ ~(c.off > best.off \/ (c.off = best.off /\ c.since > best.since))
    /\ now < c.off => (c.prio <= prio /\ c.prio <= best.prio)

Preferred(best, c, prio) ==
    IF best.free THEN best
    ELSE IF c.free THEN c
    ELSE IF Better(best, c, prio) THEN [c EXCEPT !.prio = IF now < c.off THEN @ ELSE best.prio]
    ELSE best

Search(cands, start, prio) ==
    LET best[i \in 0 .. Len(cands)] ==
            IF i = 0 THEN start ELSE Preferred(best[i - 1], cands[i], prio)
    IN best[Len(cands)]

\* Where a 2-operator voice goes: plain channels first, and pairs as prioritize_4op has it.
Place2(v) ==
    LET best == Search(InPlain, Nothing, Priority[v])
        any4 == \E p \in DOMAIN Pairs : oplBits[p]
    IN IF \/ best.free \/ oplMode = "force" \/ (oplMode = "auto_force" /\ any4)
          \/ (oplMode = "yes" \/ (oplMode = "automatic" /\ any4)) /\ now >= best.off
       THEN best ELSE Search(InPairs2, best, Priority[v])

Place4(v) == Search([p \in DOMAIN Pairs |-> InPairs4(p)], Nothing, Priority[v])

Estimate == {now + 1, Inf}

\* key_on(): a voice that has a channel starts again there.
KeyOn(v, off) ==
    LET at == (IF v \in Voices2 THEN Place2(v) ELSE Place4(v)).at IN
    Become(IF voice[v].owned THEN StartVoice(chip, v, off)
           ELSE IF at = npos THEN chip
           ELSE IF v \in Voices2 THEN InsertAt2(chip, v, at, off)
           ELSE InsertAt4(chip, v, at, off))

\* key_off()
KeyOff(v, off) ==
    /\ voice[v].owned
    /\ Become(WriteVoice([chip EXCEPT !.voice[v].on = FALSE,
                                 !.voice[v].off = IF voice[v].on /\ off < @ THEN off ELSE @], v))

\* The destructor
DestroyVoice(v) == voice[v].owned /\ Become(RemoveVoice([chip EXCEPT !.voice[v].on = FALSE], v))

\* Move assignment: what w played is removed, and w takes v's channel.
MoveVoice(v, w) ==
    /\ {v, w} \subseteq Voices2 \/ {v, w} \subseteq Voices4
    /\ v # w /\ voice[v].owned
    /\ LET s == IF voice[w].owned THEN RemoveVoice(chip, w) ELSE chip
           t == [s EXCEPT !.voice[w] = s.voice[v], !.voice[v].owned = FALSE, !.voice[v].on = FALSE]
       IN Become(IF v \in Voices2 THEN [t EXCEPT !.ch2[t.voice[w].num] = w]
                 ELSE [t EXCEPT !.ch4[t.voice[w].num] = w])

OplNext ==
    \/ /\ \/ \E v \in Voices, off \in Estimate : KeyOn(v, off)
          \/ \E v \in Voices, off \in {now, now + 1} : KeyOff(v, off)
          \/ \E v \in Voices : DestroyVoice(v)
          \/ \E v, w \in Voices : MoveVoice(v, w)
       /\ UNCHANGED <<oplMode, now>>
    \/ now < OplMaxTime /\ now' = now + 1 /\ UNCHANGED <<oplMode, ch2, ch4, oplBits, oplKey, voice>>

OplSpec == OplInit /\ [][OplNext]_oplVars

-----------------------------------------------------------------------------
(* Properties                                                              *)

\* No note hangs and no two voices share operators: what the chip plays on a channel is a voice
\* that knows it plays there, and a pair plays either 4-operator or 2-operator voices, as its bit
\* says.
NotesOwned ==
    /\ \A c \in Channels : ch2[c] # None => voice[ch2[c]].owned /\ voice[ch2[c]].num = c
    /\ \A p \in DOMAIN Pairs :
          ch4[p] # None => voice[ch4[p]].owned /\ voice[ch4[p]].num = p /\ oplBits[p]
    /\ \A p \in DOMAIN Pairs : oplBits[p] => ch2[Pairs[p][1]] = None /\ ch2[Pairs[p][2]] = None
    /\ \A v \in Voices : voice[v].owned =>
          (IF v \in Voices2 THEN ch2[voice[v].num] ELSE ch4[voice[v].num]) = v
    /\ \A c \in Channels :
          oplKey[c] <=> \E v \in Voices : voice[v].owned /\ voice[v].on /\ Main(chip, v) = c

\* A voice that still sounds loses its channel to another's key_on() only when that one has at
\* least its priority.
StealsNone ==
    \A v \in Voices : \A off \in Estimate :
        KeyOn(v, off) => \A w \in Voices :
            voice[w].owned /\ Sounds(w) /\ ~voice'[w].owned => Priority[w] <= Priority[v]

NoneStolen == [][StealsNone]_oplVars
=============================================================================
