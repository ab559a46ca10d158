------------------------------ MODULE Scancode ------------------------------
(***************************************************************************)
(* Decoding scancodes (scancode.cpp, io/detail/scancode.h): bytes come one *)
(* at a time, sequences are extracted whenever somebody looks.             *)
(***************************************************************************)
EXTENDS Naturals, Sequences, FiniteSets

CONSTANTS
    Codes,      \* the bytes sent
    MaxBytes    \* bound

ASSUME ScAssumption == Codes \subseteq 0..255

VARIABLES
    scSet,    \* the scancode set, or "translated": set 2 that the controller turned into set 1
    scRaw,    \* all bytes sent
    scQueue,  \* scancode_queue
    scKeys    \* what was extracted: sequence of [key, up]

scVars == <<scSet, scRaw, scQueue, scKeys>>

Sets == {"set1", "set2", "set3", "translated"}

ScInit == scSet \in Sets /\ scRaw = <<>> /\ scQueue = <<>> /\ scKeys = <<>>

-----------------------------------------------------------------------------
(* Tables                                                                  *)

\* undo_translation_table; from 0x80 on a byte stands for itself
Untranslated == <<
    118,22,30,38,37,46,54,61,62,70,69,78,85,102,13, 21,29,36,45,44,53,60,67,68,77,84,91,90,20,28,27,
    35,43,52,51,59,66,75,76,82,14,18,93,26,34,33,42, 50,49,58,65,73,74,89,124,17,41,88,5,6,4,12,3,
    11,2,10,1,9,119,126,108,117,125,123,107,115,116,121,105,
    114,122,112,113,132,96,97,120,7,15,23,31,39,47,55,63, 71,79,86,94,8,16,24,32,40,48,56,64,72,80,87,111,
    19,25,57,81,83,92,95,98,99,100,101,103,104,106,109,110 >>

Undo(c) == CASE c = 0 -> 255 [] c = 255 -> 0 [] c > 127 -> c [] OTHER -> Untranslated[c]

\* set1_to_set2_table is the same but for F7 (0x41).
Set1ToSet2(c) == CASE c = 0 -> 0 [] c = 65 -> 131 [] OTHER -> Untranslated[c]

\* set2_to_set3_table and set2_e0_to_set3_table, where they are not 0
Set2ToSet3 == {<<1,71>>, <<3,39>>, <<4,23>>, <<5,7>>, <<6,15>>, <<7,94>>, <<9,79>>, <<10,63>>, <<11,47>>,
    <<12,31>>, <<17,25>>, <<20,17>>, <<88,20>>, <<93,92>>, <<118,8>>, <<119,118>>, <<120,86>>, <<121,124>>,
    <<123,132>>, <<124,126>>, <<126,95>>, <<131,55>>, <<132,87>>}
Set2E0ToSet3 == {<<17,57>>, <<20,88>>, <<31,139>>, <<39,140>>, <<47,141>>, <<63,127>>, <<74,119>>, <<90,121>>,
    <<105,101>>, <<107,97>>, <<108,110>>, <<112,103>>, <<113,100>>, <<114,96>>, <<116,106>>, <<117,99>>,
    <<122,109>>, <<124,87>>, <<125,111>>, <<126,98>>}

Maps(table, c) == \E p \in table : p[1] = c
MappedTo(table, c) == (CHOOSE p \in table : p[1] = c)[2]

\* set3_to_key_table: keys go by their code in set 3; the others are bad_key there.
Defined == ({7, 8} \cup 13..15 \cup {17, 18} \cup 20..23 \cup 25..31 \cup 33..39 \cup 41..47 \cup 49..55
    \cup 57..63 \cup 65..71 \cup 73..79 \cup {82} \cup 84..92 \cup 94..103 \cup 105..119
    \cup {121, 122} \cup 124..127 \cup {132} \cup 139..141)

PwrOn == 190
PwrWake == 191

Set3Key(c) == IF c \in Defined THEN c ELSE 256 + c

Set2Key(ext, c) ==
    CASE ext = 224 /\ c = 55 -> PwrOn
      [] ext = 224 /\ c = 94 -> PwrWake
      [] ext = 224 /\ Maps(Set2E0ToSet3, c) -> Set3Key(MappedTo(Set2E0ToSet3, c))
      [] ext = 225 /\ c = 20 -> 98
      [] ext = 0 -> Set3Key(IF Maps(Set2ToSet3, c) THEN MappedTo(Set2ToSet3, c) ELSE c)
      [] OTHER -> 256 * ext + c

-----------------------------------------------------------------------------
(* extract()                                                               *)

Extended(s, c) == s \in {"set1", "set2"} /\ c \div 16 = 14
Break(s, c) == s \in {"set2", "set3"} /\ c = 240
Prefix(s, c) == Extended(s, c) \/ Break(s, c)

\* The key of a sequence q of prefixes and one more byte
DecodeKey(s, q) ==
    LET c == q[Len(q)]
        es == {i \in DOMAIN q : Extended(s, q[i])}
        ext == IF es = {} THEN 0 ELSE q[CHOOSE i \in es : \A j \in es : j <= i]
        up == (\E i \in 1..Len(q) - 1 : Break(s, q[i])) \/ (s = "set1" /\ c > 127) IN
    [up |-> up, key |-> CASE s = "set1" -> Set2Key(ext, Set1ToSet2(c % 128))
                          [] s = "set2" -> Set2Key(ext, c)
                          [] s = "set3" -> Set3Key(c)]

\* Where the first sequence of q ends
First(s, q) == CHOOSE i \in DOMAIN q : ~Prefix(s, q[i]) /\ \A j \in 1..i - 1 : Prefix(s, q[j])

Decoded == IF scSet = "translated" THEN "set2" ELSE scSet

\* Mutant: prefixes are popped as they are seen.
ExtractEagerly ==
    /\ scQueue # <<>>
    /\ scQueue' = Tail(scQueue) /\ UNCHANGED <<scSet, scRaw>>
    /\ scKeys' = IF Prefix(Decoded, Head(scQueue)) THEN scKeys
               ELSE Append(scKeys, DecodeKey(Decoded, <<Head(scQueue)>>))

\* A sequence that is not complete stays.
Extract ==
    /\ \E i \in DOMAIN scQueue : ~Prefix(Decoded, scQueue[i])
    /\ LET n == First(Decoded, scQueue) IN
          /\ scKeys' = Append(scKeys, DecodeKey(Decoded, SubSeq(scQueue, 1, n)))
          /\ scQueue' = SubSeq(scQueue, n + 1, Len(scQueue))
    /\ UNCHANGED <<scSet, scRaw>>

\* undo_translation_iterator: a break code becomes a prefix and a make code.
Untranslate(c) ==
    IF c > 127 /\ c \div 16 # 14 THEN <<240, Undo(c % 128)>> ELSE <<Undo(c)>>

\* The interrupt handler
Receive(c) ==
    /\ Len(scRaw) < MaxBytes /\ scRaw' = Append(scRaw, c)
    /\ scQueue' = scQueue \o (IF scSet = "translated" THEN Untranslate(c) ELSE <<c>>)
    /\ UNCHANGED <<scSet, scKeys>>

ScNext == Extract \/ \E c \in Codes : Receive(c)

ScSpec == ScInit /\ [][ScNext]_scVars

-----------------------------------------------------------------------------
(* Properties                                                              *)

\* Where whole sequences end in the bytes r; where the k-th does
Ends(s, r) == {i \in DOMAIN r : ~Prefix(s, r[i])}
EndsUpTo(s, r, i) == Cardinality({j \in Ends(s, r) : j <= i})
Nth(s, r, k) == CHOOSE i \in Ends(s, r) : EndsUpTo(s, r, i) = k

\* The k-th key is that of the k-th whole sequence.
RightKeys(s) ==
    \A k \in DOMAIN scKeys :
        LET from == IF k = 1 THEN 1 ELSE Nth(s, scRaw, k - 1) + 1
        IN scKeys[k] = DecodeKey(s, SubSeq(scRaw, from, Nth(s, scRaw, k)))

\* Whenever sequences are extracted, the k-th key is that of the k-th whole sequence of the
\* bytes sent; and undoing the translation gives the keys that the bytes have in set 1.
ScKeysDecoded == RightKeys(IF scSet = "translated" THEN "set1" ELSE scSet)
=============================================================================
