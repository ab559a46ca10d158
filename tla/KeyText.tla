------------------------------- MODULE KeyText -------------------------------
(***************************************************************************)
(* Characters from keys (key.cpp, keyboard_streambuf.cpp): to_ascii(), the *)
(* numbers typed while Alt is held, and the buffer that redirect_cin()     *)
(* gives to std::cin.  A handler of key_changed puts them there, and       *)
(* yields when the buffer is full: what reads it may run then.             *)
(***************************************************************************)
EXTENDS Naturals, Sequences

CONSTANTS
    Digits,     \* keys of the number pad that are tried
    BufSize,    \* 1024
    Width,      \* of alt_sequence: 2^32
    MaxChars    \* bound: characters typed

ASSUME KtAssumption ==
    Width \in Nat /\ Width % 2 = 0 /\ Width >= 1000 /\ BufSize \in Nat \ {0} /\ Digits \subseteq 0..9

VARIABLES
    mods,       \* modifiers that are down, and lock states
    event,      \* the event whose handler yields in sync()
    alt, ndigits,   \* alt_sequence; ghost: digits since Alt went down
    buffer, get, \* what keyboard_streambuf's buffer holds, and how much of it was read
    ktTyped, number, dropped  \* ghosts: unread characters, the number typed with Alt, characters lost

ktText == <<buffer, get, ktTyped, dropped>>
ktAlt == <<alt, ndigits, number>>
ktVars == <<mods, event, ktText, ktAlt>>

Modifiers == {"ctrl", "alt", "shift", "num_lock", "caps_lock"}

\* Keys with a character, by the tables that list them: letters are in the control and the
\* caps table too, digits in the shift table, the number pad's only in the num table.
KeyKinds == {"letter", "digit", "pad"}

\* What key_changed tells of: a modifier or lock state that changes, a digit of the number pad, a
\* key with a character that is pressed or repeats, and all else.
Events ==
    ({"mod"} \X Modifiers) \cup ({"digit"} \X Digits) \cup ({"key"} \X KeyKinds) \cup {<<"other", "key">>}
NoEvent == <<>>
AltEvent == <<"mod", "alt">>

KtInit ==
    /\ mods = {} /\ event = NoEvent /\ alt = Width \div 2 /\ ndigits = 0
    /\ buffer = <<>> /\ get = 0 /\ ktTyped = <<>> /\ number = 0 /\ dropped = 0

Xor(a, b) == (a \in mods) # (b \in mods)

\* to_ascii(): the table that has the character of a letter, a digit of the upper row, a key
\* of the number pad; 0 is none.
Table(kind) ==
    CASE "alt" \in mods -> "none"
      [] kind = "letter" /\ "ctrl" \in mods /\ "shift" \notin mods -> "ctrl"
      [] kind = "pad" -> IF Xor("shift", "num_lock") THEN "num" ELSE "none"
      [] kind = "letter" /\ Xor("shift", "caps_lock") -> "caps"
      [] kind = "digit" /\ "shift" \in mods -> "shift"
      [] OTHER -> "plain"

\* sync(): the characters read are removed, and if none was read and the buffer is full, the
\* oldest one.
KtSynced == IF get = 0 /\ Len(buffer) = BufSize THEN Tail(buffer) ELSE SubSeq(buffer, get + 1, Len(buffer))

\* The oldest character of a full buffer is lost.
Spill ==
    LET full == Len(ktTyped) = BufSize IN
    /\ ktTyped' = IF full THEN Tail(ktTyped) ELSE ktTyped
    /\ dropped' = IF full THEN dropped + 1 ELSE dropped

\* Mutant: what is left after sync() is still taken to start where the reader was.
KtSyncStale == buffer' = KtSynced /\ get' = (IF get < BufSize THEN get ELSE 0) /\ Spill

KtSync == buffer' = KtSynced /\ get' = 0 /\ Spill

\* insert()
Insert(c) == buffer' = Append(buffer, c) /\ UNCHANGED get
Typed(c) == ktTyped' = Append(ktTyped, c) /\ UNCHANGED dropped

\* Alt was let go of.
AltUp ==
    /\ IF alt <= 255 THEN Insert(<<"alt", alt>>) ELSE UNCHANGED <<buffer, get>>
    /\ IF ndigits > 0 /\ number <= 255 THEN Typed(<<"alt", number>>) ELSE UNCHANGED <<ktTyped, dropped>>
    /\ alt' = Width \div 2 /\ ndigits' = 0 /\ number' = 0

\* A digit while Alt is held, as long as the number pad means digits
AltDigit(n) ==
    /\ alt' = (alt * 10 + n) % Width /\ number' = number * 10 + n /\ ndigits' = ndigits + 1
    /\ UNCHANGED ktText

Key(kind) ==
    /\ Insert(<<kind, Table(kind)>>) /\ Typed(<<kind, Table(kind)>>)
    /\ UNCHANGED ktAlt

\* What event_handler() does of an event when the buffer has room.
AltTyped(e) == e[1] = "digit" /\ "alt" \in mods /\ "ctrl" \notin mods /\ Xor("shift", "num_lock")
Prints(e) == e[1] = "key" /\ Table(e[2]) # "none"
Released(e) == e = AltEvent /\ "alt" \notin mods'

HandleEvent(e) ==
    \/ Released(e) /\ AltUp
    \/ AltTyped(e) /\ AltDigit(e[2])
    \/ Prints(e) /\ Key(e[2])
    \/ ~(Released(e) \/ AltTyped(e) \/ Prints(e)) /\ UNCHANGED <<ktText, ktAlt>>

\* event_handler(): the keyboard has changed its state.  A full buffer is synced whatever the event
\* is, and sync() yields.
Event(e) ==
    /\ event = NoEvent
    /\ mods' = IF e[1] # "mod" THEN mods ELSE (mods \ {e[2]}) \cup ({e[2]} \ mods)
    /\ Len(ktTyped) + dropped < MaxChars \/ ~(Released(e) \/ Prints(e))
    /\ ndigits < 3 \/ ~AltTyped(e)
    /\ IF Len(buffer) = BufSize THEN KtSync /\ event' = e /\ UNCHANGED ktAlt
       ELSE HandleEvent(e) /\ UNCHANGED event

\* The yield returns.  No other event came: see README.
Resume ==
    /\ event # NoEvent /\ event' = NoEvent /\ UNCHANGED mods
    /\ HandleEvent(event)

\* sbumpc(), and xsgetn() of as many characters as there are: it takes 255 for the end.
Read(n) ==
    /\ get + n <= Len(buffer) /\ (n > 1 => buffer[get + 1] # <<"alt", 255>>)
    /\ get' = get + n /\ ktTyped' = SubSeq(ktTyped, n + 1, Len(ktTyped))
    /\ UNCHANGED <<mods, event, ktAlt, buffer, dropped>>

KtNext ==
    \/ \E e \in Events : Event(e)
    \/ Resume
    \/ \E n \in 1..BufSize : Read(n)
    \/ KtSync /\ UNCHANGED <<mods, event, ktAlt>>     \* std::cin.sync()

KtSpec == KtInit /\ [][KtNext]_ktVars

-----------------------------------------------------------------------------
(* Properties                                                              *)

\* What the reader has not read is what was typed, in order, but for the oldest character each
\* time a key is pressed or released, or the reader syncs, when the buffer is full and unread; a
\* number typed with Alt is that character, and letting go of Alt without digits is none.
TextKept == SubSeq(buffer, get + 1, Len(buffer)) = ktTyped
=============================================================================
