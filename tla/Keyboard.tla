------------------------------ MODULE Keyboard ------------------------------
(***************************************************************************)
(* The PS/2 interface and the keyboard (ps2_interface, keyboard): an       *)
(* interrupt handler queues scancodes, do_update() decodes them, and lock  *)
(* keys send commands that wait for the keyboard under a mutex and with    *)
(* IRQ 1 masked.  do_update() is an invoked function: where it yields, a   *)
(* second one may run above it on the same thread.  A scancode is a key    *)
(* and whether it is down (decoding: module Scancode).                     *)
(***************************************************************************)
EXTENDS Optional, Integers, Sequences

CONSTANTS
    Threads,        \* that call update(), or that invoke_next() picks
    LockKeys,       \* num_lock, caps_lock, scroll_lock
    Left, Right, Any,   \* two modifiers and their virtual key
    MaxNest,        \* bound: calls of do_update() above each other on a thread
    MaxTyped, MaxQueue, \* bounds: scancodes sent, and waiting in the controller
    KbOps           \* "yield": a handler of key_changed yields; "fail": commands fail

ASSUME KbAssumption ==
    /\ None \notin Threads \X Nat /\ MaxNest \in Nat \ {0}
    /\ Any \notin LockKeys \cup {Left, Right} /\ {Left, Right} \cap LockKeys = {}

VARIABLES
    held, typed, port,  \* keys held down, scancodes sent, what the controller has for us
    masked,         \* IRQ 1
    queue,          \* the scancodes read
    keys, locks,    \* defined_keys, and num_lock_state etc. as the set of those that are on
    pc, key, arg,   \* of every call of do_update(): where it is, the scancode and the LEDs it sets
    mutex, leds, flags, \* the mutex' owner, the keyboard's LEDs and the BIOS flags
    toggles, lost,  \* ghosts: presses of every lock key; a command failed or ate a scancode
    ahead, overtaken    \* ghosts: the calls that waited for the mutex before a call did; one got
                        \* it later than a call that computed newer LEDs

kbVars == <<held, typed, port, masked, queue, keys, locks, pc, key, arg, mutex, leds, flags, toggles, lost,
            ahead, overtaken>>
kbHw == <<held, typed, port>>
kbCalls == <<pc, key, arg>>
kbOut == <<leds, flags>>
kbOrder == <<ahead, overtaken>>

Calls == Threads \X (1 .. MaxNest)

Keys == LockKeys \cup {Left, Right}
NoKey == <<None, FALSE>>

KbInit ==
    /\ held = {} /\ typed = 0 /\ port = <<>> /\ masked = FALSE /\ queue = <<>>
    /\ flags \in SUBSET LockKeys /\ leds = flags
    /\ keys = [k \in Keys \cup {Any} |-> "up"] /\ locks = flags
    /\ pc = [c \in Calls |-> "runs"] /\ key = [c \in Calls |-> NoKey]
    /\ arg = [c \in Calls |-> {}]
    /\ mutex = None
    /\ toggles = flags /\ lost = FALSE
    /\ ahead = [c \in Calls |-> {}] /\ overtaken = FALSE

Flip(set, k) == (set \ {k}) \cup ({k} \ set)

\* Keys are typed, and repeat, also while a command waits for its answer on the same port.
Type(k) ==
    /\ typed < MaxTyped /\ Len(port) + Len(queue) < MaxQueue
    /\ \/ held' = held \cup {k} /\ port' = Append(port, <<k, TRUE>>)
       \/ k \in held /\ held' = held \ {k} /\ port' = Append(port, <<k, FALSE>>)
    /\ typed' = typed + 1
    /\ toggles' = IF held' # held /\ k \in LockKeys \cap held'
                  THEN Flip(toggles, k) ELSE toggles
    /\ UNCHANGED <<masked, queue, keys, locks, kbCalls, mutex, kbOut, lost, kbOrder>>

\* The interrupt handler reads all there is and has some thread call do_update().
Irq1 ==
    /\ ~masked /\ port # <<>> /\ queue' = queue \o port /\ port' = <<>>
    /\ UNCHANGED <<held, typed, masked, keys, locks, kbCalls, mutex, kbOut, toggles, lost, kbOrder>>

\* do_update(), by update() or as the callback: do_yield() invokes it, also where a call below it
\* on the same thread yields.
Update(c) ==
    /\ pc[c] = "runs" /\ (c[2] > 1 => pc[<<c[1], c[2] - 1>>] # "runs")
    /\ pc' = [pc EXCEPT ![c] = "loop"]
    /\ UNCHANGED <<kbHw, masked, queue, keys, locks, key, arg, mutex, kbOut, toggles, lost, kbOrder>>

\* handle_key(): a second "down" is a repeat.
Handle(ks, k, s) == [ks EXCEPT ![k] = IF ks[k] # "up" /\ s # "up" THEN "repeat" ELSE s]

State(down) == IF down THEN "down" ELSE "up"

\* The next scancode; a handler of key_changed may yield after the key changed.
Decode(c) ==
    /\ pc[c] = "loop"
    /\ IF queue = <<>> THEN pc' = [pc EXCEPT ![c] = "runs"] /\ UNCHANGED <<queue, keys, key>>
       ELSE /\ queue' = Tail(queue) /\ key' = [key EXCEPT ![c] = Head(queue)]
            /\ keys' = Handle(keys, Head(queue)[1], State(Head(queue)[2]))
            /\ pc' = [pc EXCEPT ![c] = "changed"]
    /\ UNCHANGED <<kbHw, masked, locks, arg, mutex, kbOut, toggles, lost, kbOrder>>

\* handle_virtual_key(): the states of the keys it stands for, or'ed
Virtual(ks, k) ==
    IF k \notin {Left, Right} THEN ks
    ELSE Handle(ks, Any, IF "repeat" \in {ks[Left], ks[Right]} THEN "repeat"
                         ELSE IF "down" \in {ks[Left], ks[Right]} THEN "down" ELSE "up")

\* Mutant: a repeat toggles too.
ToggleAlways(k) == IF keys[k] # "up" THEN Flip(locks, k) ELSE locks

\* set_lock_state(): a press toggles, a repeat and a release do not.
Toggle(k) == IF keys[k] = "down" THEN Flip(locks, k) ELSE locks

\* A lock key toggles its state, and the LEDs to set are computed; other keys may have
\* virtual ones.
Apply(c) ==
    LET k == key[c][1] IN
    /\ pc[c] = "changed"
    /\ IF k \in LockKeys
       THEN /\ locks' = Toggle(k) /\ arg' = [arg EXCEPT ![c] = locks']
            /\ pc' = [pc EXCEPT ![c] = "command"] /\ UNCHANGED keys
       ELSE /\ keys' = Virtual(keys, k)
            /\ pc' = [pc EXCEPT ![c] = "loop"] /\ UNCHANGED <<locks, arg>>
    /\ key' = [key EXCEPT ![c] = NoKey]
    /\ UNCHANGED <<kbHw, masked, queue, mutex, kbOut, toggles, lost, kbOrder>>

\* The calls but c that wait for the mutex
Others(c) == {d \in Calls \ {c} : pc[d] = "mutex"}

\* The mutex and the interrupt mask
Take(c) ==
    /\ mutex = None /\ mutex' = c /\ masked' = TRUE /\ pc' = [pc EXCEPT ![c] = "waits"]
    /\ ahead' = [d \in Calls |-> IF d = c THEN {} ELSE ahead[d] \ {c}]
    /\ UNCHANGED <<kbHw, queue, keys, locks, key, arg, kbOut, toggles, lost>>

\* command(): it yields while it waits for the mutex; a free one it takes past those that wait.
Begin(c) ==
    /\ pc[c] = "command"
    /\ \/ Take(c) /\ overtaken' = (Others(c) # {})
       \/ /\ mutex # None /\ pc' = [pc EXCEPT ![c] = "mutex"]
          /\ ahead' = [ahead EXCEPT ![c] = Others(c)]
          /\ UNCHANGED <<kbHw, masked, queue, keys, locks, key, arg, mutex, kbOut, toggles, lost,
                         overtaken>>

\* Whichever call asks next gets it.
Acquire(c) ==
    /\ pc[c] = "mutex" /\ Take(c)
    /\ overtaken' = (overtaken \/ Others(c) \cap ahead[c] # {})

\* The keyboard answers.  A scancode that is in the way is taken for the answer: the command
\* fails, and is tried again after reset() drops it.
Answer(c) ==
    /\ pc[c] = "waits"
    /\ IF port # <<>> THEN port' = Tail(port) /\ lost' = TRUE /\ UNCHANGED <<leds, pc, mutex, masked>>
       ELSE /\ leds' = arg[c] /\ pc' = [pc EXCEPT ![c] = "flags"]
            /\ mutex' = None /\ masked' = FALSE /\ UNCHANGED <<port, lost>>
    /\ UNCHANGED <<held, typed, queue, keys, locks, key, arg, flags, toggles, kbOrder>>

\* It fails for the second time: the exception leaves do_update(), or goes to main.
Fail(c) ==
    /\ "fail" \in KbOps /\ pc[c] = "waits"
    /\ mutex' = None /\ masked' = FALSE /\ pc' = [pc EXCEPT ![c] = "runs"] /\ lost' = TRUE
    /\ arg' = [arg EXCEPT ![c] = {}]
    /\ UNCHANGED <<kbHw, queue, keys, locks, key, kbOut, toggles, kbOrder>>

\* The BIOS flags follow.
SetFlags(c) ==
    /\ pc[c] = "flags" /\ flags' = locks /\ pc' = [pc EXCEPT ![c] = "loop"]
    /\ arg' = [arg EXCEPT ![c] = {}]
    /\ UNCHANGED <<kbHw, masked, queue, keys, locks, key, mutex, leds, toggles, lost, kbOrder>>

\* Threads switch where they yield: when they wait, and where KbOps says so.
Yields == {"runs", "mutex", "waits"} \cup (IF "yield" \in KbOps THEN {"changed"} ELSE {})

\* One call runs at a time; one that another runs above waits for it to return.
Turn(c) ==
    /\ \A d \in Calls \ {c} : pc[d] \in Yields
    /\ \A d \in Calls : d[1] = c[1] /\ d[2] > c[2] => pc[d] = "runs"

KbNext ==
    \/ \E k \in Keys : Type(k)
    \/ Irq1
    \/ \E c \in Calls :
          /\ Turn(c)
          /\ \/ Update(c) \/ Decode(c) \/ Apply(c) \/ Begin(c) \/ Acquire(c)
             \/ Answer(c) \/ Fail(c) \/ SetFlags(c)

KbSpec == KbInit /\ [][KbNext]_kbVars

-----------------------------------------------------------------------------
(* Properties                                                              *)

\* keyboard.cpp: once all scancodes are handled, every press of a lock key toggled its state, the
\* BIOS flags show it, and the virtual modifier is down iff one of its keys is, however many calls
\* of do_update() there are at a time; and the LEDs show it, unless of two calls that waited for
\* the mutex the later got it first.
LocksAgree ==
    queue = <<>> /\ port = <<>> /\ ~lost /\ (\A c \in Calls : pc[c] \in {"runs", "loop"}) =>
        /\ locks = toggles /\ flags = toggles /\ (overtaken \/ leds = toggles)
        /\ (keys[Any] # "up") = (held \cap {Left, Right} # {})
=============================================================================
