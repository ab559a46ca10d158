------------------------------- MODULE Clocks -------------------------------
(***************************************************************************)
(* The PIT and RTC clocks (chrono.cpp): IRQ 0 counts time and keeps the    *)
(* BIOS clock going while the timer runs at another rate; pit::now() adds  *)
(* what the hardware counter shows; rtc::now() adds the ticks of IRQ 8.    *)
(* As chrono.cpp:155 has it, the timer loads a new count at the end of its *)
(* cycle.                                                                  *)
(***************************************************************************)
EXTENDS Integers

CONSTANTS
    Full,       \* 0x10000
    Divisors,   \* for pit::setup()
    Tolerance,  \* 0x500
    Rate,       \* RTC interrupts per second
    MaxSetups,  \* bound: calls of pit::setup()
    CkOps       \* "full": the counter is read in the count after it was loaded with Full
                \* "between": IRQ 8 comes between the reads of rtc::now()

ASSUME CkAssumption ==
    /\ Full \in Nat \ {0} /\ Divisors \subseteq 1..Full /\ Tolerance \in Nat
    /\ Rate \in Nat \ {0}

VARIABLES
    count, loaded, next,    \* the timer: down counter, length of this cycle and of the next
    irq0, enabled, handler, \* IRQ 0 pends; is assigned to pit_irq, whose function is "count" or "reset"
    max, newMax, biosCount, \* pit_counter_max, pit_counter_new_max, pit_bios_count
    debt,       \* ghost: counts that passed without a BIOS tick
    since,      \* ghost: counts since the time in pit_ns
    reader, ticked, shown, elapsed, \* pit::now(): step, whether pit_ns changed, what it adds, ghost
    second, phase, irq8, ticks, lastSec,    \* the RTC (seconds modulo 2), IRQ 8 pends, rtc_ticks, last_sec
    read,       \* the second that rtc::now() read, or -1
    setups,
    late        \* ghost: calls of setup() that came while a tick pended

ckTimer == <<count, loaded, next, irq0>>
ckDriver == <<enabled, handler, max, newMax, biosCount, debt, since, setups, late>>
ckNow == <<reader, ticked, shown, elapsed>>
ckRtc == <<second, phase, irq8, ticks, lastSec, read>>
ckVars == <<ckTimer, ckDriver, ckNow, ckRtc>>

CkInit ==
    /\ count \in 1..Full /\ loaded = Full /\ next = Full /\ irq0 = FALSE
    /\ enabled = FALSE /\ handler = "count" /\ max = Full /\ newMax = Full /\ biosCount = 0
    /\ debt = Full - count /\ since = Full - count
    /\ reader = "none" /\ ticked = FALSE /\ shown = 0 /\ elapsed = 0
    /\ second = 0 /\ phase = 0 /\ irq8 = FALSE /\ ticks = 0 /\ lastSec = 0 /\ read = -1
    /\ setups = 0 /\ late = 0

\* One count; interrupts are served before the next one is lost.
Count ==
    /\ ~irq0
    /\ IF count > 1 THEN count' = count - 1 /\ UNCHANGED <<loaded, next, irq0>>
       ELSE count' = next /\ loaded' = next /\ irq0' = TRUE /\ UNCHANGED next
    /\ debt' = debt + 1 /\ since' = since + 1
    /\ UNCHANGED <<enabled, handler, max, newMax, biosCount, setups, late, ckNow, ckRtc>>

\* do_pit_reset()
Reset ==
    /\ biosCount' = 0 /\ next' = Full /\ max' = Full /\ enabled' = FALSE

\* Mutant: the BIOS counts every interrupt.
BiosTickEvery(n) == debt' = debt - Full /\ biosCount' = 0

\* bios_tick(): a BIOS tick every Full counts
BiosTick(n) ==
    IF biosCount + n >= Full
    THEN biosCount' = (biosCount + n) % Full /\ debt' = debt - Full
    ELSE biosCount' = biosCount + n /\ UNCHANGED debt

\* Without pit_irq the interrupt is the BIOS' own.
BiosIrq0 ==
    /\ irq0 /\ ~enabled /\ irq0' = FALSE /\ debt' = debt - Full
    /\ since' = 0 /\ UNCHANGED <<count, loaded, next, enabled, handler, max, newMax, biosCount,
                                 setups, late, ckNow, ckRtc>>

\* irq0(): time goes on by the cycle that ended; a count programmed meanwhile is in effect.
Irq0 ==
    /\ irq0 /\ enabled /\ handler = "count" /\ irq0' = FALSE
    /\ since' = since - max /\ ticked' = TRUE /\ BiosTick(max) /\ max' = newMax
    /\ UNCHANGED <<count, loaded, next, enabled, handler, newMax, setups, late, reader, shown,
                   elapsed, ckRtc>>

\* The handler that reset_pit() leaves behind
Irq0Reset ==
    /\ irq0 /\ enabled /\ handler = "reset" /\ irq0' = FALSE
    /\ debt' = IF biosCount + max >= Full THEN debt - Full ELSE debt
    /\ Reset /\ since' = 0 /\ ticked' = TRUE
    /\ UNCHANGED <<count, loaded, handler, newMax, setups, late, reader, shown, elapsed, ckRtc>>

Abs(n) == IF n < 0 THEN -n ELSE n

\* A call of pit::setup().  It masks interrupts: a tick may pend, and is served after it.
Setup ==
    /\ reader = "none" /\ setups < MaxSetups /\ setups' = setups + 1
    /\ late' = IF irq0 THEN late + 1 ELSE late

\* reset_pit(), by setup(false) and at exit: one odd cycle ends where the BIOS expects it.
Disable ==
    /\ Setup /\ enabled
    /\ IF Abs(Full - (biosCount + max)) > Tolerance
       THEN /\ next' = Full - ((biosCount + max) % Full) /\ handler' = "reset"
            /\ UNCHANGED <<biosCount, max, enabled>>
       ELSE Reset /\ UNCHANGED handler
    /\ UNCHANGED <<count, loaded, irq0, newMax, debt, since, ckNow, ckRtc>>

\* setup(true, divisor); the first time, time starts with the system's clock, good to a tick.
Enable(d) ==
    /\ Setup
    /\ since' = IF enabled THEN since ELSE max - count + (IF irq0 THEN loaded ELSE 0)
    /\ next' = d /\ newMax' = d /\ handler' = "count" /\ enabled' = TRUE
    /\ UNCHANGED <<count, loaded, irq0, max, biosCount, debt, ckNow, ckRtc>>

-----------------------------------------------------------------------------
(* pit::now(), with interrupts enabled: they come between its steps.       *)

NowBegin ==
    /\ reader = "none" /\ enabled /\ ~irq0 /\ loaded = max /\ next = max /\ handler = "count" \* bound: at a steady rate
    /\ reader' = "latch" /\ ticked' = FALSE /\ UNCHANGED <<shown, elapsed, ckTimer, ckDriver, ckRtc>>

\* Sixteen bits of the counter
NowLatch ==
    /\ reader = "latch" /\ (count = Full => "full" \in CkOps)
    /\ shown' = max - (count % Full) /\ elapsed' = since
    /\ reader' = "check" /\ UNCHANGED <<ticked, ckTimer, ckDriver, ckRtc>>

\* Mutant: it takes whatever the counter shows.
NowCheckOnce ==
    /\ reader = "check" /\ ~irq0
    /\ reader' = "done" /\ ticked' = FALSE
    /\ UNCHANGED <<shown, elapsed, ckTimer, ckDriver, ckRtc>>

\* A tick in between makes it start again; one that pends is taken before the check.
NowCheck ==
    /\ reader = "check" /\ ~irq0
    /\ reader' = (IF ticked THEN "latch" ELSE "done") /\ ticked' = FALSE
    /\ UNCHANGED <<shown, elapsed, ckTimer, ckDriver, ckRtc>>

NowEnd ==
    /\ reader = "done" /\ reader' = "none" /\ shown' = 0 /\ elapsed' = 0
    /\ UNCHANGED <<ticked, ckTimer, ckDriver, ckRtc>>

-----------------------------------------------------------------------------
(* The RTC                                                                 *)

RtcTick ==
    /\ ~irq8 /\ irq8' = TRUE /\ phase' = (phase + 1) % Rate
    /\ second' = IF phase = Rate - 1 THEN 1 - second ELSE second
    /\ UNCHANGED <<ticks, lastSec, read, ckTimer, ckDriver, ckNow>>

Irq8 ==
    /\ irq8 /\ irq8' = FALSE /\ (read # -1 => "between" \in CkOps)
    /\ ticks' = (IF second # lastSec THEN 0 ELSE ticks + 1) /\ lastSec' = second
    /\ UNCHANGED <<second, phase, read, ckTimer, ckDriver, ckNow>>

\* rtc::now() reads the second with interrupts masked, then rtc_ticks.
RtcNow ==
    /\ ~irq8 /\ read = -1 /\ read' = second
    /\ UNCHANGED <<second, phase, irq8, ticks, lastSec, ckTimer, ckDriver, ckNow>>

RtcEnd ==
    /\ read # -1 /\ read' = -1
    /\ UNCHANGED <<second, phase, irq8, ticks, lastSec, ckTimer, ckDriver, ckNow>>

\* The two timers share nothing.
PitNext ==
    \/ Count \/ BiosIrq0 \/ Irq0 \/ Irq0Reset \/ Disable \/ (\E d \in Divisors : Enable(d))
    \/ NowBegin \/ NowLatch \/ NowCheck \/ NowEnd
RtcNext == RtcTick \/ Irq8 \/ RtcNow \/ RtcEnd

CkNext == PitNext \/ RtcNext

CkSpec == CkInit /\ [][CkNext]_ckVars

-----------------------------------------------------------------------------
(* Properties                                                              *)

\* "Returns the current UNIX time" (chrono.h:63): what pit::now() adds to pit_ns is the time
\* that passed since.  Each setup() that comes while a tick pends may cost it less than a cycle:
\* irq0() then takes the new count for the cycle that the timer still counts with the old one.
NowIsNow == reader = "done" => shown - elapsed \in -(late * Full) .. late * Full

\* However the rate is changed, and when the timer is given back, the BIOS has been told of all
\* the counts that passed but those that bios_tick() keeps and this cycle's (reset_pit's odd cycle
\* makes up for the rest, to within the tolerance at each reset), but for a cycle at each setup()
\* that comes while a tick pends.
BiosInTime ==
    debt - (biosCount + max - count + (IF irq0 THEN loaded ELSE 0))
        \in -(setups * Tolerance + late * Full) .. setups * Tolerance + late * Full

\* chrono.cpp: the clocks agree with the time that passed, and the BIOS gets its ticks.
ClocksRight ==
    /\ NowIsNow
    /\ (~irq8 /\ read # -1) => (ticks = phase /\ read = second)
    /\ BiosInTime
=============================================================================
