# Formal model of jwdpmi

jwdpmi is a C++ framework for 32-bit DOS programs under DPMI: interrupts, exceptions,
threads, timers, a debugger stub, and drivers for serial ports, keyboards, sound and video
cards. One processor runs everything. Threads are cooperative, interrupts are not: an interrupt
handler may run between any two instructions of a thread or of a less urgent handler, and
shares the library's data with them. There are no tests in the repository, and what goes wrong
here depends on an interrupt that comes at one particular moment, a host call that fails, or a
long history of legal calls. This directory holds TLA+ models of that behaviour, the TLC runs
that check them, and proofs.

Contents: [Inventory](#inventory), [Modules](#modules), [How the models correspond to the
code](#how-the-models-correspond-to-the-code), [Runs](#runs), [Fairness](#fairness),
[Findings](#findings), [Proofs](#proofs), [Not modelled](#not-modelled), [Plan](#plan).

## Inventory

State, operations and hard behaviour of each component, and what makes it correct.

**Scheduler and threads** (`src/scheduler.cpp`, `detail/scheduler.h`, `thread.h`). A
`std::set` of `detail::thread` nodes ordered by id, an iterator at the current one, and in
each node a state (starting, running, finishing, finished), the flags suspended, canceled,
detached, unwinding, a list of functions to invoke and one of atexit functions. `yield()`
runs `switch_thread()`, which walks the set, erases what is finished and detached, and
resumes the next runnable thread; a thread that resumes runs its invoke list and tests its
cancel flag, which starts a forced unwind. At the end of the program `kill_all()` cancels
everybody and waits. *Correct when* a node is never erased while anybody can still use it,
`join()` means the end, invoked functions run once, nobody starves, unwinds never nest, and
the program exits.

**Interrupt controller** (`src/irq.cpp`, `dpmi/detail/irq_controller.h`, `dpmi/irq_mask.h`,
`dpmi/irq_config_flags.h`, `dpmi/detail/interrupt_id.h`). For each line a doubly linked list
of handlers, a fallback handler, the union of the flags of the enabled ones, and the vector
that was installed before. `handle_irq()` decides by the flags when the EOI is sent and
whether handlers may be interrupted, calls the list, the fallback handler, the previous
vector. Drivers assign, enable, disable and remove handlers in between. `irq_mask` objects
mask a line with a counter beside the PIC's register. *Correct when* every interrupt gets one
EOI, every handler of a shared line is called, nesting obeys the flags, unclaimed interrupts
are chained, masks hold and are undone.

**Mutexes** (`mutex.h`, `shared_mutex.h`, `detail/mutex.h`). A flag, a flag and a count of
readers, or an owner and a count; waiting is `yield_while`. Interrupt handlers may only try.
*Correct when* owners exclude each other, also against handlers that come between the steps of
one operation.

**Futures** (`future.h`). A shared state with a result, a ready flag and a reference count;
promises move; results may be published at thread exit. *Correct when* a result is taken once,
and `get()` ends because every promise is kept or broken.

**Events** (`event.h`). Lists of weak references to callbacks, called in a loop that may yield.
*Correct when* callbacks may come and go while others are called.

**Clocks and timers** (`src/chrono.cpp`). The PIT's tick count and the counter latched in
hardware, BIOS ticks accounted for at any divisor, the RTC's ticks and date, the time-stamp
counter. *Correct when* clocks show the time that passed and BIOS time does not drift.

**RS-232** (`src/rs232.cpp`). Receive, transmit and realtime queues between a stream buffer
and the interrupt handler, error marks in the received data, RTS/CTS and XON/XOFF flow
control. *Correct when* no byte is lost without a mark and flow control never leaves both
sides waiting.

**PS/2 and keyboard** (`src/ps2_interface.cpp`, `src/keyboard.cpp`,
`src/keyboard_streambuf.cpp`, `src/scancode.cpp`, `src/key.cpp`). Commands with acknowledge and
retry, a scancode queue filled by the interrupt, a decoder of three scancode sets, key states
updated by a function queued on a thread, which may run again above itself where it waits, a buffer
of characters that gives up the oldest when it is full. *Correct when* what was typed arrives
once and in order, and LEDs, lock states and BIOS flags agree.

**Start-up, exit and allocation** (`src/main.cpp`). `terminate()`, `std::terminate` and the
exit handlers; the locked memory pool for interrupt handlers and its growth, the malloc
wrappers. *Correct when* the machine is given back as it was, and memory goes back to the
allocator it came from.

**Linear, DOS and device memory** (`src/memory.cpp`). Descriptors and blocks in several host
calls that may fail. *Correct when* every object has its memory and nothing leaks.

**CPU exceptions and asynchronous signals** (`src/cpu_exception.cpp`, `dpmi/async_signal.h`,
`dpmi/detail/stack.h`). Chains of exception handlers with trampolines, exceptions that are
redirected to C++ `throw`, signals raised by shrinking a segment limit. *Correct when* every
fault reaches the newest live handler and every redirected frame throws its own exception.

**Real-mode callbacks** (`src/realmode.cpp`). Chains of handlers, callbacks that nest with a
fixed pool of register blocks.

**GDB stub** (`src/debug.cpp`). Packets with acknowledgement and retransmission over a serial
line, breakpoints in the code, stepping, threads, signals, watchpoints, registers. *Correct
when* GDB's view is the program's and every question is answered.

**OPL, Sound Blaster, MPU-401** (`src/opl.cpp`, `src/soundblaster.cpp`, `src/mpu401.cpp`).
Voices that compete for channels; double-buffered DMA that is stopped and restarted around
interrupts; a handshake and a receive queue with overflow marks.

**DMA, video, PCI** (`io/dma.h`, `src/vbe.cpp`, `src/vga.cpp`, `src/pci.cpp`). Buffers that
must not cross 64 KB, a BIOS interface with fallbacks, a map of devices in use.

**DPMI services and ring 0** (`src/ring0.cpp` and headers): a nested privilege object, and thin
wrappers of host calls. **Pixels, vectors, SIMD and samples**: arithmetic without state.

How they meet: drivers own an `irq_handler` (controller) and share queues with their own
interrupt functions; those wake threads through `invoke_main()`/`invoke_next()` (scheduler);
threads wait with `yield_while()`; mutexes and futures are loops over `yield()`; everything an
interrupt touches lives in the locked pool; the debugger sits above exceptions and RS-232.

`PROJECT.json` lists, at their lines, the behaviours of all components that are hard to test;
the properties are chosen from that list.

## Modules

| module | models | code |
|---|---|---|
| `Scheduler` | threads, yield, unwind, exit | `scheduler.cpp`, `thread.h`, end of `__wrap_main` |
| `IrqController` | dispatch, lists, EOI, nesting, chaining | `irq.cpp`, `irq_controller.h` |
| `IrqMask` | `irq_mask`, access by access | `irq_mask.h` |
| `Contexts` | who runs: threads that yield, handlers that interrupt | used by the two mutexes |
| `SharedMutex`, `RWLock` | `mutex` and `shared_mutex`; what they promise | `shared_mutex.h`, `detail/mutex.h` |
| `RecursiveMutex` | `recursive_mutex` | `mutex.h` |
| `Event` | `event`, `chain_event` | `event.h` |
| `Future` | promises, futures, `async` | `future.h` |
| `LockedAlloc` | the locked pool, `new`, `malloc` wrappers | `main.cpp` |
| `Memory` | linear, mapped, DOS and device memory objects | `memory.cpp`, `memory.h` |
| `Descriptor` | selectors and their limits | `memory.cpp`, `memory.h` |
| `Exceptions` | redirected exceptions and signals | `cpu_exception.cpp`, `async_signal.h` |
| `TrapChain` | chains of exception handlers | `cpu_exception.cpp`, `cpu_exception.h` |
| `Realmode` | real-mode callbacks and interrupt handlers | `realmode.cpp` |
| `GdbLink` | packets, acknowledgement, the loop that answers | `debug.cpp` |
| `GdbStops` | breakpoints, steps, trap masks | `debug.cpp` |
| `GdbThreads` | threads, signals, watchpoints | `debug.cpp` |
| `GdbRegisters` | register packets, run-length encoding | `debug.cpp` |
| `Shutdown` | termination, ring 0 | `main.cpp`, `ring0.cpp` |
| `Clocks` | PIT and RTC | `chrono.cpp` |
| `Rs232` | the 16550A driver | `rs232.cpp` |
| `Mpu401` | the MIDI driver | `mpu401.cpp` |
| `Keyboard` | scancode queue, key states, LED commands | `ps2_interface.*`, `keyboard.*` |
| `Scancode` | the decoder of three sets | `scancode.cpp` |
| `KeyText` | characters, Alt numbers, line buffer | `key.cpp`, `keyboard_streambuf.cpp` |
| `SoundBlaster` | pages, interrupts, stop | `soundblaster.cpp` |
| `Opl` | voice allocation | `opl.cpp`, `opl.h` |
| `Vbe` | modes, palette, scanline, display start | `vbe.cpp`, `vga.cpp` |
| `Dma` | buffers and channels | `io/dma.h` |
| `Pci` | devices in use | `pci.cpp` |
| `Optional` | the value of an empty `std::optional` or pointer | used by several drivers |
| `MCScheduler`, `MCIrqController`, `MCLibrary`, `MCTraps`, `MCDevices`, `MCLive` | instances for TLC | |
| `SchedulerProofs`, `IrqControllerProofs`, `IrqMaskProofs`, `MutexProofs`, `LibraryProofs`, `TrapChainProofs`, `TrapsProofs`, `DevicesProofs` | theorems | |

Most components share no state, so `MCLibrary`, `MCTraps`, `MCDevices` and `MCLive` instantiate
several of them and a behaviour runs one, `part`, while the variables of the others stay as they
are. That is a union of independent state spaces, not a product. An MC module `EXTENDS` the components
that theorems are about, so that the runs and the proofs use one definition of each property; a
component that does not run is then pinned to one of its initial states. The others are
instances whose variables are `None` while they rest. Where components do meet, the
model of one has the other's interface in it: `Rs232`, `Mpu401`, `Clocks` and `SoundBlaster` have
their interrupts as actions that come between any two steps of the thread; `Keyboard` has
the threads that the scheduler may pick, the calls of `do_update()` that `do_yield()` puts above each
other on one of them, and the mutex they wait for; `Exceptions` has interrupts that raise signals; `Shutdown`
has ring 0, interrupts and the exit handlers in one state.

## How the models correspond to the code

One action is one stretch of code between two points where something else can run: a context
switch, an interrupt, a call out of the library, a host call that may fail. Names are those of
the code. Every module that leaves out a case that breaks its properties names that case in the
constant `Ops`; the passing runs are without it, and [Findings](#findings) says what happens with
it. Names that begin a comment with "Mutant:" are the wrong versions that show that a property
notices the error.

### Scheduler

The C++ call stack of a thread is a sequence of frames, innermost first: `body` (the
program), `yield`, `safe` (`safe_yield`), `join`, `fn` (an invoked function), `hook` (an atexit
function), `exit` (`scheduler::atexit`), `clean` (destructors run by an unwind), `start`,
`kill`, `wait`, `dead`. `SwitchThread` is one turn of the do-while loop of `switch_thread()` with
its erasures (193-212); `ResumeTerminating`, `CallInvoked`, `InvokedReturns`, `ResumeReturns` are
`do_yield()` after the switch (115-140); `RunThread` ... `ThreadEnds` are `run_thread()` and
`atexit()`; `KillAll`, `KillYield`, `KillTest`, `Exit` are `kill_all()` and the end of main.
`raise[t]` is what propagates out of the innermost frame: nothing, an exception, or a forced
unwind.

The programs that threads run are arbitrary within `Ops`, the set of library calls they may
make: `cancel`, `join`, `detach`, `suspend` (and resume), `drop` (destroy an attached
`jw::thread`), `invoke`, `atexit`, `safe` (`safe_yield`), `throw`, `swallow` (catch a forced
unwind and go on), `fnthrow` and `fnyield` (invoked functions that throw, that yield), `irq`
(interrupt handlers that queue functions). Bounds: `MaxId` thread ids, `MaxDepth` stack depth at
which an invoked function may still yield, `Fns` function objects (each queued at most once).

### IrqController and IrqMask

`entry`, `alloc` and `handler` are the data structures of `irq_controller_data`; `frames` is
the stack of activations of `handle_irq()`, each with its cached flags, its acknowledgement
(`interrupt_id`) and its place in the chain of calls; the thread is at the bottom. `Deliver`
is `handle_irq()` up to the `sti`; `CallFirst`, `CallNext`, `FuncReturns` follow the
chained lambdas; `Serve` and `Acknowledge` are the driver's function; `End` goes from the
`cli` to the `iret`, with the chain or the late EOI and the debug assertion. `Assign` and `Link`
are the two halves of `assign()`: between them interrupts are on and the vector is already
ours. Assigning a handler that is assigned elsewhere is `Remove` followed by `Assign`, which is
what the code does. `fault` records a call through null and the failed assertion; both stop the
machine.

External and therefore assumed: the PIC in special mask mode (the library switches it on), with
one edge for every request of a device; a pending interrupt is taken before the next step of
what it interrupts (requests themselves come between any two steps); devices are stopped before
their handler is disabled; the previous handler serves its device and sends an EOI. Lines are
those of the master PIC. `MaxReq` bounds the requests of each device, and so the nesting.

In `IrqMask` every access to the mask register and to the counter is a step of its own, because
the constructor and destructor of `irq_mask` run with interrupts on: `ctx[1]` is the context of
the threads, `ctx[depth]` the innermost handler, which runs. An interrupt on any open line may
come between any two steps, and its handler may mask and unmask any lines before it returns.
`Msb` stands for the weight of the counter's top bit. `wanted` is a history variable: the lines
that should be open when no object is alive.

### Mutexes, events, futures

`Contexts` says who takes steps: the current thread, unless handlers have interrupted it, of
which the last runs; threads switch where they yield. `SharedMutex` and `RecursiveMutex` add one
action for each access to a flag or count (`TestOwner`, `SetOwner` and `SetCount` are
`recursive_mutex::try_lock()`, `CountDown` and `ClearOwner` its `unlock()`). `SharedMutex` maps its state to `RWLock` (writers and
readers by what each context has reached) and implements it.

`Event`: `Begin`, `Advance`, `Returns` walk the list of weak references; `Subscribe`,
`Unsubscribe`, `DestroyCallback` and `CreateCallback` happen inside callbacks and between calls. What
`Erase` leaves is said by its nodes and their order (`Before`). `Future`: a shared
state is `result`, `ready` and its references; `Set`, `SetAtExit`, `ThreadExit`, `Destroy`, `Move`
are the promise's operations, `Wait` and `WaitReturns` the loops of `wait()` and `get()`. Its
`Retrieve` and `MoveFuture` let ends of one channel be in different objects and threads.

### LockedAlloc, Memory, Descriptor

`LockedAlloc` follows one call of the thread (`step`, `op`) through `operator new`, `malloc`,
`resize_irq_alloc()` and the allocation of an exception, while handlers allocate and free between
the steps; `place[b]` is the allocator a block is from. In `Memory` the host is the environment:
which functions it has, when it fails, and where it puts blocks; one action is one construction,
resize, move or destruction with all its host calls, in their order, and what each leaves behind
when it fails. `Descriptor` keeps selectors, their owners, and limits that the processor rounds.

### Exceptions, TrapChain, Realmode

`Exceptions` keeps a stack of contexts (application, stub, signal function, interrupt); `EnterHandler` is
the host's call of the handler, `Redirect` and `Stage3` the two ends of a redirection,
`Rethrow` takes from `pendingExceptions`. `TrapChain` and `Realmode` keep the links that the
handler objects keep, and, as history, when each live one was made, which is what
the chain is compared to. `Realmode` nests calls of the callback, with register sets and stacks.

### The GDB stub

`GdbLink` has the characters on the line in both directions, the transmit buffer and the position in
`send()`, `receive()` and the loop of `handle_exception()`; GDB is external. `GdbStops` executes a
small ring of instructions with int 3 bytes, the trap flag, a trap mask and an interrupt; `mem` is
the code as it is in memory. `GdbThreads` has the `thread_info` of every thread and what GDB was told
of it; `GdbRegisters` writes registers through `P` and `G` and reads them back through `g`, with a
byte of the packet as a cell, so that offsets and widths matter but digits do not. A write of a field of
the x87 is four bytes wide, the field often two: `Overlaps` has the pairs of a field and the one behind
it that the upper half is written to (debug.cpp:642-649, fpu.h:49-93), and `SetReg` writes both. Values are bytes,
so what is overwritten becomes 0.

### Shutdown

The handlers of `std::terminate` and SIGABRT, `terminate()`, the exit handlers and destructors that
may throw, `ring0_privilege` objects that nest and the data segment that grows under them.

### Drivers

`Rs232` and `Mpu401` number the positions of the receive queue from the first character, so that a
character's place, the marks, the put-back area and the get area of the stream buffer can be
compared; one action of the handler is one character or one turn of the transmit loop. The get area is
what the stream buffer keeps of it: `RsPutBack` tests `eback()` alone, which `underflow()` leaves where it
was when it takes characters from the queue and then throws, `RsPutBackRun` is the rest of `pbackfail()`
where the ring of the queue wraps. With `eofOnBreak` false a break is a character
with a mark, which `underflow()` passes over. `RsPutRealtime` is the program's own use of the realtime
queue, at most `RtChars` characters at once.
`Clocks` counts PIT cycles in a small modulus with the counter loaded, latched and pending
separately; the rate is changed at any time, also while a tick pends, and `late` counts those changes.
`Keyboard` has calls of `do_update()`, each on a thread and at a depth: a call runs above one that waits
for the mutex or for the keyboard's answer, and the one below goes on when it has returned (`Turn`).
`Scancode` decodes one byte at a time and is compared with the tables by whole sequences;
`KeyText` keeps the 32-bit Alt number modulo `Width`. Its `Event` is `event_handler()` up to the yield of
`sync()`, which a full buffer causes whatever the event is, and `Resume` the rest; the reader comes in
between. Another event does not: in the code it would, when a second `do_update()` runs, and then
the buffer may be full again when the first one inserts. `SoundBlaster` has a card that ends pages and
interrupts, `Opl` the voices, channels and 4-operator bits of the chip. `Vbe` compares what the
object remembers with what the BIOS did, `Dma` addresses in paragraphs with the 64 KB pages,
`Pci` the map of devices with the objects alive.

## Runs

| run | instance | what it shows |
|---|---|---|
| `scheduler_safety` | 3 threads in two setups: with interrupts that queue functions; with exceptions, swallowed unwinds, functions that throw and yield, abandoned handles | types; erasure (`ThreadsAlive`, `HandlesValid`); functions called once and the list never popped empty (`CallsKept`); no unwind in another (`UnwindsApart`); `ExitLeavesNoThread`; `JoinMeansFinished` |
| `scheduler_live` | 3 threads that cancel, join, detach | `NoStarvation`; cancelled threads end, joins return, the program exits (`ThreadsEnd`) |
| `library` | 2 lines with 2 masks each and nested interrupts; 2 threads and 2 or 3 handlers for the mutexes; 2 callbacks, 3 nodes, 2 calls; 2 promises and 2 threads; a pool of 4 units that grows twice; 2 memory objects on hosts with and without DPMI 1.0; 3 descriptors | `MaskHolds`, `MaskRestores`, `ImplementsRWLock`, `OwnersOnly`, `DeliveredOnce`, `PoolKept`, `MemoryHeld` |
| `traps` | 3 handlers on two lines, and an ordinary, a fallback and an always-chaining one with a previous handler on one line, all assigned and removed in any order; 3 faults and 3 signals; 3 exception and 3 real-mode handlers; GDB with 2 breakpoints, 2 threads, 2 watchpoints; termination at every point | `LinesAgree`, `EoisExact`, `RequestKept`, `FallbackKept`, `AskedInTurn`, `ExceptionsArrive`, `HandlersAsked`, `BreakpointsHit`, `DebuggerTold`, `ExitsClean` |
| `devices` | receive queues of 2 places with rings of 3 and FIFOs of 2, with 4 or 5 characters; 4 scancodes and 2 threads, each with 2 calls of `do_update()` above each other; timers with 3 set-ups; 3 voices; 3 modes; 3 DMA buffers; 3 PCI objects on 4 functions | `LossesMarked`, `LocksAgree`, `KeysDecoded`, `ClocksRight`, `NotesKept`, `ModeFollowed`, `BuffersWhole`, `DevicesOwned` |
| `live` | one request of each device and of the previous handler; 2 characters to send, one stop by the peer, 2 characters to receive, a realtime character of the program, and a realtime queue of 3; 3 starts of a sound card; 3 requests and 2 garbled packets; 2 promises; 2 threads with exceptions and termination | `RequestsServed`, `TransfersEnd`, `Answered`, `GetEnds`, `ProgramEnds` |
| `scheduler_invoke_next`, `irq_no_reentry`, `irq_not_chained`, `irq_fallback_alone`, `realmode_newer`, `rs232_rts` | small instances | violations, see [Findings](#findings) |

Each passing run finishes in three minutes. TLC counts a whole component as one action of
`MCLibrary` and its like; with `-coverage` it also reports each expression of the component's own
actions, which is how the bounds were chosen so that every action of every component happens.

Why the bounds are enough: three threads are a main thread, one that acts and one acted upon,
and let the round robin skip, erase and wrap; a third id also lets the set be non-contiguous.
Two handlers on a line exercise head, tail and neighbour of the list; a second line gives
priorities; two or three requests let a device interrupt its own handler while an older request
is served. Two lines in one register and two levels of nesting are what a lost update needs.
Two threads and two handlers put a context at each step of a lock with another in between. A
queue of two places with four characters in, of which one may be put back, fills, overflows and wraps
twice; two calls of `do_update()` on two threads are a call that waits, one above it, and one that
takes its turn; four bytes are the longest prefixed sequence and one more; three voices are the two halves of a pair
and the voice that wants both. Three links of a chain are a first, a last and one in between, and
one construction more than there are objects brings one back. Two blocks for two objects force a
host that moves a block to reuse the place of another.

`CHECK_DEADLOCK FALSE` is in the runs whose parts may stop: an idle machine with no request left
waits (`live`, `traps`), the program ends (`Shutdown`), the devices have nothing more to send
(`devices`, `rs232_rts`), or a bound is reached (`realmode_newer`).

## Fairness

- `Scheduler`: what the processor does by itself is weakly fair (the scan, library code after a
  resume, `kill_all()`). Programs are assumed to be cooperative, as the library demands: a thread
  with the processor yields or ends (weak fairness of that choice for a body), and an unwinding
  thread's destructors get to their end (strong fairness, because each join in a destructor gives
  the processor away).
- `IrqController`: weak fairness of interrupt delivery and of the handlers together, which have the
  processor until they return; requests are bounded, so no device can starve another for ever.
- `Rs232`: interrupts are served (`Handling`), those for received data and the modem's status also when
  the transmitter has another one each time (strong fairness of `PeerHandled`: the UART reports received
  data before an empty transmitter, and the handler is entered until nothing pends), the UART sends
  (`Transmitted`), a peer that stopped us lets us go on (`GoOn`), and the program reads (`Reading`). Nothing
  makes the peer send.
- `SoundBlaster`: pages end and interrupts are handled. `GdbLink`: the stub's code goes on, and GDB
  reads its line; GDB need not ask. `Future`: threads run and promises are settled or destroyed at
  last (`Settle`), and waiters get the processor. `Shutdown`: the clean-up code goes on.

In `live` these are conjoined: where a component does not run its actions are not enabled.

## Findings

Runs that fail on purpose, because a comment or document says otherwise:

- `scheduler_invoke_next` (`InvokeNextActive`): `thread.h:199` promises the next *active* thread, the code takes
  the next node, which may be finished.
- `irq_no_reentry` (`NoReentry`): `no_reentry` is looked at only together with `no_interrupts`; alone it
  does not prevent re-entry.
- `irq_not_chained` (`ChainUnlessAcknowledged`): lines without a manual-EOI flag, and lines whose handlers are all disabled
  (IRQ 0 and 8, which the library assigns statically), never chain, acknowledged or not.
- `irq_fallback_alone` (`NoNullCall`): a fallback handler alone on its line, which is how `soundblaster.cpp:277`
  registers cards older than DSP 4, makes `handle_irq()` call through `entry->first == nullptr`.
- `realmode_newer`: destroying the newer of two real-mode interrupt handlers leaves the older one's
  link to it; destroying the older one then leaves the vector to an object that is gone.
- `rs232_rts` (`RtsComesBack`): `rs232.h:64` says RTS is asserted while there is room in the receive buffer. Once it
  was dropped, only an interrupt raises it again; a reader that empties the buffer does not, the
  peer waits for RTS, and no interrupt comes.

Seen while modelling, and kept out of the passing runs by the constant named:

| where | what happens |
|---|---|
| `IrqController`, `irq` | A handler that changes the flags of its own line before it acknowledges makes `acknowledge()` (live flags) and `handle_irq()` (cached flags) disagree: enabling a `late_eoi` handler loses the EOI, disabling one sends it twice, as in the calibration in `chrono.cpp:297-300`. |
| `IrqController`, one fallback handler for a line | A second one throws, and its destructor unregisters the first. |
| `IrqController`, `alone` | Removing the last ordinary handler destroys the controller of a line with a fallback handler. |
| `IrqController`, `window` | An interrupt of a device of the previous handler between the halves of `assign()` calls through null. |
| `IrqMask`, `irq_unmask` | `unmask()` in a handler while a constructor of `irq_mask` is between the port and the counter opens the line under the new object. |
| `Scheduler`, `fnyield` | Invoked functions that yield re-enter `do_yield()`, which calls and pops the same function again. |
| `Scheduler`, `ThreadsEnd` | `kill_all()` cancels a snapshot: threads created later or suspended may keep a destructor's `join()` waiting. |
| `RecursiveMutex`, `Window` | A handler between the stores of `owner` and `lock_count` leaves the lock with the wrong owner or count. |
| `Event` (`EvOps`), `self` | A callback that is unsubscribed while it runs erases the list node under the loop. |
| `Future` (`FuOps`), `overwrite` | Assigning to a promise that has no result yet drops its state silently: `get()` waits for ever. |
| `LockedAlloc`, `trap`, `torn` | Memory freed by an exception handler while the pool grows goes to the heap; `min_chunk_size` is read and stored with interrupts on. |
| `Memory` (`MeOps`), `below`, `grow`, `destroy` | A resized block that the host returns below the base is resized once more, and when that fails the object keeps the handle of the block that moved; growing DOS memory gives up the mapping first; `~memory_base()` calls its own `deallocate()` only. |
| `Exceptions` (`ExOps`), `in_rethrow`, `in_irq` | A fault while another is rethrown takes the wrong pending exception; a fault in an interrupt handler while a signal pends is taken for the signal, against `async_signal.h:19-27` (`SignalsSeeApplication`). With an empty trampoline pool the program terminates. |
| `TrapChain` (`TcOps`), `oom`, `exhaust` | A constructor that fails half way leaves the vector, or a trampoline, behind. |
| `Realmode`, `nest`, `newer` | The host's re-entry on the callback's own stack (`realmode.h:120-122`); the finding above. |
| `GdbLink`, `behind` | A NACK for a packet while the next is ready resends the wrong buffer (`debug.cpp:912-915`). |
| `GdbRegisters`, `Overlaps` | `set_fpu_reg()` writes 32 bits to fields of 16 (debug.cpp:642-649): with FXSAVE a write of fctrl clears fstat, of fstat the tag word, of ftag the opcode, of fop half of the instruction pointer; with FSAVE fiseg clears fop and fop half of the operand pointer. `DebuggerTold` allows these and no other. |
| `GdbStops`, `quiet`, `irq`, `twice` | A breakpoint stays out of the code after a trap that is not reported (`debug.cpp:1515-1522`); interrupts run over a disabled breakpoint; inserting one twice saves the int 3 as its opcode. |
| `GdbThreads`, `late`, `elsewhere`, `both`, `reconnect` | ^C while the end of a thread is reported leaves it in GDB's list; `vCont;C` freezes a thread that has not stopped; read and access watchpoints at one address are one; another connection clears breakpoints but not watchpoints. |
| `Shutdown`, `grow` | Memory that is allocated in ring 0 lies beyond the limit of its data segment until the next entry. |
| `Clocks`, `full`, `between` | The count just after loading 0x10000 reads as 0; IRQ 8 between the two reads of `rtc::now()`. |
| `Clocks`, `late` | `setup()` masks interrupts (`chrono.cpp:217`): when a tick pends, `irq0()` (127-132) takes the new count for the cycle that the timer still counts with the old one, and the handler that `reset_pit()` leaves behind runs a cycle early and overwrites the odd cycle (176, 190). Time and the BIOS clock are then wrong by up to a cycle, for each such call; `NowIsNow` and `BiosInTime` allow that much and no more. |
| `Rs232`, `torn`, `late` | A mark extended between test and removal is lost (`rs232.cpp:291-297`); an overrun seen late is marked at the wrong place (515-585). |
| `Rs232`, `Mpu401`, `stale` | `underflow()` gives slots back to the handler (`rs232.cpp:286`, `mpu401.cpp:154`) and then throws, or returns EOF, without `setg()`: `eback()` is stale, put-back reaches what the queue no longer holds (`rs232.cpp:350`, `mpu401.cpp:192`), and what it writes there replaces a received character that nobody has read. |
| `Rs232`, `RtChars` | `set_rts()` drops an XON or XOFF that finds the realtime queue full (`rs232.cpp:461`). With `RtMax` 2 and one character of the program in it, TLC finds the XON lost and the peer held for ever; `live` has `RtMax` 3 (the default is 128) and one such character, so that both controls fit. |
| `Mpu401`, `early`, `wild` | ACKs are mistaken when the device takes a command before it has acknowledged the last; `first_error` is not initialized. `StampOfGetArea` (`mpu401.h:48`) does not hold. |
| `Keyboard`, `yield` | A key handler that yields, as `keyboard_streambuf` does when its buffer is full, lets a later scancode overtake. |
| `Keyboard`, `overtaken` | The mutex has no order: of two calls of `do_update()` that set LEDs the older may come last, and the LEDs stay as they were. `LocksAgree` allows stale LEDs after such an overtaking, and only then. |
| `Keyboard`, calls above each other | `do_update()` is an invoked function that yields in `command()`, so `do_yield()` calls it again on the same thread, above the call that waits (`keyboard.cpp:134`, `scheduler.cpp:125-134`, as in `fnyield`). A lock key that the inner call finds makes it wait for a mutex that the outer one holds and cannot give back: neither returns, IRQ 1 stays masked, and the keyboard is dead. The model has these states; `LocksAgree` says nothing of them, because a call is then at the mutex for ever. |
| `KeyText`, full buffer | Every event drops the oldest unread character when the buffer is full, whether it types one or not (`keyboard_streambuf.cpp:50`, 13). `TextKept` says what is lost, not that nothing is. `xsgetn()` of more characters than there are spins without yielding, and takes character 255 for the end (24, 33). |
| `Scancode`, code 65 | `undo_translation_table` turns 0x41 into 0x02 (`scancode.cpp:14`), `set1_to_set2_table` into 0x83 (34), which is F7: with translation undone F7 has no key. With 65 among `Codes`, TLC finds `KeysDecoded` violated. |
| `SoundBlaster`, `late`, `restart` | An interrupt that comes a page late is taken for that page's; the interrupt of the last page stops a transfer that was started meanwhile. |
| `Vbe`, `pmfail`, `block`, `scanline`, `unchecked` | A failed set-up of protected mode leaves an instance without modes; the list may be overwritten in the information block; positions use a stale pitch. |

By inspection only: `irq_mask::enabled()` returns the inverted state (`irq_mask.h:167`);
`promise::swap` names a member that does not exist; `linear_memory(const descriptor&)` uses the
limit where the size is limit + 1 (`memory.h:361`); a PS/2 command that fails calls `reset()`,
whose commands do the same (`ps2_interface.h:198`); a put-back area as large as the receive
buffer blocks reception; `gameport` uses one axis' minimum for all (`gameport.h:126`);
`closest_pixel_clock()` returns a Boolean in real mode (`vbe.cpp:754`); `dma_channel` maps
channels 5, 6 and 7 to index 1 (`dma.h:68`) and 16-bit transfers lose address bit 16, which
`Dma` keeps out by `Highs` and `Pages`; the palette's SIMD loop ignores the limit of 256 entries.

## Proofs

What the runs check of the scheduler, the interrupt lines, the masks, the mutexes, the locked pool,
the chains of exception handlers, the futures, real-mode handlers, breakpoints, termination, PCI,
VBE, DMA, the clocks, the keyboard, RS-232, MPU-401, OPL, scancodes and text, liveness excepted, is
proved here for every value of the constants. All theorems are about the same definitions that the runs check. Where a
component breaks its property (see [Findings](#findings)), the theorem excludes that case by a
hypothesis, which is stated with it.

### The scheduler

`SchedulerProofs` proves for every number of threads, every `MaxDepth`, every set of functions
and every choice of `Ops`:

- `TypeCorrect`: `Spec => []TypeOK`;
- `NoThreadDestroyedEarly`: `Spec => []ThreadsAlive`;
- `HandlesNeverDangle`: `Spec => []HandlesValid`;
- `JoinMeansEnd`: `Spec => JoinMeansFinished`;
- `ExitAfterThreads`: `Spec => []ExitLeavesNoThread`.

The only assumption is `BoundsAssumption` (`MaxId` a positive natural number, `MaxDepth` a
natural number).

*Argument for the scheduler.* The invariant is built in three layers. `TypeInv` adds `Members` to `TypeOK`: main
and the iterator are in the set, ids in the set were given out, main is never detached and has
no handle. Without it even typing is not inductive: `NextId` is a choice from the set, which
must not be empty, and it is a member only because main, the least id, is always there
(`LeastId`, `FirstIsMain`, `NextIdMember`). `AliveInv` adds `Alive`: a node that is not in the set
was detached and finished, handles point into the set, and a thread with a handle is not
detached. The case that matters is `SwitchThread`, which erases only what `Erasable` allows.
`EndInv` adds what `join()` needs: a thread that is not active has no frames left but `dead`
(`DeadAtTop`) and no atexit functions (`HooksDone`), and every `join` frame waits for a thread that
was attached when it was pushed and has been detached since only by the joiner (`JoinsKnown`).
`KillInv` adds `KilledEnd`: a thread that `kill_all()` had on its list and has crossed off has ended,
and the program exits only when nothing is left on the list; a thread that has ended never runs
again (`FinishedStays`), which is why crossing off is final.
Each action has one lemma per layer; the temporal theorems combine `Init`, `Next` and `PTL`.

Two more properties have invariants of their own.

- `FunctionsCalledOnce` and `CallsStayKept`, if no invoked function yields (`"fnyield" \notin Ops`):
  `[](CalledOnce /\ PopSafe)` and `[]CallsKept`. `CallsKept` counts calls and says nothing of the lists,
  so `CallInv` adds where functions are: none is in two places of the lists (`ListedOnce`), one that
  is listed has not been called, but for the head of the list while it runs (`ListedFresh`), and it
  runs on top of the stack (`FnOnTop`), so that the list is popped by who called its head. A
  function that yields breaks just that, as the table above says.
- `NoUnwindInUnwind` and `UnwindsStayApart`, if no exception leaves an invoked function, no handle is
  dropped in an unwind and no forced unwind is swallowed
  (`Ops \cap {"fnthrow", "drop", "swallow"} = {}`): `[]NoAbort` and `[]UnwindsApart`. `UnwindInv` ties the
  three places where an unwind shows: the frames (`Shaped`: `body` is outermost and nowhere else), the
  reason a destructor runs (`CleanMarked`) and what is propagating (`RaiseApart`).

### Interrupt lines

`IrqControllerProofs` proves for every set of handlers and lines, all flags, every number of
requests, and every choice of `Ops` that `Restricted` allows: `LinesStayWhole` (`[]LinesAgree`),
`EoisStayExact` (`[]EoisExact`), `RequestsStayKept` (`[]RequestKept`), `FallbackStaysKept`
(`[]FallbackKept`) and `HandlersAskedInTurn` (`AskedInTurn`). `Restricted` leaves out the three cases in which
the code breaks these properties (handlers enabled inside a handler, a line whose only handler
is a fallback, the vector that is set before the handler is linked: see the findings and the
table) and a second fallback handler on a line, which the code forgets. So the five are about changes made by the
thread, with interrupts between any two of its steps; of the order within a dispatch `AskedInTurn` says only
where the fallback handler and the previous handler come. The invariant `IrqInvariant`
has two halves, which need each other:

- `ListInv`: the handlers of a line are a doubly linked list whose ends the line knows (`Linked`,
  `Ends`), every linked handler is reached from the first one (`Reached`), the line's flags are the
  sum of theirs (`FlagsSum`), and a line that is not hooked has no handlers (`Hooked`). Reachability
  is the delicate part: it is defined as membership in the least set that is closed under `next`
  (`From`), so that induction over the list is not needed: to show that a handler is reached
  after a step, one gives the closed set it would otherwise be missing from.
- `ActivityInv`: the activations of `handle_irq()` under way. A line is in service at the PIC exactly
  while one of its activations has not sent the EOI, and that one is not interrupted by its own line
  (`InService`); a line that is being served is masked only by the activation's own mask object
  (`SelfMasked`); activations nest only where interrupts were enabled (`NestingAllowed`); a device
  that waits has an enabled handler (`Waiting`).

### Masks

`IrqMaskProofs` proves for every set of lines, every number of objects and every depth of
nested interrupts:

- `MaskTypeCorrect`: `Spec => []TypeOK` (counters, and their copies in the contexts, have their width, top
  bit included; how many are counted is part of the next two);
- `MaskProtects`: `Spec => []MaskHolds`;
- `MaskLeavesNoTrace`: `Spec => []MaskRestores`.

Assumptions: there is a line (`LinesAssumption`), the top bit of the counter is out of reach of
the counts (`BoundsAssumption`), and no interrupt handler calls `unmask()` (a hypothesis of the
theorems: without it the last two are false, see above).

*Argument for the masks.* Neither property says anything of the counter, of the locals of an
interrupted context, or of the accesses that are still to come, so neither is inductive. `IInv`
adds for every context what it owns (`Owns`: its objects, and the one its destructor has not
yet counted off), and says that the counter without its top bit is the sum over all contexts
(`CountOK`). The sum over a stack of any depth is not computed but guessed: `base[d]`, the part
of the contexts below `d`, is existentially quantified in `IInv`, fixed while `d` is on the stack
and chosen anew by `Interrupt`. The register is then determined (`RegisterOK`): a line is masked
when objects are counted, when it is not `wanted`, or when some context is in the middle of
masking or opening it (`Turning`). The top bit must remember what the *first* object found
(`MemoryOK`, `ShutAtFirst`), which differs from what the line shows now if a later context is
in the middle. `LocalsOK` says that the copies an interrupted context holds (`current`, `c`) are
still good when it goes on. A step of the running context leaves everything below it alone
(`RunningStep`), so each action is left with four obligations about the top of the stack.

### Mutexes

`MutexProofs` proves `MutexRefinesRWLock`, `SSpec => ImplementsRWLock`, for any threads and
handlers, without an assumption. `SharedInv` says that the flag is set exactly while one context
has it (`FlagOwned`), that the count is the number of readers (`ReadersCounted`) and that a writer,
which keeps the flag, is alone (`WriterAlone`). From it every step maps to one of `RWLock` or to
none: `CheckReaders` to `AcquireWrite` when it finds no readers, `Increment` to `AcquireRead`, the two
unlocks to the releases.

It also proves `OwnersStayOnly`, `RSpec => []OwnersOnly`, for any threads, handlers
and depth of locks. Assumptions: ids of threads, ids of interrupts and no owner are different
(`OwnersAssumption`; in the code they are the three alternatives of a variant), and handlers do
not come between the stores of `owner` and `lock_count` (`~Window`, see the table).
`MutexInv` describes the stack of contexts by levels. An interrupted `lock()` has tested an owner that may
have changed since: `StepsOK` says that who was about to take a free lock finds it free, or
held by a handler above (which gives it back before it returns), that who was about to lock once
more is still admitted, and that at most the level directly below the running one is
about to clear the owner. That `unlock()` finds the count zero only when nobody has locks needs the sum of all
locks: as for the masks it is guessed, `base[i]` being the locks below handler `i`, which cannot
change while `i` runs.

### The locked pool

`LibraryProofs` proves `PoolStaysKept`, `PoolSpec => []PoolKept`, for any blocks, size of the pool
and number of regions, if exception handlers free nothing while the pool grows and handlers do not
come between the read and the write of `min_chunk_size` (`"trap"`, `"torn"`, see the table). `AllocInv`
adds that `irq_alloc` is null only while the pool grows, when no handler runs (`MaskedApart`), and
that `min_chunk_size` is never more than the largest free chunk, but for the thread that has just
allocated and not yet stored it (`MinKnown`), so that what `resize_irq_alloc()` concludes from it is
true. That a largest chunk exists is not a matter of induction: the invariant keeps a bound of the
regions (`Bounded`), and the least distance from it exists because natural numbers are well-founded
(`ChunkMax`).

### Chains of exception handlers

`TrapChainProofs` proves `ChainsStayIntact`, `TcSpec => []ChainIntact`, for any handlers and any size of
the pool. Assumptions: the host's handler, null and the trampolines are different, the size is a natural
number, and no constructor fails half way (`"oom"`, `"exhaust"`, see the table). `ChainInv` says of each
list that `prev` leads to the next older trampoline, `last` to the newest, that `next` inverts `prev`
(`Doubly`), and that the address a trampoline chains to is that of its `prev` (`Over`); a trampoline is in
the pool once or has one owner. The lemmas `CreateSane` and `DestroySane` are about records of lists,
because a construction is two creations: the second starts from what the first returns.

### Exceptions and signals

`TrapChainProofs` proves `ExceptionsStayArriving`, `ExSpec /\ TcSpec => []ExceptionsArrive`, for any pools, signals
and depth of contexts, with the assumptions about the chains and if no fault that throws hits
`rethrow_cpu_exception()` (`"in_rethrow"`, see the table). The property lists what is in flight by position
in the stack of contexts, as ranks in a set, so that a push, a pop and a replacement each have one lemma
(`OrderGrows`, `OrderShrinks`, `OrderSame`) and no recursion over the stack is needed. `ExInv` adds that only the
frame of an exception or of a signal is redirected and that the application is at the bottom
(`Stacked`), and the fact that the argument turns on: nothing that will throw is directly above a function
that rethrows (`RethrowAlone`), or the unwinding would take two contexts and one pending exception. For
the signals it adds that the function which keeps the limit low without a pending signal is one that
still handles (`LowForSignal`).

### Events and futures

`LibraryProofs` proves `AllDeliveredOnce`, `EvSpec /\ FuSpec => []DeliveredOnce`, for any callbacks, nodes and
overlapping calls, if no callback is unsubscribed while it runs (`"self"`, see the table). The list is reasoned
about as an order of its nodes (`BeforeIsOrder`), which erasing and adding at an end keep (`Erased`,
`Added`). `EvInv` adds that a call which goes on has visited its node, everything that stays subscribed
before it and nothing behind it (`UpToHere`). Of the other calls it needs that their nodes stay in
the list: a callback that runs is kept alive by the call (`NodeIsKept`), so no loop finds it
expired. `EventAssumption` says that there is a callback and that "none" is not a node or a call.

The half about futures is a theorem of its own: `LibraryProofs` proves `ResultsTakenOnce`, `FuSpec => []TakenOnce`, for any states, promises and threads, if
`NoState` is no state, and also when promises that were not kept are assigned to. `OnePromise` is
what makes it inductive: a state has one promise, and as long as `get_future()` was not called,
nobody has its future or its result.

### Memory and descriptors

`LibraryProofs` proves `MemoryStaysHeld`, `MeSpec /\ DeSpec => []MemoryHeld`, for any objects, blocks, sizes and size of
pages, if the host does not return a resized block below the base, DOS memory that does not begin a page is
not made larger, and objects of DOS memory and mappings of DPMI 0.9 are not destroyed (`"below"`, `"grow"`,
`"destroy"`, see the table). `MeInv` adds that an object which has ended holds nothing and that the
host knows a block by the page that the object has (`Backed`), so that a block the host gives out is
nobody's (`FreeIsNobodys`). The limit is arithmetic: sizes are rounded up to pages, and a larger one
does not end earlier (`EndGrows`); that is what makes the offset in the first page, which is added to the
size for the host and taken from it for the object, sound. `DeInv` counts no owners: it says
that the set of a selector's owners is empty or has one member (`OneOwner`), and `LimitReaches` that both ways to
write a limit, with different rounding, reach far enough. `DescriptorAssumption` and `MemoryAssumption` say that the
pages are not empty and that "none" is not a selector, a descriptor or a block.

### Real-mode handlers

`TrapsProofs` proves `HandlersStayAsked`, `RmSpec => []HandlersAsked`, for any handlers, number of
constructions and depth of nested calls, if handlers are destroyed in the order in which they were made and
the host enters the callback again only on a stack of its own (`"newer"`, `"nest"`, see the findings).
Objects in scopes are destroyed newest first, which is what the run `realmode_newer` shows to fail.
`RmInv` says that the links are the ages: `prev` of a handler is the newest of those made before it, `next`
the oldest of those made after it, `last` the newest of all (`LinksByAge`, `AgesApart`). Then what is
reached from `last` is what lives (`ReachedIsLive`: the newest one missing is the `prev` of one that is
not), which is what the recomputed flag needs; and a call that stands at a handler has asked all newer
ones that still live.

### Breakpoints

`TrapsProofs` proves `BreakpointsStayHit`, `StopsSpec => []BreakpointsHit`, for any number of
breakpoints and stops and any ring of instructions with its trap mask and interrupt, without `"quiet"`, `"irq"`
and `"twice"` (see the table): where two breakpoints are next to each other, or one stands in a range
that is stepped, the trap behind the first is not reported and the theorem says nothing. `GsInv` says that an int 3 is in the code only where the table has the
byte it replaced (`TableKept`), what a trap mask that is held forbids (`MaskHeld`), what the trap flag
is set for (`TrapFlagMeant`), and, the heart of it, why a breakpoint can be out of the code while the
program runs: it goes on from there and will trap right behind, or a mask has put the report off
(`DisabledMeant`).

### Termination and ring 0

`TrapsProofs` proves `ExitsStayClean`, `ExitSpec => []ExitsClean`, for any depth of `ring0_privilege`
objects and any memory, unless memory that is allocated in ring 0 lets the limit grow there (`"grow"`). It
speaks of the state in which the program exits and of ring 0 until then, not of how often a handler is
called. `ExitInv` adds that only the outermost
object may leave ring 0 (`OutermostLeaves`) and what `terminate_cleanup()` has undone at each of its steps
(`Undone`), for it may be entered again from one of them.

### Devices

`DevicesProofs` proves eight properties of the run `devices`:

- `DevicesStayOwned`, `PcSpec => []DevicesOwned`, for any devices, objects and searches. `PcInv` relates the
  map, which is made late and freed with its last entry, to the objects, both ways.
- `ModeStaysFollowed`, `VbSpec => []ModeFollowed`, for any BIOS, modes and depths of whole bytes
  (`WholeBytes`; the code divides the depth by 8 and 15 bits are listed as 16) and without the four cases of the
  table (`Undisturbed`): no call of the BIOS fails, and no scanline length is set where positions are
  computed. `VbInv` adds that, where the code computes a position itself, the pitch is still the
  mode's, and that a scheduled start is the one last asked for.
- `BuffersStayWhole`, `DmSpec => []BuffersWhole`, for any arena, buffers and transfers, if 16-bit transfers use channel 5
  and even pages (`TransfersInReach`: what `dma_channel` can express, see the end of the findings; channels 6
  and 7 are programmed as others, and on odd pages bit 16 of the address is lost).
  `BuffersFit` and `BuffersApart` are preserved because DOS gives blocks that are free (`FirstFitFits`) and the
  constructor keeps those that cross a page until it has one that does not (`HeldGivenBack`); that the
  registers reach the same addresses is arithmetic of quotients and remainders (`Quotient`, `Divided`).
- `ClocksStayRight`, `CkSpec => []ClocksRight`, for any period, divisors, tolerance and rate, also when the rate changes
  while a tick pends, if the counter is not read in the cycle after a load of 0x10000, nor the RTC
  changed between two reads of its ticks (`ReadsInStep`: `"full"`, `"between"`); readings are compared
  with time while the rate stays. `SinceCounted` and `BiosCounted` bound the difference (`Off`, `Drift`)
  between what passed and what the driver makes of its counts by a cycle for each set-up that came late
  (`Slip`), and for the BIOS clock by `Tolerance` for each set-up (`Slack`). `CycleKnown` says that the next
  cycle is the one that the driver is due to take it for (`Due`), also while a reset is under way.
  While the cycle that pends is another one (`Unmatched`) the bound is a cycle tighter (`Allowed`), which
  is what `irq0()` uses up when it counts the wrong one. `ReaderRight` says that a reading during
  which no tick came is right but for `Slip`.
- `LocksStayAgreed`, `KbSpec => []LocksAgree`, for any keys, threads, number of scancodes and depth of calls above
  each other, if key handlers do not yield (`KeysInTurn`). `LocksAgree` itself excepts what the
  table names: LEDs after an older command overtook a newer one, and all after a command failed or
  took a scancode for its answer. One call runs, and one has the mutex (`OneRuns`, `MutexHeld`); those that
  wait for it are ordered by when they came (`InLine`). The invariant `OnTheWay` says that the scancodes still in the
  queue and the port lead from what the driver knows to what was typed. `Leads` is not computed:
  it asks for a function that has the state after each scancode, so that appending one (typing) and
  dropping the first (the driver) are lemmas about that function, without induction. `LedsTold` says
  that the newest command (`Newest`) carries the locks, unless one was overtaken.
- `LossesStayMarked`, `RsSpec /\ MpuSpec => LossesMarked`, for queues and FIFOs of every size, any flow
  control, `eof_on_break()` set or not, and any number of characters, if the program puts back only what the
  queue holds, no handler runs between the test and the removal of a mark and the UART reports an
  overrun when `do_sync()` begins (`RsCalm`: `"stale"`, `"torn"`, `"late"`), and if the MPU-401 takes no
  command before it has acknowledged the last and `first_error` is initialized (`MpuCalm`: `"stale"`,
  `"early"`, `"wild"`). The property is about one step of the reader; what makes it true is
  spread over the UART, the handler, the marks and the get area:
  - Marks are in strict order, none lies before the end of the get area, and none is empty but the one
    that `pop()` is taking off (`RsMarksInOrder`), so the reader cannot pass one.
  - In the queue a character follows its predecessor's number, or a mark at its place says overflow,
    or it is the next to be read and that error has been raised already (`RsStored`, `Told`).
  - The get area begins where the queue does, before that (it is stale), or where the ring wraps
    (`RsRun`), so that what is put back, and the rest of a run that goes with it, is in the queue (`PartHolds`).
  - Where a break is no end of the file, the character at its mark is the break (`RsBreaks`).
  - What the FIFO holds goes on from a number that is either the queue's or marked at the queue's end,
    and it ends where the peer will go on unless an overrun is recorded (`RsOnTheWay`). `RsLeads` asks for
    a numbering instead of computing one, as `Leads` does for the keyboard.
  - An overrun is reported with a full FIFO, so the mark that `do_sync()` makes when it has read
    `Fifo` characters is at the queue's end (`RsHandlerKnows`); a character that arrived while it read
    would be behind that mark, which is the case `"late"`.
  - `MpuInv` has the same parts; `MpuOpening` says that at most one ACK is on its way during the
    detection and none when the stream buffer opens, so that none is read as a byte.
- `NotesStayKept`, `OplSpec => NotesKept`, for any voices, priorities, channels and pairs and in every
  mode, if no channel belongs to two pairs and 255 is none of them (`OplShape`). `OplInv` says of the
  whole record `chip` what `NotesOwned` says of the variables, so that every step of an action has a
  lemma: a key is written (`WriteKeeps`), a voice is removed, attached or moved (`RemoveKeeps`, `Attach2`,
  `Attach4`, `MoveKeeps`), with the key of one channel wrong in between (`OplKept(s, {c})`). That
  the search ends at a channel whose sounding voices have no more priority (`SearchFound`) is proved
  for any number of candidates: `Search` is a recursive function, and where it exists, and what
  it returns, follow from the least length for which it would not be so (`WFMin`).
- `KeysStayDecoded`, `ScSpec /\ ScApart(scSet) /\ KtSpec => []KeysDecoded`, for any bytes in any number and any
  buffer, whenever keys are extracted; where the controller translates, but for F7 (see the table) and
  0 (`ScApart`). `ScInv` says that the keys are those of the sequences up to some end P in the bytes sent,
  and that the queue holds what was queued of the bytes after P (`ScSent`: `at[i]` is where that of the i-th
  ends; it is asked for, not computed, like `Leads`). A byte more is `SentMore`, a sequence less is
  `SentLess`; `SentFirst` says that the first sequence queued is that of the bytes up to the next end, with
  the same key although a break code was queued as two bytes (`SameKey`). `KtInv` says that what is unread
  is what was typed, but for the oldest character each time the handler of an event, or the reader, synced
  a full buffer (`Spill` in `KtUnread`), that there is room again while that handler yields (`KtRoom`), and that
  the number held with Alt is the one typed, or
  without digits half of `Width`, which is no character; `Width` is even, so the first digit
  pushes that half out.

### Model-checked only

Liveness under fairness is outside the prover's reach, as is `ENABLED`. Of the safety properties
only `DebuggerTold` is model-checked only: it compares the digits and run lengths of whole packets
with recursive functions and folds. No module uses `RECURSIVE`.

## Not modelled

- Steps are as large as the code between two points where something else can run. Inside a
  step, library containers are assumed atomic, although `invoke()` appends to a `std::deque`
  with interrupts on (`detail/scheduler.h:71`).
- Memory contents, stacks and register images; the locked stack that nested interrupts halve
  (`stack.h:21`), because whether frames overlap depends on how large the application's are; pages
  that are not locked; FPU state.
- The entry code of interrupts, the slave's EOI, spurious interrupts, statistics.
- A moved-from `jw::thread` (its move constructor leaves two owners) and an atexit function that
  registers another. `call_once`.
- Calibration of the time-stamp counter, detection of devices, mixers, direct output of sound,
  register values and delays of the OPL, and its option `ignore_priority`; timing formulas of video modes, text modes, ANSI
  sequences, the game port's timing loop.
- In the GDB stub: parsing and formatting, reading and writing of memory, the packets `?` and
  vCont `t`. A write of registers that is refused half way has written the earlier ones; a
  breakpoint on a hard-coded int 3 is never passed; neither is modelled.
- Wrappers of single host calls, port accesses and instructions, and error texts.
- Pixels, vectors, SIMD and samples: arithmetic without state, whose correctness is a matter of
  bits over large domains and not of behaviour.
- What the hosts and devices do is what the code relies on, no more.

## Plan

What could be added:

- `IrqController` with two controllers, for the second EOI and the slave's lines.
