# TMLCS kernel: TLA+ models, model checking and proofs

TMLCS is a freestanding x86-64 kernel in C++ (`src/kernels/x86_64/src`, called
`K/` below): boot code, descriptor tables, interrupt controller and timer, serial
and VGA output, logging and panic, spinlocks, a physical page bitmap, a heap and
a slab allocator. It has no processes and no file system. One CPU is started
today, but the code is written to be SMP-safe, and its comments and tests claim
so; hardware interrupts run on top of the main line once `kernel_main` has
called `interrupts_enable()`. The difficult behaviour is therefore

* interleavings: two CPUs, or a CPU and its own interrupt handler, inside the
  same structure between two machine instructions;
* the interrupt flag, which every lock saves, clears and restores;
* allocators that hold one lock while they call another allocator, or give a lock
  up between two halves of an operation;
* partial failure: half-claimed runs of pages, half-done frees, no memory left
  in the middle of a slab allocation;
* fatal paths (exceptions, panic), which interrupt code that holds locks.

## 1. Inventory

State, operations, interactions and what makes each part correct. "Modelled"
names the modules; the plan for the others is in section 3.

| Part (under `K/`) | State | Operations | Interacts with | Correct when | Modelled |
|---|---|---|---|---|---|
| `lib/spinlock` | `locked`, `interrupts_enabled` of each lock; RFLAGS.IF | acquire, try_acquire, release; serial/VGA wrappers; `serial_force_unlock` | every part with a lock; interrupts | one owner; owner never preempted on its CPU; flag restored exactly; a waiter is served; no CPU waits for itself | `Spinlock`, `LockSpec`, `SpinlockProofs`; `serial_force_unlock` in `Console` |
| `memory/bitmap` | `g_page_bitmap` | init, alloc, alloc_contiguous, free, free_contiguous, queries | called by heap under `g_heap_lock`, or directly | a page has one owner; no page leaks; search exact | `PageBitmap`, `PageAllocSpec`, `PageBitmapProofs` |
| `memory/heap` | `g_page_alloc_count`, `g_slab_available` | kmalloc, kcalloc, krealloc, kmem_free_auto, kmalloc_size, kmalloc_align | slab (calls and is called by it), bitmap | blocks disjoint; a pointer goes back to the allocator it came from; nothing leaks | `KernelHeap`, `KernelHeapProofs` |
| `memory/slab` | caches, slab headers in their pages, partial/full lists, counters | kmem_alloc, kmem_free, init, shutdown, per-cache API | `kmalloc(SLAB_SIZE)` with `g_slab_lock` held; `kmem_free_auto` after releasing it | lists hold exactly the slabs; free list and holders partition the objects; counters exact | `KernelHeap`, `KernelHeapProofs` |
| `memory/early_alloc` | bump pointer, pool bounds | init, alloc, align | boot | blocks disjoint, aligned, in the pool | `EarlyAlloc` in `Output`, `OutputProofs` |
| `memory/guard` | page tables | stack_guard_init | boot | guard page not present | no |
| `arch/x86_64/idt/irq` | `g_irq_mask`, handlers, counts, depth; PIC masks | init, enable/disable, register, dispatch, EOI | IDT stubs, PIT handler | mask agrees with PIC; every dispatch ends its own interrupt; depth returns; a request is served | `Interrupts`, `InterruptsProofs` |
| `arch/x86_64/idt/idt` | IDT, exception handlers | idt_init, set_gate, exception handler | serial, VGA, halts | a fatal exception reports and halts; `#BP` returns | gates and `interrupts_enable` in `Spinlock` and `Interrupts`, exceptions in `Console` |
| `drivers/pit` | ticks, milliseconds, frequency, `ms_remainder`, callback | init, set_frequency, reset, wait, tick handler | IRQ 0 | milliseconds follow ticks; device runs at the reported rate; waits take their time and end | `Timer`, `TimerProofs` |
| `drivers/serial` | error state, port, lock | init, write, read, clear_error, reinit | log, panic, everything | what is reported sent is sent, once and in order; a timeout shows until cleared | `Serial` in `Output`, `OutputProofs`; lock in `Console` |
| `drivers/vga`, `drivers/console` | buffer, cursor, colour, lock | put, scroll, clear, atomic sections, early functions | log, panic, exceptions | the screen shows the end of what was printed; no lock taken in handlers | `Screen` in `Output`, `OutputProofs`; lock in `Console` |
| `core/log`, `core/panic` | level, `g_log_lock` | log_output, hex dump, panic | serial, VGA | lines whole or marked as cut; lock order log → serial/VGA; panic always halts after its message | text in `Text` and `Output`, `OutputProofs`; locks and panic in `Console`, `ConsoleProofs` |
| `arch/x86_64/gdt`, boot assembly, linker script | tables | set up once | - | encodings | no |
| `lib/string`, `lib/utils` | none | strings, number formatting | all output | the digits are the value's | numbers in `Text`, `OutputProofs`; strings no |
| `core/coverage`, `core/debug` | counters of test builds | - | - | - | no |
| `arch/x86_64/include` | none | atomics, barriers, port I/O | all | each is one atomic step | as steps |
| `kernel/main.cpp` | boot phase | initialisation order, degraded paths | everything | each part used only when initialised | `Output` |

The hazards, each at its line and with the properties that watch it, are listed in
`PROJECT.json`; one that no property watches has a note that says why. Three of these
the code meets and a property that comes near exempts: `WireShowsReports` orders texts
by critical sections, so another text may come between a sign and its digits;
`MaskAgrees` exempts lines behind a cascade masked by `irq_disable(2)`; `ClockAgrees`
exempts a clearing of the counters with a tick inside it.

## 2. The modules

### Spinlock (`K/lib/spinlock`), LockSpec, SpinlockProofs

`LockSpec` says what the header promises: a lock has at most one owner, only its
owner gives it back, and a context that owns a lock is not preempted by another
context of its CPU that then takes one.

`Spinlock` is the code, one step per access to `locked`, `interrupts_enabled` or
RFLAGS.IF:

| code | steps |
|---|---|
| `cli_save` (spinlock.cpp:64-72) | `Pushfq`, then `Cli`; an interrupt may come between |
| `lock cmpxchg` loop (158-243) | `CasWins`, `CasLoses`, `Pause` |
| winner stores the flag in the lock (211-219) | `MarkSaved` |
| failed `spinlock_try_acquire` (286-288) | `CasLoses`, then `Sti` |
| `spinlock_release` (291-342) | `ReadSaved`, `ResetSaved`, `Unlock`, `Sti` |
| IRQ stub and `iretq` (interrupts.asm:246-271) | `Interrupt`, `Iret` |
| `interrupts_enable` (idt.cpp:213) | `InterruptsEnable` |

A CPU has two contexts, its main line and an interrupt handler. Handlers do not
nest because IRQs use interrupt gates (irq.cpp:114-133), which clear IF, and no
handler sets it. `MayNest` is the lock order of the callers: the kernel takes
`g_heap_lock` inside `g_slab_lock`, and the serial and VGA locks inside
`g_log_lock`. Locks are released innermost first, as all callers do. `base` is a
history variable: the flag a main line chose for itself.

Memory is sequentially consistent: on x86 every access that decides something is
a locked instruction, a store to the lock word by its owner, or a load of data
the owner alone writes, so store buffers cannot change an outcome here. Null
arguments, which return at once, are left out.

### PageBitmap (`K/memory/bitmap`), PageAllocSpec

`PageAllocSpec`: a run of free pages is granted in one step, a page is returned
by its owner. `PageBitmap` has one step per atomic access to a bitmap word: the
load and compare-exchange of `bitmap_alloc`, the scan of
`bitmap_alloc_contiguous`, its `fetch_or` per page, its rollback and its restart,
the `fetch_and` per page of `bitmap_free_contiguous` and its rollback. The
operands and locals of a call are variables indexed by client. `heap_lock` says
whether calls are serialised (what `K/memory/heap.cpp` does) or not (the
"lock-free" use that the comments of bitmap.cpp describe). Under the lock clients
also pass runs that are not wholly theirs, which is what the error paths are for;
without it only when the constant `StaleFrees` lets them.
The cached first-free hint does not exist in the code: each search starts at 0.

### KernelHeap (`K/memory/heap`, `K/memory/slab`)

One module, because the two call each other. A step is a critical section or the
code between two: `kmem_alloc` keeps `g_slab_lock` (`slab_lock`) across
`kmalloc(SLAB_SIZE)`, which is a section of its own under `g_heap_lock`
(`NewSlabPage`, `NoSlabPage`); `kmem_free` of the last object clears the magic,
gives the lock up (`EmptySlab`), and frees the page afterwards (`FreePages`).
`krealloc` is the code's chain `kmalloc`, copy, `kmem_free_auto`: the block it
replaces is in `old`, the new one in `new`. `kcalloc` cannot be told from `kmalloc`
until that returns; then `Memset` follows. Sections use the locks as atomic
units, which `Spinlock` justifies, and the bitmap as an exact first-fit search,
which run `Bitmap` justifies.

What is abstracted: bytes are size classes (one per cache, then one per number
of pages); a pointer is a page and a slot; the contents of a page are the single
fact that matters to the code, whether its header word, the one at the place of
`slab_t`'s field `magic`, is `SLAB_MAGIC` (`magic`). `Scribble` lets the holder of a
run change that word in any page of it; `krealloc` copies it and `kcalloc` clears it,
in the run's last page only if what it zeroes reaches that far.
Callers free exactly what they were given; wrong pointers, which the code
ignores, are left out. `live` and `slabs` are history variables.

### Console (`K/core/log`, `K/core/panic`, exception handler, the locks of the drivers)

What a CPU runs is a stack of frames: the main line, then the handlers that cut
into it. A frame is one call, as the sequence of what it does to locks and
devices: `log_output` is `Locked("log", write_output)`, `write_output` is
`serial_write_str` followed by `vga_put_string`, and `panic` is `cli`,
`serial_force_unlock`, the same two writes, and `hlt`. One step is one
instruction of the running frame: `CliSave`, `Take` (compare-and-swap and store
of the flag), `WriteDevice`, `Reset`, `Unlock`, `Cli`, `ForceUnlock`, or `Return`
(`iretq`). `Interrupt`, `Breakpoint` and `Fault` push a frame through an interrupt
gate. The finer steps of a lock are in `Spinlock`; here they are merged where no
other step can tell, but `ForceUnlock` breaks the ownership that `Spinlock`
proves, so the lock word and the saved flag stay explicit.

The panic screens are several writes under one lock each; they are one here. The
handler of a maskable interrupt may log to both devices: vga.h warns of a deadlock
there, which cannot happen, since a lock masks interrupts while it is held. What
can cut into a critical section is an exception. `Fault` is any exception that
halts, NMIs included, and happens only while a single CPU is online, as the kernel
runs today. A breakpoint is assumed in none of three places, where the
kernel has no `int3`: the loop that waits for a lock, serial output, fatal code.
`Misuse` adds what the code does not stand: a fault while the VGA lock is held, and
writes between `serial_lock` and `serial_unlock`.

### Interrupts (`K/arch/x86_64/idt/irq`)

The IRQ layer of one CPU over its two 8259 controllers. `main` is the API call of
the main line: `irq_enable`, `irq_disable`, their `_all` forms and `irq_shutdown` go
line by line (`UpdateMask`, `ReadPort`, `WritePort`, and for a slave line
`ReadCascade`, `WriteCascade`), and an interrupt may come before each access.
`irq_init`, registration and `irq_reset_counts` are one step each. `frames` is the
stack of interrupt frames; each goes through `irq_dispatch` (depth, count, limit),
`RunHandler`, `EoiSlave`, `EoiMaster`, `Leave` and `Iret`. A handler may run `sti`,
which is what makes dispatches nest and what the nesting limit is for. The
controllers are modelled as the code programs them: fixed priority, non-specific
EOI, the slave asking on line 2 (`irr`, `isr`, `pic_mask`).

The mask functions are called after `irq_init`, as all callers do. Frames past the
decrement of the depth and before `iretq` are not counted by the code, so
`DepthBounded` does not bound the stack. `irq_disable(2)` after `irq_enable(8)`
leaves `irq_is_enabled(8)` at 1 although the line is cut off: `MaskAgrees` claims of
the cascade only that it is open if it is reported enabled. Spurious interrupts,
which the code does not treat, and handlers that call the mask functions, which
no handler does, are left out.

### Timer (`K/drivers/pit`)

`pit_init_frequency` is a sequence of stores (`ClearTicks` to `Ready`), as are
`pit_reset_ticks` and the polls of the waits; `pit_irq_handler` runs whole between
any two of them, since interrupts are off in it. The device is channel 0 with its
low/high byte protocol and the count it runs with. Counters wrap at `Word`, the
sum in `pit_wait_us` at `Argument`. `waited`, `torn`, `main.start` and `main.rem` are
what the properties remember of a wait or a clearing. Whether IRQ 0 arrives is
one flag; `Interrupts` has its way through masks and controllers.

### Text, Screen, Serial, EarlyAlloc, OutputSpec, Output

`Output` is the kernel's main line as a user of its output: `kernel_main` with the
choice of output, the initialisation order and its failure paths, and then any
calls of the drivers' API. What it has to do is a sequence of sections (`todo`):
what runs under one lock, or one store without a lock. A handler prints between
any two (`HandlerPrints`). The pieces are operators on the state of one component
each:

| module | code | state |
|---|---|---|
| `Text` | decimal_utils.h, hex_utils.h, conversions, message and line of log.cpp | none |
| `Screen` | vga.cpp: detection, cells, cursor, colour, scrolling, tabs, early output | `screen` |
| `Serial` | serial.cpp: error state, initialisation, re-initialisation, writes that time out; the UART's divisor latch and line | `serial`, `uart` |
| `EarlyAlloc` | early_alloc.cpp: alignment and bounds in wrapping arithmetic | `pool` |

`OutputSpec` says what all this promises, without the code's algorithms: the
numeral of a value is the one sequence of digits that has this value (found with
`CHOOSE`), and text is typed on a page that has no end, of which the screen shows
the last lines. Each section that writes carries the text the code makes and the
text the call asks for; the history variables `reported`, `page` and `blocks`
collect the second.

Words are small constants (4 and 6 bits), so that the least and the greatest values
occur. Messages are a character or two; brackets and colons of log lines are left
out. A byte stored to the transmit register is sent at once: what the FIFO holds
when it is cleared or the rate changes is not modelled, nor are
`serial_read_char`, the other ports, and the registers that need no protocol (IER,
FCR, MCR). `serial_init` on an open port, as tests/test_serial.cpp:12-70 does it,
leaves `initialized` at 1 while the divisor latch is open (serial.cpp:203); a
handler that printed then would store its text into the divisor. The model
assumes that none does (`test_serial_baud_rates`); `serial_reinit` closes the port
first and needs no such assumption.

## 3. Plan

1. Spinlock, PageBitmap, KernelHeap with their abstract specifications, runs
   and the spinlock proofs; `Console`: log, serial and VGA locks with exceptions,
   breakpoint, panic and `serial_force_unlock`. *Done.*
2. `Interrupts`: masks, dispatch, EOI, nesting. `Timer`: tick handler against reset,
   rate changes and waits. *Done.*
3. `Text`, `Screen`, `Serial`, `EarlyAlloc`, composed in `Output` with the boot order
   and checked against `OutputSpec`. *Done.*
4. Proofs. Spinlock, with the refinement of `LockSpec` and no self-deadlock;
   PageBitmap, with ownership, exact searches and the refinement of
   `PageAllocSpec`; Interrupts; Timer; KernelHeap, Console and Output: with them, every
   invariant and every step property that a passing run checks. *Done.*

## 4. Runs

| run | instance | asks |
|---|---|---|
| `Spinlock` | 2 CPUs, interrupts on one, 2 locks, one nested in the other; `FairSpec` | mutual exclusion, no preemption, flag restored, saved flag is the owner's, no CPU waits for itself, implements `LockSpec`; every waiter gets its lock; interrupts always come back |
| `SpinlockTicket` (violation) | the same instance, `ScheduledSpec` | "a simple ticket lock for fairness" (spinlock.h:27) |
| `Bitmap` | 2 clients, 2 words of 3 bits, 1 kernel page, runs of 2 and 3; with and without `g_heap_lock`, with it also wrong frees | one owner per page, no leak, implements `PageAllocSpec`; under the lock searches are exact |
| `BitmapRollback` (violation) | wrong frees, no lock | the claim of bitmap.cpp:310-317 |
| `HeapSafety` | 2 threads, 3 pages, caches of 2 and 1 objects per slab, runs of 1 and 2 pages | no overlap, routing, exact lists, bitmap, counters, lock not leaked |
| `HeapReportedSize` (violation) | the same | "the actual size allocated" (heap.h:258) |
| `ConsoleLocks` | 1 or 2 CPUs online, handlers two deep and a fault on top | one order of log lines, fatal code keeps the forced lock, stays masked, reports and halts; other calls return |
| `ConsoleFatalVga` (violation) | 1 CPU, faults also under the VGA lock | panic prints and stops (panic.h:14-19) |
| `ConsoleNested` (violation) | 1 CPU, writes inside `serial_lock` | the usage shown in serial.h:111-117 |
| `Interrupts` | a master line, the cascade and a slave line, nesting limit 2, 3 requests; `FairSpec` | in service is what the frames have to end; depth and limit exact; masks agree; an open request is served |
| `Timer` | 20 milliseconds to the second, rates 8, 20, 21 (refused) and 3 (clamped), counters that wrap at 32; `FairSpec` | ticks and milliseconds tell one time; the device runs at the reported rate; waits take their time and end |
| `Output` | 3 lines of 4 columns, words of 4 and 6 bits, every boot path, then 2 calls; 1 line of a handler, 1 timeout | the line carries what was asked and reported sent; the screen shows the end of the page; early blocks are aligned and disjoint |

Why the bounds are enough. Spinlock: two CPUs and one handler give both kinds of
rival, a remote one and one that suspends its victim; two locks give nesting,
which is what can break the saved flag. Bitmap: runs of two and three pages in
two words of three bits fit at several places, cross the word boundary, and can
be lost after one or two claims; two clients suffice for a lost compare-exchange,
a lost claim and a rollback that meets an allocation. Heap: three pages let one
slab, one page run and one growing slab coexist, and run out; a cache with one
object per slab is the code's 2048-byte case, which skips the partial list; with
two objects a slab is partial and full, and lists reach length two or three.
Console: two frames give every pair of a main call and
a handler, on each of two CPUs; on a single CPU a fault comes on top of both, so
that a panic can cut into a handler or another panic.
In these runs there are no counters to cut off: they explore the whole state space.
Interrupts: two handlers that run `sti` and a third request reach the limit and
pass it; the slave's line and the cascade show the order of the two EOIs;
`MaxRaised` (requests altogether) is the one bound. Timer: a tick takes 1, 2.5 or
6 2/3 milliseconds, so remainders occur and survive a rate change; a delay of 4
milliseconds and one of 45 microseconds (rounded up to 3) cross the wrap of the
counter at 32; the slowest rate does not fit the two bytes of the divisor and
is clamped. `MaxTorn` lets one tick fall between the stores that clear the
counters. Output: every pair of calls, from whatever boot left behind, with the
handler's line and the timeout at every place. The texts fill the screen and
pass it by one character, or hold every control character; the pool begins at
an odd address and two requests use it up. `MaxCalls`, `MaxPrints` and
`MaxTimeouts` are the bounds. The run asks for no liveness and stops where the
kernel halts or the calls are used up, hence `CHECK_DEADLOCK FALSE`.

### Fairness

`ScheduleFairness`: a context inside the lock API goes on (CPUs execute
instructions; a suspended main line is resumed because handlers end), and
critical sections end. Strong fairness on the release of the outermost lock says
that a section does not take inner locks for ever. Nothing obliges a context to
start an acquire. `BusFairness`: a processor that keeps sampling a lock which
keeps becoming free finds it free at some time. No code provides that; it is what
real memory systems do, and run `SpinlockTicket` shows that without it
`WaiterServed` fails, so the lock is not the fair ticket lock the header names.

`Fairness` of Console: each depth of the stack of a CPU that is online makes
progress, strongly, for the same two reasons: handlers end and do not come so
often that the code below them never runs, and a lock that keeps becoming free is
found free. A main line need not call anything, and no fault need happen.

`FairSpec` of Interrupts: weak fairness of the main line's step, of `Acknowledge` (a
CPU with interrupts on accepts a request that persists) and of the innermost
frame's next step. Handlers end, which the code relies on. Devices need not ask,
nor the main line call.

`FairSpec` of Timer: weak fairness of the main line's step and of the tick: a
programmed 8253 keeps ticking. `WaitEnds` claims nothing while IRQ 0 is masked: then
a wait never ends, as its code says. A tick is also assumed to take many polls of
a wait (`polled`), which holds by orders of magnitude at the allowed rates.

### Disagreements found

1. spinlock.h:27 announces a ticket lock; the code is a test-and-set lock and a
   waiter can starve (`SpinlockTicket`).
2. bitmap.cpp:310-317 claims an atomic free with rollback. Without a lock around
   it the rollback sets bits of pages that were granted to another client in
   between (`BitmapRollback`). The heap is not affected: it holds `g_heap_lock`.
3. heap.h:258-262 says `kmalloc_size` returns the size allocated. For an object
   in a slab it returns the page's size, so neighbours overlap
   (`HeapReportedSize`). `krealloc` does not rely on it: it reads the object size
   from the slab header.
4. panic.h:14-19 has a panic print to VGA and serial and then stop. The code forces
   only the serial lock open: if the exception hits code that holds the VGA lock,
   the CPU spins for that lock with interrupts off, the screen stays without a
   message and `hlt` is not reached (`ConsoleFatalVga`). vga.h:53-55 forbids these
   functions in exception handlers.
5. serial.h:111-117 shows `serial_write_str` between `serial_lock` and
   `serial_unlock`; the write takes the same lock again and spins for ever
   (`ConsoleNested`). Nothing in the kernel calls it that way.

### Other observations

Met while modelling; the models behave so, and no run is devoted to them.

* Heap: `kmalloc` returns slab objects, which are not page-aligned as heap.h:95 says;
  `kmalloc_align` (heap.cpp:435-455) hands every alignment up to a page to it, which
  heap.h:245 calls guaranteed: `kmalloc_align(64, 4096)` is an object behind a slab
  header.
* Timer: rates below 19 Hz are clamped to the largest divisor, although pit.h:114
  and 179 give 1-1000 Hz as valid; the state then reports the rate asked for. A
  remainder kept from a faster rate is counted once at the slower one. A wait that
  ends within a tick of 2^64 ms can be stepped over. `us + 999` in `pit_wait_us`
  (pit.cpp:230) wraps at 2^32. `pit_shutdown` leaves `initialized` at 1. A tick between
  the stores of a reset leaves the two counters that tick apart.
* Boot: if only the screen works, main.cpp:176-197 prints through `print_*` before
  `print_init`, so nothing shows, against its comments (150-151, 175-177).
  `early_panic("No serial or VGA available")` shows nothing, since its own test fails.
* Log: a message cut inside its last conversion ends without "...", and one that fits
  exactly is marked if a conversion follows that says nothing, such as `%s` of "". The
  80-byte line
  of `log_hex_dump` (log.cpp:528) loses the text column of a full row of 16 bytes.
* Serial: `serial_clear_error` against a timeout can leave `failed` at 1 with no error
  code. A null pointer replaces the code of an earlier error. A refused
  `serial_init` sets `failed` on a port that goes on working.
* VGA: a newline in `vga_put_string_early` on the last row goes on writing over it.
  `vga_advance_cursor` returns "scrolled" for every wrap. `vga_set_color` and
  `vga_set_cursor` work without `vga_init`.
* Early allocator: sizes are reported modulo 2^32.

## 5. Proofs

A component's theorems are in a module of their own, `...Proofs`; `PROJECT.json`
lists them. Each safety theorem has the form `Spec => []P` and is proved with an
inductive invariant, a conjunction of named layers: each layer has a lemma that says
every step keeps it, given the layers before it, with one step of the proof per
action.

`SetLemmas` holds what several of them need: a nonempty set of naturals has a
least element, so `Min` is what its name says. The library's induction theorems
have an operator as a parameter, which the provers cannot instantiate; the lemma
takes the least of the intervals `0 .. k` by inclusion, which orders finite sets well
(`WFMin`, whose statement is first-order). The rest follows from it with sets and
functions in the place of operators: `Induction` is about a set that contains 0 and
the successor of each member; `RecursionExists` says that a recursive definition over
the naturals has the function it describes, by joining the functions on `0 .. n`;
`FoldExists` says the same of the recursion over sets behind `FoldLeft`.

### SpinlockProofs

For any sets of CPUs and locks and any nesting relation `MayNest`, from
`SpinlockAssumption`: `TypeCorrect`, `MutualExclusionHolds`, the interrupt flag
properties `NotPreemptedHolds`, `FlagRestoredHolds` and `SavedFlagHolds`, and
`RefinesLockSpec`. `NoSelfDeadlockHolds` also uses `LockOrderAssumption`: the
nesting of locks lies within a strict order.

* `Typed`: types, and that inside the API the operand is a lock and a release
  works on the top of the stack of held locks;
* `Ownership`: mutual exclusion, and that no stack names a lock twice.
  Mutual exclusion alone is not inductive: a release pops one entry, so a lock
  listed twice would still be owned after its word was cleared;
* `Flags`: where the flag is. `Suspension` gives the value of IF of each CPU from
  what its running context is doing, and says that a suspended main line is
  outside every critical section; `LocalFlag` says what each context carries in its local
  copy; `SavedFlagOfOwner` what is stored in the locks. They are only inductive
  together: the flag a release restores was written to the lock by its acquire,
  read into the local by its first step, and may be erased by nobody in between,
  which needs mutual exclusion again.

The order of `ResetSaved` before `Unlock`, which the comment at
spinlock.cpp:315-322 insists on, is used in exactly one place: the reset is
covered by ownership. In the refinement the owner of a lock is the context whose
stack names it; a lock is taken by the step that wins the compare-and-swap, given
back by the store that clears the word, and every other step is a stutter.

### PageBitmapProofs

For any numbers of words, bits in a word, kernel pages, clients and any lengths
of runs: `TypeCorrect`, `SearchIsExactHolds`, `ExclusiveOwnershipHolds`,
`BitmapTracksOwnersHolds` and `RefinesPageAllocSpec`.

* `Typed`: types and what the locals of a call are at each step;
* `Serialised`: under the heap lock one call is in progress;
* `Exact`: what a search has passed, under the lock, has no room: no free page
  below the word it has reached, no free run that ends before the page it is at;
* `Owners`: each page is held in at most one place, where a place is an owner, a
  claim in progress (the pages a claim has set and its rollback has yet to clear)
  or a free in progress; the set bits are the kernel's pages and the pages so held;
  and `Frees`, what a run that is being freed still has of its client's pages.

The last three theorems have the hypothesis `StaleFrees => heap_lock`: pages that are
not the client's own are passed to the free functions only under the lock, where
their rollback repairs what was cleared before anyone sees it. The hypothesis is
needed: run `BitmapRollback` shows `ExclusiveOwnership` violated without it. It
includes both ways the code is used: callers that free what they own, locked
or not, and callers that make mistakes behind `g_heap_lock`. In the refinement a
grant is the step that sets the last bit, and a page is returned by the step that clears
its bit; what a claim in progress has set is free in the abstract allocator.

### InterruptsProofs

For any set of master and slave lines, any nesting limit and any number of requests:
`TypeCorrect`, `DepthBoundedHolds`, `InServiceHolds`, `MaskAgreesHolds`.

* `Types`, `Calls` (what a mask function has left to do), `Nesting` (a frame that is
  not the innermost has been cut into in its handler or on its last
  instruction, since nothing else runs with interrupts on), `Requests`;
* `DepthInv`: the counter is the number of frames between the increment and the
  decrement, and one more than the limit is reached only on the way to the early
  return;
* `InService`: `InServiceMatchesFrames` with `Order`: each frame that has not sent
  its EOI has a higher priority at the master than all such frames below it. This is what
  makes a non-specific EOI, which ends the line of the highest priority in service,
  end the sender's own; the property without it is not inductive. It comes
  from `Acknowledge`, which accepts a line only above all lines in service;
* `Masks`: `MaskAgrees` during a call: what of the mask is in the registers already,
  and that between the read of a port and the write nobody has changed it (`Fresh`).

### TimerProofs

For any clock of the device, any unit, width of the counters and set of delays:
`TypeCorrect`, `RateAsReportedHolds`, `ClockAgreesHolds` and, of every step,
`WaitInTimeHolds`. `TimerAssumption` has the rate limit at most `Thousand` and that
at most `Word`, `DelaysAssumption` no delay within a second of the width of the
counter: in the code 1000, 1000, 2^64, and delays of 32 bits.

* `Rates` and `Programmed`: which rates can be in use, and how much of state and
  device a running `pit_init_frequency` has set;
* `Clock`: the milliseconds, counted in units of a tick, are ahead of the ticks by
  `Word * q + r` with `0 <= r < Thousand` for some `q` (`Carried`). A tick changes
  either counter by a multiple of `Word` if it wraps, and then `q`; the remainder
  of a changed rate goes into `r`. The property, which is this modulo `Word`, would not
  be enough for the step: the rate is a factor;
* `Waits`: a wait has counted a number `N` of milliseconds since its start, which
  with the remainders is exactly its ticks, the counter stands at
  `start + N`, or `Word` less once it has wrapped, and at its last poll `N` was
  less than the delay.

### KernelHeapProofs

For any number of threads, pages and caches, any objects per slab and any length of
run, from `HeapAssumption` and `NullAssumption` (no block is `NULL`): `TypeCorrect`,
`NoOverlapHolds`, `RoutesToOwnerHolds`, `SlabListsExactHolds`,
`PagesAccountedForHolds`, `CountersExactHolds` and `SlabLockHeldToGrowHolds`.

* `Locals`: what a call carries at each step; `Holders`: a block is with one
  caller or one call in progress;
* `Grows`: `krealloc` only asks for more than it has. Its copy may then write
  the header words of all pages of the old run without leaving the new one; without
  it a copy could go over the header of a slab behind a shorter run;
* `Layout` and `Accounted`: runs, slabs and the page of a slab being made are
  disjoint and are all that is used. `kmalloc`'s page for a slab belongs to nobody
  between two sections, so it is counted in by the local that holds it (`Growing`);
* `Headers`: free list and holders partition the objects of a slab. It gives what
  `kmem_free` relies on when it returns a page: with all but one object on the free
  list, the one being freed is the only one out (`LastIs`, a pigeonhole argument);
* `Marked`: the header word of every slab is there, and so, with `Layout`, what
  an unlocked look at that word of a page decides is right, although the holder
  of a run may write the very value there: an object's slot is never 0 and a run's is;
* `ListsLinked`: next and prev links agree, head and tail are where the slabs say
  (`Linked`), and next links lead down in some rank (`Ranked`). `SlabListsExact`,
  which walks the lists, is not inductive: no removal or insertion can be argued
  from a walk. `Linked` alone is, but would allow a cycle beside the list, which
  the ranks exclude: a removal keeps them, an insertion at the head puts one on top.
  The walk along a list is a function on `1 .. Pages + 1` that recursion defines:
  `ChainExists` shows that there is one, by the least number for which there is none.
  `ChainLists` then shows that following the links from the head visits each slab
  once before `NULL`: ranks fall, so no slab comes twice, and a slab that is not
  reached has a prev that is not;
* `Counted`: the counters, with the finiteness of the set of objects out.

### ConsoleProofs

For any set of CPUs, any depth of handlers and every `Misuse`: `TypeCorrect`,
`LogLinesInOrderHolds`, `ForcedLockStaysFreeHolds` and `FatalStaysMaskedHolds`. The two
uses that the code does not stand cost liveness (section 4), not these.

* First what the code is: `PanicIs`, `LogIs` and the like say which instruction a
  call has where, from its parts, and `LogPlaces` and `PanicPlaces` the other way
  round. The properties speak of instructions passed and ahead, the proof of positions;
* `Frames`: frames run known code, and fatal code runs alone and gets no further
  than its halt, so it never returns;
* `LogHeld`: a frame between its take and its unlock of the log lock is the only one,
  and the word is 1. Nothing else writes that word. `LogLinesInOrder` follows, as
  a line that is half out is between the two;
* `Masked`: fatal code that is past its `cli` has nothing but other fatal code on
  top and runs with interrupts off. This needs `Settled`: a lock hands over a flag
  three times, from the saved one to the stored one and back, and a panic must find each
  clear; it also keeps the serial lock free between force and acquire. A fault
  may come on top at any instruction: then the panic below never runs again, and the
  property speaks of frames that do (`Live`).

### OutputProofs

For every value of the constants that the assumptions admit: `EarlyBlocksDisjointHolds`,
`WireShowsReportsHolds` and `ScreenShowsPageHolds`, with `NumbersSaid` and `MessageSaid`
about the texts alone. The assumptions:

* `EarlyAllocAssumption`: the pool ends below the top of the address space, and its
  alignment is a power of two;
* `TextAssumption` and `NumbersFit`: the words are of any width from 3 values on,
  radices are up to 16, the greatest values fit the buffers and the fixed widths, and
  the buffer of a log line has, beyond that of a message, room for the rest of the line,
  which is 6 characters here. In the code: 2^32 and 2^64, 10 and 20 digits, 8 and 16
  nibbles, 256 bytes and 32 or 64 more;
* `ScreenAssumption`: the tab stop divides the width of the screen (8 and 80);
* `OutputAssumption`: numbers are of their types, requests are of two `size_t`, and a
  format's arguments are of the types that its conversions take (`Arguments`).

The blocks.

* `AlignedIs` and `BlockFits` are about the allocator alone. The sum that is rounded
  up may wrap, and the aligned address is then below the current one; modulo
  `SizeWord` the padding comes out larger than what is left of the pool, as the pool
  itself does not wrap, and the test for out of memory refuses it. So does
  every size that does not fit, with subtractions that cannot go below 0;
* `PoolInv`: the pool is as at reset, with no block, or as `kernel_main` sets it up,
  with blocks that end in its used part and are apart. A new one begins behind that
  part, which then ends where the new one does (`UsedUp`), so it is always as long as
  the blocks and their paddings make it and nothing of the pool is lost behind them;
* `TodoInv`: what is still to do sets the pool up at most once, and not at all when
  this has happened, as a second `early_alloc_init` would give out again what is in
  use. This is about the main line, not the allocator, which would allow it
  (early_alloc.cpp has no test of `initialized` there). Sections are replaced by others
  as they are decided, so each is shown to be `Quiet` (sets nothing up) or, for the
  choice of output, `Booting` (does it once).

The texts. The code divides, shifts and appends; `OutputSpec` chooses the digits that
have the value. Both are functions that recursion defines, which `RecursionExists` and
`FoldExists` make available to the provers.

* `LoopFinds`: the loop's digits are a numeral and have the value; `OneValue`: no other
  numeral of that length has it. So the one chosen is the loop's (`NumberSaid`), and of
  fixed width the one that shifts make (`HexSaid`). `NumeralsGrow`: a smaller number has
  no longer numeral, so that it is enough that the greatest fits;
* `AppendItems` and `SaysIs` follow the loop of `build_message` and the text that it is
  to make item by item; `MessageSaid` compares them where the room runs out.
  `LineSaid`: the line of a log call is never cut again;
* with them every section the kernel can have to do (`Section`) carries one text
  as what it writes and as what it asks for (`Closed`, for kernel_main, each of its
  decisions, each call and each handler).

The line.

* `WriteStep`: a write sends what it reports, whatever the number of characters the
  transmitter is ready for, if the divisor latch is closed; if it is open, the
  characters go into the divisor. So the invariant has to say when it is open:
* `WireInv`: there is nothing but closed sections to do, and an open port has the
  divisor of its last initialisation (`Idle`); or an initialisation is next and its
  guard, an unopened port or handlers that do not print, holds (`Leading`); or its nine
  stores are partly done (`Programming`): those ahead are next in `todo`, those
  done are in the UART, and the guard holds. The property is not inductive without the
  guard, which is a fact of the callers, not of `serial_init`;
* `DivisorFits`: the two bytes that are stored hold the divisor of every rate that is
  accepted. It is here that a lower limit of the rate is needed (110 in the code): at
  1 baud the divisor would not be less than 2^16.

The screen.

* `Agree`: the driver's cells are the page's last lines, and cursor and colour are the
  same. It is stronger than the property: it holds before `vga_init`, says that no
  adapter is detected where there is none, and, without an adapter, still has cursor and
  colour agree, as a write to nowhere moves the cursor (`ScreenShowsPage` speaks of an
  initialised driver only);
* each operation has a lemma that it keeps `Agree` with what the specification
  does to the page: `NewlineAgrees`, where the driver moves every cell one row up and
  the page appends a line, `PrintedAgrees` with the wrap at the end of a line,
  `TabAgrees`, where the loop's next stop is the page's, `ClearAgrees`, `PutAtAgrees`,
  `PanicAgrees` and so on. `TextAgrees` takes a text character by character.

### Only model-checked

Liveness under fairness, which is outside the prover's reach: `WaiterServed` and
`InterruptsComeBack` of Spinlock, `FatalReports` and `CallsReturn` of Console,
`PendingServed` of Interrupts, `WaitEnds` of Timer. Every other property of a passing
run is a theorem.

## 6. Not modelled, and why

Encodings and one-off CPU set-up (GDT, boot assembly, linker script, page-table
writes of the stack guard), declarations and coverage counters. The functions of
string.cpp are loops over one buffer that keep nothing; what the kernel's texts
need of them is in `Text`. The statistics and printing functions of the bitmap,
the heap, the slabs, the interrupt and the timer drivers, which read and change
nothing, with the counting queries of the bitmap; `log_hex_dump`; `SLAB_DEBUG`
builds; `slab_shutdown`, which nothing in the kernel calls; serial input; the
zeroing of early blocks. The timer's callback is registered and removed, but what
a callback does is left open.

Exceptions and `serial_force_unlock` break mutual exclusion on purpose on fatal
paths: `Console` says what still holds there. Its comment (spinlock.cpp:424) has
`cli` keep a second CPU from taking the forced lock; `cli` only masks its own CPU,
and `ForcedLockStaysFree` is claimed for one online CPU alone.
