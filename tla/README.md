# CheesecakeOS: models, checks and proofs

CheesecakeOS is a small 32-bit x86 kernel in C and assembly.  This directory
holds TLA+ models of its parts, the TLC configurations that check them on small
instances, and TLAPS proofs of what matters most for every instance.  Paths
below are relative to the repository; `PROJECT.json` gives, for each definition,
the lines it models.

## 1. The system

One kernel thread runs on one stack.  `ck_main` (src/kernel/ck_kernel.c)
initialises everything with interrupts off, creates three tasks, enables
interrupts and enters the shell's loop, which never returns.  Only two things
run beside that thread: the timer and the keyboard interrupt handlers.  Each
runs to completion with interrupts off, between any two instructions of the
thread.  Tasks are not preempted; they are functions that the loop calls in
turn.

| Part | State | Operations | Hard behaviour |
|---|---|---|---|
| Page allocator, src/memory/pmem.c | bitmap, two counters | init, alloc, free | repeated and unaligned frees; the reserved region against the size of the image |
| Heap, src/memory/heap.c | headers in memory, freelist, size, two totals | init, malloc (search, split, expand), free | splits, blocks never unlinked, requests near and above a page |
| Paging, src/memory/paging.c | directory, tables, table count | init, map, unmap, translate | running out of tables, address arithmetic, stale translations |
| Keyboard, src/drivers/keyboard.c | ring, held key and times, shift flag | interrupt handler, read_key, read_char | the handler between any two loads of the reader, wrap of the clock |
| Timer, src/drivers/timer.c | tick counter | handler, init | wrap |
| IDT, PIC, IRQ, exceptions, src/interrupts/ | gates, masks, handler table, saved frame | init of each, dispatch, end of interrupt, exception report | an interrupt before its gate or handler is there; the layout of the frame |
| Scheduler, src/kernel/scheduler.c | task table, context, statistics | init, create, run_tasks, yield | a creation that fails half-way, wrap, stale context |
| Demo tasks, src/kernel/kernel_tasks.c | game state shared by three tasks | three bodies, init, key | a bounce evaluated twice with the paddle moved in between |
| Shell, src/kernel/shell.c | input line, history, cursor, screen, status line | one character, execute, draw | editing across a scroll, full line, full history, commands that move the cursor |
| Monitor, src/kernel/visualizer.c | previous counters, last draw, exit flag | one turn of its loop | wrap of clock and counters, counters that run on while it is closed |
| Boot, boot/boot.asm, src/linker.ld | none once running | entry | none to model: straight-line code and a memory layout |

Interactions: the heap takes pages from the page allocator; the scheduler takes
stacks and register blocks from the heap; the keyboard driver reads the timer's
counter; the shell and the monitor read characters and run the scheduler; the
tasks share the game state with the monitor.

## 2. The models

### Pmem, MCPmem: the page allocator
`bitmap` is the set of pages whose bit is 1.  A call is one action, because
nothing else runs inside it.  `AllocPage(page)` is the scan that stops at the
first clear bit, `AllocFails` the full bitmap, `FreePageClears` and
`FreePageIgnored` the two outcomes of the early returns of `ck_pmem_free_page`.
The history variable `owned` is what callers hold.  Frees range over all byte
addresses of managed pages, also unaligned ones and pages already free.
`MCPmem` has the real constants; otherwise the page allocator is checked
together with the heap.

### Heap, Allocator: the heap on the page allocator
Addresses are bytes; `hdr` maps the address of each header written so far to
its three fields.  `ck_malloc` is a call, one step per turn of its search loop
and a returning step, so a search without end is a behaviour.  `SearchExact`,
`SearchSplit`, `Expand` (with or without a rest) and `ExpandFails` are the ways
to return.  Nothing is unlinked and nothing coalesced, as in the code.
`OtherPages` is the rest of the kernel, which may allocate pages and free any
page but the heap's.

The code looks neither at what a split leaves behind nor at whether a request
fits in its page.  The history variable `damage` says how far that has gone.

- "none": no block is larger than its page and no rest smaller than its header.
- "stray": such a block was made.  Payloads overlap other memory, but every
  header is where it was written.  The model goes on.  That a caller may write
  into the bytes that stray is not modelled; the kernel writes none of them, as
  its only such blocks are the task stacks, which it stores and never uses
  (scheduler.c:84).
- "clash": a header was written over bytes of another one.  Memory is no longer
  what `hdr` says, and the heap takes no further call that reads a header.

`Allocator` is the promise to callers.  Until a clash, a pointer returned is not
one that somebody holds.  Until a block strays, it is the start of as many bytes
of managed memory as were asked for, none of them in a block still held.
`ImplementsAllocator` maps the blocks in callers' hands to it.

### Keyboard, KeyQueue, MCKeyboard: driver and clock
The handler is one action per kind of scancode: make and break of a shift key,
break and make of another key.  `ck_keyboard_read_char` is one step per load or
store of a shared variable, in the order of the source, so that both interrupt
handlers can come between any two of them.  The conversion tables are a
function of key and shift state whose entry is 0 for keys that are not
printable.  The history variables are the presses accepted and not yet
converted (`waiting`), how long the last key pressed is down (`age`), whether a
press fell into a window of the repeat test (`raced`), and whether two shift
keys were down together (`overlap`).  `KeyQueue` is the promise: a bounded FIFO
queue that drops only when full and is always drained.  `ImplementsQueue` maps
the ring to that queue.

### Scheduler, KernelTasks: task table, rounds and the game
`ck_task_create` is two steps so that its second allocation can fail after the
first; `blocks` counts what it holds.  After a failed creation has freed its
stack, `CreateHangs` is a later allocation that does not return (section 5).
`Dispatch`, `Body`, `EndTask`, `EndRound` are the loop of
`ck_scheduler_run_tasks`.  Allocation outcomes are left open instead of being
computed by Heap.  `KernelTasks` extends `Scheduler`: a task's body runs the
function that its creation call passed, on the game that the tasks share.
Between rounds the monitor may start the game or hand a key over.  `frame` is
kept modulo 2, which is all the code reads of it.

### Paging, AddressMap: the two levels and the TLB
A directory entry is the index of a static table, a table entry is the word the
code stores.  `ck_paging_map_page` and `ck_paging_unmap_page` are cut where a
store precedes its invlpg; between the two the processor may walk the tables
(`TlbFill`, external) and drop what it cached (`TlbEvict`).  Calls may also come
before `ck_paging_init`, when the static arrays are zero.  `AddressMap` is the
promise: one flat map from pages to entries, in which a call changes its own
page, to the entry it was called with, before it returns.
Nothing in the kernel calls map or unmap yet; the model is of the interface.

### Interrupts: descriptor table, controllers, dispatch, exceptions
`Boot` runs the initialisation calls in the order of `ck_main`, one per step.
The two 8259 controllers and the interrupt flag are external: a request is
latched until acknowledged, masked and blocked by priority, and may vanish
before that (`Spurious`).  `RunHandler`, `ck_pic_send_eoi`, `Iret` are the path
of irq.asm and irq.c.  `Exception` may strike the thread or a handler at any
time; `Report` builds the stack word by word, as processor, stub and pushad
push it, and reads it back at the offsets exceptions.asm and exceptions.c use.

### Shell, MCShell: editor, screen, history and commands
The screen is an array of cells with the cursor of the code and that of the
controller.  `DrawStatus` and one of `ReadNothing`, `Enter`, `Erase`, `Insert`
are a turn of the loop of `ck_shell_run`.  A command is split off the line as
`ck_get_first_word` and `ck_get_args` do it, cut to the size of their buffers,
and turned into a sequence of screen operations `out`, which `Write` carries
out one per step while the timer ticks.  What a command prints beside the
user's own words is a member of `Texts`.  `MonitorQuit` stands for a whole use
of the task monitor: it leaves a foreign picture on the screen and does not
move the cursor.

### Monitor: the task monitor's loop
`DrainKey`, `DrainEnd`, `Quit`, `Throttled`, `Round` and `Draw` are a turn of
the loop of `ck_visualizer_run_monitor`.  `ShellRound` is the shell's loop
running the tasks while the monitor is closed: `prev_counters` is static, so the
first frame of the next use counts that work as well.  The work a call adds is
left open.  Keys wait in a buffer of bounded size.  A key without a character
makes `ck_keyboard_read_char` return 0, which ends a draining although keys may
wait behind it.  Rows are numbered by task and counters by function, so `funcs` keeps
which creations of `ck_main` succeeded.

## 3. Runs

| Run | Bounds | Shows |
|---|---|---|
| pmem_kernel (violated) | real constants, 520 pages | the first page handed out lies in the range the code takes the kernel to occupy |
| heap | 4 pages of 12 bytes, 1 reserved, limit 2 pages, header 3, sizes 1, 7, 9, 12, 2 frees | with other users of pages: page count, bitmap and ownership agree, limit kept; blocks disjoint until one strays; the allocator implemented and totals balance until a clash; before the first free also: free blocks linked and every malloc returns |
| heap_hang (violated) | one free | a freed block linked to itself, and a malloc that never returns |
| heap_stacks (violated) | real constants, sizes 4096 and 32 | a task stack reaches past its page |
| keyboard | ring of 3, delay 1, clock of 2, 2 keys and 2 shift keys, 3 presses | the ring implements the queue; presses come out as typed unless a shift key moved; the held key is exact; repeats wait for the delay except for presses in two windows; the shift flag is right unless both shift keys were down |
| key_race (violated) | delay 2, clock of 8, one key | the race: a tick and a press between two reads of the clock values |
| kernel_tasks | 3 slots, 4 creations, counters modulo 2, court of 5 by 6, paddle 2 | one task runs, round-robin across wraps, no leak, no starvation; ball and paddle stay in the court and the ball keeps coming back |
| paging | 3 entries per level, 2 tables, pages of 4 bytes, 5 addresses in 3 regions, TLB of 1 | cached translations exact, the flat map implemented |
| interrupts | lines 0, 1, 6, 8, 12, exceptions 0, 9, 14, 17, 4 requests, any masks left by the BIOS | gates and handlers in place when interrupts go on, end of interrupt exact, exceptions reported, requests answered |
| exc_code (violated) | one line, exceptions 0 and 14 | the word printed as the error code is the vector |
| shell | screen of 3 by 4, lines of 3, history of 2, five commands, 6 keys with an effect, clock of 2 | prompt, line and cursor right whenever a key is read, screen empty ahead of the cursor, history recent, commands end, status line returns |
| monitor | 2 functions, work 1 or 2 per call, counters modulo 8, clock of 4, frame 2, 2 rounds between frames, buffer of 2 keys, 2 keys per draining | shares exact, frames apart, a quit obeyed, frames go on |

With header 3 and pages of 12 the sizes of the run heap take 4, 10, 12 and 15
bytes: 10 leaves a rest smaller than a header, 12 is a page, 15 exceeds it, and
4 tiles.  They reach all three values of `damage`.  The bounds allow each case to happen: an exact
fit, a split, both kinds of expansion, a refused expansion, a full and a
wrapped ring, wrapped counters and clocks, a full task table, a region without
a table when none is left, a request on each controller behind one of higher
priority, exceptions with and without an error code, a full line that wraps and
scrolls, a shifted history, every kind of command, a monitor opened twice with
work in between.  Vectors 48 to 255 are left out: nothing raises them.  `Word`
and `TickWord` stand for 2^32 and are small where wrapping matters.

Where a bound is part of what is shown:

- `SharesExact` holds as long as a hundred times the work since the last frame
  fits in a word, and when the creations before each task succeeded.  It states
  both conditions.
- Shell's `Tick` allows fewer than `Word` ticks from one drawing of the status
  line to the next, and Monitor's `Tick` has the clock compared before it runs
  past all values at which a frame is due: a turn of these loops takes less than
  49 days.
- `RequestsAnswered` depends on `MaxRaises`: a device that asks without end on a
  line of high priority would starve the lower ones, which is how the
  controllers work.
- `QuitObeyed` depends on `MaxBurst`: draining ends when no key is left or at
  a key without a character.  It is about a quit that the keyboard accepted.
- `HeapAssumption` takes the heap limit, a request and its header together to
  be below 2^32, so that the sum `ck_heap_expand` compares does not wrap.
- A heap that gets no page in `ck_heap_init` (`NoFirstPage`) is in the model and
  in the proofs.  The run has pages, so TLC does not start there.

Fairness: weak fairness of the steps of the kernel thread, because nothing
blocks it: `ck_malloc_step` in the heap, `ck_keyboard_read_char` in the keyboard
driver, `RoundStep` in KernelTasks, `Execute` in Interrupts (the processor takes
the interrupt offered and finishes its handler), `Loop` in Shell and Monitor.
Shell and Monitor also assume that the timer ticks, because the PIT runs free
and their loops run with interrupts on.  No key and no other interrupt is
assumed to arrive.  Interrupts and Shell run without the deadlock check: after
an exception report, and after the command reboot, the machine is halted for
good.

## 4. Proofs

All theorems hold for every value of the constants that the named ASSUMEs
allow.  TLC evaluates those in the runs.

Each module proves an inductive invariant once (`PmemAlways`, `HeapAlways`,
`KeyboardAlways` and so on) and then one theorem for each property that a run
checks.

### Sums: SumProofs

`StatsBalance` and `SharesExact` are about sums over a set of blocks or tasks
of any size, kept modulo a word.  The sum `SumFunctionOnSet` of the library is
a recursive function on finite sets.  Its laws need an induction over sets, and
the library's induction theorems cannot be instantiated by the provers.
`SumProofs` uses the smallest counterexample instead: the proper subsets of a
finite set are well-founded, so a set of subsets has a smallest member
(`SmallestSubset`).  It follows that the defining equation has exactly one
solution (`SumsUnique`, `SumsExist`), and from that how a sum changes when an
element is added or removed (`SumAdd`, `SumRemove`), when it stays the same
(`SumSame`), and that it bounds its terms (`SumBounds`).  `BalanceUp` and
`BalanceDown` say how two wrapped counters stay a known number apart.

### Page allocator and heap: HeapProofs

`PmemCorrect` and `UsedPagesCounted` are about the page allocator alone:
`PagesAccountedFor` and `UsedPagesIsBitmap`.  Neither the types nor the count
are inductive alone: the counter stays in range because a clear bit means that
it is below `MaxPages`.  `PmemInv` joins the types, the count and the agreement
of ownership and bits.  `HeapTakesPages` carries both over to the composition:
every step of the heap and of the other users of pages is a step of the page
allocator or leaves it alone.

The theorems about the heap hold for requests of all sizes; how much each says
depends on `damage`.  The kernel's three stacks of 4096 bytes stray and do not
clash, so what holds until a clash holds of the kernel as it is, and what holds
until a block strays does not.

- `HeapCorrect`: at all times `HeapTypeOK` and `LinksValid` (no dangling link);
  until a clash `LiveBlocksIntact` (the blocks in callers' hands are the ones
  marked used, each as large as asked for) and `HeadersApart`; until a block
  strays `BlocksDisjoint`.  The last is not inductive: a split could leave a
  rest too small for its header, and a fresh page could be one that a block
  reaches into.  `HeapInv` has one layer for each value of `damage`: `Marks`
  for what needs only headers apart, `Shape` for room, order and pages of the
  blocks, and below both the page allocator's invariant, from which a fresh page
  is one that no block touches.
- `HeapKeepsLimit`: `HeapWithinLimit`.  The heap size is a whole number of
  pages, so the test on the size asked for leaves room for a page.
- `HeapImplements`: `ImplementsAllocator`.  Each step is a step of `Allocator`
  or leaves it alone.  It needs `HeapInv` and that a request is remembered
  while its search runs (`Asked`).
- `StatsStayBalanced`: `StatsBalance`.  All steps of the heap either hand a
  block out, take one back, leave the used blocks alone or clash (`HeapSteps`);
  the first two move one total and the sum of the used sizes by the same amount.
- `FreeBlocksStayLinked`: `FreeBlocksLinked`, before the first free.  A split
  puts the rest into the chain after the block it came from; an expansion adds
  at the head.  The proof goes through the definition of reachability as the
  smallest closed set.
- `SearchMakesProgress`: before the first free and until a clash the links form
  no circle (`NoCircle`), and each turn of the search loop leaves a block behind
  that it does not come back to (`SearchAdvances`).  This is the safety half of
  `MallocReturnsBeforeFree`.

### Keyboard: KeyboardProofs

`KeyboardCorrect` (`TypeOK`, `RingHoldsRest`), `PressesDelivered`
(`DeliveredAsTyped`), `HeldKeyFollowed` (`HeldKeyExact`), `ShiftFollowed`
(`ShiftFollowsKeys`), `KeyRepeatCorrect` (`RepeatAfterDelayUnlessRaced`), and
`KeyboardImplements`: every step is a step of `KeyQueue` or leaves it alone.
What makes `RingHoldsRest` inductive is `ReaderKnows`: between the test for
empty and the move of the tail the buffer is not empty and the slot loaded is
still the slot at the tail, because the handler moves only the head and never
onto the tail.  The repeat needs the true age of the held key next to the
wrapped difference of the clock.  The flag `raced` marks a press in one of two
windows: after a tick that followed the reading of the clock and before the
comparisons, and after the comparisons and before the held key is read again.
Without such a press the key loaded to be repeated was down for the delay.

### Paging: PagingProofs

`TablesWellFormed` (`PagingTypeOK`), `TablesOwned` (`TablesNotShared`),
`PagingCorrect` (`TlbCoherent`) and `PagingImplements`
(`PagingSpec => ImplementsAddressMap`).  `TlbCoherent` needs
the tables apart, because taking a table in use would change translations that
nobody flushes; the refinement needs that a page number and the two indices
determine each other.

### Scheduler and tasks: KernelTasksProofs

Of the scheduler alone: `TableNeverOverfull` (`SchedTypeOK`), `OneTaskAtATime`
(`OneTaskRuns`), `SchedulerCorrect` (`RoundRobin`), `FailedCreationKeepsNothing`
(`TasksHoldTwoBlocks`, as long as every allocation returns) and `RoundsEnd`: a
round counts down its steps, three for each task, and ends with the last.
`TasksRunUnderScheduler` (`KernelSpec => SchedSpec`) makes all of them hold with
the tasks, the keys and the monitor.  `RoundRobin` compares counts that wrap;
the inductive form says that there is a number r of rounds, modulo the word,
such that each task has run r times, once more if it had its turn.

Of the game, for every court of at least 4 by 5: `GameCorrect` (`GameTypeOK`,
`InCourt`), `BallMovesByOne` (`BallDoesNotJump`: at most one cell each way
unless served anew) and `BallGetsCloser`: below the second row each call of
`ck_task_demo_1` shortens the ball's way back.  The last needs that only a ball
never set up lies still.  `RoundsEnd` and `BallGetsCloser` are the safety halves
of `NoStarvation` and `BallComesBack`.

### Interrupts: InterruptsProofs

`HandlersReady` (`HandlersInPlace`), `InterruptsCorrect` (`ServiceMatches`) and
`FaultsNamed` (`FaultReported`), for every set of lines and faults and any
number of requests.  `FaultReported` is about the vector, the presence of an
error field and the place of the frame; what the field shows is the subject of
exc_code.  `ServiceMatches` is not inductive alone: an interrupt that
met the stub of another line would end that line.  `IntInv` adds what each call
of `ck_main` has established (`BootProgress`) and that interrupts come on last.
The lemma `StackWords` reads the words of the frame off the concatenations that
build it.

### Shell: ShellProofs

`ShellStaysInBounds` (`ShellTypeOK`), `ShellCorrect` (`LineShown`),
`ScreenEmptyAhead` (`EmptyAhead`) and `HistoryKeepsLast` (`HistoryIsRecent`), for
every screen of more than three rows that has room for the longest line, every
command table and any number of keys.  `LineShown` speaks of the times when a
key is read; `Pending` carries it through a command: what is still to be
written ends with the prompt, whose first character is already before the
cursor when only the second is left, and a use of the monitor is always
followed by the restart that clears its picture.

`CommandsShrink` is the safety half of `CommandsEnd`: each step of a command's
output makes `WorkLeft` smaller.  The command history makes `out` longer while
it lists, so `WorkLeft` also counts the entries still to be listed, each with
the room the history's buffer gives it.  It needs that no command enters that
loop twice and that the loop starts at entry 0 (`ListInv`).

### Monitor: MonitorProofs

`FramesSpaced` (`FramesApart`): `Timing` says that while the frame time is not
over, the wrapped difference of the clock is the true number of ticks since the
last frame.  `SharesAreExact` (`SharesExact`): `CountInv` says that, when each
task has its own row, a counter and its value at the last frame differ by the
task's work since then, modulo the word.  With the bound that `SharesExact`
states no difference, sum or product then wraps.  `QuitNotLost` is the safety
half of `QuitObeyed`: a pending quit stays pending until the monitor ends, and
every step but a tick brings the end closer, by a stage of the loop or by a key.

### Only model-checked

Liveness, because the prover handles neither fairness nor ENABLED:
`MallocReturnsBeforeFree`, the fairness part of `ImplementsQueue`,
`NoStarvation`, `BallComesBack`, `RequestsAnswered`, `CommandsEnd`,
`StatusReturns`, `QuitObeyed`, `FramesGoOn`.  For five of them the theorems
above prove what does not depend on fairness: that the steps in question make a
measure smaller.  Every invariant, action property and refinement that a passing
run checks is also proved.

## 5. What the code does that its comments do not say

The five violated runs are listed as findings in PROJECT.json.  The following
were met while modelling and have no run of their own:

- keyboard.c: the shift state is read when a character is converted and not
  when its key was pressed.  One flag serves two shift keys: with both down, the
  release of one clears the flag while the other is still down.  A key can be
  repeated early in a second way than the one key_race shows: when a press comes
  after the comparisons, line 150 reads the new key and repeats it at once.
- scheduler.c: when `ck_task_create` gets a stack and no register block, it
  frees the stack, which is still the head of the freelist and becomes its own
  successor.  The next creation takes that stack and its `ck_malloc(32)` searches
  the circle for ever.
- pic.c: the masks that the BIOS left are restored, so lines other than 0, 1
  and 2 may be open.  Their handlers only send the end of interrupt.
- paging.c: `ck_paging_init` maps 256 tables of 1024 pages, which is 1 GB, as
  paging.c:22 has it; paging.h:13, paging.c:105 and docs/devlog.md:403 say 256
  MB.  The model maps what the loop maps.  Afterwards no table is left and
  `map_page` outside that range is refused.  `virt_to_phys` returns 0 both for
  "not mapped" and for address 0.
- pmem.c: a page number out of range tests as used, so freeing such an address
  would decrement the count.  No caller does; the models free managed addresses.
- heap.c: size + 12 wraps for sizes within 12 of 2^32.  No caller asks for that.
- shell.c: `clear` wipes row 0, although line 415 says that the status line is
  left alone; it comes back with the next tick.  Two line feeds at the bottom
  of the screen scroll it once, because `ck_vga_newline` does not scroll.  After
  `taskmon` two prompts are printed.  "(no commands yet)" is never printed,
  because the command history is itself entered first.
- visualizer.c: keys typed behind a `q` are drained and lost.  When the tasks
  ran for long while the monitor was closed, the product with 100 wraps and its
  first frame can show any percentage.  When `ck_main` could not create the
  first task, each row shows the counter of another task's function.

## 6. Not modelled

- boot/boot.asm and src/linker.ld: straight-line code and a memory layout, with
  no state that changes once the kernel runs.
- The port writes that program the PIT (timer.c) and the boot screen of
  ck_kernel.c: device set-up and output without a state the code reads back.
- The text, colours and layout that shell and monitor print, and the conversion
  tables of scancode.c beyond printable or not: data that no property tells
  apart.
- Task creation on top of Heap: allocation outcomes are left open in Scheduler,
  which allows every outcome Heap can produce: success, NULL, and, once a failed
  creation has freed its stack, no return at all (`CreateHangs`).  A composition
  would add the heap's state space and no behaviour of the scheduler.
- What memory holds after one header was written over another, and what callers
  write into blocks that stray (section 2).
