# A verification of os-simple

TLA+ models of the kernel in `src/kernel/`, the TLC configurations that check
them on small instances, and TLAPS proofs of the properties that hold for every
instance. File and line numbers refer to `src/kernel/` unless a path is given.

## The system

os-simple is a single-processor 32-bit kernel. After the boot sector has loaded
it, `kernel_main` (kernel.c) initialises the parts below, enables interrupts and
goes on running, with interrupts enabled, for ever. Two interrupts come from
outside: the timer (IRQ0) and the keyboard (IRQ1). Their gates are interrupt
gates, so a handler runs with interrupts disabled and is atomic for the code it
interrupts, and not the other way round. There are no locks, and no caller
disables interrupts around a shared access. That is the main source of the hard
behaviour: whatever `kernel_main` does to state that a handler also touches can
be cut in two at any memory access. The Makefile passes no `-O` option, so even
`x--` is a load and a store.

| part | state | operations | who shares it |
|---|---|---|---|
| keyboard driver (keyboard.c) | ring buffer with head, tail and count; modifier flags; statistics | IRQ1 handler; `init_keyboard`, `keyboard_getchar`, `keyboard_buffer_get`, `keyboard_flush_buffer` | handler and `kernel_main`, without a lock |
| task manager (task.c) | `tasks[]`, `task_list`, `current_task`, `next_pid`, `task_count` | `create_task`, `schedule`, `task_exit`, `task_sleep`, `task_wake`, `switch_to_task` | `kernel_main`, and the timer handler, which calls `schedule` every tenth tick |
| memory manager (memory.c) | block list inside the managed region, statistics; page table | `kmalloc`, `kfree`, `kcalloc`, `krealloc`, `compact_free_blocks`; `alloc_page`, `free_page` | `kernel_main` only |
| console (kernel.c) | VGA text buffer, cursor | `print_char`, `scroll_screen`, `print_string`, `clear_screen` | everybody: the handlers print too |
| scheduler (scheduler.c) | run queue, policy, time slice, statistics | `scheduler_tick`, `yield`, `add_task_to_scheduler`, ... | has no caller but the initialisation; its queue uses the `next` field of the task list |
| interrupt dispatch (interrupt.c, interrupt_asm.s) | IDT, table of handlers, PIC, counters | `init_interrupts`, stubs, `isr_handler`, `irq_handler` | between the hardware and all of the above |
| system calls (syscall.c, syscall_asm.s) | table, statistics, time, next pid | `syscall_entry`, `handle_syscall`, ten handlers | its callers; the IDT has no gate for vector 0x80, so that only C code could call it today |
| boot sector | none after the jump | loads the kernel | |

What makes each part correct:

- keyboard: characters are read once and in order; the ring is never overrun;
  `count` may never claim what is not there; no modifier sticks; a key wakes a
  waiting reader.
- run queue: it is a queue, whatever order tasks leave and return in, and a scan
  finds the task it should.
- tasks: table, list and counters agree at every moment an interrupt can look;
  `schedule` switches to runnable tasks only and revives nobody; it returns.
- memory: the blocks tile the region; a client's block is its own, as long as it
  asked for and where it was; free neighbours are merged; counters agree.
- console: what is shown is the end of what was printed; an interrupted
  `print_char` cannot leave the cursor off the screen.
- interrupt dispatch: handlers run one at a time with interrupts off; every
  request is served until a fatal handler stops the kernel; an EOI ends the
  service of the interrupt it is meant for, and of no other.
- system calls: the caller gets its registers and stack back, with the result in
  eax; the statistics agree with the results callers saw.

`PROJECT.json` lists, under `hazards`, the places in the code where this could
go wrong unnoticed, with the properties that watch them.

## Modules

| module | models | proofs |
|---|---|---|
| `Keyboard` | keyboard.c, the reading loop of kernel.c | `KeyboardProofs` |
| `Task` | task.c, `timer_handler`, the boot order | `TaskProofs` |
| `Scheduler` | the run queue of scheduler.c; implements `RunQueue`, the abstract queue | `SchedulerProofs` |
| `SharedLinks` | the run queue over the task list: extends `Task` | shows a disagreement |
| `Interrupts` | interrupt.c, interrupt_asm.s, the EOI of keyboard.c, over the two PICs | `InterruptsProofs` |
| `Syscall` | syscall.c, `syscall_entry` of syscall_asm.s | `SyscallProofs` |
| `Memory` | memory.c | `MemoryProofs` |
| `Screen` (with `MCScreen`) | the console of kernel.c | `ScreenProofs` |
| `Lemmas` | nothing: facts the proofs share | |

Definitions carry the names of the functions they model. Each operator whose
comment starts with "Mutant:" is a plausible wrong version of the definition
after it. No specification uses one; substituting it for the definition makes
the property paired with it in `PROJECT.json` fail, which shows that the
property depends on that piece of code.

### Keyboard

The handler is one action per byte received: `KeyPress(k)` and `KeyRelease(k)`
include all of `keyboard_interrupt_handler`, through translation and
statistics. The reader is a program counter `pc`, with a step for every access
to the shared ring; `count--` is the two steps "load" and "store". The reader is
`init_keyboard`, then any sequence of turns of kernel_main's loop (`Poll`), of
blocking calls, of non-blocking calls, and of flushes. The last three have no
caller in the kernel (`OtherCalls`); `KernelSpec` leaves them out and has
`KernelMain` as the only reader. `halted` is the CPU in
`hlt`, which any interrupt ends. Until `init_keyboard` registers its handler,
interrupts go to interrupt.c's `keyboard_handler`, which changes none of this.

A key is a model value. What the translation tables hold is reduced to four
classes (a letter, two different symbols, the same character twice, nothing):
`scancode_to_ascii` looks at nothing else. `held`, `accepted`, `taken` and
`lapped` are history: the keys held down, the characters put in the ring, how
many of them left it, and whether an unread slot was overwritten.

### Task

Two contexts execute `schedule`: "main" with interrupts enabled, and "irq". Each
has its program counter and its locals; main only moves while no interrupt is
being handled. The steps of main are single accesses to `state`, `current_task`
and `next`; the condition of the scan reads `state` twice and is two steps.
`create_task` fills the slot, walks, links and counts as separate steps. After
the boot sequence (in kernel_main's order, with the call of `create_task` that
comes too early and fails) main makes any calls of the interface in any order.
Since no call of `schedule` switches the CPU (task.c:125 is commented out), the
code after `schedule()` runs on in the same context, whoever is "current".

### Scheduler and RunQueue

The run queue is a linked list through `next`, with a head and a tail pointer.
Nothing in the kernel calls it yet, so the model takes the interface as its
names suggest: main makes any sequence of calls, and adds a task only if it has
not been added already (`members` is what the clients know). All tasks exist
before the first call. `RunQueue` says what a queue is; `ImplementsQueue` is its
specification with the list, read from head to end, for `queue`. A scan takes
one task per step, and between two steps the timer interrupt may run
`schedule()` of task.c, which is represented by what `TaskProofs` shows of it:
it changes which runnable tasks are RUNNING and nothing else. `disturbed`
records that this happened, since the exact answer is only promised otherwise.
What the boot order and the missing definitions make constant (`idle_task`,
`policy`) is a constant here. `LinksEnd` covers the links of tasks outside the
queue as well: initially they are those of the task list, and a task keeps its
link when it leaves the queue. It says that following the links reaches NULL, for
a fixed table of tasks: `create_task` appends to the same links and is not an
action here, and `schedule` of task.c does not stop at NULL but goes back to
`task_list` (see `SharedLinks`). `SelectsFirst` says what a scan returns, which
for `get_next_task` is not what its comment calls it: see "What the violations
show".

### SharedLinks

`Scheduler` starts from a task list that nobody else changes. In the kernel both
lists are linked through `task->next`, and `SharedLinks` puts the calls on the
queue next to every action of `Task`: main may add a task that exists and is not
in the queue, and remove one, as single steps between its other calls.

### Interrupts

`stack` holds a frame for each entry of the CPU into the kernel, with the next
step of its stub: `stub` (cli, saving of registers), `isr_handler` or
`irq_handler`, the C handler, `iret`. A handler is one step here, since the
module is about when handlers run; what they do is in the other modules.
`init_idt` is the table of gates; a vector without a gate is entered as a general
protection fault. `irr` and `isr` are the request and in-service registers of the
two PICs, whose second one hangs on line 2 of the first; `send_eoi` ends the
service of the first line in service, which is what a non-specific EOI means.
Devices raise lines at any moment, a request may be spurious, and `kernel_main`
may raise exceptions. The PICs, the CPU's entry and the keyboard controller are
external and modelled as the code uses them.

`HandlersRunAlone` is what the other modules rest on when they take a handler for
one step, or (`Task`) let main wait until it has returned.

### Syscall

Registers are words of two halves, because `mov ax, 0x10` replaces one half of
eax. The stack is the sequence of words `syscall_entry` pushes, so that the
offsets by which it drops the parameters and stores the result are visible.
`CallHandleSyscall` is a call from C, without the entry. A text is its length;
`printed` is how much of it `sys_write` printed. `caller` and `answered` are
history: the registers at the call and the results callers got.

### Memory

No handler uses the heap, so there is one call at a time, and a step is one turn
of a loop over the block list. A block is the address of its header; addresses
and sizes are numbers and all 32-bit arithmetic is modulo `WORD`. `owned` is
history: the pointers clients hold and what they asked for. Clients may pass any
address to `kfree` and `free_page`. `krealloc` is called with a pointer the
client owns. The contents of blocks are left out.

### Screen

A handler's output is one step that applies `print_char` to the whole string. A
`print_char` of `kernel_main` is taken access by access: loads of the cursor
into `reg`, stores, and the cells of `scroll_screen` one at a time. `Window` is
the text buffer with two more lines below it, so that writing there is a fact
the properties can speak of. Colours are left out. `text` and `tracked` are
history.

## What is assumed

- A stub passes its C handler the saved registers, and `load_idt` gets the
  address of `idt_ptr`, as the C code intends. Neither is what the assembly does
  (see the finding at interrupt_asm.s:109): as it stands a handler reads the
  vector from outside the program, of which nothing can be said.
- An `int 0x80` reaches `syscall_entry`, as its comment says (`Syscall`), although
  the IDT has no gate for it (`Interrupts`).
- Devices are quiet until `init_pic` has programmed the PICs.
- A keyboard sends one make and one break code per key. Extended (0xE0) codes
  are not modelled.
- One processor, and accesses of aligned words are atomic.

## Runs

| run | instance | result |
|---|---|---|
| `kb_ring` | ring of 2, a letter and Caps Lock, 4 presses, fairness | `TypeOK`, `RingPointers`, `NeverOvercounts`, `FirstInFirstOut`, `CountedInputIsRead` hold |
| `kb_modifiers` | ring of 1, all five special keys, a letter, an unmapped key, 3 presses | `PressesAccounted`, `NoStuckModifier` hold |
| `kb_count` | ring of 2, 4 presses, `KernelSpec`: the driver exactly as the kernel uses it | violates `CountIsExact` |
| `task` | 3 slots, fairness | `TypeOK`, `TableConsistent`, `SwitchToRunnable`, `NoResurrection`, `InterruptReturns` hold |
| `task_round_robin` | 2 slots, the kernel exactly as it runs | violates `RoundRobin` |
| `scheduler` | 3 tasks, 2 priorities, fairness | `TypeOK`, `SelectsFirst`, `LinksEnd`, `ImplementsQueue`, `ScanReturns` hold |
| `shared_links` | 3 slots, fairness | violates `ScanEnds` |
| `interrupts` | lines 0, 1, 5 and 8 raised twice each, exceptions 6 and 13 and spurious interrupts, 2 in all, fairness | `TypeOK`, `HandlersRunAlone`, `InServiceIsExact`, `RequestsServed` hold |
| `syscall` | 2 calls, 13 numbers, arguments 0, 1 and -2, halves of 6 bits, 2 ticks | `TypeOK`, `RegistersKept`, `StatisticsAgree` hold |
| `heap` | 20 bytes, headers of 2, requests of 1, 4, 7 bytes and of twice that, 4 allocations, 2 pages, fairness | eleven properties hold |
| `heap_overflow` | the same with a request of 33 in a word of 64 values | violates `ClientsBlocks` |
| `screen` | 2 columns, 3 lines, text of up to 8 characters, handlers that print one character or a line, fairness | five properties hold |

### The bounds and why they suffice

The theorems below cover every instance; what follows says why the instances TLC
checks, for the liveness properties above all, are large enough.

- `MaxPresses` bounds only the number of keys, never the reader. A ring of two
  slots with four presses wraps twice, is full, is overfilled after a
  lost update, and is flushed in each of these states. The proofs cover every
  size.
- Three task slots have a first, a middle and a last task, a free slot while
  there are two tasks, and a full table. Nothing else is bounded in `Task`. The
  proofs cover every `MAX_TASKS`.
- Three tasks in the run queue have a first, a middle and a last one to be
  removed; two priorities allow ties and differences. Nothing else is bounded.
- Twenty bytes hold up to five blocks: splits with and without a successor,
  blocks that fit exactly, leave exactly a header, or less than one; merges
  with the next, the previous and both. Four allocations suffice for every order
  of freeing three neighbours and reusing the hole. Requests differ in whether
  they are aligned. `MaxAllocations` bounds the statistics, which count for ever.
- Two columns and three lines: wrapping and scrolling come in every combination,
  and there is a line between the first and the last. Once the text is longer
  than `MaxText`, or once an interrupt fell into a `print_char`, the text is no
  longer remembered, but the model goes on without bound.

- The four lines are one each of the timer, the keyboard, a line without a
  handler and a line of the second PIC; two requests of each suffice for a request
  that comes while the same line is in service or being handled. Exception 6 has
  no handler and is returned from, 13 is fatal. `MaxRequests` and `MaxFaults`
  bound what comes from outside. With finitely many requests a line cannot be
  kept waiting for ever by lines of higher priority, so what `RequestsServed`
  tests is that no EOI is left out and no byte left unread.
- The numbers of system calls are the ten that have a handler, one without, one
  out of range and one that is negative as an int; the arguments are a file
  descriptor or pointer of each kind and a word that is negative. Two calls are
  one after the other; `HALF` only has to hold a number and the word a sign.

The cfgs of `interrupts` and `syscall` turn the deadlock check off: the kernel
stops for good in a fatal handler, and the bounds on calls and ticks end the
others. In the other runs there is no state in which the kernel stops.

### Fairness

- `Keyboard`: weak fairness of `TimerInterrupt` (the PIT never stops and its
  interrupt is never masked) and of the reader (`kernel_main` never returns, and
  handlers end). Nothing is assumed of keys. `CountedInputIsRead` needs the
  timer: the key itself may arrive before the `hlt` it should have ended.
- `Task`: weak fairness of the timer and of the interrupt's own steps, since
  nothing preempts a handler. Nothing is assumed of main, except in
  `KernelSpec`, where main runs its boot sequence to the end.
- `SharedLinks`: that of `Task`.
- `Interrupts`: the CPU goes on, so that main, a stub or a handler takes its next
  step. Nothing is assumed of devices, which need not raise anything.
- `Scheduler`, `Memory` and `Screen`: a call that was started runs on. For
  `Scheduler` this assumes that the timer interrupts that fall into the call
  return. They do as long as the task list is whole (`InterruptReturns`), and
  `shared_links` shows that a queued task may cut it: `ScanReturns` is about the
  scans of scheduler.c alone.

### What the violations show

Each is a disagreement between a comment and the code, quoted in
`PROJECT.json`:

- `kb_count`: the driver is started, a key is typed, kernel_main's loop reads it,
  and a second key arrives between the load and the store of `count--`
  (keyboard.c:277): it is in the ring, and `count` is 0. The proofs show that this
  is the only direction: `count` is never too large when the reader tests it.
- `task_round_robin`: the list is not circular, and `schedule` gives up at its
  end; the last task stays current for ever.
- `heap_overflow`: `kcalloc` multiplies modulo 2^32.
- `shared_links`: adding a task to the run queue cuts the task list behind it.
  Once the current task is behind the cut and the tasks before it sleep or have
  ended, the scan of the timer interrupt never ends. In `Task` alone it always
  does (`InterruptReturns`).

Disagreements that need no run are listed there too: `get_next_task` is called
round robin (scheduler.c:152) and starts every scan at `task_queue_head`
(scheduler.c:160), so that by `SelectsFirst`, which is checked and proved, it
returns the first READY task at every call, and the ones behind it only once that
one is no longer READY; one flag stands for two
Shift keys (keyboard.c:143); page table and heap manage the same addresses
(memory.c:193); the number of a system call is overwritten before it is pushed
(syscall_asm.s:36), and vector 0x80 has no gate (syscall.c:98); the lines of the
second PIC are unmasked and have no gates (interrupt.c:108); the stubs pass no
context (interrupt_asm.s:109).

## Proofs

Every safety property of the passing runs is proved. The proof modules
have the same form: `Init => IInv`, `IInv /\ [Next]_vars => IInv'`, and the
theorems as consequences. TLC checked each `IInv` on the run's instance before
it was proved.

Liveness is outside the prover's logic, but the half of it that is about the code
is not. Four modules have a theorem `Spec => []BoundedSteps /\ [][StepsFall]_vars`:
`StepsLeft`, a number computed from the state, is 0 exactly when no call is in
progress, has a bound that depends only on the constants, falls with every step
of the call, and is left alone by the interrupts that fall into it. With the
weak fairness of `FairSpec`, that the call goes on, this is what makes the call
return; the last conclusion is TLC's.

**Lemmas** holds what several proofs cite: arithmetic modulo a number (`Mod...`),
what a sum over a finite set is and how one entry changes it (`FoldIsSum`,
`SumSteps`), and induction. The provers cannot use an induction theorem, whose
parameter is a predicate; instead `LeastNatural` and `MinimalSubset` give a least
element of a nonempty set, and a proof applies them to the set of
counterexamples. `FoldExists` and `FoldKeeps` show in this way that a fold over a
finite set is defined and stays in a set its steps stay in.

**KeyboardProofs**, for every ring size, set of keys and bound, from
`SizeAssumption`, `BoundAssumption` and `KeysAssumption` (the classes of keys
are disjoint). `NeverOvercounts` is not inductive: it says nothing about the
steps between the advance of `tail` and the store of `count`. `CountInv` says
for each value of `pc` how far `count` and `reg` may be from the number of
unread characters; a lost update only makes `count` smaller, and the handler
adds one to both sides. `StartInv` says that the ring is empty until the
handler is registered, so that `init_keyboard` clears nothing. `RingPointers`
needs arithmetic modulo the ring size (`ModSum`, `ModUnique`). For
`FirstInFirstOut`, `FifoInv` says that, until a slot is lapped, the i-th unread
character lies i slots after the oldest, and `ModDistinct` that different unread
characters lie in different slots.

- `TypeCorrect`, `CountIsSafe`, `PointersAreExact`, `Fifo`, `StatisticsAddUp`
  (`PressesAccounted`), `FlagsFollowKeys` (`NoStuckModifier`).

**TaskProofs**, for every `MAX_TASKS` of at least 1 (`TasksAssumption`). The
difficulty is a `schedule` of main that an interrupted `schedule` of the timer
overtakes: it may have tested a state that has changed since, and its break
"`next_task == current_task`" may compare with another `current_task` than it
started from. The argument: `schedule` never changes which tasks are runnable,
only which of them is RUNNING; and when an interrupt moves `current_task` or
demotes a task, the current task is runnable afterwards. So, as long as the
current task is not runnable, nothing main has read has changed (`ScanInv`: what
the scan has passed is not runnable), and if the scan comes round to the current
task, then either that task is runnable or none is. `SwitchInv` carries this to
the stores.

For `InterruptIsBounded`, the steps left are three for each task between the one
the scan is at and the current one. They fall because nothing changes
`current_task` under the scan of an interrupt (`ScanIsOff`); under the scan of main
an interrupt may, and nothing is claimed of that one. An interrupt takes at most
`7 + 3 * MAX_TASKS` steps, and until it returns there are no others.

- `TypeCorrect`, `TableIsConsistent`, `SwitchIsSafe`, `NobodyIsRevived`,
  `InterruptIsBounded`.

**InterruptsProofs**, for every set of lines, set of exceptions and bound
(`InterruptsAssumption`: lines are those of the two PICs other than the cascade).
The three properties hold each other up: an EOI ends the right service only
because at most one interrupt is in service, which is so because handlers do not
nest, which is so because every gate clears the flag and `iret` restores it with
the frame. `FrameInv` says of the only frame which flag it saved, how its vector
belongs to its line and its step, and that the PICs hold in service what it has
pending and nothing else. A line of the second PIC stays in service for ever; that
this breaks nothing needs `FaultIsFatal`, that the fault it becomes is never
returned from.

- `TypeCorrect`, `HandlersAreAlone`, `ServiceIsExact`.

**MemoryProofs**, for every region, header size, alignment, page size and set of
requests (`RegionAssumption`: the sizes are multiples of the alignment and the
region fits the word). The heap's properties are only inductive together: a split
keeps the tiling because the block found is large enough and the sizes are
aligned, and the search passes no block that fits because the blocks are in
address order. `Shape` says that the links lead to blocks and the back links to the
block before; `CallInv` what each step of a call may rely on, above all that the
block `krealloc` measured is still in use, and still as long, while `kmalloc`
searches; `CoalescedInv` that behind the pass of `compact_free_blocks` no two
neighbours are free, which is why one pass is enough. `AccountInv` adds that the
counters are the sums over the blocks in use.
`ClientsHaveBlocks` and `ReallocCopiesInBounds` have the hypothesis `NoOverflow`:
no request, multiplied by `kcalloc` or rounded up, reaches `WORD`. The instance of
`heap` satisfies it; without it the first is false, as `heap_overflow` shows. All
others hold also for requests that wrap.

For `CallsAreBounded`, the steps left are counted in bytes to `MEMORY_END`: a loop
over the blocks goes to a higher address. `compact_free_blocks` stays at its block
when it merges, so there the distance of the block after it is added, which a
merge moves on. A call takes at most `5 + 5 * total_memory` steps.

- `HeapInductive`, `HeapTiles`, `HeapAligned`, `HeapCoalesced`, `SearchIsFirstFit`,
  `BlocksAreStable` (the action property `BlocksStayPut`), `ClientsHaveBlocks`,
  `ReallocCopiesInBounds`, `PagesAreCounted`, `StatisticsAgreeWithHeap`,
  `MemoryTypeOK`, `CallsAreBounded`.

**SyscallProofs**, for every word size, set of numbers and arguments, and number
of ticks per second (`SyscallAssumption`). `RangeAssumption` says that, within the
bounds on calls and ticks, no pid and no time reaches half the word, where it would
count as a failure; in the kernel that takes two thousand million calls or
seconds. `FrameInv` says what the stack holds at each step of `syscall_entry`, so
that the two offsets, six words dropped and the result stored above the saved
registers, meet the right words; `StatInv` how far the counters are ahead of what
callers have seen while a call is under way.

- `CallsInductive`, `CallsTypeOK`, `RegistersAreKept`, `StatisticsAreRight`.

**ScreenProofs**, for every size of the screen, every set of characters and
handlers that print any strings (`ScreenAssumption`). `CursorInv` says at which
steps the cursor may be past the last column or the last line (between a store and
its test, and nowhere else) and what the register holds at each step; it is what
makes `AtMostOneLineBelow` inductive. A handler's step is a fold over its string:
`FoldTrace` gives the screens it goes through, and `PrintStringTraced` shows that
it leaves the cursor on the screen or where an interrupted `print_char` may have it.

`ShowsText` relates the buffer, cell by cell, to the lines of the text, a fold of
`AddChar`. It says nothing between the first and the last step of a `print_char`,
so `TextInv` describes the five phases of one: before the store the screen shows
the lines L without the character (`Storing`); after it the buffer shows the longer
line and the cursor is behind (`Advancing`); in a line break the buffer shows the
text without the new line (`Breaking`); in a scroll there is a buffer p that showed
it, of which the cells before `k` have been copied or cleared (`Scrolling`);
between two calls the screen shows the text (`Idling`). `PutShows`, `BreakShows` and
`ScrollShows` are what a store, a line break and a scroll do to a picture;
`CellUnique`, that no two positions are one cell, is what keeps a store from
changing another. For a handler, `PrintStringShows` follows the fold over its
string and the fold over the text side by side.

For `PrintCharIsBounded`, the steps left are those to the next scroll and three for
each cell of it: handlers change the cursor, which decides which way `print_char`
goes on, but no way leads back, and the loops of `scroll_screen` run over a local
variable. A `print_char` takes at most `15 + 3 * VGA_WIDTH * VGA_HEIGHT` steps.

- `ScreenInductive`, `ScreenTypeOK`, `CursorIsOnScreen`, `OneLineBelow`,
  `ScreenShowsText`, `PrintCharIsBounded`.

**SchedulerProofs**, for every number of tasks, priorities and time slices
(`SchedulerAssumption`). The invariant says that there is a sequence q of different
tasks along which the links lead from head to tail (`ListInv`), where on q the
call in progress is and what it has found (`ScanInv`), and that the tasks can be
ranked so that every link, those of tasks that left the queue included, leads to
a lower rank (`Ranked`). The ranks are what `LinksEnd` needs: stale links are not
described by q. A task that is added has no link and gets the lowest rank; a
removal makes the link of the task before lead where it led in two steps. Then a
walk of `MAX_TASKS` steps would visit more tasks than there are (pigeonhole). For
the refinement, `WalkFollows` shows that the recursive function `Walk` is defined,
`QueueIsSequence` that `QueueAsSeq` is the q of the invariant, and `SequenceStep`
that every step leaves q alone, appends to it or takes one task out of it, which
are the steps of `RunQueue`. For `ScansAreBounded`, the steps left are the tasks
from the current one to the end of q: `schedule` changes states and no link. A scan
or a removal takes at most `2 + MAX_TASKS` steps.

- `QueueInductive`, `SchedulerTypeOK`, `ListsEnd`, `ScansSelectFirst`,
  `ListIsQueue` (the refinement `ImplementsQueue`), `ScansAreBounded`.

**Only model-checked**: the liveness properties (`CountedInputIsRead`,
`InterruptReturns`, `RequestsServed`, `ScanReturns`, `CallReturns`,
`PrintReturns`), which are outside the prover's logic. For `InterruptReturns`,
`ScanReturns`, `CallReturns` and `PrintReturns` the bound on the steps is proved, as
said above; the other two have none: the reader polls as long as nothing
arrives, and a request waits as long as others go before it. The four disagreements are
violations on their instances and have no theorem.

## Not modelled

- `scheduler_tick`, time slices as they run down, and the statistics of
  scheduler.c: the timer does not call `scheduler_tick`, and with no idle task
  its body is not reached. The FIFO policy is never selected.
- What a handler would do with the parameter the stubs really pass: it points
  outside the program.
- `yield`, `force_schedule`, `start_scheduler` and `stop_scheduler` of
  scheduler.c, for the same reason: they set flags nobody reads or call
  `schedule()`, which is in `Task`.
- Two-byte (0xE0) scan codes: the driver has no state for them.
- A key that waits in the keyboard controller since before `init_pic`.
- The boot sector and the build.
- Everything that only prints or only reads, and the colours of the screen.

## Plan

1. More abstract specifications, with the refinement proved: a bounded queue
   implemented by the ring while no update is lost; an allocator with a set of
   disjoint intervals implemented by the block list.
2. `Keyboard` and `Task` over the dispatch of `Interrupts`, instead of taking a
   handler for one step.
