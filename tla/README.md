# Models and proofs for superbigouis2

superbigouis2 is a small 32-bit x86 kernel in C and assembly (`src/`). This
directory holds TLA+ modules translated from its source, TLC configurations
that check them, and TLAPS proofs. Paths below are relative to the repository;
`PROJECT.json` maps every definition to its lines.

## The system

| component | source | state it keeps | operations |
|---|---|---|---|
| boot sector, loader | `src/boot/*.asm` | what lies in low memory, the disk's controller, the memory report behind the loader | `read_disk`, magic number, E820 loop, `lgdt`, protected mode |
| GDT | `l_gdt.c` | the table in use | `gdt_init` |
| boot order | `src/kernel/start.asm`, `main.c` | – | console, GDT, memory report, then `kernel_init` |
| console | `l_console.c` | `console` (window, cursor thrice), VGA memory, CRT registers | `console_clear`, `console_write` and its helpers |
| printk | `l_printk.c`, `l_vsprintf.c` | one static buffer | `printk` |
| physical memory | `l_memory.c` | base, size, totals, counter array | `ards_init`, `memory_map_init`, `get_page`, `put_page` |
| kernel pages | `l_bitmap.c`, `l_memory.c` | `kernel_bitmap` | `bitmap_scan/set/check`, `alloc_kernel_page`, `free_kernel_page` |
| paging | `l_memory.c` | directory and tables, TLB | `paging_init`, `set_vaddr_pde/pte…`, `disable_tlb` |
| interrupts | `l_interrupt.c`, `l_interrupt_h.asm` | IDT, `handler_table`, 8259 masks | `idt_init`, `pic_init`, handlers and masks of lines, `send_eoi`, entry and exit code, IF |
| clock | `l_clock.c` | `jiffies` | `clock_init`, `clock_handler` |
| system calls | `l_syscall.c` | `syscall_table` | `syscall_yield`, `syscall_init` |
| tasks | `l_task.c`, `l_schedule.asm` | `task_table`, a PCB and a stack in each task's page | `task_create`, `schedule`, `task_switch`, three threads |
| calendar, RTC | `l_time.c`, `l_rtc.c` | the chip's registers, the alarm | `time_read`, `get_yday`, `set_alarm_sec`, `rtc_init`, `rtc_handler`; commented out in `kernel_init` |
| strings | `l_string.c` | the caller's memory | eleven functions on strings and blocks |
| vsprintf | `l_vsprintf.c` | – | `vsprintf`, `number` |
| stdlib | `l_stdlib.c` | – | rounding, BCD |
| port I/O, assertions | `l_io.asm`, `l_assert.c` | – | single instructions; print and spin |

How they meet. The boot sector reads the loader; the loader puts the BIOS's
report behind itself and reads the kernel; `start.asm` runs the console, the GDT
and `ards_init`. `kernel_init` then lays out memory, builds its page tables over
the loader, turns paging on, sets up the interrupt tables, the clock, the tasks
and the system calls, and enables interrupts. From the first tick on the boot context is gone and three threads print and yield.
They meet at four places: the CPU itself (tick, yield, `schedule`,
`task_switch`), IF (the only lock of the system), printk's buffer, and the
console.

What is hard here: memory that is written over while something in it may still
be needed; a clock that is read, and an alarm that is set, one register at a time while
the clock runs; a tick between any two instructions of a thread; a stack switch in the middle of an interrupt handler, which comes back ticks later and
does not carry IF along; counters that wrap or pass zero; a window that slides
through memory and jumps back; bits marked backwards; translations cached by
the processor; and statistics kept by hand in four functions. `PROJECT.json`
lists these at their lines, under "hazards".

What makes each part correct:

* tasks, interrupts, clock, system calls: no assertion fails, kernel code never
  nests, one running task, ticks in range, ticks acknowledged and served,
  printing goes on, ticks alone starve nobody;
* printk, console: mutual exclusion, one's own text, a consistent cursor, a
  window that behaves as a terminal;
* kernel pages: no page with two owners, an exact bitmap, a panic only when
  nothing fits;
* physical memory: only memory that exists, two disjoint pools, honest counts;
* paging: edits reach the tables in use, nothing stale is used, the kernel's
  map is never lost;
* boot: nothing in use is overwritten, the kernel's memory is the one the BIOS
  reported, mapped frames are counted;
* calendar, RTC: a time that was the clock's at one moment, an alarm that is
  never lost, the right day of the year;
* interrupts: each reaches the handler set for its line, masks keep their
  neighbours, nothing stays in service on either chip;
* strings, vsprintf: the right bytes and no others; numbers that read back, in
  fields of the right width; each conversion its own argument; and, wherever the code
  does otherwise than its comments say, exactly what it does instead.

## The modules

### Tasks, interrupts, clock, system calls, printk

`Scheduler` has one CPU. A *context* is a page with a stack: `Boot` or a task.
`pc[c]` is where a context is in its own code; `kpc` is where the CPU is in
interrupt and scheduling code, on the stack of the current context `cur`
(`running_task()` masks esp, so `cur` is esp's page). A context that is not
current left the CPU inside `task_switch`, or was never entered: `frame` says
which, and `eflags` is the EFLAGS in the frame it will pop.

| code | actions |
|---|---|
| 8253 | `TimerFires` |
| CPU and gate 0x20, `interrupt_entry` | `Interrupt` |
| `clock_handler` | `SendEoi`, `ClockCount` |
| `task_search_in_table` | `ScheduleEntry`, `SearchStep` (one slot a step) |
| `schedule` | `SchedulePick` |
| `task_switch`, `interrupt_exit` | `TaskSwitch`, `InterruptExit` |
| `kernel_init` from `clock_init` | `ClockInit`, `TaskTableSetup`, `TaskCreate`, `SyscallInit`, `BootSti` |
| `thread_a/b/c`, `printk`, `console_write`, `syscall_yield` | `ThreadStart`, `Vsprintf`, `ConsoleEnter`, `ConsoleLeave`, `SyscallYield` |

An assertion or panic is `kpc = "halt"`. Memory the code reads before anybody
wrote it (state and priority in the boot page) is chosen nondeterministically.
A wake-up of the model is an instruction boundary at which the rest of the
system can tell the difference; between two of them the code touches only its
own registers and stack.

The policy is stated three times, each simpler than the one before:

1. `TaskPolicy` – tick, yield, schedule, each one step. `TaskSearch` is the
   search as a function. `Scheduler` implements it (`MCSchedulerPolicy`).
2. `RankedPolicy` – the times of the last ticks replaced by their ranks, so that
   it has finitely many states however long the system runs. `Scheduler`
   implements it, through `TaskPolicy`, until `jiffies` wraps; beyond the wrap
   the order of ages is really lost, in the code as well. Which tasks yield is
   chosen at the start and kept in `yielders`.
3. `RoundRobin` – a queue, which `RankedPolicy` implements if priorities are
   equal and nobody yields.

`MCSchedulerTurns` adds a history to `Scheduler`: who got the CPU since a task last had
it.

### Console

`Console` has the text memory, the window, the cursor in the three forms the
code keeps and the CRT's two address registers (as pairs of bytes). One action a
character of `console_write`; no other caller comes between, which is
`ConsoleExclusive` of `Scheduler`. Positions count characters and not bytes.
`Terminal` is what a reader of the screen sees: lines and a cursor. With
`Losing` a line feed on the last line may be lost. `Console` implements it that
way, and does not without.

### Memory and the boot

`KernelPages` runs the loops of `bitmap_scan` and `reset_page` bit by bit,
from the scan of `memory_map_init` on; `PagePool` is its specification, the
lowest free run or a panic. `PhysMem` goes from the BIOS's report through
`ards_init`, `memory_map_init` and `paging_init` to `get_page` and `put_page`,
counting in pages. `Paging` has the directory and tables as memory, walked by an
external MMU through an external TLB that may forget but never notices a
change. Its caller is `paging_test`, a statement a step in the order of the code
(`Follows`), for any page outside the kernel's that is not mapped yet; a statement that
uses a page which is not mapped ends in a fault. Nothing calls `paging_test`: the model
is of what it does when it is called. The processor translates only what code uses;
that it may fetch translations on its own account is not modelled.
`ards_init` checks the loader's magic number first (`l_memory.c:55`); `loader.asm`
always passes it, and the panic of the other branch is left out.

`Boot` composes `PhysMem` and `Paging` with what comes before them. Its own
state is the part of the boot that runs (`at`), the disk, which may fail, the
descriptor table in use, and what lies where (`memory`, spans of bytes at the
addresses of the code; writing one destroys what it touches).

| code | actions |
|---|---|
| `boot.asm` | `ReadLoader`, `ReadSector`, `CheckMagic` |
| `loader.asm` | `E820Record`, `E820Carry`, `EnterProtected`, `ReadSector` |
| `start.asm` | `ConsoleInit`, `GdtInit`, `ArdsInit` (steps of `PhysMem`), in the order `Then` |
| `kernel_init` | `MapInit` (`PhysMem`), `PagingInit` (a step of both `PhysMem` and `Paging`) |
| what follows | `HandOut` (`PhysMem`), `EditTables` (`Paging`) |
| drive, BIOS | `DriveAnswers`, `bios`, `carry` |

`KernelPages` shares no variable with them: its bitmap is one of the spans of
`Boot`, and nothing is written over it. `MCMemory` has both for TLC, the allocator alone or
the boot.

### Calendar and RTC

`Rtc` runs `time_init`, `rtc_init` and then `rtc_handler` again and again, one
step for each register of the chip read or written. `Second` is the clock: it
goes on between any two of them, sets the flag and raises the line when it
reaches the alarm. The chip is external, and so is the 8259, which holds the
line until the handler is called. The code never looks at the chip's
"update in progress" bit; the model takes the update as one piece, so a register
read in the middle of one is out of its reach. `kernel_init` has the calls of
`time_init` and `rtc_init` commented out (`main.c:69`, `71`), and `rtc_init` the
opening of its line: the model is of what they do once they are made and the line
is open.

### Interrupts

`Interrupts` has the tables and both 8259As: `idt_init`, `pic_init`, the
registration of handlers, `set_hardware_interrupt_mask` in two steps, the port
read and the port written back, since interrupts may be on between them, and
the way of every vector from its line through the stub and `handler_table` to
`send_eoi`, one step for each chip. The chips are external: their priorities,
the cascade on line 2, what is in service. An exception ends in
`exception_handler`, which hangs. Here a handler is one that returns; that the
clock's may switch stacks first is the subject of `Scheduler`, where the chips
are reduced to one line.

### Strings and vsprintf

`Strings` runs one call of a function of `l_string.c`, a turn of its loop at a
time, on a memory of a few signed chars. The arguments are those its contract
allows, also characters given as ints that no char holds; what happens with others is
not modelled. `Legal` has the contract: `string_copy` is given one byte more than its
comment asks for, since it writes it, and `string_n_copy` with a count of 0 the byte
before its destination. `Format` is `vsprintf`, one
character or one whole conversion at a time. A character is a string of length
one, so that the conversion to digits is done and not assumed; a number's laws read its
text back (`ReadIn`). `MCLibrary` puts
the two and `Rtc` side by side for TLC.

## The runs

| run | shows | bounds |
|---|---|---|
| scheduler | the safety of `Scheduler`, and that it implements `RankedPolicy` | 3 tasks, the last never yields, 4 slots, priority 2, 12 ticks, no wrap (1.2 million states) |
| liveness | types, `TaskPolicy`, clock requests served, printing goes on | 3 tasks, the first of which yields, priority 2, no bound on ticks: `jiffies` wraps at 4 |
| ranked | round robin and no starvation without yields; the last slot comes round with them | 4 tasks, priority 5, all yield or none; unbounded in time |
| turns | **violated**: of two tasks with the same ticks left the one that just ran is preferred to the one that waits | `task_init`'s instance: 3 tasks, priority 5, all yield |
| printk | **violated**: a thread prints another's text | 2 tasks |
| memory | the boot, physical memory, paging and their composition; the kernel page allocator and that it implements `PagePool` | every report of up to three regions in any order, 16 pages of 32-bit addresses, 64-bit sizes beyond; 2 tables of 4 entries, 7 watched pages, 2 targets; a bitmap of 8 pages, requests of 1 to 3 |
| e820 | **violated**: a complete report stops the loader | the same |
| console | the console | 2 lines of 2 cells in 21 cells of memory: 6 slides, then a jump back |
| line_feed | **violated**: the line feed at the jump is lost | the same |
| interrupts | dispatch, masks, ends of interrupt | lines 0, 1 and 9 (one behind the slave), 2 exceptions, all 48 vectors |
| library | `l_string.c`, `vsprintf`, the calendar and the alarm | 5 bytes of 3 values, counts to 4; every type with up to two flags, 5 widths, 4 precisions, 8-bit numbers; minutes of 11 seconds, hours of 11 minutes, days of 2 hours, the dates about a leap day; a second at most in a call, two until an interrupt is taken |
| yday | **violated**: the day of the year is one too small | the same |

Why these are enough. Three tasks are the smallest number for which the search
has a choice and what it passes over matters; slots beyond the tasks are empty
and skipped. Twelve ticks are two rounds of whole quanta. The wrap of the
counters happens in `liveness`, where three tasks with last ticks on both sides of it
leave the search a choice that another comparison would make otherwise; the
proofs hold for all sizes. `turns` is the real instance. The bitmap has two bytes, and requests long
enough to be defeated by fragmentation. The console's memory is as small as its
assumption permits and the registers hold less than a position, so that both
halves of a pair matter. In `memory` a region can be just too small, just
enough, above 32 bits and of a size whose low 32 bits are zero, and the list may
end either way; the addresses and the lengths in low memory are of the real
size, but for a loader of 700 bytes and a short kernel. A minute of 11 has a
second digit, so that BCD and binary differ, and with two hours the day is over
soon enough for every carry to happen. Line 9 is in service on both chips at once, line 1 is less urgent than the clock. Five bytes
hold two neighbouring strings, overlapping blocks, and counts below, at and
above a string's length. Precision 5 exceeds and falls short of the number of
digits, width 6 and 10 of what must be written.

Deadlock is checked except where the system stops by itself: `scheduler` (its
clock is bounded), `memory` and `e820` (a panic halts, an error of the disk or
of the boot hangs), `interrupts` (an exception hangs), `library` and `yday` (a
call returns).

### Fairness

`Scheduler`: the CPU always executes its next instruction (`WF` of `CpuStep`);
the 8253 never stops (`WF` of `TimerFires`); and a thread that is again and again
in its own code with no request pending executes some of it (`SF` of
`ThreadStep`): two ticks are 50 ms apart and a handler takes microseconds. It is
*not* assumed that this happens: `PrintingGoesOn` has it as a premise. No
fairness between tasks is assumed; that is the scheduler's business.
`RankedPolicy`: `schedule` finishes, the clock ticks for ever (`SF(Tick)`), and a
thread that gets the CPU again and again reaches its next yield (`SF(Yield)`).
`NoStarvationByTicks` is about tasks that never yield, and needs the clock alone.
`Console` (`FairSpec`, used by `line_feed`): the threads print for ever.
`Interrupts`: the processor takes interrupts and handlers go on (`WF` of
`Deliver` and `HandlerStep`); nothing is assumed of devices or of the kernel's
own code. `Strings`: a call goes on (`WF` of its steps). `Rtc`: the clock does not
stop, the code goes on and the line is open (`WF` of `Second`, `RtcCode` and
`AlarmInterrupt`); that a call takes less than two seconds, and an interrupt less
than the day until its alarm comes round, are bounds of the model (`SLOW`, `LATE`).

### What the violated runs show

* **turns** (`l_task.c:82-83`). `task->jiffies` is the time of a task's last *tick*, not
  of its last start, and on a tie of ticks and times the first candidate in the table
  wins. At first all quanta are full and nobody has counted a tick, so A yields to B,
  and B back to A, while C waits. The comment says that the last comparison prevents
  starvation and that B switches to C. It goes on like this until a tick tells the
  three apart: who is interrupted has a later time and a tick less than the others.
  The last slot always comes round (`LastSlotRuns`), and with no yields and equal
  priorities everybody does (`NoStarvationByTicks`). With priorities 1, 5, 5 in the order
  of the slots the first starves even if nobody yields: whoever looks for a successor
  finds a full quantum behind it.
* **printk** (`l_printk.c:19-23`). The buffer is static and interrupts are
  disabled only inside `console_write`.
* **line_feed** (`l_console.c:159-163`). When the window jumps back to the start
  of the memory the cursor stays on the last line, as the code's own comment
  says; `console_lf` promises a move down. At the real size it is every 154th
  scroll or so.
* **yday** (`l_time.c:59`). Years are counted from 1970, which was not a leap year,
  and those divisible by four are taken for leap years. The comment promises a day
  less only in other years; the commented `mktime` has it right.
* **e820** (`loader.asm:26`). Carry means an error to the loader after any call; the
  documentation it was written from (`docs/008-detect-memory.md:39`) says that a
  BIOS may mark the end of its list that way.

### Other places where the code leaves its comments

Met while translating; each is in the model as the code has it, and the
properties above are stated so that they hold in spite of it.

* `paging_init` (`l_memory.c:271`) refers to 2047 pages and leaves `free_pages`
  alone, so that it is not "the number of free pages" (lines 29 and 118).
  `FreePagesLedger` holds: the number is off by a constant.
* `pic_init` (`l_interrupt.c:177`) masks all lines; its comment says that only
  line 0 is kept open. `clock_init` opens it later.
* With one task the first yield, or its last tick, stops the machine, which the
  comment at `l_syscall.c:45` warns of. With more tasks than slots the boot
  panics.
* `l_string.c` (`StringLaws`): `string_copy` (line 15) ends the text twice, one byte
  behind the terminator; `string_n_copy` with a count of 0 (line 43) writes
  before its destination. `memory_compare` (line 189) never advances its counter, so
  that `count` does not bound it and a zero byte stops it. The finders compare chars with
  an int that was to be converted (lines 101, 119 and 214), so that a `ch` which is
  no char is never found. `memory_find_char_first` stops at a zero byte (line 218)
  and has no return statement for "not found" (line 222): when there is no zero byte
  either the result is any.
* `vsprintf` (`FieldLaws`), against `docs/024-printk.md`: the number is unsigned,
  so `%d` writes no minus (line 17; `l_vsprintf.c:43` and 65); the flag 0 is obeyed with
  a precision (line 22; `l_vsprintf.c:58`); a `%s` with a width is padded by the wrong
  number of blanks (line 26; `l_vsprintf.c:278` to 294), by the formula of
  `StringField`. A star for width or precision gives up.
* `boot_error` (`boot.asm:30`) ends in `hlt` without a loop: the next interrupt goes
  on into the bytes of its message. The model stops there.
* `read_disk` (`boot.asm:97`) waits for data until there are some; an error of the
  drive is never asked for, and the boot hangs without a word.
* `.error` of the loader swaps the operands of its second `mov`, so that the `E` is
  not written to the screen.
* In binary mode `time_read` (`l_time.c:64`) leaves `tm_yday` alone, and
  `set_alarm_sec` writes BCD whatever the mode; `rtc_init` chooses BCD before either
  matters.
* `get_cursor` (`l_console.c:98`), which nothing calls, discards its shifts.

## The proofs

`SchedulerProofs` proves, for every number of tasks from two to the size of the
table, every priority, every choice of yielding tasks, every word size and with
no bound on time: `TypeOK`, `NeverHalts`, `KernelUninterruptible`, `OneRunning`,
`QuantumInRange`, `ConsoleExclusive`, `ResumesInterruptible`,
`AcknowledgedBeforeSwitch`, and the action properties `BootAbandoned` and
`PreemptedOnlyAtQuantumEnd`. The premise `Configured` (`NumTasks \in 2 ..
NUM_TASKS`) is necessary: a single task has nobody to yield to, and a task too
many finds no slot. `KernelUninterruptible` and `BootAbandoned` have no run: the
assertion that rests on the first is in `NeverHalts`, and `ImplementsRanked`
does not let the boot context be chosen.

None of the properties is inductive. The invariant `IInv` adds:
the table is filled in the order of creation (`TableInv`); the boot code is at a
point that matches what exists, alone and uninterruptible until it idles
(`BootInv`); each task is absent, waits on a stack that will enable interrupts,
or runs with the IF its position implies (`TaskInv`); and, for a search in
progress, either a candidate was found or every slot passed held none
(`CpuInv`). The last part is why `schedule` never comes back empty
(`CandidateFound`): with two tasks the other one is ready and has a slot. One
lemma per action; `NextInv` collects them.

`PolicyProofs` proves that `Scheduler` implements `TaskPolicy`
(`SchedulerImplementsPolicy`) and, on every run on which `jiffies` does not wrap,
`RankedPolicy` (`SchedulerImplementsRanked`). The premise `NoWrap` is about the run,
not about a constant: past the wrap the code really forgets who is older.
`BoundedImplementsRanked` shows that it is met by each run that stops counting
before the largest word. `PolicyInv` adds to `IInv` that the loop over
`task_table` has found, after some of its turns, what the policy's `Scan` makes of as
many tasks (`SearchInv`), that the boot context has one tick until the first is
counted (`BootTick`), and that nobody's last tick is set before he exists
(`FirstJif`). For the ranks it needs that no last tick is in the future
(`PastJif`), which is what a wrap destroys. Both need to know what the scan computes:
`TaskSearchProofs` proves that the recursive function satisfies its own equation,
whom it returns, and that it returns the same for times as for their ranks.

`RankedPolicyProofs` proves `EqualTasksTakeTurns`: tasks of one priority of which
none yields take turns, so that `RankedPolicy` implements `RoundRobin`, for every
number of tasks and every quantum. The queue of `RoundRobin` is the waiting tasks by
rank and then by slot. `TurnInv` says that all who wait have a full quantum and that
whoever has ticked ranks above them all; so the first of the queue is the choice of
the search, and the task that leaves goes to its end. The
premise `EqualPriorities` is what `task_init` does: it creates its tasks with priority 5.
That its threads all yield is the other case, of which `RoundRobin` says nothing.

`MemoryProofs` has the proofs about memory, from the kernel's pages to the boot.

`KernelPages`, for every size of bitmap and request: `RunUnowned`,
`BitsMatchOwners`, `HaltsOnlyWhenFull`, `FirstFit`, and with the last two that
`KernelPages` implements `PagePool`. `IInv` says what each loop has done so far:
every run that ends before the scan's index has a page in use, the last `found`
pages are free; the marking is ahead of the owners by a suffix of the run, the
clearing behind by one. `HaltsOnlyWhenFull` and `FirstFit` have no run of their
own; `ImplementsPool` says more than both.

`InterruptsProofs` proves, for any lines and any exceptions, `HandlersFinish`,
`MasksAsAsked` and `DispatchesAsAsked`. The invariant adds what is in service while
a handler is on its way (`Serving`): between the two ends of interrupt the master's
bit is gone and the slave's is not. `MasksInv` says that a mask that was read and
not yet written back is still the one the chip has, since no handler changes masks.

`ConsoleProofs` proves, for every size of screen and text memory that
`ConsoleAssumption` allows, `CursorConsistent`, `BlankBelow`, and that `Console`
implements `Terminal` with line feeds that may be lost. The helpers work on a record,
so the lemmas are about records: what each helper makes of a good one (`Good`), and
what of the screen a reader sees. The hard one is the jump back to the start of the
memory: the copy must not run into itself, and takes the blank lines below the
cursor along.

`PhysMem`, for every report that `RegionsAssumption` allows:
`UsesRealMemory`, `PoolsDisjoint` and `FreePagesLedger`. `PoolsDisjoint` says of a frame
handed out that it is neither a page the kernel maps nor one that holds the counters (these
two may be the same pages), that it is memory, and that it has one reference. The invariant follows the
chosen region from its record (`Chosen`, `Sized`) through the array laid over its
first pages (`Laid`) to who has each frame (`Owned`); the ledger needs that the set
of frames handed out is finite and that each `get_page` adds one to it. The
assumption is necessary: of a region above 4 GB, `ards_init` keeps the low halves,
and if they look like 1 MB the kernel counts on memory that may not be there.

`Paging`, for tables of any size: `EditsReachTable`, `NoStaleUse` and
`KernelMap`. The invariant says what the directory and the kernel's tables hold,
where a page of `paging_test` is mapped and how far the test must be for that
(`TestInv`), and that the TLB agrees with memory for every page but one between its second
edit and `disable_tlb` (`TlbInv`). The window's own pages are never among
these, though edits of the directory go through them (`WindowInv`); that is why an
edit reaches the table it names.

`Boot`: `NothingUsedIsLost` and `FramesCounted` of the composition, and
that it implements `PhysMem` on the memory the BIOS knows (`SetsUpReported`), for
every length of loader, kernel and report within `BootAssumption` and
`ReportAssumption`: a loader that ends below the boot sector and a report that ends
below the kernel. The invariant ties `at` to the phases of `PhysMem` and says which
spans are there at each. `PhysMem`'s invariant is used from `ards_init` on, since
until then the report still grows, and `Paging`'s through `BootIsPaging`: the boot is
one of the uses that `Paging` allows.

`LibraryProofs` has the proofs about strings, `vsprintf` and the clock chip.

`Strings` (`StringsKeepLaws`): every call with legal arguments keeps `StringLaws`, for
every size and content of memory and every length of string. `StringsInv` has a clause
for each loop: after `i` turns the bytes passed are copied, or equal and not 0, or do not
hold the character, and all others are as they were. `StringLaws` has a law for each of
the eleven functions; where one leaves its comment the law says what it does instead
and names the line. Blocks that `memory_copy` may be given
overlap with `dest` below `src`, so that a byte is read before it is written over.

`Format`: `ArgumentsInOrder` and `FieldsKeepLaws`, for every format, width, precision,
set of flags, argument and size of a word. The one assumption is the caller's part of the
contract, `WellCalled`: each conversion has a type, and an argument of this type. For the
arguments, `ScanInv` says that every conversion that started has ended before the
character looked at; where conversions start is a recursive function of the format
(`Starts`), so that flags, qualifiers and `%%` cannot be miscounted. For the fields,
`FieldInv` says what the last one was written from. Its laws rest on lemmas about the
operators: a place found by `Past` is the first; the digits of `Numeral` read back as the
number (`NumeralReads`, by induction over the number); what is before a text whose digits
are all zero does not change what it reads as (`ReadSkip`); and the three layouts have the
length of their parts, with blanks and zeros only where the flags allow (`Layouts`,
`LayoutStands`, `ZerosFill`); and no character of a number's field is a minus
(`NoMinus`). The law of `%s` is the width the code makes, not the one asked for.

`Rtc`: `ReadsOneMoment` and `AlarmNeverLost` for every length of minute, hour and day. What was read so far is what the clock shows, or else the second has
changed since and reading it again will tell (`ReadInv`); what was written of the next
alarm is two seconds after a moment of this call (`AlarmInv`, with `AlarmTime`: the
carries of `set_alarm_sec` are those of the clock); and a flag without a line can only
be in the handler (`LineInv`). `SLOW < ALARM` is necessary: a call of two seconds sets
an alarm that has passed.

The constants' assumptions are those in the modules and are evaluated by TLC.

Recursive functions. The induction theorems of the library take an operator as a
parameter, which the provers cannot instantiate. `NatInduct`, `Induct` and `SeqInduct`
state induction for a set instead, and follow from the well-foundedness of the natural
numbers; with them a function defined by recursion (`Scan`, `Starts`, `ReadIn`,
`Numeral`) is first shown to exist and to satisfy its equation, and then what it
computes.

Only model-checked: liveness under fairness and everything that rests on it
(`TicksServed`, `PrintingGoesOn`, `NoStarvationByTicks`, `LastSlotRuns`, `ClockServed`,
`AlarmRings`, `Returns`), which need ENABLED. Every invariant, every action property and
every refinement that a passing run checks is also proved.

## Not modelled

Port instructions and assertion printing; the code of the loader that is jumped over;
the beeper (nothing calls it); `mktime`, whose body is commented out; the functions
with `deprecated` in their names; `get_screen` and `get_cursor`; the length of printk's
buffer; a region above 4 GB that looks like one at 1 MB (`RegionsAssumption`); an
update of the clock chip that takes time; the earlier system under `utils/`.

## Plan

1. Done: every part of the kernel that keeps state, the boot that leads to it, and the
   proofs above.
2. `Scheduler` with the chips of `Interrupts`: its `pic` shown to be what
   `Interrupts` leaves of lines other than the clock's.
