# A TLA+ development for the Iridium kernel

This directory models IridiumOS where the order of events, the width of a number
or the contents of shared state decide whether it works. The models are checked
with TLC on small instances, and what can be proved for every size is proved
with TLAPS. `PROJECT.json` names every run, the source lines of every definition,
the hazards and the theorems.

    tlc -config MCProcQueue.cfg MCProcQueue.tla     # a run
    tlapm ProcQueueProofs.tla                       # a proof

## 1. The system

Iridium is a small x86-64 kernel for one CPU, booted by limine. `init` in
`kernel.c` starts the components in turn and jumps to `init.sys` in ring 3; from
then on the kernel runs only for a system call (`int 0x80`), a timer or keyboard
interrupt, or a fault.

| component | state | operations | talks to |
|---|---|---|---|
| process queue (`proc/proc.c`) | a ring of `struct Process`, `queue_base`, `queue_head`, `current_task`, `next_pid` | `proc_init`, `_spawn`, `kill`, `exit`, `handle_exception` | frames, page tables, heap, ELF loader |
| task switch (`asm/proc/tasking.asm`) | the saved registers in each process | `switch_task` on every timer tick | process queue |
| process signals (`proc/proc.c`) | a `struct SignalQueue` in each process | `psignal_send`, `psignal_read`, hook | process queue (a signal spawns a handler), keyboard |
| system calls (`intr/syscall.c`, `asm/intr/syscallasm.asm`) | `syscall_regs` | `dispatch_syscall` and ten services | everything |
| physical memory (`mm/pmm.c`) | a byte map of frames, the hint `bitmap_i`, a lock | `pmm_init`, `pmm_alloc`, `pmm_free` | boot memory map |
| virtual memory (`mm/vmm.c`) | page tables, two locks | `vmm_map_page`, `mkpml4` | frames |
| heap (`mm/kheap.c`) | a list of blocks | `kmalloc`, `kmalloc_user`, `kfree` | page tables |
| driver master (`proc/drvmaster.c`) | which driver is claimed, the groups of each process | `drv_claim`, `verify_drvmaster` | process queue, screen service |
| services (`uapi/`) | a table of services; the screen's command burst | `sysreq` | keyboard, frame buffer |
| keyboard (`drivers/ps2`) | one buffered key | `irq1_isr`, `ps2_fetch_keystroke` | signals |
| ACPI, interrupt controllers, initrd, ELF | tables and entries set up at boot | parsing, `ioapic_init`, `elf_get_entry` | heap, page tables |
| programs (`programs/sys`) | the shell's command buffer, init's lock | callbacks for signals | system calls |

Three facts about the code shape every model.

* **What interleaves.** A system call and an interrupt handler run with
  interrupts off from beginning to end (the stubs and `_spawn`, `kill`, `exit`
  execute `CLI`), so each is one step. Processes interleave between them. There
  is one exception: `kill` ends with `STI; while (1);` and waits for the timer,
  and until it comes other interrupts may run. The models have a mode,
  `dying`, for that window.
* **What is never given back.** `kfree` walks from the block it was given and
  stops before it has marked anything: `block` *is* `DATA_START(cur_block)` at
  the first test (`kheap.c:136-140`). So no `struct Process` is ever reused, and
  the pointer `current_task` that `kill` leaves behind keeps its old `next`.
  The models name a struct by the number of its allocation for this reason.
* **What is not initialised.** The frame bitmap is whatever the memory held at
  boot. The models start from every possible content.
* **What is not kept apart.** `pmm_alloc` hands out `0x1000*i` from `i = 2`,
  whatever the memory map says of these addresses. `HEAP_START_ADDR` is the place
  where the boot loader mirrors physical memory from 0, so the heap grows over the
  same frames; the bitmap is written to the base of a usable chunk; programs are
  linked to low addresses. Nothing in the code prevents that one lies over
  another, and what the kernel does once that has happened depends on every byte.
  `Memory` and `Boot` say where everything lies and stop at the first write over
  memory that is in use (`"wild"`). Everything they show holds up to there.

What should hold, in short (`PROJECT.json`, "hazards", is the long form):

* *Process queue.* Any sequence of spawns, signals, exits and ticks leaves one
  ring through exactly the living processes; nobody starves; an exit ends its
  caller, although PIDs come from a counter that goes up and down.
* *Signals.* An accepted signal is there until it is read, its handler finds it,
  and a handler is not signalled, although it works on a *copy* of its parent's
  queue, made with the lock taken.
* *Context switch.* Registers survive what lies between a program and its next
  instruction; a program runs in its own address space.
* *Memory.* `pmm_alloc` hands no frame out twice that was not given back, as long
  as it and `pmm_free` alone write the bitmap (which the heap, see above, may break);
  that a frame has one owner does *not* follow, since `kill` gives back the page
  table of a handler's living parent. No mapping moves; heap blocks are disjoint;
  the page-table lock is taken twice by one caller only beyond 4 GiB.
* *Drivers and services.* One master per driver; the command burst of the
  screen, static state shared by all processes, does not mix two of them.
* *Keyboard to shell.* Every keystroke reaches the shell once.
* *Boot.* A machine that has what the kernel needs comes up, whatever the
  interrupts in between, unless memory in use is written over; another one stops,
  in a panic, a wait or a fault.

## 2. The modules

| module | models | extends |
|---|---|---|
| `RoundRobin` | what the process queue promises: the living processes in the order of their creation, the one running, the heir of one that ended | |
| `ProcQueue` | `proc.c` without signals, `switch_task`, system calls 3 and 7 | |
| `AddressSpace` | the frame of each process's top page table | `ProcQueue` |
| `MCProcQueue` | the instance, and the refinement `RoundRobin` <- `ProcQueue` | `AddressSpace` |
| `Mailbox` | what signals promise to a well-behaved program: one letter per owner | |
| `Psignal` | signals, hook, handlers, the keyboard interrupt as a sender | `ProcQueue` |
| `MCPsignal` | instances, and the refinement `Mailbox` <- `Psignal` | `Psignal` |
| `System`, `MCSystem` | the key buffer, `init.sys` and `shell.sys`, instruction by instruction where they share variables | `Psignal` |
| `Context`, `MCContext` | the registers across system calls, ticks, spawns, exits, faults | |
| `Bitmap` | where the search in the frame bitmap stops | |
| `Pmm` | `pmm_alloc`, `pmm_free` | `Bitmap` |
| `Memory` | `vmm_map_page`, `mkpml4`, the heap | `Pmm` |
| `Display` | `drvmaster.c`, `uapi/`, the dispatch of system call 1 | |
| `PmmChunks` | the scan of `pmm_init` | |
| `Acpi` | checksum, search for the MADT, walk over its entries, `acpi_irq_to_gsi` | |
| `Loader` | the tar walk of `initrd_open`, `elf_get_entry` | |
| `Boot`, `MCBoot` | `_start` and `init`, stage by stage, with interrupts in between | `PmmChunks`, `Acpi`, `Loader`, `Bitmap` |
| `ProcQueueProofs`, `SystemProofs` (signals and programs), `SpaceProofs`, `ContextProofs`, `MemoryProofs`, `DisplayProofs`, `BootProofs` (with `PmmChunks`), `NatLemmas` | theorems | the modules they are about |

**ProcQueue.** A process is a number `1..MaxProc`, pointers are such numbers or
`NULL`, and `queue_base` is 1. `Spawn` is `_spawn` behind its permission check:
it links, numbers, initialises and evaluates the assertion at its end.
`SysSpawn` is the system call, `SpawnHandler` the spawn inside
`psignal_exec_callback`. `Kill` performs `kill` in the order of the code: the
first decrement of `next_pid` is decided before the unlinking, the new head and
the second decrement after it, then the assertion. A failed `ASSERT` is a mode
in which nothing can happen any more. `Tick` is `irq0_isr` and `switch_task`.
`locate_proc` is not recursive: what its loop examines is the least set that
contains `queue_base` and is closed under `next` until the PID is found or the
walk is back. `_spawn` of a missing ELF does not fail in the code either: the
process is made with entry 0 and faults when it runs, which is `Exit`.

**AddressSpace** composes processes and frames. A spawn takes one frame for CR3
and possibly others (`Pages`: how many depends on page tables); a handler takes
frames too but gets its parent's CR3; `kill` frees the CR3 of the process it
ends and moves the hint to it. Memory does not run out here; `Pmm` covers that.
`stray` is history: the frames freed while another living process had them.

**Psignal** extends `ProcQueue` with the queue's fields. `psignal_send` covers
refusal (no change), the push, the lock, and the spawn of the handler with its
copy. `psignal_read` releases, tests and pops exactly where the code does: the
lock and the slot are the parent's for a handler, the emptiness test is the
caller's own. An index outside the three slots reads any value. The keyboard
interrupt is an action that may come at any time, also in the `dying` window.
`Disciplined = TRUE` restricts processes to what `init.sys` and `shell.sys` do:
they hook in `main`, never unhook, leave reading to their handlers, and a
handler reads once. That these programs do so is itself checked
(`System!ProgramsKeepDiscipline`). `fetched` and `accepted` are history.

**System** gives every process a program counter. A key is pressed while the
buffer is empty; `irq1_isr` buffers it and signals PID 1; init's handler takes
init's mutex, fetches, sends a signal to the shell's stored PID, unlocks, exits;
the shell's handler fetches the key with `sysreq` and works on `cmdbuf_idx`.
The test of `cmdbuf_idx` and the store behind it are two steps, because the
index belongs to the process and a tick may come between them; the store uses
the tested index or reads it again, as the compiler may choose.
Output is left out, and so is the stack pointer that `Context` shows to be
wrong: the programs are modelled as if each kept its stack.

**Context** follows registers, not their order of scheduling: any living process
may be next. A register holds a value of its program, or `Kernel` for whatever
kernel code left there. `Clobbered` are the registers the compiled C functions
between the interrupt and `switch_task` overwrite; the theorems hold for every
set of caller-saved registers.

**Memory** puts page tables and the heap on top of `Pmm`. The four levels of
tables are one map from pages to frames and the set `Untabled` of the pages for
which the boot loader left no tables: those behind 4 GiB, of the low addresses and
of the heap. `mkpml4` copies the top level only, so all address spaces share that
map. A function that maps several pages is a `call` with a list of pages to work
off; nothing interleaves with it. When a table is missing (`MapUntabled`),
`vmm_map_page` clears the new table through the page of its number, which faults
if that page is not mapped and leaves the lock taken, and otherwise calls itself
with the lock held: `stuck`. `NextBlock` counts block headers where it means bytes,
as `kheap.c:86` does: a block is 48 times its size behind the one before, so the
heap leaves its 4 GiB after some thousand spawns. `Return` then faults at the header
of the new block, to which `heap_head->next` already leads, and every later
`kmalloc` faults in `first_fit` (`overrun`). `FreedBy` is the empty range of blocks
that `kfree` marks. `Kill` gives back the frame in the CR3 of the process that ends,
a handler's (`ReturnSpace` may give a process the CR3 of another one) like any
other, so a frame may be given back while others run on it, handed out again, and
given back once more. A fault of the kernel ends the process that called; without
one, and with NULL in CR3, the machine is `lost`. `wild` is described above:
`InUse` and `HeapFrames` are what must not be written over.

**Display.** `drv_claim` with its five tests, `verify_drvmaster`, and `sysreq`
with its services. `arg`, `data_index`, `saved_req` and `cmd_bursting` are the
static variables of `screen.c`, one copy for all processes. `drawn` is the call
a step makes to `lfb.c`. `sent` and `asked` are history: each process's own view
of the burst it is sending, and the command that view completed. With one
claimable driver the tests for the number of groups cannot fail in the code; the
run has two drivers and room for one claim so that they do.

`drvmaster.h:45` says of `drv_claim` that it "only works during boot time"; the
code has no such test, `Display` accepts claims at any time as the code does, and
no property is about that comment.

**Boot** takes a machine (memory map, content of the bitmap, unused memory, ACPI
tables, boot modules, RAM disk, what the firmware left in the I/O APIC) through the
stages of `init`, each one step; `pmm_init` is the loop of `PmmChunks`, the others
use the operators of `Bitmap`, `Acpi` and `Loader`. Frames and heap blocks are taken
where the code takes them: a frame in `vmm_init`, one in `proc_init`'s first
`kmalloc` (page 0 is not mapped, and `DATA_START(NULL)` lies in it), one for PID 1's
page table, one for the stack of the TSS; blocks for the process, its stack, the
TSS, the font, each file that is opened and its program headers.
`vmm_alloc_page` has four outcomes: a page, `NULL`, a wait for a lock, a fault; each
stage does with them what the code does, down to `proc_init`'s assertion and
`write_tss`, which does not look. Without an I/O APIC in the MADT `ioapic_init`
dereferences NULL: `crash`. From the `STI` in `proc_init` to the `CLI` in `kernel.c`,
and in ring 3, interrupts may come; `fault` becomes true if one meets a gate, a base
address, a TSS or a current task that is not there yet. In ring 3, `init.sys` may
load further programs, any number of times and in any order; `spawn` takes its frame
and blocks, fills the frame, takes `PAGE_USER` from the low pages that `kmalloc` and
`vmm_alloc_page` map, and loads the file. Programs do not end in `Boot` (they do in
`ProcQueue` and `Memory`), so no frame comes back. `spare` says which frames of a
machine are used by nobody else; `Apart` is the test that what was handed out, the
heap and the programs lie there and not over one another.

Definitions marked "Mutant" are wrong variants of the one below them, each a
plausible bug. A property is kept only if TLC refutes it for its mutant.

## 3. The runs

| run | bounds | shows |
|---|---|---|
| `queue` | 5 structs, PIDs up to 32767, 3 masks, 6 frames | ring, running task, PID order, exits accepted and their caller's own, starvation freedom, page tables stay with their program, refinement of `RoundRobin` |
| `queue_kill_assert` | as `queue` | **violated:** two processes share a PID and `kill`'s assertion fails |
| `signals` | 4 structs, 2 signals, disciplined programs | lock and index agree, handlers find their signals and get none, accepted signals stay, refinement of `Mailbox` |
| `signals_underflow` | 3 structs, any program | **violated:** a second read by a handler wraps the index |
| `system` | 6 structs, one character and Enter, a command buffer of 1 | keys are fetched once, by the shell, and in time; the programs keep the discipline of `signals` |
| `context` | 3 processes, RBX and RDX for the two kinds of registers | registers survive switches and calls, CR3 is the program's own |
| `context_rsp` | as `context`, with RSP | **violated:** the next task runs on the stack pointer of the interrupted one |
| `memory` | 10 frames, limit of 4 GiB at frame 8, 11 heap pages, 2 requests, 2 processes, 1 program page | exclusive frames, first fit, filled page tables, mappings stay, disjoint and usable heap blocks, the lock |
| `frames_zero` | bitmap of 6, memory of 8 bytes | **violated:** 0 is returned while frames are free |
| `spaces_kill` | 4 structs, 6 frames, 1 or 2 per spawn | **violated:** a handler's end frees its living parent's page table |
| `display` | 3 processes, 2 drivers, room for 1 claim, 3 values | one master per driver, commands are drawn as they were sent |
| `boot` | the machines of `MCBoot`, 2 ticks, 17 heap blocks | chunk choice, interrupt routing, no early interrupt meets anything missing, files found, programs loaded whole and kept, the boot ends where it should |

The runs marked *violated* check claims of the source's own comments,
assertions or headers that its code does not keep; "findings" quotes them.

**Why these bounds.** *queue:* five structs give init, a head, two processes in
between and one that appears in the `dying` window; structs are not reused, so five
is also the number of spawns, and the double decrement of `next_pid` needs three.
Six frames never run out. The PID counter stays below its limit; that the ring and
the exits survive its wrap is proved. *signals:* a signal to a process with a
handler unread needs two signals and three structs. `PidMax = 7` is above every PID
of four structs. `Key` is the only payload: no property compares two.
*signals_underflow:* the indexes below 256 that repeated underflow reaches behave
alike, so `ReadFloor` stops at 254. *system:* six structs are init, the shell and
the two handlers of each of two keys, so the second key meets every state the first
one left; a buffer of one character is full after one key and overruns with the
second. *context:* three structs give init, a program and a process made while
another one is left; registers do not depend on each other, so one that C keeps and
one that it may overwrite stand for all. *memory:* frames 8 and 9 lie above the
limit of what is mapped and of what 32 bits reach, frame 9 behind the bitmap, frame
6 is in use by the kernel and page 3 is a program's; a page of eight bytes and a
header of four make requests of 6 and 9 cover one page and two, aligned and not, and
put their blocks so far apart that the third or fourth leaves the eight heap pages
that are mapped; eleven are modelled so that the block behind the limit is there.
Two processes are a parent and its handler. *display:* two claimers and one process
without the permission give every pair that could meet in a burst, and the longest
burst is four requests of values 0, 1, 2. *boot:* all memory maps of up to four
entries and three lengths; bitmaps with one to six free frames in a row and others
behind their end, below and above the limit of 4 GiB at frame 100, so that each of
the four frames that the boot needs is missing, too high or there; memory in use in
the way of each kind of frame, block and program; all MADTs of up to three entries,
with none, one or two I/O APICs; archives with file sizes at, below and above a
block; ELF headers wrong in each of their fields; one of these is varied at a time
around a machine that boots. Pages of four bytes and headers of three; the programs
lie in the pages 8 to 13 and the heap behind them; 17 blocks leave room for up to
two spawns. An I/O APIC has three pins, so that the second one starts at GSI 3 and
both wires can end there. Two ticks suffice as a tick changes only a counter.

`EarlyKeys = FALSE` is a bound with a meaning: a key that comes before `init.sys`
hooked its callback, before it stored the shell's PID or before the shell hooked
its own stays in the buffer for ever and the keyboard is dead. With
`EarlyKeys = TRUE` TLC finds `KeyReachesShell` violated this way.

Deadlock is not checked: a halted machine, a failed assertion, a spin on a lock
with interrupts off, and the end of the modelled structs or frames are states in
which a behaviour stops.

**Fairness.** The PIT is programmed in periodic mode; interrupts are on in every
process (`_spawn` sets IF in the saved flags) and in `kill`'s last loop.
`ProcQueue` therefore assumes `WF_vars(Tick)` and nothing else: no process is
assumed to spawn, exit or read. `System` assumes the ticks, and that a process
which is given the CPU again and again gets through its instructions although a
tick may come between any two: strong fairness of a process's step, spelled out
because its `ENABLED` is too dear to evaluate. It follows from the fact that a
tick comes every few million instructions. Nobody is assumed to type. `Boot`
assumes that the kernel proceeds, interrupts or not. `Mailbox`, `Context`,
`Memory` and `Display` are safety only.

**What is taken from outside `src/`** (marked external in `PROJECT.json`): the boot
loader maps the first 4 GiB at their own addresses, without page 0, and again at
`HIGHER_HALF_DATA`, and leaves no tables for what lies behind; what memory is in use
by the kernel, the bitmap and the loader's tables; how tar lays out an archive;
which wire of which I/O APIC an interrupt comes on, as the MADT says; which
registers a C function keeps under the System V ABI; a user program computes with
its registers.

## 4. What is proved

For every value of the constants, under the `...Assumption`s of the modules:
positive sizes, masks are sets of permissions, no character is Enter, a bitmap of
more than two bytes, a header smaller than a page, programs linked below 4 GiB,
clobbered registers are caller-saved ones.

* `ProcQueueProofs`: types, `RingInv`, `CurrentInv`, `SpawnAssertHolds`,
  `OnlyCurrentDies`, `PidOrder`. `RingInv` and `CurrentInv` are not inductive one by
  one: that a tick from the `dying` window lands on the ring needs the stale `next`
  of `CurrentInv`, that spawning keeps the ring needs the order of `RingInv`. The
  inductive invariant `IInv` is their conjunction with the types, `init.sys` having
  PID 1 and the running task being allocated. Two lemmas carry the rest: on an
  intact ring the walk of `locate_proc` examines every living process up to the
  first with the PID, and what it returns is living and has it (by minimal
  counterexample, `NatLemmas`). `PidsInOrder` and `ExitsAccepted` add `PidOrder` and
  `ExitAccepted` under `MaxProc < PidMax`: both are false once the counter wraps.
  That `kill` turns away nobody but a PID 1 needs the order of PIDs along the ring:
  `kill` compares with the PID of `queue_head` only. The exception is real: `kill`
  takes PID 1 for `init.sys`, and so does `handle_exception`, but the counter can
  come back to 1 by the same two decrements as in `queue_kill_assert`. With `mode =
  "halted" => current_task = queue_base` as an invariant TLC finds, in eight states,
  a process other than `init.sys` whose fault halts the machine. `SpawnAssertHolds`,
  the assertion at the end of `_spawn`, is proved only: it follows from the ring
  that the runs check.
* `SystemProofs`, about `Psignal`: types, `HandlersDoNotNest` and
  `AcceptedSignalStays` for every program; `LockMatchesIndex` and
  `UnreadHandlerHasSignal` for disciplined ones; and, while PIDs do not wrap
  (`MaxProc < PidMax`), that the queues of disciplined programs implement `Mailbox`
  (`QueuesAreMailboxes`). The invariant is `IInv` with the family relation (a
  handler's parent is older and no handler; its own copy is locked) and, under the
  discipline, that lock and index agree for every struct, allocated or not, that a
  handler's copy keeps its values, and that no two unread handlers have one parent.
  The refinement adds that no PID is negative, dead processes included, so that what
  lies in a locked queue's first slot passes `psignal_read`'s mask test unchanged.
* `SystemProofs`, about `System`: that `init.sys` and `shell.sys` are disciplined
  (`DisciplineKept`), for every number of processes and keys, early ones too.
  `Psignal` restricts processes when `Disciplined` holds, the programs of `System`
  ask for no such thing before they read; the theorem is that no step of theirs
  leaves the restriction, so that everything proved of `Psignal` holds of them. It
  needs that a handler which can still read has not read (`Readers`). Then
  `OneInFlight`, `ShellAddressed` and `LineComplete`, under `~ EarlyKeys` and
  `MaxProc < PidMax`. One inductive invariant carries all three; its parts speak of
  everything the kernel and both programs share: how far the start has come and who
  may exist by then (`Startup`), what a process is doing given whose handler it is
  (`Roles`), that a buffered key has exactly one handler on its way to it (`Keys`),
  which signal that handler finds and that init's send is never refused (`Flight`),
  where the shell's handlers stand (`ShellReads`), and what the command buffer holds
  (`Line`). None of them is inductive alone: that the shell is not busy when init's
  handler sends follows from the buffer, and that the buffer empties follows from
  the send. `ShellAddressed` needs that a handler's PID is never the shell's, hence
  `PidOrder`. Neither hypothesis can be dropped. With `EarlyKeys` TLC violates each
  of the three: a key before `init.sys` has spawned the shell makes a handler with
  PID 2 whose exit lowers `next_pid` twice, the shell is spawned as PID 1, and the
  stored number finds `init.sys` itself.
* `SpaceProofs`: `SpaceOwned`. It is inductive together with `IInv` and the types:
  struct numbers are not reused, so the frame a new program gets is nobody's but
  a `stray` one's, and `exit` makes stray the frame whose other users live on.
  Then that every step of `ProcQueue`, and of `AddressSpace`, is one of `RoundRobin`
  or a stutter (`QueueIsRoundRobin`, `SpacesAreRoundRobin`): its `procs` is what a
  walk along `next` comes through (`Ring`), which `IInv` makes the living processes,
  and `next` is the next younger one, or what the ended process left as its heir.
* `ContextProofs`: types, `OwnAddressSpace`, `ResumesAsLeft`,
  `SyscallKeepsRegisters`. What a process that does not run has in its context is
  what the history says it left; the loaded CR3 is the running process's.
* `MemoryProofs`: about `Pmm` alone, types, `HeldExclusively`, `NoneSkippedAbove`.
  About `Memory`, that it implements `Pmm` (`MemoryUsesPmm`): `kill` frees frames more
  than once and while they are in use, but only frames that were handed out, which
  is all that `Pmm` asks, so the theorems on frames carry over. Then
  `SpacesFilled`, `TranslationsKept`, `HeapBlocksDisjoint`, `UserBlocksMapped`,
  and `StuckOnlyBeyond4GiB` under `SmallRequests`, which says that no
  request makes `kmalloc`'s loop leave the first 4 GiB; the frames above 4 GiB and the
  heap behind 4 GiB are in the conclusion. The invariant has four
  parts: the tables (the low pages are mapped at themselves, only low pages are
  mapped without `PAGE_USER`, `mkpml4` maps the frame it was given, and what was once
  filled stays so until the machine is stuck), the order of the
  blocks with room for the one being made, the flags of the users' pages with
  those still on the list, and who may map a page without a table.
* `DisplayProofs`: types, `SoleMaster`, `DrawsWhatWasAsked`. The invariant ties
  the static variables of the burst to what the master of the screen has sent
  so far; without a master they are at rest.
* `BootProofs`: about `PmmChunks`, types and `ChunksSound`: after each turn the two
  indexes are the first of the longest usable entries so far and the one it
  displaced, none as long as the first usable entry is the longest. About `Boot`,
  that the stage `pmm_init` implements `PmmChunks` and nothing else touches its
  result (`ChunksChosenAtBoot`), `NoStrayInterrupt`, `IrqRouting`, `ImagesKept`,
  `OpenFindsFile` and `EndsRight`. The invariant of the stages, `StageInv`, gives
  for each stage what the tables, the gates, every redirection entry and the flags
  are when it begins; `VectorOf` names the entry of each pin, whatever I/O APICs and
  overrides there are. `ImageInv` adds to `ImagesKept` where files come from. The
  premises of `ImagesKept` are the ways in which the code does destroy an image (a
  program linked to the same addresses, a frame handed out under it, `kmalloc`
  mapping one of its pages); what is proved is that there is no other. Its
  arithmetic is `MapsCover`: a loop that counts pages in bytes, starts at an address
  that need not be aligned and stops at twice the end maps every page of the
  segment. `FilesFound` is a proof about the walk of `initrd_open`: the step from
  header to header (`NextHeaderOf`, with the octal digits read by `getsize` in
  `SizeRead`) leads from each file to the next (`FileAtHeader`), and that the walk
  from the first header reaches the first file of a name is the absence of a last
  file from which it does not (`FirstFrom`, `FirstFromStep`, `FileOpened`).
  `BootDecides` combines all of these: `EndInv` says at each stage which of the
  conditions of `Bootable` are known to hold, and every place where the boot can
  stop, or pass, is told from one of them (`ReadyChunks`, `PanicChunks`,
  `StuckFound`, `IoApicFound`, `ModuleFound`, `FontFound`, `ProgramFound`). For the
  frames, `FrameInv` says which have been handed out at each stage: the first, the
  first two, three, and four if there are four. The fourth, for the stack of the
  TSS, need not exist, as `write_tss` goes on with NULL, but must not lie above 4
  GiB if it does: so `FramesSuffice`. `BootEnds` is the part of the liveness that
  the prover reaches: once `pmm_init` is through, every stage is left for a later
  one, so that the boot ends where it should. `BootAssumption` names what is taken
  of a machine: a chunk is longer than three bytes; its RAM disk is what tar writes
  (a directory first, names of 1 to 99 characters, sizes of 11 octal digits),
  addresses and interrupts in its MADT are numbers, the boot loader has masked every
  I/O APIC that the kernel does not program (an open one could interrupt through a
  gate that nobody set), the linker puts the segments of one program apart, and an
  I/O APIC has at most 120 pins, for the register number has eight bits.

`IrqRouting` has a premise that the code does not check: the I/O APIC at
`ioapic_base` starts at GSI 0. `init_irqs` uses the GSI as the pin; with the second
I/O APIC of a machine it opens pins that the timer and the keyboard are not wired
to, and TLC violates the property without the premise.

**Only model-checked:** liveness (`EveryLiveScheduled`, `KeyReachesShell`,
the loop of `pmm_init` in `EndsWhereItShould`, the fairness of `RoundRobin`).
Liveness whose length depends on data (the ring, the memory map) would need
induction over a temporal formula, and weak fairness needs `ENABLED`; both are out
of the prover's reach. `BootFairness` is written without `ENABLED`, which is why
`BootEnds` could be proved. Every invariant and every action property of a passing
run is stated by a theorem. Of the recursive functions, `initrd_open` is proved
about for every archive by arguments over a least index; of the checksum and of
the walk over the MADT (`StuckAt`, `CoreCount`) the proofs use what they return,
and that the walk stops at an entry without length exactly if there is one.

## 5. Not modelled

* `vmm_unmap_page`, `krealloc`, `perm_grant`, `perm_revoke`, the spinlock and the
  semaphore have no caller. The sleep counter is never read.
* What follows a write over memory in use: heap, frames, programs and bitmap are not
  kept apart by the code, and `Memory` and `Boot` stop where they meet. With the
  heap at physical address 0 that may be early on a real machine.
* A call of `pmm_alloc` after a failed one hangs on the lock that the failure left
  taken, where `pmm.h:11` promises 0. `Pmm` and `Boot` have that wait as a step
  (`hung`, `"waits"`), and `EndsRight` counts it among the stops.
* That claims work "only during boot time" (`drvmaster.h:45`), see `Display`.
* The TLB, cache and descriptor privileges beyond gate type and segment; delivery
  modes and priorities of the interrupt controllers.
* Output: the console, the frame buffer, the PCI dump. String functions hold no
  state; the comparison of file names and built-in commands is by value.
* What `procinfo` answers and the output a service leaves unwritten; the error
  numbers of refused calls.
* `gfxd` beyond claiming the display; the drawing in it is output.
* `limine.h` and the ELF definitions are the boot protocol's and the ABI's.
* Two interrupt sources only, the timer and the keyboard: the kernel masks the
  others.

The plan that this development followed: process queue, signals, frames, address
spaces and drivers first, then page tables and heap, registers, the keyboard with
the programs, and the boot with its parsers; then the theorems in the same order.
Still open are the three liveness properties named above, for every size, and what
the checksum computes.
