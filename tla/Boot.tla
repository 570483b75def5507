-------------------------------- MODULE Boot --------------------------------
(***************************************************************************)
(* From _start to the first instruction of init.sys (kernel/src/kernel.c): *)
(* the initialisation of every part in its order, on a machine that is     *)
(* described by its memory map, ACPI tables and boot modules, while the    *)
(* timer and the keyboard already interrupt between the STI at the end of  *)
(* proc_init and the CLI before load_gdt.                                  *)
(*                                                                         *)
(* A stage of the code is one step; pmm_init is the loop of PmmChunks.     *)
(*                                                                         *)
(* The frames that are handed out, the heap and the programs are written   *)
(* to the same memory, and nothing in the code keeps them apart from each  *)
(* other and from the rest of the kernel.  Where one is written over       *)
(* another, anything may happen, and the model stops ("wild").             *)
(***************************************************************************)
EXTENDS PmmChunks, Acpi, Loader, Bitmap

CONSTANTS
  Machines,   \* the machines: [map, free, spare, rsdt, modules, files, firmware]
  PINS,       \* redirection entries of an I/O APIC
  MaxTicks,   \* bound: timer interrupts
  Later,      \* paths that init.sys may have loaded, in any order
  MemTop,     \* bound: the last address of a program
  MaxBlocks,  \* bound: blocks of the heap
  Header,     \* sizeof(struct KHeapBlock), 48 in the code
  HeapStart,  \* where the heap lies in physical memory, 0 in the code
  SizeOf      \* bytes of a struct Process, TSSEntry, FontHeader and a stack

VARIABLES
  machine,        \* the machine we run on
  stage,          \* what the kernel is about to do, or how it ended
  IF_flag,        \* the interrupt flag of the CPU
  idtr,           \* the IDT register points at idt
  idt,            \* the descriptors: [vector -> [isr, type]]
  madt, ioapic_base, acpi_lapic_base, n_cores,   \* of acpi.c
  bitmap_i,       \* of pmm.c: where the next search starts
  pmm_lock,       \* the lock of pmm_alloc, which a failure leaves taken
  granted,        \* the frames pmm_alloc has handed out
  blocks,         \* the sizes of the blocks of the heap, oldest first
  lapic_base,     \* of lapic.c: interrupts are enabled and can be ended
  redirection,    \* the redirection entries: [I/O APIC -> [pin -> vector]]
  current_task,   \* proc_init has set it
  initrd,         \* initrd_init has found the RAM disk
  gdtr, tss,      \* our GDT and our TSS are loaded
  services,       \* the services of sysreq
  pit_ticks, last_keystroke,   \* of irq.asm and ps2keyboard.c
  fault,          \* an interrupt met something that was not there
  memory, mapped, loaded   \* the programs: bytes, user pages, files in order

scan == <<entries, i, biggest_chunk, second_biggest_chunk, phase>>
mm == <<bitmap_i, pmm_lock, granted, blocks>>
tables == <<madt, ioapic_base, acpi_lapic_base, n_cores>>
devices == <<idtr, idt, lapic_base, redirection>>
kernel == <<current_task, initrd, gdtr, tss, services>>
interrupts == <<pit_ticks, last_keystroke, fault>>
programs == <<memory, mapped, loaded>>
bootvars ==
  <<machine, stage, IF_flag, scan, mm, tables, devices, kernel, interrupts, programs>>

Masked == 65536     \* 1 << 16, instead of a vector
Pin == 0..(PINS - 1)
IoApicAddr == {"io1", "io2"}

\* A MADT has a local APIC, the addresses of its I/O APICs are in memory, and
\* its interrupts are numbers.
WellFormed(madtable) ==
  /\ madtable.lapic_addr # None /\ madtable.entries \in Seq(ToSet(madtable.entries))
  /\ \A k \in 1..Len(madtable.entries) :
       LET e == madtable.entries[k]
       IN /\ e.type = "io_apic" => e.addr \in IoApicAddr /\ e.gsi_base \in Nat
          /\ e.type = "override" => e.interrupt \in Nat

\* The boot loader has masked the I/O APICs, or the kernel programs all there
\* are.
Quiet(m) ==
  \/ m.firmware = Masked
  \/ LET entry == fetch_madt(m.rsdt).entries
     IN \A k \in 1..Len(entry) :
          entry[k].type = "io_apic" => entry[k].addr = IoApicBase(fetch_madt(m.rsdt))

\* What the linker makes: the segments to load lie in memory, apart from each
\* other, and no more of one is in the file than in memory.
Linked(file) ==
  LET segments == Loads(file)
  IN /\ segments \in Seq(ToSet(segments))
     /\ file.elf.phdrs_size \in Nat
     /\ \A k \in DOMAIN segments :
          /\ segments[k].paddr \in Nat /\ segments[k].memsz \in Nat
          /\ segments[k].filesz \in 0..segments[k].memsz
          /\ segments[k].paddr + segments[k].memsz - 1 <= MemTop
          /\ \A l \in DOMAIN segments : l # k => Filled(segments[k]) \cap Filled(segments[l]) = {}

\* The registers of an I/O APIC have numbers of eight bits, two for a pin,
\* from 16 on.  A chunk of memory is longer than three bytes.
ASSUME BootAssumption ==
  /\ PINS \in 0..120 /\ MemTop \in Nat /\ MaxBlocks \in Nat
  /\ Header \in Nat \ {0} /\ HeapStart \in Nat /\ WordFrames > 0
  /\ SizeOf \in [{"Process", "TSSEntry", "FontHeader", "stack"} -> Nat]
  /\ \A l \in Lengths : 3 <= l /\ l <= Memory + 1
  /\ \A m \in Machines : m.free \subseteq 0..(Memory - 1) /\ m.spare \subseteq 1..(WordFrames - 1)
  /\ \A m \in Machines :
       /\ m.map \in Seq(Entry) /\ m.modules \in Seq(ToSet(m.modules)) /\ Archive(m.files)
       /\ \A k \in 1..Len(m.files) : Accepted(m.files[k]) => Linked(m.files[k])
       /\ fetch_madt(m.rsdt) # NoTable => WellFormed(fetch_madt(m.rsdt)) /\ Quiet(m)

Files == machine.files
NoGate == [isr |-> "none", type |-> 0, cs |-> 0]

\* The I/O APICs of the machine, told from its true MADT.
TrueMadt == fetch_madt(machine.rsdt)
IoApics == {TrueMadt.entries[k] : k \in {k \in 1..Len(TrueMadt.entries) :
                                           TrueMadt.entries[k].type = "io_apic"}}

\* The kinds of the segments in gdt, from index 0.
gdt == <<"null", "code16", "data16", "code32", "data32", "kernel code", "kernel data",
         "user code", "user data", "tss", "tss", "tss">>
Descriptor(selector) == gdt[selector \div 8 + 1]

BootInit ==
  /\ machine \in Machines
  /\ entries = machine.map
  /\ i = 1 /\ phase = "scan" /\ biggest_chunk = NULL /\ second_biggest_chunk = NULL
  /\ bitmap_i = 2 /\ pmm_lock = FALSE /\ granted = {} /\ blocks = <<>>
  /\ stage = "intr" /\ IF_flag = FALSE
  /\ idtr = FALSE /\ idt = [v \in 0..255 |-> NoGate]
  /\ madt = NoTable /\ ioapic_base = None /\ acpi_lapic_base = None /\ n_cores = 0
  /\ lapic_base = None
  /\ redirection = [u \in IoApicAddr |-> [p \in Pin |-> machine.firmware]]
  /\ current_task = FALSE /\ initrd = FALSE /\ gdtr = FALSE /\ tss = FALSE
  /\ services = {}
  /\ pit_ticks = 0 /\ last_keystroke = FALSE /\ fault = FALSE
  /\ memory = [a \in 0..MemTop |-> <<"garbage", a>>] /\ mapped = {} /\ loaded = <<>>

-----------------------------------------------------------------------------
(* Frames and the heap.                                                    *)

\* The search of pmm_alloc from a hint: no frame is given back before a program
\* ends, so the frames that were handed out lie below the hint.
Stop(hint) == Min(Stops(machine.free, hint, entries[second_biggest_chunk].length))
Got(hint) == IF Stop(hint) \in machine.free THEN Stop(hint) ELSE 0
Frame == Got(bitmap_i)

\* pmm_alloc, with the lock free.
pmm_alloc ==
  /\ bitmap_i' = IF Frame = 0 THEN Stop(bitmap_i) ELSE Frame + 1
  /\ pmm_lock' = (Frame = 0)
  /\ granted' = granted \cup ({Frame} \ {0})

\* vmm_alloc_page returns a page or NULL, or does not return.  A frame above
\* 4 GiB has no page table: vmm_map_page has memzero clear another frame, whose
\* page is not mapped, unless it is page 0, which is from proc_init on; and then
\* it calls itself and waits for its own lock.
vmm_alloc_page ==
  CASE pmm_lock -> "waits"
    [] ~ pmm_lock /\ Frame < WordFrames -> IF Frame = 0 THEN "NULL" ELSE "page"
    [] OTHER ->
         IF current_task /\ Got(Frame + 1) = 0 THEN "waits" ELSE "faults"

\* The frames under the blocks of the heap: DATA_START(heap_head + size) is a
\* header behind as many headers as the last block has bytes.
HeapFrames(sizes) ==
  LET At[k \in 1..Len(sizes)] ==
        IF k = 1 THEN HeapStart ELSE At[k - 1] + sizes[k - 1] * Header + Header
  IN {a \div Page : a \in UNION {At[k]..(At[k] + Header + sizes[k] - 1) : k \in 1..Len(sizes)}}

\* The pages that kmalloc takes PAGE_USER from: first_fit found no block, so the
\* loop starts in page 0, and it moves by 0x1000 headers.
LowPages(sizes) ==
  UNION {{(Header + j * Header) \div Page : j \in {j \in 0..(n - 1) : j % Page = 0}} :
           n \in ToSet(sizes)}

\* The pages a program occupies.
Pages(file) ==
  UNION {{a \div Page : a \in ph.paddr..(ph.paddr + ph.memsz - 1)} : ph \in ToSet(Loads(file))}

\* The frames that were handed out, the heap and the programs lie in memory that
\* is not used otherwise, the heap apart from the rest, and what is loaded now
\* apart from the frames.
Apart(frames, sizes, new) ==
  LET pages == UNION {Pages(file) : file \in ToSet(loaded) \cup new}
  IN /\ frames \cup HeapFrames(sizes) \cup pages \subseteq machine.spare
     /\ HeapFrames(sizes) \cap (frames \cup pages) = {}
     /\ \A file \in new : frames \cap Pages(file) = {}

-----------------------------------------------------------------------------
(* Interrupt descriptors and the I/O APIC.                                 *)

\* The types of a gate: the flags that idt_set_desc is given, cut to 4 bits.
TRAP_GATE_FLAGS == 143        \* 0x8F
INT_GATE_FLAGS == 142         \* 0x8E
IDT_INT_GATE_USER == 238      \* 0xEE

\* idt_set_desc; the descriptor's DPL is 3 and its selector 0x28 always.
Gate(isr, flags) == [isr |-> isr, type |-> flags % 16, cs |-> 40]

\* ioapic_set_entry, with its uint8_t index: the pin whose entry is at the
\* register IOREDTBL + index * 2, which has eight bits as well.
PinOf(index) == (((16 + (index % 256) * 2) % 256) - 16) \div 2

WriteEntry(redir, index, data) ==
  [redir EXCEPT ![ioapic_base] =
     [p \in Pin |-> IF p = PinOf(index) THEN data ELSE redir[ioapic_base][p]]]

Stage(from, to) == stage = from /\ stage' = to

\* On to the next stage, with these frames and blocks and no program.
Onward(to, frames) == stage' = IF Apart(frames, blocks', {}) THEN to ELSE "wild"

\* kprintf(KERN_PANIC ...); CLI; HLT.
Halts(from) == Stage(from, "halt") /\ IF_flag' = FALSE

-----------------------------------------------------------------------------
(* The stages of init, in the order of kernel.c.                           *)

\* intr_init: the system call, the 15 exceptions, LIDT.
intr_init ==
  /\ Stage("intr", "pmm")
  /\ idt' = [v \in 0..255 |-> IF v = 128 THEN Gate("dispatch_syscall", IDT_INT_GATE_USER)
                              ELSE IF v <= 14 THEN Gate("exception", TRAP_GATE_FLAGS)
                              ELSE idt[v]]
  /\ idtr' = TRUE
  /\ UNCHANGED <<machine, IF_flag, scan, mm, tables, lapic_base, redirection, kernel, interrupts, programs>>

\* pmm_init, a turn of its loop or its end.
pmm_init ==
  /\ stage = "pmm"
  /\ \/ Scan /\ UNCHANGED stage
     \/ Decide /\ stage' = IF phase' = "ready" THEN "vmm" ELSE "halt"
  /\ UNCHANGED <<machine, IF_flag, mm, tables, devices, kernel, interrupts, programs>>

\* vmm_init: mkpml4, and load CR3.  NULL is not mapped yet.
vmm_init ==
  /\ stage = "vmm"
  /\ IF vmm_alloc_page = "page"
     THEN pmm_alloc /\ UNCHANGED blocks /\ Onward("acpi", granted')
     ELSE stage' = "crash" /\ UNCHANGED mm
  /\ UNCHANGED <<machine, IF_flag, scan, tables, devices, kernel, interrupts, programs>>

\* The tables are all right up to the walk over the entries of the MADT.
TablesValid ==
  /\ verify_checksum(machine.rsdt)
  /\ fetch_madt(machine.rsdt) # NoTable
  /\ verify_checksum(fetch_madt(machine.rsdt))

\* acpi_init, with parse_madt.
acpi_init ==
  /\ \/ /\ ~ TablesValid /\ Halts("acpi")
        /\ UNCHANGED tables
     \/ /\ TablesValid /\ UNCHANGED IF_flag
        /\ madt' = fetch_madt(machine.rsdt)
        /\ IF StuckAt(madt') # 0
           THEN Stage("acpi", "hang") /\ UNCHANGED <<ioapic_base, acpi_lapic_base, n_cores>>
           ELSE /\ Stage("acpi", "ioapic")
                /\ acpi_lapic_base' = madt'.lapic_addr
                /\ ioapic_base' = IoApicBase(madt')
                /\ n_cores' = CoreCount(madt')
  /\ UNCHANGED <<machine, scan, mm, devices, kernel, interrupts, programs>>

\* ioapic_init: every entry is masked.  Without an I/O APIC the base is NULL.
ioapic_init ==
  /\ IF ioapic_base = None
     THEN Stage("ioapic", "crash") /\ UNCHANGED redirection
     ELSE /\ Stage("ioapic", "lapic")
          /\ redirection' = [redirection EXCEPT ![ioapic_base] = [p \in Pin |-> Masked]]
  /\ UNCHANGED <<machine, IF_flag, scan, mm, tables, idtr, idt, lapic_base, kernel, interrupts, programs>>

\* Mutant: the local APIC is set up, and its address is not kept.
lapic_init_lost ==
  /\ Stage("lapic", "irqs")
  /\ UNCHANGED <<machine, IF_flag, scan, mm, tables, devices, kernel, interrupts, programs>>

\* lapic_init: software enable, spurious vector 0xFF; pit_init follows.
lapic_init ==
  /\ Stage("lapic", "irqs")
  /\ lapic_base' = acpi_lapic_base
  /\ UNCHANGED <<machine, IF_flag, scan, mm, tables, idtr, idt, redirection, kernel, interrupts, programs>>

\* init_irqs: vector 0x20 for the timer, 0x21 for the keyboard.
init_irqs ==
  /\ Stage("irqs", "heap")
  /\ idt' = [idt EXCEPT ![32] = Gate("irq0_isr", INT_GATE_FLAGS),
                        ![33] = Gate("irq1_isr", INT_GATE_FLAGS)]
  /\ redirection' =
       WriteEntry(WriteEntry(redirection, acpi_irq_to_gsi(madt, 0), 32),
                       acpi_irq_to_gsi(madt, 1), 33)
  /\ UNCHANGED <<machine, IF_flag, scan, mm, tables, idtr, lapic_base, kernel, interrupts, programs>>

\* kheap_init, a block of size 0, and proc_init up to mkpml4.  The first kmalloc
\* gives page 0 a frame, and takes what pmm_alloc returns, be it 0 or above 4 GiB.
kheap_init ==
  /\ stage = "heap"
  /\ pmm_alloc /\ blocks' = blocks \o <<0, SizeOf["Process"]>>
  /\ Onward("proc", granted)
  /\ current_task' = TRUE
  /\ UNCHANGED <<machine, IF_flag, scan, tables, devices, initrd, gdtr, tss, services, interrupts, programs>>

\* proc_init from mkpml4 on, to its STI and the return to init.  With NULL it
\* fills page 0, and an assertion fails; a fault ends PID 1, which is a panic.
proc_init ==
  /\ stage = "proc"
  /\ \/ /\ vmm_alloc_page = "page" /\ pmm_alloc
        /\ blocks' = Append(blocks, SizeOf["stack"])
        /\ Onward("initrd", granted') /\ IF_flag' = TRUE
     \/ vmm_alloc_page = "waits" /\ stage' = "hang" /\ UNCHANGED <<mm, IF_flag>>
     \/ vmm_alloc_page \in {"NULL", "faults"} /\ Halts("proc") /\ UNCHANGED mm
  /\ UNCHANGED <<machine, scan, tables, devices, kernel, interrupts, programs>>

\* Mutant: the loop over the modules stops behind the first.
FindModuleOnce(path) == machine.modules # <<>> /\ machine.modules[1] = path

\* The loop over the modules of the boot loader.
FindModule(path) == \E k \in 1..Len(machine.modules) : machine.modules[k] = path

\* initrd_init.
initrd_init ==
  /\ IF FindModule("/Iridium/initrd.sys")
     THEN Stage("initrd", "cli") /\ initrd' = TRUE /\ UNCHANGED IF_flag
     ELSE Halts("initrd") /\ UNCHANGED initrd
  /\ UNCHANGED <<machine, scan, mm, tables, devices, current_task, gdtr, tss, services, interrupts, programs>>

\* CLI.
cli ==
  /\ Stage("cli", "gdt") /\ IF_flag' = FALSE
  /\ UNCHANGED <<machine, scan, mm, tables, devices, kernel, interrupts, programs>>

\* load_gdt, write_tss, load_tss; pci_dump follows.  write_tss does not look at
\* what vmm_alloc_page returns; with NULL its stack is in page 0.
load_gdt_tss ==
  /\ stage = "gdt" /\ gdtr' = TRUE
  /\ \/ /\ vmm_alloc_page \in {"page", "NULL"} /\ pmm_alloc
        /\ blocks' = Append(blocks, SizeOf["TSSEntry"])
        /\ Onward("font", granted') /\ tss' = (Descriptor(72) = "tss")
        /\ UNCHANGED IF_flag
     \/ vmm_alloc_page = "waits" /\ stage' = "hang" /\ UNCHANGED <<mm, tss, IF_flag>>
     \/ vmm_alloc_page = "faults" /\ Halts("gdt") /\ UNCHANGED <<mm, tss>>
  /\ UNCHANGED <<machine, scan, tables, devices, current_task, initrd, services, interrupts, programs>>

\* initrd_open copies a file to the heap, with a zero behind it.
Copy(path) ==
  LET at == initrd_open(Files, path)
  IN IF at = 0 THEN <<>> ELSE <<FileAt(Files, at).size + 1>>

\* init_font: the font is there, and not both bytes of its magic are wrong.
FontValid ==
  LET at == initrd_open(Files, "initrd/font.psf")
  IN at # 0 /\ FileAt(Files, at).magic # <<FALSE, FALSE>>

\* The blocks of init_font: the file, its header and, if that is right, the
\* glyphs.
FontBlocks ==
  LET font == FileAt(Files, initrd_open(Files, "initrd/font.psf"))
  IN CASE Copy("initrd/font.psf") = <<>> -> <<>>
       [] FontValid -> Copy("initrd/font.psf") \o <<SizeOf["FontHeader"], font.glyphs>>
       [] OTHER -> Copy("initrd/font.psf") \o <<SizeOf["FontHeader"]>>

\* init_font, lfb_clear_screen, uapi_init: keyboard, screen, procinfo.
init_font_uapi ==
  /\ stage = "font"
  /\ blocks' = blocks \o FontBlocks
  /\ IF FontValid
     THEN /\ Onward("init", granted) /\ services' = services \cup {0, 1, 2}
          /\ UNCHANGED IF_flag
     ELSE Halts("font") /\ UNCHANGED services
  /\ UNCHANGED <<machine, scan, bitmap_i, pmm_lock, granted, tables, devices, current_task, initrd, gdtr, tss, interrupts, programs>>

-----------------------------------------------------------------------------
(* Programs.                                                               *)

\* elf_get_entry(path) returns an entry point.
Loadable(path) ==
  LET at == initrd_open(Files, path)
  IN at # 0 /\ Accepted(FileAt(Files, at))

FileOf(path) == FileAt(Files, initrd_open(Files, path))
New(path) == IF Loadable(path) THEN {FileOf(path)} ELSE {}

\* The blocks of elf_get_entry: the file, and the program headers.
ElfBlocks(path) ==
  IF Loadable(path) THEN Append(Copy(path), FileOf(path).elf.phdrs_size) ELSE Copy(path)

\* The user pages behind elf_get_entry, and the memory and the programs.
UserPages(path, pages) ==
  (pages \ LowPages(ElfBlocks(path))) \cup UNION {MappedPages(file) : file \in New(path)}

elf_get_entry(path, bytes) ==
  IF Loadable(path)
  THEN memory' = LoadInto(bytes, FileOf(path)) /\ loaded' = Append(loaded, FileOf(path))
  ELSE memory' = bytes /\ UNCHANGED loaded

\* The selectors of switch_to_ring3, 0x3B and 0x43, without the RPL.
UserSegments == gdtr /\ Descriptor(56) = "user code" /\ Descriptor(64) = "user data"

\* start_init_system and switch_to_ring3, whose IRETQ sets the interrupt flag.
start_init_system ==
  /\ stage = "init"
  /\ blocks' = blocks \o ElfBlocks("initrd/init.sys")
  /\ \/ /\ ~ Loadable("initrd/init.sys")
        /\ Halts("init") /\ UNCHANGED <<programs, fault>>
     \/ /\ Loadable("initrd/init.sys") /\ Apart(granted, blocks', New("initrd/init.sys"))
        /\ stage' = "ring3" /\ IF_flag' = TRUE
        /\ elf_get_entry("initrd/init.sys", memory)
        /\ mapped' = UserPages("initrd/init.sys", mapped)
        /\ fault' = (fault \/ ~ UserSegments)
     \/ /\ Loadable("initrd/init.sys") /\ ~ Apart(granted, blocks', New("initrd/init.sys"))
        /\ stage' = "wild" /\ UNCHANGED <<programs, IF_flag, fault>>
  /\ UNCHANGED <<machine, scan, bitmap_i, pmm_lock, granted, tables, devices, kernel, pit_ticks,
                 last_keystroke>>

\* mkpml4 fills the page it was given with the entries of the top level.
Entries(page) ==
  [a \in DOMAIN memory |-> IF a \div Page = page THEN <<"pml4", a>> ELSE memory[a]]

\* _spawn, called by init.sys, which ends no program: a block for the process, a
\* new address space, the file, if it is one that can be loaded, and a stack.
spawn(path) ==
  /\ stage = "ring3" /\ Len(blocks) + 4 <= MaxBlocks     \* bound
  /\ vmm_alloc_page = "page" /\ pmm_alloc
  /\ blocks' = blocks \o <<SizeOf["Process"]>> \o ElfBlocks(path) \o <<SizeOf["stack"]>>
  /\ \/ /\ Apart(granted', blocks', New(path)) /\ UNCHANGED stage
        /\ elf_get_entry(path, Entries(Frame))
        /\ mapped' = UserPages(path, mapped \ ({Frame} \cup LowPages(<<SizeOf["Process"]>>)))
                     \ LowPages(<<SizeOf["stack"]>>)
     \/ /\ ~ Apart(granted', blocks', New(path)) /\ stage' = "wild"
        /\ UNCHANGED programs
  /\ UNCHANGED <<machine, IF_flag, scan, tables, devices, kernel, interrupts>>

\* _spawn without a page: it waits for a lock, ends PID 1 by a fault, or loads
\* NULL into CR3.
spawn_fails ==
  /\ Stage("ring3", "down") /\ vmm_alloc_page # "page" /\ IF_flag' = FALSE
  /\ UNCHANGED <<machine, scan, mm, tables, devices, kernel, interrupts, programs>>

-----------------------------------------------------------------------------
(* Interrupts.                                                             *)

\* Where the wires go: the GSI of an IRQ is what its first override says, and
\* it is a pin of the I/O APIC whose pins start at or below it.
Overrides(irq) ==
  {k \in 1..Len(TrueMadt.entries) :
     TrueMadt.entries[k].type = "override" /\ TrueMadt.entries[k].source = irq}
Gsi(irq) == IF Overrides(irq) = {} THEN irq ELSE TrueMadt.entries[Min(Overrides(irq))].interrupt
Line(irq) == {<<u.addr, Gsi(irq) - u.gsi_base>> :
                u \in {v \in IoApics : Gsi(irq) - v.gsi_base \in Pin}}

\* An interrupt through gate d runs to its end: the descriptor of its handler
\* and the kernel's stack are there, the local APIC can be told the end of the
\* interrupt, and there is a current task to switch from or to name as sender.
Handled(d) ==
  /\ idtr /\ d # NoGate
  /\ Descriptor(d.cs) = "kernel code"
  /\ stage = "ring3" => tss
  /\ lapic_base # None /\ current_task

\* IRQ irq, of the timer or the keyboard.  irq1_isr drops a key that is no
\* character, is released or comes too early; what else the handlers do is the
\* matter of Context and System.
Interrupt(irq) ==
  /\ IF_flag /\ stage # "wild" /\ ~ fault
  /\ irq = 0 => pit_ticks < MaxTicks
  /\ \E line \in Line(irq) :
       LET vector == redirection[line[1]][line[2]]
       IN /\ vector # Masked
          /\ IF ~ Handled(idt[vector])
             THEN fault' = TRUE /\ UNCHANGED <<pit_ticks, last_keystroke>>
             ELSE /\ IF idt[vector].isr = "irq0_isr"
                     THEN pit_ticks' = pit_ticks + 1 /\ UNCHANGED last_keystroke
                     ELSE last_keystroke' \in {last_keystroke, TRUE} /\ UNCHANGED pit_ticks
                  /\ UNCHANGED fault
  /\ UNCHANGED <<machine, stage, IF_flag, scan, mm, tables, devices, kernel, programs>>

BootStep ==
  \/ intr_init \/ pmm_init \/ vmm_init \/ acpi_init \/ ioapic_init \/ lapic_init
  \/ init_irqs \/ kheap_init \/ proc_init \/ initrd_init \/ cli \/ load_gdt_tss
  \/ init_font_uapi \/ start_init_system

BootNext ==
  \/ BootStep \/ (\E path \in Later : spawn(path)) \/ spawn_fails
  \/ \E irq \in {0, 1} : Interrupt(irq)

\* The kernel has stopped for a reason it says or waits for ever, has ended by
\* an exception it cannot handle, or init.sys runs, or has ended by a spawn.
Final == {"halt", "hang", "crash", "wild", "ring3", "down"}

\* The CPU goes on executing the code of the kernel: weak fairness of BootStep,
\* spelled out, as BootStep is enabled up to a final stage, always changes
\* stage or i, and nothing else does.
BootFairness == []<>(stage \in Final) \/ []<><<stage' # stage \/ i' # i>>_bootvars

BootSpec == BootInit /\ [][BootNext]_bootvars /\ BootFairness

-----------------------------------------------------------------------------
(* Properties.                                                             *)

\* Once init_irqs is through, exactly the wires of the timer and the keyboard
\* are unmasked on the I/O APIC the kernel programs, each with its vector,
\* whatever the overrides of the tables and the firmware left behind, if that
\* I/O APIC has both wires and its pins start at GSI 0: init_irqs takes the GSI
\* for the pin and looks at no gsi_base.
IrqRouting ==
  /\ stage \in {"heap", "proc", "initrd", "cli", "gdt", "font", "init", "ring3"}
  /\ \A u \in IoApics : u.addr = ioapic_base => u.gsi_base = 0
  /\ \A irq \in {0, 1} : \E p \in Pin : Line(irq) = {<<ioapic_base, p>>}
  /\ Line(0) # Line(1)
  => \A p \in Pin :
       redirection[ioapic_base][p] = CASE <<ioapic_base, p>> \in Line(0) -> 32
                                       [] <<ioapic_base, p>> \in Line(1) -> 33
                                       [] OTHER -> Masked

\* No timer or keyboard interrupt, in the window between proc_init and the CLI
\* or in user mode, and no return to user mode finds something missing that a
\* stage sets up.
NoStrayInterrupt == ~ fault

\* initrd_open finds every file behind the directory that heads the archive,
\* the first of its name, whatever sizes the files before it have, and nothing
\* else.
OpenFindsFile ==
  stage = "intr" =>
    \A path \in {Files[k].name : k \in 1..Len(Files)} \cup {"absent", Long} :
      LET named == {k \in 2..Len(Files) : Files[k].name = path}
      IN initrd_open(Files, path) =
           IF path = Long \/ named = {} THEN 0 ELSE HeaderAt(Files, Min(named))

Image(file) == UNION {Filled(ph) : ph \in ToSet(Loads(file))}

\* Every byte of every segment of a loaded program stays in memory, on a page
\* that is mapped for users, as long as no program loaded later was linked to
\* the same addresses, pmm_alloc has not handed out a frame under it and kmalloc
\* has not passed over one of its pages, which nothing else in the code prevents.
ImagesKept ==
  \A n \in 1..Len(loaded) :
    /\ \A m \in n + 1..Len(loaded) : Image(loaded[n]) \cap Image(loaded[m]) = {}
    /\ Pages(loaded[n]) \cap (granted \cup LowPages(blocks)) = {}
    => /\ Pages(loaded[n]) \subseteq mapped
       /\ \A ph \in ToSet(Loads(loaded[n])) : \A a \in Filled(ph) :
            memory[a] = <<loaded[n].name, a - ph.paddr + ph.offset>>

Longest(S) == CHOOSE k \in S : FirstLongest(k, S)
InFront == {k \in Usable : k < Longest(Usable)}

\* The frames that a bitmap of a length gives, one after the other: behind its
\* last byte the search goes on only as long as the frames are free.
Given(length) ==
  {f \in machine.free : f >= 2 /\ \A j \in (length - 1)..f : j \in machine.free}

\* The tables of the boot, the frame of page 0 and the address space of PID 1;
\* a fourth frame, for the stack of the TSS, need not exist.
FramesSuffice(length) ==
  LET low == {f \in Given(length) : f < WordFrames}
  IN \E a, b, c \in low :
       a < b /\ b < c /\ (Given(length) = low \/ \E d \in low : c < d)

\* The first file of a name, and what a machine needs.
Carries(path, Good(_)) ==
  LET named == {k \in 2..Len(Files) : Files[k].name = path}
  IN named # {} /\ Good(Files[Min(named)])

Bootable ==
  /\ InFront # {} /\ FramesSuffice(entries[Longest(InFront)].length)
  /\ TablesValid /\ Stuck \notin ToSet(TrueMadt.entries) /\ IoApics # {}
  /\ "/Iridium/initrd.sys" \in ToSet(machine.modules)
  /\ Carries("initrd/font.psf", LAMBDA f : f.magic # <<FALSE, FALSE>>)
  /\ Carries("initrd/init.sys", LAMBDA f : f.elf.header = GoodHeader)

\* The boot reaches init.sys only on a machine that has what the kernel needs:
\* two chunks, the right frames, tables, an I/O APIC, modules and files.  And it
\* stops, at one of the places where it says why, at a lock, in the walk over a
\* broken MADT or by a fault, only on one that has not.
EndsRight ==
  /\ stage \in {"ring3", "down"} => Bootable
  /\ stage \in {"halt", "hang", "crash"} => ~ Bootable

\* The boot ends, and where it should.  No order of the interrupts in between
\* changes that.
EndsWhereItShould == <>[](stage \in Final /\ EndsRight)
=============================================================================
