------------------------------- MODULE MCBoot -------------------------------
(* Values for the model checker: a machine that boots, varied in one of its *)
(* memory map, its frames, its ACPI tables, its boot modules and its RAM    *)
(* disk.  The boot loader leaves the I/O APICs masked; the machines varied  *)
(* in their memory come with an entry left open for a vector nobody serves. *)
(* The programs lie in the pages 8 to 13, the heap behind them.             *)
EXTENDS Boot

File(name, size) == [name |-> name, size |-> size, elf |-> [header |-> NotElf]]
Font(size, magic) == File("initrd/font.psf", size) @@ [magic |-> magic, glyphs |-> 2]
Segment(type, paddr, memsz, filesz) ==
  [p_type |-> type, paddr |-> paddr, memsz |-> memsz, filesz |-> filesz, offset |-> 2]
Elf(name, size, header, phdrs) ==
  [File(name, size) EXCEPT !.elf = [header |-> header, phdrs |-> phdrs, phdrs_size |-> 1]]

Init_sys(size, header) ==
  Elf("initrd/init.sys", size, header,
      <<Segment("LOAD", 32, 5, 4), Segment("NOTE", 2, 1, 1), Segment("LOAD", 38, 2, 1)>>)
Shell(paddr) == Elf("initrd/shell.sys", 6, GoodHeader, <<Segment("LOAD", paddr, 6, 3)>>)
Gfxd(size) == Elf("initrd/gfxd.sys", size, GoodHeader, <<Segment("LOAD", 41, 3, 3)>>)

Headers == {GoodHeader} \cup {[GoodHeader EXCEPT ![f] = "other"] : f \in DOMAIN GoodHeader}
Sizes == {0, 1, 4, 5, 9}

Dir == File("initrd/", 0)
OneDisk == <<Dir, Font(5, <<TRUE, TRUE>>), Init_sys(8, GoodHeader), Shell(46), Gfxd(4)>>
Disks ==
  {<<Dir, Font(s, <<TRUE, TRUE>>), Init_sys(t, GoodHeader), Shell(p), Gfxd(12)>> :
     s \in Sizes, t \in Sizes, p \in {41, 43, 46}}
  \cup {<<Dir, Init_sys(5, h), Font(1, m)>> : h \in Headers, m \in BOOLEAN \X BOOLEAN}
  \cup {<<Dir>>, <<Dir, Font(0, <<TRUE, FALSE>>)>>, <<Dir, Shell(41), Init_sys(9, GoodHeader)>>,
        <<Dir, Font(3, <<TRUE, TRUE>>), Init_sys(4, GoodHeader), Init_sys(0, GoodHeader)>>}

OneMap == <<[usable |-> TRUE, length |-> 3], [usable |-> TRUE, length |-> 105]>>
WideMap == <<[usable |-> TRUE, length |-> 104], [usable |-> TRUE, length |-> 105]>>
Maps1 == BoundedSeq(Entry, MaxEntries)

OneFree == 2..7
OneSpare == 2..(WordFrames - 1)
Frees == {(2..k) \cup S : k \in 1..6, S \in {{}, {7}, {9}, {11, 13}, {20}, {100}, {101, 102}}}
Spares == {OneSpare \ {f} : f \in {2, 4, 5, 7, 9, 15, 30, 45, 60}}

MadtEntries ==
  {Lapic, Stuck, IoApic("io1", 0), IoApic("io2", PINS),
   Override(0, 2), Override(0, 3), Override(1, 0), Override(1, 4), Override(2, 1)}
MADT(bytes, es) == [signature |-> "APIC", bytes |-> bytes, lapic_addr |-> "lapic", entries |-> es]
FACP == [signature |-> "FACP", bytes |-> <<1, 2>>]
Rsdt(bytes, ts) == [bytes |-> bytes, tables |-> ts]

OneRsdt == Rsdt(<<255, 1>>, <<FACP, MADT(<<128, 128>>, <<Lapic, IoApic("io1", 0), Override(0, 2)>>)>>)
Rsdts ==
  {Rsdt(<<255, 1>>, <<MADT(<<>>, es)>>) : es \in BoundedSeq(MadtEntries, 3)}
  \cup {Rsdt(b, ts) :
          b \in {<<0>>, <<255, 2>>},
          ts \in {<<>>, <<FACP>>, OneRsdt.tables,
                  <<MADT(<<1>>, <<IoApic("io1", 0)>>)>> \o OneRsdt.tables,
                  OneRsdt.tables \o <<MADT(<<1>>, <<IoApic("io2", 0)>>)>>}}

Machine(map, free, spare, rsdt, modules, files, firmware) ==
  [map |-> map, free |-> free, spare |-> spare, rsdt |-> rsdt, modules |-> modules,
   files |-> files, firmware |-> firmware]

Ramdisk == <<"/Iridium/initrd.sys">>

MCSizeOf == [Process |-> 1, TSSEntry |-> 1, FontHeader |-> 1, stack |-> 5]

MCMachines ==
  {Machine(m, OneFree, OneSpare, OneRsdt, Ramdisk, OneDisk, 48) : m \in Maps1}
  \cup {Machine(m, f, OneSpare, OneRsdt, Ramdisk, OneDisk, 48) : m \in {OneMap, WideMap}, f \in Frees}
  \cup {Machine(OneMap, OneFree, s, OneRsdt, Ramdisk, OneDisk, 48) : s \in Spares}
  \cup {Machine(OneMap, OneFree, OneSpare, r, Ramdisk, OneDisk, Masked) : r \in Rsdts}
  \cup {Machine(OneMap, OneFree, OneSpare, OneRsdt, Ramdisk, d, Masked) : d \in Disks}
  \cup {Machine(OneMap, OneFree, OneSpare, OneRsdt, m, OneDisk, Masked) :
          m \in {<<>>, <<"/other">>, <<"/other">> \o Ramdisk}}
=============================================================================
