-------------------------------- MODULE Acpi --------------------------------
(***************************************************************************)
(* The ACPI tables of the firmware and how the kernel reads them           *)
(* (kernel/src/firmware/acpi/acpi.c, include/firmware/acpi/tables.h): the  *)
(* search for the MADT, its checksum, and the walk over its entries.       *)
(*                                                                         *)
(* A table is a record with its signature and its bytes' values; the       *)
(* entries of a MADT are a sequence, in the order of their addresses.      *)
(***************************************************************************)
EXTENDS Integers, Sequences, SequencesExt

NoTable == [signature |-> "none"]
None == "none"     \* the address NULL

\* An entry of the MADT.  An entry whose length is 0 does not move the cursor.
Lapic                == [type |-> "local_apic"]
IoApic(addr, base)   == [type |-> "io_apic", addr |-> addr, gsi_base |-> base]
Override(irq, gsi)   == [type |-> "override", source |-> irq, interrupt |-> gsi]
Stuck                == [type |-> "length 0"]

\* verify_checksum: an 8-bit sum over the bytes of a table.
verify_checksum(table) == FoldLeft(LAMBDA sum, b : (sum + b) % 256, 0, table.bytes) = 0

\* fetch_madt: the first table of the RSDT with the signature "APIC".
fetch_madt(rsdt) ==
  LET found == {i \in 1..Len(rsdt.tables) : rsdt.tables[i].signature = "APIC"}
  IN IF found = {} THEN NoTable
     ELSE rsdt.tables[CHOOSE i \in found : \A j \in found : i <= j]

\* Where a walk over the entries goes round in circles, 0 for nowhere.
StuckAt(madt) == SelectInSeq(madt.entries, LAMBDA e : e = Stuck)

\* parse_madt counts processors in eight bits ...
CoreCount(madt) == Len(SelectSeq(madt.entries, LAMBDA e : e = Lapic)) % 256

\* ... and keeps the address of the last I/O APIC.
IoApicBase(madt) ==
  LET last == SelectLastInSeq(madt.entries, LAMBDA e : e.type = "io_apic")
  IN IF last = 0 THEN None ELSE madt.entries[last].addr

\* Mutant: interrupt and source of an override are confused.
IrqToSource(madt, irq) ==
  LET k == SelectInSeq(madt.entries, LAMBDA e : e.type = "override" /\ e.interrupt = irq)
  IN IF k = 0 THEN irq ELSE madt.entries[k].source

\* acpi_irq_to_gsi, a uint16_t: the first override of the IRQ, or the IRQ.
acpi_irq_to_gsi(madt, irq) ==
  LET k == SelectInSeq(madt.entries, LAMBDA e : e.type = "override" /\ e.source = irq)
  IN IF k = 0 THEN irq ELSE madt.entries[k].interrupt % 65536
=============================================================================
