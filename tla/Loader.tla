------------------------------- MODULE Loader -------------------------------
(***************************************************************************)
(* From the initial RAM disk to a program in memory: initrd_open           *)
(* (kernel/src/fs/initrd.c) walks a tar archive block by block, and        *)
(* elf_get_entry (kernel/src/common/elf.c) maps and copies the segments of *)
(* an ELF file.  Programs share everything but the top level of the page   *)
(* tables (mkpml4), so there is one memory.                                *)
(*                                                                         *)
(* Byte k of a file f is <<f.name, k>>.                                    *)
(***************************************************************************)
EXTENDS Integers, Sequences, SequencesExt

CONSTANTS
  Block,   \* bytes of a tar block, 512 in the code
  Page,    \* bytes of a page, 0x1000 in the code
  Long     \* the path that is longer than 99 characters

ASSUME LoaderAssumption == Block \in Nat \ {0} /\ Page \in Nat \ {0}

\* The header of a file that is no ELF file, and what a zero block is read as.
NotElf == [magic |-> "other"]
NoName == ""
NULL_FILE == [name |-> NoName, size |-> 0, elf |-> [header |-> NotElf]]

-----------------------------------------------------------------------------
(* The archive, as tar wrote it: a header block and the blocks of the      *)
(* contents for every file, and zero blocks.                               *)

\* The blocks of n bytes.
Blocks(n) == CHOOSE b \in 0..n : (b - 1) * Block < n /\ n <= b * Block

\* The block with the header of file k.
HeaderAt(files, k) ==
  LET At[n \in 1..k] == IF n = 1 THEN 0 ELSE At[n - 1] + 1 + Blocks(files[n - 1].size)
  IN At[k]

\* What tar writes: the directory comes first, a name has 1 to 99 characters,
\* and a size has 11 octal digits.
Archive(files) ==
  /\ files \in Seq(ToSet(files)) /\ files # <<>> /\ files[1].size = 0
  /\ \A k \in 1..Len(files) :
       /\ files[k].name \notin {NoName, Long}
       /\ files[k].size \in Nat /\ files[k].size \div 8^10 < 8

\* The size field.
Digits(n) == [j \in 1..11 |-> (n \div 8^(11 - j)) % 8]

\* getsize.
getsize(digits) ==
  LET Size[j \in 0..11] == IF j = 0 THEN 0 ELSE Size[j - 1] * 8 + digits[j]
  IN Size[11]

\* The file whose header is at a block; a zero block has the empty name.
FileAt(files, at) ==
  LET here == {k \in 1..Len(files) : HeaderAt(files, k) = at}
  IN IF here = {} THEN NULL_FILE ELSE files[CHOOSE k \in here : TRUE]

\* Mutant: a whole number of blocks is rounded up.
NextHeaderOver(files, at) == at + getsize(Digits(FileAt(files, at).size)) \div Block + 2

\* address += (((sz + 511) / 512) + 1) * 512
NextHeader(files, at) ==
  at + (getsize(Digits(FileAt(files, at).size)) + Block - 1) \div Block + 1

\* initrd_open, from the second block on: the loop goes on while the header
\* looked at last has a name.  The result is the block of the file, 0 for NULL.
initrd_open(files, path) ==
  LET last == HeaderAt(files, Len(files) + 1)
      Walk[at \in 1..(2 * last + 2)] ==
        LET name == FileAt(files, at).name
        IN IF name = path THEN at ELSE IF name = NoName THEN 0 ELSE Walk[NextHeader(files, at)]
  IN IF path = Long \/ FileAt(files, 1).name = NoName THEN 0 ELSE Walk[1]

-----------------------------------------------------------------------------
(* ELF.                                                                    *)

\* What the checks of elf_get_entry ask of the header.
GoodHeader == [magic |-> "ELF", class |-> "64", e_type |-> "EXEC",
               e_machine |-> "X86_64", e_version |-> "current"]

Accepted(file) == file.elf.header = GoodHeader

\* Mutant: only full pages of a segment are mapped.
MapsFullPages(ph) ==
  {i \div Page : i \in {i \in ph.paddr..(ph.paddr + ph.memsz - Page) : (i - ph.paddr) % Page = 0}}

\* for (i = segment; i < (segment + n_pages)*2; i += 0x1000): the pages mapped
\* for a segment, where n_pages is a number of bytes.
Maps(ph) ==
  LET n_pages == ph.memsz + Page - 1
  IN {i \div Page : i \in {i \in ph.paddr..((ph.paddr + n_pages) * 2 - 1) :
                             (i - ph.paddr) % Page = 0}}

\* The headers the loop acts on.
Loads(file) == SelectSeq(file.elf.phdrs, LAMBDA ph : ph.p_type = "LOAD")

\* The bytes of a segment that are copied.
Filled(ph) == ph.paddr..(ph.paddr + ph.filesz - 1)

\* elf_get_entry of an accepted file: the pages it maps for users, ...
MappedPages(file) == UNION {Maps(ph) : ph \in ToSet(Loads(file))}

\* ... and the memory it leaves behind, in which a later segment overwrites an
\* earlier one.  Nothing behind p_filesz is cleared.
LoadInto(mem, file) ==
  LET segments == Loads(file)
  IN [a \in DOMAIN mem |->
        LET k == SelectLastInSeq(segments, LAMBDA ph : a \in Filled(ph))
        IN IF k = 0 THEN mem[a]
           ELSE <<file.name, a - segments[k].paddr + segments[k].offset>>]
=============================================================================
