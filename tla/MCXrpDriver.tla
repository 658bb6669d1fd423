---------------------------- MODULE MCXrpDriver ----------------------------
(***************************************************************************)
(* Instances of XrpDriver for TLC.  A page has four bytes, a word two.  The *)
(* memory of the DSP is three pages of system memory and one of its own.   *)
(***************************************************************************)
EXTENDS XrpDriver, TLC

MCPhys == 8..23
MCSysMem == 8..19

Segment(load, offset, filesz, memsz, paddr) ==
  [load |-> load, offset |-> offset, filesz |-> filesz, memsz |-> memsz, paddr |-> paddr]
Section(type, offset, size, addr) == [type |-> type, offset |-> offset, size |-> size, addr |-> addr]
Symbol(name, shndx, value, size) ==
  [object |-> TRUE, name |-> [i \in 2..3 |-> name], shndx |-> shndx, value |-> value, size |-> size]

\* Ten bytes: six of data, then the tables.
Image(phdr, sym) ==
  [elf |-> TRUE, data |-> [o \in 0..9 |-> 100 + o], phdr |-> phdr,
   shdr |-> <<Section("PROGBITS", 0, 5, 70), Section("STRTAB", 6, 2, 0), Section("SYMTAB", 8, 2, 0)>>,
   sym |-> sym, link |-> 2]

CommAt(value) == <<Symbol("main", 1, 70, 2), Symbol(CommSymbol, 1, value, WORD)>>

\* From the start of a page with a cleared rest, and from the middle of one;
\* device memory with an odd size; a segment that is not to be loaded.  In the
\* second image the symbol has another size.
OnePage == Image(<<Segment(TRUE, 2, 2, 4, 0), Segment(FALSE, 0, 99, 99, 0),
                   Segment(TRUE, 3, 1, 2, 6), Segment(TRUE, 1, 3, 3, 12)>>, CommAt(72))
Low == Image(<<Segment(TRUE, 0, 2, 2, 10)>>, <<Symbol(CommSymbol, 1, 70, WORD + 1)>>)
OutOfFile == Image(<<Segment(TRUE, 8, 3, 3, 12)>>, CommAt(72))
OutOfReach == Image(<<Segment(TRUE, 0, 2, 2, 50)>>, CommAt(72))

\* Not sorted: shared memory, the system memory and the device memory.
MCRanges == <<[src |-> 60, dst |-> 40, size |-> 4], [src |-> 8, dst |-> 0, size |-> 12],
              [src |-> 20, dst |-> 12, size |-> 4]>>

Board(init, acpi, pm, ranges, images) ==
  [init |-> init, acpi |-> acpi, pm |-> pm, ranges |-> ranges, comm_phys |-> 61,
   shared_size |-> 3, images |-> images]

\* The second one translates addresses; on the last two the firmware is there.
MCBoards ==
  <<Board("v1", TRUE, TRUE, <<>>, {Low, OutOfFile}),
    Board("v0", FALSE, FALSE, MCRanges, {OnePage, OutOfReach}),
    Board("cma", FALSE, TRUE, <<>>, {}),
    Board("v0", FALSE, FALSE, <<>>, {})>>

\* A segment of a page and a half.
TwoPages == Image(<<Segment(TRUE, 0, 6, 6, 0)>>, <<>>)
MCBoardsTwoPages == <<Board("v1", FALSE, TRUE, MCRanges, {TwoPages})>>

\* Devices meet only in the numbers of their nodes, so each is of its own model.
MCMachines == {m \in [Devices -> DOMAIN Boards] : \A d, e \in Devices : m[d] = m[e] => d = e}

MCSymmetry == Permutations(Devices) \cup Permutations(Files)
=============================================================================
