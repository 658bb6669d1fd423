---------------------------- MODULE XrpFirmware ----------------------------
(***************************************************************************)
(* The firmware loader of the kernel driver (xrp_firmware.c): how an ELF   *)
(* image gets into the memory of the DSP.  Memory and image are functions  *)
(* from addresses to contents.  An image is a record:                      *)
(*   elf       the header checks pass                                      *)
(*   data      the bytes of the file, a function on 0..(size - 1)          *)
(*   phdr      program headers [load, offset, filesz, memsz, paddr]        *)
(*   shdr      section headers [type, offset, size, addr]                  *)
(*   sym       symbols [object, name, shndx, value, size]; name[i] is what *)
(*             the offset st_name reads as in the string table of section i*)
(*   link      the string table of the symbols, which the loader ignores   *)
(***************************************************************************)
EXTENDS XrpAddressMap, FiniteSetsExt

CONSTANTS
  PAGE_SIZE,
  WORD,         \* sizeof(u32), to which copies are rounded up
  Width,        \* 2^32
  Phys,         \* host physical addresses of the DSP's memory
  SysMem        \* those with a struct page (pfn_valid)

ASSUME FirmwareAssumption ==
  /\ WORD \in Nat \ {0} /\ PAGE_SIZE \in Nat /\ PAGE_SIZE % WORD = 0 /\ PAGE_SIZE > WORD
  /\ Width % PAGE_SIZE = 0
  /\ Phys \subseteq Nat /\ SysMem \subseteq Phys

CommSymbol == "xrp_dsp_comm_base"
Unwritten == -2              \* memory a load has not written
Behind == -3                 \* what follows the image in the memory of the host
OF_BAD_ADDR == -1

ALIGN(v, a) == ((v + a - 1) \div a) * a

\* Bytes are written from address at on.
Write(mem, at, bytes) ==
  [a \in DOMAIN mem |-> IF a >= at /\ a - at \in DOMAIN bytes THEN bytes[a - at] ELSE mem[a]]

Zeros(n) == [k \in 0..(n - 1) |-> 0]

\* The byte at an offset of the image; a rounded copy may read behind its end.
Byte(fw, offset) == IF offset \in DOMAIN fw.data THEN fw.data[offset] ELSE Behind

Data(fw, offset, n) == [k \in 0..(n - 1) |-> Byte(fw, offset + k)]

\* of_translate_address: from an address of the DSP to the host's, by ranges.
xrp_translate_to_cpu(ranges, addr) ==
  LET in == {i \in DOMAIN ranges : addr >= ranges[i].dst /\ addr < ranges[i].dst + ranges[i].size}
  IN  IF ranges = <<>> THEN addr
      ELSE IF in = {} THEN OF_BAD_ADDR
      ELSE ranges[Min(in)].src + addr - ranges[Min(in)].dst

----------------------------------------------------------------------------
(* Segments                                                                *)

\* One round of the loop of xrp_load_segment_to_sysmem.  sz is what is left of
\* the page, from the value page_offs has before it is reduced to the page.
LoadPage(fw, ph, s) ==
  LET sz == PAGE_SIZE - s.page_offs
      page_offs == s.page_offs % PAGE_SIZE
      copy == IF s.offs < ph.filesz THEN ALIGN(Min({sz, ph.filesz - s.offs}), WORD) ELSE 0
      copied == Write(s.mem, s.page * PAGE_SIZE + page_offs, Data(fw, ph.offset + s.offs, copy))
      offs == s.offs + copy
      clear == IF offs < ph.memsz /\ sz - copy # 0
                 THEN ALIGN(Min({sz - copy, ph.memsz - offs}), WORD) ELSE 0
  IN  [page |-> s.page + 1, page_offs |-> page_offs + copy + clear, offs |-> offs + clear,
       mem |-> Write(copied, s.page * PAGE_SIZE + page_offs + copy, Zeros(clear))]

\* The loop, from a state of it on.
Loop == [page : Nat, page_offs : Nat, offs : Nat, mem : [Phys -> Int]]

LoadPages(fw, ph, start) ==
  LET load[s \in Loop] == IF s.offs < ph.memsz THEN load[LoadPage(fw, ph, s)] ELSE s.mem
  IN  load[start]

xrp_load_segment_to_sysmem(fw, ph, pa, mem) ==
  LoadPages(fw, ph, [page |-> pa \div PAGE_SIZE, page_offs |-> pa % PAGE_SIZE,
                     offs |-> 0, mem |-> mem])

\* What remains is u32, and wraps when the rounded copy fills the segment.
xrp_load_segment_to_iomem(fw, ph, pa, mem) ==
  LET copy == ALIGN(ph.filesz, WORD)
      rest == ALIGN((ph.memsz - copy) % Width, WORD) % Width
  IN  Write(Write(mem, pa, Data(fw, ph.offset, copy)), pa + copy, Zeros(rest))

----------------------------------------------------------------------------
(* Symbols                                                                 *)

xrp_section_bad(fw, s) ==
  LET size == Cardinality(DOMAIN fw.data)
  IN  s.offset > size \/ s.size > size - s.offset

Sections(fw, type) == {i \in DOMAIN fw.shdr : fw.shdr[i].type = type}

\* Where the image holds the object of symbol s.
FoundAt(fw, s) == fw.shdr[s.shndx].offset + (s.value - fw.shdr[s.shndx].addr)

\* The first symbol of that name, and whether it can be used: [rc, addr, size].
\* The string table is the last one of the image.
xrp_firmware_find_symbol(fw, name) ==
  LET symtab == Sections(fw, "SYMTAB")
      strtab == Sections(fw, "STRTAB")
      named == {i \in DOMAIN fw.sym : fw.sym[i].object /\ fw.sym[i].name[Max(strtab)] = name}
      s == fw.sym[Min(named)]
      sh == fw.shdr[s.shndx]
      None == [rc |-> "error", addr |-> 0, size |-> 0]
  IN  IF \/ symtab = {} \/ strtab = {}
         \/ xrp_section_bad(fw, fw.shdr[Max(symtab)]) \/ xrp_section_bad(fw, fw.shdr[Max(strtab)])
         \/ named = {}
         \/ s.shndx \notin DOMAIN fw.shdr
         \/ xrp_section_bad(fw, sh)
         \/ s.value < sh.addr \/ s.value - sh.addr > sh.size
         \/ s.size > sh.size - (s.value - sh.addr)
      THEN None
      ELSE [rc |-> "ok", addr |-> FoundAt(fw, s), size |-> s.size]

\* The image in which the symbol, if found and of one word, has value v.
xrp_firmware_fixup_symbol(fw, name, v) ==
  LET found == xrp_firmware_find_symbol(fw, name)
  IN  IF found.rc = "error" \/ found.size # WORD THEN fw
      ELSE [fw EXCEPT !.data = Write(@, found.addr, [k \in 0..(WORD - 1) |-> v])]

----------------------------------------------------------------------------
(* xrp_load_firmware                                                       *)

\* Only non-empty loadable segments are loaded.
Loadable(ph) == ph.load /\ ph.memsz > 0

InImage(fw, ph) ==
  LET size == Cardinality(DOMAIN fw.data)
  IN  ph.offset < size /\ ph.offset + ph.filesz <= size

\* The loop over the program headers, from header i and the memory so far on.
LoadSegments(fw, ranges, start) ==
  LET load[s \in [i : Nat, mem : [Phys -> Int]]] ==
        LET ph == fw.phdr[s.i]
            pa == xrp_translate_to_cpu(ranges, ph.paddr)
        IN  IF s.i > Len(fw.phdr) THEN [rc |-> "ok", mem |-> s.mem]
            ELSE IF ~Loadable(ph) THEN load[[s EXCEPT !.i = @ + 1]]
            ELSE IF ~InImage(fw, ph) \/ pa = OF_BAD_ADDR THEN [rc |-> "error", mem |-> s.mem]
            ELSE load[[i |-> s.i + 1,
                       mem |-> IF pa \in SysMem THEN xrp_load_segment_to_sysmem(fw, ph, pa, s.mem)
                                                ELSE xrp_load_segment_to_iomem(fw, ph, pa, s.mem)]]
  IN  load[start]

\* The result is ignored when the symbol cannot be fixed.
xrp_load_firmware(fw, ranges, map, comm_phys) ==
  LET blank == [a \in Phys |-> Unwritten]
  IN  IF ~fw.elf THEN [rc |-> "error", mem |-> blank]
      ELSE LoadSegments(xrp_firmware_fixup_symbol(fw, CommSymbol, xrp_translate_to_dsp(map, comm_phys)),
                        ranges, [i |-> 1, mem |-> blank])

----------------------------------------------------------------------------
(* What a load is for                                                      *)

\* The DSP address of a host address, from the ranges themselves.
DspAddress(ranges, addr) ==
  LET in == {i \in DOMAIN ranges : addr \in ranges[i].src..(ranges[i].src + ranges[i].size - 1)}
  IN  IF ranges = <<>> THEN addr
      ELSE IF in = {} THEN XRP_NO_TRANSLATION
      ELSE LET i == CHOOSE k \in in : TRUE IN ranges[i].dst + addr - ranges[i].src

\* The bytes of the image that the symbol of the communication area covers.
CommBytes(fw) ==
  UNION {LET at == fw.shdr[s.shndx].offset + s.value - fw.shdr[s.shndx].addr IN at..(at + WORD - 1) :
           s \in {fw.sym[i] : i \in {j \in DOMAIN fw.sym :
                     fw.sym[j].object /\ fw.sym[j].name[fw.link] = CommSymbol /\ fw.sym[j].size = WORD}}}

\* Memory mem holds the segments of fw, cleared behind the data of the file
\* (from the next word on), with the communication area's address filled in,
\* and nothing was written but the segments, rounded up to a word.
HoldsImage(mem, fw, ranges, comm_phys) ==
  LET segments == {fw.phdr[i] : i \in {j \in DOMAIN fw.phdr : Loadable(fw.phdr[j])}}
      pa(ph) == xrp_translate_to_cpu(ranges, ph.paddr)
      content(o) == IF o \in CommBytes(fw) THEN DspAddress(ranges, comm_phys) ELSE fw.data[o]
  IN  /\ \A ph \in segments, k \in 0..(Max({p.memsz : p \in segments} \cup {1}) - 1) :
           /\ k < ph.filesz => mem[pa(ph) + k] = content(ph.offset + k)
           /\ k \in ALIGN(ph.filesz, WORD)..(ph.memsz - 1) => mem[pa(ph) + k] = 0
      /\ \A a \in DOMAIN mem : mem[a] # Unwritten =>
           \E ph \in segments : a \in pa(ph)..(pa(ph) + ALIGN(ph.memsz, WORD) - 1)
=============================================================================
