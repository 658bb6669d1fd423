----------------------------- MODULE XrpRequest -----------------------------
(***************************************************************************)
(* The memory of one synchronous command: how the kernel driver shares the *)
(* caller's data and buffers with the DSP (xrp_map_request), what the DSP  *)
(* library and the command handler do with them (process_command), and how *)
(* everything is taken back (xrp_unmap_request, xrp_unmap_request_nowb).   *)
(*                                                                         *)
(* Memory is counted in pages.  A page has a value in memory and may have  *)
(* another one in the host's cache and in the DSP's.  The exchange of the  *)
(* command itself is the subject of XrpLink: here it ends in one of its    *)
(* outcomes.                                                               *)
(***************************************************************************)
EXTENDS XrpAddressMap, FiniteSets, Functions

CONSTANTS
  NBuffers,                         \* the most buffers a command passes
  XRP_DSP_CMD_INLINE_BUFFER_COUNT,
  MAX_STACK_BUFFERS,
  Inputs,                           \* <<in, out, n>>: the commands submitted
  AddressMap,                       \* xvp->address_map
  Frames,                           \* the host's physical pages
  Pool,                             \* the free pages of xvp->pool
  KernelFrames,                     \* where kmalloc may put the descriptors
  Layouts                           \* block -> what may be at its address

\* The blocks of memory of a request, in the order they are shared in.
In == -1
Out == 0
Buffers == 1..NBuffers
Desc == NBuffers + 1
Blocks == In..Desc

\* A layout is what the process has mapped at a block's address: the kind of
\* the vma(s), the physical pages behind it and the block's size in pages.
Kinds == {"none", "own", "other", "io", "anon", "multi"}

\* The memory of an XRP file is mapped in one piece: its pages follow each other.
ASSUME RequestAssumption ==
  /\ NBuffers \in Nat /\ XRP_DSP_CMD_INLINE_BUFFER_COUNT \in Nat
  /\ Inputs \subseteq BOOLEAN \X BOOLEAN \X (0..NBuffers)
  /\ Frames \subseteq Nat
  /\ Pool \subseteq Frames /\ KernelFrames \subseteq Frames \ Pool
  /\ \A b \in Blocks : \A l \in Layouts[b] :
       /\ l \in [kind : Kinds, frames : Seq(Frames \ Pool), size : Nat]
       /\ l.size = Len(l.frames) /\ l.size > 0
       /\ l.kind \in {"own", "other"} =>
            \A k \in DOMAIN l.frames : l.frames[k] = l.frames[1] + k - 1

VARIABLES
  pc,       \* where xrp_ioctl_submit_sync is
  rq,       \* the sizes of the request: in and out too large to be inline?
  todo,     \* the blocks still to share, or to unshare
  flags,    \* the access flags of the caller's buffers
  vma,      \* block -> the layout found at its address
  mapping,  \* block -> struct xrp_mapping
  desc,     \* rq->dsp_buffer
  heap,     \* the arrays allocated with kmalloc
  ref,      \* page -> the references the request holds on it
  mem, host, dsp,   \* page -> its value in memory and in the two caches
  cmd,      \* the command in the shared area
  buffer,   \* struct xrp_buffer of the DSP library, one for each buffer
  wrote,    \* history: the pages <<block, page>> the handler wrote
  stray,    \* history: the handler wrote where no shared memory is
  unmapped, \* another thread of the process has called munmap
  ret       \* what the call returns

memory == <<mem, host, dsp>>
hostvars == <<rq, todo, flags, vma, mapping, desc, heap, ref>>
dspvars == <<cmd, buffer, wrote, stray>>
vars == <<pc, hostvars, memory, dspvars, unmapped, ret>>

\* Values of a page; <<>> in a cache: not cached.
None == <<>>
Old == <<"old">>
User(f) == <<"user", f>>
Dsp(b, p) == <<"dsp", b, p>>

Flags == SUBSET {"R", "W"}
Unset == [type |-> "uninit", paddr |-> 0, size |-> 0]
Mapped(type, paddr, size) == [type |-> type, paddr |-> paddr, size |-> size]
NoMapping == Mapped("none", 0, 0)
Pages(m) == m.paddr..(m.paddr + m.size - 1)

\* The DSP's windows: page -> where the DSP sees it; the pages behind size
\* pages from addr on.
Window == [f \in Frames |-> {e.dst + f - e.src : e \in {g \in Range(AddressMap) : f - g.src \in 0..(g.size - 1)}}]
Behind(addr, size) == {f \in Frames : \E a \in Window[f] : addr <= a /\ a < addr + size}
FrameAt(addr) == CHOOSE f \in Frames : addr \in Window[f]

InOneWindow(fs) == \E e \in Range(AddressMap) : \A f \in fs : xrp_compare_address(f, e) = 0

\* The DSP's windows do not overlap and the search finds the one a page is in;
\* the pool is in one of them, and so is a piece of memory of an XRP file.  A
\* block has each of its pages once, in_data and out_data have none in common
\* and kmalloc hands out none of theirs.  No window is as low as the offsets
\* into a buffer that has no address.
ASSUME MemoryAssumption ==
  /\ AddressMap \in Seq([src : Nat, dst : Nat, size : Nat])
  /\ \A f \in Frames :
       LET i == xrp_get_address_mapping(AddressMap, f)
           to == xrp_translate_to_dsp(AddressMap, f)
       IN  /\ i = 0 \/ (i \in DOMAIN AddressMap /\ xrp_compare_address(f, AddressMap[i]) = 0)
           /\ Window[f] = IF i = 0 THEN {} ELSE {to}
           /\ \A g \in Frames : i # 0 /\ xrp_translate_to_dsp(AddressMap, g) = to => g = f
           /\ \A b \in Buffers : \A l \in Layouts[b] : i # 0 => to >= l.size - 1
  /\ InOneWindow(Pool)
  /\ \A b \in Blocks : \A l \in Layouts[b] :
       /\ \A j, k \in DOMAIN l.frames : l.frames[j] = l.frames[k] => j = k
       /\ Range(l.frames) \cap KernelFrames = {}
       /\ l.kind = "own" => InOneWindow(Range(l.frames))
  /\ \A l \in Layouts[In], m \in Layouts[Out] : Range(l.frames) \cap Range(m.frames) = {}

HostRead(f) == IF host[f] # None THEN host[f] ELSE mem[f]
DspRead(f) == IF dsp[f] # None THEN dsp[f] ELSE mem[f]

\* The flags a block is shared with.
SharedFor(b) ==
  IF b = In THEN {"R"} ELSE IF b = Out THEN {"W"}
  ELSE IF b = Desc THEN {"R", "W"} ELSE flags[b]

TypeOK ==
  /\ pc \in {"idle", "map", "gup", "sent", "dsp", "complete", "wb", "nowb", "done", "oops", "corrupt"}
  /\ ret \in {"none", "ok", "map", "device", "copyback", "off"}
  /\ rq \in [in : BOOLEAN, out : BOOLEAN, n : 0..NBuffers]
  /\ todo \in Seq(Blocks)
  /\ flags \in [Buffers -> Flags]
  /\ \A b \in Blocks : vma[b].kind \in Kinds \cup {"kernel"}
  /\ \A b \in Blocks : mapping[b].type \in
       {"uninit", "none", "native", "gup", "pfn", "copy", "kernel", "kcopy"}
  /\ heap \subseteq {"buffer_mapping", "dsp_buffer"}
  /\ ref \in [Frames -> Nat]
  /\ wrote \subseteq Blocks \X Nat /\ stray \in BOOLEAN /\ unmapped \in BOOLEAN

\* The caller's data is in the host's cache and not in memory yet, the DSP's
\* cache holds anything, and no mapping on the stack has been written.
Init ==
  /\ pc = "idle" /\ ret = "none" /\ todo = <<>>
  /\ rq = [in |-> FALSE, out |-> FALSE, n |-> 0]
  /\ flags = [b \in Buffers |-> {}]
  /\ vma = [b \in Blocks |-> [kind |-> "none", frames |-> <<>>, size |-> 0]]
  /\ mapping = [b \in Blocks |-> Unset]
  /\ desc = <<>> /\ heap = {}
  /\ ref = [f \in Frames |-> 0]
  /\ mem = [f \in Frames |-> Old] /\ dsp = [f \in Frames |-> Old]
  /\ host = [f \in Frames |-> IF f \in Pool THEN None ELSE User(f)]
  /\ cmd = [in |-> 0, out |-> 0, buffers |-> <<>>, addr |-> 0, fail |-> FALSE]
  /\ buffer = <<>> /\ wrote = {} /\ stray = FALSE /\ unmapped = FALSE

----------------------------------------------------------------------------
(* Sharing a block with the DSP                                            *)

Inline == rq.n <= XRP_DSP_CMD_INLINE_BUFFER_COUNT
\* Data that is inline has no mapping.
LargeData == (IF rq.in THEN <<In>> ELSE <<>>) \o (IF rq.out THEN <<Out>> ELSE <<>>)
BufferBlocks == [i \in 1..rq.n |-> i]
DescBlock == IF Inline THEN <<>> ELSE <<Desc>>
MapOrder == LargeData \o BufferBlocks \o DescBlock

\* A mistake: the descriptors are forgotten when a request is given up.
NowbOrderWithoutDesc == LargeData \o BufferBlocks

\* The order of xrp_unmap_request_nowb.
NowbOrder == LargeData \o BufferBlocks \o DescBlock

\* A mistake: buffers are unshared before the flags the DSP left are there.
WbOrderBuffersFirst == LargeData \o BufferBlocks \o DescBlock

\* A mistake: the size of the data is not looked at.
WbOrderAnySize == <<In, Out>> \o DescBlock \o BufferBlocks

\* The order of xrp_unmap_request.
WbOrder == LargeData \o DescBlock \o BufferBlocks

Get(fs) == ref' = [f \in Frames |-> ref[f] + (IF f \in fs THEN 1 ELSE 0)]
Put(fs) == ref' = [f \in Frames |-> ref[f] - (IF f \in fs THEN 1 ELSE 0)]

\* flush_cache for memory the DSP writes, clean_cache for memory it reads.
do_cache(fs, fl) ==
  /\ mem' = [f \in Frames |-> IF f \in fs THEN HostRead(f) ELSE mem[f]]
  /\ host' = [f \in Frames |-> IF f \in fs /\ "W" \in fl THEN None ELSE host[f]]

\* The block is shared: xrp_map_request goes on with the next one.  A buffer
\* gets its descriptor.
Shared(b, m, fl) ==
  /\ mapping' = [mapping EXCEPT ![b] = m]
  /\ desc' = IF b \in Buffers
             THEN Append(desc, [flags |-> fl, size |-> m.size,
                                addr |-> xrp_translate_to_dsp(AddressMap, m.paddr)])
             ELSE desc
  /\ pc' = "map" /\ todo' = Tail(todo)
  /\ UNCHANGED ret

\* goto share_err: xrp_map_request gives up and undoes what it did.
ShareFails ==
  /\ ret' = "map" /\ pc' = "nowb" /\ todo' = NowbOrder
  /\ UNCHANGED <<mapping, desc, ref, mem, host>>

\* The pages xrp_allocate finds for size pages: the first that fit.
xrp_allocate(size) ==
  LET fits == {start \in Pool : \A f \in start..(start + size - 1) : f \in Pool /\ ref[f] = 0}
  IN {start \in fits : \A other \in fits : start <= other}

\* A shadow copy in the pool, filled with the caller's data when the DSP is to
\* read it.  Fails without pool memory, or on a fault (which returns the
\* allocation).
xvp_copy_virt_to_phys(b, frames, size, fl) ==
  \/ \E start \in xrp_allocate(size) :
       LET fs == start..(start + size - 1)
           fill == "R" \in fl
       IN /\ Get(fs)
          /\ fill => frames # <<>>
          /\ mem' = [f \in Frames |-> IF fill /\ f \in fs THEN HostRead(frames[f - start + 1])
                                                       ELSE mem[f]]
          /\ UNCHANGED host
          /\ Shared(b, Mapped("copy", start, size), fl)
  \/ ShareFails

\* A mistake: only the first page is looked up in the address map.
virt_to_phys_first_page(frames) ==
  /\ xrp_get_address_mapping(AddressMap, frames[1]) # 0
  /\ \A k \in DOMAIN frames : frames[k] = frames[1] + k - 1

\* The test of xvp_pfn_virt_to_phys and xvp_gup_virt_to_phys: contiguous
\* pages, all of them in the window of the first one.
virt_to_phys(frames) ==
  LET i == xrp_get_address_mapping(AddressMap, frames[1]) IN
    /\ i # 0
    /\ \A k \in DOMAIN frames :
         /\ frames[k] = frames[1] + k - 1
         /\ xrp_compare_address(frames[k], AddressMap[i]) = 0

xvp_pfn_virt_to_phys(b, l, fl) ==
  IF virt_to_phys(l.frames)
  THEN /\ Shared(b, Mapped("pfn", l.frames[1], l.size), fl)
       /\ do_cache(Range(l.frames), fl)
       /\ UNCHANGED ref
  ELSE xvp_copy_virt_to_phys(b, l.frames, l.size, fl)

\* A mistake: XRP memory is shared without a reference on its allocation.
ShareNativeUnreferenced(b, l, fl) ==
  /\ Shared(b, Mapped("native", l.frames[1], l.size), fl)
  /\ do_cache(Range(l.frames), fl)
  /\ UNCHANGED ref

\* Memory of an XRP file: the request takes a reference on the allocation.
ShareNative(b, l, fl) ==
  /\ Shared(b, Mapped("native", l.frames[1], l.size), fl)
  /\ Get(Range(l.frames))
  /\ do_cache(Range(l.frames), fl)

\* Memory of another XRP file counts as XRP memory when its first and its
\* last byte are in one window.
SameBehind(l) ==
  LET i == xrp_get_address_mapping(AddressMap, l.frames[1])
  IN  i # 0 /\ xrp_compare_address(l.frames[l.size], AddressMap[i]) = 0

\* The address lies in what the process has mapped, with mmap_sem held.
\* Pages of anonymous memory are taken with mmap_sem released: pc = "gup".
__xrp_share_block(b, l, fl) ==
  /\ vma' = [vma EXCEPT ![b] = l]
  /\ \/ l.kind = "none" /\ ShareFails
     \/ (l.kind = "own" \/ (l.kind = "other" /\ SameBehind(l))) /\ ShareNative(b, l, fl)
     \/ (l.kind = "io" \/ (l.kind = "other" /\ ~SameBehind(l))) /\ xvp_pfn_virt_to_phys(b, l, fl)
     \/ /\ l.kind \in {"anon", "multi"}
        /\ pc' = "gup"
        /\ UNCHANGED <<mapping, desc, todo, ret, ref, mem, host>>

\* get_user_pages_fast took every page of the block and they are fit to be
\* shared.  On any failure the pages taken are put again and a shadow copy
\* is made.
xvp_gup_virt_to_phys ==
  LET b == Head(todo)
      l == vma[b]
      fl == SharedFor(b)
  IN /\ pc = "gup"
     /\ \/ /\ l.kind # "none" /\ virt_to_phys(l.frames)
           /\ Shared(b, Mapped("gup", l.frames[1], l.size), fl)
           /\ Get(Range(l.frames))
           /\ do_cache(Range(l.frames), fl)
        \/ xvp_copy_virt_to_phys(b, IF l.kind = "none" THEN <<>> ELSE l.frames, l.size, fl)
     /\ UNCHANGED <<rq, flags, vma, heap, dsp, dspvars, unmapped>>

\* The array of descriptors, in kernel memory at page f: shared as it is when
\* its address can be translated, else as a shadow copy.
xrp_share_kernel ==
  \E f \in KernelFrames :
    LET array == [host EXCEPT ![f] = <<"desc", desc>>] IN
      /\ vma' = [vma EXCEPT ![Desc] = [kind |-> "kernel", frames |-> <<f>>, size |-> 1]]
      /\ IF xrp_translate_to_dsp(AddressMap, f) = XRP_NO_TRANSLATION
         THEN \/ \E start \in xrp_allocate(1) :
                   /\ Get({start})
                   /\ mem' = [mem EXCEPT ![start] = array[f]]
                   /\ host' = array
                   /\ Shared(Desc, Mapped("kcopy", start, 1), {"R", "W"})
              \/ ShareFails
         ELSE /\ mem' = [mem EXCEPT ![f] = array[f]]
              /\ host' = [host EXCEPT ![f] = None]
              /\ Shared(Desc, Mapped("kernel", f, 1), {"R", "W"})
              /\ UNCHANGED ref

----------------------------------------------------------------------------
(* xrp_ioctl_submit_sync and xrp_map_request                               *)

\* The arguments are read and the arrays allocated; each may fail.  A failed
\* kzalloc of buffer_mapping is not noticed.  in_data that is inline is copied
\* from the caller, and a fault there is an error of sharing.
xrp_ioctl_submit_sync(in, out, n) ==
  /\ pc = "idle"
  /\ rq' = [in |-> in, out |-> out, n |-> n]
  /\ \/ pc' = "done" /\ ret' = "map" /\ UNCHANGED <<todo, mapping, heap>>
     \/ /\ \/ pc' = "map" /\ todo' = MapOrder' /\ UNCHANGED ret
           \/ ~in /\ pc' = "nowb" /\ todo' = NowbOrder' /\ ret' = "map"
        /\ mapping' = [b \in Blocks |-> IF b \in Buffers THEN NoMapping ELSE Unset]
        /\ heap' \in {h \in SUBSET {"buffer_mapping", "dsp_buffer"} :
                       /\ "buffer_mapping" \in h => n > 0
                       /\ "dsp_buffer" \in h <=> n > XRP_DSP_CMD_INLINE_BUFFER_COUNT}
  /\ UNCHANGED <<flags, vma, desc, ref, memory, dspvars, unmapped>>

MapData ==
  /\ pc = "map" /\ todo # <<>> /\ Head(todo) \in {In, Out}
  /\ \E l \in Layouts[Head(todo)] : __xrp_share_block(Head(todo), l, SharedFor(Head(todo)))
  /\ UNCHANGED <<rq, flags, heap, dsp, dspvars, unmapped>>

\* No two blocks of a request lie in the same memory.
Apart(l) == \A b \in Blocks : Range(l.frames) \cap Range(vma[b].frames) = {}

\* The caller's description of the buffer is read and the buffer shared; one
\* with no access flag is not, and gets an address that is no address.
MapBuffer ==
  /\ pc = "map" /\ todo # <<>> /\ Head(todo) \in Buffers
  /\ LET b == Head(todo) IN
       \/ ShareFails /\ UNCHANGED <<flags, vma>>
       \/ \E fl \in Flags, l \in Layouts[b] :
            /\ Apart(l)
            /\ flags' = [flags EXCEPT ![b] = fl]
            /\ IF fl = {}
               THEN /\ desc' = Append(desc, [flags |-> fl, size |-> l.size, addr |-> XRP_NO_TRANSLATION])
                    /\ todo' = Tail(todo)
                    /\ UNCHANGED <<vma, pc, ret, mapping, ref, mem, host>>
               ELSE /\ "buffer_mapping" \in heap
                    /\ __xrp_share_block(b, l, fl)
  /\ UNCHANGED <<rq, heap, dsp, dspvars, unmapped>>

MapDescriptors ==
  /\ pc = "map" /\ todo # <<>> /\ Head(todo) = Desc
  /\ xrp_share_kernel
  /\ UNCHANGED <<rq, flags, heap, dsp, dspvars, unmapped>>

\* A write or read through buffer_mapping where kzalloc had failed.
Oops ==
  /\ pc \in {"map", "wb", "nowb"} /\ todo # <<>> /\ Head(todo) \in Buffers
  /\ "buffer_mapping" \notin heap
  /\ pc' = "oops"
  /\ UNCHANGED <<hostvars, memory, dspvars, unmapped, ret>>

\* Another thread unmaps a block: it needs mmap_sem, which xrp_map_request
\* holds but for the time the pages of anonymous memory are taken.  After
\* that it matters only whether it happens before the block is unshared.
munmap ==
  /\ ~unmapped /\ pc \in {"gup", "complete"}
  /\ \E b \in Blocks : /\ vma[b].kind \notin {"none", "kernel"}
                       /\ vma' = [vma EXCEPT ![b].kind = "none"]
  /\ unmapped' = TRUE
  /\ UNCHANGED <<pc, rq, todo, flags, mapping, desc, heap, ref, memory, dspvars, ret>>

----------------------------------------------------------------------------
(* The exchange, as far as memory is concerned, and the DSP                *)

Fails(r) == ret' = r /\ pc' = "nowb" /\ todo' = NowbOrder

\* The device is off, or the command is written to the shared area.
xrp_fill_hw_request ==
  /\ pc = "map" /\ todo = <<>>
  /\ \/ Fails("device") /\ UNCHANGED cmd
     \/ /\ pc' = "sent"
        /\ cmd' = [in |-> IF rq.in THEN xrp_translate_to_dsp(AddressMap, mapping[In].paddr) ELSE 0,
                   out |-> IF rq.out THEN xrp_translate_to_dsp(AddressMap, mapping[Out].paddr) ELSE 0,
                   buffers |-> IF Inline THEN desc ELSE <<>>,
                   addr |-> IF Inline THEN 0 ELSE xrp_translate_to_dsp(AddressMap, mapping[Desc].paddr),
                   fail |-> FALSE]
        /\ UNCHANGED <<ret, todo>>
  /\ UNCHANGED <<rq, flags, vma, mapping, desc, heap, ref, memory, buffer, wrote, stray, unmapped>>

\* The command times out and the DSP is restarted, or cannot be: then it is
\* off, may still use the memory, and nothing is taken back.
Timeout ==
  /\ pc \in {"sent", "dsp"}
  /\ \/ Fails("device")
     \/ pc' = "done" /\ ret' = "off" /\ UNCHANGED todo
  /\ buffer' = <<>>
  /\ UNCHANGED <<rq, flags, vma, mapping, desc, heap, ref, memory, cmd, wrote, stray, unmapped>>

\* A mistake: write access for a buffer that is only to be read.
dsp_buffer_allowed_access_rw(fl) == {"R", "W"}

dsp_buffer_allowed_access(fl) == IF fl = {"R"} THEN {"R"} ELSE {"R", "W"}

\* The descriptors as the DSP finds them.
dsp_buffer == IF Inline THEN cmd.buffers ELSE mem[FrameAt(cmd.addr)][2]

invalidate(fs) == dsp' = [f \in Frames |-> IF f \in fs THEN None ELSE dsp[f]]

\* process_command up to the call of the handler: the buffers are made from
\* the descriptors, what the handler may read leaves the DSP's cache.
process_command ==
  /\ pc = "sent" /\ pc' = "dsp"
  /\ buffer' = [i \in 1..rq.n |->
       [allowed_access |-> dsp_buffer_allowed_access(dsp_buffer[i].flags),
        ptr |-> dsp_buffer[i].addr, size |-> dsp_buffer[i].size,
        count |-> 0, map_count |-> 0, map_flags |-> {}]]
  /\ invalidate((IF Inline THEN {} ELSE Behind(cmd.addr, 1))
       \cup (IF rq.in THEN Behind(cmd.in, vma[In].size) ELSE {})
       \cup UNION {Behind(dsp_buffer[i].addr, dsp_buffer[i].size) : i \in 1..rq.n})
  /\ UNCHANGED <<hostvars, mem, host, cmd, wrote, stray, unmapped, ret>>

\* No handler for the namespace; or no memory for the buffers, which is
\* reported as a command that was delivered.
process_command_fails ==
  /\ pc = "sent" /\ pc' = "complete"
  /\ \/ cmd' = [cmd EXCEPT !.fail = TRUE]
     \/ rq.n > MAX_STACK_BUFFERS /\ UNCHANGED cmd
  /\ UNCHANGED <<hostvars, memory, buffer, wrote, stray, unmapped, ret>>

handlervars == <<pc, hostvars, mem, host, cmd, unmapped, ret>>

\* What the buffer operations of the handler do to a struct xrp_buffer.
xrp_get_buffer_from_group(i) == [buffer[i] EXCEPT !.count = @ + 1]
xrp_release_buffer(buf) == [buf EXCEPT !.count = @ - 1]

\* A mistake: the access of a mapping replaces that of earlier ones.
xrp_map_buffer_last(buf, offset, size, fl) ==
  IF offset <= buf.size /\ size <= buf.size - offset /\ fl \subseteq buf.allowed_access
  THEN [buf EXCEPT !.count = @ + 1, !.map_count = @ + 1, !.map_flags = fl] ELSE buf

xrp_map_buffer(buf, offset, size, fl) ==
  IF offset <= buf.size /\ size <= buf.size - offset /\ fl \subseteq buf.allowed_access
  THEN [buf EXCEPT !.count = @ + 1, !.map_count = @ + 1, !.map_flags = @ \cup fl] ELSE buf

xrp_unmap_buffer(buf) == [buf EXCEPT !.count = @ - 1, !.map_count = @ - 1]

\* The handler writes the pages of block b that are at ptr.
Store(b, ptr, pages) ==
  /\ wrote' = wrote \cup {<<b, p>> : p \in pages}
  /\ stray' = (stray \/ \E p \in pages : Behind(ptr + p, 1) = {})
  /\ dsp' = [f \in Frames |->
       IF \E p \in pages : f \in Behind(ptr + p, 1)
       THEN Dsp(b, CHOOSE p \in pages : f \in Behind(ptr + p, 1)) ELSE dsp[f]]

\* The handler gets a buffer, maps a part of it, uses and unmaps it, and
\* releases the buffer; nothing else runs on the DSP meanwhile.
HandlerUsesBuffer(i, offset, size, fl, writes) ==
  LET got == xrp_get_buffer_from_group(i)
      mapd == xrp_map_buffer(got, offset, size, fl)
  IN /\ mapd # got
     /\ buffer' = [buffer EXCEPT ![i] = xrp_release_buffer(xrp_unmap_buffer(mapd))]
     /\ IF writes /\ "W" \in fl THEN Store(i, buffer[i].ptr, offset..(offset + size - 1))
                                ELSE UNCHANGED <<dsp, wrote, stray>>

Handler ==
  /\ pc = "dsp"
  /\ \E i \in 1..rq.n, offset \in 0..1, size \in 1..2, fl \in Flags \ {{}}, writes \in BOOLEAN :
       HandlerUsesBuffer(i, offset, size, fl, writes)
  /\ UNCHANGED handlervars

HandlerWritesOut ==
  /\ pc = "dsp" /\ rq.out
  /\ Store(Out, cmd.out, 0..(vma[Out].size - 1))
  /\ UNCHANGED <<handlervars, buffer>>

\* What was written leaves the DSP's cache; a stale line is not written back.
writeback(fs) ==
  [f \in Frames |-> IF f \in fs /\ dsp[f] \notin {None, Old} THEN dsp[f] ELSE mem[f]]

\* process_command from the handler's return on: the descriptors get the
\* access that took place, what the handler wrote leaves the DSP's cache.
process_command_returns(success) ==
  /\ pc = "dsp" /\ pc' = "complete"
  /\ LET updated == [i \in 1..rq.n |-> [dsp_buffer[i] EXCEPT !.flags = buffer[i].map_flags]]
         written == writeback(
           (IF rq.out THEN Behind(cmd.out, vma[Out].size) ELSE {})
           \cup UNION {Behind(buffer[i].ptr, buffer[i].size) : i \in {j \in 1..rq.n : "W" \in buffer[j].map_flags}})
     IN /\ cmd' = [cmd EXCEPT !.fail = ~success, !.buffers = IF Inline THEN updated ELSE <<>>]
        /\ mem' = IF Inline THEN written
                  ELSE [written EXCEPT ![FrameAt(cmd.addr)] = <<"desc", updated>>]
  /\ buffer' = <<>>
  /\ UNCHANGED <<hostvars, host, dsp, wrote, stray, unmapped, ret>>

\* The host reads the response, and the descriptors that are part of it.
xrp_complete_hw_request ==
  /\ pc = "complete"
  /\ desc' = IF Inline THEN cmd.buffers ELSE desc
  /\ IF cmd.fail THEN Fails("device") ELSE pc' = "wb" /\ ret' = "ok" /\ todo' = WbOrder
  /\ UNCHANGED <<rq, flags, vma, mapping, heap, ref, memory, dspvars, unmapped>>

----------------------------------------------------------------------------
(* xrp_unmap_request (pc = "wb") and xrp_unmap_request_nowb (pc = "nowb")  *)

\* rq->dsp_buffer[b].flags, as far as the DSP's update has reached the host.
ReturnedFlags(b) == (IF Inline THEN desc ELSE HostRead(vma[Desc].frames[1])[2])[b].flags

\* The flags a block is unshared with; those of a buffer come from the DSP.
UnshareFlags(b) ==
  IF pc = "nowb" THEN {} ELSE IF b \in Buffers THEN ReturnedFlags(b) ELSE SharedFor(b)

\* xrp_alien_mapping_destroy of pages that are not marked dirty: what the
\* device wrote there may be dropped when the page is reclaimed.
Reclaim(fs) ==
  mem' \in {mem, [f \in Frames |-> IF f \in fs /\ mem[f][1] = "dsp" THEN Old ELSE mem[f]]}

\* The shadow copy is copied back, through the host's cache.
xrp_copy_user_from_phys(b, m) ==
  host' = [f \in Frames |->
    IF \E k \in 1..m.size : vma[b].frames[k] = f
    THEN mem[m.paddr + (CHOOSE k \in 1..m.size : vma[b].frames[k] = f) - 1] ELSE host[f]]

\* Copying back may fail.  The result counts for out_data and for buffers.
xrp_writeback_alien_mapping(b, m) ==
  \/ vma[b].kind # "none" /\ xrp_copy_user_from_phys(b, m) /\ UNCHANGED ret
  \/ ret' = (IF b = Desc THEN ret ELSE "copyback") /\ UNCHANGED host

__xrp_unshare_block(b, fl) ==
  LET m == mapping[b] IN
    /\ mapping' = [mapping EXCEPT ![b] = NoMapping]
    /\ CASE m.type = "native" ->
              Put(Pages(m)) /\ UNCHANGED <<mem, host, ret>>
         [] m.type = "gup" ->
              /\ Put(Pages(m))
              /\ IF "W" \in fl THEN UNCHANGED mem ELSE Reclaim(Pages(m))
              /\ UNCHANGED <<host, ret>>
         [] m.type \in {"copy", "kcopy"} ->
              /\ Put(Pages(m))
              /\ IF "W" \in fl THEN xrp_writeback_alien_mapping(b, m) ELSE UNCHANGED <<host, ret>>
              /\ UNCHANGED mem
         [] OTHER -> UNCHANGED <<ref, mem, host, ret>>

UnshareBlock ==
  LET b == Head(todo) IN
    /\ pc \in {"wb", "nowb"} /\ todo # <<>>
    /\ b \in Buffers => "buffer_mapping" \in heap
    /\ __xrp_unshare_block(b, UnshareFlags(b))
    /\ todo' = Tail(todo)
    /\ pc' \in IF mapping[b].type = "uninit" THEN {pc, "corrupt"} ELSE {pc}
    /\ UNCHANGED <<rq, flags, vma, desc, heap, dsp, dspvars, unmapped>>

\* The arrays are freed.  out_data that was inline has been copied to the
\* caller, which may fault.
Return ==
  /\ pc \in {"wb", "nowb"} /\ todo = <<>>
  /\ pc' = "done" /\ heap' = {}
  /\ ret' \in IF pc = "wb" /\ ~rq.out THEN {ret, "copyback"} ELSE {ret}
  /\ UNCHANGED <<rq, todo, flags, vma, mapping, desc, ref, memory, dspvars, unmapped>>

----------------------------------------------------------------------------
Host ==
  \/ \E i \in Inputs : xrp_ioctl_submit_sync(i[1], i[2], i[3])
  \/ MapData \/ MapBuffer \/ MapDescriptors \/ xvp_gup_virt_to_phys \/ Oops
  \/ xrp_fill_hw_request \/ Timeout \/ xrp_complete_hw_request
  \/ UnshareBlock \/ Return

Device ==
  \/ process_command \/ process_command_fails
  \/ Handler \/ HandlerWritesOut
  \/ \E success \in BOOLEAN : process_command_returns(success)

Next == Host \/ Device \/ munmap

Spec == Init /\ [][Next]_vars

----------------------------------------------------------------------------
(* Properties                                                              *)

Shareds == {b \in Blocks : mapping[b].type \in {"native", "gup", "copy", "kcopy"}}

\* When xrp_ioctl_submit_sync returns, whichever of its steps failed, every
\* page and allocation taken by __xrp_share_block was given back exactly once
\* (ref is never negative, by TypeOK) and the arrays are freed, unless the DSP
\* went off; and until then what the DSP was given is held.
ReferencesReturned ==
  /\ pc = "done" /\ ret # "off" => heap = {} /\ \A f \in Frames : ref[f] = 0
  /\ \A b \in Shareds : \A f \in Pages(mapping[b]) : ref[f] > 0

\* struct xrp_request is not initialised, and xrp_unmap_request_nowb unshares
\* by size whatever was not set up; this happens only when xrp_map_request
\* itself has failed, never to a command that was mapped.
UninitialisedOnlyIfMapFailed == pc = "corrupt" => ret = "map"

\* Under whichever mapping a block was shared, once the call has succeeded the
\* caller finds in its memory what the handler wrote.
WritesReachCaller ==
  pc = "done" /\ ret = "ok" =>
    \A w \in wrote : w[1] \in Blocks /\ vma[w[1]].kind # "none"
      => HostRead(vma[w[1]].frames[w[2] + 1]) = Dsp(w[1], w[2])

ReadBlocks == {b \in {In} \cup Buffers : "R" \in SharedFor(b) /\ vma[b].frames # <<>>}

\* Buffers for which the driver has no word of the DSP that they were written.
UnwrittenBuffers ==
  {b \in 1..rq.n : /\ vma[b].frames # <<>>
                   /\ ret \in {"ok", "copyback"} => "W" \notin ReturnedFlags(b)}

\* Whatever becomes of the command, pages the handler did not write keep the
\* caller's data: in memory shared for reading, and in buffers that the DSP
\* does not report as written, for which a shadow copy may hold anything.
RestIsKept ==
  pc = "done" => \A b \in ReadBlocks \cup UnwrittenBuffers : \A p \in 0..(vma[b].size - 1) :
    <<b, p>> \notin wrote => HostRead(vma[b].frames[p + 1]) = User(vma[b].frames[p + 1])

\* While the handler runs, the addresses it was given show it, page by page,
\* the data of the caller: translation, shadow copies and caches included.
HandlerSeesCallersData ==
  pc = "dsp" =>
    \A b \in ReadBlocks : \A p \in 0..(vma[b].size - 1) :
      <<b, p>> \notin wrote =>
        LET addr == (IF b = In THEN cmd.in ELSE buffer[b].ptr) + p
        IN  /\ Cardinality(Behind(addr, 1)) = 1
            /\ DspRead(FrameAt(addr)) = User(vma[b].frames[p + 1])

\* The handler can write only pages of blocks shared for writing that the
\* request still has mapped.  A buffer passed with no access flag is the
\* exception: it is not shared, but may be mapped for writing.
WritesAreShared ==
  pc = "dsp" =>
    /\ stray => \E i \in 1..rq.n : flags[i] = {}
    /\ \A f \in Frames : dsp[f] \notin {None, Old} =>
         \E b \in Blocks : f \in Pages(mapping[b]) /\ "W" \in SharedFor(b)
=============================================================================
