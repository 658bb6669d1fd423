----------------------------- MODULE XrpMemory -----------------------------
(***************************************************************************)
(* Device memory as processes see it: the ioctls that allocate and free    *)
(* it, mmap and the operations of a mapping, and the reference counts that *)
(* decide when a block goes back to the pool (xvp_main.c, xrp_alloc.h).    *)
(* An allocation waits on the busy list of its file between the ioctl that *)
(* makes it and the mmap that maps it.  Threads, processes that inherit a  *)
(* mapping and requests that are in flight hold it independently.          *)
(***************************************************************************)
EXTENDS XrpPrivateAlloc

CONSTANTS
  Threads, Files,
  Addrs,              \* the addresses at which a mapping may be, of any process
  Requests            \* requests that may hold device memory

\* What vm_mmap returns when it fails.
Nowhere == 0
ASSUME AddrsAssumption ==
  /\ Nowhere \notin Addrs
  /\ IsFiniteSet(Addrs) /\ IsFiniteSet(Files) /\ IsFiniteSet(Requests)

VARIABLES
  open,      \* the files that are open
  refs,      \* xrp_allocation.ref of every live allocation
  busy,      \* xvp_file->busy_list
  vma,       \* what is mapped at an address: a file and an allocation
  call,      \* the ioctl each thread is in
  held,      \* the allocation a request holds (xrp_mapping.xrp_allocation)
  failed,    \* history: live allocations for which vm_mmap failed
  leaked     \* history: live allocations with a reference nobody can drop

memory == <<open, refs, busy, vma, call, held, failed, leaked>>
allvars == <<vars, memory>>

None == [at |-> "none"]
Idle == [at |-> "idle"]
Mapped(f, b) == [at |-> "mapped", file |-> f, block |-> b]
Vmas == {None} \cup {Mapped(f, b) : f \in Files, b \in live}
Calls == {Idle}
  \cup {[at |-> "mmap", file |-> f, block |-> b] : f \in Files, b \in live}
  \cup [at : {"copy", "unmap"}, file : Files, addr : Addrs \cup {Nowhere}]

MemoryTypeOK ==
  /\ TypeOK
  /\ open \subseteq Files
  /\ refs \in [live -> Nat \ {0}]
  /\ busy \in [Files -> Seq(live)]
  /\ vma \in [Addrs -> Vmas]
  /\ call \in [Threads -> Calls]
  /\ held \in [Requests -> {None} \cup live]
  /\ failed \subseteq live /\ leaked \subseteq live

MemoryInit ==
  /\ Init
  /\ open = {} /\ refs = <<>> /\ busy = [f \in Files |-> <<>>]
  /\ vma = [a \in Addrs |-> None] /\ call = [t \in Threads |-> Idle]
  /\ held = [r \in Requests |-> None]
  /\ failed = {} /\ leaked = {}

----------------------------------------------------------------------------
(* Reference counts                                                        *)

xrp_allocation_get(b) ==
  /\ refs' = [refs EXCEPT ![b] = @ + 1]
  /\ UNCHANGED <<vars, failed, leaked>>

\* A mistake: the count is compared before it is decremented.
xrp_allocation_put_early(b) ==
  IF refs[b] = 0
    THEN xrp_private_free(b) /\ UNCHANGED <<refs, failed, leaked>>
    ELSE /\ refs' = [refs EXCEPT ![b] = @ - 1]
         /\ UNCHANGED <<vars, failed, leaked>>

\* The last reference gives the block back to its pool.
xrp_allocation_put(b) ==
  IF refs[b] = 1
    THEN /\ xrp_private_free(b)
         /\ refs' = [c \in live \ {b} |-> refs[c]]
         /\ failed' = failed \ {b} /\ leaked' = leaked \ {b}
    ELSE /\ refs' = [refs EXCEPT ![b] = @ - 1]
         /\ UNCHANGED <<vars, failed, leaked>>

----------------------------------------------------------------------------
(* The busy list                                                           *)

xrp_allocation_queue(f, b) == busy' = [busy EXCEPT ![f] = <<b>> \o @]

\* A mistake: the head of the list is taken.
xrp_allocation_dequeue_head(f, paddr, size) ==
  {i \in DOMAIN busy[f] : i = 1}

\* The entries of the list that contain size bytes from paddr on, of which
\* the loop takes the first.
xrp_allocation_dequeue(f, paddr, size) ==
  {i \in DOMAIN busy[f] : /\ paddr >= busy[f][i].start
                          /\ paddr + size - busy[f][i].start <= busy[f][i].size}

\* xvp_mmap for size bytes from paddr on, at address a.  When remap_pfn_range
\* fails the kernel drops the mapping without a call of xvp_vm_close, and the
\* allocation has left the busy list.  result is the address the caller gets.
xvp_mmap(f, paddr, size, a, result) ==
  LET found == xrp_allocation_dequeue(f, paddr, size)
      i == Min(found)
      b == busy[f][i]
  IN  \/ /\ found = {}
         /\ result = Nowhere
         /\ UNCHANGED <<busy, vma, failed, leaked>>
      \/ /\ found # {}
         /\ busy' = [busy EXCEPT ![f] = SubSeq(@, 1, i - 1) \o SubSeq(@, i + 1, Len(@))]
         /\ \/ /\ result = a
               /\ vma' = [vma EXCEPT ![a] = Mapped(f, b)]
               /\ UNCHANGED <<failed, leaked>>
            \/ /\ result = Nowhere
               /\ failed' = failed \cup {b} /\ leaked' = leaked \cup {b}
               /\ UNCHANGED vma

----------------------------------------------------------------------------
(* Mappings.  A munmap of a part of a mapping splits it: xvp_vm_open for   *)
(* one piece and xvp_vm_close for the other, which changes nothing here.   *)

\* A mistake: the child of a fork takes no reference.
xvp_vm_open_uncounted(a, copy) ==
  /\ vma' = [vma EXCEPT ![copy] = vma[a]]
  /\ UNCHANGED <<vars, refs, failed, leaked>>

\* fork copies a mapping.
xvp_vm_open(a, copy) ==
  /\ vma' = [vma EXCEPT ![copy] = vma[a]]
  /\ xrp_allocation_get(vma[a].block)

xvp_vm_close(a) ==
  /\ vma' = [vma EXCEPT ![a] = None]
  /\ xrp_allocation_put(vma[a].block)

fork(a, copy) ==
  /\ vma[a] # None /\ vma[copy] = None
  /\ xvp_vm_open(a, copy)
  /\ UNCHANGED <<open, busy, call, held>>

munmap(a) ==
  /\ vma[a] # None
  /\ xvp_vm_close(a)
  /\ UNCHANGED <<open, busy, call, held>>

\* An application maps a block itself, after an ioctl has failed to.
mmap(f, a) ==
  /\ f \in open /\ vma[a] = None
  /\ \E b \in ToSet(busy[f]) \ {call[t].block : t \in {u \in Threads : call[u].at = "mmap"}} :
       \E result \in {a, Nowhere} : xvp_mmap(f, b.start, b.size, a, result)
  /\ UNCHANGED <<vars, open, refs, call, held>>

\* vm_munmap of an address: what is mapped there now, if anything.
vm_munmap(t, a) ==
  /\ call' = [call EXCEPT ![t] = Idle]
  /\ IF a = Nowhere \/ vma[a] = None THEN UNCHANGED <<vars, refs, vma, failed, leaked>>
     ELSE xvp_vm_close(a)
  /\ UNCHANGED <<open, busy, held>>

----------------------------------------------------------------------------
(* xrp_ioctl_alloc: allocate and queue; map; copy the address out          *)

xrp_ioctl_alloc(t, f, size, align) ==
  /\ call[t] = Idle /\ f \in open
  /\ xrp_private_alloc(size, align)
  /\ IF last'.result = "ok"
       THEN LET b == Block(last'.start, AllocSizes(size, align)[1])
            IN  /\ refs' = [c \in live' |-> IF c = b THEN 1 ELSE refs[c]]
                /\ xrp_allocation_queue(f, b)
                /\ call' = [call EXCEPT ![t] = [at |-> "mmap", file |-> f, block |-> b]]
       ELSE UNCHANGED <<refs, busy, call>>
  /\ UNCHANGED <<open, vma, held, failed, leaked>>

\* The address is not looked at: an error is copied out like any other.
xrp_ioctl_alloc_mmap(t) ==
  LET c == call[t]
      To(a) == call' = [call EXCEPT ![t] = [at |-> "copy", file |-> c.file, addr |-> a]]
  IN  /\ c.at = "mmap"
      /\ \/ \E a \in Addrs, result \in Addrs \cup {Nowhere} :
              /\ vma[a] = None /\ xvp_mmap(c.file, c.block.start, c.block.size, a, result)
              /\ To(result)
         \/ /\ To(Nowhere)                    \* no room for a mapping
            /\ failed' = failed \cup {c.block}
            /\ UNCHANGED <<busy, vma, leaked>>
      /\ UNCHANGED <<vars, open, refs, held>>

xrp_ioctl_alloc_copy(t) ==
  \/ /\ call[t].at = "copy"
     /\ call' = [call EXCEPT ![t] = Idle]
     /\ UNCHANGED <<vars, open, refs, busy, vma, held, failed, leaked>>
  \/ /\ call[t].at = "copy"                    \* copy_to_user fails
     /\ vm_munmap(t, call[t].addr)

(* xrp_ioctl_free: the mapping is looked up, then unmapped without the lock *)
xrp_ioctl_free(t, f, a) ==
  /\ call[t] = Idle /\ f \in open
  /\ vma[a] # None /\ vma[a].file = f
  /\ call' = [call EXCEPT ![t] = [at |-> "unmap", file |-> f, addr |-> a]]
  /\ UNCHANGED <<vars, open, refs, busy, vma, held, failed, leaked>>

xrp_ioctl_free_unmap(t) ==
  /\ call[t].at = "unmap"
  /\ vm_munmap(t, call[t].addr)

----------------------------------------------------------------------------
(* Requests (__xrp_share_block, __xrp_unshare_block)                       *)

Share(r, a) ==
  /\ held[r] = None /\ vma[a] # None
  /\ held' = [held EXCEPT ![r] = vma[a].block]
  /\ xrp_allocation_get(vma[a].block)
  /\ UNCHANGED <<open, busy, vma, call>>

Unshare(r) ==
  /\ held[r] # None
  /\ held' = [held EXCEPT ![r] = None]
  /\ xrp_allocation_put(held[r])
  /\ UNCHANGED <<open, busy, vma, call>>

----------------------------------------------------------------------------
(* Files                                                                   *)

InUse(f) ==
  \/ \E a \in Addrs : vma[a] # None /\ vma[a].file = f
  \/ \E t \in Threads : call[t] # Idle /\ call[t].file = f

xvp_open(f) ==
  /\ f \notin open
  /\ open' = open \cup {f}
  /\ UNCHANGED <<vars, refs, busy, vma, call, held, failed, leaked>>

\* release runs when neither a mapping nor a call uses the file; the xvp_file
\* goes, and with it the only way to what is on the busy list.
xvp_close(f) ==
  /\ f \in open /\ ~InUse(f)
  /\ open' = open \ {f}
  /\ leaked' = leaked \cup ToSet(busy[f])
  /\ busy' = [busy EXCEPT ![f] = <<>>]
  /\ UNCHANGED <<vars, refs, vma, call, held, failed>>

----------------------------------------------------------------------------
Ioctl ==
  \E t \in Threads :
    \/ \E f \in Files, size \in Sizes, align \in Aligns : xrp_ioctl_alloc(t, f, size, align)
    \/ xrp_ioctl_alloc_mmap(t)
    \/ xrp_ioctl_alloc_copy(t)
    \/ \E f \in Files, a \in Addrs : xrp_ioctl_free(t, f, a)
    \/ xrp_ioctl_free_unmap(t)

MemoryNext ==
  \/ Ioctl
  \/ \E a \in Addrs : munmap(a) \/ \E copy \in Addrs : fork(a, copy)
  \/ \E f \in Files, a \in Addrs : mmap(f, a)
  \/ \E r \in Requests : Unshare(r) \/ \E a \in Addrs : Share(r, a)
  \/ \E f \in Files : xvp_open(f) \/ xvp_close(f)

MemorySpec == MemoryInit /\ [][MemoryNext]_allvars

----------------------------------------------------------------------------
Holders(b) ==
  Cardinality({a \in Addrs : vma[a] # None /\ vma[a].block = b})
  + Cardinality({r \in Requests : held[r] = b})
  + Cardinality({f \in Files : b \in ToSet(busy[f])})
  + (IF b \in leaked THEN 1 ELSE 0)

\* The reference count of a block is the number of its holders (mappings, the
\* requests in flight, the busy list), so that munmap, fork, a failed ioctl
\* and the end of a request, in any order, free a block when its last holder
\* goes and never earlier; a holder nobody can reach any more is left behind
\* only by an mmap that failed.
HoldersCounted ==
  /\ MemoryTypeOK
  /\ \A b \in live : refs[b] = Holders(b)
  /\ \A a \in Addrs : vma[a] # None => vma[a].block \in live
  /\ leaked \subseteq failed

\* When every file is closed and no request is in flight, all the memory is
\* back, in one block as after xrp_init_private_pool, unless an mmap or the
\* kzalloc of xrp_private_alloc failed.
PoolIsWhole ==
  open = {} /\ (\A r \in Requests : held[r] = None) /\ (\A a \in Addrs : vma[a] = None) =>
    /\ live \subseteq failed
    /\ live \cup lost = {} => free = <<Block(Start, PoolSize)>>

\* The vm_mmap of an ioctl maps the allocation this ioctl made or fails: it
\* never takes that of another thread from the busy list of a shared file.
MapsItsOwn ==
  [][\A t \in Threads : call[t].at = "mmap" /\ call'[t].at = "copy" /\ call'[t].addr # Nowhere =>
       vma'[call'[t].addr].block = call[t].block]_allvars
===========================================================================
