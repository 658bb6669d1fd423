-------------------------- MODULE XrpPrivateAlloc --------------------------
(***************************************************************************)
(* The private memory pool (xrp-kernel/xrp_alloc.c), used by the kernel    *)
(* driver and by the simulator library: a first-fit allocator over a       *)
(* sorted list of free blocks.  Every operation runs under the pool's lock *)
(* and is one step.  Sizes are 32 bit wide (u32), addresses have the width *)
(* of phys_addr_t.                                                         *)
(***************************************************************************)
EXTENDS Naturals, FiniteSetsExt, SequencesExt

CONSTANTS
  PAGE_SIZE,
  Start, PoolSize,    \* arguments of xrp_init_private_pool
  Width,              \* 2^32: the values of u32
  PhysWidth,          \* the values of phys_addr_t
  Sizes, Aligns       \* arguments of xrp_private_alloc

ASSUME PoolAssumption ==
  /\ PAGE_SIZE \in Nat \ {0} /\ Start \in Nat /\ PoolSize \in Nat \ {0}
  /\ Start + PoolSize < PhysWidth /\ Width <= PhysWidth
  /\ Sizes \subseteq 1..(Width - 1)
  /\ Aligns \subseteq 1..(Width - 1)   \* powers of 2: others are -EINVAL

\* No size overflows u32 and no address phys_addr_t when rounded up
\* (a condition of the proofs; the code does not test it).
NoWrap ==
  /\ PoolSize < Width /\ Width \in Nat /\ PhysWidth \in Nat
  /\ \A size \in Sizes, align \in Aligns :
       /\ size + PAGE_SIZE <= Width /\ align + PAGE_SIZE <= Width
       /\ Start + PoolSize + size + align + 2 * PAGE_SIZE <= PhysWidth

VARIABLES
  free,    \* pool->free_list
  live,    \* the allocations handed out
  lost,    \* blocks in neither: taken from the list by a call that failed
  last     \* history: the call of xrp_private_alloc just made, and its result

vars == <<free, live, lost, last>>

Block(start, size) == [start |-> start, size |-> size]
Blocks == [start : 0..(PhysWidth - 1), size : 1..(Width - 1)]
End(b) == b.start + b.size
Nothing == [result |-> "none"]

TypeOK ==
  /\ free \in Seq(Blocks) /\ live \subseteq Blocks /\ lost \subseteq Blocks
  /\ last = Nothing \/ last \in
       [result : {"ok", "nofit", "nomem"}, size : Sizes, align : Aligns, start : 0..(PhysWidth - 1)]

\* xrp_init_private_pool
Init ==
  /\ free = <<Block(Start, PoolSize)>>
  /\ live = {} /\ lost = {} /\ last = Nothing

ALIGN(v, a, width) == (((v + a - 1) % width) \div a) * a

----------------------------------------------------------------------------
(* xrp_private_alloc                                                       *)

\* A mistake: the gap before the aligned start is forgotten.
FitsWithoutGap(b, size, align) ==
  /\ ALIGN(b.start, align, PhysWidth) >= b.start
  /\ size <= b.size

\* The condition of the loop: size bytes fit from the aligned start on.
Fits(b, size, align) ==
  LET aligned_start == ALIGN(b.start, align, PhysWidth)
  IN  /\ aligned_start >= b.start
      /\ (aligned_start - b.start + size) % PhysWidth <= b.size

\* What remains of block b when size bytes at aligned_start are taken: none,
\* its tail, its head or both.
Remainder(b, aligned_start, size) ==
  LET end == (aligned_start + size) % PhysWidth
      before == IF aligned_start = b.start THEN <<>>
                ELSE <<Block(b.start, (aligned_start - b.start) % Width)>>
      after == IF end = End(b) THEN <<>>
               ELSE <<Block(end, (End(b) - end) % Width)>>
  IN  before \o after

\* A mistake: alignment is not rounded up to a page.
AllocSizesUnaligned(size, align) == <<ALIGN(size, PAGE_SIZE, Width), 1>>

\* The size and the alignment that are really looked for.
AllocSizes(size, align) == <<ALIGN(size, PAGE_SIZE, Width), ALIGN(align, PAGE_SIZE, Width)>>

\* When the first kzalloc fails nothing has happened; the step is left out.
\* A block split in two needs a second xrp_allocation, which kzalloc may fail
\* to give after the list has been changed.
xrp_private_alloc(reqSize, reqAlign) ==
  LET size == AllocSizes(reqSize, reqAlign)[1]
      align == AllocSizes(reqSize, reqAlign)[2]
      fitting == {i \in DOMAIN free : Fits(free[i], size, align)}
      i == Min(fitting)
      start == ALIGN(free[i].start, align, PhysWidth)
      pieces == Remainder(free[i], start, size)
      Result(r, s) == [result |-> r, size |-> reqSize, align |-> reqAlign, start |-> s]
  IN  \/ /\ fitting = {}
         /\ last' = Result("nofit", 0)
         /\ UNCHANGED <<free, live, lost>>
      \/ /\ fitting # {}
         /\ free' = SubSeq(free, 1, i - 1) \o pieces \o SubSeq(free, i + 1, Len(free))
         /\ \/ /\ live' = live \cup {Block(start, size)}
               /\ last' = Result("ok", start)
               /\ UNCHANGED lost
            \/ /\ Len(pieces) = 2
               /\ lost' = lost \cup {Block(start, size)}
               /\ last' = Result("nomem", start)
               /\ UNCHANGED live

----------------------------------------------------------------------------
(* xrp_private_free                                                        *)

\* The block at which the loop stops: the first that ends where b starts or
\* that lies behind b; behind the last one if there is none.
Place(b) ==
  Min({i \in DOMAIN free : End(free[i]) = b.start \/ b.start < free[i].start}
        \cup {Len(free) + 1})

\* A mistake: a block that grows at its tail is not joined with the next.
InsertNoNextMerge(b) ==
  LET i == Place(b)
      before == SubSeq(free, 1, i - 1)
      from(k) == SubSeq(free, k, Len(free))
      cur == free[i]
  IN  IF i <= Len(free) /\ End(cur) = b.start
        THEN before \o <<Block(cur.start, cur.size + b.size)>> \o from(i + 1)
      ELSE IF i <= Len(free) /\ End(b) = cur.start
        THEN before \o <<Block(b.start, b.size + cur.size)>> \o from(i + 1)
      ELSE before \o <<b>> \o from(i)

\* The free list with b in it, merged with its neighbours.
Insert(b) ==
  LET i == Place(b)
      before == SubSeq(free, 1, i - 1)
      from(k) == SubSeq(free, k, Len(free))
      cur == free[i]
      grown == Block(cur.start, cur.size + b.size)
  IN  IF i <= Len(free) /\ End(cur) = b.start
        THEN IF i < Len(free) /\ End(grown) = free[i + 1].start
               THEN before \o <<Block(cur.start, grown.size + free[i + 1].size)>> \o from(i + 2)
               ELSE before \o <<grown>> \o from(i + 1)
      ELSE IF i <= Len(free) /\ End(b) = cur.start
        THEN before \o <<Block(b.start, b.size + cur.size)>> \o from(i + 1)
      ELSE before \o <<b>> \o from(i)

xrp_private_free(b) ==
  /\ b \in live
  /\ free' = Insert(b)
  /\ live' = live \ {b}
  /\ last' = Nothing
  /\ UNCHANGED lost

----------------------------------------------------------------------------
Bytes(b) == b.start..(End(b) - 1)
FreeBytes == UNION {Bytes(free[i]) : i \in DOMAIN free}

\* Every byte of the pool is in exactly one block, which is free, handed out
\* or lost: no two allocations overlap and none overlaps free memory
\* (xrp_private_alloc cuts blocks, xrp_private_free joins them).
Partition ==
  LET all == ToSet(free) \cup live \cup lost
  IN  /\ UNION {Bytes(b) : b \in all} = Start..(Start + PoolSize - 1)
      /\ \A b, c \in all : b # c => Bytes(b) \cap Bytes(c) = {}

\* The free list is sorted and no two of its blocks touch, whatever the order
\* of allocations and frees, so that memory that was freed can be allocated as
\* one block again ("on exit free list is fixed", xrp_alloc.c:209).
FreeListIsFixed ==
  \A i \in 1..(Len(free) - 1) : End(free[i]) < free[i + 1].start

\* An allocation is refused for lack of room only when no aligned run of free
\* bytes is long enough, and one that is granted is an aligned run of bytes
\* that were free (the loop of xrp_private_alloc against its meaning).
AllocIsFirstFit ==
  [][last' # last /\ last'.result \in {"ok", "nofit"} =>
      LET size == ALIGN(last'.size, PAGE_SIZE, Width)
          good == {s \in FreeBytes : /\ s % last'.align = 0 /\ s % PAGE_SIZE = 0
                                     /\ s..(s + size - 1) \subseteq FreeBytes}
      IN  IF last'.result = "ok" THEN good # {} /\ last'.start = Min(good)
          ELSE good = {}]_vars
===========================================================================
