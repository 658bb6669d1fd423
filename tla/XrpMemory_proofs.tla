-------------------------- MODULE XrpMemory_proofs --------------------------
(***************************************************************************)
(* Every step of the users of device memory preserves its invariant, and   *)
(* what follows: reference counts are numbers of holders, the pool stays a *)
(* partition with a joined free list and comes back whole, and an ioctl    *)
(* maps the block it has allocated.                                        *)
(***************************************************************************)
EXTENDS XrpMemoryHolders_proofs

\* A sequence with a new element in front.
LEMMA Prepended ==
  ASSUME NEW S, NEW s \in Seq(S), Distinct(s), NEW b, b \notin S
  PROVE  /\ <<b>> \o s \in Seq(S \cup {b}) /\ Distinct(<<b>> \o s)
         /\ ToSet(<<b>> \o s) = ToSet(s) \cup {b}
<1> DEFINE t == <<b>> \o s
<1>1. PICK n \in Nat : n = Len(s)
  OBVIOUS
<1>2. /\ t \in Seq(S \cup {b}) /\ Len(t) = n + 1 /\ t[1] = b
      /\ \A i \in 2..(n + 1) : t[i] = s[i - 1]
  BY <1>1
<1>3. \A i \in 1..n : s[i] \in S
  BY <1>1
<1>4. \A i \in 1..n : i + 1 \in 1..(n + 1) /\ t[i + 1] = s[i]
  BY <1>1
<1> HIDE DEF t
<1>5. Distinct(t)
  <2>1. ASSUME NEW i \in 1..(n + 1), NEW j \in 1..(n + 1), t[i] = t[j] PROVE i = j
    <3>1. \A k \in 1..(n + 1) : k = 1 \/ (k \in 2..(n + 1) /\ k - 1 \in 1..n)
      OBVIOUS
    <3>2. \A k \in 2..(n + 1) : k - 1 \in 1..n /\ t[k] \in S
      <4>1. \A k \in 2..(n + 1) : k - 1 \in 1..n
        OBVIOUS
      <4>2. QED
        BY <1>2, <1>3, <4>1, Zenon
    <3>3. CASE i = 1 \/ j = 1
      BY <1>2, <2>1, <3>1, <3>2, <3>3, Zenon
    <3>4. CASE i \in 2..(n + 1) /\ j \in 2..(n + 1)
      <4>1. s[i - 1] = s[j - 1] /\ i - 1 \in 1..Len(s) /\ j - 1 \in 1..Len(s)
        BY <1>1, <1>2, <2>1, <3>2, <3>4, Zenon
      <4>2. i - 1 = j - 1
        BY <4>1, Zenon DEF Distinct
      <4>3. QED
        BY <4>2
    <3>5. QED
      BY <3>1, <3>3, <3>4, Zenon
  <2>2. QED
    BY <1>2, <2>1, Zenon DEF Distinct
<1>6. ToSet(t) = ToSet(s) \cup {b}
  <2>1. ToSet(t) = {t[i] : i \in 1..(n + 1)} /\ ToSet(s) = {s[i] : i \in 1..n}
    <3>1. ToSet(t) = {t[i] : i \in 1..Len(t)} /\ ToSet(s) = {s[i] : i \in 1..Len(s)}
      <4>1. t \in Seq(S \cup {b})
        BY <1>2
      <4>2. DOMAIN t = 1..Len(t) /\ DOMAIN s = 1..Len(s)
        BY <4>1
      <4>3. QED
        BY <4>2, Zenon DEF ToSet
    <3>2. QED
      BY <1>1, <1>2, <3>1, Zenon
  <2>2. \A i \in 1..(n + 1) : t[i] = b \/ \E j \in 1..n : t[i] = s[j]
    <3>1. \A k \in 1..(n + 1) : k = 1 \/ (k \in 2..(n + 1) /\ k - 1 \in 1..n)
      OBVIOUS
    <3>2. QED
      BY <1>2, <3>1, Zenon
  <2>3. \A j \in 1..n : \E i \in 1..(n + 1) : t[i] = s[j]
    BY <1>4, Zenon
  <2>4. 1 \in 1..(n + 1)
    OBVIOUS
  <2>5. QED
    <3>1. ToSet(t) \subseteq ToSet(s) \cup {b}
      BY <2>1, <2>2, Zenon
    <3>2. ToSet(s) \cup {b} \subseteq ToSet(t)
      BY <1>2, <2>1, <2>3, <2>4, Zenon
    <3>3. QED
      BY <3>1, <3>2, Zenon
<1>7. QED
  BY <1>2, <1>5, <1>6 DEF t

\* A new block is put on the list of file f by thread t.
Queues(t, f, b) ==
  /\ live' = live \cup {b} /\ b \notin live /\ InPool(b) /\ f \in open /\ call[t] = Idle
  /\ refs' = [c \in live' |-> IF c = b THEN 1 ELSE refs[c]]
  /\ busy' = [busy EXCEPT ![f] = <<b>> \o @]
  /\ call' = [call EXCEPT ![t] = [at |-> "mmap", file |-> f, block |-> b]]

\* The busy lists with the new block.
LEMMA QueueBusy ==
  ASSUME MemInv, NEW t \in Threads, NEW f \in Files, NEW b, Queues(t, f, b),
         UNCHANGED <<open, vma, held, failed, leaked>>
  PROVE  /\ BusyInv' /\ busy' \in [Files -> Seq(live')]
         /\ Queueing(b)' = {f} /\ \A c \in live : Queueing(c)' = Queueing(c)
<1>1. /\ KindInv /\ BusyInv /\ busy \in [Files -> Seq(live)] /\ call \in [Threads -> Calls]
      /\ failed \subseteq live /\ leaked \subseteq failed /\ \A g \in Files : Distinct(busy[g])
  BY DEF MemInv, KindInv, BusyInv, Distinct
<1>2. \A g \in Files : ToSet(busy[g]) \subseteq live
  BY <1>1, ToSetOf
<1>3. busy'[f] = <<b>> \o busy[f] /\ \A g \in Files : g # f => busy'[g] = busy[g]
  BY <1>1 DEF Queues
<1>4. /\ busy'[f] \in Seq(live') /\ Distinct(busy'[f])
      /\ ToSet(busy'[f]) = ToSet(busy[f]) \cup {b}
  <2>1. busy[f] \in Seq(live) /\ b \notin live /\ live' = live \cup {b}
    BY <1>1 DEF Queues
  <2>2. QED
    <3>1. Distinct(busy[f])
      BY <1>1, Zenon
    <3>2. /\ <<b>> \o busy[f] \in Seq(live \cup {b}) /\ Distinct(<<b>> \o busy[f])
          /\ ToSet(<<b>> \o busy[f]) = ToSet(busy[f]) \cup {b}
      BY <2>1, <3>1, Prepended, Zenon
    <3>3. QED
      BY <1>3, <2>1, <3>2, Zenon
<1>5. busy' \in [Files -> Seq(live')]
  <2>1. \A g \in Files : g # f => busy'[g] \in Seq(live')
    <3>1. \A g \in Files : busy[g] \in Seq(live \cup {b})
      BY <1>1
    <3>2. QED
      BY <1>3, <3>1, Zenon DEF Queues
  <2>2. busy' = [g \in Files |-> busy'[g]]
    BY <1>1 DEF Queues
  <2>3. QED
    BY <1>4, <2>1, <2>2
<1>6. /\ \A g \in Files : Distinct(busy'[g])
      /\ \A g \in Files : \A c \in live : c \in ToSet(busy'[g]) <=> c \in ToSet(busy[g])
      /\ \A g \in Files : \A c \in ToSet(busy'[g]) : c \in live \/ (c = b /\ g = f)
      /\ b \notin live /\ f \in open /\ b \notin failed /\ b \notin leaked
      /\ b \in ToSet(busy'[f])
  BY <1>1, <1>2, <1>3, <1>4, Zenon DEF Queues
<1>7. /\ call'[t] = [at |-> "mmap", file |-> f, block |-> b] /\ call[t].at # "mmap"
      /\ \A u \in Threads : u # t => call'[u] = call[u]
  BY <1>1 DEF Queues, Idle
<1>8. call'[t].at = "mmap" /\ call'[t].file = f /\ call'[t].block = b
  BY <1>7
<1>9. \A u \in Threads : \A c : MapsSoon(u, c) => c \in live /\ c # b /\ u # t
  BY <1>1, <1>6, <1>7, CallKinds, Zenon DEF MapsSoon
<1>10. \A u \in Threads : \A c : MapsSoon(u, c)' <=> MapsSoon(u, c) \/ (u = t /\ c = b)
  BY <1>7, <1>8, Zenon DEF MapsSoon
<1>11. \A g, h \in Files : \A c : c \in ToSet(busy'[g]) /\ c \in ToSet(busy'[h]) => g = h
  BY <1>1, <1>6, Zenon DEF BusyInv
<1>12. ASSUME NEW g \in Files, NEW c \in ToSet(busy'[g])
       PROVE  /\ g \in open' /\ c \notin leaked'
              /\ c \in failed' \/ \E u \in Threads : MapsSoon(u, c)'
  <2>1. CASE c = b /\ g = f
    BY <1>6, <1>10, <2>1, Zenon
  <2>2. CASE c \in live
    <3>1. c \in ToSet(busy[g])
      BY <1>6, <2>2, Zenon
    <3>2. g \in open /\ c \notin leaked /\ (c \in failed \/ \E u \in Threads : MapsSoon(u, c))
      BY <1>1, <3>1, Zenon DEF BusyInv
    <3>3. c \in failed \/ \E u \in Threads : MapsSoon(u, c)'
      BY <1>10, <3>2, Zenon
    <3>4. QED
      BY <3>2, <3>3, Zenon
  <2>3. QED
    BY <1>6, <2>1, <2>2, Zenon
<1>13. ASSUME NEW u \in Threads, call'[u].at = "mmap"
       PROVE  call'[u].block \in ToSet(busy'[call'[u].file])
  <2>1. CASE u = t
    BY <1>6, <1>8, <2>1, Zenon
  <2>2. CASE u # t
    <3>1. call'[u] = call[u] /\ call[u].at = "mmap"
      BY <1>7, <1>13, <2>2, Zenon
    <3>2. call[u].file \in Files /\ call[u].block \in live /\ call[u].block \in ToSet(busy[call[u].file])
      BY <1>1, <3>1, CallKinds, Zenon DEF BusyInv
    <3>3. QED
      BY <1>6, <3>1, <3>2, Zenon
  <2>3. QED
    BY <2>1, <2>2
<1>14. \A u, v \in Threads : \A c : MapsSoon(u, c)' /\ MapsSoon(v, c)' => u = v
  <2>1. \A u, v \in Threads : \A c : MapsSoon(u, c) /\ MapsSoon(v, c) => u = v
    BY <1>1, Zenon DEF BusyInv
  <2>2. QED
    BY <1>9, <1>10, <2>1, Zenon
<1>15. \A g \in Files : \A i, j \in 1..Len(busy'[g]) : busy'[g][i] = busy'[g][j] => i = j
  BY <1>6, Zenon DEF Distinct
<1>16. BusyInv'
  BY <1>11, <1>12, <1>13, <1>14, <1>15, Zenon DEF BusyInv, ToSet
<1>17. \A c : Queueing(c)' = {g \in Files : c \in ToSet(busy'[g])}
  BY DEF Queueing, ToSet
<1>18. {g \in Files : b \in ToSet(busy'[g])} = {f}
  BY <1>6, Zenon
<1>19. \A c \in live : {g \in Files : c \in ToSet(busy'[g])} = Queueing(c)
  BY <1>6, Zenon DEF Queueing
<1>20. QED
  BY <1>5, <1>16, <1>17, <1>18, <1>19, Zenon

\* Nobody but the busy list holds the new block.
LEMMA QueuePreserves ==
  ASSUME PoolInv, MemInv, NEW t \in Threads, NEW f \in Files, NEW b, Queues(t, f, b),
         UNCHANGED <<open, vma, held, failed, leaked>>
  PROVE  MemInv'
<1>1. /\ KindInv /\ CountInv /\ vma \in [Addrs -> Vmas] /\ call \in [Threads -> Calls]
      /\ failed \subseteq live /\ leaked \subseteq failed /\ open \subseteq Files
      /\ held \in [Requests -> {None} \cup live] /\ refs \in [live -> Nat \ {0}]
  BY DEF MemInv, KindInv
<1>2. /\ BusyInv' /\ busy' \in [Files -> Seq(live')]
      /\ Queueing(b)' = {f} /\ \A c \in live : Queueing(c)' = Queueing(c)
  BY QueueBusy, Zenon
<1>3. /\ live' = live \cup {b} /\ b \notin live
      /\ refs' \in [live' -> Nat \ {0}] /\ refs'[b] = 1 /\ \A c \in live : refs'[c] = refs[c]
  BY <1>1 DEF Queues
<1>4. vma' \in [Addrs -> Vmas']
  <2>1. Vmas \subseteq Vmas'
    BY <1>3 DEF Vmas
  <2>2. QED
    BY <1>1, <2>1
<1>5. call' \in [Threads -> Calls']
  <2>1. Calls \subseteq Calls'
    BY <1>3 DEF Calls
  <2>2. [at |-> "mmap", file |-> f, block |-> b] \in Calls'
    BY <1>3 DEF Calls
  <2>3. QED
    BY <1>1, <2>1, <2>2 DEF Queues
<1>6. /\ held' \in [Requests -> {None} \cup live'] /\ failed' \subseteq live' /\ leaked' \subseteq failed'
      /\ open' \subseteq Files
  BY <1>1, <1>3
<1>7. KindInv'
  BY <1>2, <1>3, <1>4, <1>5, <1>6, Zenon DEF KindInv
<1>8. \A c : Mapping(c)' = Mapping(c) /\ Sharing(c)' = Sharing(c) /\ Leaking(c)' = Leaking(c)
  BY DEF Mapping, Sharing, Leaking
<1>9. ASSUME NEW c \in live PROVE refs'[c] = Count(c)'
  <2>1. Count(c)' = Count(c)
    BY <1>2, <1>8 DEF Count
  <2>2. QED
    BY <1>1, <1>3, <2>1, Zenon DEF CountInv
<1>10. Count(b)' = 1
  <2>1. Mapping(b) = {}
    BY <1>1, <1>3, VmaKinds, Zenon DEF Mapping
  <2>2. b # None
    <3>1. b \in [start : Nat, size : Nat]
      BY DEF Queues, InPool
    <3>2. QED
      BY <3>1 DEF None
  <2>3. Sharing(b) = {}
    BY <1>1, <1>3, <2>2 DEF Sharing
  <2>4. Leaking(b) = 0
    BY <1>1, <1>3 DEF Leaking
  <2>5. Cardinality({}) = 0 /\ Cardinality({f}) = 1
    BY FS_EmptySet, FS_Singleton, Zenon
  <2>6. Count(b)' = 0 + 0 + 1 + 0
    BY <1>2, <1>8, <2>1, <2>3, <2>4, <2>5 DEF Count
  <2>7. QED
    BY <2>6
<1>11. CountInv'
  BY <1>3, <1>9, <1>10, Zenon DEF CountInv
<1>12. QED
  BY <1>2, <1>7, <1>11 DEF MemInv

----------------------------------------------------------------------------
(* Every step preserves the invariant.                                     *)

\* An allocation queues a new block, or changes nothing.
LEMMA AllocStep ==
  ASSUME NoWrap, PoolInv, MemInv, NEW t \in Threads, NEW f \in Files, NEW size \in Sizes,
         NEW align \in Aligns, xrp_ioctl_alloc(t, f, size, align)
  PROVE  MemInv'
<1> DEFINE bytes == ALIGN(size, PAGE_SIZE, Width)
<1>1. /\ xrp_private_alloc(size, align) /\ call[t] = Idle /\ f \in open
      /\ UNCHANGED <<open, vma, held, failed, leaked>>
  BY Zenon DEF xrp_ioctl_alloc
<1>2. AllocSizes(size, align)[1] = bytes
  BY DEF AllocSizes
<1>3. ASSUME live' = live, last'.result # "ok" PROVE MemInv'
  <2>1. UNCHANGED <<refs, busy, call>>
    BY <1>3, Zenon DEF xrp_ioctl_alloc
  <2>2. SameMaps /\ call' \in [Threads -> Calls]
    BY <2>1, Zenon DEF SameMaps, MemInv, KindInv
  <2>3. QED
    BY <1>1, <1>3, <2>1, <2>2, CallOnly, Zenon
<1>4. ASSUME NEW s, last' = Answer("ok", size, align, s), live' = live \cup {Block(s, bytes)},
             Block(s, bytes) \notin live, InPool(Block(s, bytes))
      PROVE  MemInv'
  <2>1. last'.result = "ok" /\ last'.start = s
    BY <1>4 DEF Answer
  <2> DEFINE b == Block(s, bytes)
  <2>2. b = Block(last'.start, AllocSizes(size, align)[1])
    BY <1>2, <2>1, Zenon
  <2>3. /\ refs' = [c \in live' |-> IF c = Block(last'.start, AllocSizes(size, align)[1]) THEN 1 ELSE refs[c]]
        /\ busy' = [busy EXCEPT ![f] = <<Block(last'.start, AllocSizes(size, align)[1])>> \o @]
        /\ call' = [call EXCEPT ![t] = [at |-> "mmap", file |-> f,
                                        block |-> Block(last'.start, AllocSizes(size, align)[1])]]
    BY <2>1 DEF xrp_ioctl_alloc, xrp_allocation_queue
  <2> HIDE DEF b
  <2>4. /\ refs' = [c \in live' |-> IF c = b THEN 1 ELSE refs[c]]
        /\ busy' = [busy EXCEPT ![f] = <<b>> \o @]
        /\ call' = [call EXCEPT ![t] = [at |-> "mmap", file |-> f, block |-> b]]
    BY <2>2, <2>3
  <2>5. live' = live \cup {b} /\ b \notin live /\ InPool(b)
    BY <1>4 DEF b
  <2>6. Queues(t, f, b)
    BY <1>1, <2>4, <2>5 DEF Queues
  <2>7. QED
    BY <1>1, <2>6, QueuePreserves, Zenon
<1>5. Answer("nofit", size, align, 0).result # "ok" /\ \A s : Answer("nomem", size, align, s).result # "ok"
  BY DEF Answer
<1>6. \/ last' = Answer("nofit", size, align, 0) /\ live' = live
      \/ \E s \in 0..(PhysWidth - 1) : last' = Answer("nomem", size, align, s) /\ live' = live
      \/ \E s \in 0..(PhysWidth - 1) :
           /\ last' = Answer("ok", size, align, s) /\ live' = live \cup {Block(s, bytes)}
           /\ Block(s, bytes) \notin live /\ InPool(Block(s, bytes))
  BY <1>1, AllocResult, Zenon
<1> HIDE DEF bytes
<1>7. QED
  BY <1>3, <1>4, <1>5, <1>6, Zenon

\* An ioctl maps its block, or fails.
LEMMA MmapStep ==
  ASSUME PoolInv, MemInv, NEW t \in Threads, xrp_ioctl_alloc_mmap(t)
  PROVE  MemInv'
<1> DEFINE c == call[t]
           To(a) == call' = [call EXCEPT ![t] = [at |-> "copy", file |-> c.file, addr |-> a]]
<1>1. /\ c.at = "mmap" /\ UNCHANGED <<vars, open, refs, held>>
      /\ \/ \E a \in Addrs, result \in Addrs \cup {Nowhere} :
              /\ vma[a] = None /\ xvp_mmap(c.file, c.block.start, c.block.size, a, result)
              /\ To(result)
         \/ To(Nowhere) /\ failed' = failed \cup {c.block} /\ UNCHANGED <<busy, vma, leaked>>
  BY Zenon DEF xrp_ioctl_alloc_mmap
<1>2. c.file \in Files /\ c.block \in live /\ c.block \in ToSet(busy[c.file]) /\ call \in [Threads -> Calls]
  BY <1>1, CallKinds, Zenon DEF MemInv, BusyInv, KindInv
<1>3. ASSUME NEW a \in Addrs, NEW result \in Addrs \cup {Nowhere}, vma[a] = None,
             xvp_mmap(c.file, c.block.start, c.block.size, a, result), To(result)
      PROVE  MemInv'
  <2>1. /\ TakesOff(c.file, c.block)
        /\ \/ /\ result = a /\ vma' = [vma EXCEPT ![a] = Mapped(c.file, c.block)]
              /\ failed' = failed /\ leaked' = leaked
           \/ /\ result = Nowhere /\ vma' = vma
              /\ failed' = failed \cup {c.block} /\ leaked' = leaked \cup {c.block}
    BY <1>2, <1>3, MmapTakesOff, Zenon
  <2>2. [at |-> "copy", file |-> c.file, addr |-> result] \in Calls
    BY <1>2 DEF Calls
  <2>3. /\ call' \in [Threads -> Calls] /\ call'[t].at = "copy"
        /\ \A u \in Threads : u # t => call'[u] = call[u]
    BY <1>2, <1>3, <2>2
  <2>4. LeavesMaps(c.block)
    <3>1. MapsSoon(t, c.block)
      BY <1>1 DEF MapsSoon
    <3>2. \A u \in Threads : MapsSoon(u, c.block) => u = t
      BY <3>1, Zenon DEF MemInv, BusyInv
    <3>3. QED
      BY <2>3, <3>1, <3>2, Zenon DEF LeavesMaps
  <2>5. \/ Maps(a, c.file, c.block) /\ failed' = failed /\ leaked' = leaked
        \/ vma' = vma /\ failed' = failed \cup {c.block} /\ leaked' = leaked \cup {c.block}
    BY <1>3, <2>1, Zenon DEF Maps
  <2> HIDE DEF c
  <2>6. QED
    BY <1>1, <1>2, <2>1, <2>3, <2>4, <2>5, TakeOffPreserves, Zenon
<1>4. ASSUME To(Nowhere), failed' = failed \cup {c.block}, UNCHANGED <<busy, vma, leaked>>
      PROVE  MemInv'
  <2>1. live' = live /\ UNCHANGED <<open, refs, busy, vma, held, leaked>>
    BY <1>1, <1>4 DEF vars
  <2>2. QED
    BY <1>1, <1>4, <2>1, NoRoomPreserves, Zenon
<1>5. QED
  BY <1>1, <1>3, <1>4, Zenon

\* An application maps a block that no ioctl is about to map.
LEMMA AppMmapStep ==
  ASSUME PoolInv, MemInv, NEW f \in Files, NEW a \in Addrs, mmap(f, a)
  PROVE  MemInv'
<1>1. /\ vma[a] = None /\ UNCHANGED <<vars, open, refs, call, held>>
  BY DEF mmap
<1>2. PICK b \in ToSet(busy[f]) :
        /\ b \notin {call[t].block : t \in {u \in Threads : call[u].at = "mmap"}}
        /\ \E result \in {a, Nowhere} : xvp_mmap(f, b.start, b.size, a, result)
  BY Zenon DEF mmap
<1>3. \A t \in Threads : ~MapsSoon(t, b)
  BY <1>2, Zenon DEF MapsSoon
<1>4. LeavesMaps(b) /\ call' \in [Threads -> Calls]
  BY <1>1, <1>3, Zenon DEF LeavesMaps, MemInv, KindInv
<1>5. /\ TakesOff(f, b)
      /\ \/ vma' = [vma EXCEPT ![a] = Mapped(f, b)] /\ failed' = failed /\ leaked' = leaked
         \/ vma' = vma /\ failed' = failed \cup {b} /\ leaked' = leaked \cup {b}
  BY <1>2, MmapTakesOff, Zenon
<1>6. \/ Maps(a, f, b) /\ failed' = failed /\ leaked' = leaked
      \/ vma' = vma /\ failed' = failed \cup {b} /\ leaked' = leaked \cup {b}
  BY <1>1, <1>5, Zenon DEF Maps
<1>7. QED
  BY <1>1, <1>4, <1>5, <1>6, TakeOffPreserves, Zenon

\* A thread leaves its ioctl and unmaps an address on the way.
LEMMA UnmapStep ==
  ASSUME PoolInv, MemInv, NEW t \in Threads, NEW a \in Addrs \cup {Nowhere}, call[t].at # "mmap",
         vm_munmap(t, a)
  PROVE  MemInv'
<1>1. call' = [call EXCEPT ![t] = Idle] /\ UNCHANGED <<open, busy, held>>
  BY DEF vm_munmap
<1>2. Idle \in Calls /\ Idle.at # "mmap"
  BY DEF Calls, Idle
<1>3. SameMaps /\ call' \in [Threads -> Calls]
  BY <1>1, <1>2, CallMoves, Zenon DEF MemInv
<1>4. CASE a = Nowhere \/ vma[a] = None
  <2>1. UNCHANGED <<vars, refs, vma, failed, leaked>>
    BY <1>4, Zenon DEF vm_munmap
  <2>2. live' = live /\ UNCHANGED <<open, refs, busy, vma, held, failed, leaked>>
    BY <1>1, <2>1 DEF vars
  <2>3. QED
    BY <1>3, <2>2, CallOnly, Zenon
<1>5. CASE ~(a = Nowhere \/ vma[a] = None)
  <2>1. a \in Addrs /\ vma[a] # None /\ xvp_vm_close(a)
    BY <1>5, Zenon DEF vm_munmap
  <2>2. vma[a].block \in live
    BY <2>1, VmaKinds, Zenon DEF MemInv
  <2>3. vma' = [vma EXCEPT ![a] = None] /\ xrp_allocation_put(vma[a].block)
    BY <2>1, Zenon DEF xvp_vm_close
  <2>4. held' = held /\ UNCHANGED <<open, busy>>
    BY <1>1
  <2>5. QED
    BY <1>3, <2>1, <2>2, <2>3, <2>4, PutPreserves, Zenon
<1>6. QED
  BY <1>4, <1>5, Zenon

\* Every step of a thread, of the memory's users or of a file.
LEMMA MemoryStep ==
  ASSUME NoWrap, PoolInv, MemInv, MemoryNext
  PROVE  MemInv'
<1>0. KindInv /\ call \in [Threads -> Calls] /\ held \in [Requests -> {None} \cup live]
  BY DEF MemInv, KindInv
<1>1. ASSUME NEW t \in Threads, xrp_ioctl_alloc_copy(t) PROVE MemInv'
  <2>1. call[t].at = "copy" /\ call[t].addr \in Addrs \cup {Nowhere}
    BY <1>0, <1>1, CallKinds DEF xrp_ioctl_alloc_copy
  <2>2. CASE vm_munmap(t, call[t].addr)
    BY <2>1, <2>2, UnmapStep
  <2>3. CASE /\ call' = [call EXCEPT ![t] = Idle]
             /\ UNCHANGED <<vars, open, refs, busy, vma, held, failed, leaked>>
    <3>1. Idle \in Calls /\ Idle.at # "mmap"
      BY DEF Calls, Idle
    <3>2. call[t].at # "mmap" /\ live' = live
      BY <2>1, <2>3 DEF vars
    <3>3. SameMaps /\ call' \in [Threads -> Calls]
      BY <1>0, <2>3, <3>1, <3>2, CallMoves, Zenon
    <3>4. QED
      BY <2>3, <3>2, <3>3, CallOnly, Zenon
  <2>4. QED
    BY <1>1, <2>2, <2>3, Zenon DEF xrp_ioctl_alloc_copy
<1>2. ASSUME NEW t \in Threads, NEW f \in Files, NEW a \in Addrs, xrp_ioctl_free(t, f, a) PROVE MemInv'
  <2> DEFINE x == [at |-> "unmap", file |-> f, addr |-> a]
  <2>1. x \in Calls /\ x.at # "mmap"
    BY DEF Calls
  <2>2. /\ call' = [call EXCEPT ![t] = x] /\ call[t].at # "mmap" /\ live' = live
        /\ UNCHANGED <<open, refs, busy, vma, held, failed, leaked>>
    BY <1>2 DEF xrp_ioctl_free, vars, Idle
  <2> HIDE DEF x
  <2>3. SameMaps /\ call' \in [Threads -> Calls]
    BY <1>0, <2>1, <2>2, CallMoves, Zenon
  <2>4. QED
    BY <2>2, <2>3, CallOnly, Zenon
<1>3. ASSUME NEW t \in Threads, xrp_ioctl_free_unmap(t) PROVE MemInv'
  <2>1. call[t].at = "unmap" /\ call[t].addr \in Addrs \cup {Nowhere} /\ vm_munmap(t, call[t].addr)
    BY <1>0, <1>3, CallKinds DEF xrp_ioctl_free_unmap
  <2>2. QED
    BY <2>1, UnmapStep
<1>4. CASE Ioctl
  BY <1>1, <1>2, <1>3, <1>4, AllocStep, MmapStep, Zenon DEF Ioctl
<1>5. ASSUME NEW a \in Addrs, munmap(a) PROVE MemInv'
  <2>1. /\ vma[a] # None /\ vma' = [vma EXCEPT ![a] = None] /\ xrp_allocation_put(vma[a].block)
        /\ UNCHANGED <<open, busy>> /\ held' = held /\ call' = call
    BY <1>5 DEF munmap, xvp_vm_close
  <2>2. vma[a].block \in live
    BY <1>0, <2>1, VmaKinds, Zenon
  <2>3. SameMaps /\ call' \in [Threads -> Calls]
    BY <1>0, <2>1, Zenon DEF SameMaps
  <2>4. QED
    BY <2>1, <2>2, <2>3, PutPreserves, Zenon
<1>6. ASSUME NEW a \in Addrs, NEW copy \in Addrs, fork(a, copy) PROVE MemInv'
  <2>1. /\ vma[a] # None /\ vma[copy] = None /\ vma' = [vma EXCEPT ![copy] = vma[a]]
        /\ xrp_allocation_get(vma[a].block) /\ UNCHANGED <<open, busy, call>> /\ held' = held
    BY <1>6 DEF fork, xvp_vm_open
  <2>2. /\ vma[a].block \in live /\ vma[a].file \in Files /\ vma[a] = Mapped(vma[a].file, vma[a].block)
    BY <1>0, <2>1, VmaKinds, Zenon
  <2>3. Maps(copy, vma[a].file, vma[a].block)
    BY <2>1, <2>2, Zenon DEF Maps
  <2>4. QED
    BY <2>1, <2>2, <2>3, GetPreserves, Zenon
<1>7. ASSUME NEW r \in Requests, Unshare(r) PROVE MemInv'
  <2>1. /\ held[r] # None /\ held' = [held EXCEPT ![r] = None] /\ xrp_allocation_put(held[r])
        /\ UNCHANGED <<open, busy>> /\ vma' = vma /\ call' = call
    BY <1>7 DEF Unshare
  <2>2. held[r] \in live
    BY <1>0, <2>1
  <2>3. SameMaps /\ call' \in [Threads -> Calls]
    BY <1>0, <2>1, Zenon DEF SameMaps
  <2>4. QED
    BY <2>1, <2>2, <2>3, PutPreserves, Zenon
<1>8. ASSUME NEW r \in Requests, NEW a \in Addrs, Share(r, a) PROVE MemInv'
  <2>1. /\ held[r] = None /\ vma[a] # None /\ held' = [held EXCEPT ![r] = vma[a].block]
        /\ xrp_allocation_get(vma[a].block) /\ UNCHANGED <<open, busy, call>> /\ vma' = vma
    BY <1>8 DEF Share
  <2>2. vma[a].block \in live
    BY <1>0, <2>1, VmaKinds, Zenon
  <2>3. QED
    BY <2>1, <2>2, GetPreserves, Zenon
<1>9. QED
  BY <1>4, <1>5, <1>6, <1>7, <1>8, AppMmapStep, OpenPreserves, ClosePreserves, Zenon DEF MemoryNext

\* Putting a reference frees a block or leaves the pool alone.
LEMMA PutIsPoolStep ==
  ASSUME NEW b, xrp_allocation_put(b)
  PROVE  PoolNext \/ UNCHANGED vars
<1>1. CASE refs[b] = 1
  BY <1>1, Zenon DEF xrp_allocation_put, xrp_private_free, PoolNext
<1>2. CASE refs[b] # 1
  BY <1>2, Zenon DEF xrp_allocation_put
<1>3. QED
  BY <1>1, <1>2

\* What the users of the memory do is to allocate, to free or nothing.
LEMMA MemoryStepIsPoolStep ==
  ASSUME MemoryNext
  PROVE  PoolNext \/ UNCHANGED vars
<1>1. ASSUME NEW t \in Threads, NEW a, vm_munmap(t, a) PROVE PoolNext \/ UNCHANGED vars
  <2>1. UNCHANGED vars \/ xvp_vm_close(a)
    BY <1>1, Zenon DEF vm_munmap
  <2>2. QED
    BY <2>1, PutIsPoolStep, Zenon DEF xvp_vm_close
<1>2. CASE Ioctl
  <2>1. ASSUME NEW t \in Threads, NEW f \in Files, NEW size \in Sizes, NEW align \in Aligns,
               xrp_ioctl_alloc(t, f, size, align)
        PROVE  PoolNext
    BY <2>1, Zenon DEF xrp_ioctl_alloc, PoolNext
  <2>2. ASSUME NEW t \in Threads, xrp_ioctl_alloc_mmap(t) PROVE UNCHANGED vars
    BY <2>2, Zenon DEF xrp_ioctl_alloc_mmap
  <2>3. ASSUME NEW t \in Threads, xrp_ioctl_alloc_copy(t) PROVE PoolNext \/ UNCHANGED vars
    BY <1>1, <2>3, Zenon DEF xrp_ioctl_alloc_copy
  <2>4. ASSUME NEW t \in Threads, NEW f \in Files, NEW a \in Addrs, xrp_ioctl_free(t, f, a)
        PROVE  UNCHANGED vars
    BY <2>4, Zenon DEF xrp_ioctl_free
  <2>5. ASSUME NEW t \in Threads, xrp_ioctl_free_unmap(t) PROVE PoolNext \/ UNCHANGED vars
    BY <1>1, <2>5, Zenon DEF xrp_ioctl_free_unmap
  <2>6. QED
    BY <1>2, <2>1, <2>2, <2>3, <2>4, <2>5, Zenon DEF Ioctl
<1>3. ASSUME NEW a \in Addrs, munmap(a) PROVE PoolNext \/ UNCHANGED vars
  BY <1>3, PutIsPoolStep, Zenon DEF munmap, xvp_vm_close
<1>4. ASSUME NEW a \in Addrs, NEW copy \in Addrs, fork(a, copy) PROVE UNCHANGED vars
  BY <1>4, Zenon DEF fork, xvp_vm_open, xrp_allocation_get
<1>5. ASSUME NEW f \in Files, NEW a \in Addrs, mmap(f, a) PROVE UNCHANGED vars
  BY <1>5, Zenon DEF mmap
<1>6. ASSUME NEW r \in Requests, Unshare(r) PROVE PoolNext \/ UNCHANGED vars
  BY <1>6, PutIsPoolStep, Zenon DEF Unshare
<1>7. ASSUME NEW r \in Requests, NEW a \in Addrs, Share(r, a) PROVE UNCHANGED vars
  BY <1>7, Zenon DEF Share, xrp_allocation_get
<1>8. ASSUME NEW f \in Files, xvp_open(f) \/ xvp_close(f) PROVE UNCHANGED vars
  BY <1>8, Zenon DEF xvp_open, xvp_close
<1>9. QED
  BY <1>2, <1>3, <1>4, <1>5, <1>6, <1>7, <1>8, Zenon DEF MemoryNext

----------------------------------------------------------------------------
(* The history of the last allocation.                                     *)

LastOK ==
  last = Nothing \/ last \in
    [result : {"ok", "nofit", "nomem"}, size : Sizes, align : Aligns, start : 0..(PhysWidth - 1)]

\* An allocation leaves one of its three results.
LEMMA LastStep ==
  ASSUME NoWrap, PoolInv, LastOK, PoolNext \/ UNCHANGED vars
  PROVE  LastOK'
<1>1. ASSUME NEW size \in Sizes, NEW align \in Aligns, xrp_private_alloc(size, align) PROVE LastOK'
  <2>1. PICK result \in {"ok", "nofit", "nomem"} :
          \E s \in 0..(PhysWidth - 1) : last' = Answer(result, size, align, s)
    <3>1. 0 \in 0..(PhysWidth - 1)
      BY PoolAssumption DEF NoWrap
    <3>2. QED
      BY <1>1, <3>1, AllocResult, Zenon
  <2>2. QED
    BY <2>1 DEF LastOK, Answer
<1>2. ASSUME NEW b \in live, xrp_private_free(b) PROVE LastOK'
  BY <1>2 DEF xrp_private_free, LastOK
<1>3. CASE UNCHANGED vars
  BY <1>3 DEF vars, LastOK
<1>4. QED
  BY <1>1, <1>2, <1>3, Zenon DEF PoolNext

\* Blocks of the pool have the widths of the code's types.
LEMMA PoolTypes ==
  ASSUME NoWrap, PoolInv, LastOK
  PROVE  TypeOK
<1>1. ASSUME NEW b, InPool(b) PROVE b \in Blocks
  <2>1. /\ b.start \in Nat /\ b.size \in Nat /\ b.size > 0 /\ Start <= b.start
        /\ End(b) = b.start + b.size /\ End(b) <= Start + PoolSize
    BY <1>1, BlockBounds, Zenon
  <2>2. b.start \in 0..(PhysWidth - 1) /\ b.size \in 1..(Width - 1)
    BY <2>1, PoolAssumption DEF NoWrap
  <2>3. QED
    BY <1>1, <2>2 DEF InPool, Blocks
<1>2. live \subseteq Blocks /\ lost \subseteq Blocks /\ \A i \in 1..Len(free) : free[i] \in Blocks
  BY <1>1, Zenon DEF PoolInv
<1>3. free \in Seq(Blocks)
  BY <1>2 DEF PoolInv
<1>4. QED
  BY <1>2, <1>3, Zenon DEF TypeOK, LastOK

----------------------------------------------------------------------------
(* What the invariant gives.                                               *)

\* All of it.
MemoryInv == PoolInv /\ NoneTwice /\ Covered /\ LastOK /\ MemInv

\* Nothing is allocated at first.
LEMMA MemoryStarts ==
  ASSUME MemoryInit
  PROVE  MemoryInv
<1>1. PoolInv /\ NoneTwice /\ Covered
  BY PoolInit, Zenon DEF MemoryInit
<1>2. LastOK /\ live = {}
  BY DEF MemoryInit, Init, LastOK
<1>3. /\ open = {} /\ refs = <<>> /\ busy = [f \in Files |-> <<>>] /\ vma = [a \in Addrs |-> None]
      /\ call = [t \in Threads |-> Idle] /\ held = [r \in Requests |-> None]
      /\ failed = {} /\ leaked = {}
  BY DEF MemoryInit
<1>4. refs \in [live -> Nat \ {0}]
  BY <1>2, <1>3
<1>5. busy \in [Files -> Seq(live)] /\ vma \in [Addrs -> Vmas] /\ call \in [Threads -> Calls]
  BY <1>3 DEF Vmas, Calls
<1>6. KindInv
  BY <1>2, <1>3, <1>4, <1>5 DEF KindInv
<1>7. \A f \in Files : busy[f] = <<>> /\ ToSet(busy[f]) = {} /\ 1..Len(busy[f]) = {}
  BY <1>3 DEF ToSet
<1>8. \A t \in Threads : call[t].at # "mmap"
  BY <1>3 DEF Idle
<1>9. BusyInv
  BY <1>7, <1>8, Zenon DEF BusyInv, MapsSoon
<1>10. QED
  BY <1>1, <1>2, <1>6, <1>9 DEF MemoryInv, MemInv, CountInv

\* The invariant holds for ever.
LEMMA MemoryInvHolds ==
  ASSUME NoWrap
  PROVE  MemorySpec => []MemoryInv
<1>1. MemoryInit => MemoryInv
  BY MemoryStarts
<1>2. MemoryInv /\ [MemoryNext]_allvars => MemoryInv'
  <2>1. ASSUME MemoryInv, MemoryNext PROVE MemoryInv'
    <3>1. PoolNext \/ UNCHANGED vars
      BY <2>1, MemoryStepIsPoolStep
    <3>2. PoolInv' /\ NoneTwice' /\ Covered'
      BY <2>1, <3>1, PoolStep, Zenon DEF MemoryInv
    <3>3. LastOK'
      BY <2>1, <3>1, LastStep, Zenon DEF MemoryInv
    <3>4. MemInv'
      BY <2>1, MemoryStep, Zenon DEF MemoryInv
    <3>5. QED
      BY <3>2, <3>3, <3>4 DEF MemoryInv
  <2>2. ASSUME MemoryInv, UNCHANGED allvars PROVE MemoryInv'
    <3>1. UNCHANGED vars /\ UNCHANGED memory
      BY <2>2 DEF allvars
    <3>2. PoolInv' /\ NoneTwice' /\ Covered'
      BY <2>2, <3>1, PoolStep, Zenon DEF MemoryInv
    <3>3. LastOK'
      BY <2>2, <3>1, LastStep, Zenon DEF MemoryInv
    <3>4. live' = live /\ UNCHANGED <<open, refs, busy, vma, held, failed, leaked>> /\ call' = call
      BY <3>1 DEF vars, memory
    <3>5. SameMaps /\ call' \in [Threads -> Calls]
      BY <2>2, <3>4, Zenon DEF SameMaps, MemoryInv, MemInv, KindInv
    <3>6. MemInv'
      BY <2>2, <3>4, <3>5, CallOnly, Zenon DEF MemoryInv
    <3>7. QED
      BY <3>2, <3>3, <3>6 DEF MemoryInv
  <2>3. QED
    BY <2>1, <2>2
<1>3. QED
  BY <1>1, <1>2, PTL DEF MemorySpec

\* The reference count of every block is the number of its holders, whatever
\* the number of threads, processes' mappings, files and requests: every get
\* has its put, and a block is freed by its last holder (xrp_allocation_get,
\* xrp_allocation_put, xrp_allocation_queue, xrp_allocation_dequeue).
THEOREM ReferencesAreHolders ==
  ASSUME NoWrap
  PROVE  MemorySpec => []HoldersCounted
<1>1. ASSUME MemoryInv PROVE HoldersCounted
  <2>1. KindInv /\ CountInv
    BY <1>1 DEF MemoryInv, MemInv
  <2>2. TypeOK
    BY <1>1, PoolTypes DEF MemoryInv
  <2>3. leaked \subseteq live
    BY <2>1 DEF KindInv
  <2>4. MemoryTypeOK
    BY <2>1, <2>2, <2>3, Zenon DEF MemoryTypeOK, KindInv
  <2>5. \A b \in live : refs[b] = Holders(b)
    BY <2>1, Zenon DEF CountInv, Count, Mapping, Sharing, Queueing, Leaking, Holders
  <2>6. \A a \in Addrs : vma[a] # None => vma[a].block \in live
    BY <2>1, VmaKinds, Zenon
  <2>7. QED
    BY <2>1, <2>4, <2>5, <2>6 DEF HoldersCounted, KindInv
<1>2. QED
  BY <1>1, MemoryInvHolds, PTL

\* The free list stays sorted and joined whatever the users of the memory do.
THEOREM FreeListStaysFixed ==
  ASSUME NoWrap
  PROVE  MemorySpec => []FreeListIsFixed
<1>1. ASSUME MemoryInv PROVE FreeListIsFixed
  <2>1. Sorted(free) /\ Len(free) \in Nat
    BY <1>1 DEF MemoryInv, PoolInv
  <2>2. \A i \in 1..(Len(free) - 1) : i \in 1..Len(free) /\ i + 1 \in 1..Len(free) /\ i < i + 1
    BY <2>1
  <2>3. QED
    BY <2>1, <2>2, Zenon DEF FreeListIsFixed, Sorted
<1>2. QED
  BY <1>1, MemoryInvHolds, PTL

\* No byte of device memory is in two blocks, and none is missing.
THEOREM PoolStaysPartitioned ==
  ASSUME NoWrap
  PROVE  MemorySpec => []Partition
<1>1. ASSUME MemoryInv PROVE Partition
  BY <1>1, PoolPartition DEF MemoryInv
<1>2. QED
  BY <1>1, MemoryInvHolds, PTL

\* Without allocations the pool is one free block.
LEMMA WholeAgain ==
  ASSUME PoolInv, Covered, live \cup lost = {}
  PROVE  free = <<Block(Start, PoolSize)>>
<1>1. PICK n \in Nat : n = Len(free)
  BY DEF PoolInv
<1>2. \A i \in 1..n : /\ free[i].start \in Nat /\ free[i].size \in Nat /\ End(free[i]) \in Nat
                      /\ free[i].start < End(free[i]) /\ End(free[i]) = free[i].start + free[i].size
                      /\ Start <= free[i].start /\ End(free[i]) <= Start + PoolSize
  BY <1>1, BlockBounds, Zenon DEF PoolInv
<1>3. \A i, j \in 1..n : i < j => End(free[i]) < free[j].start
  BY <1>1, Zenon DEF PoolInv, Sorted
<1>4. \A x \in Start..(Start + PoolSize - 1) : \E i \in 1..n : free[i].start <= x /\ x < End(free[i])
  BY <1>1, Zenon DEF Covered, In
<1>5. Start \in Nat /\ PoolSize \in Nat /\ PoolSize > 0
  BY PoolAssumption
<1>6. n >= 1
  <2>1. Start \in Start..(Start + PoolSize - 1)
    BY <1>5
  <2>2. QED
    BY <1>4, <2>1
<1>7. ~(n >= 2)
  <2> SUFFICES ASSUME n >= 2 PROVE FALSE
    OBVIOUS
  <2>1. 1 \in 1..n /\ 2 \in 1..n /\ \A j \in 1..n : j = 1 \/ j = 2 \/ 2 < j
    OBVIOUS
  <2>2. End(free[1]) < free[2].start
    <3>1. 1 < 2
      OBVIOUS
    <3>2. QED
      BY <1>3, <2>1, <3>1
  <2>3. PICK x \in Nat : x = End(free[1])
    BY <1>2, <2>1
  <2>4. x \in Start..(Start + PoolSize - 1)
    BY <1>2, <1>5, <2>1, <2>2, <2>3
  <2>5. PICK j \in 1..n : free[j].start <= x /\ x < End(free[j])
    BY <1>4, <2>4, Zenon
  <2>6. j # 1
    BY <2>3, <2>5
  <2>7. free[2].start <= free[j].start
    <3>1. CASE j = 2
      BY <1>2, <2>1, <3>1
    <3>2. CASE 2 < j
      <4>1. End(free[2]) < free[j].start
        BY <1>3, <2>1, <3>2
      <4>2. QED
        BY <1>2, <2>1, <4>1
    <3>3. QED
      BY <2>1, <2>6, <3>1, <3>2
  <2>8. free[j].start \in Nat /\ free[2].start \in Nat
    BY <1>2, <2>1
  <2>9. QED
    BY <2>2, <2>3, <2>5, <2>7, <2>8
<1>8. n = 1
  BY <1>6, <1>7
<1>9. /\ free[1].start \in Nat /\ free[1].size \in Nat /\ End(free[1]) = free[1].start + free[1].size
      /\ Start <= free[1].start /\ End(free[1]) <= Start + PoolSize
  BY <1>2, <1>8
<1>10. free[1].start <= Start
  <2>1. Start \in Start..(Start + PoolSize - 1)
    BY <1>5
  <2>2. QED
    BY <1>4, <1>8, <2>1
<1>11. Start + PoolSize - 1 < End(free[1])
  <2>1. Start + PoolSize - 1 \in Start..(Start + PoolSize - 1)
    BY <1>5
  <2>2. QED
    BY <1>4, <1>8, <2>1
<1>12. free[1].start = Start /\ free[1].size = PoolSize
  BY <1>5, <1>9, <1>10, <1>11
<1>13. free[1] = Block(Start, PoolSize)
  <2>1. 1 \in 1..Len(free)
    BY <1>1, <1>8
  <2>2. free[1] \in [start : Nat, size : Nat]
    BY <2>1, Zenon DEF PoolInv, InPool
  <2>3. QED
    BY <1>12, <2>2 DEF Block
<1>14. free \in Seq([start : Nat, size : Nat]) /\ Len(free) = 1
  BY <1>1, <1>8 DEF PoolInv
<1>15. QED
  BY <1>13, <1>14

\* With every file closed, every mapping gone and no request in flight, all
\* the memory is back in one block unless something had failed (xvp_close,
\* xvp_vm_close, __xrp_unshare_block, xrp_private_free).
THEOREM MemoryComesBack ==
  ASSUME NoWrap
  PROVE  MemorySpec => []PoolIsWhole
<1>1. ASSUME MemoryInv PROVE PoolIsWhole
  <2> SUFFICES ASSUME open = {}, \A r \in Requests : held[r] = None, \A a \in Addrs : vma[a] = None
               PROVE  /\ live \subseteq failed
                      /\ live \cup lost = {} => free = <<Block(Start, PoolSize)>>
    BY Zenon DEF PoolIsWhole
  <2>1. PoolInv /\ Covered /\ KindInv /\ BusyInv /\ CountInv
    BY <1>1 DEF MemoryInv, MemInv
  <2>2. ASSUME NEW b \in live PROVE b \in failed
    <3>1. Mapping(b) = {} /\ Queueing(b) = {}
      BY <2>1, Zenon DEF Mapping, Queueing, BusyInv
    <3>2. Sharing(b) = {}
      BY <2>1, NoneIsNoBlock, Zenon DEF Sharing
    <3>3. Count(b) = 0 + 0 + 0 + Leaking(b)
      BY <3>1, <3>2, FS_EmptySet, Zenon DEF Count
    <3>4. Count(b) \in Nat /\ Count(b) # 0
      BY <2>1 DEF CountInv, KindInv
    <3>5. Leaking(b) # 0
      BY <3>3, <3>4
    <3>6. b \in leaked
      BY <3>5 DEF Leaking
    <3>7. QED
      BY <2>1, <3>6 DEF KindInv
  <2>3. live \cup lost = {} => free = <<Block(Start, PoolSize)>>
    BY <2>1, WholeAgain, Zenon
  <2>4. QED
    BY <2>2, <2>3, Zenon
<1>2. QED
  BY <1>1, MemoryInvHolds, PTL

\* A thread leaves the mmap of its ioctl only by that step.
LEMMA OnlyMmapMaps ==
  ASSUME MemInv, MemoryNext, NEW t \in Threads, call[t].at = "mmap", call'[t].at = "copy"
  PROVE  xrp_ioctl_alloc_mmap(t)
<1>0. call \in [Threads -> Calls]
  BY DEF MemInv, KindInv
<1>1. call' # call
  OBVIOUS
<1>2. ASSUME NEW u \in Threads, NEW x, call' = [call EXCEPT ![u] = x], call[u].at # "mmap" PROVE FALSE
  <2>1. u # t
    BY <1>2
  <2>2. call'[t] = call[t]
    BY <1>0, <1>2, <2>1
  <2>3. QED
    BY <2>2
<1>3. Ioctl
  BY <1>1, Zenon DEF MemoryNext, munmap, fork, mmap, Unshare, Share, xvp_open, xvp_close
<1>4. PICK u \in Threads :
        \/ \E f \in Files, size \in Sizes, align \in Aligns : xrp_ioctl_alloc(u, f, size, align)
        \/ xrp_ioctl_alloc_mmap(u)
        \/ xrp_ioctl_alloc_copy(u)
        \/ \E f \in Files, a \in Addrs : xrp_ioctl_free(u, f, a)
        \/ xrp_ioctl_free_unmap(u)
  BY <1>3, Zenon DEF Ioctl
<1>5. Idle.at # "mmap"
  BY DEF Idle
<1>6. ASSUME NEW f \in Files, NEW size \in Sizes, NEW align \in Aligns, xrp_ioctl_alloc(u, f, size, align)
      PROVE  FALSE
  <2>1. call[u].at # "mmap"
    BY <1>5, <1>6 DEF xrp_ioctl_alloc
  <2>2. \/ call' = call
        \/ \E x : call' = [call EXCEPT ![u] = x]
    BY <1>6 DEF xrp_ioctl_alloc
  <2>3. QED
    BY <1>1, <1>2, <2>1, <2>2, Zenon
<1>7. ~xrp_ioctl_alloc_copy(u)
  <2>1. SUFFICES ASSUME xrp_ioctl_alloc_copy(u) PROVE FALSE
    OBVIOUS
  <2>2. call[u].at # "mmap" /\ call' = [call EXCEPT ![u] = Idle]
    BY <2>1 DEF xrp_ioctl_alloc_copy, vm_munmap
  <2>3. QED
    BY <1>2, <2>2, Zenon
<1>8. ASSUME NEW f \in Files, NEW a \in Addrs, xrp_ioctl_free(u, f, a) PROVE FALSE
  <2>1. call[u].at # "mmap" /\ call' = [call EXCEPT ![u] = [at |-> "unmap", file |-> f, addr |-> a]]
    BY <1>5, <1>8 DEF xrp_ioctl_free
  <2>2. QED
    BY <1>2, <2>1, Zenon
<1>9. ~xrp_ioctl_free_unmap(u)
  <2>1. SUFFICES ASSUME xrp_ioctl_free_unmap(u) PROVE FALSE
    OBVIOUS
  <2>2. call[u].at # "mmap" /\ call' = [call EXCEPT ![u] = Idle]
    BY <2>1 DEF xrp_ioctl_free_unmap, vm_munmap
  <2>3. QED
    BY <1>2, <2>2, Zenon
<1>10. xrp_ioctl_alloc_mmap(u)
  BY <1>4, <1>6, <1>7, <1>8, <1>9, Zenon
<1>11. u = t
  <2>1. SUFFICES ASSUME u # t PROVE FALSE
    OBVIOUS
  <2>2. PICK x : call' = [call EXCEPT ![u] = x]
    BY <1>10 DEF xrp_ioctl_alloc_mmap
  <2>3. call'[t] = call[t]
    BY <1>0, <2>1, <2>2
  <2>4. QED
    BY <2>3
<1>12. QED
  BY <1>10, <1>11, Zenon

\* An ioctl that maps memory maps what it has allocated, however many threads
\* share the file and its busy list (xrp_ioctl_alloc, xrp_allocation_dequeue).
THEOREM IoctlsMapTheirOwn ==
  ASSUME NoWrap
  PROVE  MemorySpec => MapsItsOwn
<1> DEFINE Own(t) == call[t].at = "mmap" /\ call'[t].at = "copy" /\ call'[t].addr # Nowhere =>
                       vma'[call'[t].addr].block = call[t].block
<1>1. ASSUME MemoryInv, MemoryNext, NEW t \in Threads PROVE Own(t)
  <2> SUFFICES ASSUME call[t].at = "mmap", call'[t].at = "copy", call'[t].addr # Nowhere
               PROVE  vma'[call'[t].addr].block = call[t].block
    OBVIOUS
  <2>1. MemInv /\ PoolInv /\ KindInv /\ call \in [Threads -> Calls] /\ vma \in [Addrs -> Vmas]
    BY <1>1 DEF MemoryInv, MemInv, KindInv
  <2>2. xrp_ioctl_alloc_mmap(t)
    BY <1>1, <2>1, OnlyMmapMaps, Zenon
  <2>3. call[t].file \in Files /\ call[t].block \in ToSet(busy[call[t].file])
    BY <2>1, CallKinds, Zenon DEF MemInv, BusyInv
  <2>4. ASSUME call' = [call EXCEPT ![t] = [at |-> "copy", file |-> call[t].file, addr |-> Nowhere]]
        PROVE  FALSE
    BY <2>1, <2>4
  <2>5. PICK a \in Addrs, result \in Addrs \cup {Nowhere} :
          /\ xvp_mmap(call[t].file, call[t].block.start, call[t].block.size, a, result)
          /\ call' = [call EXCEPT ![t] = [at |-> "copy", file |-> call[t].file, addr |-> result]]
    BY <2>2, <2>4, Zenon DEF xrp_ioctl_alloc_mmap
  <2>6. call'[t].addr = result
    BY <2>1, <2>5
  <2>7. result = a /\ vma' = [vma EXCEPT ![a] = Mapped(call[t].file, call[t].block)]
    <3>1. \/ /\ result = a /\ vma' = [vma EXCEPT ![a] = Mapped(call[t].file, call[t].block)]
             /\ failed' = failed /\ leaked' = leaked
          \/ /\ result = Nowhere /\ vma' = vma
             /\ failed' = failed \cup {call[t].block} /\ leaked' = leaked \cup {call[t].block}
      BY <2>1, <2>3, <2>5, MmapTakesOff
    <3>2. result # Nowhere
      BY <2>6
    <3>3. QED
      BY <3>1, <3>2, Zenon
  <2>8. vma'[a] = Mapped(call[t].file, call[t].block)
    <3>1. PICK x : x = Mapped(call[t].file, call[t].block)
      BY Zenon
    <3>2. vma \in [Addrs -> Vmas] /\ vma' = [vma EXCEPT ![a] = x]
      BY <2>1, <2>7, <3>1, Zenon
    <3>3. vma'[a] = x
      BY <3>2, Zenon
    <3>4. QED
      BY <3>1, <3>3, Zenon
  <2>9. QED
    <3>1. vma'[a].block = call[t].block
      BY <2>8 DEF Mapped
    <3>2. call'[t].addr = a
      BY <2>6, <2>7
    <3>3. QED
      BY <3>1, <3>2, Zenon
<1>2. MemoryInv /\ [MemoryNext]_allvars => [\A t \in Threads : Own(t)]_allvars
  BY <1>1
<1>3. QED
  BY <1>2, MemoryInvHolds, PTL DEF MemorySpec, MapsItsOwn

=============================================================================
