---------------------- MODULE XrpMemoryHolders_proofs ----------------------
(***************************************************************************)
(* The invariant of device memory, and that holders come and go under it:  *)
(* mappings and requests take and put references, and a block moves from   *)
(* the busy list of its file to a mapping, for any number of threads,      *)
(* files, addresses and requests; calls that touch no block; files.        *)
(***************************************************************************)
EXTENDS XrpMemory, XrpPrivateAlloc_proofs, FiniteSetTheorems

\* Who holds block b: mappings, requests and busy lists.
Mapping(b) == {a \in Addrs : vma[a] # None /\ vma[a].block = b}
Sharing(b) == {r \in Requests : held[r] = b}
Queueing(b) == {f \in Files : b \in ToSet(busy[f])}
Leaking(b) == IF b \in leaked THEN 1 ELSE 0
Count(b) ==
  Cardinality(Mapping(b)) + Cardinality(Sharing(b)) + Cardinality(Queueing(b)) + Leaking(b)

\* The thread is in an ioctl that has allocated b and not mapped it yet.
MapsSoon(t, b) == call[t].at = "mmap" /\ call[t].block = b

\* Every reference to a block is to one handed out.
KindInv ==
  /\ open \subseteq Files
  /\ refs \in [live -> Nat \ {0}]
  /\ busy \in [Files -> Seq(live)]
  /\ vma \in [Addrs -> Vmas]
  /\ call \in [Threads -> Calls]
  /\ held \in [Requests -> {None} \cup live]
  /\ failed \subseteq live /\ leaked \subseteq failed

\* A block is at most once on one busy list, and is not leaked while it is; it
\* is there because an ioctl will map it or because mapping it has failed.
BusyInv ==
  /\ \A f \in Files : \A i, j \in 1..Len(busy[f]) : busy[f][i] = busy[f][j] => i = j
  /\ \A f, g \in Files : \A b : b \in ToSet(busy[f]) /\ b \in ToSet(busy[g]) => f = g
  /\ \A f \in Files : \A b \in ToSet(busy[f]) :
       /\ f \in open /\ b \notin leaked
       /\ b \in failed \/ \E t \in Threads : MapsSoon(t, b)
  /\ \A t \in Threads : call[t].at = "mmap" => call[t].block \in ToSet(busy[call[t].file])
  /\ \A t, u \in Threads : \A b : MapsSoon(t, b) /\ MapsSoon(u, b) => t = u

\* The count of a block is the number of its holders.
CountInv == \A b \in live : refs[b] = Count(b)

MemInv == KindInv /\ BusyInv /\ CountInv

----------------------------------------------------------------------------
(* Kinds of values, and counting.                                          *)

\* The elements of a sequence.
LEMMA ToSetOf ==
  ASSUME NEW S, NEW s \in Seq(S)
  PROVE  /\ ToSet(s) = {s[i] : i \in 1..Len(s)} /\ ToSet(s) \subseteq S /\ Len(s) \in Nat
  BY DEF ToSet

\* What is mapped somewhere is a block handed out.
LEMMA VmaKinds ==
  ASSUME KindInv, NEW a \in Addrs, vma[a] # None
  PROVE  /\ vma[a].file \in Files /\ vma[a].block \in live
         /\ vma[a] = Mapped(vma[a].file, vma[a].block)
<1>1. PICK f \in Files, b \in live : vma[a] = Mapped(f, b)
  BY DEF KindInv, Vmas
<1>2. QED
  BY <1>1 DEF Mapped

\* A mapping is not None.
LEMMA MappedIsSome ==
  ASSUME NEW f, NEW b
  PROVE  Mapped(f, b) # None /\ Mapped(f, b).block = b /\ Mapped(f, b).file = f
  BY DEF Mapped, None

\* What a thread is in.
LEMMA CallKinds ==
  ASSUME KindInv, NEW t \in Threads
  PROVE  /\ call[t] # Idle => call[t].file \in Files
         /\ call[t].at = "mmap" => call[t] # Idle /\ call[t].block \in live
         /\ call[t].at \in {"copy", "unmap"} => call[t].addr \in Addrs \cup {Nowhere}
<1>1. call[t] \in Calls
  BY DEF KindInv
<1>2. QED
  BY <1>1 DEF Calls, Idle

\* None is no block.
LEMMA NoneIsNoBlock ==
  ASSUME PoolInv, NEW b \in live
  PROVE  b # None
<1>1. b \in [start : Nat, size : Nat]
  BY DEF PoolInv, InPool
<1>2. QED
  BY <1>1 DEF None

\* The holders of a block can be counted.
LEMMA HoldersFinite ==
  ASSUME NEW b
  PROVE  /\ IsFiniteSet(Mapping(b)) /\ Cardinality(Mapping(b)) \in Nat
         /\ IsFiniteSet(Sharing(b)) /\ Cardinality(Sharing(b)) \in Nat
         /\ IsFiniteSet(Queueing(b)) /\ Cardinality(Queueing(b)) \in Nat
         /\ Leaking(b) \in Nat /\ Leaking(b) <= 1 /\ Count(b) \in Nat
<1>1. /\ Mapping(b) \in SUBSET Addrs /\ Sharing(b) \in SUBSET Requests
      /\ Queueing(b) \in SUBSET Files
  BY DEF Mapping, Sharing, Queueing
<1>2. IsFiniteSet(Mapping(b)) /\ IsFiniteSet(Sharing(b)) /\ IsFiniteSet(Queueing(b))
  BY <1>1, FS_Subset, AddrsAssumption, Zenon
<1>3. /\ Cardinality(Mapping(b)) \in Nat /\ Cardinality(Sharing(b)) \in Nat
      /\ Cardinality(Queueing(b)) \in Nat
  BY <1>2, FS_CardinalityType, Zenon
<1>4. Leaking(b) \in Nat /\ Leaking(b) <= 1
  BY DEF Leaking
<1>5. Count(b) \in Nat
  BY <1>3, <1>4 DEF Count
<1>6. QED
  BY <1>2, <1>3, <1>4, <1>5, Zenon

\* One holder less.
LEMMA OneLess ==
  ASSUME NEW S, IsFiniteSet(S), NEW x \in S
  PROVE  Cardinality(S \ {x}) = Cardinality(S) - 1 /\ Cardinality(S) \in Nat /\ Cardinality(S) >= 1
<1>1. Cardinality(S \ {x}) = Cardinality(S) - 1 /\ IsFiniteSet(S \ {x})
  BY FS_RemoveElement, Zenon
<1>2. Cardinality(S) \in Nat /\ Cardinality(S \ {x}) \in Nat
  BY <1>1, FS_CardinalityType, Zenon
<1>3. QED
  BY <1>1, <1>2

\* One holder more.
LEMMA OneMore ==
  ASSUME NEW S, IsFiniteSet(S), NEW x, x \notin S
  PROVE  Cardinality(S \cup {x}) = Cardinality(S) + 1
  BY FS_AddElement, Zenon

\* What nobody holds has no holders.
LEMMA NoneHolds ==
  ASSUME NEW b, Count(b) = 0
  PROVE  Mapping(b) = {} /\ Sharing(b) = {} /\ Queueing(b) = {} /\ b \notin leaked
<1>1. /\ Cardinality(Mapping(b)) = 0 /\ Cardinality(Sharing(b)) = 0
      /\ Cardinality(Queueing(b)) = 0 /\ Leaking(b) = 0
  BY HoldersFinite DEF Count
<1>2. Mapping(b) = {} /\ Sharing(b) = {} /\ Queueing(b) = {}
  BY <1>1, HoldersFinite, FS_EmptySet, Zenon
<1>3. b \notin leaked
  BY <1>1 DEF Leaking
<1>4. QED
  BY <1>2, <1>3

----------------------------------------------------------------------------
(* References are taken and put.                                           *)

\* Nothing changes for the threads that are about to map.
SameMaps ==
  /\ \A t \in Threads : call'[t].at = "mmap" <=> call[t].at = "mmap"
  /\ \A t \in Threads : call[t].at = "mmap" => call'[t] = call[t]

\* A thread that is not about to map goes elsewhere.
LEMMA CallMoves ==
  ASSUME KindInv, NEW t \in Threads, call[t].at # "mmap", NEW x \in Calls, x.at # "mmap",
         call' = [call EXCEPT ![t] = x]
  PROVE  SameMaps /\ call' \in [Threads -> Calls]
<1>1. call \in [Threads -> Calls]
  BY DEF KindInv
<1>2. call' \in [Threads -> Calls]
  BY <1>1
<1>3. call'[t] = x /\ \A u \in Threads : u # t => call'[u] = call[u]
  BY <1>1
<1>4. QED
  BY <1>2, <1>3, Zenon DEF SameMaps

\* The busy lists stay as they are when blocks that are on none go.
LEMMA BusyFrame ==
  ASSUME BusyInv, SameMaps, UNCHANGED <<open, busy>>,
         leaked' \subseteq leaked, \A c \in failed : c \in failed' \/ Queueing(c) = {}
  PROVE  BusyInv'
<1>1. \A f \in Files : \A c \in ToSet(busy[f]) : c \in failed => c \in failed'
  BY Zenon DEF Queueing
<1>2. \A t \in Threads : \A c : MapsSoon(t, c)' <=> MapsSoon(t, c)
  BY Zenon DEF MapsSoon, SameMaps
<1>3. /\ \A f \in Files : \A i, j \in 1..Len(busy'[f]) : busy'[f][i] = busy'[f][j] => i = j
      /\ \A f, g \in Files : \A c : c \in ToSet(busy'[f]) /\ c \in ToSet(busy'[g]) => f = g
  BY Zenon DEF BusyInv
<1>4. \A f \in Files : \A c \in ToSet(busy'[f]) :
        /\ f \in open' /\ c \notin leaked'
        /\ c \in failed' \/ \E t \in Threads : MapsSoon(t, c)'
  BY <1>1, <1>2, Zenon DEF BusyInv
<1>5. /\ \A t \in Threads : call'[t].at = "mmap" => call'[t].block \in ToSet(busy'[call'[t].file])
      /\ \A t, u \in Threads : \A c : MapsSoon(t, c)' /\ MapsSoon(u, c)' => t = u
  BY <1>2, Zenon DEF BusyInv, SameMaps
<1>6. QED
  BY <1>3, <1>4, <1>5, Zenon DEF BusyInv, ToSet

\* Who lets go of a block last was its only holder: M and S are the mappings
\* and the requests that are left.
LEMMA LastHolder ==
  ASSUME NEW b, NEW M, NEW S, IsFiniteSet(M), IsFiniteSet(S), Count(b) = 1,
         Cardinality(M) + Cardinality(S) = Cardinality(Mapping(b)) + Cardinality(Sharing(b)) - 1
  PROVE  M = {} /\ S = {} /\ Queueing(b) = {} /\ b \notin leaked
<1>1. PICK m \in Nat, s \in Nat, q \in Nat, k \in Nat, m1 \in Nat, s1 \in Nat :
        /\ m = Cardinality(Mapping(b)) /\ s = Cardinality(Sharing(b))
        /\ q = Cardinality(Queueing(b)) /\ k = Leaking(b)
        /\ m1 = Cardinality(M) /\ s1 = Cardinality(S)
  BY HoldersFinite, FS_CardinalityType, Zenon
<1>2. m + s + q + k = 1 /\ m1 + s1 = m + s - 1
  BY <1>1, Zenon DEF Count
<1>3. m1 = 0 /\ s1 = 0 /\ q = 0 /\ k = 0
  BY <1>2
<1>4. M = {} /\ S = {} /\ Queueing(b) = {}
  BY <1>1, <1>3, HoldersFinite, FS_EmptySet, Zenon
<1>5. b \notin leaked
  BY <1>1, <1>3 DEF Leaking
<1>6. QED
  BY <1>4, <1>5

\* Putting a reference: a mapping or a request lets go of block b.  The last
\* one gives it back, and then nobody else can have it.
LEMMA PutPreserves ==
  ASSUME PoolInv, MemInv, NEW b \in live, xrp_allocation_put(b), UNCHANGED <<open, busy>>,
         SameMaps, call' \in [Threads -> Calls],
         \/ \E a \in Addrs : /\ vma[a] # None /\ vma[a].block = b
                             /\ vma' = [vma EXCEPT ![a] = None] /\ held' = held
         \/ \E r \in Requests : /\ held[r] = b
                                /\ held' = [held EXCEPT ![r] = None] /\ vma' = vma
  PROVE  MemInv'
<1> DEFINE M(c) == {a \in Addrs : vma'[a] # None /\ vma'[a].block = c}
           S(c) == {r \in Requests : held'[r] = c}
<1>1. /\ vma \in [Addrs -> Vmas] /\ held \in [Requests -> {None} \cup live]
      /\ refs \in [live -> Nat \ {0}] /\ refs[b] = Count(b) /\ failed \subseteq live
      /\ leaked \subseteq failed /\ busy \in [Files -> Seq(live)] /\ call \in [Threads -> Calls]
  BY DEF MemInv, KindInv, CountInv
<1>2. \A c : c # b => c = None \/ (M(c) = Mapping(c) /\ S(c) = Sharing(c))
  <2>1. ASSUME NEW a \in Addrs, vma[a] # None, vma[a].block = b,
               vma' = [vma EXCEPT ![a] = None], held' = held, NEW c, c # b
        PROVE  M(c) = Mapping(c) /\ S(c) = Sharing(c)
    <3>1. vma'[a] = None /\ \A d \in Addrs : d # a => vma'[d] = vma[d]
      BY <1>1, <2>1
    <3>2. QED
      BY <2>1, <3>1, Zenon DEF Mapping, Sharing
  <2>2. ASSUME NEW r \in Requests, held[r] = b, held' = [held EXCEPT ![r] = None], vma' = vma,
               NEW c, c # b, c # None
        PROVE  M(c) = Mapping(c) /\ S(c) = Sharing(c)
    <3>1. held'[r] = None /\ \A q \in Requests : q # r => held'[q] = held[q]
      BY <1>1, <2>2
    <3>2. QED
      BY <2>2, <3>1, Zenon DEF Mapping, Sharing
  <2>3. QED
    BY <2>1, <2>2, Zenon
<1>3. \/ \E a \in Mapping(b) : M(b) = Mapping(b) \ {a} /\ S(b) = Sharing(b)
      \/ \E r \in Sharing(b) : S(b) = Sharing(b) \ {r} /\ M(b) = Mapping(b)
  <2>1. ASSUME NEW a \in Addrs, vma[a] # None, vma[a].block = b,
               vma' = [vma EXCEPT ![a] = None], held' = held
        PROVE  a \in Mapping(b) /\ M(b) = Mapping(b) \ {a} /\ S(b) = Sharing(b)
    <3>1. vma'[a] = None /\ \A d \in Addrs : d # a => vma'[d] = vma[d]
      BY <1>1, <2>1
    <3>2. QED
      BY <2>1, <3>1, Zenon DEF Mapping, Sharing
  <2>2. ASSUME NEW r \in Requests, held[r] = b, held' = [held EXCEPT ![r] = None], vma' = vma
        PROVE  r \in Sharing(b) /\ S(b) = Sharing(b) \ {r} /\ M(b) = Mapping(b)
    <3>1. held'[r] = None /\ \A q \in Requests : q # r => held'[q] = held[q]
      BY <1>1, <2>2
    <3>2. None # b
      BY NoneIsNoBlock, Zenon
    <3>3. QED
      BY <2>2, <3>1, <3>2, Zenon DEF Mapping, Sharing
  <2>3. QED
    BY <2>1, <2>2, Zenon
<1> HIDE DEF M, S
<1>4. /\ Cardinality(M(b)) + Cardinality(S(b)) = Cardinality(Mapping(b)) + Cardinality(Sharing(b)) - 1
      /\ Cardinality(M(b)) \in Nat /\ Cardinality(S(b)) \in Nat
      /\ IsFiniteSet(M(b)) /\ IsFiniteSet(S(b))
  <2>1. IsFiniteSet(M(b)) /\ IsFiniteSet(S(b))
    <3>1. M(b) \in SUBSET Addrs /\ S(b) \in SUBSET Requests
      BY DEF M, S
    <3>2. QED
      BY <3>1, FS_Subset, AddrsAssumption, Zenon
  <2>2. Cardinality(M(b)) \in Nat /\ Cardinality(S(b)) \in Nat
    BY <2>1, FS_CardinalityType, Zenon
  <2>3. \/ Cardinality(M(b)) = Cardinality(Mapping(b)) - 1 /\ Cardinality(S(b)) = Cardinality(Sharing(b))
        \/ Cardinality(S(b)) = Cardinality(Sharing(b)) - 1 /\ Cardinality(M(b)) = Cardinality(Mapping(b))
    BY <1>3, HoldersFinite, OneLess, Zenon
  <2>4. Cardinality(Mapping(b)) \in Nat /\ Cardinality(Sharing(b)) \in Nat
    BY HoldersFinite, Zenon
  <2>5. QED
    BY <2>1, <2>2, <2>3, <2>4
<1>5. /\ \A a \in Addrs : vma'[a] = None \/ vma'[a] = vma[a]
      /\ \A r \in Requests : held'[r] = None \/ held'[r] = held[r]
      /\ DOMAIN vma' = Addrs /\ DOMAIN held' = Requests
      /\ vma' = [a \in Addrs |-> vma'[a]] /\ held' = [r \in Requests |-> held'[r]]
  BY <1>1
<1>6. \A c \in live : Count(c) = Cardinality(Mapping(c)) + Cardinality(Sharing(c))
                                 + Cardinality(Queueing(c)) + Leaking(c)
  BY DEF Count
<1>7. ASSUME NEW c \in live, c # b
      PROVE  Mapping(c)' = Mapping(c) /\ Sharing(c)' = Sharing(c) /\ Queueing(c)' = Queueing(c)
  <2>1. c # None
    BY NoneIsNoBlock, Zenon
  <2>2. Mapping(c)' = M(c) /\ Sharing(c)' = S(c)
    BY DEF M, S, Mapping, Sharing
  <2>3. QED
    BY <1>2, <1>7, <2>1, <2>2 DEF Queueing
<1>8. CASE refs[b] # 1
  <2>1. refs' = [refs EXCEPT ![b] = @ - 1] /\ UNCHANGED <<vars, failed, leaked>>
    BY <1>8, Zenon DEF xrp_allocation_put
  <2>2. live' = live /\ failed' = failed /\ leaked' = leaked
    BY <2>1 DEF vars
  <2>3. /\ refs' \in [live -> Nat \ {0}] /\ refs'[b] = refs[b] - 1
        /\ \A c \in live : c # b => refs'[c] = refs[c]
    BY <1>1, <1>8, <2>1
  <2>4. /\ vma' \in [Addrs -> Vmas] /\ held' \in [Requests -> {None} \cup live] /\ None \in Vmas
    <3>1. None \in Vmas
      BY DEF Vmas
    <3>2. QED
      BY <1>1, <1>5, <3>1
  <2>5. KindInv'
    <3>1. Vmas' = Vmas /\ Calls' = Calls
      BY <2>2 DEF Vmas, Calls
    <3>2. open' \subseteq Files /\ busy' = busy
      BY DEF MemInv, KindInv
    <3>3. QED
      BY <1>1, <2>2, <2>3, <2>4, <3>1, <3>2, Zenon DEF KindInv
  <2>6. BusyInv'
    BY <2>2, BusyFrame, Zenon DEF MemInv
  <2>7. ASSUME NEW c \in live PROVE refs'[c] = Count(c)'
    <3>1. Leaking(c)' = Leaking(c)
      BY <2>2 DEF Leaking
    <3>2. CASE c # b
      <4>1. Count(c)' = Count(c)
        BY <1>7, <3>1, <3>2 DEF Count
      <4>2. QED
        BY <2>3, <3>2, <4>1, Zenon DEF MemInv, CountInv
    <3>3. CASE c = b
      <4>1. /\ Mapping(b)' = M(b) /\ Sharing(b)' = S(b) /\ Queueing(b)' = Queueing(b)
        BY DEF M, S, Mapping, Sharing, Queueing
      <4>2. Count(b)' = Cardinality(M(b)) + Cardinality(S(b)) + Cardinality(Queueing(b)) + Leaking(b)
        BY <3>1, <3>3, <4>1 DEF Count
      <4>3. Cardinality(Queueing(b)) \in Nat /\ Leaking(b) \in Nat /\ Cardinality(Mapping(b)) \in Nat
            /\ Cardinality(Sharing(b)) \in Nat
        BY HoldersFinite, Zenon
      <4>4. refs[b] = Cardinality(Mapping(b)) + Cardinality(Sharing(b))
                      + Cardinality(Queueing(b)) + Leaking(b)
        BY <1>1, <1>6, Zenon
      <4>5. refs'[b] = Count(b)'
        BY <1>4, <2>3, <4>2, <4>3, <4>4
      <4>6. QED
        BY <3>3, <4>5
    <3>4. QED
      BY <3>2, <3>3
  <2>8. CountInv'
    BY <2>2, <2>7, Zenon DEF CountInv
  <2>9. QED
    BY <2>5, <2>6, <2>8 DEF MemInv
<1>9. CASE refs[b] = 1
  <2>1. /\ xrp_private_free(b) /\ refs' = [c \in live \ {b} |-> refs[c]]
        /\ failed' = failed \ {b} /\ leaked' = leaked \ {b}
    BY <1>9, Zenon DEF xrp_allocation_put
  <2>2. live' = live \ {b}
    BY <2>1, Zenon DEF xrp_private_free
  <2>3. M(b) = {} /\ S(b) = {} /\ Queueing(b) = {} /\ b \notin leaked
    BY <1>1, <1>4, <1>9, LastHolder, Zenon
  <2>4. \A f \in Files : b \notin ToSet(busy[f])
    BY <2>3, Zenon DEF Queueing
  <2>5. busy' \in [Files -> Seq(live')]
    <3>1. ASSUME NEW f \in Files PROVE busy[f] \in Seq(live')
      <4>1. busy[f] \in Seq(live)
        BY <1>1
      <4>2. \A i \in 1..Len(busy[f]) : busy[f][i] \in live'
        <5>1. ToSet(busy[f]) = {busy[f][i] : i \in 1..Len(busy[f])} /\ ToSet(busy[f]) \subseteq live
          BY <4>1, ToSetOf
        <5>2. QED
          BY <2>2, <2>4, <5>1, Zenon
      <4>3. QED
        BY <4>1, <4>2
    <3>2. QED
      BY <1>1, <3>1
  <2>6. vma' \in [Addrs -> Vmas']
    <3>1. ASSUME NEW a \in Addrs PROVE vma'[a] \in Vmas'
      <4>1. CASE vma'[a] = None
        BY <4>1 DEF Vmas
      <4>2. CASE vma'[a] # None
        <5>1. vma'[a] = vma[a] /\ vma[a] # None
          BY <1>5, <4>2, Zenon
        <5>2. PICK f \in Files, d \in live : vma[a] = Mapped(f, d)
          BY <1>1, <5>1 DEF Vmas
        <5>3. d # b
          <6>1. vma[a].block = d
            BY <5>2 DEF Mapped
          <6>2. d = b => a \in M(b)
            BY <4>2, <5>1, <6>1, Zenon DEF M
          <6>3. QED
            BY <2>3, <6>2, Zenon
        <5>4. QED
          BY <2>2, <5>1, <5>2, <5>3 DEF Vmas
      <4>3. QED
        BY <4>1, <4>2
    <3>2. QED
      BY <1>5, <3>1
  <2>7. held' \in [Requests -> {None} \cup live']
    <3>1. ASSUME NEW r \in Requests PROVE held'[r] \in {None} \cup live'
      <4>1. held'[r] # b
        BY <2>3 DEF S
      <4>2. held'[r] = None \/ held'[r] \in live
        BY <1>1, <1>5
      <4>3. QED
        BY <2>2, <4>1, <4>2
    <3>2. QED
      BY <1>5, <3>1
  <2>8. call' \in [Threads -> Calls']
    <3>1. ASSUME NEW t \in Threads PROVE call'[t] \in Calls'
      <4>1. call'[t] \in Calls
        OBVIOUS
      <4>2. call'[t].at = "mmap" => call'[t].block # b
        <5>1. ASSUME call'[t].at = "mmap" PROVE call'[t].block # b
          <6>1. call[t].at = "mmap" /\ call'[t] = call[t]
            BY <5>1, Zenon DEF SameMaps
          <6>2. call[t].file \in Files
            BY <6>1, CallKinds, Zenon DEF MemInv
          <6>3. call[t].block \in ToSet(busy[call[t].file])
            BY <6>1, Zenon DEF MemInv, BusyInv
          <6>4. QED
            BY <2>4, <6>1, <6>2, <6>3, Zenon
        <5>2. QED
          BY <5>1
      <4>3. QED
        BY <2>2, <4>1, <4>2 DEF Calls
    <3>2. QED
      BY <3>1
  <2>9. refs' \in [live' -> Nat \ {0}] /\ \A c \in live' : refs'[c] = refs[c]
    BY <1>1, <2>1, <2>2
  <2>10. open' \subseteq Files /\ failed' \subseteq live' /\ leaked' \subseteq failed'
    BY <1>1, <2>1, <2>2 DEF MemInv, KindInv
  <2>11. KindInv'
    BY <2>5, <2>6, <2>7, <2>8, <2>9, <2>10, Zenon DEF KindInv
  <2>12. BusyInv'
    BY <2>1, <2>3, BusyFrame, Zenon DEF MemInv
  <2>13. ASSUME NEW c \in live' PROVE refs'[c] = Count(c)'
    <3>1. c \in live /\ c # b
      BY <2>2
    <3>2. Leaking(c)' = Leaking(c)
      BY <2>1, <3>1 DEF Leaking
    <3>3. Count(c)' = Count(c)
      BY <1>7, <3>1, <3>2 DEF Count
    <3>4. QED
      BY <2>9, <3>1, <3>3, Zenon DEF MemInv, CountInv
  <2>14. QED
    BY <2>11, <2>12, <2>13, Zenon DEF MemInv, CountInv
<1>10. QED
  BY <1>8, <1>9

\* A block gets a mapping at an address that is free.
Maps(a, f, b) == vma[a] = None /\ vma' = [vma EXCEPT ![a] = Mapped(f, b)]

\* The mapping is one more holder of the block.
LEMMA MapsAt ==
  ASSUME KindInv, NEW a \in Addrs, NEW f \in Files, NEW b \in live, Maps(a, f, b)
  PROVE  /\ vma' \in [Addrs -> Vmas]
         /\ a \notin Mapping(b) /\ Mapping(b)' = Mapping(b) \cup {a}
         /\ \A c : c # b => Mapping(c)' = Mapping(c)
<1>1. vma \in [Addrs -> Vmas]
  BY DEF KindInv
<1>2. /\ vma'[a] = Mapped(f, b) /\ \A d \in Addrs : d # a => vma'[d] = vma[d]
      /\ vma[a] = None
  BY <1>1 DEF Maps
<1>3. Mapped(f, b) \in Vmas
  BY DEF Vmas
<1>4. vma' \in [Addrs -> Vmas]
  BY <1>1, <1>3 DEF Maps
<1>5. Mapped(f, b) # None /\ Mapped(f, b).block = b
  BY MappedIsSome, Zenon
<1>6. a \notin Mapping(b)
  BY <1>2, Zenon DEF Mapping
<1>7. ASSUME NEW c PROVE Mapping(c)' = IF c = b THEN Mapping(b) \cup {a} ELSE Mapping(c)
  <2>1. Mapping(c)' = {d \in Addrs : vma'[d] # None /\ vma'[d].block = c}
    BY DEF Mapping
  <2>2. CASE c = b
    <3>1. {d \in Addrs : vma'[d] # None /\ vma'[d].block = b} = Mapping(b) \cup {a}
      BY <1>2, <1>5, Zenon DEF Mapping
    <3>2. QED
      BY <2>1, <2>2, <3>1, Zenon
  <2>3. CASE c # b
    <3>1. {d \in Addrs : vma'[d] # None /\ vma'[d].block = c} = Mapping(c)
      BY <1>2, <1>5, <2>3, Zenon DEF Mapping
    <3>2. QED
      BY <2>1, <2>3, <3>1, Zenon
  <2>4. QED
    BY <2>2, <2>3, Zenon
<1>8. QED
  BY <1>4, <1>6, <1>7, Zenon

\* A request takes a block.
LEMMA SharesWith ==
  ASSUME KindInv, PoolInv, NEW r \in Requests, held[r] = None, NEW b \in live,
         held' = [held EXCEPT ![r] = b]
  PROVE  /\ held' \in [Requests -> {None} \cup live]
         /\ r \notin Sharing(b) /\ Sharing(b)' = Sharing(b) \cup {r}
         /\ \A c \in live : c # b => Sharing(c)' = Sharing(c)
<1>1. held \in [Requests -> {None} \cup live]
  BY DEF KindInv
<1>2. held'[r] = b /\ \A q \in Requests : q # r => held'[q] = held[q]
  BY <1>1
<1>3. held' \in [Requests -> {None} \cup live]
  BY <1>1
<1>4. r \notin Sharing(b)
  BY NoneIsNoBlock, Zenon DEF Sharing
<1>5. \A c : Sharing(c)' = {q \in Requests : held'[q] = c}
  BY DEF Sharing
<1>6. {q \in Requests : held'[q] = b} = Sharing(b) \cup {r}
  BY <1>2, Zenon DEF Sharing
<1>7. \A c \in live : c # b => {q \in Requests : held'[q] = c} = Sharing(c)
  BY <1>2, NoneIsNoBlock, Zenon DEF Sharing
<1>8. QED
  BY <1>3, <1>4, <1>5, <1>6, <1>7, Zenon

\* Getting a reference: block b gets one more mapping or request.
LEMMA GetPreserves ==
  ASSUME PoolInv, MemInv, NEW b \in live, xrp_allocation_get(b), UNCHANGED <<open, busy, call>>,
         \/ \E a \in Addrs, f \in Files : Maps(a, f, b) /\ held' = held
         \/ \E r \in Requests : held[r] = None /\ held' = [held EXCEPT ![r] = b] /\ vma' = vma
  PROVE  MemInv'
<1>1. /\ KindInv /\ BusyInv /\ CountInv
      /\ vma \in [Addrs -> Vmas] /\ held \in [Requests -> {None} \cup live]
      /\ refs \in [live -> Nat \ {0}] /\ busy \in [Files -> Seq(live)] /\ call \in [Threads -> Calls]
      /\ open \subseteq Files /\ failed \subseteq live /\ leaked \subseteq failed
  BY DEF MemInv, KindInv
<1>2. /\ live' = live /\ failed' = failed /\ leaked' = leaked
      /\ refs' = [refs EXCEPT ![b] = @ + 1]
  BY DEF xrp_allocation_get, vars
<1>3. /\ refs' \in [live -> Nat \ {0}] /\ refs'[b] = refs[b] + 1
      /\ \A c \in live : c # b => refs'[c] = refs[c]
  BY <1>1, <1>2
<1>4. \A c : Queueing(c)' = Queueing(c) /\ Leaking(c)' = Leaking(c)
  BY <1>2 DEF Queueing, Leaking
<1> DEFINE OneMoreHolder ==
             /\ vma' \in [Addrs -> Vmas] /\ held' \in [Requests -> {None} \cup live]
             /\ \A c \in live : c # b => Mapping(c)' = Mapping(c) /\ Sharing(c)' = Sharing(c)
             /\ \/ \E a : /\ a \notin Mapping(b) /\ Mapping(b)' = Mapping(b) \cup {a}
                          /\ Sharing(b)' = Sharing(b)
                \/ \E r : /\ r \notin Sharing(b) /\ Sharing(b)' = Sharing(b) \cup {r}
                          /\ Mapping(b)' = Mapping(b)
<1>5. OneMoreHolder
  <2>1. ASSUME NEW a \in Addrs, NEW f \in Files, Maps(a, f, b), held' = held
        PROVE  OneMoreHolder
    <3>1. \A c : Sharing(c)' = Sharing(c)
      BY <2>1 DEF Sharing
    <3>2. /\ vma' \in [Addrs -> Vmas]
          /\ a \notin Mapping(b) /\ Mapping(b)' = Mapping(b) \cup {a}
          /\ \A c : c # b => Mapping(c)' = Mapping(c)
      BY <1>1, <2>1, MapsAt, Zenon
    <3>3. held' \in [Requests -> {None} \cup live]
      BY <1>1, <2>1
    <3>4. QED
      BY <3>1, <3>2, <3>3, Zenon
  <2>2. ASSUME NEW r \in Requests, held[r] = None, held' = [held EXCEPT ![r] = b], vma' = vma
        PROVE  OneMoreHolder
    <3>1. \A c : Mapping(c)' = Mapping(c)
      BY <2>2 DEF Mapping
    <3>2. QED
      BY <1>1, <2>2, <3>1, SharesWith, Zenon
  <2>3. QED
    BY <2>1, <2>2, Zenon
<1>6. KindInv'
  <2>1. Vmas' = Vmas /\ Calls' = Calls
    BY <1>2 DEF Vmas, Calls
  <2>2. QED
    BY <1>1, <1>2, <1>3, <1>5, <2>1, Zenon DEF KindInv
<1>7. BusyInv'
  <2>1. SameMaps
    BY Zenon DEF SameMaps
  <2>2. QED
    BY <1>1, <1>2, <2>1, BusyFrame, Zenon
<1>8. ASSUME NEW c \in live PROVE refs'[c] = Count(c)'
  <2>1. CASE c # b
    <3>1. Count(c)' = Count(c)
      BY <1>4, <1>5, <2>1 DEF Count
    <3>2. QED
      BY <1>1, <1>3, <2>1, <3>1, Zenon DEF CountInv
  <2>2. CASE c = b
    <3>1. PICK m \in Nat, s \in Nat, q \in Nat, k \in Nat :
            /\ m = Cardinality(Mapping(b)) /\ s = Cardinality(Sharing(b))
            /\ q = Cardinality(Queueing(b)) /\ k = Leaking(b)
      BY HoldersFinite, Zenon
    <3>2. \/ Cardinality(Mapping(b)') = m + 1 /\ Cardinality(Sharing(b)') = s
          \/ Cardinality(Sharing(b)') = s + 1 /\ Cardinality(Mapping(b)') = m
      BY <1>5, <3>1, HoldersFinite, OneMore, Zenon
    <3>3. Count(b)' = Cardinality(Mapping(b)') + Cardinality(Sharing(b)') + q + k
      BY <1>4, <3>1 DEF Count
    <3>4. refs[b] = m + s + q + k
      BY <1>1, <3>1, Zenon DEF CountInv, Count
    <3>5. Count(b)' = refs[b] + 1
      BY <3>2, <3>3, <3>4
    <3>6. QED
      BY <1>3, <2>2, <3>5
  <2>3. QED
    BY <2>1, <2>2
<1>9. QED
  BY <1>2, <1>6, <1>7, <1>8, Zenon DEF MemInv, CountInv

----------------------------------------------------------------------------
(* A block leaves the busy list.                                           *)

\* No element is twice in s.
Distinct(s) == \A i, j \in 1..Len(s) : s[i] = s[j] => i = j

\* t is s without its i-th element.
Without(t, s, i) ==
  Len(t) = Len(s) - 1 /\ \A j \in 1..(Len(s) - 1) : t[j] = IF j < i THEN s[j] ELSE s[j + 1]

\* What is before and what is after the i-th element make up such a sequence.
LEMMA RemovesOne ==
  ASSUME NEW S, NEW s \in Seq(S), NEW i \in 1..Len(s)
  PROVE  LET t == SubSeq(s, 1, i - 1) \o SubSeq(s, i + 1, Len(s)) IN t \in Seq(S) /\ Without(t, s, i)
<1> DEFINE p == SubSeq(s, 1, i - 1)
           q == SubSeq(s, i + 1, Len(s))
           t == p \o q
<1>1. PICK n \in Nat : n = Len(s)
  OBVIOUS
<1>2. i \in 1..(n + 1) /\ i + 1 \in 1..(n + 1) /\ i \in Nat /\ i <= n /\ i >= 1
  BY <1>1
<1>3. p \in Seq(S) /\ Len(p) = i - 1 /\ \A j \in 1..(i - 1) : p[j] = s[j]
  BY <1>1, <1>2, FirstElements, Zenon
<1>4. /\ q \in Seq(S) /\ Len(q) = n - (i + 1) + 1
      /\ \A j \in 1..(n - (i + 1) + 1) : q[j] = s[i + 1 + j - 1]
  BY <1>1, <1>2, LastElements, Zenon
<1> HIDE DEF p, q
<1>5. /\ t \in Seq(S) /\ Len(t) = Len(p) + Len(q)
      /\ \A j \in 1..(Len(p) + Len(q)) : t[j] = IF j <= Len(p) THEN p[j] ELSE q[j - Len(p)]
  BY <1>3, <1>4, ConcatElements, Zenon
<1> HIDE DEF t
<1>6. Len(p) = i - 1 /\ Len(q) = n - i /\ Len(p) + Len(q) = n - 1
  <2>1. n - (i + 1) + 1 = n - i /\ (i - 1) + (n - i) = n - 1
    BY <1>2
  <2>2. QED
    BY <1>3, <1>4, <2>1, Zenon
<1>7. ASSUME NEW j \in 1..(n - 1)
      PROVE  t[j] = IF j < i THEN s[j] ELSE s[j + 1]
  <2>1. t[j] = IF j <= i - 1 THEN p[j] ELSE q[j - (i - 1)]
    BY <1>5, <1>6, Zenon
  <2>2. CASE j < i
    <3>1. j <= i - 1 /\ j \in 1..(i - 1)
      BY <1>2, <2>2
    <3>2. QED
      BY <1>3, <2>1, <2>2, <3>1, Zenon
  <2>3. CASE ~(j < i)
    <3>1. /\ ~(j <= i - 1) /\ j - (i - 1) \in 1..(n - (i + 1) + 1)
          /\ i + 1 + (j - (i - 1)) - 1 = j + 1
      BY <1>2, <2>3
    <3>2. q[j - (i - 1)] = s[i + 1 + (j - (i - 1)) - 1]
      BY <1>4, <3>1, Zenon
    <3>3. QED
      BY <2>1, <2>3, <3>1, <3>2, Zenon
  <2>4. QED
    BY <2>2, <2>3, Zenon
<1>8. t \in Seq(S) /\ Without(t, s, i)
  BY <1>1, <1>5, <1>6, <1>7, Zenon DEF Without
<1>9. QED
  BY <1>8, Zenon DEF t, p, q

\* Which elements it has.
LEMMA RemoveFrom ==
  ASSUME NEW S, NEW s \in Seq(S), Distinct(s), NEW i \in 1..Len(s), NEW t \in Seq(S), Without(t, s, i)
  PROVE  Distinct(t) /\ ToSet(t) = ToSet(s) \ {s[i]}
<1> DEFINE old(k) == IF k < i THEN k ELSE k + 1
<1>1. PICK n \in Nat : n = Len(s)
  OBVIOUS
<1>2. Len(t) = n - 1 /\ i \in 1..n
  BY <1>1, Zenon DEF Without
<1>3. /\ \A k \in 1..(n - 1) : old(k) \in 1..n /\ old(k) # i
      /\ \A j, k \in 1..(n - 1) : old(j) = old(k) => j = k
      /\ \A m \in 1..n : m = i \/ \E k \in 1..(n - 1) : old(k) = m
  <2>1. /\ \A k \in 1..(n - 1) : old(k) \in 1..n /\ old(k) # i
        /\ \A j, k \in 1..(n - 1) : old(j) = old(k) => j = k
    BY <1>2
  <2>2. ASSUME NEW m \in 1..n, m # i PROVE \E k \in 1..(n - 1) : old(k) = m
    <3>1. CASE m < i
      <4>1. m \in 1..(n - 1) /\ old(m) = m
        BY <1>2, <3>1
      <4>2. QED
        BY <4>1
    <3>2. CASE m > i
      <4>1. m - 1 \in 1..(n - 1) /\ old(m - 1) = m
        BY <1>2, <3>2
      <4>2. QED
        BY <4>1
    <3>3. QED
      BY <1>2, <2>2, <3>1, <3>2
  <2>3. QED
    BY <2>1, <2>2, Zenon
<1>4. \A k \in 1..(n - 1) : t[k] = s[old(k)]
  BY <1>1, Zenon DEF Without
<1> HIDE DEF old
<1>5. Distinct(t)
  <2>1. ASSUME NEW j \in 1..(n - 1), NEW k \in 1..(n - 1), t[j] = t[k] PROVE j = k
    <3>1. s[old(j)] = s[old(k)] /\ old(j) \in 1..Len(s) /\ old(k) \in 1..Len(s)
      BY <1>1, <1>3, <1>4, <2>1, Zenon
    <3>2. old(j) = old(k)
      BY <3>1, Zenon DEF Distinct
    <3>3. QED
      BY <1>3, <3>2, Zenon
  <2>2. QED
    BY <1>2, <2>1, Zenon DEF Distinct
<1>6. ToSet(t) = {t[k] : k \in 1..(n - 1)} /\ ToSet(s) = {s[k] : k \in 1..n}
  <2>1. ToSet(t) = {t[k] : k \in 1..Len(t)} /\ ToSet(s) = {s[k] : k \in 1..Len(s)}
    BY ToSetOf
  <2>2. QED
    BY <1>1, <1>2, <2>1, Zenon
<1>7. ASSUME NEW k \in 1..(n - 1) PROVE t[k] \in ToSet(s) /\ t[k] # s[i]
  BY <1>1, <1>2, <1>3, <1>4, <1>6, Zenon DEF Distinct
<1>8. ASSUME NEW m \in 1..n, s[m] # s[i] PROVE s[m] \in ToSet(t)
  <2>1. PICK k \in 1..(n - 1) : old(k) = m
    BY <1>3, <1>8, Zenon
  <2>2. QED
    BY <1>4, <1>6, <2>1, Zenon
<1>9. ToSet(t) = ToSet(s) \ {s[i]}
  BY <1>6, <1>7, <1>8, Zenon
<1>10. QED
  BY <1>5, <1>9

\* The list of file f loses block b.
TakesOff(f, b) ==
  /\ busy' \in [Files -> Seq(live)] /\ Distinct(busy'[f])
  /\ ToSet(busy'[f]) = ToSet(busy[f]) \ {b}
  /\ \A g \in Files : g # f => busy'[g] = busy[g]

\* Looking for the addresses of a block finds this block and no other: blocks
\* that are handed out do not overlap.
LEMMA DequeueFinds ==
  ASSUME PoolInv, KindInv, NEW f \in Files, Distinct(busy[f]), NEW b \in ToSet(busy[f])
  PROVE  \E i \in 1..Len(busy[f]) : busy[f][i] = b /\ xrp_allocation_dequeue(f, b.start, b.size) = {i}
<1> DEFINE s == busy[f]
<1>1. s \in Seq(live)
  BY DEF KindInv
<1>2. /\ ToSet(s) = {s[j] : j \in 1..Len(s)} /\ ToSet(s) \subseteq live /\ DOMAIN s = 1..Len(s)
      /\ \A j \in 1..Len(s) : s[j] \in live
  BY <1>1, ToSetOf
<1>3. PICK i \in 1..Len(s) : s[i] = b
  BY <1>2, Zenon
<1>4. ASSUME NEW j \in 1..Len(s), b.start >= s[j].start, b.start + b.size - s[j].start <= s[j].size
      PROVE  s[j] = b
  <2>1. SUFFICES ASSUME s[j] # b PROVE FALSE
    OBVIOUS
  <2>2. Apart(b, s[j]) /\ InPool(b) /\ InPool(s[j])
    BY <1>2, <2>1, Zenon DEF PoolInv
  <2>3. PICK c : c = s[j]
    OBVIOUS
  <2>4. /\ b.start \in Nat /\ b.size \in Nat /\ b.size > 0 /\ End(b) = b.start + b.size
        /\ c.start \in Nat /\ c.size \in Nat /\ c.size > 0 /\ End(c) = c.start + c.size
    BY <2>2, <2>3, BlockBounds, Zenon
  <2>5. End(b) <= c.start \/ End(c) <= b.start
    BY <2>2, <2>3, Zenon DEF Apart
  <2>6. b.start >= c.start /\ b.start + b.size - c.start <= c.size
    BY <1>4, <2>3, Zenon
  <2>7. QED
    BY <2>4, <2>5, <2>6
<1>5. b.start >= b.start /\ b.start + b.size - b.start <= b.size
  <2>1. InPool(b)
    BY <1>2, Zenon DEF PoolInv
  <2>2. b.start \in Nat /\ b.size \in Nat
    BY <2>1, BlockBounds, Zenon
  <2>3. QED
    BY <2>2
<1>6. xrp_allocation_dequeue(f, b.start, b.size) = {i}
  BY <1>2, <1>3, <1>4, <1>5, Zenon DEF xrp_allocation_dequeue, Distinct
<1>7. QED
  BY <1>3, <1>6, Zenon

\* What mmap does with a block that is on the list: it takes it off, and maps
\* it or loses it.
LEMMA MmapTakesOff ==
  ASSUME PoolInv, MemInv, NEW f \in Files, NEW b \in ToSet(busy[f]), NEW a, NEW result,
         xvp_mmap(f, b.start, b.size, a, result)
  PROVE  /\ TakesOff(f, b)
         /\ \/ /\ result = a /\ vma' = [vma EXCEPT ![a] = Mapped(f, b)]
               /\ failed' = failed /\ leaked' = leaked
            \/ /\ result = Nowhere /\ vma' = vma
               /\ failed' = failed \cup {b} /\ leaked' = leaked \cup {b}
<1> DEFINE s == busy[f]
           found == xrp_allocation_dequeue(f, b.start, b.size)
<1>1. KindInv /\ busy \in [Files -> Seq(live)] /\ s \in Seq(live) /\ Distinct(s)
  BY DEF MemInv, KindInv, BusyInv, Distinct
<1>2. PICK i \in 1..Len(s) : s[i] = b /\ found = {i}
  BY <1>1, DequeueFinds, Zenon
<1>3. Min(found) = i
  <2>1. Len(s) \in Nat
    BY <1>1
  <2>2. {i} \subseteq Nat /\ {i} # {}
    BY <2>1
  <2>3. Min({i}) \in {i}
    BY <2>2, MinProperty, Zenon
  <2>4. QED
    BY <1>2, <2>3
<1> HIDE DEF found
<1>4. /\ busy' = [busy EXCEPT ![f] = SubSeq(@, 1, i - 1) \o SubSeq(@, i + 1, Len(@))]
      /\ \/ /\ result = a /\ vma' = [vma EXCEPT ![a] = Mapped(f, b)]
            /\ failed' = failed /\ leaked' = leaked
         \/ /\ result = Nowhere /\ vma' = vma
            /\ failed' = failed \cup {b} /\ leaked' = leaked \cup {b}
  BY <1>2, <1>3 DEF xvp_mmap, found
<1>5. /\ busy'[f] = SubSeq(s, 1, i - 1) \o SubSeq(s, i + 1, Len(s))
      /\ \A g \in Files : g # f => busy'[g] = busy[g]
      /\ DOMAIN busy' = Files /\ busy' = [g \in Files |-> busy'[g]]
  BY <1>1, <1>4
<1>6. /\ busy'[f] \in Seq(live) /\ Distinct(busy'[f]) /\ ToSet(busy'[f]) = ToSet(s) \ {b}
  <2>1. /\ SubSeq(s, 1, i - 1) \o SubSeq(s, i + 1, Len(s)) \in Seq(live)
        /\ Without(SubSeq(s, 1, i - 1) \o SubSeq(s, i + 1, Len(s)), s, i)
    BY <1>1, <1>2, RemovesOne, Zenon
  <2>2. busy'[f] \in Seq(live) /\ Without(busy'[f], s, i)
    BY <1>5, <2>1, Zenon
  <2>3. QED
    BY <1>1, <1>2, <2>2, RemoveFrom, Zenon
<1>7. busy' \in [Files -> Seq(live)]
  BY <1>1, <1>5, <1>6
<1>8. QED
  BY <1>4, <1>5, <1>6, <1>7, Zenon DEF TakesOff

\* The thread that was to map block b goes on; the others are where they were.
LeavesMaps(b) ==
  \A t \in Threads : IF MapsSoon(t, b) THEN call'[t].at # "mmap" ELSE call'[t] = call[t]

\* The busy lists when b has left that of f.
LEMMA TakeOffBusy ==
  ASSUME MemInv, NEW f \in Files, NEW b \in ToSet(busy[f]), TakesOff(f, b), LeavesMaps(b),
         open' = open, failed \subseteq failed', leaked' \subseteq leaked \cup {b}
  PROVE  BusyInv'
<1>1. /\ \A g \in Files : Distinct(busy[g])
      /\ \A g, h \in Files : \A c : c \in ToSet(busy[g]) /\ c \in ToSet(busy[h]) => g = h
      /\ \A g \in Files : \A c \in ToSet(busy[g]) :
           /\ g \in open /\ c \notin leaked
           /\ c \in failed \/ \E t \in Threads : MapsSoon(t, c)
      /\ \A t \in Threads : call[t].at = "mmap" => call[t].block \in ToSet(busy[call[t].file])
      /\ \A t, u \in Threads : \A c : MapsSoon(t, c) /\ MapsSoon(u, c) => t = u
  BY Zenon DEF MemInv, BusyInv, Distinct
<1>2. /\ \A g \in Files : Distinct(busy'[g])
      /\ \A g \in Files : \A c \in ToSet(busy'[g]) : c \in ToSet(busy[g]) /\ c # b
      /\ \A g \in Files : \A c \in ToSet(busy[g]) : c # b => c \in ToSet(busy'[g])
  BY <1>1, Zenon DEF TakesOff
<1>3. \A t \in Threads : \A c : c # b /\ MapsSoon(t, c) => MapsSoon(t, c)'
  BY Zenon DEF MapsSoon, LeavesMaps
<1>4. \A t \in Threads : call'[t].at = "mmap" => call'[t] = call[t] /\ call[t].block # b
  BY Zenon DEF MapsSoon, LeavesMaps
<1>5. \A t \in Threads : \A c : MapsSoon(t, c)' => MapsSoon(t, c)
  BY <1>4, Zenon DEF MapsSoon
<1>6. \A g, h \in Files : \A c : c \in ToSet(busy'[g]) /\ c \in ToSet(busy'[h]) => g = h
  BY <1>1, <1>2, Zenon
<1>7. \A g \in Files : \A c \in ToSet(busy'[g]) :
        /\ g \in open' /\ c \notin leaked'
        /\ c \in failed' \/ \E t \in Threads : MapsSoon(t, c)'
  <2> SUFFICES ASSUME NEW g \in Files, NEW c \in ToSet(busy'[g])
               PROVE  /\ g \in open' /\ c \notin leaked'
                      /\ c \in failed' \/ \E t \in Threads : MapsSoon(t, c)'
    BY Zenon
  <2>1. c \in ToSet(busy[g]) /\ c # b
    BY <1>2, Zenon
  <2>2. g \in open /\ c \notin leaked /\ (c \in failed \/ \E t \in Threads : MapsSoon(t, c))
    BY <1>1, <2>1, Zenon
  <2>3. c \in failed' \/ \E t \in Threads : MapsSoon(t, c)'
    BY <1>3, <2>1, <2>2, Zenon
  <2>4. QED
    BY <2>1, <2>2, <2>3, Zenon
<1>8. \A t \in Threads : call'[t].at = "mmap" => call'[t].block \in ToSet(busy'[call'[t].file])
  <2> SUFFICES ASSUME NEW t \in Threads, call'[t].at = "mmap"
               PROVE  call'[t].block \in ToSet(busy'[call'[t].file])
    OBVIOUS
  <2>1. call'[t] = call[t] /\ call[t].block # b /\ call[t].at = "mmap"
    BY <1>4, Zenon
  <2>2. call[t].file \in Files
    BY <2>1, CallKinds, Zenon DEF MemInv
  <2>3. QED
    BY <1>1, <1>2, <2>1, <2>2, Zenon
<1>9. \A t, u \in Threads : \A c : MapsSoon(t, c)' /\ MapsSoon(u, c)' => t = u
  BY <1>1, <1>5, Zenon
<1>10. \A g \in Files : \A i, j \in 1..Len(busy'[g]) : busy'[g][i] = busy'[g][j] => i = j
  BY <1>2, Zenon DEF Distinct
<1>11. QED
  BY <1>6, <1>7, <1>8, <1>9, <1>10, Zenon DEF BusyInv, ToSet

\* A block leaves the list of its file and is mapped, or lost.
LEMMA TakeOffPreserves ==
  ASSUME PoolInv, MemInv, NEW f \in Files, NEW b \in ToSet(busy[f]), TakesOff(f, b), LeavesMaps(b),
         call' \in [Threads -> Calls], UNCHANGED <<vars, open, refs, held>>, NEW a \in Addrs,
         \/ Maps(a, f, b) /\ failed' = failed /\ leaked' = leaked
         \/ vma' = vma /\ failed' = failed \cup {b} /\ leaked' = leaked \cup {b}
  PROVE  MemInv'
<1>1. /\ KindInv /\ BusyInv /\ CountInv
      /\ vma \in [Addrs -> Vmas] /\ held \in [Requests -> {None} \cup live]
      /\ refs \in [live -> Nat \ {0}] /\ busy \in [Files -> Seq(live)]
      /\ open \subseteq Files /\ failed \subseteq live /\ leaked \subseteq failed
  BY DEF MemInv, KindInv
<1>2. live' = live /\ refs' = refs /\ held' = held /\ open' = open
  BY DEF vars
<1>3. b \in live
  <2>1. busy[f] \in Seq(live)
    BY <1>1
  <2>2. QED
    BY <2>1, ToSetOf, Zenon
<1>4. b \notin leaked
  BY <1>1, Zenon DEF BusyInv
<1>5. /\ \A c : Sharing(c)' = Sharing(c)
      /\ \A c : Queueing(c)' = {g \in Files : c \in ToSet(busy'[g])}
      /\ \A c : Leaking(c)' = IF c \in leaked' THEN 1 ELSE 0
  BY <1>2 DEF Sharing, Queueing, Leaking, ToSet
<1>6. \A c : c # b => Queueing(c)' = Queueing(c)
  <2> SUFFICES ASSUME NEW c, c # b PROVE {g \in Files : c \in ToSet(busy'[g])} = Queueing(c)
    BY <1>5, Zenon
  <2>1. \A g \in Files : c \in ToSet(busy'[g]) <=> c \in ToSet(busy[g])
    BY Zenon DEF TakesOff
  <2>2. QED
    BY <2>1, Zenon DEF Queueing
<1>7. f \in Queueing(b) /\ Queueing(b)' = Queueing(b) \ {f}
  <2>1. \A g \in Files : b \in ToSet(busy'[g]) <=> b \in ToSet(busy[g]) /\ g # f
    BY Zenon DEF TakesOff
  <2>2. {g \in Files : b \in ToSet(busy'[g])} = Queueing(b) \ {f}
    BY <2>1, Zenon DEF Queueing
  <2>3. QED
    BY <1>5, <2>2, Zenon DEF Queueing
<1>8. BusyInv'
  <2>1. failed \subseteq failed' /\ leaked' \subseteq leaked \cup {b}
    BY Zenon
  <2>2. QED
    BY <1>2, <2>1, TakeOffBusy, Zenon
<1>9. Vmas' = Vmas /\ Calls' = Calls
  BY <1>2 DEF Vmas, Calls
<1>10. busy' \in [Files -> Seq(live)]
  BY DEF TakesOff
<1>11. CASE Maps(a, f, b) /\ failed' = failed /\ leaked' = leaked
  <2>1. /\ vma' \in [Addrs -> Vmas]
        /\ a \notin Mapping(b) /\ Mapping(b)' = Mapping(b) \cup {a}
        /\ \A c : c # b => Mapping(c)' = Mapping(c)
    <3>1. KindInv /\ Maps(a, f, b)
      BY <1>1, <1>11
    <3>2. QED
      BY <1>3, <3>1, MapsAt, Zenon
  <2>2. KindInv'
    BY <1>1, <1>2, <1>9, <1>10, <1>11, <2>1, Zenon DEF KindInv
  <2>3. ASSUME NEW c \in live PROVE Count(c)' = Count(c)
    <3>1. Leaking(c)' = Leaking(c)
      BY <1>11 DEF Leaking
    <3>2. CASE c # b
      BY <1>5, <1>6, <2>1, <3>1, <3>2 DEF Count
    <3>3. CASE c = b
      <4>1. PICK m \in Nat, q \in Nat : m = Cardinality(Mapping(b)) /\ q = Cardinality(Queueing(b))
        BY HoldersFinite, Zenon
      <4>2. Cardinality(Mapping(b)') = m + 1
        BY <2>1, <4>1, HoldersFinite, OneMore, Zenon
      <4>3. Cardinality(Queueing(b)') = q - 1
        BY <1>7, <4>1, HoldersFinite, OneLess, Zenon
      <4>4. PICK s \in Nat, k \in Nat : s = Cardinality(Sharing(b)) /\ k = Leaking(b)
        BY HoldersFinite, Zenon
      <4>5. Count(b)' = (m + 1) + s + (q - 1) + k
        BY <1>5, <3>1, <3>3, <4>2, <4>3, <4>4 DEF Count
      <4>6. Count(b) = m + s + q + k
        BY <4>1, <4>4, Zenon DEF Count
      <4>7. (m + 1) + s + (q - 1) + k = m + s + q + k
        OBVIOUS
      <4>8. QED
        BY <3>3, <4>5, <4>6, <4>7, Zenon
    <3>4. QED
      BY <3>2, <3>3
  <2>4. QED
    BY <1>1, <1>2, <1>8, <2>2, <2>3, Zenon DEF MemInv, CountInv
<1>12. CASE vma' = vma /\ failed' = failed \cup {b} /\ leaked' = leaked \cup {b}
  <2>1. \A c : Mapping(c)' = Mapping(c)
    BY <1>12 DEF Mapping
  <2>2. failed' \subseteq live /\ leaked' \subseteq failed' /\ vma' \in [Addrs -> Vmas]
    BY <1>1, <1>3, <1>12
  <2>3. KindInv'
    BY <1>1, <1>2, <1>9, <1>10, <2>2, Zenon DEF KindInv
  <2>4. ASSUME NEW c \in live PROVE Count(c)' = Count(c)
    <3>1. CASE c # b
      <4>1. Leaking(c)' = Leaking(c)
        BY <1>12, <3>1 DEF Leaking
      <4>2. QED
        BY <1>5, <1>6, <2>1, <3>1, <4>1 DEF Count
    <3>2. CASE c = b
      <4>1. Leaking(b) = 0 /\ Leaking(b)' = 1
        BY <1>4, <1>12, <3>2 DEF Leaking
      <4>2. PICK m \in Nat, s \in Nat, q \in Nat :
              /\ m = Cardinality(Mapping(b)) /\ s = Cardinality(Sharing(b))
              /\ q = Cardinality(Queueing(b))
        BY HoldersFinite, Zenon
      <4>3. Cardinality(Queueing(b)') = q - 1
        BY <1>7, <4>2, HoldersFinite, OneLess, Zenon
      <4>4. Count(b)' = m + s + (q - 1) + 1
        BY <1>5, <2>1, <3>2, <4>1, <4>2, <4>3 DEF Count
      <4>5. Count(b) = m + s + q + 0
        BY <4>1, <4>2, Zenon DEF Count
      <4>6. m + s + (q - 1) + 1 = m + s + q + 0
        OBVIOUS
      <4>7. QED
        BY <3>2, <4>4, <4>5, <4>6, Zenon
    <3>3. QED
      BY <3>1, <3>2
  <2>5. QED
    BY <1>1, <1>2, <1>8, <2>3, <2>4, Zenon DEF MemInv, CountInv
<1>13. QED
  BY <1>11, <1>12, Zenon

----------------------------------------------------------------------------
(* Calls, files and allocations.                                           *)

\* Steps that change nothing but where threads are that do not map.
LEMMA CallOnly ==
  ASSUME MemInv, live' = live, UNCHANGED <<open, refs, busy, vma, held, failed, leaked>>, SameMaps,
         call' \in [Threads -> Calls]
  PROVE  MemInv'
<1>1. Vmas' = Vmas /\ Calls' = Calls
  BY DEF Vmas, Calls
<1>2. KindInv'
  BY <1>1, Zenon DEF MemInv, KindInv
<1>3. BusyInv'
  BY BusyFrame, Zenon DEF MemInv
<1>4. CountInv'
  BY DEF MemInv, CountInv, Count, Mapping, Sharing, Queueing, Leaking
<1>5. QED
  BY <1>2, <1>3, <1>4 DEF MemInv

\* A file is opened.
LEMMA OpenPreserves ==
  ASSUME MemInv, NEW f \in Files, xvp_open(f)
  PROVE  MemInv'
<1>1. /\ open' = open \cup {f}
      /\ live' = live /\ refs' = refs /\ busy' = busy /\ vma' = vma /\ call' = call /\ held' = held
      /\ failed' = failed /\ leaked' = leaked
  BY DEF xvp_open, vars
<1>2. Vmas' = Vmas /\ Calls' = Calls
  BY <1>1 DEF Vmas, Calls
<1>3. open' \subseteq Files
  BY <1>1 DEF MemInv, KindInv
<1>4. KindInv'
  BY <1>1, <1>2, <1>3, Zenon DEF MemInv, KindInv
<1>5. BusyInv'
  <2>1. \A t \in Threads : \A c : MapsSoon(t, c)' <=> MapsSoon(t, c)
    BY <1>1, Zenon DEF MapsSoon
  <2>2. \A g \in Files : \A c \in ToSet(busy[g]) :
          /\ g \in open' /\ c \notin leaked
          /\ c \in failed \/ \E t \in Threads : MapsSoon(t, c)
    BY <1>1, Zenon DEF MemInv, BusyInv
  <2>3. /\ \A g \in Files : \A i, j \in 1..Len(busy'[g]) : busy'[g][i] = busy'[g][j] => i = j
        /\ \A g, h \in Files : \A c : c \in ToSet(busy'[g]) /\ c \in ToSet(busy'[h]) => g = h
    BY <1>1, Zenon DEF MemInv, BusyInv
  <2>4. \A g \in Files : \A c \in ToSet(busy'[g]) :
          /\ g \in open' /\ c \notin leaked'
          /\ c \in failed' \/ \E t \in Threads : MapsSoon(t, c)'
    BY <1>1, <2>1, <2>2, Zenon
  <2>5. /\ \A t \in Threads : call'[t].at = "mmap" => call'[t].block \in ToSet(busy'[call'[t].file])
        /\ \A t, u \in Threads : \A c : MapsSoon(t, c)' /\ MapsSoon(u, c)' => t = u
    BY <1>1, <2>1, Zenon DEF MemInv, BusyInv
  <2>6. QED
    BY <2>3, <2>4, <2>5, Zenon DEF BusyInv, ToSet
<1>6. CountInv'
  BY <1>1 DEF MemInv, CountInv, Count, Mapping, Sharing, Queueing, Leaking
<1>7. QED
  BY <1>4, <1>5, <1>6 DEF MemInv

\* A file is closed: what is on its list has failed to be mapped.
LEMMA ClosePreserves ==
  ASSUME MemInv, NEW f \in Files, xvp_close(f)
  PROVE  MemInv'
<1>1. /\ open' = open \ {f} /\ leaked' = leaked \cup ToSet(busy[f])
      /\ busy' = [busy EXCEPT ![f] = <<>>]
      /\ live' = live /\ refs' = refs /\ vma' = vma /\ call' = call /\ held' = held
      /\ failed' = failed
  BY DEF xvp_close, vars
<1>2. /\ open \subseteq Files /\ busy \in [Files -> Seq(live)] /\ failed \subseteq live
      /\ leaked \subseteq failed /\ KindInv /\ BusyInv /\ CountInv
  BY DEF MemInv, KindInv
<1>3. \A t \in Threads : call[t].at = "mmap" => call[t].file # f /\ call[t].file \in Files
  BY <1>2, CallKinds, Zenon DEF xvp_close, InUse
<1>4. ToSet(busy[f]) \subseteq failed
  <2> SUFFICES ASSUME NEW c \in ToSet(busy[f]), c \notin failed PROVE FALSE
    BY Zenon
  <2>1. PICK t \in Threads : MapsSoon(t, c)
    BY <1>2, Zenon DEF BusyInv
  <2>2. call[t].at = "mmap" /\ c \in ToSet(busy[call[t].file])
    BY <1>2, <2>1, Zenon DEF BusyInv, MapsSoon
  <2>3. QED
    BY <1>2, <1>3, <2>2, Zenon DEF BusyInv
<1>5. busy' \in [Files -> Seq(live)] /\ busy'[f] = <<>> /\ \A g \in Files : g # f => busy'[g] = busy[g]
  BY <1>1, <1>2
<1>6. ToSet(busy'[f]) = {} /\ Len(busy'[f]) = 0
  BY <1>5 DEF ToSet
<1>7. Vmas' = Vmas /\ Calls' = Calls
  BY <1>1 DEF Vmas, Calls
<1>8. open' \subseteq Files /\ leaked' \subseteq failed'
  BY <1>1, <1>2, <1>4
<1>9. KindInv'
  BY <1>1, <1>2, <1>5, <1>7, <1>8, Zenon DEF KindInv
<1>10. BusyInv'
  <2>1. \A t \in Threads : \A c : MapsSoon(t, c)' <=> MapsSoon(t, c)
    BY <1>1, Zenon DEF MapsSoon
  <2>2. \A g \in Files : \A i, j \in 1..Len(busy'[g]) : busy'[g][i] = busy'[g][j] => i = j
    <3>1. 1..Len(busy'[f]) = {}
      BY <1>6
    <3>2. ASSUME NEW g \in Files, g # f
          PROVE  \A i, j \in 1..Len(busy'[g]) : busy'[g][i] = busy'[g][j] => i = j
      BY <1>2, <1>5, <3>2, Zenon DEF BusyInv
    <3>3. QED
      BY <3>1, <3>2, Zenon
  <2>3. \A g, h \in Files : \A c : c \in ToSet(busy'[g]) /\ c \in ToSet(busy'[h]) => g = h
    BY <1>2, <1>5, <1>6, Zenon DEF BusyInv
  <2>4. ASSUME NEW g \in Files, NEW c \in ToSet(busy'[g])
        PROVE  /\ g \in open' /\ c \notin leaked'
               /\ c \in failed' \/ \E t \in Threads : MapsSoon(t, c)'
    <3>1. g # f /\ c \in ToSet(busy[g])
      BY <1>5, <1>6, Zenon
    <3>2. c \notin ToSet(busy[f]) /\ g \in open /\ c \notin leaked
      BY <1>2, <3>1, Zenon DEF BusyInv
    <3>3. c \in failed \/ \E t \in Threads : MapsSoon(t, c)
      BY <1>2, <3>1, Zenon DEF BusyInv
    <3>4. QED
      BY <1>1, <2>1, <3>1, <3>2, <3>3, Zenon
  <2>5. \A t \in Threads : call'[t].at = "mmap" => call'[t].block \in ToSet(busy'[call'[t].file])
    BY <1>1, <1>2, <1>3, <1>5, Zenon DEF BusyInv
  <2>6. \A t, u \in Threads : \A c : MapsSoon(t, c)' /\ MapsSoon(u, c)' => t = u
    BY <1>2, <2>1, Zenon DEF BusyInv
  <2>7. QED
    BY <2>2, <2>3, <2>4, <2>5, <2>6, Zenon DEF BusyInv, ToSet
<1>11. ASSUME NEW c \in live PROVE Count(c)' = Count(c)
  <2>1. Mapping(c)' = Mapping(c) /\ Sharing(c)' = Sharing(c)
    BY <1>1 DEF Mapping, Sharing
  <2>2. Queueing(c)' = {g \in Files : c \in ToSet(busy'[g])}
    BY DEF Queueing, ToSet
  <2>3. CASE c \notin ToSet(busy[f])
    <3>1. {g \in Files : c \in ToSet(busy'[g])} = Queueing(c)
      BY <1>5, <1>6, <2>3, Zenon DEF Queueing
    <3>2. Leaking(c)' = Leaking(c)
      BY <1>1, <2>3 DEF Leaking, ToSet
    <3>3. QED
      BY <2>1, <2>2, <3>1, <3>2 DEF Count
  <2>4. CASE c \in ToSet(busy[f])
    <3>1. f \in Queueing(c) /\ {g \in Files : c \in ToSet(busy'[g])} = Queueing(c) \ {f}
      BY <1>5, <1>6, <2>4, Zenon DEF Queueing
    <3>2. c \notin leaked /\ c \in leaked'
      BY <1>1, <1>2, <2>4, Zenon DEF BusyInv
    <3>3. Leaking(c) = 0 /\ Leaking(c)' = 1
      BY <3>2 DEF Leaking
    <3>4. PICK m \in Nat, s \in Nat, q \in Nat :
            /\ m = Cardinality(Mapping(c)) /\ s = Cardinality(Sharing(c))
            /\ q = Cardinality(Queueing(c))
      BY HoldersFinite, Zenon
    <3>5. Cardinality(Queueing(c)') = q - 1
      BY <2>2, <3>1, <3>4, HoldersFinite, OneLess, Zenon
    <3>6. Count(c)' = m + s + (q - 1) + 1
      BY <2>1, <3>3, <3>4, <3>5 DEF Count
    <3>7. Count(c) = m + s + q + 0
      BY <3>3, <3>4, Zenon DEF Count
    <3>8. m + s + (q - 1) + 1 = m + s + q + 0
      OBVIOUS
    <3>9. QED
      BY <3>6, <3>7, <3>8, Zenon
  <2>5. QED
    BY <2>3, <2>4
<1>12. QED
  BY <1>1, <1>2, <1>9, <1>10, <1>11, Zenon DEF MemInv, CountInv

\* The ioctl finds no room to map its block, which stays on the list.
LEMMA NoRoomPreserves ==
  ASSUME MemInv, NEW t \in Threads, call[t].at = "mmap",
         call' = [call EXCEPT ![t] = [at |-> "copy", file |-> call[t].file, addr |-> Nowhere]],
         failed' = failed \cup {call[t].block}, live' = live,
         UNCHANGED <<open, refs, busy, vma, held, leaked>>
  PROVE  MemInv'
<1>1. /\ call \in [Threads -> Calls] /\ failed \subseteq live /\ leaked \subseteq failed
      /\ KindInv /\ BusyInv /\ CountInv
  BY DEF MemInv, KindInv
<1>2. call[t].file \in Files /\ call[t].block \in live
  BY <1>1, CallKinds, Zenon
<1>3. [at |-> "copy", file |-> call[t].file, addr |-> Nowhere] \in Calls
  BY <1>2 DEF Calls
<1>4. /\ call' \in [Threads -> Calls] /\ call'[t].at = "copy"
      /\ \A u \in Threads : u # t => call'[u] = call[u]
  BY <1>1, <1>3
<1>5. Vmas' = Vmas /\ Calls' = Calls
  BY DEF Vmas, Calls
<1>6. failed' \subseteq live /\ leaked' \subseteq failed'
  BY <1>1, <1>2
<1>7. KindInv'
  BY <1>1, <1>4, <1>5, <1>6, Zenon DEF KindInv
<1>8. BusyInv'
  <2>1. \A u \in Threads : call'[u].at = "mmap" => call'[u] = call[u] /\ u # t
    BY <1>4, Zenon
  <2>2. \A u \in Threads : \A c : MapsSoon(u, c) => MapsSoon(u, c)' \/ c \in failed'
    BY <1>4, Zenon DEF MapsSoon
  <2>3. \A u \in Threads : \A c : MapsSoon(u, c)' => MapsSoon(u, c)
    BY <2>1, Zenon DEF MapsSoon
  <2>4. \A g \in Files : \A c \in ToSet(busy[g]) :
          /\ g \in open /\ c \notin leaked
          /\ c \in failed' \/ \E u \in Threads : MapsSoon(u, c)'
    BY <1>1, <2>2, Zenon DEF BusyInv
  <2>5. \A u \in Threads : call'[u].at = "mmap" => call'[u].block \in ToSet(busy[call'[u].file])
    BY <1>1, <2>1, Zenon DEF BusyInv
  <2>6. \A u, v \in Threads : \A c : MapsSoon(u, c)' /\ MapsSoon(v, c)' => u = v
    BY <1>1, <2>3, Zenon DEF BusyInv
  <2>7. /\ \A g \in Files : \A i, j \in 1..Len(busy'[g]) : busy'[g][i] = busy'[g][j] => i = j
        /\ \A g, h \in Files : \A c : c \in ToSet(busy'[g]) /\ c \in ToSet(busy'[h]) => g = h
    BY <1>1, Zenon DEF BusyInv
  <2>8. /\ \A g \in Files : \A c \in ToSet(busy'[g]) :
             /\ g \in open' /\ c \notin leaked'
             /\ c \in failed' \/ \E u \in Threads : MapsSoon(u, c)'
        /\ \A u \in Threads : call'[u].at = "mmap" => call'[u].block \in ToSet(busy'[call'[u].file])
    BY <2>4, <2>5, Zenon
  <2>9. QED
    BY <2>6, <2>7, <2>8, Zenon DEF BusyInv, ToSet
<1>9. CountInv'
  BY <1>1 DEF CountInv, Count, Mapping, Sharing, Queueing, Leaking
<1>10. QED
  BY <1>7, <1>8, <1>9 DEF MemInv

=============================================================================
