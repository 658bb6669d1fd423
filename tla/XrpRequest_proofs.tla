------------------------- MODULE XrpRequest_proofs -------------------------
(***************************************************************************)
(* Proofs about the memory of a synchronous command, for any number of     *)
(* buffers, any memory and any layout of the caller's blocks: whichever    *)
(* step fails, what was taken is given back exactly once, and only a       *)
(* request whose mapping failed unshares what was never set up.            *)
(***************************************************************************)
EXTENDS XrpRequest, FiniteSetTheorems, TLAPS

TakenTypes == {"native", "gup", "copy", "kcopy"}
Types == TakenTypes \cup {"uninit", "none", "pfn", "kernel"}
Mappings == [type : Types, paddr : Int, size : Nat]

\* The blocks that hold references, and those that hold page f.
TakenIn(map) == {b \in Blocks : map[b].type \in TakenTypes}
UsersOf(f, map) == {b \in TakenIn(map) : f \in Pages(map[b])}

\* A page has one reference for every block that holds it.
Counted(r, map) ==
  /\ r \in [Frames -> Nat]
  /\ \A f \in Frames : r[f] = Cardinality(UsersOf(f, map))

Within(map) == \A b \in TakenIn(map) : Pages(map[b]) \subseteq Frames

CountInv ==
  mapping \in [Blocks -> Mappings] /\ Within(mapping) /\ Counted(ref, mapping)

----------------------------------------------------------------------------
(* Counting references.                                                    *)

\* A request has finitely many blocks.
LEMMA BlocksAreFinite == IsFiniteSet(Blocks)
<1>1. In \in Int /\ Desc \in Int
  BY RequestAssumption DEF In, Desc
<1>2. QED
  BY <1>1, FS_Interval, Zenon DEF Blocks

\* So has a page of finitely many users.
LEMMA UsersAreFinite ==
  ASSUME NEW f, NEW map
  PROVE  IsFiniteSet(UsersOf(f, map))
<1>1. UsersOf(f, map) \subseteq Blocks
  BY Zenon DEF UsersOf, TakenIn
<1>2. QED
  BY <1>1, BlocksAreFinite, FS_Subset, Zenon

\* A block that holds nothing becomes one that holds its pages.
LEMMA GetCounts ==
  ASSUME NEW map \in [Blocks -> Mappings], NEW r, Counted(r, map), Within(map),
         NEW b \in Blocks, b \notin TakenIn(map),
         NEW m \in Mappings, m.type \in TakenTypes, Pages(m) \subseteq Frames,
         NEW s, s = [f \in Frames |-> r[f] + (IF f \in Pages(m) THEN 1 ELSE 0)],
         NEW new, new = [map EXCEPT ![b] = m]
  PROVE  new \in [Blocks -> Mappings] /\ Counted(s, new) /\ Within(new)
<1>1. new \in [Blocks -> Mappings]
  BY Zenon
<1>2. new[b] = m /\ \A c \in Blocks : c # b => new[c] = map[c]
  BY Zenon
<1>3. TakenIn(new) = TakenIn(map) \cup {b}
  BY <1>2, Zenon DEF TakenIn
<1>4. Within(new)
  <2>1. ASSUME NEW c \in TakenIn(new) PROVE Pages(new[c]) \subseteq Frames
    <3>1. CASE c = b
      BY <3>1, <1>2
    <3>2. CASE c # b
      <4>1. c \in TakenIn(map) /\ c \in Blocks
        BY <3>2, <1>3, Zenon DEF TakenIn
      <4>2. QED
        BY <4>1, <3>2, <1>2 DEF Within
    <3>3. QED
      BY <3>1, <3>2
  <2>2. QED
    BY <2>1 DEF Within
<1>5. ASSUME NEW f \in Frames PROVE s[f] = Cardinality(UsersOf(f, new)) /\ s[f] \in Nat
  <2>0. r[f] \in Nat /\ r[f] = Cardinality(UsersOf(f, map)) /\ s[f] = r[f] + (IF f \in Pages(m) THEN 1 ELSE 0)
    BY DEF Counted
  <2>1. CASE f \in Pages(m)
    <3>1. UsersOf(f, new) = UsersOf(f, map) \cup {b}
      BY <2>1, <1>2, <1>3, Zenon DEF UsersOf, TakenIn
    <3>2. b \notin UsersOf(f, map)
      BY Zenon DEF UsersOf
    <3>0. IsFiniteSet(UsersOf(f, map))
      BY UsersAreFinite, Zenon
    <3>3. Cardinality(UsersOf(f, map) \cup {b}) = Cardinality(UsersOf(f, map)) + 1
      BY <3>0, <3>2, FS_AddElement
    <3>4. s[f] = r[f] + 1
      BY <2>0, <2>1, Zenon
    <3>5. Cardinality(UsersOf(f, new)) = r[f] + 1
      BY <2>0, <3>1, <3>3, Zenon
    <3>6. QED
      BY <2>0, <3>4, <3>5
  <2>2. CASE f \notin Pages(m)
    <3>1. UsersOf(f, new) = UsersOf(f, map)
      BY <2>2, <1>2, <1>3, Zenon DEF UsersOf, TakenIn
    <3>2. QED
      BY <2>0, <2>2, <3>1
  <2>3. QED
    BY <2>1, <2>2
<1>6. QED
  BY <1>1, <1>4, <1>5 DEF Counted

\* A block that holds pages gives them back.
LEMMA PutCounts ==
  ASSUME NEW map \in [Blocks -> Mappings], NEW r, Counted(r, map), Within(map),
         NEW b \in TakenIn(map),
         NEW s, s = [f \in Frames |-> r[f] - (IF f \in Pages(map[b]) THEN 1 ELSE 0)],
         NEW new, new = [map EXCEPT ![b] = NoMapping]
  PROVE  new \in [Blocks -> Mappings] /\ Counted(s, new) /\ Within(new)
<1>0. b \in Blocks /\ NoMapping \in Mappings /\ NoMapping.type \notin TakenTypes
  BY DEF TakenIn, NoMapping, Mapped, Mappings, Types, TakenTypes
<1>1. new \in [Blocks -> Mappings]
  BY <1>0, Zenon
<1>2. new[b] = NoMapping /\ \A c \in Blocks : c # b => new[c] = map[c]
  BY <1>0, Zenon
<1>3. TakenIn(new) = TakenIn(map) \ {b}
  BY <1>0, <1>2, Zenon DEF TakenIn
<1>4. Within(new)
  <2>1. ASSUME NEW c \in TakenIn(new) PROVE Pages(new[c]) \subseteq Frames
    <3>1. c \in TakenIn(map) /\ c \in Blocks /\ c # b
      BY <1>3, Zenon DEF TakenIn
    <3>2. QED
      BY <3>1, <1>2 DEF Within
  <2>2. QED
    BY <2>1 DEF Within
<1>5. ASSUME NEW f \in Frames PROVE s[f] = Cardinality(UsersOf(f, new)) /\ s[f] \in Nat
  <2>0. r[f] \in Nat /\ r[f] = Cardinality(UsersOf(f, map)) /\ s[f] = r[f] - (IF f \in Pages(map[b]) THEN 1 ELSE 0)
    BY DEF Counted
  <2>1. CASE f \in Pages(map[b])
    <3>1. UsersOf(f, new) = UsersOf(f, map) \ {b}
      BY <2>1, <1>2, <1>3, Zenon DEF UsersOf, TakenIn
    <3>2. b \in UsersOf(f, map)
      BY <2>1, Zenon DEF UsersOf
    <3>3. Cardinality(UsersOf(f, map) \ {b}) = Cardinality(UsersOf(f, map)) - 1
      BY <3>2, UsersAreFinite, FS_RemoveElement, Zenon
    <3>4. Cardinality(UsersOf(f, new)) \in Nat
      BY UsersAreFinite, FS_CardinalityType, Zenon
    <3>5. QED
      BY <2>0, <2>1, <3>1, <3>3, <3>4
  <2>2. CASE f \notin Pages(map[b])
    <3>1. UsersOf(f, new) = UsersOf(f, map)
      BY <2>2, <1>2, <1>3, Zenon DEF UsersOf, TakenIn
    <3>2. QED
      BY <2>0, <2>2, <3>1
  <2>3. QED
    BY <2>1, <2>2
<1>6. QED
  BY <1>1, <1>4, <1>5 DEF Counted

\* Blocks without references come and go without changing the count.
LEMMA RestCounts ==
  ASSUME NEW map \in [Blocks -> Mappings], NEW r, Counted(r, map), Within(map),
         NEW b \in Blocks, b \notin TakenIn(map), NEW m \in Mappings, m.type \notin TakenTypes,
         NEW new, new = [map EXCEPT ![b] = m]
  PROVE  new \in [Blocks -> Mappings] /\ Counted(r, new) /\ Within(new) /\ TakenIn(new) = TakenIn(map)
<1>1. new \in [Blocks -> Mappings]
  BY Zenon
<1>2. new[b] = m /\ \A c \in Blocks : c # b => new[c] = map[c]
  BY Zenon
<1>3. TakenIn(new) = TakenIn(map)
  BY <1>2, Zenon DEF TakenIn
<1>4. \A c \in TakenIn(map) : new[c] = map[c]
  BY <1>2, Zenon DEF TakenIn
<1>5. Within(new)
  BY <1>3, <1>4 DEF Within
<1>6. ASSUME NEW f PROVE UsersOf(f, new) = UsersOf(f, map)
  BY <1>3, <1>4, Zenon DEF UsersOf
<1>7. QED
  BY <1>1, <1>3, <1>5, <1>6, Zenon DEF Counted

----------------------------------------------------------------------------
(* The order in which blocks are shared and unshared.                      *)

Requests == [in : BOOLEAN, out : BOOLEAN, n : 0..NBuffers]

\* The blocks of the request that need a mapping.
Order ==
  (IF rq.in THEN {In} ELSE {}) \cup (IF rq.out THEN {Out} ELSE {}) \cup 1..rq.n
    \cup (IF Inline THEN {} ELSE {Desc})

Increasing(s) == \A i, j \in 1..Len(s) : i < j => s[i] < s[j]

\* A part of the order: a sequence of blocks and the set of them.
Part(s, S) == s \in Seq(Blocks) /\ Range(s) = S

\* Blocks are numbers.
LEMMA BlocksAreNumbers ==
  /\ Blocks \subseteq Int /\ NBuffers \in Nat /\ Blocks = -1..(NBuffers + 1)
  BY RequestAssumption DEF Blocks, In, Desc

\* So are pages.
LEMMA FramesAreNumbers ==
  /\ Frames \subseteq Int /\ Pool \subseteq Frames /\ Pool \subseteq Int
  /\ KernelFrames \subseteq Frames
  BY RequestAssumption

\* Parts one after the other.
LEMMA Joined ==
  ASSUME NEW s, NEW t, NEW S, NEW T, Part(s, S), Part(t, T)
  PROVE  /\ Part(s \o t, S \cup T)
         /\ Increasing(s) /\ Increasing(t) /\ (\A x \in S, y \in T : x < y) => Increasing(s \o t)
<1>1. s \in Seq(Blocks) /\ t \in Seq(Blocks) /\ Len(s) \in Nat /\ Len(t) \in Nat
  BY DEF Part
<1>2. s \o t \in Seq(Blocks) /\ Len(s \o t) = Len(s) + Len(t)
  BY <1>1
<1>3. ASSUME NEW i \in 1..Len(s) PROVE i \in 1..Len(s \o t) /\ (s \o t)[i] = s[i]
  BY <1>1, <1>2
<1>4. ASSUME NEW i \in 1..Len(t)
      PROVE  Len(s) + i \in 1..Len(s \o t) /\ (s \o t)[Len(s) + i] = t[i]
  BY <1>1, <1>2
<1>5. ASSUME NEW k \in 1..Len(s \o t)
      PROVE  k \in 1..Len(s) \/ \E i \in 1..Len(t) : k = Len(s) + i
  <2>1. CASE k <= Len(s)
    BY <2>1, <1>1, <1>2
  <2>2. CASE ~(k <= Len(s))
    <3>1. k - Len(s) \in 1..Len(t) /\ k = Len(s) + (k - Len(s))
      BY <2>2, <1>1, <1>2
    <3>2. QED
      BY <3>1
  <2>3. QED
    BY <2>1, <2>2
<1>6. DOMAIN s = 1..Len(s) /\ DOMAIN t = 1..Len(t) /\ DOMAIN (s \o t) = 1..Len(s \o t)
  BY <1>1, <1>2
<1>7. Range(s \o t) = S \cup T
  <2>1. ASSUME NEW x \in Range(s \o t) PROVE x \in S \cup T
    <3>1. PICK k \in 1..Len(s \o t) : x = (s \o t)[k]
      BY <1>6, Zenon DEF Range
    <3>2. CASE k \in 1..Len(s)
      BY <3>1, <3>2, <1>3, <1>6, Zenon DEF Range, Part
    <3>3. ASSUME NEW i \in 1..Len(t), k = Len(s) + i PROVE x \in T
      BY <3>1, <3>3, <1>4, <1>6, Zenon DEF Range, Part
    <3>4. QED
      BY <3>2, <3>3, <1>5, Zenon
  <2>2. ASSUME NEW x \in S PROVE x \in Range(s \o t)
    <3>1. PICK i \in 1..Len(s) : x = s[i]
      BY <1>6, Zenon DEF Range, Part
    <3>2. QED
      BY <3>1, <1>3, <1>6, Zenon DEF Range
  <2>3. ASSUME NEW x \in T PROVE x \in Range(s \o t)
    <3>1. PICK i \in 1..Len(t) : x = t[i]
      BY <1>6, Zenon DEF Range, Part
    <3>2. QED
      BY <3>1, <1>4, <1>6, Zenon DEF Range
  <2>4. QED
    BY <2>1, <2>2, <2>3, Zenon
<1>8. ASSUME Increasing(s), Increasing(t), \A x \in S, y \in T : x < y PROVE Increasing(s \o t)
  <2>1. ASSUME NEW i \in 1..Len(s), NEW j \in 1..Len(t) PROVE s[i] < t[j]
    <3>1. s[i] \in S /\ t[j] \in T
      BY <1>6, Zenon DEF Range, Part
    <3>2. QED
      BY <3>1, <1>8, Zenon
  <2>2. ASSUME NEW k \in 1..Len(s \o t), NEW l \in 1..Len(s \o t), k < l
        PROVE  (s \o t)[k] < (s \o t)[l]
    <3>1. CASE k \in 1..Len(s) /\ l \in 1..Len(s)
      BY <3>1, <2>2, <1>3, <1>8 DEF Increasing
    <3>2. ASSUME k \in 1..Len(s), NEW j \in 1..Len(t), l = Len(s) + j PROVE (s \o t)[k] < (s \o t)[l]
      BY <3>2, <2>1, <1>3, <1>4
    <3>3. ASSUME NEW i \in 1..Len(t), k = Len(s) + i, NEW j \in 1..Len(t), l = Len(s) + j
          PROVE  (s \o t)[k] < (s \o t)[l]
      <4>1. i < j
        BY <3>3, <2>2, <1>1
      <4>2. t[i] < t[j]
        BY <4>1, <1>8 DEF Increasing
      <4>3. QED
        BY <4>2, <3>3, <1>4
    <3>4. ASSUME NEW i \in 1..Len(t), k = Len(s) + i, l \in 1..Len(s) PROVE FALSE
      BY <3>4, <2>2, <1>1
    <3>5. QED
      BY <3>1, <3>2, <3>3, <3>4, <1>5, Zenon
  <2>3. QED
    BY <2>2, Zenon DEF Increasing
<1>9. QED
  BY <1>2, <1>7, <1>8, Zenon DEF Part

\* The parts of the order, each of them ascending.
LEMMA PartsOfOrder ==
  rq \in Requests =>
    /\ Part(LargeData, (IF rq.in THEN {In} ELSE {}) \cup (IF rq.out THEN {Out} ELSE {}))
    /\ Part(BufferBlocks, 1..rq.n)
    /\ Part(DescBlock, IF Inline THEN {} ELSE {Desc})
    /\ Increasing(LargeData) /\ Increasing(BufferBlocks) /\ Increasing(DescBlock)
<1> SUFFICES ASSUME rq \in Requests
             PROVE  /\ Part(LargeData, (IF rq.in THEN {In} ELSE {}) \cup (IF rq.out THEN {Out} ELSE {}))
                    /\ Part(BufferBlocks, 1..rq.n)
                    /\ Part(DescBlock, IF Inline THEN {} ELSE {Desc})
                    /\ Increasing(LargeData) /\ Increasing(BufferBlocks) /\ Increasing(DescBlock)
  OBVIOUS
<1>1. rq.n \in 0..NBuffers /\ NBuffers \in Nat
  BY RequestAssumption DEF Requests
<1>2. In \in Blocks /\ Out \in Blocks /\ Desc \in Blocks /\ 1..rq.n \subseteq Blocks
  BY <1>1 DEF Blocks, In, Out, Desc
<1>3. ASSUME NEW x \in Blocks PROVE Part(<<x>>, {x}) /\ Increasing(<<x>>)
  <2>1. <<x>> \in Seq(Blocks) /\ Len(<<x>>) = 1 /\ DOMAIN <<x>> = 1..1 /\ <<x>>[1] = x
    OBVIOUS
  <2>2. Increasing(<<x>>)
    BY <2>1 DEF Increasing
  <2>3. 1..1 = {1}
    OBVIOUS
  <2>4. Range(<<x>>) = {x}
    BY <2>1, <2>3, Zenon DEF Range
  <2>5. QED
    BY <2>1, <2>2, <2>4 DEF Part
<1>4. Part(<<>>, {}) /\ Increasing(<<>>)
  <2>1. <<>> \in Seq(Blocks) /\ Len(<<>>) = 0 /\ DOMAIN <<>> = {}
    OBVIOUS
  <2>2. Increasing(<<>>)
    BY <2>1 DEF Increasing
  <2>3. Range(<<>>) = {}
    BY <2>1, Zenon DEF Range
  <2>4. QED
    BY <2>1, <2>2, <2>3 DEF Part
<1>5. Part(DescBlock, IF Inline THEN {} ELSE {Desc}) /\ Increasing(DescBlock)
  BY <1>2, <1>3, <1>4, Zenon DEF DescBlock
<1>6. Part(BufferBlocks, 1..rq.n) /\ Increasing(BufferBlocks)
  <2>1. BufferBlocks \in Seq(Blocks) /\ Len(BufferBlocks) = rq.n
    BY <1>1, <1>2 DEF BufferBlocks
  <2>2. DOMAIN BufferBlocks = 1..rq.n /\ \A i \in 1..rq.n : BufferBlocks[i] = i
    BY DEF BufferBlocks
  <2>3. Range(BufferBlocks) = 1..rq.n
    BY <2>2, Zenon DEF Range
  <2>4. Increasing(BufferBlocks)
    BY <2>1, <2>2, Zenon DEF Increasing
  <2>5. QED
    BY <2>1, <2>3, <2>4 DEF Part
<1>7. Part(LargeData, (IF rq.in THEN {In} ELSE {}) \cup (IF rq.out THEN {Out} ELSE {})) /\ Increasing(LargeData)
  <2> DEFINE s == IF rq.in THEN <<In>> ELSE <<>>
             t == IF rq.out THEN <<Out>> ELSE <<>>
             S == IF rq.in THEN {In} ELSE {}
             T == IF rq.out THEN {Out} ELSE {}
  <2>1. Part(s, S) /\ Increasing(s) /\ Part(t, T) /\ Increasing(t)
    BY <1>2, <1>3, <1>4, Zenon
  <2>2. In < Out
    BY DEF In, Out
  <2>3. \A x \in S, y \in T : x < y
    BY <2>2, Zenon
  <2> HIDE DEF s, t, S, T
  <2>4. Part(s \o t, S \cup T) /\ Increasing(s \o t)
    BY <2>1, <2>3, Joined, Zenon
  <2>5. QED
    BY <2>4, Zenon DEF s, t, S, T, LargeData
<1>8. QED
  BY <1>5, <1>6, <1>7

\* Every block of the request is shared, and unshared, in its turn.
LEMMA Orders ==
  rq \in Requests =>
    /\ Part(MapOrder, Order) /\ Increasing(MapOrder)
    /\ Part(NowbOrder, Order) /\ Part(WbOrder, Order)
<1> SUFFICES ASSUME rq \in Requests
             PROVE  /\ Part(MapOrder, Order) /\ Increasing(MapOrder)
                    /\ Part(NowbOrder, Order) /\ Part(WbOrder, Order)
  OBVIOUS
<1> DEFINE L == (IF rq.in THEN {In} ELSE {}) \cup (IF rq.out THEN {Out} ELSE {})
           B == 1..rq.n
           D == IF Inline THEN {} ELSE {Desc}
<1>1. /\ Part(LargeData, L) /\ Part(BufferBlocks, B) /\ Part(DescBlock, D)
      /\ Increasing(LargeData) /\ Increasing(BufferBlocks) /\ Increasing(DescBlock)
  BY PartsOfOrder, Zenon
<1>2. rq.n \in 0..NBuffers /\ NBuffers \in Nat
  BY RequestAssumption DEF Requests
<1>3. \A x \in L : x = In \/ x = Out
  BY Zenon
<1>4. \A x \in D : x = Desc
  BY Zenon
<1>5. Order = (L \cup B) \cup D /\ Order = (L \cup D) \cup B
  BY Zenon DEF Order
<1>6. \A y \in B : y \in Int /\ y > 0 /\ y < NBuffers + 1
  BY <1>2
<1> HIDE DEF L, B, D
<1>7. \A x \in L, y \in B : x < y
  BY <1>3, <1>6 DEF In, Out
<1>8. \A x \in L \cup B, y \in D : x < y
  BY <1>2, <1>3, <1>4, <1>6 DEF In, Out, Desc
<1>9. Part(LargeData \o BufferBlocks, L \cup B) /\ Increasing(LargeData \o BufferBlocks)
  BY <1>1, <1>7, Joined, Zenon
<1>10. Part((LargeData \o BufferBlocks) \o DescBlock, (L \cup B) \cup D)
       /\ Increasing((LargeData \o BufferBlocks) \o DescBlock)
  BY <1>1, <1>8, <1>9, Joined, Zenon
<1>11. Part(LargeData \o DescBlock, L \cup D)
  BY <1>1, Joined, Zenon
<1>12. Part((LargeData \o DescBlock) \o BufferBlocks, (L \cup D) \cup B)
  BY <1>1, <1>11, Joined, Zenon
<1>13. QED
  BY <1>5, <1>10, <1>12, Zenon DEF MapOrder, NowbOrder, WbOrder

\* The head and the rest of what there is to do.
LEMMA HeadAndTail ==
  ASSUME NEW t \in Seq(Blocks), t # <<>>
  PROVE  /\ Head(t) \in Blocks /\ Tail(t) \in Seq(Blocks)
         /\ Range(t) = {Head(t)} \cup Range(Tail(t))
         /\ Increasing(t) => Increasing(Tail(t)) /\ Head(t) \notin Range(Tail(t))
<1>0. Blocks \subseteq Int
  BY BlocksAreNumbers
<1>1. Len(t) \in Nat /\ Len(t) > 0 /\ Head(t) = t[1] /\ t[1] \in Blocks
  OBVIOUS
<1>2. Tail(t) \in Seq(Blocks) /\ Len(Tail(t)) = Len(t) - 1
  OBVIOUS
<1>3. ASSUME NEW i \in 1..Len(Tail(t)) PROVE i + 1 \in 1..Len(t) /\ Tail(t)[i] = t[i + 1]
  BY <1>1, <1>2
<1>4. ASSUME NEW k \in 1..Len(t), k # 1 PROVE k - 1 \in 1..Len(Tail(t)) /\ (k - 1) + 1 = k
  BY <1>1, <1>2, <1>4
<1>5. DOMAIN t = 1..Len(t) /\ DOMAIN Tail(t) = 1..Len(Tail(t)) /\ 1 \in 1..Len(t)
  BY <1>1, <1>2
<1>6. Range(t) = {Head(t)} \cup Range(Tail(t))
  <2>1. ASSUME NEW x \in Range(t) PROVE x \in {Head(t)} \cup Range(Tail(t))
    <3>1. PICK k \in 1..Len(t) : x = t[k]
      BY <1>5, Zenon DEF Range
    <3>2. CASE k = 1
      BY <3>1, <3>2, <1>1, Zenon
    <3>3. CASE k # 1
      <4>1. k - 1 \in 1..Len(Tail(t)) /\ Tail(t)[k - 1] = t[(k - 1) + 1] /\ (k - 1) + 1 = k
        BY <3>3, <1>4, <1>3
      <4>2. x = Tail(t)[k - 1]
        BY <4>1, <3>1, Zenon
      <4>3. QED
        BY <4>1, <4>2, <1>5, Zenon DEF Range
    <3>4. QED
      BY <3>2, <3>3
  <2>2. ASSUME NEW x \in Range(Tail(t)) PROVE x \in Range(t)
    <3>1. PICK i \in 1..Len(Tail(t)) : x = Tail(t)[i]
      BY <1>5, Zenon DEF Range
    <3>2. QED
      BY <3>1, <1>3, <1>5, Zenon DEF Range
  <2>3. Head(t) \in Range(t)
    BY <1>1, <1>5, Zenon DEF Range
  <2>4. QED
    BY <2>1, <2>2, <2>3, Zenon
<1>7. ASSUME Increasing(t) PROVE Increasing(Tail(t)) /\ Head(t) \notin Range(Tail(t))
  <2>1. Increasing(Tail(t))
    <3>1. ASSUME NEW i \in 1..Len(Tail(t)), NEW j \in 1..Len(Tail(t)), i < j
          PROVE  Tail(t)[i] < Tail(t)[j]
      <4>1. i + 1 \in 1..Len(t) /\ j + 1 \in 1..Len(t) /\ i + 1 < j + 1
        BY <1>3, <3>1
      <4>2. t[i + 1] < t[j + 1]
        BY <4>1, <1>7 DEF Increasing
      <4>3. QED
        BY <4>2, <1>3
    <3>2. QED
      BY <3>1 DEF Increasing
  <2>2. ASSUME Head(t) \in Range(Tail(t)) PROVE FALSE
    <3>1. PICK i \in 1..Len(Tail(t)) : Head(t) = Tail(t)[i]
      BY <2>2, <1>5, Zenon DEF Range
    <3>2. i + 1 \in 1..Len(t) /\ 1 < i + 1 /\ t[1] = t[i + 1]
      BY <3>1, <1>1, <1>3, <1>2
    <3>3. t[1] < t[i + 1]
      BY <3>2, <1>5, <1>7 DEF Increasing
    <3>4. t[1] \in Int /\ t[1] < t[1]
      BY <3>2, <3>3, <1>0, <1>1, Zenon
    <3>5. QED
      BY <3>4
  <2>3. QED
    BY <2>1, <2>2
<1>8. QED
  BY <1>1, <1>2, <1>6, <1>7

----------------------------------------------------------------------------
(* What the steps of xrp_map_request do.                                   *)

\* What is known of a block's memory.
Found == [kind : Kinds \cup {"kernel"}, frames : Seq(Frames), size : Nat]

VmaInv ==
  /\ vma \in [Blocks -> Found]
  /\ \A b \in Blocks : vma[b].size = Len(vma[b].frames)
  /\ pc = "gup" => vma[Head(todo)].size > 0

\* The block gets a mapping, with references on its pages if the mapping is of
\* a type that holds some; sharing fails; the pages are to be taken next.
Takes(b) ==
  \E m \in Mappings :
    /\ mapping' = [mapping EXCEPT ![b] = m]
    /\ \/ m.type \in TakenTypes /\ Pages(m) \subseteq Frames /\ Get(Pages(m))
       \/ m.type \in {"pfn", "kernel"} /\ ref' = ref
    /\ pc' = "map" /\ todo' = Tail(todo) /\ ret' = ret

GivesUp == ret' = "map" /\ pc' = "nowb" /\ todo' = NowbOrder /\ mapping' = mapping /\ ref' = ref

Waits == pc' = "gup" /\ todo' = todo /\ ret' = ret /\ mapping' = mapping /\ ref' = ref

\* A mapping of pages is a mapping.
LEMMA MappedIsMapping ==
  ASSUME NEW type \in Types, NEW paddr \in Int, NEW size \in Nat
  PROVE  LET m == Mapped(type, paddr, size)
         IN  /\ m \in Mappings /\ m.type = type /\ m.paddr = paddr /\ m.size = size
             /\ Pages(m) = paddr..(paddr + size - 1)
  BY DEF Mapped, Mappings, Pages

\* Pages that follow each other are the pages of the mapping made of them.
LEMMA PagesInARow ==
  ASSUME NEW frames \in Seq(Frames), Len(frames) > 0,
         \A k \in DOMAIN frames : frames[k] = frames[1] + k - 1
  PROVE  /\ frames[1] \in Int
         /\ Range(frames) = frames[1]..(frames[1] + Len(frames) - 1)
         /\ Range(frames) \subseteq Frames
<1>1. Len(frames) \in Nat /\ DOMAIN frames = 1..Len(frames) /\ 1 \in 1..Len(frames)
  OBVIOUS
<1>2. frames[1] \in Int
  <2>1. frames[1] \in Frames
    BY <1>1
  <2>2. QED
    BY <2>1, FramesAreNumbers, Zenon
<1>3. ASSUME NEW x \in Range(frames) PROVE x \in frames[1]..(frames[1] + Len(frames) - 1) /\ x \in Frames
  <2>1. PICK k \in 1..Len(frames) : x = frames[k]
    BY <1>1, Zenon DEF Range
  <2>2. frames[k] = frames[1] + k - 1 /\ frames[k] \in Frames
    BY <2>1, <1>1
  <2>3. QED
    BY <2>1, <2>2, <1>1, <1>2
<1>4. ASSUME NEW x \in frames[1]..(frames[1] + Len(frames) - 1) PROVE x \in Range(frames)
  <2>1. x - frames[1] + 1 \in 1..Len(frames)
    BY <1>1, <1>2
  <2>2. frames[x - frames[1] + 1] = frames[1] + (x - frames[1] + 1) - 1
    BY <2>1, <1>1, Zenon
  <2>3. frames[x - frames[1] + 1] = x
    <3>1. PICK a \in Int : a = frames[1]
      BY <1>2
    <3>2. x \in Int /\ a + (x - a + 1) - 1 = x
      BY <3>1, <1>1
    <3>3. QED
      BY <2>2, <3>1, <3>2, Zenon
  <2>4. QED
    BY <2>1, <2>3, <1>1, Zenon DEF Range
<1>5. QED
  BY <1>2, <1>3, <1>4, Zenon

\* xvp_copy_virt_to_phys takes memory of the pool, or fails.
LEMMA CopyTakes ==
  ASSUME NEW b, NEW frames, NEW size \in Nat, NEW fl, xvp_copy_virt_to_phys(b, frames, size, fl)
  PROVE  Takes(b) \/ GivesUp
<1>1. CASE ShareFails
  BY <1>1 DEF ShareFails, GivesUp
<1>2. ASSUME NEW start \in xrp_allocate(size), Get(start..(start + size - 1)),
             Shared(b, Mapped("copy", start, size), fl)
      PROVE  Takes(b)
  <2>1. start \in Pool /\ \A f \in start..(start + size - 1) : f \in Pool
    BY Zenon DEF xrp_allocate
  <2>2. start \in Int /\ start..(start + size - 1) \subseteq Frames
    BY <2>1, FramesAreNumbers, Zenon
  <2> DEFINE m == Mapped("copy", start, size)
  <2>3. m \in Mappings /\ m.type \in TakenTypes /\ Pages(m) = start..(start + size - 1)
    <3>1. "copy" \in Types /\ "copy" \in TakenTypes
      BY DEF Types, TakenTypes
    <3>2. QED
      BY <2>2, <3>1, MappedIsMapping
  <2>4. mapping' = [mapping EXCEPT ![b] = m] /\ pc' = "map" /\ todo' = Tail(todo) /\ ret' = ret
    BY <1>2, Zenon DEF Shared
  <2> HIDE DEF m
  <2>5. QED
    BY <2>2, <2>3, <2>4, <1>2, Zenon DEF Takes
<1>3. QED
  BY <1>1, <1>2, Zenon DEF xvp_copy_virt_to_phys

\* Pages in a row are shared with a reference on each of them.
LEMMA RowTakes ==
  ASSUME NEW b, NEW type \in TakenTypes, NEW fl, NEW frames \in Seq(Frames), Len(frames) > 0,
         \A k \in DOMAIN frames : frames[k] = frames[1] + k - 1,
         NEW size, size = Len(frames),
         Get(Range(frames)), Shared(b, Mapped(type, frames[1], size), fl)
  PROVE  Takes(b)
<1> DEFINE m == Mapped(type, frames[1], size)
<1>1. /\ frames[1] \in Int /\ Range(frames) \subseteq Frames
      /\ Range(frames) = frames[1]..(frames[1] + Len(frames) - 1)
  BY PagesInARow, Zenon
<1>2. size \in Nat /\ type \in Types
  BY DEF Types
<1>3. m \in Mappings /\ m.type = type /\ Pages(m) = frames[1]..(frames[1] + size - 1)
  BY <1>1, <1>2, MappedIsMapping
<1>4. mapping' = [mapping EXCEPT ![b] = m] /\ pc' = "map" /\ todo' = Tail(todo) /\ ret' = ret
  BY Zenon DEF Shared
<1> HIDE DEF m
<1>5. QED
  BY <1>1, <1>3, <1>4, Zenon DEF Takes

\* A layout is what RequestAssumption says it is.
LEMMA LayoutIsFound ==
  ASSUME NEW b \in Blocks, NEW l \in Layouts[b]
  PROVE  /\ l \in Found /\ l.kind \in Kinds /\ l.frames \in Seq(Frames)
         /\ l.size = Len(l.frames) /\ l.size > 0 /\ l.size \in Nat
         /\ l.kind \in {"own", "other"} =>
              \A k \in DOMAIN l.frames : l.frames[k] = l.frames[1] + k - 1
<1>1. /\ l \in [kind : Kinds, frames : Seq(Frames \ Pool), size : Nat]
      /\ l.size = Len(l.frames) /\ l.size > 0
      /\ l.kind \in {"own", "other"} =>
            \A k \in DOMAIN l.frames : l.frames[k] = l.frames[1] + k - 1
  BY RequestAssumption, Zenon
<1>2. l.kind \in Kinds /\ l.frames \in Seq(Frames \ Pool) /\ l.size \in Nat
  BY <1>1
<1>3. l.frames \in Seq(Frames)
  BY <1>2
<1>4. l = [kind |-> l.kind, frames |-> l.frames, size |-> l.size]
  BY <1>1
<1>5. l \in Found
  BY <1>2, <1>3, <1>4 DEF Found
<1>6. QED
  BY <1>1, <1>2, <1>3, <1>5

\* __xrp_share_block takes what is at the address, fails, or goes on to take
\* pages of anonymous memory.
LEMMA ShareBlockTakes ==
  ASSUME NEW b \in Blocks, NEW l \in Layouts[b], NEW fl, __xrp_share_block(b, l, fl)
  PROVE  Takes(b) \/ GivesUp \/ Waits
<1>1. /\ l.frames \in Seq(Frames) /\ l.size = Len(l.frames) /\ l.size > 0 /\ l.size \in Nat
      /\ l.kind \in {"own", "other"} =>
           \A k \in DOMAIN l.frames : l.frames[k] = l.frames[1] + k - 1
  BY LayoutIsFound, Zenon
<1>2. CASE ShareFails
  BY <1>2 DEF ShareFails, GivesUp
<1>3. CASE l.kind \in {"own", "other"} /\ ShareNative(b, l, fl)
  <2>1. "native" \in TakenTypes
    BY DEF TakenTypes
  <2>2. Get(Range(l.frames)) /\ Shared(b, Mapped("native", l.frames[1], l.size), fl)
    BY <1>3, Zenon DEF ShareNative
  <2>3. Len(l.frames) > 0
    BY <1>1
  <2>4. \A k \in DOMAIN l.frames : l.frames[k] = l.frames[1] + k - 1
    BY <1>1, <1>3
  <2>5. Takes(b)
    BY <1>1, <2>1, <2>2, <2>3, <2>4, RowTakes, Zenon
  <2>6. QED
    BY <2>5
<1>4. CASE xvp_pfn_virt_to_phys(b, l, fl)
  <2>1. CASE virt_to_phys(l.frames)
    <3> DEFINE m == Mapped("pfn", l.frames[1], l.size)
    <3>1. Shared(b, m, fl) /\ ref' = ref
      BY <1>4, <2>1, Zenon DEF xvp_pfn_virt_to_phys
    <3>2. \A k \in DOMAIN l.frames : l.frames[k] = l.frames[1] + k - 1
      BY <2>1, Zenon DEF virt_to_phys
    <3>3. Len(l.frames) > 0
      BY <1>1
    <3>4. l.frames[1] \in Int
      BY <1>1, <3>2, <3>3, PagesInARow, Zenon
    <3>5. "pfn" \in Types
      BY DEF Types
    <3>6. m \in Mappings /\ m.type = "pfn"
      BY <1>1, <3>4, <3>5, MappedIsMapping
    <3>7. mapping' = [mapping EXCEPT ![b] = m] /\ pc' = "map" /\ todo' = Tail(todo) /\ ret' = ret
      BY <3>1, Zenon DEF Shared
    <3> HIDE DEF m
    <3>8. QED
      BY <3>1, <3>6, <3>7, Zenon DEF Takes
  <2>2. CASE ~virt_to_phys(l.frames)
    <3>1. xvp_copy_virt_to_phys(b, l.frames, l.size, fl)
      BY <1>4, <2>2, Zenon DEF xvp_pfn_virt_to_phys
    <3>2. QED
      BY <3>1, <1>1, CopyTakes, Zenon
  <2>3. QED
    BY <2>1, <2>2
<1>5. CASE pc' = "gup" /\ UNCHANGED <<mapping, desc, todo, ret, ref, mem, host>>
  BY <1>5 DEF Waits
<1>6. QED
  BY <1>2, <1>3, <1>4, <1>5, Zenon DEF __xrp_share_block

\* xvp_gup_virt_to_phys takes the pages, or what is said of a shadow copy.
LEMMA GupTakes ==
  ASSUME VmaInv, todo \in Seq(Blocks), todo # <<>>, xvp_gup_virt_to_phys
  PROVE  Takes(Head(todo)) \/ GivesUp
<1> DEFINE b == Head(todo)
           l == vma[b]
<1>1. b \in Blocks
  BY HeadAndTail, Zenon
<1>2. PICK fl :
        /\ pc = "gup"
        /\ \/ /\ virt_to_phys(l.frames)
              /\ Shared(b, Mapped("gup", l.frames[1], l.size), fl)
              /\ Get(Range(l.frames))
           \/ xvp_copy_virt_to_phys(b, IF l.kind = "none" THEN <<>> ELSE l.frames, l.size, fl)
  BY Zenon DEF xvp_gup_virt_to_phys
<1>3. l \in Found /\ l.size = Len(l.frames) /\ l.size > 0
  BY <1>1, <1>2, Zenon DEF VmaInv
<1> HIDE DEF b, l
<1>4. l.frames \in Seq(Frames) /\ l.size \in Nat /\ Len(l.frames) > 0
  BY <1>3 DEF Found
<1>5. CASE /\ virt_to_phys(l.frames)
           /\ Shared(b, Mapped("gup", l.frames[1], l.size), fl)
           /\ Get(Range(l.frames))
  <2>1. "gup" \in TakenTypes
    BY DEF TakenTypes
  <2>2. \A k \in DOMAIN l.frames : l.frames[k] = l.frames[1] + k - 1
    BY <1>5, Zenon DEF virt_to_phys
  <2>3. Takes(b)
    BY <1>3, <1>4, <1>5, <2>1, <2>2, RowTakes, Zenon
  <2>4. QED
    BY <2>3 DEF b
<1>6. CASE xvp_copy_virt_to_phys(b, IF l.kind = "none" THEN <<>> ELSE l.frames, l.size, fl)
  <2>1. Takes(b) \/ GivesUp
    BY <1>4, <1>6, CopyTakes, Zenon
  <2>2. QED
    BY <2>1 DEF b
<1>7. QED
  BY <1>2, <1>5, <1>6

\* xrp_share_kernel shares the descriptors, or a copy of them, or fails.
LEMMA KernelTakes ==
  ASSUME xrp_share_kernel
  PROVE  Takes(Desc) \/ GivesUp
<1>1. PICK f \in KernelFrames :
        \/ \E start \in xrp_allocate(1) :
             Get({start}) /\ Shared(Desc, Mapped("kcopy", start, 1), {"R", "W"})
        \/ ShareFails
        \/ Shared(Desc, Mapped("kernel", f, 1), {"R", "W"}) /\ ref' = ref
  BY Zenon DEF xrp_share_kernel
<1>2. CASE ShareFails
  BY <1>2 DEF ShareFails, GivesUp
<1>3. ASSUME NEW start \in xrp_allocate(1), Get({start}),
             Shared(Desc, Mapped("kcopy", start, 1), {"R", "W"})
      PROVE  Takes(Desc)
  <2> DEFINE m == Mapped("kcopy", start, 1)
  <2>1. start \in Pool
    BY Zenon DEF xrp_allocate
  <2>2. start \in Int /\ {start} \subseteq Frames
    BY <2>1, FramesAreNumbers, Zenon
  <2>3. "kcopy" \in Types /\ "kcopy" \in TakenTypes
    BY DEF Types, TakenTypes
  <2>4. m \in Mappings /\ m.type = "kcopy" /\ Pages(m) = start..(start + 1 - 1)
    BY <2>2, <2>3, MappedIsMapping
  <2>5. start..(start + 1 - 1) = {start}
    BY <2>2
  <2>6. mapping' = [mapping EXCEPT ![Desc] = m] /\ pc' = "map" /\ todo' = Tail(todo) /\ ret' = ret
    BY <1>3, Zenon DEF Shared
  <2> HIDE DEF m
  <2>7. QED
    BY <2>2, <2>3, <2>4, <2>5, <2>6, <1>3, Zenon DEF Takes
<1>4. CASE Shared(Desc, Mapped("kernel", f, 1), {"R", "W"}) /\ ref' = ref
  <2> DEFINE m == Mapped("kernel", f, 1)
  <2>1. f \in Int /\ "kernel" \in Types
    BY FramesAreNumbers DEF Types
  <2>2. m \in Mappings /\ m.type = "kernel"
    BY <2>1, MappedIsMapping
  <2>3. mapping' = [mapping EXCEPT ![Desc] = m] /\ pc' = "map" /\ todo' = Tail(todo) /\ ret' = ret
    BY <1>4, Zenon DEF Shared
  <2> HIDE DEF m
  <2>4. QED
    BY <2>2, <2>3, <1>4, Zenon DEF Takes
<1>5. QED
  BY <1>1, <1>2, <1>3, <1>4, Zenon

----------------------------------------------------------------------------
(* The phases of a request.                                                *)

\* The blocks whose mapping is what was on the stack.
UninitIn(map) == {b \in Blocks : map[b].type = "uninit"}

\* While the blocks of order are shared and those of t are still to come.
Sharing(t, map, order) ==
  /\ Increasing(t) /\ Range(t) \subseteq order
  /\ TakenIn(map) \subseteq order /\ TakenIn(map) \cap Range(t) = {}
  /\ UninitIn(map) \cap order \subseteq Range(t)
  /\ UninitIn(map) \cap Buffers = {}

\* While they are unshared: what holds a reference is still to come, and what
\* was never set up is there only if xrp_map_request has failed.
Unsharing(p, t, map, r, order) ==
  /\ TakenIn(map) \subseteq Range(t) /\ Range(t) \subseteq order
  /\ p = "wb" \/ r # "map" => UninitIn(map) \cap order = {}

Phase(p, t, map, h, r, order) ==
  /\ t \in Seq(Blocks)
  /\ p = "idle" => TakenIn(map) = {} /\ h = {}
  /\ p \in {"map", "gup"} => Sharing(t, map, order)
  /\ p = "gup" => t # <<>>
  /\ p \in {"sent", "dsp", "complete"} => TakenIn(map) \subseteq order /\ UninitIn(map) \cap order = {}
  /\ p \in {"wb", "nowb"} => Unsharing(p, t, map, r, order)
  /\ p = "done" /\ r # "off" => TakenIn(map) = {} /\ h = {}
  /\ p = "corrupt" => r = "map"

PhaseInv == Phase(pc, todo, mapping, heap, ret, Order)

\* What a new mapping of b changes.
LEMMA Remapped ==
  ASSUME NEW map \in [Blocks -> Mappings], NEW b \in Blocks, NEW m,
         NEW new, new = [map EXCEPT ![b] = m]
  PROVE  /\ m.type \in TakenTypes => TakenIn(new) = TakenIn(map) \cup {b}
         /\ m.type \notin TakenTypes => TakenIn(new) = TakenIn(map) \ {b}
         /\ m.type # "uninit" => UninitIn(new) = UninitIn(map) \ {b}
<1>1. new[b] = m /\ \A c \in Blocks : c # b => new[c] = map[c]
  BY Zenon
<1>2. CASE m.type \in TakenTypes
  <2>1. TakenIn(new) = TakenIn(map) \cup {b}
    BY <1>1, <1>2, Zenon DEF TakenIn
  <2>2. m.type # "uninit"
    BY <1>2 DEF TakenTypes
  <2>3. UninitIn(new) = UninitIn(map) \ {b}
    BY <1>1, <2>2, Zenon DEF UninitIn
  <2>4. QED
    BY <2>1, <2>3, <1>2, Zenon
<1>3. CASE m.type \notin TakenTypes
  <2>1. TakenIn(new) = TakenIn(map) \ {b}
    BY <1>1, <1>3, Zenon DEF TakenIn
  <2>2. m.type # "uninit" => UninitIn(new) = UninitIn(map) \ {b}
    BY <1>1, Zenon DEF UninitIn
  <2>3. QED
    BY <2>1, <2>2, <1>3, Zenon
<1>4. QED
  BY <1>2, <1>3

\* Sharing a block keeps the count and goes on to the next block.
LEMMA TakesKeeps ==
  ASSUME CountInv, PhaseInv, pc \in {"map", "gup"}, todo # <<>>, Takes(Head(todo)), heap' = heap
  PROVE  CountInv' /\ Phase(pc', todo', mapping', heap', ret', Order)
<1> DEFINE b == Head(todo)
           order == Order
<1>1. todo \in Seq(Blocks) /\ Sharing(todo, mapping, order)
  BY Zenon DEF PhaseInv, Phase
<1>2. /\ b \in Blocks /\ Tail(todo) \in Seq(Blocks)
      /\ Range(todo) = {b} \cup Range(Tail(todo))
      /\ Increasing(Tail(todo)) /\ b \notin Range(Tail(todo))
  BY <1>1, HeadAndTail, Zenon DEF Sharing
<1>3. PICK m \in Mappings :
        /\ mapping' = [mapping EXCEPT ![b] = m]
        /\ \/ m.type \in TakenTypes /\ Pages(m) \subseteq Frames /\ Get(Pages(m))
           \/ m.type \in {"pfn", "kernel"} /\ ref' = ref
        /\ pc' = "map" /\ todo' = Tail(todo) /\ ret' = ret
  BY Zenon DEF Takes
<1> HIDE DEF b, order
<1>4. mapping \in [Blocks -> Mappings] /\ Within(mapping) /\ Counted(ref, mapping)
  BY Zenon DEF CountInv
<1>5. b \notin TakenIn(mapping) /\ b \in order
  BY <1>1, <1>2, Zenon DEF Sharing
<1>6. m.type # "uninit"
  <2>1. m.type \in TakenTypes \/ m.type = "pfn" \/ m.type = "kernel"
    BY <1>3, Zenon
  <2>2. QED
    BY <2>1 DEF TakenTypes
<1>7. UninitIn(mapping') = UninitIn(mapping) \ {b} /\ TakenIn(mapping') \subseteq TakenIn(mapping) \cup {b}
  <2>1. b \in Blocks /\ mapping' = [mapping EXCEPT ![b] = m]
    BY <1>2, <1>3, Zenon
  <2>2. /\ m.type \in TakenTypes => TakenIn(mapping') = TakenIn(mapping) \cup {b}
        /\ m.type \notin TakenTypes => TakenIn(mapping') = TakenIn(mapping) \ {b}
        /\ m.type # "uninit" => UninitIn(mapping') = UninitIn(mapping) \ {b}
    BY <2>1, <1>4, Remapped, Zenon
  <2>3. QED
    BY <2>2, <1>6, Zenon
<1>8. mapping' \in [Blocks -> Mappings] /\ Within(mapping') /\ Counted(ref', mapping')
  <2>1. CASE m.type \in TakenTypes /\ Pages(m) \subseteq Frames /\ Get(Pages(m))
    <3>1. ref' = [f \in Frames |-> ref[f] + (IF f \in Pages(m) THEN 1 ELSE 0)]
      BY <2>1, Zenon DEF Get
    <3>2. QED
      BY <3>1, <2>1, <1>2, <1>3, <1>4, <1>5, GetCounts, Zenon
  <2>2. CASE m.type \in {"pfn", "kernel"} /\ ref' = ref
    <3>1. m.type \notin TakenTypes
      BY <2>2 DEF TakenTypes
    <3>2. mapping' \in [Blocks -> Mappings] /\ Within(mapping') /\ Counted(ref, mapping')
      BY <3>1, <1>2, <1>3, <1>4, <1>5, RestCounts, Zenon
    <3>3. QED
      BY <2>2, <3>2
  <2>3. QED
    BY <2>1, <2>2, <1>3
<1>9. Sharing(todo', mapping', order)
  BY <1>1, <1>2, <1>3, <1>5, <1>7, Zenon DEF Sharing
<1>10. Phase(pc', todo', mapping', heap', ret', order)
  BY <1>2, <1>3, <1>9, Zenon DEF Phase
<1>11. QED
  BY <1>8, <1>10, Zenon DEF CountInv, order

\* A failure makes xrp_unmap_request_nowb go through every block.
LEMMA GivesUpKeeps ==
  ASSUME CountInv, rq \in Requests, TakenIn(mapping) \subseteq Order,
         pc' = "nowb", todo' = NowbOrder, mapping' = mapping, ref' = ref,
         ret' # "map" => UninitIn(mapping) \cap Order = {}
  PROVE  CountInv' /\ Phase(pc', todo', mapping', heap', ret', Order)
<1>1. todo' \in Seq(Blocks) /\ Range(todo') = Order
  BY Orders, Zenon DEF Part
<1>2. CountInv'
  BY DEF CountInv
<1>3. Unsharing("nowb", todo', mapping', ret', Order)
  BY <1>1, Zenon DEF Unsharing
<1>4. Phase(pc', todo', mapping', heap', ret', Order)
  BY <1>1, <1>3, Zenon DEF Phase
<1>5. QED
  BY <1>2, <1>4

\* A step of xrp_map_request keeps the invariants.
LEMMA SharingKeeps ==
  ASSUME CountInv, PhaseInv, rq \in Requests, pc \in {"map", "gup"}, todo # <<>>,
         heap' = heap, rq' = rq,
         \/ Takes(Head(todo)) \/ GivesUp \/ Waits
         \/ /\ Head(todo) \in Buffers /\ todo' = Tail(todo) /\ pc = "map"
            /\ UNCHANGED <<pc, ret, mapping, ref>>
  PROVE  CountInv' /\ PhaseInv'
<1>0. Order' = Order
  BY DEF Order, Inline
<1>1. todo \in Seq(Blocks) /\ Sharing(todo, mapping, Order)
  BY Zenon DEF PhaseInv, Phase
<1>2. CASE Takes(Head(todo))
  BY <1>0, <1>2, TakesKeeps, Zenon DEF PhaseInv
<1>3. CASE GivesUp
  <2>1. TakenIn(mapping) \subseteq Order
    BY <1>1, Zenon DEF Sharing
  <2>2. QED
    BY <1>0, <1>3, <2>1, GivesUpKeeps, Zenon DEF PhaseInv, GivesUp
<1>4. CASE Waits
  <2>1. CountInv'
    BY <1>4 DEF CountInv, Waits
  <2>2. Phase(pc', todo', mapping', heap', ret', Order)
    BY <1>1, <1>4, Zenon DEF Phase, Waits
  <2>3. QED
    BY <1>0, <2>1, <2>2, Zenon DEF PhaseInv
<1>5. CASE /\ Head(todo) \in Buffers /\ todo' = Tail(todo) /\ pc = "map"
           /\ UNCHANGED <<pc, ret, mapping, ref>>
  <2>1. /\ Head(todo) \in Blocks /\ Tail(todo) \in Seq(Blocks)
        /\ Range(todo) = {Head(todo)} \cup Range(Tail(todo))
        /\ Increasing(Tail(todo)) /\ Head(todo) \notin Range(Tail(todo))
    BY <1>1, HeadAndTail, Zenon DEF Sharing
  <2>2. CountInv'
    BY <1>5 DEF CountInv
  <2>3. Sharing(todo', mapping', Order)
    BY <1>1, <1>5, <2>1, Zenon DEF Sharing
  <2>4. Phase(pc', todo', mapping', heap', ret', Order)
    BY <1>5, <2>1, <2>3, Zenon DEF Phase
  <2>5. QED
    BY <1>0, <2>2, <2>4, Zenon DEF PhaseInv
<1>6. QED
  BY <1>2, <1>3, <1>4, <1>5

\* What __xrp_unshare_block does, by the type of the mapping.
LEMMA UnshareDoes ==
  ASSUME NEW b \in Blocks, NEW fl, __xrp_unshare_block(b, fl), mapping \in [Blocks -> Mappings]
  PROVE  /\ mapping' = [mapping EXCEPT ![b] = NoMapping]
         /\ b \in TakenIn(mapping) => Put(Pages(mapping[b]))
         /\ b \notin TakenIn(mapping) => ref' = ref
         /\ ret' = ret \/ ("W" \in fl /\ mapping[b].type # "uninit" /\ ret' \in {ret, "copyback"})
<1> DEFINE m == mapping[b]
<1>1. mapping' = [mapping EXCEPT ![b] = NoMapping]
  BY Zenon DEF __xrp_unshare_block
<1>2. m.type \in Types
  <2>1. m \in Mappings
    BY Zenon
  <2>2. QED
    BY <2>1 DEF Mappings
<1>3. CASE m.type = "native"
  <2>1. Put(Pages(m)) /\ ret' = ret
    BY <1>3 DEF __xrp_unshare_block
  <2>2. b \in TakenIn(mapping)
    BY <1>3 DEF TakenIn, TakenTypes
  <2>3. QED
    BY <1>1, <2>1, <2>2, Zenon
<1>4. CASE m.type = "gup"
  <2>1. Put(Pages(m)) /\ ret' = ret
    BY <1>4 DEF __xrp_unshare_block
  <2>2. b \in TakenIn(mapping)
    BY <1>4 DEF TakenIn, TakenTypes
  <2>3. QED
    BY <1>1, <2>1, <2>2, Zenon
<1>5. CASE m.type \in {"copy", "kcopy"}
  <2>1. Put(Pages(m)) /\ IF "W" \in fl THEN xrp_writeback_alien_mapping(b, m) ELSE UNCHANGED <<host, ret>>
    BY <1>5 DEF __xrp_unshare_block
  <2>2. ret' = ret \/ ("W" \in fl /\ ret' \in {ret, "copyback"})
    BY <2>1, Zenon DEF xrp_writeback_alien_mapping
  <2>3. b \in TakenIn(mapping) /\ m.type # "uninit"
    BY <1>5 DEF TakenIn, TakenTypes
  <2>4. QED
    BY <1>1, <2>1, <2>2, <2>3, Zenon
<1>6. CASE m.type \notin TakenTypes
  <2>1. m.type # "native" /\ m.type # "gup" /\ m.type # "copy" /\ m.type # "kcopy"
    BY <1>6 DEF TakenTypes
  <2>2. ref' = ref /\ ret' = ret
    BY <2>1 DEF __xrp_unshare_block
  <2>3. b \notin TakenIn(mapping)
    BY <1>6 DEF TakenIn
  <2>4. QED
    BY <1>1, <2>2, <2>3, Zenon
<1>7. QED
  BY <1>3, <1>4, <1>5, <1>6 DEF TakenTypes

\* Unsharing a block gives back what it holds and goes on to the next one.
LEMMA UnshareKeeps ==
  ASSUME CountInv, PhaseInv, UnshareBlock
  PROVE  CountInv' /\ PhaseInv'
<1> DEFINE b == Head(todo)
           order == Order
<1>1. /\ pc \in {"wb", "nowb"} /\ todo # <<>> /\ __xrp_unshare_block(b, UnshareFlags(b))
      /\ todo' = Tail(todo) /\ pc' \in IF mapping[b].type = "uninit" THEN {pc, "corrupt"} ELSE {pc}
      /\ heap' = heap /\ rq' = rq
  BY Zenon DEF UnshareBlock
<1>2. Order' = order
  BY <1>1 DEF Order, Inline
<1>3. todo \in Seq(Blocks) /\ Unsharing(pc, todo, mapping, ret, order)
  BY <1>1, Zenon DEF PhaseInv, Phase
<1>4. b \in Blocks /\ Tail(todo) \in Seq(Blocks) /\ Range(todo) = {b} \cup Range(Tail(todo))
  BY <1>1, <1>3, HeadAndTail, Zenon
<1>5. mapping \in [Blocks -> Mappings] /\ Within(mapping) /\ Counted(ref, mapping)
  BY Zenon DEF CountInv
<1>6. pc = "nowb" => "W" \notin UnshareFlags(b)
  BY Zenon DEF UnshareFlags
<1> HIDE DEF b, order
<1>7. /\ mapping' = [mapping EXCEPT ![b] = NoMapping]
      /\ b \in TakenIn(mapping) => Put(Pages(mapping[b]))
      /\ b \notin TakenIn(mapping) => ref' = ref
      /\ \/ ret' = ret
         \/ "W" \in UnshareFlags(b) /\ mapping[b].type # "uninit" /\ ret' \in {ret, "copyback"}
  BY <1>1, <1>4, <1>5, UnshareDoes, Zenon
<1>8. NoMapping \in Mappings /\ NoMapping.type \notin TakenTypes /\ NoMapping.type # "uninit"
  BY DEF NoMapping, Mapped, Mappings, Types, TakenTypes
<1>9. TakenIn(mapping') = TakenIn(mapping) \ {b} /\ UninitIn(mapping') = UninitIn(mapping) \ {b}
  <2>1. mapping' = [mapping EXCEPT ![b] = NoMapping]
    BY <1>7
  <2>2. /\ NoMapping.type \in TakenTypes => TakenIn(mapping') = TakenIn(mapping) \cup {b}
        /\ NoMapping.type \notin TakenTypes => TakenIn(mapping') = TakenIn(mapping) \ {b}
        /\ NoMapping.type # "uninit" => UninitIn(mapping') = UninitIn(mapping) \ {b}
    BY <2>1, <1>4, <1>5, Remapped, Zenon
  <2>3. QED
    BY <2>2, <1>8, Zenon
<1>10. mapping' \in [Blocks -> Mappings] /\ Within(mapping') /\ Counted(ref', mapping')
  <2>1. CASE b \in TakenIn(mapping)
    <3>1. ref' = [f \in Frames |-> ref[f] - (IF f \in Pages(mapping[b]) THEN 1 ELSE 0)]
      BY <2>1, <1>7, Zenon DEF Put
    <3>2. QED
      BY <3>1, <2>1, <1>5, <1>7, PutCounts, Zenon
  <2>2. CASE b \notin TakenIn(mapping)
    <3>1. mapping' \in [Blocks -> Mappings] /\ Within(mapping') /\ Counted(ref, mapping')
      BY <2>2, <1>4, <1>5, <1>7, <1>8, RestCounts, Zenon
    <3>2. QED
      BY <2>2, <3>1, <1>7
  <2>3. QED
    BY <2>1, <2>2
<1>11. CASE pc' = pc
  <2>1. pc = "nowb" => ret' = ret
    BY <1>6, <1>7, Zenon
  <2>2. Unsharing(pc', todo', mapping', ret', order)
    BY <1>1, <1>3, <1>4, <1>9, <1>11, <2>1, Zenon DEF Unsharing
  <2>3. Phase(pc', todo', mapping', heap', ret', order)
    BY <1>1, <1>4, <1>11, <2>2, Zenon DEF Phase
  <2>4. QED
    BY <2>3, <1>2, <1>10, Zenon DEF PhaseInv, CountInv
<1>12. CASE pc' # pc
  <2>1. pc' = "corrupt" /\ mapping[b].type = "uninit"
    BY <1>1, <1>12, Zenon DEF b
  <2>2. b \in UninitIn(mapping) \cap order
    BY <2>1, <1>3, <1>4, Zenon DEF UninitIn, Unsharing
  <2>3. ret = "map" /\ ret' = ret
    BY <2>1, <2>2, <1>3, <1>7, Zenon DEF Unsharing
  <2>4. Phase(pc', todo', mapping', heap', ret', order)
    BY <1>1, <1>4, <2>1, <2>3, Zenon DEF Phase
  <2>5. QED
    BY <2>4, <1>2, <1>10, Zenon DEF PhaseInv, CountInv
<1>13. QED
  BY <1>11, <1>12

----------------------------------------------------------------------------
(* The steps.                                                              *)

Places == {"idle", "map", "gup", "sent", "dsp", "complete", "wb", "nowb", "done", "oops", "corrupt"}
Results == {"none", "ok", "map", "device", "copyback", "off"}

\* The types of what the phases do not say.
HostTypes == pc \in Places /\ ret \in Results /\ rq \in Requests /\ heap \subseteq {"buffer_mapping", "dsp_buffer"}
RestTypes ==
  /\ flags \in [Buffers -> Flags] /\ wrote \subseteq Blocks \X Nat
  /\ stray \in BOOLEAN /\ unmapped \in BOOLEAN

RequestInv == CountInv /\ PhaseInv /\ VmaInv /\ HostTypes /\ RestTypes

\* The memory behind a block becomes known.
LEMMA VmaSet ==
  ASSUME VmaInv, NEW b \in Blocks, NEW l \in Found, l.size = Len(l.frames),
         vma' = [vma EXCEPT ![b] = l],
         pc' = "gup" => b = Head(todo) /\ todo' = todo /\ l.size > 0
  PROVE  VmaInv'
<1>1. vma \in [Blocks -> Found] /\ \A c \in Blocks : vma[c].size = Len(vma[c].frames)
  BY Zenon DEF VmaInv
<1>2. vma' \in [Blocks -> Found] /\ vma'[b] = l /\ \A c \in Blocks : c # b => vma'[c] = vma[c]
  BY <1>1, Zenon
<1>3. ASSUME NEW c \in Blocks PROVE vma'[c].size = Len(vma'[c].frames)
  BY <1>1, <1>2, Zenon
<1>4. pc' = "gup" => vma'[Head(todo')].size > 0
  BY <1>2, Zenon
<1>5. QED
  BY <1>2, <1>3, <1>4, Zenon DEF VmaInv

\* Or stays what it is.
LEMMA VmaSame ==
  ASSUME VmaInv, vma' = vma, pc' # "gup"
  PROVE  VmaInv'
  BY Zenon DEF VmaInv

\* Where a step of xrp_map_request leads.
LEMMA SharingTypes ==
  ASSUME HostTypes, heap' = heap, rq' = rq, NEW b,
         Takes(b) \/ GivesUp \/ Waits \/ UNCHANGED <<pc, ret>>
  PROVE  HostTypes'
<1>1. pc' \in {"map", "nowb", "gup"} \/ pc' = pc
  BY Zenon DEF Takes, GivesUp, Waits
<1>2. ret' = "map" \/ ret' = ret
  BY Zenon DEF Takes, GivesUp, Waits
<1>3. pc' \in Places
  BY <1>1 DEF Places, HostTypes
<1>4. ret' \in Results
  BY <1>2 DEF Results, HostTypes
<1>5. QED
  BY <1>3, <1>4 DEF HostTypes

\* in_data and out_data
LEMMA MapDataKeeps ==
  ASSUME RequestInv, MapData
  PROVE  RequestInv'
<1> DEFINE b == Head(todo)
<1>0. CountInv /\ PhaseInv /\ VmaInv /\ HostTypes /\ RestTypes /\ rq \in Requests
  BY DEF RequestInv, HostTypes
<1>1. PICK l \in Layouts[b] : __xrp_share_block(b, l, SharedFor(b))
  BY Zenon DEF MapData
<1>2. /\ pc = "map" /\ todo # <<>> /\ heap' = heap /\ rq' = rq
      /\ UNCHANGED <<flags, wrote, stray, unmapped>>
  BY DEF MapData, dspvars
<1>3. vma' = [vma EXCEPT ![b] = l]
  BY <1>1, Zenon DEF __xrp_share_block
<1>4. todo \in Seq(Blocks)
  BY <1>0, Zenon DEF PhaseInv, Phase
<1>5. b \in Blocks
  BY <1>2, <1>4, HeadAndTail, Zenon
<1>6. Takes(b) \/ GivesUp \/ Waits
  BY <1>1, <1>5, ShareBlockTakes, Zenon
<1>7. CountInv' /\ PhaseInv'
  BY <1>0, <1>2, <1>6, SharingKeeps, Zenon
<1>8. l \in Found /\ l.size = Len(l.frames) /\ l.size > 0
  BY <1>1, <1>5, LayoutIsFound, Zenon
<1>9. pc' = "gup" => todo' = todo
  BY <1>6 DEF Takes, GivesUp, Waits
<1>10. VmaInv'
  BY <1>0, <1>3, <1>5, <1>8, <1>9, VmaSet, Zenon
<1>11. HostTypes'
  BY <1>0, <1>2, <1>6, SharingTypes, Zenon
<1>12. RestTypes'
  BY <1>0, <1>2, Zenon DEF RestTypes
<1>13. QED
  BY <1>7, <1>10, <1>11, <1>12, Zenon DEF RequestInv

\* The caller's buffers
LEMMA MapBufferKeeps ==
  ASSUME RequestInv, MapBuffer
  PROVE  RequestInv'
<1> DEFINE b == Head(todo)
<1>0. CountInv /\ PhaseInv /\ VmaInv /\ HostTypes /\ RestTypes /\ rq \in Requests
  BY DEF RequestInv, HostTypes
<1>1. /\ pc = "map" /\ todo # <<>> /\ b \in Buffers /\ heap' = heap /\ rq' = rq
      /\ UNCHANGED <<wrote, stray, unmapped>>
  BY DEF MapBuffer, dspvars
<1>2. todo \in Seq(Blocks)
  BY <1>0, Zenon DEF PhaseInv, Phase
<1>3. b \in Blocks
  BY <1>1, <1>2, HeadAndTail, Zenon
<1>4. CASE ShareFails /\ UNCHANGED <<flags, vma>>
  <2>1. GivesUp
    BY <1>4 DEF ShareFails, GivesUp
  <2>2. CountInv' /\ PhaseInv'
    BY <1>0, <1>1, <2>1, SharingKeeps, Zenon
  <2>3. pc' # "gup"
    BY <2>1 DEF GivesUp
  <2>4. VmaInv'
    BY <1>0, <1>4, <2>3, VmaSame, Zenon
  <2>5. HostTypes'
    BY <1>0, <1>1, <2>1, SharingTypes, Zenon
  <2>6. RestTypes'
    BY <1>0, <1>1, <1>4, Zenon DEF RestTypes
  <2>7. QED
    BY <2>2, <2>4, <2>5, <2>6, Zenon DEF RequestInv
<1>5. ASSUME NEW fl \in Flags, NEW l \in Layouts[b], flags' = [flags EXCEPT ![b] = fl],
             \/ /\ todo' = Tail(todo)
                /\ UNCHANGED <<vma, pc, ret, mapping, ref, mem, host>>
             \/ __xrp_share_block(b, l, fl)
      PROVE  RequestInv'
  <2>1. flags' \in [Buffers -> Flags]
    BY <1>0, <1>1, <1>5, Zenon DEF RestTypes
  <2>2. RestTypes'
    BY <1>0, <1>1, <2>1, Zenon DEF RestTypes
  <2>3. CASE todo' = Tail(todo) /\ UNCHANGED <<vma, pc, ret, mapping, ref, mem, host>>
    <3>1. CountInv' /\ PhaseInv'
      BY <1>0, <1>1, <2>3, SharingKeeps, Zenon
    <3>2. pc' # "gup"
      BY <2>3, <1>1
    <3>3. VmaInv'
      BY <1>0, <2>3, <3>2, VmaSame, Zenon
    <3>4. HostTypes'
      BY <1>0, <1>1, <2>3, Zenon DEF HostTypes
    <3>5. QED
      BY <2>2, <3>1, <3>3, <3>4, Zenon DEF RequestInv
  <2>4. CASE __xrp_share_block(b, l, fl)
    <3>1. vma' = [vma EXCEPT ![b] = l]
      BY <2>4, Zenon DEF __xrp_share_block
    <3>2. Takes(b) \/ GivesUp \/ Waits
      BY <2>4, <1>3, ShareBlockTakes, Zenon
    <3>3. CountInv' /\ PhaseInv'
      BY <1>0, <1>1, <3>2, SharingKeeps, Zenon
    <3>4. l \in Found /\ l.size = Len(l.frames) /\ l.size > 0
      BY <1>3, LayoutIsFound, Zenon
    <3>5. pc' = "gup" => todo' = todo
      BY <3>2 DEF Takes, GivesUp, Waits
    <3>6. VmaInv'
      BY <1>0, <1>3, <3>1, <3>4, <3>5, VmaSet, Zenon
    <3>7. HostTypes'
      BY <1>0, <1>1, <3>2, SharingTypes, Zenon
    <3>8. QED
      BY <2>2, <3>3, <3>6, <3>7, Zenon DEF RequestInv
  <2>5. QED
    BY <1>5, <2>3, <2>4
<1>6. QED
  BY <1>4, <1>5, Zenon DEF MapBuffer

\* The array of descriptors
LEMMA MapDescriptorsKeeps ==
  ASSUME RequestInv, MapDescriptors
  PROVE  RequestInv'
<1>0. CountInv /\ PhaseInv /\ VmaInv /\ HostTypes /\ RestTypes /\ rq \in Requests
  BY DEF RequestInv, HostTypes
<1>1. /\ pc = "map" /\ todo # <<>> /\ Head(todo) = Desc /\ heap' = heap /\ rq' = rq
      /\ UNCHANGED <<flags, wrote, stray, unmapped>> /\ xrp_share_kernel
  BY DEF MapDescriptors, dspvars
<1>2. Takes(Desc) \/ GivesUp
  BY <1>1, KernelTakes, Zenon
<1>3. CountInv' /\ PhaseInv'
  BY <1>0, <1>1, <1>2, SharingKeeps, Zenon
<1>4. PICK f \in KernelFrames : vma' = [vma EXCEPT ![Desc] = [kind |-> "kernel", frames |-> <<f>>, size |-> 1]]
  BY <1>1, Zenon DEF xrp_share_kernel
<1> DEFINE l == [kind |-> "kernel", frames |-> <<f>>, size |-> 1]
<1>5. l \in Found /\ l.size = Len(l.frames)
  <2>1. f \in Frames
    BY FramesAreNumbers, Zenon
  <2>2. <<f>> \in Seq(Frames) /\ Len(<<f>>) = 1
    BY <2>1
  <2>3. QED
    BY <2>2 DEF Found
<1>6. Desc \in Blocks
  BY RequestAssumption DEF Blocks, In, Desc
<1>7. pc' # "gup"
  BY <1>2 DEF Takes, GivesUp
<1>8. vma' = [vma EXCEPT ![Desc] = l]
  BY <1>4
<1> HIDE DEF l
<1>9. VmaInv'
  BY <1>0, <1>5, <1>6, <1>7, <1>8, VmaSet, Zenon
<1>10. HostTypes'
  BY <1>0, <1>1, <1>2, SharingTypes, Zenon
<1>11. RestTypes'
  BY <1>0, <1>1, Zenon DEF RestTypes
<1>12. QED
  BY <1>3, <1>9, <1>10, <1>11, Zenon DEF RequestInv

\* Pages of anonymous memory
LEMMA GupKeeps ==
  ASSUME RequestInv, xvp_gup_virt_to_phys
  PROVE  RequestInv'
<1>0. CountInv /\ PhaseInv /\ VmaInv /\ HostTypes /\ RestTypes /\ rq \in Requests
  BY DEF RequestInv, HostTypes
<1>1. pc = "gup" /\ heap' = heap /\ rq' = rq /\ UNCHANGED <<flags, vma, wrote, stray, unmapped>>
  BY DEF xvp_gup_virt_to_phys, dspvars
<1>2. todo \in Seq(Blocks) /\ todo # <<>>
  BY <1>0, <1>1, Zenon DEF PhaseInv, Phase
<1>3. Takes(Head(todo)) \/ GivesUp
  BY <1>0, <1>2, GupTakes, Zenon
<1>4. CountInv' /\ PhaseInv'
  BY <1>0, <1>1, <1>2, <1>3, SharingKeeps, Zenon
<1>5. pc' # "gup"
  BY <1>3 DEF Takes, GivesUp
<1>6. VmaInv'
  BY <1>0, <1>1, <1>5, VmaSame, Zenon
<1>7. HostTypes'
  BY <1>0, <1>1, <1>3, SharingTypes, Zenon
<1>8. RestTypes'
  BY <1>0, <1>1, Zenon DEF RestTypes
<1>9. QED
  BY <1>4, <1>6, <1>7, <1>8, Zenon DEF RequestInv

\* A step that neither takes nor gives back anything.
LEMMA Moves ==
  ASSUME RequestInv, mapping' = mapping, ref' = ref, rq' = rq, vma' = vma,
         Phase(pc', todo', mapping, heap', ret', Order),
         pc' # "gup", pc' \in Places, ret' \in Results,
         heap' \subseteq {"buffer_mapping", "dsp_buffer"}, RestTypes'
  PROVE  RequestInv'
<1>1. CountInv'
  BY Zenon DEF RequestInv, CountInv
<1>2. Order' = Order
  BY DEF Order, Inline
<1>3. PhaseInv'
  BY <1>2, Zenon DEF PhaseInv
<1>4. VmaInv'
  BY VmaSame, Zenon DEF RequestInv
<1>5. HostTypes'
  BY Zenon DEF RequestInv, HostTypes
<1>6. QED
  BY <1>1, <1>3, <1>4, <1>5, Zenon DEF RequestInv

\* A command that was mapped fails: every block is unshared.
LEMMA FailsMoves ==
  ASSUME RequestInv, pc \in {"sent", "dsp", "complete"} \/ (pc = "map" /\ todo = <<>>),
         NEW r \in Results, Fails(r), mapping' = mapping, ref' = ref, rq' = rq, vma' = vma, heap' = heap, RestTypes'
  PROVE  RequestInv'
<1>0. CountInv /\ PhaseInv /\ VmaInv /\ HostTypes /\ rq \in Requests
  BY DEF RequestInv, HostTypes
<1>1. ret' = r /\ pc' = "nowb" /\ todo' = NowbOrder
  BY DEF Fails
<1>2. TakenIn(mapping) \subseteq Order /\ UninitIn(mapping) \cap Order = {}
  <2>1. CASE pc \in {"sent", "dsp", "complete"}
    BY <1>0, <2>1, Zenon DEF PhaseInv, Phase
  <2>2. CASE pc = "map" /\ todo = <<>>
    <3>1. Sharing(todo, mapping, Order)
      BY <1>0, <2>2, Zenon DEF PhaseInv, Phase
    <3>2. DOMAIN <<>> = {}
      OBVIOUS
    <3>3. Range(todo) = {}
      BY <2>2, <3>2, Zenon DEF Range
    <3>4. QED
      BY <3>1, <3>3, Zenon DEF Sharing
  <2>3. QED
    BY <2>1, <2>2
<1>3. Phase(pc', todo', mapping', heap', ret', Order)
  BY <1>0, <1>1, <1>2, GivesUpKeeps, Zenon
<1>4. pc' # "gup" /\ pc' \in Places /\ ret' \in Results
  BY <1>1 DEF Places
<1>5. heap' \subseteq {"buffer_mapping", "dsp_buffer"}
  BY <1>0 DEF HostTypes
<1>6. QED
  BY <1>3, <1>4, <1>5, Moves, Zenon

\* xrp_ioctl_submit_sync starts with nothing shared.
LEMMA SubmitKeeps ==
  ASSUME RequestInv, NEW i \in Inputs, xrp_ioctl_submit_sync(i[1], i[2], i[3])
  PROVE  RequestInv'
<1>0. CountInv /\ PhaseInv /\ VmaInv /\ HostTypes /\ RestTypes
  BY DEF RequestInv
<1>1. /\ pc = "idle" /\ rq' = [in |-> i[1], out |-> i[2], n |-> i[3]]
      /\ UNCHANGED <<flags, vma, ref, wrote, stray, unmapped>>
  BY DEF xrp_ioctl_submit_sync, dspvars
<1>2. rq' \in Requests
  <2>1. i \in BOOLEAN \X BOOLEAN \X (0..NBuffers)
    BY RequestAssumption, Zenon
  <2>2. i[1] \in BOOLEAN /\ i[2] \in BOOLEAN /\ i[3] \in 0..NBuffers
    BY <2>1
  <2>3. QED
    BY <1>1, <2>2, Zenon DEF Requests
<1>3. /\ TakenIn(mapping) = {} /\ heap = {} /\ todo \in Seq(Blocks)
      /\ mapping \in [Blocks -> Mappings] /\ Counted(ref, mapping)
  BY <1>0, <1>1, Zenon DEF PhaseInv, Phase, CountInv
<1>4. RestTypes'
  BY <1>0, <1>1, Zenon DEF RestTypes
<1>5. CASE pc' = "done" /\ ret' = "map" /\ UNCHANGED <<todo, mapping, heap>>
  <2>1. Phase(pc', todo', mapping', heap', ret', Order')
    BY <1>3, <1>5, Zenon DEF Phase
  <2>2. PhaseInv'
    BY <2>1, Zenon DEF PhaseInv
  <2>3. CountInv'
    BY <1>0, <1>1, <1>5, Zenon DEF CountInv
  <2>4. pc' # "gup" /\ pc' \in Places /\ ret' \in Results
    BY <1>5 DEF Places, Results
  <2>5. VmaInv'
    BY <1>0, <1>1, <2>4, VmaSame, Zenon
  <2>6. HostTypes'
    BY <1>0, <1>2, <1>5, <2>4, Zenon DEF HostTypes
  <2>7. QED
    BY <2>2, <2>3, <2>5, <2>6, <1>4, Zenon DEF RequestInv
<1>6. CASE /\ \/ pc' = "map" /\ todo' = MapOrder' /\ ret' = ret
              \/ pc' = "nowb" /\ todo' = NowbOrder' /\ ret' = "map"
           /\ mapping' = [b \in Blocks |-> IF b \in Buffers THEN NoMapping ELSE Unset]
           /\ heap' \subseteq {"buffer_mapping", "dsp_buffer"}
  <2>1. (Part(MapOrder, Order) /\ Increasing(MapOrder) /\ Part(NowbOrder, Order))'
    <3>1. (rq \in Requests =>
             Part(MapOrder, Order) /\ Increasing(MapOrder) /\ Part(NowbOrder, Order))'
      BY Orders, PTL
    <3>2. QED
      BY <3>1, <1>2, Zenon
  <2>2. /\ NoMapping \in Mappings /\ NoMapping.type \notin TakenTypes /\ NoMapping.type # "uninit"
        /\ Unset \in Mappings /\ Unset.type \notin TakenTypes
    BY DEF NoMapping, Unset, Mapped, Mappings, Types, TakenTypes
  <2>3. /\ mapping' \in [Blocks -> Mappings] /\ TakenIn(mapping') = {}
        /\ UninitIn(mapping') \cap Buffers = {}
    BY <1>6, <2>2, Zenon DEF TakenIn, UninitIn
  <2>4. CountInv'
    <3>1. ASSUME NEW f PROVE UsersOf(f, mapping') = UsersOf(f, mapping)
      BY <1>3, <2>3, Zenon DEF UsersOf
    <3>2. Counted(ref', mapping')
      BY <1>1, <1>3, <3>1, Zenon DEF Counted
    <3>3. Within(mapping')
      BY <2>3, Zenon DEF Within
    <3>4. QED
      BY <2>3, <3>2, <3>3, Zenon DEF CountInv
  <2>5. PhaseInv'
    <3>1. CASE pc' = "map" /\ todo' = MapOrder' /\ ret' = ret
      <4>1. todo' \in Seq(Blocks) /\ Range(todo') = Order' /\ Increasing(todo')
        BY <2>1, <3>1, Zenon DEF Part
      <4>2. Sharing(todo', mapping', Order')
        BY <2>3, <4>1, Zenon DEF Sharing
      <4>3. Phase(pc', todo', mapping', heap', ret', Order')
        BY <3>1, <4>1, <4>2, Zenon DEF Phase
      <4>4. QED
        BY <4>3, Zenon DEF PhaseInv
    <3>2. CASE pc' = "nowb" /\ todo' = NowbOrder' /\ ret' = "map"
      <4>1. todo' \in Seq(Blocks) /\ Range(todo') = Order'
        BY <2>1, <3>2, Zenon DEF Part
      <4>2. Unsharing(pc', todo', mapping', ret', Order')
        BY <2>3, <3>2, <4>1, Zenon DEF Unsharing
      <4>3. Phase(pc', todo', mapping', heap', ret', Order')
        BY <3>2, <4>1, <4>2, Zenon DEF Phase
      <4>4. QED
        BY <4>3, Zenon DEF PhaseInv
    <3>3. QED
      BY <1>6, <3>1, <3>2, Zenon
  <2>6. pc' \in {"map", "nowb"} /\ (ret' = ret \/ ret' = "map")
    BY <1>6, Zenon
  <2>7. pc' # "gup" /\ pc' \in Places
    BY <2>6 DEF Places
  <2>8. ret' \in Results
    BY <2>6, <1>0 DEF Results, HostTypes
  <2>9. VmaInv'
    BY <1>0, <1>1, <2>7, VmaSame, Zenon
  <2>10. HostTypes'
    BY <1>2, <1>6, <2>7, <2>8, Zenon DEF HostTypes
  <2>11. QED
    BY <2>4, <2>5, <2>9, <2>10, <1>4, Zenon DEF RequestInv
<1>7. QED
  BY <1>5, <1>6, Zenon DEF xrp_ioctl_submit_sync

\* The rest of the host's steps.
LEMMA HostKeeps ==
  ASSUME RequestInv,
         Oops \/ xrp_fill_hw_request \/ Timeout \/ xrp_complete_hw_request \/ UnshareBlock \/ Return
  PROVE  RequestInv'
<1>0. CountInv /\ PhaseInv /\ VmaInv /\ HostTypes /\ RestTypes /\ todo \in Seq(Blocks)
  BY Zenon DEF RequestInv, PhaseInv, Phase
<1>p. pc \in Places /\ ret \in Results /\ rq \in Requests /\ heap \subseteq {"buffer_mapping", "dsp_buffer"}
  BY <1>0, Zenon DEF HostTypes
<1>r. "device" \in Results /\ "off" \in Results /\ "ok" \in Results /\ "copyback" \in Results
  BY DEF Results
<1>1. CASE Oops
  <2>1. pc' = "oops" /\ UNCHANGED <<rq, todo, flags, vma, mapping, heap, ref, wrote, stray, unmapped, ret>>
    BY <1>1 DEF Oops, hostvars, dspvars
  <2>2. Phase(pc', todo', mapping, heap', ret', Order)
    BY <1>0, <2>1, Zenon DEF Phase
  <2>3. RestTypes'
    BY <1>0, <2>1, Zenon DEF RestTypes
  <2>4. pc' # "gup" /\ pc' \in Places
    BY <2>1 DEF Places
  <2>5. QED
    BY <1>p, <2>1, <2>2, <2>3, <2>4, Moves, Zenon
<1>2. CASE xrp_fill_hw_request
  <2>1. pc = "map" /\ todo = <<>> /\ UNCHANGED <<rq, flags, vma, mapping, heap, ref, wrote, stray, unmapped>>
    BY <1>2 DEF xrp_fill_hw_request
  <2>2. RestTypes'
    BY <1>0, <2>1, Zenon DEF RestTypes
  <2>3. CASE Fails("device")
    BY <1>r, <2>1, <2>2, <2>3, FailsMoves, Zenon
  <2>4. CASE pc' = "sent" /\ ret' = ret /\ todo' = todo
    <3>1. Sharing(todo, mapping, Order)
      BY <1>0, <2>1, Zenon DEF PhaseInv, Phase
    <3>2. DOMAIN <<>> = {}
      OBVIOUS
    <3>3. Range(todo) = {}
      BY <2>1, <3>2, Zenon DEF Range
    <3>4. TakenIn(mapping) \subseteq Order /\ UninitIn(mapping) \cap Order = {}
      BY <3>1, <3>3, Zenon DEF Sharing
    <3>5. Phase(pc', todo', mapping, heap', ret', Order)
      BY <1>0, <2>4, <3>4, Zenon DEF Phase
    <3>6. pc' # "gup" /\ pc' \in Places
      BY <2>4 DEF Places
    <3>7. QED
      BY <1>p, <2>1, <2>2, <2>4, <3>5, <3>6, Moves, Zenon
  <2>5. QED
    BY <1>2, <2>3, <2>4 DEF xrp_fill_hw_request
<1>3. CASE Timeout
  <2>1. /\ pc \in {"sent", "dsp"} /\ UNCHANGED <<rq, flags, vma, mapping, heap, ref, wrote, stray, unmapped>>
        /\ Fails("device") \/ (pc' = "done" /\ ret' = "off" /\ todo' = todo)
    BY <1>3 DEF Timeout
  <2>2. RestTypes'
    BY <1>0, <2>1, Zenon DEF RestTypes
  <2>3. CASE Fails("device")
    BY <1>r, <2>1, <2>2, <2>3, FailsMoves, Zenon
  <2>4. CASE pc' = "done" /\ ret' = "off" /\ todo' = todo
    <3>1. Phase(pc', todo', mapping, heap', ret', Order)
      BY <1>0, <2>4, Zenon DEF Phase
    <3>2. pc' # "gup" /\ pc' \in Places
      BY <2>4 DEF Places
    <3>3. QED
      BY <1>p, <1>r, <2>1, <2>2, <2>4, <3>1, <3>2, Moves, Zenon
  <2>5. QED
    BY <2>1, <2>3, <2>4
<1>4. CASE xrp_complete_hw_request
  <2>1. /\ pc = "complete" /\ UNCHANGED <<rq, flags, vma, mapping, heap, ref, wrote, stray, unmapped>>
        /\ Fails("device") \/ (pc' = "wb" /\ ret' = "ok" /\ todo' = WbOrder)
    BY <1>4 DEF xrp_complete_hw_request, dspvars
  <2>2. RestTypes'
    BY <1>0, <2>1, Zenon DEF RestTypes
  <2>3. CASE Fails("device")
    BY <1>r, <2>1, <2>2, <2>3, FailsMoves, Zenon
  <2>4. CASE pc' = "wb" /\ ret' = "ok" /\ todo' = WbOrder
    <3>1. TakenIn(mapping) \subseteq Order /\ UninitIn(mapping) \cap Order = {}
      BY <1>0, <2>1, Zenon DEF PhaseInv, Phase
    <3>2. todo' \in Seq(Blocks) /\ Range(todo') = Order
      BY <1>p, <2>4, Orders, Zenon DEF Part
    <3>3. Unsharing(pc', todo', mapping, ret', Order)
      BY <3>1, <3>2, Zenon DEF Unsharing
    <3>4. Phase(pc', todo', mapping, heap', ret', Order)
      BY <2>4, <3>2, <3>3, Zenon DEF Phase
    <3>5. pc' # "gup" /\ pc' \in Places
      BY <2>4 DEF Places
    <3>6. QED
      BY <1>p, <1>r, <2>1, <2>2, <2>4, <3>4, <3>5, Moves, Zenon
  <2>5. QED
    BY <2>1, <2>3, <2>4
<1>5. CASE UnshareBlock
  <2>1. /\ pc \in {"wb", "nowb"} /\ pc' \in {pc, "corrupt"} /\ UNCHANGED <<rq, heap, vma, flags>>
        /\ UNCHANGED <<wrote, stray, unmapped>> /\ todo # <<>>
        /\ __xrp_unshare_block(Head(todo), UnshareFlags(Head(todo)))
    BY <1>5, Zenon DEF UnshareBlock, dspvars
  <2>2. CountInv' /\ PhaseInv'
    BY <1>0, <1>5, UnshareKeeps, Zenon
  <2>3. pc' # "gup" /\ pc' \in Places
    BY <2>1 DEF Places
  <2>4. VmaInv'
    BY <1>0, <2>1, <2>3, VmaSame, Zenon
  <2>5. Head(todo) \in Blocks
    BY <1>0, <2>1, HeadAndTail, Zenon
  <2>6. mapping \in [Blocks -> Mappings]
    BY <1>0, Zenon DEF CountInv
  <2>7. ret' = ret \/ ret' \in {ret, "copyback"}
    BY <2>1, <2>5, <2>6, UnshareDoes, Zenon
  <2>8. ret' \in Results
    BY <2>7, <1>p, <1>r, Zenon
  <2>9. HostTypes'
    BY <1>p, <2>1, <2>3, <2>8, Zenon DEF HostTypes
  <2>10. RestTypes'
    BY <1>0, <2>1, Zenon DEF RestTypes
  <2>11. QED
    BY <2>2, <2>4, <2>9, <2>10, Zenon DEF RequestInv
<1>6. CASE Return
  <2>1. /\ pc \in {"wb", "nowb"} /\ todo = <<>> /\ pc' = "done" /\ heap' = {}
        /\ ret' \in {ret, "copyback"}
        /\ UNCHANGED <<rq, todo, flags, vma, mapping, ref, wrote, stray, unmapped>>
    BY <1>6 DEF Return, dspvars
  <2>2. Unsharing(pc, todo, mapping, ret, Order)
    BY <1>0, <2>1, Zenon DEF PhaseInv, Phase
  <2>3. DOMAIN <<>> = {}
    OBVIOUS
  <2>4. TakenIn(mapping) = {}
    BY <2>1, <2>2, <2>3, Zenon DEF Unsharing, Range
  <2>5. Phase(pc', todo', mapping, heap', ret', Order)
    BY <1>0, <2>1, <2>4, Zenon DEF Phase
  <2>6. pc' # "gup" /\ pc' \in Places /\ ret' \in Results
    BY <2>1, <1>p, <1>r DEF Places
  <2>7. RestTypes'
    BY <1>0, <2>1, Zenon DEF RestTypes
  <2>8. heap' \subseteq {"buffer_mapping", "dsp_buffer"}
    BY <2>1
  <2>9. QED
    BY <2>1, <2>5, <2>6, <2>7, <2>8, Moves, Zenon
<1>7. QED
  BY <1>1, <1>2, <1>3, <1>4, <1>5, <1>6

\* What the handler writes are pages of blocks.
LEMMA StoreTypes ==
  ASSUME RestTypes, NEW b \in Blocks, NEW ptr, NEW pages, pages \subseteq Nat,
         Store(b, ptr, pages), flags' = flags, unmapped' = unmapped
  PROVE  RestTypes'
<1>1. wrote' = wrote \cup {<<b, p>> : p \in pages}
  BY Zenon DEF Store
<1>2. stray' \in BOOLEAN
  BY DEF Store
<1>3. {<<b, p>> : p \in pages} \subseteq Blocks \X Nat
  OBVIOUS
<1>4. wrote' \subseteq Blocks \X Nat
  BY <1>1, <1>3, Zenon DEF RestTypes
<1>5. QED
  BY <1>2, <1>4, Zenon DEF RestTypes

\* The DSP changes no reference and no mapping.
LEMMA DeviceKeeps ==
  ASSUME RequestInv, Device
  PROVE  RequestInv'
<1>0. CountInv /\ PhaseInv /\ VmaInv /\ HostTypes /\ RestTypes /\ todo \in Seq(Blocks)
  BY Zenon DEF RequestInv, PhaseInv, Phase
<1>p. pc \in Places /\ ret \in Results /\ rq \in Requests /\ heap \subseteq {"buffer_mapping", "dsp_buffer"}
  BY <1>0, Zenon DEF HostTypes
<1>1. ASSUME pc \in {"sent", "dsp"}, pc' \in {"sent", "dsp", "complete"},
             UNCHANGED <<rq, todo, vma, mapping, heap, ref, ret>>, RestTypes'
      PROVE  RequestInv'
  <2>1. TakenIn(mapping) \subseteq Order /\ UninitIn(mapping) \cap Order = {}
    BY <1>0, <1>1, Zenon DEF PhaseInv, Phase
  <2>2. Phase(pc', todo', mapping, heap', ret', Order)
    BY <1>0, <1>1, <2>1, Zenon DEF Phase
  <2>3. pc' # "gup" /\ pc' \in Places
    BY <1>1 DEF Places
  <2>4. QED
    BY <1>p, <1>1, <2>2, <2>3, Moves, Zenon
<1>2. CASE process_command
  <2>1. /\ pc = "sent" /\ pc' = "dsp" /\ UNCHANGED <<rq, todo, vma, mapping, heap, ref, ret>>
        /\ UNCHANGED <<flags, wrote, stray, unmapped>>
    BY <1>2 DEF process_command, hostvars
  <2>2. RestTypes'
    BY <1>0, <2>1, Zenon DEF RestTypes
  <2>3. QED
    BY <2>1, <2>2, <1>1
<1>3. CASE process_command_fails
  <2>1. /\ pc = "sent" /\ pc' = "complete" /\ UNCHANGED <<rq, todo, vma, mapping, heap, ref, ret>>
        /\ UNCHANGED <<flags, wrote, stray, unmapped>>
    BY <1>3 DEF process_command_fails, hostvars
  <2>2. RestTypes'
    BY <1>0, <2>1, Zenon DEF RestTypes
  <2>3. QED
    BY <2>1, <2>2, <1>1
<1>4. CASE Handler
  <2>1. /\ pc = "dsp" /\ UNCHANGED <<pc, rq, todo, vma, mapping, heap, ref, ret, flags, unmapped>>
    BY <1>4 DEF Handler, handlervars, hostvars
  <2>2. PICK i \in 1..rq.n, offset \in 0..1, size \in 1..2 :
          \/ Store(i, buffer[i].ptr, offset..(offset + size - 1))
          \/ UNCHANGED <<dsp, wrote, stray>>
    BY <1>4, Zenon DEF Handler, HandlerUsesBuffer
  <2>3. CASE UNCHANGED <<dsp, wrote, stray>>
    <3>1. RestTypes'
      BY <1>0, <2>1, <2>3, Zenon DEF RestTypes
    <3>2. QED
      BY <2>1, <3>1, <1>1
  <2>4. CASE Store(i, buffer[i].ptr, offset..(offset + size - 1))
    <3>1. rq.n \in 0..NBuffers /\ NBuffers \in Nat
      BY <1>p, RequestAssumption DEF Requests
    <3>2. i \in Blocks
      BY <3>1 DEF Blocks, In, Desc
    <3>3. offset..(offset + size - 1) \subseteq Nat
      OBVIOUS
    <3>4. RestTypes'
      BY <1>0, <2>1, <2>4, <3>2, <3>3, StoreTypes, Zenon
    <3>5. QED
      BY <2>1, <3>4, <1>1
  <2>5. QED
    BY <2>2, <2>3, <2>4
<1>5. CASE HandlerWritesOut
  <2>1. /\ pc = "dsp" /\ UNCHANGED <<pc, rq, todo, vma, mapping, heap, ref, ret, flags, unmapped>>
        /\ Store(Out, cmd.out, 0..(vma[Out].size - 1))
    BY <1>5 DEF HandlerWritesOut, handlervars, hostvars
  <2>2. Out \in Blocks
    BY RequestAssumption DEF Blocks, In, Out, Desc
  <2>3. 0..(vma[Out].size - 1) \subseteq Nat
    OBVIOUS
  <2>4. RestTypes'
    BY <1>0, <2>1, <2>2, <2>3, StoreTypes, Zenon
  <2>5. QED
    BY <2>1, <2>4, <1>1
<1>6. ASSUME NEW success \in BOOLEAN, process_command_returns(success) PROVE RequestInv'
  <2>1. /\ pc = "dsp" /\ pc' = "complete" /\ UNCHANGED <<rq, todo, vma, mapping, heap, ref, ret>>
        /\ UNCHANGED <<flags, wrote, stray, unmapped>>
    BY <1>6 DEF process_command_returns, hostvars
  <2>2. RestTypes'
    BY <1>0, <2>1, Zenon DEF RestTypes
  <2>3. QED
    BY <2>1, <2>2, <1>1
<1>7. QED
  BY <1>2, <1>3, <1>4, <1>5, <1>6 DEF Device

\* munmap by another thread takes nothing from the request.
LEMMA MunmapKeeps ==
  ASSUME RequestInv, munmap
  PROVE  RequestInv'
<1>0. CountInv /\ PhaseInv /\ VmaInv /\ HostTypes /\ RestTypes
  BY DEF RequestInv
<1>1. /\ UNCHANGED <<pc, rq, todo, flags, mapping, heap, ref, ret, wrote, stray>> /\ unmapped' = TRUE
  BY DEF munmap, dspvars
<1>2. PICK b \in Blocks : vma' = [vma EXCEPT ![b].kind = "none"]
  BY DEF munmap
<1>3. CountInv' /\ HostTypes'
  BY <1>0, <1>1, Zenon DEF CountInv, HostTypes
<1>4. Order' = Order
  BY <1>1 DEF Order, Inline
<1>5. PhaseInv'
  BY <1>0, <1>1, <1>4, Zenon DEF PhaseInv
<1>6. RestTypes'
  BY <1>0, <1>1, Zenon DEF RestTypes
<1>7. VmaInv'
  <2>1. vma \in [Blocks -> Found] /\ \A c \in Blocks : vma[c].size = Len(vma[c].frames)
    BY <1>0, Zenon DEF VmaInv
  <2> DEFINE l == [vma[b] EXCEPT !.kind = "none"]
  <2>2. vma[b] \in Found
    BY <2>1, Zenon
  <2>3. l \in Found /\ l.size = vma[b].size /\ l.frames = vma[b].frames
    BY <2>2 DEF Found, Kinds
  <2>4. vma' = [vma EXCEPT ![b] = l]
    BY <1>2
  <2> HIDE DEF l
  <2>5. vma' \in [Blocks -> Found] /\ vma'[b] = l /\ \A c \in Blocks : c # b => vma'[c] = vma[c]
    BY <2>1, <2>3, <2>4, Zenon
  <2>6. ASSUME NEW c \in Blocks PROVE vma'[c].size = vma[c].size /\ vma'[c].frames = vma[c].frames
    BY <2>3, <2>5, Zenon
  <2>7. \A c \in Blocks : vma'[c].size = Len(vma'[c].frames)
    BY <2>1, <2>6, Zenon
  <2>8. ASSUME pc' = "gup" PROVE vma'[Head(todo')].size > 0
    <3>1. todo \in Seq(Blocks) /\ todo # <<>> /\ vma[Head(todo)].size > 0
      BY <1>0, <1>1, <2>8, Zenon DEF PhaseInv, Phase, VmaInv
    <3>2. Head(todo) \in Blocks
      BY <3>1, HeadAndTail, Zenon
    <3>3. QED
      BY <3>1, <3>2, <2>6, <1>1, Zenon
  <2>9. QED
    BY <2>5, <2>7, <2>8, Zenon DEF VmaInv
<1>8. QED
  BY <1>3, <1>5, <1>6, <1>7, Zenon DEF RequestInv

\* A request that has not begun.
LEMMA RequestInit ==
  ASSUME Init
  PROVE  RequestInv
<1>1. Unset \in Mappings /\ Unset.type \notin TakenTypes
  BY DEF Unset, Mappings, Types, TakenTypes
<1>2. mapping \in [Blocks -> Mappings] /\ TakenIn(mapping) = {}
  BY <1>1, Zenon DEF Init, TakenIn
<1>3. CountInv
  <2>1. ASSUME NEW f \in Frames PROVE ref[f] = Cardinality(UsersOf(f, mapping))
    <3>1. UsersOf(f, mapping) = {}
      BY <1>2, Zenon DEF UsersOf
    <3>2. ref[f] = 0
      BY DEF Init
    <3>3. QED
      BY <3>1, <3>2, FS_EmptySet, Zenon
  <2>2. ref \in [Frames -> Nat]
    BY DEF Init
  <2>3. QED
    BY <1>2, <2>1, <2>2, Zenon DEF CountInv, Counted, Within
<1>4. PhaseInv
  <2>1. todo \in Seq(Blocks) /\ pc = "idle" /\ heap = {}
    BY DEF Init
  <2>2. QED
    BY <1>2, <2>1, Zenon DEF PhaseInv, Phase
<1>5. VmaInv
  <2>1. [kind |-> "none", frames |-> <<>>, size |-> 0] \in Found
    BY DEF Found, Kinds
  <2>2. vma = [b \in Blocks |-> [kind |-> "none", frames |-> <<>>, size |-> 0]] /\ pc = "idle"
    BY Zenon DEF Init
  <2>3. vma \in [Blocks -> Found]
    BY <2>1, <2>2, Zenon
  <2>4. \A b \in Blocks : vma[b].size = Len(vma[b].frames)
    BY <2>2
  <2>5. QED
    BY <2>2, <2>3, <2>4, Zenon DEF VmaInv
<1>6. rq \in Requests
  <2>1. rq = [in |-> FALSE, out |-> FALSE, n |-> 0] /\ 0 \in 0..NBuffers
    BY RequestAssumption DEF Init
  <2>2. FALSE \in BOOLEAN
    OBVIOUS
  <2>3. QED
    BY <2>1, <2>2, Zenon DEF Requests
<1>7. HostTypes
  BY <1>6 DEF Init, HostTypes, Places, Results
<1>8. RestTypes
  BY DEF Init, RestTypes, Flags
<1>9. QED
  BY <1>3, <1>4, <1>5, <1>7, <1>8 DEF RequestInv

\* Every step keeps the invariant.
LEMMA RequestStep ==
  ASSUME RequestInv, [Next]_vars
  PROVE  RequestInv'
<1>1. CASE Host
  BY <1>1, SubmitKeeps, MapDataKeeps, MapBufferKeeps, MapDescriptorsKeeps, GupKeeps, HostKeeps, Zenon DEF Host
<1>2. CASE Device
  BY <1>2, DeviceKeeps
<1>3. CASE munmap
  BY <1>3, MunmapKeeps
<1>4. CASE UNCHANGED vars
  <2>1. UNCHANGED <<pc, rq, todo, flags, vma, mapping, heap, ref, ret, wrote, stray, unmapped>>
    BY <1>4 DEF vars, hostvars, dspvars
  <2>2. Order' = Order
    BY <2>1 DEF Order, Inline
  <2>3. QED
    BY <2>1, <2>2, Zenon DEF RequestInv, CountInv, PhaseInv, VmaInv, HostTypes, RestTypes
<1>5. QED
  BY <1>1, <1>2, <1>3, <1>4 DEF Next

----------------------------------------------------------------------------
(* The theorems.                                                           *)

\* The invariant holds for good.
LEMMA RequestInvariant == Spec => []RequestInv
<1>1. Init => RequestInv
  BY RequestInit
<1>2. RequestInv /\ [Next]_vars => RequestInv'
  BY RequestStep
<1>3. QED
  BY <1>1, <1>2, PTL DEF Spec

\* The variables have their types; in particular no page of the caller and no
\* allocation is put more often than xrp_map_request has got it.
THEOREM RequestTypes == Spec => []TypeOK
<1>1. RequestInv => TypeOK
  <2> SUFFICES ASSUME RequestInv PROVE TypeOK
    OBVIOUS
  <2>1. CountInv /\ PhaseInv /\ VmaInv /\ HostTypes /\ RestTypes
    BY DEF RequestInv
  <2>2. ASSUME NEW b \in Blocks
        PROVE  /\ vma[b].kind \in Kinds \cup {"kernel"}
               /\ mapping[b].type \in {"uninit", "none", "native", "gup", "pfn", "copy", "kernel", "kcopy"}
    <3>1. vma[b] \in Found /\ mapping[b] \in Mappings
      BY <2>1, Zenon DEF VmaInv, CountInv
    <3>2. QED
      BY <3>1 DEF Found, Mappings, Types, TakenTypes
  <2>3. ref \in [Frames -> Nat] /\ todo \in Seq(Blocks)
    BY <2>1, Zenon DEF CountInv, Counted, PhaseInv, Phase
  <2>4. QED
    BY <2>1, <2>2, <2>3, Zenon DEF TypeOK, HostTypes, RestTypes, Requests, Places, Results
<1>2. QED
  BY <1>1, RequestInvariant, PTL

\* When xrp_ioctl_submit_sync returns, whichever of its steps failed, every page
\* and allocation that __xrp_share_block took was given back exactly once and
\* the arrays are freed, unless the DSP went off; until then what the DSP was
\* given is held.
THEOREM ReferencesAreReturned == Spec => []ReferencesReturned
<1>1. RequestInv => ReferencesReturned
  <2> SUFFICES ASSUME RequestInv PROVE ReferencesReturned
    OBVIOUS
  <2>1. CountInv /\ PhaseInv
    BY DEF RequestInv
  <2>2. \A f \in Frames : ref[f] = Cardinality(UsersOf(f, mapping)) /\ ref[f] \in Nat
    BY <2>1, Zenon DEF CountInv, Counted
  <2>3. ASSUME pc = "done", ret # "off" PROVE heap = {} /\ \A f \in Frames : ref[f] = 0
    <3>1. heap = {} /\ TakenIn(mapping) = {}
      BY <2>1, <2>3, Zenon DEF PhaseInv, Phase
    <3>2. ASSUME NEW f \in Frames PROVE ref[f] = 0
      <4>1. UsersOf(f, mapping) = {}
        BY <3>1, Zenon DEF UsersOf
      <4>2. QED
        BY <4>1, <2>2, FS_EmptySet, Zenon
    <3>3. QED
      BY <3>1, <3>2
  <2>4. ASSUME NEW b \in Shareds, NEW f \in Pages(mapping[b]) PROVE ref[f] > 0
    <3>1. b \in TakenIn(mapping)
      BY Zenon DEF Shareds, TakenIn, TakenTypes
    <3>2. f \in Frames
      BY <3>1, <2>1, Zenon DEF CountInv, Within
    <3>3. b \in UsersOf(f, mapping) /\ IsFiniteSet(UsersOf(f, mapping))
      BY <3>1, UsersAreFinite, Zenon DEF UsersOf
    <3>4. ref[f] # 0
      BY <3>2, <3>3, <2>2, FS_EmptySet, Zenon
    <3>5. QED
      BY <3>2, <3>4, <2>2
  <2>5. QED
    BY <2>3, <2>4, Zenon DEF ReferencesReturned
<1>2. QED
  BY <1>1, RequestInvariant, PTL

\* xrp_unmap_request_nowb unshares a mapping that was never set up only when
\* xrp_map_request itself has failed, whatever the request consists of.
THEOREM MappedIsInitialised == Spec => []UninitialisedOnlyIfMapFailed
<1>1. RequestInv => UninitialisedOnlyIfMapFailed
  BY Zenon DEF RequestInv, PhaseInv, Phase, UninitialisedOnlyIfMapFailed
<1>2. QED
  BY <1>1, RequestInvariant, PTL
=============================================================================
