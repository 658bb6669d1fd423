-------------------------- MODULE XrpCmdNs_proofs --------------------------
(***************************************************************************)
(* Proofs about the table of namespace handlers for any set of ids, any    *)
(* handlers and an array of any size: the bisection finds its place, the   *)
(* array stays the sorted map of what is registered, and the status of a   *)
(* call and the choice of a handler are right.                             *)
(***************************************************************************)
EXTENDS XrpCmdNs, WellFoundedInduction, TLAPS

----------------------------------------------------------------------------
(* The bisection of find_cmd_ns.                                           *)

Ranges(n) == (0..n) \X (0..n)

\* The half of r that is searched next.
Half(array, id, r) ==
  LET c == (r[1] + r[2]) \div 2
  IN  IF id < array[c + 1].id THEN <<r[1], c>> ELSE <<c, r[2]>>

\* One round of the bisection, the rest of it given by f.
Round(array, id, f, r) ==
  IF r[2] - r[1] > 1 THEN f[Half(array, id, r)]
  ELSE IF r[1] < r[2] /\ id > array[r[1] + 1].id THEN r[1] + 1 ELSE r[1]

\* f is the recursive function of find_cmd_ns.
Bisects(array, id, n, f) == f = [r \in Ranges(n) |-> Round(array, id, f, r)]

\* The place of id in the first n elements of the array.
IsPlace(array, id, n, p) ==
  /\ p \in 0..n
  /\ \A i \in 1..p : array[i].id < id
  /\ \A i \in (p + 1)..n : id <= array[i].id

\* The first n elements have numbers for ids, in increasing order.
Ordered(array, n) ==
  /\ \A i \in 1..n : array[i].id \in Int
  /\ \A i, j \in 1..n : i < j => array[i].id < array[j].id

\* A set of numbers that is not empty has a least element.
LEMMA LeastElement ==
  ASSUME NEW T, T \subseteq Nat, T # {}
  PROVE  \E x \in T : \A y \in T : x <= y
<1> DEFINE R == OpToRel(<, Nat)
<1>1. PICK x \in T : \A y \in T : ~(<<y, x>> \in R)
  <2>1. IsWellFoundedOn(R, Nat)
    BY NatLessThanWellFounded
  <2> HIDE DEF R
  <2>2. QED
    BY <2>1, WFMin
<1>2. ASSUME NEW y \in T PROVE x <= y
  <2>1. SUFFICES ASSUME y < x PROVE FALSE
    OBVIOUS
  <2>2. <<y, x>> \in Nat \X Nat /\ <<y, x>>[1] < <<y, x>>[2]
    BY <2>1
  <2>3. <<y, x>> \in R
    BY <2>2, Zenon DEF OpToRel
  <2>4. QED
    BY <1>1, <2>3
<1>3. QED
  BY <1>2

\* The half of a range of more than one element is a smaller range.
LEMMA HalfIsSmaller ==
  ASSUME NEW n \in Nat, NEW array, NEW id, NEW r \in Ranges(n), r[2] - r[1] > 1
  PROVE  LET h == Half(array, id, r)
         IN  h \in Ranges(n) /\ h[2] - h[1] < r[2] - r[1] /\ h[2] - h[1] > 0
<1> DEFINE c == (r[1] + r[2]) \div 2
<1>1. c \in 0..n /\ r[1] < c /\ c < r[2]
  BY DEF Ranges
<1>2. r[1] \in 0..n /\ r[2] \in 0..n
  BY DEF Ranges
<1> HIDE DEF c
<1>3. CASE id < array[c + 1].id
  <2>1. Half(array, id, r) = <<r[1], c>>
    BY <1>3, Zenon DEF Half, c
  <2>2. QED
    BY <1>1, <1>2, <2>1 DEF Ranges
<1>4. CASE ~(id < array[c + 1].id)
  <2>1. Half(array, id, r) = <<c, r[2]>>
    BY <1>4, Zenon DEF Half, c
  <2>2. QED
    BY <1>1, <1>2, <2>1 DEF Ranges
<1>5. QED
  BY <1>3, <1>4

\* The recursion of find_cmd_ns comes to an end: the function exists.
LEMMA BisectionExists ==
  ASSUME NEW n \in Nat, NEW array, NEW id
  PROVE  \E f : Bisects(array, id, n, f)
<1> DEFINE Upto(f, k) ==
             /\ f = [r \in Ranges(n) |-> f[r]]
             /\ \A r \in Ranges(n) : r[2] - r[1] <= k => f[r] = Round(array, id, f, r)
           Bad == {k \in Nat : ~\E f : Upto(f, k)}
<1>1. ASSUME NEW k \in Nat, NEW g,
             k > 0 => \A r \in Ranges(n) : r[2] - r[1] <= k - 1 => g[r] = Round(array, id, g, r)
      PROVE  \E f : Upto(f, k)
  <2> DEFINE f == [r \in Ranges(n) |-> Round(array, id, g, r)]
  <2>1. \A r \in Ranges(n) : f[r] = Round(array, id, g, r)
    BY Zenon
  <2>2. f = [r \in Ranges(n) |-> f[r]]
    BY Zenon
  <2> HIDE DEF f
  <2>3. ASSUME NEW r \in Ranges(n), r[2] - r[1] <= k PROVE f[r] = Round(array, id, f, r)
    <3>1. CASE r[2] - r[1] > 1
      <4> DEFINE h == Half(array, id, r)
      <4>1. h \in Ranges(n) /\ h[2] - h[1] < r[2] - r[1]
        BY <3>1, HalfIsSmaller
      <4> HIDE DEF h
      <4>2. k > 0 /\ h[2] - h[1] <= k - 1
        <5>1. r[1] \in Int /\ r[2] \in Int /\ h[1] \in Int /\ h[2] \in Int
          BY <4>1 DEF Ranges
        <5>2. QED
          BY <5>1, <4>1, <3>1, <2>3
      <4>3. g[h] = Round(array, id, g, h)
        BY <1>1, <4>1, <4>2
      <4>4. f[h] = g[h]
        BY <4>3, <4>1, <2>1
      <4>5. Round(array, id, f, r) = f[h] /\ Round(array, id, g, r) = g[h]
        BY <3>1, Zenon DEF Round, h
      <4>6. QED
        BY <4>4, <4>5, <2>1
    <3>2. CASE ~(r[2] - r[1] > 1)
      <4>1. Round(array, id, f, r) = Round(array, id, g, r)
        BY <3>2, Zenon DEF Round
      <4>2. QED
        BY <4>1, <2>1
    <3>3. QED
      BY <3>1, <3>2
  <2>4. QED
    BY <2>2, <2>3, Zenon
<1>2. ASSUME NEW k \in Bad, \A j \in Bad : k <= j PROVE FALSE
  <2>1. k \in Nat /\ ~\E f : Upto(f, k)
    BY Zenon
  <2>2. \E g : k > 0 => \A r \in Ranges(n) : r[2] - r[1] <= k - 1 => g[r] = Round(array, id, g, r)
    <3>1. CASE k > 0
      <4>1. k - 1 \in Nat /\ ~(k <= k - 1)
        BY <2>1, <3>1
      <4>2. k - 1 \notin Bad
        BY <1>2, <4>1, Zenon
      <4>3. PICK g : Upto(g, k - 1)
        BY <4>1, <4>2, Zenon
      <4>4. QED
        BY <4>3, Zenon
    <3>2. QED
      BY <3>1, Zenon
  <2>3. QED
    BY <1>1, <2>1, <2>2, Zenon
<1>3. Bad = {}
  <2>1. Bad \subseteq Nat
    BY Zenon
  <2> HIDE DEF Bad
  <2>2. QED
    BY <1>2, <2>1, LeastElement, Zenon
<1>4. PICK f : Upto(f, n)
  BY <1>3, Zenon
<1>5. \A r \in Ranges(n) : r[2] - r[1] <= n
  BY DEF Ranges
<1>6. \A r \in Ranges(n) : f[r] = Round(array, id, f, r)
  BY <1>4, <1>5, Zenon
<1>7. f = [r \in Ranges(n) |-> Round(array, id, f, r)]
  BY <1>4, <1>6, Zenon
<1>8. QED
  BY <1>7, Zenon DEF Bisects

\* What is left and right of a range has been compared with id.
Narrowed(array, id, n, a, b) ==
  /\ a \in 0..n /\ b \in 0..n /\ a <= b
  /\ \A i \in 1..a : array[i].id < id
  /\ \A i \in (b + 1)..n : id < array[i].id

\* A round leaves a range that is narrowed, or ends at the place of id.
LEMMA RoundNarrows ==
  ASSUME NEW n \in Nat, NEW array, Ordered(array, n), NEW id \in Int,
         NEW a, NEW b, Narrowed(array, id, n, a, b)
  PROVE  /\ b - a > 1 => LET h == Half(array, id, <<a, b>>)
                         IN  Narrowed(array, id, n, h[1], h[2])
         /\ ~(b - a > 1) => \A f : IsPlace(array, id, n, Round(array, id, f, <<a, b>>))
<1>0. a \in 0..n /\ b \in 0..n /\ a <= b
  BY DEF Narrowed
<1>1. ASSUME b - a > 1
      PROVE  LET h == Half(array, id, <<a, b>>) IN Narrowed(array, id, n, h[1], h[2])
  <2> DEFINE c == (a + b) \div 2
  <2>1. c \in 0..n /\ a < c /\ c < b /\ c + 1 \in 1..n
    BY <1>0, <1>1
  <2>2. Half(array, id, <<a, b>>) = IF id < array[c + 1].id THEN <<a, c>> ELSE <<c, b>>
    BY Zenon DEF Half
  <2> HIDE DEF c
  <2>3. array[c + 1].id \in Int
    BY <2>1 DEF Ordered
  <2>4. CASE id < array[c + 1].id
    <3>1. ASSUME NEW i \in (c + 1)..n PROVE id < array[i].id
      <4>1. i \in 1..n /\ (i = c + 1 \/ c + 1 < i)
        BY <2>1
      <4>2. array[i].id \in Int /\ (c + 1 < i => array[c + 1].id < array[i].id)
        BY <4>1, <2>1 DEF Ordered
      <4>3. QED
        BY <2>3, <2>4, <4>1, <4>2
    <3>2. Narrowed(array, id, n, a, c)
      BY <3>1, <2>1, <1>0 DEF Narrowed
    <3>3. QED
      BY <2>2, <2>4, <3>2
  <2>5. CASE ~(id < array[c + 1].id)
    <3>1. ASSUME NEW i \in 1..c PROVE array[i].id < id
      <4>1. i \in 1..n /\ i < c + 1
        BY <2>1
      <4>2. array[i].id \in Int /\ array[i].id < array[c + 1].id
        BY <4>1, <2>1 DEF Ordered
      <4>3. QED
        BY <2>3, <2>5, <4>2
    <3>2. Narrowed(array, id, n, c, b)
      BY <3>1, <2>1, <1>0 DEF Narrowed
    <3>3. QED
      BY <2>2, <2>5, <3>2
  <2>6. QED
    BY <2>4, <2>5
<1>2. ASSUME ~(b - a > 1), NEW f PROVE IsPlace(array, id, n, Round(array, id, f, <<a, b>>))
  <2>1. Round(array, id, f, <<a, b>>) = IF a < b /\ id > array[a + 1].id THEN a + 1 ELSE a
    BY <1>2, Zenon DEF Round
  <2>2. CASE a < b /\ id > array[a + 1].id
    <3>1. b = a + 1 /\ a + 1 \in 0..n
      BY <2>2, <1>2, <1>0
    <3>2. \A i \in 1..(a + 1) : array[i].id < id
      <4>1. ASSUME NEW i \in 1..(a + 1) PROVE array[i].id < id
        <5>1. i \in 1..a \/ i = a + 1
          BY <1>0
        <5>2. array[a + 1].id \in Int
          BY <3>1, <1>0 DEF Ordered
        <5>3. QED
          BY <5>1, <5>2, <2>2 DEF Narrowed
      <4>2. QED
        BY <4>1
    <3>3. \A i \in (a + 2)..n : id <= array[i].id
      BY <3>1, <1>0 DEF Narrowed, Ordered
    <3>4. IsPlace(array, id, n, a + 1)
      BY <3>1, <3>2, <3>3, <1>0 DEF IsPlace
    <3>5. QED
      BY <3>4, <2>1, <2>2
  <2>3. CASE ~(a < b /\ id > array[a + 1].id)
    <3>1. ASSUME NEW i \in (a + 1)..n PROVE id <= array[i].id
      <4>1. i \in 1..n /\ array[i].id \in Int
        BY <1>0 DEF Ordered
      <4>2. CASE i \in (b + 1)..n
        BY <4>1, <4>2 DEF Narrowed
      <4>3. CASE i \notin (b + 1)..n
        BY <4>1, <4>3, <2>3, <1>2, <1>0
      <4>4. QED
        BY <4>2, <4>3
    <3>2. IsPlace(array, id, n, a)
      BY <3>1, <1>0 DEF IsPlace, Narrowed
    <3>3. QED
      BY <3>2, <2>1, <2>3
  <2>4. QED
    BY <2>2, <2>3
<1>3. QED
  BY <1>1, <1>2, Zenon

\* Bisection of the whole array ends at the place of id.
LEMMA BisectionFinds ==
  ASSUME NEW n \in Nat, NEW array, Ordered(array, n), NEW id \in Int,
         NEW f, Bisects(array, id, n, f)
  PROVE  IsPlace(array, id, n, f[<<0, n>>])
<1> DEFINE Bad == {k \in Nat : \E a, b \in 0..n :
                     b - a = k /\ Narrowed(array, id, n, a, b) /\ ~IsPlace(array, id, n, f[<<a, b>>])}
<1>1. ASSUME NEW k \in Bad, \A j \in Bad : k <= j PROVE FALSE
  <2>1. PICK a \in 0..n, b \in 0..n :
          b - a = k /\ Narrowed(array, id, n, a, b) /\ ~IsPlace(array, id, n, f[<<a, b>>])
    BY Zenon
  <2>2. <<a, b>> \in Ranges(n)
    BY DEF Ranges
  <2>3. f[<<a, b>>] = Round(array, id, f, <<a, b>>)
    BY <2>2, Zenon DEF Bisects
  <2>4. b - a > 1
    BY <2>1, <2>3, RoundNarrows, Zenon
  <2> DEFINE h == Half(array, id, <<a, b>>)
  <2>5. /\ h \in Ranges(n)
        /\ h[2] - h[1] < <<a, b>>[2] - <<a, b>>[1]
        /\ h[2] - h[1] > 0
    <3>1. <<a, b>>[2] - <<a, b>>[1] > 1
      BY <2>4
    <3>2. QED
      BY <3>1, <2>2, HalfIsSmaller
  <2>6. Narrowed(array, id, n, h[1], h[2])
    BY <2>1, <2>4, RoundNarrows, Zenon
  <2>7. Round(array, id, f, <<a, b>>) = f[h]
    BY <2>4, Zenon DEF Round
  <2> HIDE DEF h
  <2>8. h[1] \in 0..n /\ h[2] \in 0..n /\ h = <<h[1], h[2]>>
    BY <2>5 DEF Ranges
  <2>9. h[2] - h[1] \in Nat /\ ~(k <= h[2] - h[1])
    BY <2>1, <2>5, <2>8
  <2>10. h[2] - h[1] \notin Bad
    BY <2>9, <1>1, Zenon
  <2>11. IsPlace(array, id, n, f[<<h[1], h[2]>>])
    BY <2>6, <2>8, <2>9, <2>10, Zenon
  <2>12. QED
    BY <2>11, <2>8, <2>7, <2>3, <2>1, Zenon
<1>2. Bad = {}
  <2>1. Bad \subseteq Nat
    BY Zenon
  <2> HIDE DEF Bad
  <2>2. QED
    BY <1>1, <2>1, LeastElement, Zenon
<1>3. Narrowed(array, id, n, 0, n)
  BY DEF Narrowed
<1>4. 0 \in 0..n /\ n \in 0..n /\ n - 0 = n
  OBVIOUS
<1>5. QED
  BY <1>2, <1>3, <1>4, Zenon

\* find_cmd_ns returns the place of id, whatever the ids of a sorted array.
LEMMA FindPlace ==
  ASSUME n_cmd_ns \in Nat, Ordered(cmd_ns, n_cmd_ns), NEW id \in Int
  PROVE  IsPlace(cmd_ns, id, n_cmd_ns, find_cmd_ns(id))
<1> DEFINE f == CHOOSE g : Bisects(cmd_ns, id, n_cmd_ns, g)
<1>1. Bisects(cmd_ns, id, n_cmd_ns, f)
  BY BisectionExists, Zenon
<1>2. find_cmd_ns(id) = f[<<0, n_cmd_ns>>]
  BY SMT DEF find_cmd_ns, Bisects, Round, Half, Ranges, At
<1> HIDE DEF f
<1>3. QED
  BY <1>1, <1>2, BisectionFinds

----------------------------------------------------------------------------
(* The table.                                                              *)

Elements == Slots \cup Garbage

\* The array and its bounds.
ArrayInv == cmd_ns \in Seq(Elements) /\ Len(cmd_ns) <= MaxSize /\ n_cmd_ns \in 0..Len(cmd_ns)

\* The first n elements of an array are the handlers that are registered.
Holds(array, n, reg) ==
  /\ reg \in [Ids -> Handlers \cup {NoHandler}]
  /\ \A i \in 1..n : /\ array[i] \in [id : Ids, handler : Handlers]
                     /\ reg[array[i].id] = array[i].handler
  /\ \A id \in Ids : reg[id] # NoHandler => \E i \in 1..n : array[i].id = id

TableInv == ArrayInv /\ Ordered(cmd_ns, n_cmd_ns) /\ Holds(cmd_ns, n_cmd_ns, registered)

\* Ids can be compared.
LEMMA IdIsNumber ==
  ASSUME TableAssumption, NEW id \in Ids
  PROVE  id \in Int
  BY DEF TableAssumption

\* An id that is found is registered, one that is not found is not.
LEMMA FoundIsRegistered ==
  ASSUME TableAssumption, TableInv, NEW id \in Ids
  PROVE  LET p == find_cmd_ns(id)
         IN  /\ IsPlace(cmd_ns, id, n_cmd_ns, p)
             /\ registered[id] # NoHandler => Present(p) /\ Match(id, p)
             /\ Present(p) /\ Match(id, p) =>
                  /\ p + 1 \in 1..n_cmd_ns /\ cmd_ns[p + 1].id = id
                  /\ registered[id] = cmd_ns[p + 1].handler /\ registered[id] \in Handlers
<1> DEFINE p == find_cmd_ns(id)
<1>0. n_cmd_ns \in Nat /\ id \in Int
  BY DEF TableInv, ArrayInv, TableAssumption
<1>1. IsPlace(cmd_ns, id, n_cmd_ns, p)
  BY <1>0, FindPlace DEF TableInv
<1> HIDE DEF p
<1>2. p \in 0..n_cmd_ns
  BY <1>1 DEF IsPlace
<1>3. ASSUME registered[id] # NoHandler PROVE Present(p) /\ Match(id, p)
  <2>1. PICK i \in 1..n_cmd_ns : cmd_ns[i].id = id
    BY <1>3 DEF TableInv, Holds
  <2>2. i \notin 1..p
    BY <2>1, <1>0, <1>1 DEF IsPlace
  <2>3. p + 1 \in 1..n_cmd_ns /\ p + 1 <= i
    BY <2>2, <1>2, <1>0
  <2>4. id <= cmd_ns[p + 1].id /\ cmd_ns[p + 1].id \in Int
    BY <2>3, <1>1, <1>0, <1>2 DEF IsPlace, TableInv, Ordered
  <2>5. p + 1 < i => cmd_ns[p + 1].id < cmd_ns[i].id
    BY <2>3 DEF TableInv, Ordered
  <2>6. cmd_ns[p + 1].id = id
    BY <2>1, <2>3, <2>4, <2>5, <1>0, <1>2
  <2>7. p < n_cmd_ns
    BY <2>3, <1>2, <1>0
  <2>8. QED
    BY <2>6, <2>7 DEF Present, Match, At
<1>4. ASSUME Present(p), Match(id, p)
      PROVE  /\ p + 1 \in 1..n_cmd_ns /\ cmd_ns[p + 1].id = id
             /\ registered[id] = cmd_ns[p + 1].handler /\ registered[id] \in Handlers
  <2>1. p + 1 \in 1..n_cmd_ns /\ cmd_ns[p + 1].id = id
    BY <1>4, <1>2, <1>0 DEF Present, Match, At
  <2>2. /\ cmd_ns[p + 1] \in [id : Ids, handler : Handlers]
        /\ registered[cmd_ns[p + 1].id] = cmd_ns[p + 1].handler
    BY <2>1 DEF TableInv, Holds
  <2>3. cmd_ns[p + 1].handler \in Handlers
    BY <2>2
  <2>4. QED
    BY <2>1, <2>2, <2>3
<1>5. QED
  BY <1>1, <1>3, <1>4, Zenon DEF p

\* insert_cmd_ns keeps the table sorted and true when the id is not in it, in
\* the array as it is or in what realloc returned.
LEMMA InsertKeeps ==
  ASSUME TableAssumption, TableInv, NEW id \in Ids, NEW h \in Handlers,
         NEW p, IsPlace(cmd_ns, id, n_cmd_ns, p), ~(Present(p) /\ Match(id, p)),
         NEW array \in Seq(Elements), Len(array) <= MaxSize, n_cmd_ns < Len(array),
         \A i \in 1..n_cmd_ns : array[i] = cmd_ns[i],
         NEW t, t = Inserted(array, p, [id |-> id, handler |-> h]),
         NEW reg, reg = [registered EXCEPT ![id] = h]
  PROVE  /\ t \in Seq(Elements) /\ Len(t) <= MaxSize /\ n_cmd_ns + 1 \in 0..Len(t)
         /\ Ordered(t, n_cmd_ns + 1) /\ Holds(t, n_cmd_ns + 1, reg)
<1> DEFINE n == n_cmd_ns
           slot == [id |-> id, handler |-> h]
<1>0. n \in Nat /\ id \in Int /\ p \in 0..n /\ Len(array) \in Nat
  <2>1. n \in Nat
    BY DEF TableInv, ArrayInv
  <2>2. id \in Int
    BY IdIsNumber, Zenon
  <2>3. p \in 0..n
    BY Zenon DEF IsPlace
  <2>4. QED
    BY <2>1, <2>2, <2>3
<1>1. t = [k \in 1..Len(array) |->
             IF k = p + 1 THEN slot
             ELSE IF k > p + 1 /\ k <= n + 1 THEN array[k - 1] ELSE array[k]]
  BY Zenon DEF Inserted
<1>2. slot \in Elements /\ slot \in [id : Ids, handler : Handlers] /\ slot.id = id /\ slot.handler = h
  BY DEF Elements, Slots
<1>n. n_cmd_ns = n
  OBVIOUS
<1> HIDE DEF n, slot
<1>3. ASSUME NEW k \in 1..Len(array) PROVE t[k] \in Elements
  <2>1. array[k] \in Elements
    OBVIOUS
  <2>2. CASE k = p + 1
    BY <2>2, <1>1, <1>2
  <2>3. CASE k # p + 1 /\ k > p + 1 /\ k <= n + 1
    <3>1. k - 1 \in 1..Len(array)
      BY <2>3, <1>0
    <3>2. t[k] = array[k - 1]
      BY <2>3, <1>1
    <3>3. QED
      BY <3>1, <3>2
  <2>4. CASE k # p + 1 /\ ~(k > p + 1 /\ k <= n + 1)
    BY <2>1, <2>4, <1>1
  <2>5. QED
    BY <2>2, <2>3, <2>4
<1>4. t \in Seq(Elements) /\ Len(t) = Len(array)
  <2>1. DOMAIN t = 1..Len(array)
    BY <1>1
  <2>2. t \in [1..Len(array) -> Elements]
    BY <1>1, <1>3, <2>1, Zenon
  <2>3. QED
    BY <2>2, <1>0
<1>5. ASSUME NEW k \in 1..n PROVE k <= p => t[k] = cmd_ns[k]
  BY <1>1, <1>0, <1>n
<1>6. t[p + 1] = slot
  BY <1>1, <1>0, <1>n
<1>7. ASSUME NEW k \in (p + 2)..(n + 1) PROVE k - 1 \in (p + 1)..n /\ t[k] = cmd_ns[k - 1]
  BY <1>1, <1>0, <1>n
<1>8. ASSUME NEW i \in 1..n PROVE cmd_ns[i].id \in Int
  BY <1>n DEF TableInv, Ordered
<1>9. ASSUME NEW i \in (p + 1)..n PROVE id < cmd_ns[i].id
  <2>1. i \in 1..n /\ p + 1 \in 1..n /\ p < n
    BY <1>0
  <2>2. id <= cmd_ns[p + 1].id /\ cmd_ns[p + 1].id # id
    BY <2>1, <1>n, <1>0 DEF IsPlace, Present, Match, At
  <2>3. i = p + 1 \/ (p + 1 < i /\ cmd_ns[p + 1].id < cmd_ns[i].id)
    BY <2>1, <1>n, <1>0 DEF TableInv, Ordered
  <2>4. QED
    BY <2>1, <2>2, <2>3, <1>8, <1>0
<1>10. ASSUME NEW i \in 1..p PROVE i \in 1..n /\ cmd_ns[i].id < id
  BY <1>n, <1>0 DEF IsPlace
<1>11. ASSUME NEW k \in 1..(n + 1) PROVE k \in 1..p \/ k = p + 1 \/ k \in (p + 2)..(n + 1)
  BY <1>0
<1>12. Ordered(t, n + 1)
  <2>1. ASSUME NEW k \in 1..(n + 1) PROVE t[k].id \in Int
    BY <1>11, <1>5, <1>6, <1>7, <1>8, <1>10, <1>2, <1>0
  <2>2. ASSUME NEW i \in 1..(n + 1), NEW j \in 1..(n + 1), i < j PROVE t[i].id < t[j].id
    <3>1. CASE i \in 1..p /\ j \in 1..p
      <4>1. cmd_ns[i].id < cmd_ns[j].id
        BY <3>1, <1>0, <1>n, <2>2 DEF TableInv, Ordered
      <4>2. QED
        BY <3>1, <4>1, <1>5, <1>10
    <3>2. CASE i \in 1..p /\ j = p + 1
      BY <3>2, <1>5, <1>6, <1>10, <1>2
    <3>3. CASE i \in 1..p /\ j \in (p + 2)..(n + 1)
      <4>1. j - 1 \in 1..n /\ id < cmd_ns[j - 1].id /\ t[j] = cmd_ns[j - 1]
        BY <3>3, <1>7, <1>9, <1>0
      <4>2. cmd_ns[i].id < id /\ i \in 1..n /\ t[i] = cmd_ns[i]
        BY <3>3, <1>10, <1>5, <1>0
      <4>3. cmd_ns[i].id \in Int /\ cmd_ns[j - 1].id \in Int
        BY <4>1, <4>2, <1>8
      <4>4. QED
        BY <4>1, <4>2, <4>3, <1>0
    <3>4. CASE i = p + 1 /\ j \in (p + 2)..(n + 1)
      BY <3>4, <1>6, <1>7, <1>9, <1>2
    <3>5. CASE i \in (p + 2)..(n + 1) /\ j \in (p + 2)..(n + 1)
      <4>1. /\ i - 1 \in 1..n /\ j - 1 \in 1..n /\ i - 1 < j - 1
            /\ t[i] = cmd_ns[i - 1] /\ t[j] = cmd_ns[j - 1]
        BY <3>5, <1>7, <1>0, <2>2
      <4>2. cmd_ns[i - 1].id < cmd_ns[j - 1].id
        BY <4>1, <1>n DEF TableInv, Ordered
      <4>3. QED
        BY <4>1, <4>2
    <3>6. QED
      <4>1. /\ i \in 1..p \/ i = p + 1 \/ i \in (p + 2)..(n + 1)
            /\ j \in 1..p \/ j = p + 1 \/ j \in (p + 2)..(n + 1)
        BY <1>11
      <4>2. QED
        BY <4>1, <3>1, <3>2, <3>3, <3>4, <3>5, <2>2, <1>0
  <2>3. QED
    BY <2>1, <2>2 DEF Ordered
<1>13. Holds(t, n + 1, reg)
  <2>0. registered \in [Ids -> Handlers \cup {NoHandler}]
    BY DEF TableInv, Holds
  <2>1. reg \in [Ids -> Handlers \cup {NoHandler}] /\ reg[id] = h /\ \A x \in Ids : x # id => reg[x] = registered[x]
    BY <2>0
  <2>2. ASSUME NEW i \in 1..n, cmd_ns[i].id # id
        PROVE  cmd_ns[i] \in [id : Ids, handler : Handlers] /\ reg[cmd_ns[i].id] = cmd_ns[i].handler
    <3>1. cmd_ns[i] \in [id : Ids, handler : Handlers] /\ registered[cmd_ns[i].id] = cmd_ns[i].handler
      BY <1>n DEF TableInv, Holds
    <3>2. cmd_ns[i].id \in Ids
      BY <3>1
    <3>3. QED
      BY <3>1, <3>2, <2>1, <2>2
  <2>3. ASSUME NEW k \in 1..(n + 1)
        PROVE  t[k] \in [id : Ids, handler : Handlers] /\ reg[t[k].id] = t[k].handler
    <3>1. CASE k \in 1..p
      <4>1. k \in 1..n /\ cmd_ns[k].id # id /\ t[k] = cmd_ns[k]
        BY <3>1, <1>10, <1>8, <1>5, <1>0
      <4>2. QED
        BY <4>1, <2>2
    <3>2. CASE k = p + 1
      BY <3>2, <1>6, <1>2, <2>1
    <3>3. CASE k \in (p + 2)..(n + 1)
      <4>1. k - 1 \in 1..n /\ cmd_ns[k - 1].id # id /\ t[k] = cmd_ns[k - 1]
        BY <3>3, <1>7, <1>9, <1>8, <1>0
      <4>2. QED
        BY <4>1, <2>2
    <3>4. QED
      BY <1>11, <3>1, <3>2, <3>3
  <2>4. ASSUME NEW x \in Ids, reg[x] # NoHandler PROVE \E k \in 1..(n + 1) : t[k].id = x
    <3>1. CASE x = id
      <4>1. p + 1 \in 1..(n + 1)
        BY <1>0
      <4>2. QED
        BY <3>1, <4>1, <1>6, <1>2
    <3>2. CASE x # id
      <4>1. PICK i \in 1..n : cmd_ns[i].id = x
        BY <3>2, <2>4, <2>1, <1>n DEF TableInv, Holds
      <4>2. CASE i <= p
        <5>1. i \in 1..(n + 1) /\ t[i] = cmd_ns[i]
          BY <4>2, <1>5, <1>0
        <5>2. QED
          BY <5>1, <4>1
      <4>3. CASE ~(i <= p)
        <5>1. i + 1 \in (p + 2)..(n + 1) /\ i + 1 \in 1..(n + 1) /\ (i + 1) - 1 = i
          BY <4>3, <1>0
        <5>2. t[i + 1] = cmd_ns[i]
          BY <5>1, <1>7
        <5>3. QED
          BY <5>1, <5>2, <4>1
      <4>4. QED
        BY <4>2, <4>3
    <3>3. QED
      BY <3>1, <3>2
  <2>5. QED
    BY <2>1, <2>3, <2>4 DEF Holds
<1>14. n + 1 \in 0..Len(t)
  BY <1>0, <1>4, <1>n
<1>15. QED
  BY <1>4, <1>12, <1>13, <1>14, <1>n

\* remove_cmd_ns keeps the table sorted and true.
LEMMA RemoveKeeps ==
  ASSUME TableAssumption, TableInv, NEW id \in Ids,
         NEW p, IsPlace(cmd_ns, id, n_cmd_ns, p), p + 1 \in 1..n_cmd_ns, cmd_ns[p + 1].id = id,
         NEW t, t = Removed(p),
         NEW reg, reg = [registered EXCEPT ![id] = NoHandler]
  PROVE  /\ t \in Seq(Elements) /\ Len(t) <= MaxSize /\ n_cmd_ns - 1 \in 0..Len(t)
         /\ Ordered(t, n_cmd_ns - 1) /\ Holds(t, n_cmd_ns - 1, reg)
<1> DEFINE n == n_cmd_ns
<1>0. n \in Nat /\ id \in Int /\ p \in 0..n /\ Len(cmd_ns) \in Nat /\ n <= Len(cmd_ns) /\ p < n
  <2>1. n \in Nat /\ Len(cmd_ns) \in Nat /\ n <= Len(cmd_ns)
    BY DEF TableInv, ArrayInv
  <2>2. id \in Int
    BY IdIsNumber, Zenon
  <2>3. p \in 0..n
    BY Zenon DEF IsPlace
  <2>4. QED
    BY <2>1, <2>2, <2>3
<1>1. t = [k \in 1..Len(cmd_ns) |-> IF k > p /\ k < n THEN cmd_ns[k + 1] ELSE cmd_ns[k]]
  BY Zenon DEF Removed, size_cmd_ns
<1>2. cmd_ns \in Seq(Elements) /\ Len(cmd_ns) <= MaxSize
  BY DEF TableInv, ArrayInv
<1>n. n_cmd_ns = n
  OBVIOUS
<1> HIDE DEF n
<1>3. ASSUME NEW k \in 1..Len(cmd_ns) PROVE t[k] \in Elements
  <2>1. k > p /\ k < n => k + 1 \in 1..Len(cmd_ns)
    BY <1>0
  <2>2. QED
    BY <2>1, <1>1, <1>2
<1>4. t \in Seq(Elements) /\ Len(t) = Len(cmd_ns)
  <2>1. DOMAIN t = 1..Len(cmd_ns)
    BY <1>1
  <2>2. t \in [1..Len(cmd_ns) -> Elements]
    BY <1>1, <1>3, <2>1, Zenon
  <2>3. QED
    BY <2>2, <1>0
\* From which element the k-th one comes.
<1> DEFINE From(k) == IF k > p THEN k + 1 ELSE k
<1>5. ASSUME NEW k \in 1..(n - 1)
      PROVE  From(k) \in 1..n /\ From(k) # p + 1 /\ t[k] = cmd_ns[From(k)]
  BY <1>1, <1>0
<1>6. ASSUME NEW i \in 1..(n - 1), NEW j \in 1..(n - 1), i < j PROVE From(i) < From(j)
  BY <1>6, <1>0
<1>7. ASSUME NEW i \in 1..n, i # p + 1 PROVE \E k \in 1..(n - 1) : From(k) = i
  <2>1. CASE i <= p
    <3>1. i \in 1..(n - 1) /\ From(i) = i
      BY <2>1, <1>0
    <3>2. QED
      BY <3>1
  <2>2. CASE ~(i <= p)
    <3>1. i - 1 \in 1..(n - 1) /\ From(i - 1) = i
      BY <2>2, <1>7, <1>0
    <3>2. QED
      BY <3>1
  <2>3. QED
    BY <2>1, <2>2
<1> HIDE DEF From
<1>8. ASSUME NEW i \in 1..n, NEW j \in 1..n, i < j
      PROVE  cmd_ns[i].id \in Int /\ cmd_ns[j].id \in Int /\ cmd_ns[i].id < cmd_ns[j].id
  BY <1>8, <1>n DEF TableInv, Ordered
<1>9. Ordered(t, n - 1)
  <2>1. ASSUME NEW k \in 1..(n - 1) PROVE t[k].id \in Int
    BY <1>5, <1>n DEF TableInv, Ordered
  <2>2. ASSUME NEW i \in 1..(n - 1), NEW j \in 1..(n - 1), i < j PROVE t[i].id < t[j].id
    BY <2>2, <1>5, <1>6, <1>8
  <2>3. QED
    BY <2>1, <2>2 DEF Ordered
<1>10. ASSUME NEW i \in 1..n, i # p + 1 PROVE cmd_ns[i].id # id
  <2>1. p + 1 \in 1..n /\ (i < p + 1 \/ p + 1 < i)
    BY <1>10, <1>0
  <2>2. QED
    BY <2>1, <1>8, <1>0
<1>11. Holds(t, n - 1, reg)
  <2>0. registered \in [Ids -> Handlers \cup {NoHandler}]
    BY DEF TableInv, Holds
  <2>1. reg \in [Ids -> Handlers \cup {NoHandler}] /\ reg[id] = NoHandler /\ \A x \in Ids : x # id => reg[x] = registered[x]
    BY <2>0
  <2>2. ASSUME NEW k \in 1..(n - 1)
        PROVE  t[k] \in [id : Ids, handler : Handlers] /\ reg[t[k].id] = t[k].handler
    <3>1. From(k) \in 1..n /\ t[k] = cmd_ns[From(k)] /\ cmd_ns[From(k)].id # id
      BY <1>5, <1>10
    <3>2. t[k] \in [id : Ids, handler : Handlers] /\ registered[t[k].id] = t[k].handler
      BY <3>1, <1>n DEF TableInv, Holds
    <3>3. t[k].id \in Ids /\ t[k].id # id
      BY <3>1, <3>2
    <3>4. QED
      BY <3>2, <3>3, <2>1
  <2>3. ASSUME NEW x \in Ids, reg[x] # NoHandler PROVE \E k \in 1..(n - 1) : t[k].id = x
    <3>1. x # id
      BY <2>1, <2>3
    <3>2. PICK i \in 1..n : cmd_ns[i].id = x
      BY <3>1, <2>3, <2>1, <1>n DEF TableInv, Holds
    <3>3. i # p + 1
      BY <3>1, <3>2
    <3>4. PICK k \in 1..(n - 1) : From(k) = i
      BY <3>3, <1>7
    <3>5. QED
      BY <3>2, <3>4, <1>5
  <2>4. QED
    BY <2>1, <2>2, <2>3 DEF Holds
<1>12. n - 1 \in 0..Len(t)
  BY <1>0, <1>4
<1>13. QED
  BY <1>2, <1>4, <1>9, <1>11, <1>12, <1>n

----------------------------------------------------------------------------
(* The steps.                                                              *)

LastInv ==
  last \in [op : {"none", "register", "unregister", "command"}, id : Ids \cup {-1},
            result : Handlers \cup {NoHandler, Fail, Junk, "ok"}]

\* What the last step says of itself is true of the table before it.
LastIsTrue ==
  /\ last'.op = "register" /\ last'.result = "ok" => registered[last'.id] = NoHandler
  /\ last'.op = "unregister" => (last'.result = "ok") = (registered[last'.id] # NoHandler)

NsInv == TableInv /\ LastInv /\ RegisteredIsCalled

\* What realloc returns holds the old array, at the length asked for.
LEMMA Grown ==
  ASSUME ArrayInv, NEW new \in Nat, new > Len(cmd_ns), NEW g \in Garbage
  PROVE  LET array == cmd_ns \o [k \in 1..(new - Len(cmd_ns)) |-> g]
         IN  /\ array \in Seq(Elements) /\ Len(array) = new
             /\ \A i \in 1..n_cmd_ns : array[i] = cmd_ns[i]
<1> DEFINE more == [k \in 1..(new - Len(cmd_ns)) |-> g]
<1>1. cmd_ns \in Seq(Elements) /\ Len(cmd_ns) \in Nat /\ n_cmd_ns \in 0..Len(cmd_ns)
  BY DEF ArrayInv
<1>2. g \in Elements
  BY DEF Elements
<1>3. more \in Seq(Elements) /\ Len(more) = new - Len(cmd_ns)
  BY <1>1, <1>2
<1> HIDE DEF more
<1>4. cmd_ns \o more \in Seq(Elements) /\ Len(cmd_ns \o more) = new
  BY <1>1, <1>3
<1>5. \A i \in 1..n_cmd_ns : (cmd_ns \o more)[i] = cmd_ns[i]
  BY <1>1, <1>3
<1>6. QED
  BY <1>4, <1>5 DEF more

\* A call leaves a record of itself.
LEMMA Recorded ==
  ASSUME NEW op \in {"register", "unregister", "command"}, NEW id \in Ids,
         NEW result \in Handlers \cup {NoHandler, Fail, Junk, "ok"}, Done(op, id, result)
  PROVE  LastInv' /\ last'.op = op /\ last'.id = id /\ last'.result = result
  BY DEF Done, LastInv

\* xrp_device_register_namespace: only an id that has no handler gets one.
LEMMA RegisterKeeps ==
  ASSUME TableAssumption, NsInv, NEW id \in Ids, NEW h \in Handlers, Register(id, h)
  PROVE  NsInv' /\ LastIsTrue
<1> DEFINE p == find_cmd_ns(id)
           slot == [id |-> id, handler |-> h]
<1>1. /\ IsPlace(cmd_ns, id, n_cmd_ns, p)
      /\ registered[id] # NoHandler => Present(p) /\ Match(id, p)
  BY FoundIsRegistered, Zenon DEF NsInv
<1> HIDE DEF p
<1>0. TableInv /\ ArrayInv
  BY DEF NsInv, TableInv
<1>2. CASE Done("register", id, Fail) /\ UNCHANGED <<cmd_ns, n_cmd_ns, registered>>
  <2>1. LastInv' /\ last'.op = "register" /\ last'.id = id /\ last'.result = Fail
    BY <1>2, Recorded, Zenon
  <2>2. TableInv'
    BY <1>2, <1>0 DEF TableInv, ArrayInv, Ordered, Holds
  <2>3. RegisteredIsCalled' /\ LastIsTrue
    BY <2>1 DEF RegisteredIsCalled, LastIsTrue, Fail
  <2>4. QED
    BY <2>1, <2>2, <2>3 DEF NsInv
<1>3. ASSUME ~(Present(p) /\ Match(id, p)),
             NEW array \in Seq(Elements), Len(array) <= MaxSize, n_cmd_ns < Len(array),
             \A i \in 1..n_cmd_ns : array[i] = cmd_ns[i],
             cmd_ns' = Inserted(array, p, slot), n_cmd_ns' = n_cmd_ns + 1,
             registered' = [registered EXCEPT ![id] = h], Done("register", id, "ok")
      PROVE  NsInv' /\ LastIsTrue
  <2>1. LastInv' /\ last'.op = "register" /\ last'.id = id
    BY <1>3, Recorded, Zenon
  <2>2. /\ cmd_ns' \in Seq(Elements) /\ Len(cmd_ns') <= MaxSize /\ n_cmd_ns + 1 \in 0..Len(cmd_ns')
        /\ Ordered(cmd_ns', n_cmd_ns + 1) /\ Holds(cmd_ns', n_cmd_ns + 1, registered')
    BY <1>0, <1>1, <1>3, InsertKeeps
  <2>3. TableInv'
    BY <1>3, <2>2, Zenon DEF TableInv, ArrayInv
  <2>4. registered[id] = NoHandler
    BY <1>1, <1>3
  <2>5. RegisteredIsCalled' /\ LastIsTrue
    BY <2>1, <2>4 DEF RegisteredIsCalled, LastIsTrue
  <2>6. QED
    BY <2>1, <2>3, <2>5 DEF NsInv
<1>4. CASE /\ ~(Present(p) /\ Match(id, p)) /\ n_cmd_ns < size_cmd_ns
           /\ cmd_ns' = Inserted(cmd_ns, p, slot) /\ n_cmd_ns' = n_cmd_ns + 1
           /\ registered' = [registered EXCEPT ![id] = h] /\ Done("register", id, "ok")
  <2>1. cmd_ns \in Seq(Elements) /\ Len(cmd_ns) <= MaxSize /\ n_cmd_ns < Len(cmd_ns)
    BY <1>0, <1>4 DEF ArrayInv, size_cmd_ns
  <2>2. QED
    BY <2>1, <1>3, <1>4, Zenon
<1>5. ASSUME ~(Present(p) /\ Match(id, p)), n_cmd_ns = size_cmd_ns,
             (size_cmd_ns + 1) * 2 <= MaxSize, NEW g \in Garbage,
             cmd_ns' = Inserted(cmd_ns \o [k \in 1..((size_cmd_ns + 1) * 2 - size_cmd_ns) |-> g], p, slot),
             n_cmd_ns' = n_cmd_ns + 1,
             registered' = [registered EXCEPT ![id] = h], Done("register", id, "ok")
      PROVE  NsInv' /\ LastIsTrue
  <2> DEFINE new == (size_cmd_ns + 1) * 2
             array == cmd_ns \o [k \in 1..(new - Len(cmd_ns)) |-> g]
  <2>1. Len(cmd_ns) \in Nat
    BY <1>0 DEF ArrayInv
  <2>2. new \in Nat /\ new > Len(cmd_ns) /\ n_cmd_ns < new /\ new <= MaxSize
    BY <2>1, <1>5 DEF size_cmd_ns
  <2> HIDE DEF new
  <2>3. /\ array \in Seq(Elements) /\ Len(array) = new
        /\ \A i \in 1..n_cmd_ns : array[i] = cmd_ns[i]
    BY <2>2, <1>0, Grown
  <2>4. cmd_ns' = Inserted(array, p, slot)
    BY <1>5, Zenon DEF new, size_cmd_ns
  <2> HIDE DEF array
  <2>5. Len(array) <= MaxSize /\ n_cmd_ns < Len(array)
    BY <2>2, <2>3
  <2>6. QED
    BY <2>3, <2>4, <2>5, <1>3, <1>5, Zenon
<1>6. QED
  BY <1>2, <1>4, <1>5, Zenon DEF Register, p

\* xrp_device_unregister_namespace: exactly an id that has a handler loses it.
LEMMA UnregisterKeeps ==
  ASSUME TableAssumption, NsInv, NEW id \in Ids, Unregister(id)
  PROVE  NsInv' /\ LastIsTrue
<1> DEFINE p == find_cmd_ns(id)
<1>1. /\ IsPlace(cmd_ns, id, n_cmd_ns, p)
      /\ registered[id] # NoHandler => Present(p) /\ Match(id, p)
      /\ Present(p) /\ Match(id, p) =>
                  /\ p + 1 \in 1..n_cmd_ns /\ cmd_ns[p + 1].id = id
                  /\ registered[id] = cmd_ns[p + 1].handler /\ registered[id] \in Handlers
  BY FoundIsRegistered, Zenon DEF NsInv
<1> HIDE DEF p
<1>0. TableInv
  BY DEF NsInv
<1>2. CASE /\ Present(p) /\ Match(id, p) /\ cmd_ns' = Removed(p) /\ n_cmd_ns' = n_cmd_ns - 1
           /\ registered' = [registered EXCEPT ![id] = NoHandler] /\ Done("unregister", id, "ok")
  <2>1. LastInv' /\ last'.op = "unregister" /\ last'.id = id /\ last'.result = "ok"
    BY <1>2, Recorded, Zenon
  <2>2. /\ cmd_ns' \in Seq(Elements) /\ Len(cmd_ns') <= MaxSize /\ n_cmd_ns - 1 \in 0..Len(cmd_ns')
        /\ Ordered(cmd_ns', n_cmd_ns - 1) /\ Holds(cmd_ns', n_cmd_ns - 1, registered')
    BY <1>0, <1>1, <1>2, RemoveKeeps
  <2>3. TableInv'
    BY <1>2, <2>2, Zenon DEF TableInv, ArrayInv
  <2>4. registered[id] # NoHandler
    BY <1>1, <1>2 DEF TableAssumption
  <2>5. RegisteredIsCalled' /\ LastIsTrue
    BY <2>1, <2>4 DEF RegisteredIsCalled, LastIsTrue
  <2>6. QED
    BY <2>1, <2>3, <2>5 DEF NsInv
<1>3. CASE /\ ~(Present(p) /\ Match(id, p)) /\ Done("unregister", id, Fail)
           /\ UNCHANGED <<cmd_ns, n_cmd_ns, registered>>
  <2>1. LastInv' /\ last'.op = "unregister" /\ last'.id = id /\ last'.result = Fail
    BY <1>3, Recorded, Zenon
  <2>2. TableInv'
    BY <1>3, <1>0 DEF TableInv, ArrayInv, Ordered, Holds
  <2>3. registered[id] = NoHandler
    BY <1>1, <1>3
  <2>4. RegisteredIsCalled' /\ LastIsTrue
    BY <2>1, <2>3 DEF RegisteredIsCalled, LastIsTrue, Fail
  <2>5. QED
    BY <2>1, <2>2, <2>4 DEF NsInv
<1>4. QED
  BY <1>2, <1>3, Zenon DEF Unregister, p

\* process_command: the element found for a registered id is the one of its
\* handler, whatever lies behind the table.
LEMMA CommandKeeps ==
  ASSUME TableAssumption, NsInv, NEW id \in Ids, Command(id)
  PROVE  NsInv' /\ LastIsTrue
<1> DEFINE p == find_cmd_ns(id)
           found == IF p < size_cmd_ns THEN {At(p)} ELSE IF size_cmd_ns = 0 THEN {} ELSE Garbage
<1>1. /\ IsPlace(cmd_ns, id, n_cmd_ns, p)
      /\ registered[id] # NoHandler => Present(p) /\ Match(id, p)
      /\ Present(p) /\ Match(id, p) =>
                  /\ p + 1 \in 1..n_cmd_ns /\ cmd_ns[p + 1].id = id
                  /\ registered[id] = cmd_ns[p + 1].handler /\ registered[id] \in Handlers
  BY FoundIsRegistered, Zenon DEF NsInv
<1>2. /\ \/ \E slot \in found : slot.id = id /\ Done("command", id, slot.handler)
         \/ (\A slot \in found : slot.id # id) /\ Done("command", id, Fail)
         \/ found = Garbage /\ Done("command", id, Fail)
      /\ UNCHANGED <<cmd_ns, n_cmd_ns, registered>>
  BY Zenon DEF Command
<1> HIDE DEF p, found
<1>0. TableInv /\ cmd_ns \in Seq(Elements) /\ n_cmd_ns \in 0..Len(cmd_ns) /\ Len(cmd_ns) \in Nat
  BY DEF NsInv, TableInv, ArrayInv
<1>3. p \in 0..n_cmd_ns
  BY <1>1, Zenon DEF IsPlace
<1>4. TableInv'
  BY <1>2, <1>0 DEF TableInv, ArrayInv, Ordered, Holds
<1>5. \A slot \in found : slot.handler \in Handlers \cup {Junk}
  <2>1. \A e \in Elements : e.handler \in Handlers \cup {Junk}
    BY DEF Elements, Slots, Garbage
  <2>2. p < size_cmd_ns => At(p) \in Elements
    BY <1>0, <1>3 DEF At, size_cmd_ns
  <2>3. Garbage \subseteq Elements
    BY DEF Elements
  <2>4. QED
    BY <2>1, <2>2, <2>3, Zenon DEF found
<1>6. ASSUME registered[id] # NoHandler
      PROVE  found = {cmd_ns[p + 1]} /\ cmd_ns[p + 1].id = id /\ cmd_ns[p + 1].handler = registered[id]
  <2>1. p + 1 \in 1..n_cmd_ns /\ cmd_ns[p + 1].id = id /\ cmd_ns[p + 1].handler = registered[id]
    BY <1>1, <1>6
  <2>2. p < size_cmd_ns
    BY <2>1, <1>0, <1>3 DEF size_cmd_ns
  <2>3. QED
    BY <2>1, <2>2 DEF found, At
<1>7. PICK result \in Handlers \cup {NoHandler, Fail, Junk, "ok"} :
        /\ Done("command", id, result)
        /\ registered[id] # NoHandler => result = registered[id]
  <2>1. CASE \E slot \in found : slot.id = id /\ Done("command", id, slot.handler)
    <3>1. PICK slot \in found : slot.id = id /\ Done("command", id, slot.handler)
      BY <2>1
    <3>2. registered[id] # NoHandler => slot.handler = registered[id]
      BY <3>1, <1>6
    <3>3. QED
      BY <3>1, <3>2, <1>5
  <2>2. CASE (\A slot \in found : slot.id # id) /\ Done("command", id, Fail)
    BY <2>2, <1>6
  <2>3. CASE found = Garbage /\ Done("command", id, Fail)
    <3>1. [id |-> -1, handler |-> Junk] \in Garbage /\ [id |-> -1, handler |-> Junk].id = -1
      BY DEF Garbage
    <3>2. id # -1
      BY DEF TableAssumption
    <3>3. registered[id] = NoHandler
      BY <3>1, <3>2, <2>3, <1>6
    <3>4. QED
      BY <2>3, <3>3
  <2>4. QED
    BY <1>2, <2>1, <2>2, <2>3
<1>8. LastInv' /\ last'.op = "command" /\ last'.id = id /\ last'.result = result
  BY <1>7, Recorded, Zenon
<1>9. RegisteredIsCalled' /\ LastIsTrue
  BY <1>2, <1>7, <1>8 DEF RegisteredIsCalled, LastIsTrue
<1>10. QED
  BY <1>4, <1>8, <1>9 DEF NsInv

\* The table in its first state.
LEMMA TableStarts ==
  ASSUME TableAssumption, TableInit
  PROVE  NsInv
<1>1. ArrayInv /\ Ordered(cmd_ns, n_cmd_ns)
  BY DEF TableInit, ArrayInv, Ordered, TableAssumption
<1>2. Holds(cmd_ns, n_cmd_ns, registered)
  BY DEF TableInit, Holds
<1>3. LastInv /\ RegisteredIsCalled
  BY DEF TableInit, LastInv, RegisteredIsCalled
<1>4. QED
  BY <1>1, <1>2, <1>3 DEF NsInv, TableInv

\* Every call keeps the invariant and reports truly.
LEMMA TableStep ==
  ASSUME TableAssumption, NsInv, [TableNext]_tablevars
  PROVE  NsInv' /\ [LastIsTrue]_tablevars
<1>1. CASE TableNext
  <2>1. PICK id \in Ids : (\E h \in Handlers : Register(id, h)) \/ Unregister(id) \/ Command(id)
    BY <1>1 DEF TableNext
  <2>2. NsInv' /\ LastIsTrue
    BY <2>1, RegisterKeeps, UnregisterKeeps, CommandKeeps, Zenon
  <2>3. QED
    BY <2>2
<1>2. CASE UNCHANGED tablevars
  <2>1. NsInv'
    BY <1>2 DEF tablevars, NsInv, TableInv, ArrayInv, Ordered, Holds, LastInv, RegisteredIsCalled
  <2>2. QED
    BY <1>2, <2>1
<1>3. QED
  BY <1>1, <1>2

----------------------------------------------------------------------------
(* The theorems.                                                           *)

\* The invariant of the table holds for good.
LEMMA TableInvariant ==
  ASSUME TableAssumption
  PROVE  TableSpec => []NsInv
<1>1. TableInit => NsInv
  BY TableStarts
<1>2. NsInv /\ [TableNext]_tablevars => NsInv'
  BY TableStep
<1>3. QED
  BY <1>1, <1>2, PTL DEF TableSpec

\* The invariant says what TableIsMap says of the array.
LEMMA InvariantIsMap ==
  ASSUME TableAssumption, NsInv
  PROVE  TableIsMap
<1>0. /\ TableInv /\ LastInv /\ ArrayInv /\ n_cmd_ns \in Nat
      /\ Ordered(cmd_ns, n_cmd_ns) /\ Holds(cmd_ns, n_cmd_ns, registered)
  BY DEF NsInv, TableInv, ArrayInv
<1>1. TableTypeOK
  BY <1>0, Zenon DEF TableTypeOK, LastInv, ArrayInv, Holds, size_cmd_ns, Elements
<1>2. \A i \in 0..(n_cmd_ns - 2) : At(i).id < At(i + 1).id
  <2>1. SUFFICES ASSUME NEW i \in 0..(n_cmd_ns - 2) PROVE cmd_ns[i + 1].id < cmd_ns[(i + 1) + 1].id
    BY Zenon DEF At
  <2>2. i + 1 \in 1..n_cmd_ns /\ (i + 1) + 1 \in 1..n_cmd_ns /\ i + 1 < (i + 1) + 1
    BY <1>0
  <2>3. QED
    BY <1>0, <2>2 DEF Ordered
<1> DEFINE inTable == {At(i) : i \in 0..(n_cmd_ns - 1)}
           inMap == {[id |-> id, handler |-> registered[id]] : id \in {x \in Ids : registered[x] # NoHandler}}
<1>3. ASSUME NEW i \in 0..(n_cmd_ns - 1) PROVE At(i) \in inMap
  <2>1. i + 1 \in 1..n_cmd_ns
    BY <1>0
  <2>2. /\ cmd_ns[i + 1] \in [id : Ids, handler : Handlers]
        /\ registered[cmd_ns[i + 1].id] = cmd_ns[i + 1].handler
    BY <2>1, <1>0 DEF Holds
  <2>3. /\ cmd_ns[i + 1].id \in Ids /\ cmd_ns[i + 1].handler \in Handlers
        /\ cmd_ns[i + 1] = [id |-> cmd_ns[i + 1].id, handler |-> cmd_ns[i + 1].handler]
    BY <2>2
  <2>4. registered[cmd_ns[i + 1].id] # NoHandler
    BY <2>2, <2>3 DEF TableAssumption
  <2>5. QED
    BY <2>2, <2>3, <2>4, Zenon DEF At
<1>4. ASSUME NEW id \in Ids, registered[id] # NoHandler PROVE [id |-> id, handler |-> registered[id]] \in inTable
  <2>1. PICK i \in 1..n_cmd_ns : cmd_ns[i].id = id
    BY <1>0, <1>4 DEF Holds
  <2>2. /\ cmd_ns[i] \in [id : Ids, handler : Handlers]
        /\ registered[id] = cmd_ns[i].handler
    BY <2>1, <1>0 DEF Holds
  <2>3. cmd_ns[i] = [id |-> id, handler |-> registered[id]]
    BY <2>1, <2>2
  <2>4. i - 1 \in 0..(n_cmd_ns - 1) /\ (i - 1) + 1 = i
    BY <1>0
  <2>5. QED
    BY <2>3, <2>4, Zenon DEF At
<1>5. inTable = inMap
  <2>1. ASSUME NEW e \in inTable PROVE e \in inMap
    BY <1>3, Zenon
  <2>2. ASSUME NEW e \in inMap PROVE e \in inTable
    <3>1. PICK id \in Ids : registered[id] # NoHandler /\ e = [id |-> id, handler |-> registered[id]]
      BY <2>2, Zenon
    <3>2. QED
      BY <3>1, <1>4, Zenon
  <2> HIDE DEF inTable, inMap
  <2>3. QED
    BY <2>1, <2>2, Zenon
<1>6. QED
  BY <1>1, <1>2, <1>5, Zenon DEF TableIsMap

\* After any sequence of xrp_device_register_namespace and
\* xrp_device_unregister_namespace, with any ids and any size of the array, the
\* array is the sorted map from ids to handlers that the successful calls
\* describe, whatever realloc left behind its elements.
THEOREM TableStaysMap ==
  ASSUME TableAssumption
  PROVE  TableSpec => []TableIsMap
<1>1. NsInv => TableIsMap
  BY InvariantIsMap
<1>2. QED
  BY <1>1, TableInvariant, PTL

\* However many namespaces there are, process_command gives a command for a
\* registered one to its handler: find_cmd_ns does not miss it.
THEOREM RegisteredHandlerIsCalled ==
  ASSUME TableAssumption
  PROVE  TableSpec => []RegisteredIsCalled
<1>1. NsInv => RegisteredIsCalled
  BY DEF NsInv
<1>2. QED
  BY <1>1, TableInvariant, PTL

\* xrp_device_register_namespace succeeds only for an id without a handler and
\* xrp_device_unregister_namespace exactly for one with a handler.
THEOREM StatusStaysHonest ==
  ASSUME TableAssumption
  PROVE  TableSpec => StatusIsHonest
<1>1. NsInv /\ [TableNext]_tablevars => [LastIsTrue]_tablevars
  BY TableStep
<1>2. TableSpec => [][LastIsTrue]_tablevars
  BY <1>1, TableInvariant, PTL DEF TableSpec
<1>3. QED
  BY <1>2, Zenon DEF StatusIsHonest, LastIsTrue
=============================================================================
