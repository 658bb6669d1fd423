----------------------- MODULE XrpPrivateAlloc_proofs -----------------------
(***************************************************************************)
(* Proofs about the private memory pool for any pool, page size and        *)
(* requests that do not overflow: the free list stays sorted and joined,   *)
(* and no allocation overlaps another one or free memory.                  *)
(***************************************************************************)
EXTENDS XrpPrivateAlloc, Integers, WellFoundedInduction, TLAPS

\* What is done to the pool: the lock makes each call a step.
PoolNext ==
  \/ \E size \in Sizes, align \in Aligns : xrp_private_alloc(size, align)
  \/ \E b \in live : xrp_private_free(b)

\* A block of memory of the pool.
InPool(b) ==
  /\ b \in [start : Nat, size : Nat]
  /\ b.size > 0 /\ Start <= b.start /\ End(b) <= Start + PoolSize

\* Two blocks do not overlap.
Apart(b, c) == End(b) <= c.start \/ End(c) <= b.start

\* The blocks of s are in order and do not touch.
Sorted(s) == \A i, j \in 1..Len(s) : i < j => End(s[i]) < s[j].start

PoolInv ==
  /\ free \in Seq([start : Nat, size : Nat])
  /\ \A i \in 1..Len(free) : InPool(free[i])
  /\ Sorted(free)
  /\ \A b \in live \cup lost : InPool(b)
  /\ \A b \in live \cup lost, i \in 1..Len(free) : Apart(b, free[i])
  /\ \A b, c \in live \cup lost : b # c => Apart(b, c)

\* No block is both handed out and lost.
NoneTwice == live \cap lost = {}

\* Every address of the pool is in a block.
In(x, b) == b.start <= x /\ x < End(b)
Covered ==
  \A x \in Start..(Start + PoolSize - 1) :
    (\E b \in live \cup lost : In(x, b)) \/ (\E i \in 1..Len(free) : In(x, free[i]))

----------------------------------------------------------------------------
(* Sequences.                                                              *)

\* A set of numbers that is not empty has a least element.
LEMMA MinProperty ==
  ASSUME NEW T, T \subseteq Nat, T # {}
  PROVE  Min(T) \in T /\ \A j \in T : Min(T) <= j
<1> DEFINE R == OpToRel(<, Nat)
<1>1. PICK x \in T : \A y \in T : ~(<<y, x>> \in R)
  <2>1. IsWellFoundedOn(R, Nat)
    BY NatLessThanWellFounded
  <2> HIDE DEF R
  <2>2. QED
    BY <2>1, WFMin
<1>2. ASSUME NEW y \in T PROVE x <= y
  <2>1. SUFFICES ASSUME y < x PROVE FALSE
    OBVIOUS
  <2>2. <<y, x>> \in Nat \X Nat /\ <<y, x>>[1] < <<y, x>>[2]
    BY <2>1
  <2>3. <<y, x>> \in R
    BY <2>2, Zenon DEF OpToRel
  <2>4. QED
    BY <1>1, <2>3
<1>3. QED
  BY <1>2 DEF Min

\* The sequence s with k of its elements, from the i-th on, replaced by p.
Splice(s, i, k, p) == SubSeq(s, 1, i - 1) \o p \o SubSeq(s, i + k, Len(s))

\* What the result t of Splice consists of.
Spliced(t, s, i, k, p) ==
  /\ Len(t) = Len(s) - k + Len(p)
  /\ \A j \in 1..(i - 1) : t[j] = s[j]
  /\ \A j \in i..(i + Len(p) - 1) : t[j] = p[j - i + 1]
  /\ \A j \in (i + Len(p))..(Len(s) - k + Len(p)) : t[j] = s[j - Len(p) + k]

\* x is one of the elements kept or of the new ones.
Among(x, s, i, k, p) ==
  \/ \E j \in 1..(i - 1) : x = s[j]
  \/ \E q \in 1..Len(p) : x = p[q]
  \/ \E j \in (i + k)..Len(s) : x = s[j]

\* The elements kept and the new ones are all in t.
Kept(t, s, i, k, p) ==
  /\ \A j \in 1..(i - 1) : \E n \in 1..Len(t) : t[n] = s[j]
  /\ \A q \in 1..Len(p) : \E n \in 1..Len(t) : t[n] = p[q]
  /\ \A j \in (i + k)..Len(s) : \E n \in 1..Len(t) : t[n] = s[j]

\* Two sequences in a row.
LEMMA ConcatElements ==
  ASSUME NEW S, NEW a \in Seq(S), NEW p \in Seq(S)
  PROVE  /\ a \o p \in Seq(S)
         /\ Len(a \o p) = Len(a) + Len(p)
         /\ \A j \in 1..(Len(a) + Len(p)) : (a \o p)[j] = IF j <= Len(a) THEN a[j] ELSE p[j - Len(a)]
  OBVIOUS

\* The first elements of a sequence.
LEMMA FirstElements ==
  ASSUME NEW S, NEW s \in Seq(S), NEW i \in 1..(Len(s)+1)
  PROVE  /\ SubSeq(s,1,i-1) \in Seq(S) /\ Len(SubSeq(s,1,i-1)) = i-1
         /\ \A j \in 1..(i-1) : SubSeq(s,1,i-1)[j] = s[j]
  OBVIOUS

\* The last elements of a sequence.
LEMMA LastElements ==
  ASSUME NEW S, NEW s \in Seq(S), NEW m \in 1..(Len(s)+1)
  PROVE  /\ SubSeq(s,m,Len(s)) \in Seq(S) /\ Len(SubSeq(s,m,Len(s))) = Len(s) - m + 1
         /\ \A j \in 1..(Len(s)-m+1) : SubSeq(s,m,Len(s))[j] = s[m+j-1]
  OBVIOUS

\* Splice replaces elements.
LEMMA SpliceProperties ==
  ASSUME NEW S, NEW s \in Seq(S), NEW p \in Seq(S), NEW i \in 1..(Len(s)+1), NEW k \in Nat, i+k <= Len(s)+1
  PROVE  Splice(s, i, k, p) \in Seq(S) /\ Spliced(Splice(s, i, k, p), s, i, k, p)
<1> DEFINE a == SubSeq(s, 1, i - 1)
           c == SubSeq(s, i + k, Len(s))
           d == a \o p
           t == d \o c
<1>1. a \in Seq(S) /\ Len(a) = i - 1 /\ \A j \in 1..(i - 1) : a[j] = s[j]
  BY FirstElements, Zenon
<1>2. i + k \in 1..(Len(s) + 1)
  <2>1. Len(s) \in Nat
    OBVIOUS
  <2>2. QED
    BY <2>1
<1>3. /\ c \in Seq(S) /\ Len(c) = Len(s) - (i + k) + 1
      /\ \A j \in 1..(Len(s) - (i + k) + 1) : c[j] = s[i + k + j - 1]
  BY <1>2, LastElements, Zenon
<1> HIDE DEF a, c
<1>4. /\ d \in Seq(S) /\ Len(d) = Len(a) + Len(p)
      /\ \A j \in 1..(Len(a) + Len(p)) : d[j] = IF j <= Len(a) THEN a[j] ELSE p[j - Len(a)]
  BY <1>1, ConcatElements, Zenon
<1> HIDE DEF d
<1>5. c \in Seq(S) /\ d \in Seq(S)
  BY <1>3, <1>4
<1>6. /\ t \in Seq(S) /\ Len(t) = Len(d) + Len(c)
      /\ \A j \in 1..(Len(d) + Len(c)) : t[j] = IF j <= Len(d) THEN d[j] ELSE c[j - Len(d)]
  BY <1>5, ConcatElements, Zenon
<1> HIDE DEF t
<1>7. /\ Len(s) \in Nat /\ Len(p) \in Nat
      /\ Len(a) = i - 1 /\ Len(c) = Len(s) - (i + k) + 1 /\ Len(d) = Len(a) + Len(p)
      /\ Len(t) = Len(d) + Len(c)
  BY <1>1, <1>3, <1>4, <1>6
<1>8. Len(t) = Len(s) - k + Len(p)
  BY <1>7
<1>9. ASSUME NEW j \in 1..(i - 1) PROVE t[j] = s[j]
  <2>1. j \in 1..(Len(d) + Len(c)) /\ j <= Len(d) /\ j \in 1..(Len(a) + Len(p)) /\ j <= Len(a)
    BY <1>7
  <2>2. t[j] = d[j] /\ d[j] = a[j]
    BY <1>4, <1>6, <2>1, Zenon
  <2>3. QED
    BY <1>1, <2>2, Zenon
<1>10. ASSUME NEW j \in i..(i + Len(p) - 1) PROVE t[j] = p[j - i + 1]
  <2>1. /\ j \in 1..(Len(d) + Len(c)) /\ j <= Len(d) /\ j \in 1..(Len(a) + Len(p)) /\ ~(j <= Len(a))
        /\ j - Len(a) = j - i + 1
    BY <1>7
  <2>2. t[j] = d[j] /\ d[j] = p[j - Len(a)]
    BY <1>4, <1>6, <2>1, Zenon
  <2>3. QED
    BY <2>1, <2>2, Zenon
<1>11. ASSUME NEW j \in (i + Len(p))..(Len(s) - k + Len(p)) PROVE t[j] = s[j - Len(p) + k]
  <2>1. /\ j \in 1..(Len(d) + Len(c)) /\ ~(j <= Len(d)) /\ j - Len(d) \in 1..(Len(s) - (i + k) + 1)
        /\ i + k + (j - Len(d)) - 1 = j - Len(p) + k
    BY <1>7
  <2>2. t[j] = c[j - Len(d)]
    BY <1>6, <2>1, Zenon
  <2>3. c[j - Len(d)] = s[i + k + (j - Len(d)) - 1]
    BY <1>3, <2>1, Zenon
  <2>4. QED
    BY <2>1, <2>2, <2>3, Zenon
<1>12. t = Splice(s, i, k, p)
  BY DEF Splice, t, d, a, c
<1>13. Spliced(t, s, i, k, p)
  BY <1>8, <1>9, <1>10, <1>11, Zenon DEF Spliced
<1>14. QED
  BY <1>6, <1>12, <1>13, Zenon

\* Replacing blocks by blocks that fit between their neighbours keeps order.
LEMMA SpliceSorted ==
  ASSUME NEW S, NEW s \in Seq(S), NEW p \in Seq(S), NEW i \in 1..(Len(s) + 1), NEW k \in Nat,
         i + k <= Len(s) + 1, Sorted(s), Sorted(p),
         \A j \in 1..(i - 1), q \in 1..Len(p) : End(s[j]) < p[q].start,
         \A j \in (i + k)..Len(s), q \in 1..Len(p) : End(p[q]) < s[j].start
  PROVE  Sorted(Splice(s, i, k, p))
<1> DEFINE t == Splice(s, i, k, p)
<1>0. Spliced(t, s, i, k, p)
  BY SpliceProperties, Zenon
<1> HIDE DEF t
<1>1. /\ Len(t) = Len(s) - k + Len(p)
      /\ \A j \in 1..(i - 1) : t[j] = s[j]
      /\ \A j \in i..(i + Len(p) - 1) : t[j] = p[j - i + 1]
      /\ \A j \in (i + Len(p))..(Len(s) - k + Len(p)) : t[j] = s[j - Len(p) + k]
  BY <1>0, Zenon DEF Spliced
<1>2. Len(s) \in Nat /\ Len(p) \in Nat /\ Len(t) = Len(s) - k + Len(p)
  BY <1>1
<1>3. ASSUME NEW m \in 1..Len(t), NEW n \in 1..Len(t), m < n
      PROVE  End(t[m]) < t[n].start
  <2>1. CASE n <= i - 1
    <3>1. m \in 1..(i - 1) /\ n \in 1..(i - 1) /\ m \in 1..Len(s) /\ n \in 1..Len(s)
      BY <1>2, <1>3, <2>1
    <3>2. QED
      BY <1>1, <1>3, <3>1, Zenon DEF Sorted
  <2>2. CASE m <= i - 1 /\ n \in i..(i + Len(p) - 1)
    <3>1. m \in 1..(i - 1) /\ n - i + 1 \in 1..Len(p)
      BY <1>2, <2>2
    <3>2. t[m] = s[m] /\ t[n] = p[n - i + 1]
      BY <1>1, <2>2, <3>1, Zenon
    <3>3. End(s[m]) < p[n - i + 1].start
      BY <3>1, Zenon
    <3>4. QED
      BY <3>2, <3>3, Zenon
  <2>3. CASE m <= i - 1 /\ n >= i + Len(p)
    <3>1. /\ m \in 1..(i - 1) /\ m \in 1..Len(s) /\ n \in (i + Len(p))..(Len(s) - k + Len(p))
          /\ n - Len(p) + k \in 1..Len(s) /\ m < n - Len(p) + k
      BY <1>2, <1>3, <2>3
    <3>2. t[m] = s[m] /\ t[n] = s[n - Len(p) + k]
      BY <1>1, <3>1, Zenon
    <3>3. QED
      BY <3>1, <3>2, Zenon DEF Sorted
  <2>4. CASE m \in i..(i + Len(p) - 1) /\ n \in i..(i + Len(p) - 1)
    <3>1. m - i + 1 \in 1..Len(p) /\ n - i + 1 \in 1..Len(p) /\ m - i + 1 < n - i + 1
      BY <1>2, <1>3, <2>4
    <3>2. t[m] = p[m - i + 1] /\ t[n] = p[n - i + 1]
      BY <1>1, <2>4, Zenon
    <3>3. QED
      BY <3>1, <3>2, Zenon DEF Sorted
  <2>5. CASE m \in i..(i + Len(p) - 1) /\ n >= i + Len(p)
    <3>1. /\ m - i + 1 \in 1..Len(p) /\ n \in (i + Len(p))..(Len(s) - k + Len(p))
          /\ n - Len(p) + k \in (i + k)..Len(s)
      <4>1. m - i + 1 \in 1..Len(p)
        BY <1>2, <2>5
      <4>2. n \in (i + Len(p))..(Len(s) - k + Len(p))
        BY <1>2, <2>5
      <4>3. n - Len(p) + k \in (i + k)..Len(s)
        BY <1>2, <4>2
      <4>4. QED
        BY <4>1, <4>2, <4>3
    <3>2. t[m] = p[m - i + 1] /\ t[n] = s[n - Len(p) + k]
      BY <1>1, <2>5, <3>1, Zenon
    <3>3. End(p[m - i + 1]) < s[n - Len(p) + k].start
      BY <3>1, Zenon
    <3>4. QED
      BY <3>2, <3>3, Zenon
  <2>6. CASE m >= i + Len(p)
    <3>1. /\ m \in (i + Len(p))..(Len(s) - k + Len(p)) /\ n \in (i + Len(p))..(Len(s) - k + Len(p))
          /\ m - Len(p) + k \in 1..Len(s) /\ n - Len(p) + k \in 1..Len(s)
          /\ m - Len(p) + k < n - Len(p) + k
      BY <1>2, <1>3, <2>6
    <3>2. t[m] = s[m - Len(p) + k] /\ t[n] = s[n - Len(p) + k]
      BY <1>1, <3>1, Zenon
    <3>3. QED
      BY <3>1, <3>2, Zenon DEF Sorted
  <2>7. QED
    BY <1>2, <1>3, <2>1, <2>2, <2>3, <2>4, <2>5, <2>6
<1>4. Sorted(t)
  BY <1>3, Zenon DEF Sorted
<1>5. QED
  BY <1>4, Zenon DEF t

\* Every block of it is one of the blocks kept or one of the new ones.
LEMMA SpliceElements ==
  ASSUME NEW S, NEW s \in Seq(S), NEW p \in Seq(S), NEW i \in 1..(Len(s) + 1), NEW k \in Nat,
         i + k <= Len(s) + 1, NEW n \in 1..Len(Splice(s, i, k, p))
  PROVE  Among(Splice(s, i, k, p)[n], s, i, k, p)
<1> DEFINE t == Splice(s, i, k, p)
<1>0. Spliced(t, s, i, k, p)
  BY SpliceProperties, Zenon
<1> HIDE DEF t
<1>1. /\ Len(t) = Len(s) - k + Len(p)
      /\ \A j \in 1..(i - 1) : t[j] = s[j]
      /\ \A j \in i..(i + Len(p) - 1) : t[j] = p[j - i + 1]
      /\ \A j \in (i + Len(p))..(Len(s) - k + Len(p)) : t[j] = s[j - Len(p) + k]
  BY <1>0, Zenon DEF Spliced
<1>2. n \in 1..Len(t)
  BY DEF t
<1>3. Len(s) \in Nat /\ Len(p) \in Nat /\ Len(t) = Len(s) - k + Len(p)
  BY <1>1
<1>4. CASE n \in 1..(i - 1)
  BY <1>1, <1>4, Zenon DEF t, Among
<1>5. CASE n \in i..(i + Len(p) - 1)
  <2>1. n - i + 1 \in 1..Len(p)
    BY <1>3, <1>5
  <2>2. t[n] = p[n - i + 1]
    BY <1>1, <1>5, Zenon
  <2>3. QED
    BY <2>1, <2>2, Zenon DEF t, Among
<1>6. CASE n \in (i + Len(p))..(Len(s) - k + Len(p))
  <2>1. n - Len(p) + k \in (i + k)..Len(s)
    BY <1>3, <1>6
  <2>2. t[n] = s[n - Len(p) + k]
    BY <1>1, <1>6, Zenon
  <2>3. QED
    BY <2>1, <2>2, Zenon DEF t, Among
<1>7. QED
  BY <1>2, <1>3, <1>4, <1>5, <1>6

----------------------------------------------------------------------------
(* Arithmetic.                                                             *)

\* Small values are their own remainders.
LEMMA ModSmall == ASSUME NEW x \in Nat, NEW w \in Nat, x < w PROVE x % w = x
  OBVIOUS

\* Quotients are rounded down.
LEMMA DivBounds ==
  ASSUME NEW x \in Nat, NEW a \in Nat, a > 0
  PROVE  (x \div a) * a \in Nat /\ (x \div a) * a <= x /\ x < (x \div a) * a + a
  OBVIOUS

\* ALIGN rounds up when nothing overflows.
LEMMA AlignBounds ==
  ASSUME NEW v \in Nat, NEW a \in Nat, NEW w \in Nat, a > 0, v + a <= w
  PROVE  ALIGN(v, a, w) \in Nat /\ v <= ALIGN(v, a, w) /\ ALIGN(v, a, w) < v + a
<1>1. PICK x \in Nat : x = v + a - 1
  OBVIOUS
<1>2. x % w = x
  BY <1>1, ModSmall
<1>3. ALIGN(v, a, w) = (x \div a) * a
  BY <1>1, <1>2 DEF ALIGN
<1>4. PICK y \in Nat : y = (x \div a) * a /\ y <= x /\ x < y + a
  BY DivBounds
<1>5. QED
  BY <1>1, <1>3, <1>4

----------------------------------------------------------------------------
(* Changes of the free list.                                               *)

Memory == [start : Nat, size : Nat]

\* A list in which k blocks were replaced by blocks that fit, and the blocks
\* in use that go with it.
LEMMA PoolReplace ==
  ASSUME PoolInv, NEW p \in Seq(Memory), NEW i \in 1..(Len(free) + 1), NEW k \in Nat,
         i + k <= Len(free) + 1, Sorted(p),
         \A q \in 1..Len(p) : InPool(p[q]),
         \A j \in 1..(i - 1), q \in 1..Len(p) : End(free[j]) < p[q].start,
         \A j \in (i + k)..Len(free), q \in 1..Len(p) : End(p[q]) < free[j].start,
         free' = Splice(free, i, k, p),
         \A b \in live' \cup lost' : InPool(b),
         \A b, c \in live' \cup lost' : b # c => Apart(b, c),
         \A b \in live' \cup lost', q \in 1..Len(p) : Apart(b, p[q]),
         \A b \in live' \cup lost', j \in 1..(i - 1) : Apart(b, free[j]),
         \A b \in live' \cup lost', j \in (i + k)..Len(free) : Apart(b, free[j])
  PROVE  PoolInv'
<1>1. free \in Seq(Memory) /\ Sorted(free) /\ \A j \in 1..Len(free) : InPool(free[j])
  BY Zenon DEF PoolInv, Memory
<1>2. Splice(free, i, k, p) \in Seq(Memory)
  BY <1>1, SpliceProperties, Zenon
<1>3. Sorted(Splice(free, i, k, p))
  BY <1>1, SpliceSorted, Zenon
<1>4. ASSUME NEW n \in 1..Len(Splice(free, i, k, p))
      PROVE  Among(Splice(free, i, k, p)[n], free, i, k, p)
  BY <1>1, SpliceElements, Zenon
<1>5. \A j \in 1..(i - 1) : j \in 1..Len(free)
  BY <1>1
<1>6. \A j \in (i + k)..Len(free) : j \in 1..Len(free)
  BY <1>1
<1>7. \A n \in 1..Len(free') : InPool(free'[n])
  BY <1>1, <1>4, <1>5, <1>6, Zenon DEF Among
<1>8. \A b \in live' \cup lost', n \in 1..Len(free') : Apart(b, free'[n])
  BY <1>4, Zenon DEF Among
<1>9. /\ free' \in Seq([start : Nat, size : Nat]) /\ Sorted(free')
  BY <1>2, <1>3, Zenon DEF Memory
<1>10. (\A n \in 1..Len(free) : InPool(free[n]))'
  BY <1>7, Zenon DEF InPool, End
<1>11. (\A b \in live \cup lost, n \in 1..Len(free) : Apart(b, free[n]))'
  BY <1>8, Zenon DEF Apart, End
<1>12. Sorted(free)' /\ (\A b \in live \cup lost : InPool(b))'
       /\ (\A b, c \in live \cup lost : b # c => Apart(b, c))'
  BY <1>9, Zenon DEF Sorted, InPool, Apart, End
<1>13. QED
  BY <1>9, <1>10, <1>11, <1>12, Zenon DEF PoolInv

\* Every block kept and every new one is in the list.
LEMMA SpliceKeeps ==
  ASSUME NEW S, NEW s \in Seq(S), NEW p \in Seq(S), NEW i \in 1..(Len(s) + 1), NEW k \in Nat,
         i + k <= Len(s) + 1
  PROVE  Kept(Splice(s, i, k, p), s, i, k, p)
<1> DEFINE t == Splice(s, i, k, p)
<1>0. Spliced(t, s, i, k, p)
  BY SpliceProperties, Zenon
<1> HIDE DEF t
<1>1. /\ Len(t) = Len(s) - k + Len(p)
      /\ \A j \in 1..(i - 1) : t[j] = s[j]
      /\ \A j \in i..(i + Len(p) - 1) : t[j] = p[j - i + 1]
      /\ \A j \in (i + Len(p))..(Len(s) - k + Len(p)) : t[j] = s[j - Len(p) + k]
  BY <1>0, Zenon DEF Spliced
<1>2. Len(s) \in Nat /\ Len(p) \in Nat /\ Len(t) = Len(s) - k + Len(p)
  BY <1>1
<1>3. ASSUME NEW j \in 1..(i - 1) PROVE \E n \in 1..Len(t) : t[n] = s[j]
  <2>1. j \in 1..Len(t)
    BY <1>2
  <2>2. QED
    BY <1>1, <2>1, Zenon
<1>4. ASSUME NEW q \in 1..Len(p) PROVE \E n \in 1..Len(t) : t[n] = p[q]
  <2>1. i + q - 1 \in 1..Len(t) /\ i + q - 1 \in i..(i + Len(p) - 1) /\ (i + q - 1) - i + 1 = q
    BY <1>2
  <2>2. t[i + q - 1] = p[(i + q - 1) - i + 1]
    BY <1>1, <2>1, Zenon
  <2>3. QED
    BY <2>1, <2>2, Zenon
<1>5. ASSUME NEW j \in (i + k)..Len(s) PROVE \E n \in 1..Len(t) : t[n] = s[j]
  <2> DEFINE m == j + Len(p) - k
  <2>1. /\ m \in 1..Len(t) /\ m \in (i + Len(p))..(Len(s) - k + Len(p)) /\ m - Len(p) + k = j
    <3>1. j \in Nat /\ i + k <= j /\ j <= Len(s)
      BY <1>2
    <3>2. m - Len(p) + k = j /\ i + Len(p) <= m /\ m <= Len(s) - k + Len(p) /\ m \in Int
      BY <1>2, <3>1
    <3>3. QED
      BY <1>2, <3>2
  <2> HIDE DEF m
  <2>2. t[m] = s[m - Len(p) + k]
    BY <1>1, <2>1, Zenon
  <2>3. QED
    BY <2>1, <2>2, Zenon
<1>6. QED
  BY <1>3, <1>4, <1>5, Zenon DEF Kept, t

\* An address of the pool stays in a block when the blocks that go have their
\* addresses in those that come.
LEMMA CoverReplace ==
  ASSUME PoolInv, Covered, NEW p \in Seq(Memory), NEW i \in 1..(Len(free) + 1), NEW k \in Nat,
         i + k <= Len(free) + 1, free' = Splice(free, i, k, p),
         \A x \in Nat : \A c \in live \cup lost : In(x, c) =>
           (\E b \in live' \cup lost' : In(x, b)) \/ (\E q \in 1..Len(p) : In(x, p[q])),
         \A x \in Nat : \A j \in i..(i + k - 1) : In(x, free[j]) =>
           (\E b \in live' \cup lost' : In(x, b)) \/ (\E q \in 1..Len(p) : In(x, p[q]))
  PROVE  Covered'
<1>1. free \in Seq(Memory) /\ Len(free) \in Nat
  BY DEF PoolInv, Memory
<1>2. Kept(free', free, i, k, p)
  BY <1>1, SpliceKeeps, Zenon
<1>3. ASSUME NEW x \in Start..(Start + PoolSize - 1)
      PROVE  (\E b \in live' \cup lost' : In(x, b)) \/ (\E n \in 1..Len(free') : In(x, free'[n]))
  <2>1. x \in Nat
    BY PoolAssumption
  <2>2. ASSUME NEW q \in 1..Len(p), In(x, p[q])
        PROVE  \E n \in 1..Len(free') : In(x, free'[n])
    BY <1>2, <2>2, Zenon DEF Kept
  <2>3. ASSUME NEW j \in 1..Len(free), In(x, free[j]), ~(j \in i..(i + k - 1))
        PROVE  \E n \in 1..Len(free') : In(x, free'[n])
    <3>1. j \in 1..(i - 1) \/ j \in (i + k)..Len(free)
      BY <1>1, <2>3
    <3>2. QED
      BY <1>2, <2>3, <3>1, Zenon DEF Kept
  <2>4. QED
    BY <2>1, <2>2, <2>3, Zenon DEF Covered
<1>4. QED
  BY <1>3, Zenon DEF Covered, In, End

----------------------------------------------------------------------------
(* xrp_private_alloc                                                       *)

\* What xrp_private_alloc does when it finds a block, the i-th.
Takes(i, start, size, align) ==
  /\ Fits(free[i], size, align) /\ start = ALIGN(free[i].start, align, PhysWidth)
  /\ free' = Splice(free, i, 1, Remainder(free[i], start, size))
  /\ \/ live' = live \cup {Block(start, size)} /\ lost' = lost
     \/ lost' = lost \cup {Block(start, size)} /\ live' = live

\* What is remembered of a call.
Answer(result, size, align, start) ==
  [result |-> result, size |-> size, align |-> align, start |-> start]

\* It finds a block or leaves the pool alone.
LEMMA AllocCases ==
  ASSUME PoolInv, NEW reqSize, NEW reqAlign, xrp_private_alloc(reqSize, reqAlign)
  PROVE  LET size == ALIGN(reqSize, PAGE_SIZE, Width)
             align == ALIGN(reqAlign, PAGE_SIZE, Width)
         IN  \/ UNCHANGED <<free, live, lost>> /\ last' = Answer("nofit", reqSize, reqAlign, 0)
             \/ \E i \in 1..Len(free) : \E start :
                  /\ Takes(i, start, size, align)
                  /\ \/ /\ last' = Answer("ok", reqSize, reqAlign, start)
                        /\ live' = live \cup {Block(start, size)}
                     \/ last' = Answer("nomem", reqSize, reqAlign, start) /\ live' = live
<1> DEFINE size == ALIGN(reqSize, PAGE_SIZE, Width)
           align == ALIGN(reqAlign, PAGE_SIZE, Width)
           fitting == {i \in DOMAIN free : Fits(free[i], size, align)}
           i == Min(fitting)
           start == ALIGN(free[i].start, align, PhysWidth)
           pieces == Remainder(free[i], start, size)
<1>1. AllocSizes(reqSize, reqAlign)[1] = size /\ AllocSizes(reqSize, reqAlign)[2] = align
  BY DEF AllocSizes
<1> HIDE DEF size, align
<1>2. \/ /\ fitting = {} /\ UNCHANGED <<free, live, lost>>
         /\ last' = Answer("nofit", reqSize, reqAlign, 0)
      \/ /\ fitting # {}
         /\ free' = SubSeq(free, 1, i - 1) \o pieces \o SubSeq(free, i + 1, Len(free))
         /\ \/ /\ live' = live \cup {Block(start, size)} /\ lost' = lost
               /\ last' = Answer("ok", reqSize, reqAlign, start)
            \/ /\ lost' = lost \cup {Block(start, size)} /\ live' = live
               /\ last' = Answer("nomem", reqSize, reqAlign, start)
  BY <1>1, Zenon DEF xrp_private_alloc, Answer
<1>3. CASE /\ fitting # {}
           /\ free' = SubSeq(free, 1, i - 1) \o pieces \o SubSeq(free, i + 1, Len(free))
           /\ \/ /\ live' = live \cup {Block(start, size)} /\ lost' = lost
                 /\ last' = Answer("ok", reqSize, reqAlign, start)
              \/ /\ lost' = lost \cup {Block(start, size)} /\ live' = live
                 /\ last' = Answer("nomem", reqSize, reqAlign, start)
  <2>1. DOMAIN free = 1..Len(free) /\ Len(free) \in Nat
    BY DEF PoolInv
  <2>2. fitting \subseteq Nat
    BY <2>1
  <2>3. i \in fitting
    BY <1>3, <2>2, MinProperty, Zenon
  <2>4. i \in 1..Len(free) /\ Fits(free[i], size, align)
    BY <2>1, <2>3, Zenon
  <2>5. \/ live' = live \cup {Block(start, size)} /\ lost' = lost
        \/ lost' = lost \cup {Block(start, size)} /\ live' = live
    BY <1>3, Zenon
  <2>6. free' = Splice(free, i, 1, pieces)
    BY <1>3, Zenon DEF Splice
  <2>7. Takes(i, start, size, align)
    BY <2>4, <2>5, <2>6, Zenon DEF Takes
  <2>8. QED
    BY <1>3, <2>4, <2>7, Zenon DEF size, align
<1>4. QED
  BY <1>2, <1>3, Zenon

\* What remains of a block are parts of it next to what is taken.
LEMMA RemainderProperties ==
  ASSUME NoWrap, NEW b, InPool(b), NEW start \in Nat, NEW size \in Nat, size > 0,
         b.start <= start, start + size <= End(b)
  PROVE  /\ Remainder(b, start, size) \in Seq(Memory) /\ Sorted(Remainder(b, start, size))
         /\ \A q \in 1..Len(Remainder(b, start, size)) :
              LET r == Remainder(b, start, size)[q]
              IN  /\ InPool(r) /\ b.start <= r.start /\ End(r) <= End(b)
                  /\ Apart(Block(start, size), r)
         /\ \A x \in Nat : In(x, b) =>
              \/ In(x, Block(start, size))
              \/ \E q \in 1..Len(Remainder(b, start, size)) : In(x, Remainder(b, start, size)[q])
<1>1. /\ b.start \in Nat /\ b.size \in Nat /\ End(b) = b.start + b.size /\ End(b) <= Start + PoolSize
      /\ Start <= b.start /\ Start \in Nat /\ PoolSize \in Nat /\ Width \in Nat /\ PhysWidth \in Nat
      /\ PoolSize < Width /\ Start + PoolSize < PhysWidth
  BY PoolAssumption DEF InPool, End, NoWrap
<1>2. (start + size) % PhysWidth = start + size
  <2>1. start + size \in Nat /\ start + size < PhysWidth
    BY <1>1
  <2>2. QED
    BY <1>1, <2>1, ModSmall, Zenon
<1>3. (start - b.start) % Width = start - b.start
  <2>1. start - b.start \in Nat /\ start - b.start < Width
    BY <1>1
  <2>2. QED
    BY <1>1, <2>1, ModSmall, Zenon
<1>4. (End(b) - (start + size)) % Width = End(b) - (start + size)
  <2>1. End(b) - (start + size) \in Nat /\ End(b) - (start + size) < Width
    BY <1>1
  <2>2. QED
    BY <1>1, <2>1, ModSmall, Zenon
<1> DEFINE x == Block(b.start, start - b.start)
           y == Block(start + size, End(b) - (start + size))
<1>5. Remainder(b, start, size) = (IF start = b.start THEN <<>> ELSE <<x>>)
                                  \o (IF start + size = End(b) THEN <<>> ELSE <<y>>)
  BY <1>2, <1>3, <1>4, Zenon DEF Remainder
<1>6. start # b.start => /\ x \in Memory /\ InPool(x) /\ b.start <= x.start /\ End(x) <= End(b)
                         /\ Apart(Block(start, size), x) /\ End(x) = start
  BY <1>1 DEF Memory, InPool, End, Apart, Block
<1>7. start + size # End(b) => /\ y \in Memory /\ InPool(y) /\ b.start <= y.start /\ End(y) <= End(b)
                               /\ Apart(Block(start, size), y) /\ y.start = start + size
  BY <1>1 DEF Memory, InPool, End, Apart, Block
<1>13. ASSUME NEW z \in Nat, In(z, b)
       PROVE  In(z, Block(start, size)) \/ (start # b.start /\ In(z, x)) \/ (start + size # End(b) /\ In(z, y))
  BY <1>1, <1>13 DEF In, End, Block
<1> HIDE DEF x, y
<1>8. CASE start = b.start /\ start + size = End(b)
  <2>1. Remainder(b, start, size) = <<>>
    BY <1>5, <1>8
  <2>2. QED
    BY <1>8, <1>13, <2>1 DEF Sorted
<1>9. CASE start # b.start /\ start + size = End(b)
  <2>1. Remainder(b, start, size) = <<x>>
    BY <1>5, <1>9
  <2>2. QED
    BY <1>6, <1>9, <1>13, <2>1 DEF Sorted
<1>10. CASE start = b.start /\ start + size # End(b)
  <2>1. Remainder(b, start, size) = <<y>>
    BY <1>5, <1>10
  <2>2. QED
    BY <1>7, <1>10, <1>13, <2>1 DEF Sorted
<1>11. CASE start # b.start /\ start + size # End(b)
  <2> DEFINE r == Remainder(b, start, size)
  <2>1. r = <<x>> \o <<y>>
    BY <1>5, <1>11, Zenon
  <2>2. <<x>> \in Seq(Memory) /\ <<y>> \in Seq(Memory)
    BY <1>6, <1>7, <1>11
  <2> HIDE DEF r
  <2>3. r \in Seq(Memory) /\ Len(r) = 2 /\ r[1] = x /\ r[2] = y
    BY <2>1, <2>2
  <2>4. End(x) < y.start
    BY <1>6, <1>7, <1>11
  <2>5. \A q \in 1..Len(r) : r[q] = x \/ r[q] = y
    BY <2>3
  <2>6. Sorted(r)
    BY <2>3, <2>4 DEF Sorted
  <2>7. 1 \in 1..Len(r) /\ 2 \in 1..Len(r)
    BY <2>3
  <2>8. \A z \in Nat : In(z, b) => In(z, Block(start, size)) \/ \E q \in 1..Len(r) : In(z, r[q])
    BY <1>13, <2>3, <2>7, Zenon
  <2>9. QED
    BY <1>6, <1>7, <1>11, <2>3, <2>5, <2>6, <2>8, Zenon DEF r
<1>12. QED
  BY <1>8, <1>9, <1>10, <1>11

\* Blocks of the pool have bounds that are numbers.
LEMMA BlockBounds ==
  ASSUME NEW b, InPool(b)
  PROVE  /\ b.start \in Nat /\ b.size \in Nat /\ End(b) \in Nat /\ b.size > 0
         /\ End(b) = b.start + b.size /\ b.start < End(b)
         /\ Start <= b.start /\ End(b) <= Start + PoolSize
  BY DEF InPool, End

\* What an allocation takes lies inside of the block it found and is a whole
\* number of bytes larger than 0.
LEMMA TakenFits ==
  ASSUME NoWrap, PoolInv, NEW reqSize \in Sizes, NEW reqAlign \in Aligns,
         NEW i \in 1..Len(free), NEW start,
         Takes(i, start, ALIGN(reqSize, PAGE_SIZE, Width), ALIGN(reqAlign, PAGE_SIZE, Width))
  PROVE  /\ start \in Nat /\ ALIGN(reqSize, PAGE_SIZE, Width) \in Nat
         /\ ALIGN(reqSize, PAGE_SIZE, Width) > 0
         /\ free[i].start <= start /\ start + ALIGN(reqSize, PAGE_SIZE, Width) <= End(free[i])
<1> DEFINE size == ALIGN(reqSize, PAGE_SIZE, Width)
           align == ALIGN(reqAlign, PAGE_SIZE, Width)
<1>1. /\ reqSize \in Nat /\ reqSize > 0 /\ reqAlign \in Nat /\ reqAlign > 0
      /\ PAGE_SIZE \in Nat /\ PAGE_SIZE > 0 /\ Width \in Nat /\ PhysWidth \in Nat
      /\ reqSize + PAGE_SIZE <= Width /\ reqAlign + PAGE_SIZE <= Width
      /\ Start \in Nat /\ PoolSize \in Nat
      /\ Start + PoolSize + reqSize + reqAlign + 2 * PAGE_SIZE <= PhysWidth
  BY PoolAssumption DEF NoWrap
<1>2. /\ size \in Nat /\ reqSize <= size /\ size < reqSize + PAGE_SIZE
      /\ align \in Nat /\ reqAlign <= align /\ align < reqAlign + PAGE_SIZE
  BY <1>1, AlignBounds, Zenon
<1> HIDE DEF size, align
<1> DEFINE b == free[i]
<1>3. Takes(i, start, size, align)
  BY DEF size, align
<1>4. InPool(b)
  BY DEF PoolInv
<1>5. /\ b.start \in Nat /\ b.size \in Nat /\ End(b) = b.start + b.size
      /\ End(b) <= Start + PoolSize /\ Start <= b.start
  BY <1>4 DEF InPool, End
<1>6. start \in Nat /\ b.start <= start /\ start < b.start + align
  <2>0. b.start <= Start + PoolSize
    BY <1>1, <1>5
  <2> HIDE DEF b
  <2>1. b.start + align <= PhysWidth /\ align > 0
    BY <1>1, <1>2, <1>5, <2>0
  <2>2. start = ALIGN(b.start, align, PhysWidth)
    BY <1>3, Zenon DEF Takes, b
  <2>3. QED
    BY <1>1, <1>2, <1>5, <2>1, <2>2, AlignBounds, Zenon
<1>7. start + size <= End(b)
  <2> HIDE DEF b
  <2>1. start - b.start + size \in Nat /\ start - b.start + size < PhysWidth
    <3>1. PICK d \in Nat : d = start - b.start
      BY <1>5, <1>6
    <3>2. d < align
      BY <1>2, <1>5, <1>6, <3>1
    <3>3. align + size < PhysWidth
      BY <1>1, <1>2
    <3>4. d + size \in Nat /\ d + size < PhysWidth
      BY <1>1, <1>2, <3>2, <3>3
    <3>5. QED
      BY <3>1, <3>4, Zenon
  <2>2. (start - b.start + size) % PhysWidth = start - b.start + size
    BY <1>1, <2>1, ModSmall, Zenon
  <2>3. (start - b.start + size) % PhysWidth <= b.size
    BY <1>3, Zenon DEF Takes, Fits, b
  <2>4. QED
    BY <1>2, <1>5, <1>6, <2>2, <2>3
<1>8. size > 0
  BY <1>1, <1>2
<1>9. QED
  BY <1>2, <1>6, <1>7, <1>8 DEF size

\* An allocation keeps the pool in order.
LEMMA AllocPreserves ==
  ASSUME NoWrap, PoolInv, NoneTwice, Covered, NEW reqSize \in Sizes, NEW reqAlign \in Aligns,
         xrp_private_alloc(reqSize, reqAlign)
  PROVE  PoolInv' /\ NoneTwice' /\ Covered'
<1> DEFINE size == ALIGN(reqSize, PAGE_SIZE, Width)
           align == ALIGN(reqAlign, PAGE_SIZE, Width)
<1> HIDE DEF size, align
<1>3. CASE UNCHANGED <<free, live, lost>>
  BY <1>3 DEF PoolInv, NoneTwice, Covered
<1>4. ASSUME NEW i \in 1..Len(free), NEW start, Takes(i, start, size, align)
      PROVE  PoolInv' /\ NoneTwice' /\ Covered'
  <2> DEFINE b == free[i]
             p == Remainder(b, start, size)
             t == Block(start, size)
  <2>1. /\ free \in Seq(Memory) /\ Sorted(free) /\ InPool(b) /\ Len(free) \in Nat
        /\ \A j \in 1..Len(free) : InPool(free[j])
    BY DEF PoolInv, Memory
  <2>2. /\ b.start \in Nat /\ b.size \in Nat /\ End(b) = b.start + b.size
        /\ End(b) <= Start + PoolSize /\ Start <= b.start
    BY <2>1 DEF InPool, End
  <2>3. /\ start \in Nat /\ size \in Nat /\ size > 0
        /\ b.start <= start /\ start + size <= End(b)
    BY <1>4, TakenFits, Zenon DEF size, align
  <2>6. /\ p \in Seq(Memory) /\ Sorted(p)
        /\ \A q \in 1..Len(p) : /\ InPool(p[q]) /\ b.start <= p[q].start /\ End(p[q]) <= End(b)
                                /\ Apart(t, p[q])
        /\ \A x \in Nat : In(x, b) => In(x, t) \/ \E q \in 1..Len(p) : In(x, p[q])
    BY <2>1, <2>3, RemainderProperties, Zenon
  <2>7. InPool(t) /\ t.start = start /\ End(t) = start + size
    BY <2>2, <2>3, PoolAssumption DEF InPool, Block, End
  <2>8. free' = Splice(free, i, 1, p) /\ live' \cup lost' = live \cup lost \cup {t}
    BY <1>4, Zenon DEF Takes
  <2> HIDE DEF p, t
  <2>9. /\ \A c \in live \cup lost : InPool(c)
        /\ \A c \in live \cup lost, j \in 1..Len(free) : Apart(c, free[j])
        /\ \A c, d \in live \cup lost : c # d => Apart(c, d)
    BY DEF PoolInv
  <2>10. ASSUME NEW x, NEW c, InPool(x), InPool(c), b.start <= x.start, End(x) <= End(b), Apart(c, b)
         PROVE  Apart(c, x) /\ Apart(x, c)
    BY <2>2, <2>10 DEF Apart, InPool, End
  <2>11. \A j \in 1..(i - 1) : j \in 1..Len(free) /\ End(free[j]) < b.start
    BY <2>1 DEF Sorted
  <2>12. \A j \in (i + 1)..Len(free) : j \in 1..Len(free) /\ End(b) < free[j].start
    BY <2>1 DEF Sorted
  <2>13. \A j \in 1..(i - 1), q \in 1..Len(p) : End(free[j]) < p[q].start
    BY <2>1, <2>2, <2>6, <2>11 DEF InPool, End
  <2>14. \A j \in (i + 1)..Len(free), q \in 1..Len(p) : End(p[q]) < free[j].start
    <3> SUFFICES ASSUME NEW j \in (i + 1)..Len(free), NEW q \in 1..Len(p)
                 PROVE  End(p[q]) < free[j].start
      OBVIOUS
    <3>1. End(p[q]) <= End(b) /\ End(b) < free[j].start /\ InPool(p[q]) /\ InPool(free[j])
      BY <2>1, <2>6, <2>12, Zenon
    <3> HIDE DEF b
    <3>2. End(b) \in Nat
      BY <2>2
    <3>3. \A x : InPool(x) => x.start \in Nat /\ End(x) \in Nat
      BY DEF InPool, End
    <3>4. End(p[q]) \in Nat /\ free[j].start \in Nat
      BY <3>1, <3>3, Zenon
    <3>5. QED
      BY <3>1, <3>2, <3>4
  <2>15. \A c \in live \cup lost : Apart(c, b)
    BY <2>9, Zenon
  <2>16. \A c \in live \cup lost : Apart(c, t) /\ Apart(t, c)
    <3>1. b.start <= t.start /\ End(t) <= End(b)
      BY <2>3, <2>7, Zenon
    <3>2. QED
      BY <2>7, <2>9, <2>10, <2>15, <3>1, Zenon
  <2>17. \A c \in live' \cup lost' : InPool(c)
    BY <2>7, <2>8, <2>9, Zenon
  <2>18. \A c, d \in live' \cup lost' : c # d => Apart(c, d)
    BY <2>8, <2>9, <2>16, Zenon
  <2>19. \A c \in live' \cup lost', q \in 1..Len(p) : Apart(c, p[q])
    BY <2>6, <2>8, <2>9, <2>10, <2>15, Zenon
  <2>20. \A j \in 1..(i - 1) : Apart(t, free[j])
    <3> SUFFICES ASSUME NEW j \in 1..(i - 1) PROVE Apart(t, free[j])
      OBVIOUS
    <3>1. j \in 1..Len(free) /\ End(free[j]) < b.start /\ InPool(free[j])
      BY <2>1, <2>11, Zenon
    <3>2. End(free[j]) \in Nat
      BY <3>1, BlockBounds, Zenon
    <3> HIDE DEF b
    <3>3. End(free[j]) <= t.start
      BY <2>2, <2>3, <2>7, <3>1, <3>2
    <3>4. QED
      BY <3>3, Zenon DEF Apart
  <2>21. \A j \in (i + 1)..Len(free) : Apart(t, free[j])
    BY <2>1, <2>2, <2>3, <2>7, <2>12 DEF Apart, InPool, End
  <2>22. \A c \in live' \cup lost', j \in 1..(i - 1) : Apart(c, free[j])
    BY <2>8, <2>9, <2>11, <2>20, Zenon
  <2>23. \A c \in live' \cup lost', j \in (i + 1)..Len(free) : Apart(c, free[j])
    BY <2>8, <2>9, <2>12, <2>21, Zenon
  <2>24. i \in 1..(Len(free) + 1) /\ 1 \in Nat /\ i + 1 <= Len(free) + 1
    BY <2>1
  <2>25. NoneTwice'
    <3>1. ~(t \in live \cup lost)
      <4>1. ~Apart(t, t)
        BY <2>7, BlockBounds DEF Apart
      <4>2. QED
        BY <2>16, <4>1, Zenon
    <3>2. \/ live' = live \cup {t} /\ lost' = lost
          \/ lost' = lost \cup {t} /\ live' = live
      BY <1>4, Zenon DEF Takes, t
    <3>3. live' \cap lost' = {}
      BY <3>1, <3>2, Zenon DEF NoneTwice
    <3>4. QED
      BY <3>3, Zenon DEF NoneTwice
  <2>26. Covered'
    <3>1. t \in live' \cup lost' /\ \A c \in live \cup lost : c \in live' \cup lost'
      BY <2>8, Zenon
    <3>2. \A j \in i..(i + 1 - 1) : free[j] = b
      <4>1. \A j \in i..(i + 1 - 1) : j = i
        BY <2>1
      <4>2. QED
        BY <4>1, Zenon
    <3>3. /\ \A x \in Nat : \A c \in live \cup lost : In(x, c) =>
               (\E d \in live' \cup lost' : In(x, d)) \/ (\E q \in 1..Len(p) : In(x, p[q]))
          /\ \A x \in Nat : \A j \in i..(i + 1 - 1) : In(x, free[j]) =>
               (\E d \in live' \cup lost' : In(x, d)) \/ (\E q \in 1..Len(p) : In(x, p[q]))
      BY <2>6, <3>1, <3>2, Zenon
    <3>4. QED
      BY <2>6, <2>8, <2>24, <3>3, CoverReplace, Zenon
  <2>27. PoolInv'
    BY <2>6, <2>8, <2>13, <2>14, <2>17, <2>18, <2>19, <2>22, <2>23, <2>24, PoolReplace, Zenon
  <2>28. QED
    BY <2>25, <2>26, <2>27
<1>5. QED
  BY <1>3, <1>4, AllocCases, Zenon DEF size, align

\* An allocation answers with a block that was not handed out, and with none
\* otherwise.
LEMMA AllocResult ==
  ASSUME NoWrap, PoolInv, NEW reqSize \in Sizes, NEW reqAlign \in Aligns,
         xrp_private_alloc(reqSize, reqAlign)
  PROVE  \/ last' = Answer("nofit", reqSize, reqAlign, 0) /\ live' = live
         \/ \E s \in 0..(PhysWidth - 1) : last' = Answer("nomem", reqSize, reqAlign, s) /\ live' = live
         \/ \E s \in 0..(PhysWidth - 1) :
              LET b == Block(s, ALIGN(reqSize, PAGE_SIZE, Width))
              IN  /\ last' = Answer("ok", reqSize, reqAlign, s) /\ live' = live \cup {b}
                  /\ b \notin live /\ InPool(b)
<1> DEFINE size == ALIGN(reqSize, PAGE_SIZE, Width)
           align == ALIGN(reqAlign, PAGE_SIZE, Width)
<1>1. \/ UNCHANGED <<free, live, lost>> /\ last' = Answer("nofit", reqSize, reqAlign, 0)
      \/ \E i \in 1..Len(free) : \E start :
           /\ Takes(i, start, size, align)
           /\ \/ last' = Answer("ok", reqSize, reqAlign, start) /\ live' = live \cup {Block(start, size)}
              \/ last' = Answer("nomem", reqSize, reqAlign, start) /\ live' = live
  BY AllocCases, Zenon
<1>2. CASE UNCHANGED <<free, live, lost>> /\ last' = Answer("nofit", reqSize, reqAlign, 0)
  BY <1>2
<1>3. ASSUME NEW i \in 1..Len(free), NEW start, Takes(i, start, size, align)
      PROVE  start \in 0..(PhysWidth - 1) /\ InPool(Block(start, size)) /\ Block(start, size) \notin live
  <2> DEFINE b == free[i]
             t == Block(start, size)
  <2>1. InPool(b) /\ \A c \in live : Apart(c, b)
    BY DEF PoolInv
  <2>2. /\ b.start \in Nat /\ b.size \in Nat /\ End(b) \in Nat /\ End(b) <= Start + PoolSize
        /\ Start <= b.start
    BY <2>1, BlockBounds, Zenon
  <2>3. /\ start \in Nat /\ size \in Nat /\ size > 0
        /\ b.start <= start /\ start + size <= End(b)
    BY <1>3, TakenFits, Zenon
  <2> HIDE DEF b, size
  <2>4. start \in 0..(PhysWidth - 1)
    <3>1. Start \in Nat /\ PoolSize \in Nat /\ PhysWidth \in Nat /\ Start + PoolSize < PhysWidth
      BY PoolAssumption DEF NoWrap
    <3>2. start < PhysWidth
      BY <2>2, <2>3, <3>1
    <3>3. QED
      BY <2>3, <3>1, <3>2
  <2>5. InPool(t) /\ t.start = start /\ End(t) = start + size
    BY <2>2, <2>3, PoolAssumption DEF InPool, Block, End
  <2>6. ~Apart(t, b)
    BY <2>2, <2>3, <2>5 DEF Apart
  <2>7. QED
    BY <2>1, <2>4, <2>5, <2>6, Zenon
<1>4. QED
  BY <1>1, <1>2, <1>3, Zenon

----------------------------------------------------------------------------
(* xrp_private_free                                                        *)

\* Blocks before the place found end before b; the one at it touches b or
\* begins after it.
LEMMA PlaceProperties ==
  ASSUME PoolInv, NEW b \in live
  PROVE  /\ Place(b) \in 1..(Len(free) + 1)
         /\ \A j \in 1..(Place(b) - 1) : End(free[j]) < b.start
         /\ Place(b) <= Len(free) => End(free[Place(b)]) = b.start \/ End(b) <= free[Place(b)].start
<1> DEFINE T == {i \in DOMAIN free : End(free[i]) = b.start \/ b.start < free[i].start}
                  \cup {Len(free) + 1}
<1>1. /\ DOMAIN free = 1..Len(free) /\ Len(free) \in Nat /\ InPool(b)
      /\ \A j \in 1..Len(free) : InPool(free[j]) /\ Apart(b, free[j])
  BY DEF PoolInv
<1>2. T \subseteq Nat /\ T # {} /\ T \subseteq 1..(Len(free) + 1)
  BY <1>1
<1>3. Place(b) = Min(T)
  BY Zenon DEF Place
<1>4. Place(b) \in T /\ \A j \in T : Place(b) <= j
  BY <1>2, <1>3, MinProperty, Zenon
<1>5. Place(b) \in 1..(Len(free) + 1)
  BY <1>2, <1>4, Zenon
<1>6. ASSUME NEW j \in 1..(Place(b) - 1) PROVE End(free[j]) < b.start
  <2>1. j \in 1..Len(free) /\ ~(Place(b) <= j)
    BY <1>1, <1>5
  <2>2. ~(j \in T)
    BY <1>4, <2>1, Zenon
  <2>3. ~(End(free[j]) = b.start) /\ ~(b.start < free[j].start)
    BY <1>1, <2>1, <2>2, Zenon
  <2>4. End(b) <= free[j].start \/ End(free[j]) <= b.start
    BY <1>1, <2>1, Zenon DEF Apart
  <2>5. /\ b.start \in Nat /\ End(b) \in Nat /\ b.start < End(b)
        /\ free[j].start \in Nat /\ End(free[j]) \in Nat
    BY <1>1, <2>1, BlockBounds, Zenon
  <2>6. QED
    BY <2>3, <2>4, <2>5
<1>7. ASSUME Place(b) <= Len(free)
      PROVE  End(free[Place(b)]) = b.start \/ End(b) <= free[Place(b)].start
  <2>1. Place(b) \in 1..Len(free) /\ Place(b) # Len(free) + 1
    BY <1>1, <1>5, <1>7
  <2>2. End(free[Place(b)]) = b.start \/ b.start < free[Place(b)].start
    BY <1>4, <2>1, Zenon
  <2>3. End(b) <= free[Place(b)].start \/ End(free[Place(b)]) <= b.start
    BY <1>1, <2>1, Zenon DEF Apart
  <2>4. /\ b.start \in Nat /\ End(b) \in Nat /\ b.start < End(b)
        /\ free[Place(b)].start \in Nat /\ End(free[Place(b)]) \in Nat
        /\ free[Place(b)].start < End(free[Place(b)])
    BY <1>1, <2>1, BlockBounds, Zenon
  <2>5. QED
    BY <2>2, <2>3, <2>4
<1>8. QED
  BY <1>5, <1>6, <1>7, Zenon

\* A free replaces k blocks, from the place found on, by one that covers them
\* and b.
LEMMA FreeReplaces ==
  ASSUME PoolInv, NoneTwice, Covered, NEW b \in live, xrp_private_free(b),
         NEW g, InPool(g), NEW i \in 1..(Len(free) + 1), NEW k \in Nat, i + k <= Len(free) + 1,
         \A j \in 1..(i - 1) : End(free[j]) < g.start,
         \A j \in (i + k)..Len(free) : End(g) < free[j].start,
         \A c : InPool(c) /\ Apart(c, b) /\ (\A j \in i..(i + k - 1) : Apart(c, free[j]))
                  => Apart(c, g),
         \A x \in Nat : In(x, b) \/ (\E j \in i..(i + k - 1) : In(x, free[j])) => In(x, g),
         Insert(b) = Splice(free, i, k, <<g>>)
  PROVE  PoolInv' /\ NoneTwice' /\ Covered'
<1>1. /\ free' = Splice(free, i, k, <<g>>) /\ live' = live \ {b} /\ lost' = lost
  BY Zenon DEF xrp_private_free
<1>2. \A c \in live' \cup lost' : c \in live \cup lost /\ c # b
  BY <1>1, Zenon DEF NoneTwice
<1>3. /\ \A c \in live \cup lost : InPool(c)
      /\ \A c \in live \cup lost, j \in 1..Len(free) : Apart(c, free[j])
      /\ \A c, d \in live \cup lost : c # d => Apart(c, d)
      /\ Len(free) \in Nat
  BY DEF PoolInv
<1>4. ASSUME NEW c \in live' \cup lost'
      PROVE  Apart(c, g)
  <2>1. \A j \in i..(i + k - 1) : j \in 1..Len(free)
    BY <1>3
  <2>2. Apart(c, b) /\ InPool(c)
    BY <1>2, <1>3, <1>4, Zenon
  <2>3. \A j \in i..(i + k - 1) : Apart(c, free[j])
    BY <1>2, <1>3, <1>4, <2>1, Zenon
  <2>4. QED
    BY <2>2, <2>3, Zenon
<1>5. g \in Memory /\ <<g>> \in Seq(Memory) /\ Sorted(<<g>>) /\ Len(<<g>>) = 1
  BY DEF Memory, InPool, Sorted
<1>6. \A q \in 1..Len(<<g>>) : <<g>>[q] = g
  BY <1>5
<1>7. \A j \in 1..(i - 1) : j \in 1..Len(free)
  BY <1>3
<1>8. \A j \in (i + k)..Len(free) : j \in 1..Len(free)
  BY <1>3
<1>9. /\ \A q \in 1..Len(<<g>>) : InPool(<<g>>[q])
      /\ \A j \in 1..(i - 1), q \in 1..Len(<<g>>) : End(free[j]) < <<g>>[q].start
      /\ \A j \in (i + k)..Len(free), q \in 1..Len(<<g>>) : End(<<g>>[q]) < free[j].start
      /\ \A c \in live' \cup lost', q \in 1..Len(<<g>>) : Apart(c, <<g>>[q])
  BY <1>4, <1>6, Zenon
<1>10. /\ \A c \in live' \cup lost' : InPool(c)
       /\ \A c, d \in live' \cup lost' : c # d => Apart(c, d)
       /\ \A c \in live' \cup lost', j \in 1..(i - 1) : Apart(c, free[j])
       /\ \A c \in live' \cup lost', j \in (i + k)..Len(free) : Apart(c, free[j])
  BY <1>2, <1>3, <1>7, <1>8, Zenon
<1>11. PoolInv'
  BY <1>1, <1>5, <1>9, <1>10, PoolReplace, Zenon
<1>12. NoneTwice'
  BY <1>1, Zenon DEF NoneTwice
<1>13. Covered'
  <2>1. 1 \in 1..Len(<<g>>) /\ <<g>>[1] = g
    BY <1>5
  <2>2. \A c \in live \cup lost : c = b \/ c \in live' \cup lost'
    BY <1>1, Zenon
  <2>3. \A x \in Nat : In(x, g) => \E q \in 1..Len(<<g>>) : In(x, <<g>>[q])
    BY <2>1, Zenon
  <2>4. /\ \A x \in Nat : \A c \in live \cup lost : In(x, c) =>
             (\E d \in live' \cup lost' : In(x, d)) \/ (\E q \in 1..Len(<<g>>) : In(x, <<g>>[q]))
        /\ \A x \in Nat : \A j \in i..(i + k - 1) : In(x, free[j]) =>
             (\E d \in live' \cup lost' : In(x, d)) \/ (\E q \in 1..Len(<<g>>) : In(x, <<g>>[q]))
    BY <2>2, <2>3, Zenon
  <2>5. QED
    BY <1>1, <1>5, <2>4, CoverReplace, Zenon
<1>14. QED
  BY <1>11, <1>12, <1>13

\* Giving a block back keeps the pool in order: it is joined with the block
\* before it, the one after it, both or neither.
LEMMA FreePreserves ==
  ASSUME PoolInv, NoneTwice, Covered, NEW b \in live, xrp_private_free(b)
  PROVE  PoolInv' /\ NoneTwice' /\ Covered'
<1>1. PICK i \in 1..(Len(free) + 1) : i = Place(b)
  BY PlaceProperties, Zenon
<1>2. /\ \A j \in 1..(i - 1) : End(free[j]) < b.start
      /\ i <= Len(free) => End(free[i]) = b.start \/ End(b) <= free[i].start
  BY <1>1, PlaceProperties, Zenon
<1>3. /\ Len(free) \in Nat /\ InPool(b) /\ \A j \in 1..Len(free) : InPool(free[j])
      /\ \A j \in 1..Len(free) : Apart(b, free[j])
      /\ \A j, n \in 1..Len(free) : j < n => End(free[j]) < free[n].start
  BY DEF PoolInv, Sorted
<1> DEFINE cur == free[i]
           grown == Block(cur.start, cur.size + b.size)
           wide == Block(cur.start, grown.size + free[i + 1].size)
           joined == Block(b.start, b.size + cur.size)
<1>4. Insert(b) = IF i <= Len(free) /\ End(cur) = b.start
                    THEN IF i < Len(free) /\ End(grown) = free[i + 1].start
                           THEN Splice(free, i, 2, <<wide>>)
                           ELSE Splice(free, i, 1, <<grown>>)
                  ELSE IF i <= Len(free) /\ End(b) = cur.start
                    THEN Splice(free, i, 1, <<joined>>)
                  ELSE SubSeq(free, 1, i - 1) \o <<b>> \o SubSeq(free, i, Len(free))
  BY <1>1, Zenon DEF Insert, Splice
<1>5. CASE i <= Len(free) /\ End(cur) = b.start /\ i < Len(free) /\ End(grown) = free[i + 1].start
  <2>1. i \in 1..Len(free) /\ i + 1 \in 1..Len(free) /\ i + 2 <= Len(free) + 1
    BY <1>3, <1>5
  <2> DEFINE n == free[i + 1]
  <2>2. InPool(cur) /\ InPool(n)
    BY <1>3, <2>1, Zenon
  <2> HIDE DEF cur, n
  <2>3. /\ grown.size = cur.size + b.size /\ grown.start = cur.start
        /\ wide.start = cur.start /\ wide.size = cur.size + b.size + n.size
    BY DEF Block, n
  <2>4. /\ cur.start \in Nat /\ cur.size \in Nat /\ cur.size > 0 /\ End(cur) = cur.start + cur.size
        /\ n.start \in Nat /\ n.size \in Nat /\ n.size > 0 /\ End(n) = n.start + n.size
        /\ b.start \in Nat /\ b.size \in Nat /\ b.size > 0 /\ End(b) = b.start + b.size
        /\ Start <= cur.start /\ End(n) <= Start + PoolSize
    BY <1>3, <2>2, BlockBounds, Zenon
  <2>5. n.start = b.start + b.size /\ b.start = cur.start + cur.size
    BY <1>5, <2>3, <2>4 DEF End, n
  <2>6. wide \in [start : Nat, size : Nat]
    <3> HIDE DEF grown
    <3>1. PICK z \in Nat : z = grown.size + n.size
      BY <2>3, <2>4
    <3>2. wide = Block(cur.start, z)
      BY <3>1, Zenon DEF n
    <3>3. QED
      BY <2>4, <3>2 DEF Block
  <2> HIDE DEF wide, grown
  <2>7. End(wide) = End(n)
    BY <2>3, <2>4, <2>5 DEF End
  <2>8. InPool(wide)
    BY <2>3, <2>4, <2>6, <2>7 DEF InPool
  <2>9. \A j \in 1..(i - 1) : End(free[j]) < wide.start
    BY <1>3, <2>1, <2>3 DEF cur
  <2>10. \A j \in (i + 2)..Len(free) : End(wide) < free[j].start
    BY <1>3, <2>1, <2>7 DEF n
  <2>11. ASSUME NEW c, InPool(c), Apart(c, b), \A j \in i..(i + 2 - 1) : Apart(c, free[j])
         PROVE  Apart(c, wide)
    <3>1. i \in i..(i + 2 - 1) /\ i + 1 \in i..(i + 2 - 1)
      BY <2>1
    <3>2. Apart(c, cur) /\ Apart(c, n)
      BY <2>11, <3>1, Zenon DEF cur, n
    <3>3. c.start \in Nat /\ End(c) \in Nat /\ c.start < End(c)
      BY <2>11, BlockBounds, Zenon
    <3>4. QED
      BY <2>3, <2>4, <2>5, <2>7, <2>11, <3>2, <3>3 DEF Apart
  <2>12. Insert(b) = Splice(free, i, 2, <<wide>>)
    BY <1>4, <1>5, Zenon
  <2>13. 2 \in Nat
    OBVIOUS
  <2>14. ASSUME NEW x \in Nat, In(x, b) \/ \E j \in i..(i + 2 - 1) : In(x, free[j])
         PROVE  In(x, wide)
    <3>1. \A j \in i..(i + 2 - 1) : j = i \/ j = i + 1
      BY <2>1
    <3>2. In(x, b) \/ In(x, cur) \/ In(x, n)
      BY <2>14, <3>1, Zenon DEF cur, n
    <3>3. \/ b.start <= x /\ x < End(b)
          \/ cur.start <= x /\ x < End(cur)
          \/ n.start <= x /\ x < End(n)
      BY <3>2, Zenon DEF In
    <3>4. cur.start <= x /\ x < End(n)
      <4>1. End(cur) = b.start /\ End(b) = n.start
        BY <2>4, <2>5
      <4>2. /\ cur.start \in Nat /\ b.start \in Nat /\ n.start \in Nat /\ End(n) \in Nat
            /\ cur.start <= b.start /\ b.start <= n.start /\ n.start <= End(n)
        <5>1. cur.start \in Nat /\ b.start \in Nat /\ n.start \in Nat /\ End(n) \in Nat
          BY <1>3, <2>2, BlockBounds, Zenon
        <5>2. cur.start < End(cur) /\ b.start < End(b) /\ n.start < End(n)
          BY <1>3, <2>2, BlockBounds, Zenon
        <5>3. cur.start < b.start /\ b.start < n.start
          BY <4>1, <5>2, Zenon
        <5>4. QED
          BY <5>1, <5>2, <5>3
      <4>3. QED
        BY <3>3, <4>1, <4>2
    <3>5. QED
      BY <2>3, <2>7, <3>4, Zenon DEF In
  <2>15. QED
    BY <2>1, <2>8, <2>9, <2>10, <2>11, <2>12, <2>13, <2>14, FreeReplaces, Zenon
<1>6. CASE i <= Len(free) /\ End(cur) = b.start /\ ~(i < Len(free) /\ End(grown) = free[i + 1].start)
  <2>1. i \in 1..Len(free) /\ i + 1 <= Len(free) + 1
    BY <1>3, <1>6
  <2>2. InPool(cur)
    BY <1>3, <2>1, Zenon
  <2> HIDE DEF cur
  <2>3. grown.size = cur.size + b.size /\ grown.start = cur.start
    BY DEF Block
  <2>4. /\ cur.start \in Nat /\ cur.size \in Nat /\ cur.size > 0 /\ End(cur) = cur.start + cur.size
        /\ b.start \in Nat /\ b.size \in Nat /\ b.size > 0 /\ End(b) = b.start + b.size
        /\ Start <= cur.start /\ End(b) <= Start + PoolSize
    BY <1>3, <2>2, BlockBounds, Zenon
  <2>5. grown \in [start : Nat, size : Nat]
    BY <2>4 DEF Block
  <2> HIDE DEF grown
  <2>6. End(grown) = End(b) /\ cur.start < End(b)
    BY <1>6, <2>3, <2>4 DEF End
  <2>7. InPool(grown)
    BY <2>3, <2>4, <2>5, <2>6 DEF InPool
  <2>8. \A j \in 1..(i - 1) : End(free[j]) < grown.start
    BY <1>3, <2>1, <2>3 DEF cur
  <2>9. ASSUME NEW j \in (i + 1)..Len(free)
        PROVE  End(grown) < free[j].start
    <3>1. i + 1 \in 1..Len(free) /\ j \in 1..Len(free) /\ i < Len(free) /\ i < i + 1
      BY <1>3, <2>1
    <3>2. /\ Apart(b, free[i + 1]) /\ InPool(free[i + 1]) /\ InPool(free[j])
          /\ End(cur) < free[i + 1].start
      BY <1>3, <2>1, <3>1, Zenon DEF cur
    <3>3. /\ free[i + 1].start \in Nat /\ End(free[i + 1]) \in Nat
          /\ free[i + 1].start < End(free[i + 1]) /\ free[j].start \in Nat
      BY <3>2, BlockBounds, Zenon
    <3>4. End(grown) < free[i + 1].start
      <4>1. End(grown) # free[i + 1].start /\ End(cur) = b.start
        BY <1>6, <3>1, Zenon
      <4>2. End(b) <= free[i + 1].start \/ End(free[i + 1]) <= b.start
        BY <3>2, Zenon DEF Apart
      <4>3. End(cur) < free[i + 1].start
        BY <3>2, Zenon
      <4>4. b.start < free[i + 1].start
        BY <4>1, <4>3, Zenon
      <4>5. b.start \in Nat /\ End(b) \in Nat
        BY <2>4
      <4> HIDE DEF grown
      <4>6. End(b) <= free[i + 1].start
        BY <3>3, <4>2, <4>4, <4>5
      <4>7. End(b) # free[i + 1].start
        BY <2>6, <4>1, Zenon
      <4>8. End(b) < free[i + 1].start
        BY <3>3, <4>5, <4>6, <4>7
      <4>9. QED
        BY <2>6, <4>8, Zenon
    <3>5. j = i + 1 \/ End(free[i + 1]) < free[j].start
      BY <1>3, <3>1
    <3>6. QED
      BY <2>4, <2>6, <3>3, <3>4, <3>5
  <2>10. ASSUME NEW c, InPool(c), Apart(c, b), \A j \in i..(i + 1 - 1) : Apart(c, free[j])
         PROVE  Apart(c, grown)
    <3>1. i \in i..(i + 1 - 1)
      BY <2>1
    <3>2. Apart(c, cur)
      BY <2>10, <3>1, Zenon DEF cur
    <3>3. c.start \in Nat /\ End(c) \in Nat /\ c.start < End(c)
      BY <2>10, BlockBounds, Zenon
    <3>4. QED
      BY <1>6, <2>3, <2>4, <2>6, <2>10, <3>2, <3>3 DEF Apart
  <2>11. Insert(b) = Splice(free, i, 1, <<grown>>)
    BY <1>4, <1>6, Zenon
  <2>12. 1 \in Nat
    OBVIOUS
  <2>13. ASSUME NEW x \in Nat, In(x, b) \/ \E j \in i..(i + 1 - 1) : In(x, free[j])
         PROVE  In(x, grown)
    <3>1. \A j \in i..(i + 1 - 1) : j = i
      BY <2>1
    <3>2. In(x, b) \/ In(x, cur)
      BY <2>13, <3>1, Zenon DEF cur
    <3>3. \/ b.start <= x /\ x < End(b)
          \/ cur.start <= x /\ x < End(cur)
      BY <3>2, Zenon DEF In
    <3>4. End(cur) = b.start
      BY <1>6, Zenon
    <3>5. cur.start <= x /\ x < End(b)
      BY <2>4, <3>3, <3>4
    <3>6. QED
      BY <2>3, <2>6, <3>5, Zenon DEF In
  <2>14. QED
    BY <2>1, <2>7, <2>8, <2>9, <2>10, <2>11, <2>12, <2>13, FreeReplaces, Zenon

<1>7. CASE i <= Len(free) /\ End(cur) # b.start /\ End(b) = cur.start
  <2>1. i \in 1..Len(free) /\ i + 1 <= Len(free) + 1
    BY <1>3, <1>7
  <2>2. InPool(cur)
    BY <1>3, <2>1, Zenon
  <2> HIDE DEF cur
  <2>3. joined.size = b.size + cur.size /\ joined.start = b.start
    BY DEF Block
  <2>4. /\ cur.start \in Nat /\ cur.size \in Nat /\ cur.size > 0 /\ End(cur) = cur.start + cur.size
        /\ b.start \in Nat /\ b.size \in Nat /\ b.size > 0 /\ End(b) = b.start + b.size
        /\ Start <= b.start /\ End(cur) <= Start + PoolSize
    BY <1>3, <2>2, BlockBounds, Zenon
  <2>5. joined \in [start : Nat, size : Nat]
    BY <2>4 DEF Block
  <2> HIDE DEF joined
  <2>6. End(joined) = End(cur)
    BY <1>7, <2>3, <2>4 DEF End
  <2>7. InPool(joined)
    BY <2>3, <2>4, <2>5, <2>6 DEF InPool
  <2>8. \A j \in 1..(i - 1) : End(free[j]) < joined.start
    BY <1>2, <2>3, Zenon
  <2>9. \A j \in (i + 1)..Len(free) : End(joined) < free[j].start
    BY <1>3, <2>1, <2>6 DEF cur
  <2>10. ASSUME NEW c, InPool(c), Apart(c, b), \A j \in i..(i + 1 - 1) : Apart(c, free[j])
         PROVE  Apart(c, joined)
    <3>1. i \in i..(i + 1 - 1)
      BY <2>1
    <3>2. Apart(c, cur)
      BY <2>10, <3>1, Zenon DEF cur
    <3>3. c.start \in Nat /\ End(c) \in Nat /\ c.start < End(c)
      BY <2>10, BlockBounds, Zenon
    <3>4. /\ End(c) <= b.start \/ End(b) <= c.start
          /\ End(c) <= cur.start \/ End(cur) <= c.start
          /\ End(b) = cur.start
      BY <1>7, <2>10, <3>2, Zenon DEF Apart
    <3>5. End(c) <= joined.start \/ End(joined) <= c.start
      BY <2>3, <2>4, <2>6, <3>3, <3>4
    <3>6. QED
      BY <3>5, Zenon DEF Apart
  <2>11. Insert(b) = Splice(free, i, 1, <<joined>>)
    BY <1>4, <1>7, Zenon
  <2>12. 1 \in Nat
    OBVIOUS
  <2>13. ASSUME NEW x \in Nat, In(x, b) \/ \E j \in i..(i + 1 - 1) : In(x, free[j])
         PROVE  In(x, joined)
    <3>1. \A j \in i..(i + 1 - 1) : j = i
      BY <2>1
    <3>2. In(x, b) \/ In(x, cur)
      BY <2>13, <3>1, Zenon DEF cur
    <3>3. \/ b.start <= x /\ x < End(b)
          \/ cur.start <= x /\ x < End(cur)
      BY <3>2, Zenon DEF In
    <3>4. End(b) = cur.start
      BY <1>7, Zenon
    <3>5. b.start <= x /\ x < End(cur)
      BY <2>4, <3>3, <3>4
    <3>6. QED
      BY <2>3, <2>6, <3>5, Zenon DEF In
  <2>14. QED
    BY <2>1, <2>7, <2>8, <2>9, <2>10, <2>11, <2>12, <2>13, FreeReplaces, Zenon
<1>8. CASE ~(i <= Len(free) /\ End(cur) = b.start) /\ ~(i <= Len(free) /\ End(b) = cur.start)
  <2>1. i + 0 = i /\ i + 0 <= Len(free) + 1 /\ 0 \in Nat
    BY <1>3
  <2>2. Insert(b) = Splice(free, i, 0, <<b>>)
    BY <1>4, <1>8, <2>1, Zenon DEF Splice
  <2>3. ASSUME NEW j \in (i + 0)..Len(free)
        PROVE  End(b) < free[j].start
    <3>1. i \in 1..Len(free) /\ j \in 1..Len(free) /\ i <= Len(free)
      BY <1>3
    <3>2. InPool(cur) /\ InPool(free[j])
      BY <1>3, <3>1, Zenon
    <3>3. /\ cur.start \in Nat /\ End(cur) \in Nat /\ cur.start < End(cur)
          /\ free[j].start \in Nat /\ End(b) \in Nat
      BY <1>3, <3>2, BlockBounds, Zenon
    <3>4. j = i \/ End(cur) < free[j].start
      BY <1>3, <3>1
    <3>5. End(b) < cur.start
      BY <1>2, <1>8, <3>1, <3>3
    <3>6. QED
      BY <3>3, <3>4, <3>5
  <2>4. \A c : Apart(c, b) => Apart(c, b)
    OBVIOUS
  <2>5. \A x \in Nat : In(x, b) \/ (\E j \in i..(i + 0 - 1) : In(x, free[j])) => In(x, b)
    <3>1. \A j \in i..(i + 0 - 1) : FALSE
      BY <2>1
    <3>2. QED
      BY <3>1, Zenon
  <2>6. QED
    BY <1>2, <1>3, <2>1, <2>2, <2>3, <2>4, <2>5, FreeReplaces, Zenon
<1>9. QED
  BY <1>5, <1>6, <1>7, <1>8, Zenon

----------------------------------------------------------------------------
\* At the start the pool is one free block.
LEMMA PoolInit ==
  ASSUME Init
  PROVE  PoolInv /\ NoneTwice /\ Covered
<1> DEFINE whole == Block(Start, PoolSize)
<1>1. free = <<whole>> /\ live = {} /\ lost = {}
  BY DEF Init
<1>2. /\ InPool(whole) /\ whole \in [start : Nat, size : Nat]
      /\ \A x \in Start..(Start + PoolSize - 1) : In(x, whole)
  BY PoolAssumption DEF InPool, Block, End, In
<1> HIDE DEF whole
<1>3. free \in Seq([start : Nat, size : Nat]) /\ Len(free) = 1 /\ free[1] = whole
  BY <1>1, <1>2
<1>4. Sorted(free) /\ \A i \in 1..Len(free) : InPool(free[i])
  BY <1>2, <1>3 DEF Sorted
<1>5. 1 \in 1..Len(free)
  BY <1>3
<1>6. QED
  BY <1>1, <1>2, <1>3, <1>4, <1>5, Zenon DEF PoolInv, NoneTwice, Covered

\* The blocks partition the pool when they are in order and cover it.
LEMMA PoolPartition ==
  ASSUME PoolInv, Covered
  PROVE  Partition
<1> DEFINE all == ToSet(free) \cup live \cup lost
<1>1. ToSet(free) = {free[i] : i \in 1..Len(free)}
  BY DEF PoolInv, ToSet
<1>2. \A b \in all : InPool(b)
  BY <1>1, Zenon DEF PoolInv
<1>3. ASSUME NEW b \in all, NEW c \in all, b # c
      PROVE  Apart(b, c)
  <2>1. CASE b \in live \cup lost /\ c \in live \cup lost
    BY <1>3, <2>1, Zenon DEF PoolInv
  <2>2. CASE b \in ToSet(free) /\ c \in live \cup lost
    BY <1>1, <2>2, Zenon DEF PoolInv, Apart
  <2>3. CASE b \in live \cup lost /\ c \in ToSet(free)
    BY <1>1, <2>3, Zenon DEF PoolInv, Apart
  <2>4. CASE b \in ToSet(free) /\ c \in ToSet(free)
    <3>1. PICK i \in 1..Len(free), j \in 1..Len(free) : b = free[i] /\ c = free[j]
      BY <1>1, <2>4, Zenon
    <3>2. i # j /\ (i < j \/ j < i)
      BY <1>3, <3>1
    <3>3. End(b) < c.start \/ End(c) < b.start
      BY <3>1, <3>2, Zenon DEF PoolInv, Sorted
    <3>4. /\ b.start \in Nat /\ End(b) \in Nat /\ c.start \in Nat /\ End(c) \in Nat
      BY <1>2, BlockBounds, Zenon
    <3>5. QED
      BY <3>3, <3>4 DEF Apart
  <2>5. QED
    BY <2>1, <2>2, <2>3, <2>4, Zenon
<1>4. ASSUME NEW b \in all, NEW c \in all, b # c
      PROVE  Bytes(b) \cap Bytes(c) = {}
  <2>1. Apart(b, c) /\ InPool(b) /\ InPool(c)
    BY <1>2, <1>3, <1>4, Zenon
  <2>2. /\ b.start \in Nat /\ End(b) \in Nat /\ c.start \in Nat /\ End(c) \in Nat
    BY <2>1, BlockBounds, Zenon
  <2>3. QED
    BY <2>1, <2>2 DEF Bytes, Apart
<1>5. ASSUME NEW b \in all, NEW x \in Bytes(b)
      PROVE  x \in Start..(Start + PoolSize - 1)
  <2>1. /\ b.start \in Nat /\ End(b) \in Nat /\ Start <= b.start /\ End(b) <= Start + PoolSize
    BY <1>2, BlockBounds, Zenon
  <2>2. QED
    BY <2>1, PoolAssumption DEF Bytes
<1>6. ASSUME NEW x \in Start..(Start + PoolSize - 1)
      PROVE  \E b \in all : x \in Bytes(b)
  <2>1. PICK b \in all : In(x, b)
    BY <1>1, Zenon DEF Covered
  <2>2. b.start \in Nat /\ End(b) \in Nat
    BY <1>2, BlockBounds, Zenon
  <2>3. x \in Int
    BY PoolAssumption
  <2>4. x \in Bytes(b)
    BY <2>1, <2>2, <2>3 DEF In, Bytes
  <2>5. QED
    BY <2>4
<1> HIDE DEF all
<1>7. UNION {Bytes(b) : b \in all} = Start..(Start + PoolSize - 1)
  BY <1>5, <1>6, Zenon
<1>8. QED
  BY <1>4, <1>7, Zenon DEF Partition, all

\* Every call keeps the pool in order.
LEMMA PoolStep ==
  ASSUME NoWrap, PoolInv, NoneTwice, Covered, PoolNext \/ UNCHANGED vars
  PROVE  PoolInv' /\ NoneTwice' /\ Covered'
<1>1. CASE PoolNext
  BY <1>1, AllocPreserves, FreePreserves, Zenon DEF PoolNext
<1>2. CASE UNCHANGED vars
  BY <1>2 DEF PoolInv, NoneTwice, Covered, vars
<1>3. QED
  BY <1>1, <1>2, Zenon
=============================================================================
