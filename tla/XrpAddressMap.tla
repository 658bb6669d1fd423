--------------------------- MODULE XrpAddressMap ---------------------------
(***************************************************************************)
(* The address map of the kernel driver (xrp_address_map.c): windows of    *)
(* host physical memory and the DSP addresses they appear at.  An entry is *)
(* [src, dst, size]; a map is a sequence of entries sorted for bsearch.    *)
(***************************************************************************)
EXTENDS Integers, Sequences

\* The address that stands for "the DSP cannot reach this memory".
XRP_NO_TRANSLATION == -1

\* Where addr lies relative to a window: -1 below, 0 inside, 1 above.
xrp_compare_address(addr, e) ==
  IF addr < e.src THEN -1 ELSE IF addr - e.src < e.size THEN 0 ELSE 1

\* The order used by sort(): windows that overlap compare as equal.
xrp_compare_address_sort(a, b) ==
  IF a.src < b.src /\ b.src - a.src >= a.size THEN -1
  ELSE IF a.src > b.src /\ a.src - b.src >= b.size THEN 1 ELSE 0

\* lib/sort.c, for the comparison above: a permutation in which no later
\* entry compares below an earlier one.
sort(ranges) ==
  CHOOSE s \in [DOMAIN ranges -> {ranges[i] : i \in DOMAIN ranges}] :
    /\ \A i \in DOMAIN ranges : \E j \in DOMAIN s : s[j] = ranges[i]
    /\ \A i, j \in DOMAIN s : i < j => xrp_compare_address_sort(s[i], s[j]) <= 0

\* A mistake: the entries stay in the order of the device tree.
xrp_init_address_map_unsorted(ranges, last) ==
  IF ranges = <<>> THEN <<[src |-> 0, dst |-> 0, size |-> last]>>
                   ELSE ranges

\* The map made from the "ranges" of the device tree; with none of them the
\* one entry maps every address to itself (all but the last one: size is ~0).
xrp_init_address_map(ranges, last) ==
  IF ranges = <<>> THEN <<[src |-> 0, dst |-> 0, size |-> last]>>
                   ELSE sort(ranges)

\* lib/bsearch.c: the index of the entry found, 0 for NULL.
bsearch(addr, map) ==
  LET find[base \in 1..Len(map) + 1, num \in 0..Len(map)] ==
        IF num = 0 THEN 0
        ELSE LET pivot == base + num \div 2
                 c == xrp_compare_address(addr, map[pivot])
             IN IF c = 0 THEN pivot
                ELSE IF c > 0 THEN find[pivot + 1, (num - 1) \div 2]
                ELSE find[base, num \div 2]
  IN find[1, Len(map)]

\* The index of the window that holds addr, 0 when there is none.
xrp_get_address_mapping(map, addr) == bsearch(addr, map)

xrp_translate_to_dsp(map, addr) ==
  LET i == xrp_get_address_mapping(map, addr)
  IN IF i = 0 THEN XRP_NO_TRANSLATION ELSE map[i].dst + addr - map[i].src
=============================================================================
