---------------------------- MODULE MCXrpMemory ----------------------------
(***************************************************************************)
(* Instances of XrpMemory for TLC.  A page has two bytes.  Neither threads *)
(* nor addresses are told apart by anything.                               *)
(***************************************************************************)
EXTENDS XrpMemory

\* The instance satisfies the condition of the proofs.
ASSUME PoolDoesNotWrap == NoWrap

MCSymmetry == Permutations(Threads) \cup Permutations(Addrs)
===========================================================================
