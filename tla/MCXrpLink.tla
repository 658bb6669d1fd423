---------------------------- MODULE MCXrpLink ----------------------------
(***************************************************************************)
(* Instances of XrpLink for TLC.                                           *)
(***************************************************************************)
EXTENDS XrpLink, TLC

RequestSymmetry == Permutations(Requests)
==========================================================================
