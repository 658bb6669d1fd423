------------------------- MODULE MCXrpNativeQueue -------------------------
(***************************************************************************)
(* Instances of XrpNativeQueue for TLC.                                    *)
(***************************************************************************)
EXTENDS XrpNativeQueue
===========================================================================
