----------------------------- MODULE MCXrpSim -----------------------------
(***************************************************************************)
(* Instances of XrpSim for TLC: a buffer of each type, a command with the  *)
(* group and one without it, two devices on one description.               *)
(***************************************************************************)
EXTENDS XrpSim, TLC

CONSTANTS d1, d2, r1, r2, h, v

\* Both commands on one device, or each on its own.
MCOn == r1 :> {d1} @@ r2 :> {d1, d2}
MCAccess == h :> {TRUE, FALSE} @@ v :> {TRUE}
MCMaxMaps == h :> 1 @@ v :> 0
===========================================================================
