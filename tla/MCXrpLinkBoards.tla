-------------------------- MODULE MCXrpLinkBoards --------------------------
(***************************************************************************)
(* XrpLink on four boards: two on which the driver loads the firmware and  *)
(* IRQs are edges (XrpLinkLoaded, with the constants of the configuration),*)
(* one with firmware in place and IRQ levels, and a generic one that the   *)
(* host can neither halt nor interrupt.                                    *)
(***************************************************************************)
EXTENDS XrpLinkLoaded, TLC

Preloaded == INSTANCE XrpLink WITH
  HostIrq <- "level", DevIrq <- "level", SharedIrq <- TRUE, MaxCompletions <- 2,
  HasFirmware <- FALSE, Outcomes <- {"ok", "fail", "nons"}

Generic == INSTANCE XrpLink WITH
  HostIrq <- "none", DevIrq <- "none", SharedIrq <- FALSE, MaxCompletions <- 0,
  CanHalt <- FALSE, HasFirmware <- FALSE, ExitOnFailure <- FALSE, Outcomes <- {"ok", "fail", "nons"}

BoardsInit ==
  \/ LoadedInit
  \/ board = "preloaded" /\ Preloaded!Init
  \/ board = "generic" /\ Generic!Init

BoardsNext ==
  \/ LoadedNext
  \/ board = "preloaded" /\ Preloaded!Next /\ WithinBounds /\ UNCHANGED board
  \/ board = "generic" /\ Generic!Next /\ WithinBounds /\ UNCHANGED board

BoardsSpec == BoardsInit /\ [][BoardsNext]_<<board, vars>>

MCMaxCalls == "loaded" :> 3 @@ "shared" :> 2 @@ "preloaded" :> 2 @@ "generic" :> 3

RequestSymmetry == Permutations(Requests)

----------------------------------------------------------------------------
\* LinkInv of XrpLink, for the constants of each board: the host's step
\* determines what the DSP may be doing, nobody writes the area under the
\* other's feet, and a call leaves xrp_ioctl_submit_sync with its command
\* answered, reset away or leaked.
LinkInvOnBoards ==
  /\ board \in {"loaded", "shared"} => LinkInv
  /\ board = "preloaded" => Preloaded!LinkInv
  /\ board = "generic" => Generic!LinkInv
=============================================================================
