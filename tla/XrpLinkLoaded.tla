--------------------------- MODULE XrpLinkLoaded ---------------------------
(***************************************************************************)
(* XrpLink on the boards whose firmware the driver loads: one alone on its *)
(* IRQ line ("loaded") and one that shares it ("shared").                  *)
(***************************************************************************)
EXTENDS XrpLink, FiniteSets

CONSTANT MaxCalls     \* bound on the calls made on each kind of board

VARIABLE board

LoadedInit == board \in {"loaded", "shared"} /\ Init

WithinBounds == Cardinality({r \in Requests : rq'[r] # "new"}) <= MaxCalls[board]

LoadedNext ==
  \/ board = "loaded" /\ Next /\ ~ForeignIsr /\ WithinBounds /\ UNCHANGED board
  \/ board = "shared" /\ Next /\ WithinBounds /\ UNCHANGED board

LoadedSpec == LoadedInit /\ [][LoadedNext]_<<board, vars>>

----------------------------------------------------------------------------
\* Where the driver loads the firmware, and so clears the word before it
\* releases the DSP (xrp_boot_firmware), a handler runs at most once for a
\* request, also across reboots.
LoadedRunsOnce == board \in {"loaded", "shared"} => RunsOnce

\* There the first thing a DSP takes from the area after a reset is the
\* handshake, never a command left there from before (README:319).
LoadedSyncsFirst == board \in {"loaded", "shared"} => SyncFirst
============================================================================
