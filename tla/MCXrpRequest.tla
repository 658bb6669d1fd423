---------------------------- MODULE MCXrpRequest ----------------------------
(***************************************************************************)
(* What becomes of a command: the way of its memory (part "memory",        *)
(* XrpRequest), and the choice of its handler (part "handler", XrpCmdNs).  *)
(* The parts share a run and no state.                                     *)
(*                                                                         *)
(* Pages 1..6 and 7..9 are two windows of the DSP that are neighbours in   *)
(* host memory and not in the DSP's; the free pool is 10..12, a third      *)
(* window; pages from 13 on cannot be reached.                             *)
(***************************************************************************)
EXTENDS XrpRequest, XrpCmdNs

MCFrames == 1..16
MCPool == 10..12
MCAddressMap == <<[src |-> 1, dst |-> 31, size |-> 6], [src |-> 7, dst |-> 51, size |-> 3],
                  [src |-> 10, dst |-> 1, size |-> 3]>>
MCKernelFrames == {9, 16}

\* Large data alone, one buffer with inline descriptors, two with others.
MCInputs == {<<TRUE, TRUE, 0>>, <<FALSE, TRUE, 1>>, <<TRUE, FALSE, 1>>, <<FALSE, FALSE, 2>>}

Layout(kind, frames) == [kind |-> kind, frames |-> frames, size |-> Len(frames)]
Hole == Layout("none", <<15>>)

\* A buffer of two pages: contiguous, in the wrong order, across the border
\* of two windows, out of reach; and one of one page.
MCLayouts ==
  [b \in In..(NBuffers + 1) |->
     CASE b = In -> {Layout("anon", <<1>>), Hole}
       [] b = Out -> {Layout("anon", <<2>>), Layout("anon", <<13>>)}
       [] b = 1 -> {Layout("own", <<3, 4>>), Layout("io", <<6, 7>>), Layout("other", <<6, 7>>),
                    Layout("other", <<3, 4>>), Layout("anon", <<3, 4>>), Layout("multi", <<4, 3>>)}
       [] OTHER -> {Layout("anon", <<5>>)}]

----------------------------------------------------------------------------
CONSTANTS h1, h2

VARIABLE part

ASSUME TableAssumption

CommandsInit == part \in {"memory", "handler"} /\ Init /\ TableInit

CommandsNext ==
  \/ part = "memory" /\ Next /\ UNCHANGED <<part, tablevars>>
  \/ part = "handler" /\ TableNext /\ UNCHANGED <<part, vars>>

CommandsSpec == CommandsInit /\ [][CommandsNext]_<<part, vars, tablevars>>
=============================================================================
