-------------------------- MODULE MCXrpProgress --------------------------
(***************************************************************************)
(* No wakeup is lost, on either side of the ioctl: the native queue runs   *)
(* by itself (part "queue"), or the link does with nothing that fails      *)
(* (part "link").  The parts share a run and no state: each stutters while *)
(* the other moves.                                                        *)
(***************************************************************************)
EXTENDS XrpNativeQueue

CONSTANT Callers      \* the ioctl calls of the link

VARIABLES part, word, area, resp, hpc, owner, off, completion, pm, rq, ret, got, mem,
          dpc, dcur, dout, stall, synced, devIrq, hostIrq, handled, hsIrq

Link == INSTANCE XrpLink WITH
  Requests <- Callers, ran <- handled,
  HostIrq <- "edge", DevIrq <- "level", SharedIrq <- FALSE, MaxCompletions <- 0,
  CanHalt <- TRUE, HasFirmware <- TRUE, FirmwareReboot <- {TRUE},
  Timeouts <- FALSE, Signals <- FALSE, HostFaults <- FALSE,
  Outcomes <- {"ok", "fail", "nons"}, ExitOnFailure <- FALSE

linkVars == <<word, area, resp, hpc, owner, off, completion, pm, rq, ret, got, mem,
              dpc, dcur, dout, stall, synced, devIrq, hostIrq, handled, hsIrq>>

ProgressInit == part \in {"link", "queue"} /\ Init /\ Link!Init

ProgressNext ==
  \/ part = "link" /\ Link!Next /\ UNCHANGED <<part, vars>>
  \/ part = "queue" /\ Next /\ UNCHANGED <<part, linkVars>>

\* The fairness of XrpLink and of XrpNativeQueue; no deadline passes.
LinkFairness ==
  /\ WF_linkVars(part = "link" /\ Link!HostStep)
  /\ WF_linkVars(part = "link" /\ Link!HostIsr)
  /\ WF_linkVars(part = "link" /\ Link!DspStep)
  /\ \A r \in Callers :
       /\ WF_linkVars(part = "link" /\ Link!Lock(r))
       /\ WF_linkVars(part = "link" /\ Link!Unmap(r))

QueueFairness ==
  /\ WF_vars(part = "queue" /\ WorkerStep)
  /\ \A t \in Threads : WF_vars(part = "queue" /\ ReleaseStep(t))

ProgressSpec ==
  /\ ProgressInit /\ [][ProgressNext]_<<part, vars, linkVars>>
  /\ LinkFairness /\ QueueFairness

----------------------------------------------------------------------------
\* A synchronization that succeeds in IRQ mode has received the DSP's IRQ, as
\* long as no deadline or foreign interrupt leaves a completion behind
\* (xrp_synchronize waits for the completion; README:406).
IrqTested == Link!IrqTested

\* No wakeup is lost: if the deadlines do not pass, every command is taken
\* up by a DSP that may be about to wait for an IRQ, and its completion wakes
\* the host (KickDsp / xrp_hw_wait_device_irq, NotifyHost / xvp_complete_cmd_irq).
EveryCommandIsAnswered == Link!EveryCommandIsAnswered
==========================================================================
