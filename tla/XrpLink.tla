----------------------------- MODULE XrpLink -----------------------------
(***************************************************************************)
(* The link between the host driver and one DSP: the communication area,   *)
(* the boot handshake, the exchange of commands, the IRQ lines, timeouts,  *)
(* the reboot after a timeout and runtime power management.                *)
(*                                                                         *)
(*   host   xrp-kernel/xvp_main.c, xrp-kernel/xrp_hw_simple.c              *)
(*   DSP    xrp-dsp/xrp_dsp.c, xrp_dsp_hw_simple.c, xrp_dsp_framework.c    *)
(*                                                                         *)
(* A member of Requests is one call of xrp_ioctl_submit_sync, made by a    *)
(* thread of its own.  Everything the driver does to the communication     *)
(* area happens under comm_lock, so one program counter (hpc) and the      *)
(* holder of the lock (owner) stand for the host.  The DSP has a program   *)
(* counter of its own (dpc) and keeps running while the host is anywhere.  *)
(* A step is at most one access to the shared word.                        *)
(*                                                                         *)
(* Data is abstracted to whose it is: area is the request whose            *)
(* description is in the communication area, resp the request whose        *)
(* response is there.                                                      *)
(***************************************************************************)
EXTENDS XrpDspInterface

CONSTANTS
  Requests,        \* the ioctl calls, each made once
  HostIrq,         \* host_irq_mode: how the DSP notifies the host
  DevIrq,          \* device_irq_mode: how the host notifies the DSP
  SharedIrq,       \* another device on the host's (IRQF_SHARED) line raises it
  MaxCompletions,  \* bound on the completions a foreign interrupt piles up
  CanHalt,         \* hw_ops has halt, reset and release (xrp_hw_simple has)
  HasFirmware,     \* the device has a firmware-name property
  FirmwareReboot,  \* the values of the module parameter firmware_reboot
  Timeouts,        \* firmware_command_timeout may expire
  Signals,         \* a signal may interrupt the waiting thread
  HostFaults,      \* request_firmware and kmalloc may fail
  Outcomes,        \* what processing a command may come to on the DSP
  ExitOnFailure    \* run_command_loop of the framework (not of dsp_main.c)

\* What process_command may come to: the handler succeeds, it fails, there
\* is no handler for the namespace, there is no memory for the buffers.
AllOutcomes == {"ok", "fail", "nons", "nomem"}

\* xrp_hw_simple has all the registers, the generic hw_ops has none, and a
\* host without them can neither send nor receive an IRQ.
ASSUME ConfigAssumption ==
  /\ HostIrq \in IrqModes /\ DevIrq \in IrqModes
  /\ \A b \in {SharedIrq, CanHalt, HasFirmware, Timeouts, Signals, HostFaults,
               ExitOnFailure} : b \in BOOLEAN
  /\ FirmwareReboot \subseteq BOOLEAN /\ FirmwareReboot # {}
  /\ MaxCompletions \in Nat
  /\ Outcomes \subseteq AllOutcomes
  /\ ~CanHalt => HostIrq = "none" /\ DevIrq = "none"

\* The other contents of the area, and the other holder of the lock.
Nothing == "nothing"
SyncData == "hw_sync_data"
Pm == "xrp_runtime_resume"

ASSUME RequestsAssumption == {Nothing, SyncData, Pm} \cap Requests = {}

VARIABLES
  word,        \* flags / sync, the first word of the communication area
  area,        \* whose description the rest of the area holds
  resp,        \* whose response (out_data) the area holds
  hpc,         \* where the holder of comm_lock is, "free" without one
  owner,       \* on whose behalf comm_lock is held
  off,         \* xvp->off
  completion,  \* xvp->completion.done
  pm,          \* runtime PM status of the device
  rq,          \* where each ioctl call is
  ret,         \* what it returns
  got,         \* whose response it has copied back
  mem,         \* its mapped buffers
  dpc,         \* where the DSP is
  dcur,        \* the request whose description the DSP has read
  dout,        \* what processing it has come to
  stall,       \* runstall
  synced,      \* xrp_hw_set_sync_data has been called since reset
  devIrq,      \* the IRQ to the DSP is pending
  hostIrq,     \* the IRQ to the host is pending
  ran,         \* history: times the handler ran for a request (2: or more)
  hsIrq        \* history: the DSP has sent its IRQ in this handshake

comm == <<word, area, resp>>
host == <<hpc, owner, off, completion, pm>>
calls == <<rq, ret, got, mem>>
dsp == <<dpc, dcur, dout, stall, synced>>
irqs == <<devIrq, hostIrq>>
hist == <<ran, hsIrq>>
vars == <<word, area, resp, hpc, owner, off, completion, pm, rq, ret, got, mem,
          dpc, dcur, dout, stall, synced, devIrq, hostIrq, ran, hsIrq>>

SubmitPcs == {"fill", "flags", "kick", "wait", "complete"}
BootPcs == {"halt", "firmware", "release", "start"}
SyncPcs == {"ready", "data", "host", "ack", "synckick", "syncwait", "ok", "err", "off"}
HandshakePcs == {"hs_start", "hs_write", "hs_ready", "hs_data", "hs_ack", "hs_wait",
                 "hs_isr", "hs_irq"}
CommandPcs == {"proc", "run", "done", "irq"}
DspPcs == {"dispatch", "wait", "isr", "exit"} \cup HandshakePcs \cup CommandPcs
Returns == {"none", "ok", "enxio", "enodev", "ebusy", "eintr", "error"}

TypeOK ==
  /\ word \in Words
  /\ area \in Requests \cup {Nothing, SyncData}
  /\ resp \in Requests \cup {Nothing, SyncData}
  /\ hpc \in {"free"} \cup SubmitPcs \cup BootPcs \cup SyncPcs
  /\ owner \in Requests \cup {Nothing, Pm}
  /\ off \in BOOLEAN
  /\ completion \in Nat
  /\ pm \in {"suspended", "resuming", "active", "error"}
  /\ rq \in [Requests -> {"new", "mapped", "locked", "unmap", "done"}]
  /\ ret \in [Requests -> Returns]
  /\ got \in [Requests -> Requests \cup {Nothing, SyncData}]
  /\ mem \in [Requests -> {"none", "mapped", "unmapped", "leaked"}]
  /\ dpc \in DspPcs
  /\ dcur \in Requests \cup {Nothing, SyncData}
  /\ dout \in AllOutcomes
  /\ stall \in BOOLEAN
  /\ synced \in BOOLEAN
  /\ devIrq \in BOOLEAN
  /\ hostIrq \in BOOLEAN
  /\ ran \in [Requests -> 0..2]
  /\ hsIrq \in BOOLEAN

\* The device has been probed and nobody has opened it yet.  A DSP that
\* cannot be halted is already polling the area.
Init ==
  /\ word = XRP_DSP_SYNC_IDLE /\ area = Nothing /\ resp = Nothing
  /\ hpc = "free" /\ owner = Nothing /\ off = FALSE /\ completion = 0
  /\ pm = "suspended"
  /\ rq = [r \in Requests |-> "new"]
  /\ ret = [r \in Requests |-> "none"]
  /\ got = [r \in Requests |-> Nothing]
  /\ mem = [r \in Requests |-> "none"]
  /\ dpc = "dispatch" /\ dcur = Nothing /\ dout = "ok"
  /\ stall = CanHalt /\ synced = FALSE
  /\ devIrq = FALSE /\ hostIrq = FALSE
  /\ ran = [r \in Requests |-> 0] /\ hsIrq = FALSE

----------------------------------------------------------------------------
(* The driver: a call of xrp_ioctl_submit_sync.                            *)

HostAt(from, to) == hpc = from /\ hpc' = to

\* xrp_send_device_irq: the line is raised in either IRQ mode.
xrp_send_device_irq == devIrq' = (devIrq \/ DevIrq # "none")

\* mutex_unlock, then the caller goes on to unmap its request, unless the
\* DSP went off, in which case its buffers are leaked.
Unlock(res, went_off) ==
  /\ hpc' = "free" /\ owner' = Nothing
  /\ ret' = [ret EXCEPT ![owner] = res]
  /\ rq' = [rq EXCEPT ![owner] = IF went_off THEN "done" ELSE "unmap"]
  /\ mem' = [mem EXCEPT ![owner] = IF went_off THEN "leaked" ELSE @]

\* xrp_map_request has succeeded.
Map(r) ==
  /\ pm = "active" /\ rq[r] = "new"
  /\ rq' = [rq EXCEPT ![r] = "mapped"]
  /\ mem' = [mem EXCEPT ![r] = "mapped"]
  /\ UNCHANGED <<comm, host, ret, got, dsp, irqs, hist>>

\* mutex_lock(&xvp->comm_lock), and the test of xvp->off under it.
Lock(r) ==
  /\ rq[r] = "mapped" /\ hpc = "free"
  /\ \/ /\ off
        /\ rq' = [rq EXCEPT ![r] = "unmap"]
        /\ ret' = [ret EXCEPT ![r] = "enodev"]
        /\ UNCHANGED <<hpc, owner>>
     \/ /\ ~off
        /\ rq' = [rq EXCEPT ![r] = "locked"]
        /\ hpc' = "fill" /\ owner' = r
        /\ UNCHANGED ret
  /\ UNCHANGED <<comm, off, completion, pm, got, mem, dsp, irqs, hist>>

\* xrp_fill_hw_request, up to the write barrier.
FillArea ==
  /\ HostAt("fill", "flags")
  /\ area' = owner
  /\ UNCHANGED <<word, resp, owner, off, completion, pm, calls, dsp, irqs, hist>>

\* xrp_fill_hw_request, the flags.
FillFlags ==
  /\ HostAt("flags", "kick")
  /\ word' = RequestFlags
  /\ UNCHANGED <<area, resp, owner, off, completion, pm, calls, dsp, irqs, hist>>

\* A mistake: the DSP is left to find the request by itself.
KickDspNoIrq ==
  /\ HostAt("kick", "wait")
  /\ UNCHANGED <<comm, owner, off, completion, pm, calls, dsp, irqs, hist>>

KickDsp ==
  /\ HostAt("kick", "wait")
  /\ xrp_send_device_irq
  /\ UNCHANGED <<comm, owner, off, completion, pm, calls, dsp, hostIrq, hist>>

\* A mistake: the flags are looked at before the first wait.
CommandCompleteAtOnce ==
  /\ HostAt("wait", "complete")
  /\ xrp_cmd_complete(word)
  /\ \/ UNCHANGED completion
     \/ HostIrq # "none" /\ completion > 0 /\ completion' = completion - 1
  /\ UNCHANGED <<comm, owner, off, pm, calls, dsp, irqs, hist>>

\* The wait ends with the command complete: at a poll, at a completion, or
\* because the last look at the flags after a timeout or a signal finds it so.
CommandComplete ==
  /\ HostAt("wait", "complete")
  /\ xrp_cmd_complete(word)
  /\ \/ HostIrq = "none" /\ UNCHANGED completion
     \/ HostIrq # "none" /\ completion > 0 /\ completion' = completion - 1
     \/ HostIrq # "none" /\ (Timeouts \/ Signals) /\ UNCHANGED completion
  /\ UNCHANGED <<comm, owner, off, pm, calls, dsp, irqs, hist>>

\* xvp_complete_cmd_irq: a completion that was not for this command.
StaleCompletion ==
  /\ hpc = "wait" /\ HostIrq # "none" /\ completion > 0
  /\ ~xrp_cmd_complete(word)
  /\ completion' = completion - 1
  /\ UNCHANGED <<comm, hpc, owner, off, pm, calls, dsp, irqs, hist>>

\* A mistake: the firmware is not restarted before the memory is unmapped.
CommandTimeoutNoReboot ==
  /\ hpc = "wait" /\ Timeouts
  /\ HostIrq # "none" => ~xrp_cmd_complete(word)
  /\ Unlock("ebusy", FALSE)
  /\ UNCHANGED <<comm, off, completion, pm, got, dsp, irqs, hist>>

\* A mistake: only the polling loop has a deadline.
CommandTimeoutPolling ==
  /\ hpc = "wait" /\ Timeouts /\ HostIrq = "none"
  /\ \/ /\ TRUE \in FirmwareReboot
        /\ hpc' = "halt"
        /\ UNCHANGED <<owner, rq, ret, mem>>
     \/ /\ FALSE \in FirmwareReboot
        /\ Unlock("ebusy", FALSE)
  /\ UNCHANGED <<comm, off, completion, pm, got, dsp, irqs, hist>>

\* -EBUSY.  In polling mode the command may complete after the last look.
CommandTimeout ==
  /\ hpc = "wait" /\ Timeouts
  /\ HostIrq # "none" => ~xrp_cmd_complete(word)
  /\ \/ /\ TRUE \in FirmwareReboot
        /\ hpc' = "halt"
        /\ UNCHANGED <<owner, rq, ret, mem>>
     \/ /\ FALSE \in FirmwareReboot
        /\ Unlock("ebusy", FALSE)
  /\ UNCHANGED <<comm, off, completion, pm, got, dsp, irqs, hist>>

\* -ERESTARTSYS from wait_for_completion_interruptible_timeout.
Interrupted ==
  /\ hpc = "wait" /\ Signals /\ HostIrq # "none"
  /\ ~xrp_cmd_complete(word)
  /\ Unlock("eintr", FALSE)
  /\ UNCHANGED <<comm, off, completion, pm, got, dsp, irqs, hist>>

\* xrp_complete_hw_request
CopyBack ==
  /\ hpc = "complete"
  /\ got' = [got EXCEPT ![owner] = resp]
  /\ Unlock(IF DeliveryFailed(word) THEN "enxio" ELSE "ok", FALSE)
  /\ UNCHANGED <<comm, off, completion, pm, dsp, irqs, hist>>

\* xrp_unmap_request or xrp_unmap_request_nowb, outside the lock.
Unmap(r) ==
  /\ rq[r] = "unmap"
  /\ rq' = [rq EXCEPT ![r] = "done"]
  /\ mem' = [mem EXCEPT ![r] = "unmapped"]
  /\ UNCHANGED <<comm, host, ret, got, dsp, irqs, hist>>

----------------------------------------------------------------------------
(* The driver: xrp_boot_firmware and xrp_synchronize, for a resume or for  *)
(* the reboot after a timeout.                                             *)

\* xrp_boot_firmware returns 0: the timed out command still fails.
BootSucceeds ==
  \/ /\ owner = Pm
     /\ hpc' = "free" /\ owner' = Nothing /\ pm' = "active"
     /\ UNCHANGED <<rq, ret, mem>>
  \/ /\ owner # Pm
     /\ Unlock("ebusy", FALSE)
     /\ UNCHANGED pm

\* It returns an error; went_off is xvp->off at that point.  The PM core does
\* not resume a device again once its resume has failed.
BootFails(went_off) ==
  \/ /\ owner = Pm
     /\ hpc' = "free" /\ owner' = Nothing /\ pm' = "error"
     /\ UNCHANGED <<rq, ret, mem>>
  \/ /\ owner # Pm
     /\ Unlock("error", went_off)
     /\ UNCHANGED pm

\* pm_runtime_get_sync of xvp_open finds the device suspended.
RuntimeResume ==
  /\ pm = "suspended" /\ hpc = "free"
  /\ \/ off /\ pm' = "active" /\ UNCHANGED <<hpc, owner>>
     \/ ~off /\ pm' = "resuming" /\ hpc' = "halt" /\ owner' = Pm
  /\ UNCHANGED <<comm, off, completion, calls, dsp, irqs, hist>>

\* The last file is closed: no ioctl is in progress.
RuntimeSuspend ==
  /\ pm = "active"
  /\ \A r \in Requests : rq[r] \in {"new", "done"}
  /\ pm' = "suspended"
  /\ stall' = (stall \/ CanHalt)
  /\ UNCHANGED <<comm, hpc, owner, off, completion, calls, dpc, dcur, dout, synced,
                 irqs, hist>>

\* xrp_halt_dsp and xrp_reset_dsp.  Whether the pending IRQ survives a reset
\* of the core is up to the interrupt controller.
HaltReset ==
  /\ HostAt("halt", IF HasFirmware THEN "firmware" ELSE "release")
  /\ \/ /\ CanHalt
        /\ stall' = TRUE /\ dpc' = "dispatch" /\ synced' = FALSE
        /\ devIrq' \in {devIrq, FALSE}
     \/ /\ ~CanHalt
        /\ UNCHANGED <<stall, dpc, synced, devIrq>>
  /\ UNCHANGED <<comm, owner, off, completion, pm, calls, dcur, dout, hostIrq, hist>>

\* A mistake: the word keeps the command that timed out.
LoadFirmwareNoIdle ==
  /\ HostAt("firmware", "release")
  /\ UNCHANGED <<comm, owner, off, completion, pm, calls, dsp, irqs, hist>>

\* xrp_request_firmware, then the write of SYNC_IDLE.
LoadFirmware ==
  /\ HostAt("firmware", "release")
  /\ word' = XRP_DSP_SYNC_IDLE
  /\ UNCHANGED <<area, resp, owner, off, completion, pm, calls, dsp, irqs, hist>>

\* xrp_request_firmware fails: the DSP stays halted, xvp->off is not set.
LoadFirmwareFails ==
  /\ hpc = "firmware" /\ HostFaults
  /\ BootFails(off)
  /\ UNCHANGED <<comm, off, completion, got, dsp, irqs, hist>>

Release ==
  /\ HostAt("release", "start")
  /\ stall' = FALSE
  /\ UNCHANGED <<comm, owner, off, completion, pm, calls, dpc, dcur, dout, synced, irqs,
                 hist>>

SyncStart ==
  /\ HostAt("start", "ready")
  /\ word' = XRP_DSP_SYNC_START
  /\ hsIrq' = FALSE
  /\ UNCHANGED <<area, resp, owner, off, completion, pm, calls, dsp, irqs, ran>>

\* get_hw_sync_data has no memory.
SyncStartFails ==
  /\ HostAt("start", "err") /\ HostFaults
  /\ UNCHANGED <<comm, owner, off, completion, pm, calls, dsp, irqs, hist>>

\* A mistake: v is not tested after the loop.
SyncReadyUnchecked ==
  /\ HostAt("ready", "data")
  /\ UNCHANGED <<comm, owner, off, completion, pm, calls, dsp, irqs, hist>>

SyncReady ==
  /\ HostAt("ready", "data")
  /\ word = XRP_DSP_SYNC_DSP_READY
  /\ UNCHANGED <<comm, owner, off, completion, pm, calls, dsp, irqs, hist>>

WriteSyncData ==
  /\ HostAt("data", "host")
  /\ area' = SyncData
  /\ UNCHANGED <<word, resp, owner, off, completion, pm, calls, dsp, irqs, hist>>

SyncHostToDsp ==
  /\ HostAt("host", "ack")
  /\ word' = XRP_DSP_SYNC_HOST_TO_DSP
  /\ UNCHANGED <<area, resp, owner, off, completion, pm, calls, dsp, irqs, hist>>

SyncAck ==
  /\ HostAt("ack", "synckick")
  /\ word = XRP_DSP_SYNC_DSP_TO_HOST
  /\ UNCHANGED <<comm, owner, off, completion, pm, calls, dsp, irqs, hist>>

SyncKick ==
  /\ HostAt("synckick", IF HostIrq = "none" THEN "ok" ELSE "syncwait")
  /\ xrp_send_device_irq
  /\ UNCHANGED <<comm, owner, off, completion, pm, calls, dsp, hostIrq, hist>>

\* wait_for_completion_timeout returns before the timeout.
SyncIrqReceived ==
  /\ HostAt("syncwait", "ok")
  /\ completion > 0 /\ completion' = completion - 1
  /\ UNCHANGED <<comm, owner, off, pm, calls, dsp, irqs, hist>>

\* The deadline passes in either polling loop or in the wait for the IRQ.
SyncTimeout ==
  /\ Timeouts /\ hpc \in {"ready", "ack", "syncwait"}
  /\ hpc = "syncwait" => completion = 0
  /\ hpc' = "err"
  /\ UNCHANGED <<comm, owner, off, completion, pm, calls, dsp, irqs, hist>>

SyncOk ==
  /\ hpc = "ok"
  /\ word' = XRP_DSP_SYNC_IDLE
  /\ BootSucceeds
  /\ UNCHANGED <<area, resp, off, completion, got, dsp, irqs, hist>>

SyncErr ==
  /\ HostAt("err", "off")
  /\ word' = XRP_DSP_SYNC_IDLE
  /\ UNCHANGED <<area, resp, owner, off, completion, pm, calls, dsp, irqs, hist>>

\* xrp_boot_firmware after a failed xrp_synchronize.
GoOff ==
  /\ hpc = "off"
  /\ off' = TRUE
  /\ stall' = (stall \/ CanHalt)
  /\ BootFails(TRUE)
  /\ UNCHANGED <<comm, completion, got, dpc, dcur, dout, synced, irqs, hist>>

----------------------------------------------------------------------------
(* The driver: the interrupt handler.                                      *)

\* irq_handler of xrp_hw_simple around xrp_irq_handler.  A handled IRQ is
\* acknowledged; an edge that is not handled is gone all the same.
HostIsr ==
  /\ hostIrq
  /\ \/ xrp_cmd_complete(word) /\ completion' = completion + 1 /\ hostIrq' = FALSE
     \/ ~xrp_cmd_complete(word) /\ HostIrq = "edge" /\ hostIrq' = FALSE
        /\ UNCHANGED completion
  /\ UNCHANGED <<comm, hpc, owner, off, pm, calls, dsp, devIrq, hist>>

\* The same handler, called for the IRQ of another device on the line.
ForeignIsr ==
  /\ SharedIrq /\ HostIrq # "none" /\ completion < MaxCompletions
  /\ xrp_cmd_complete(word)
  /\ completion' = completion + 1
  /\ hostIrq' = (hostIrq /\ HostIrq # "level")
  /\ UNCHANGED <<comm, hpc, owner, off, pm, calls, dsp, devIrq, hist>>

----------------------------------------------------------------------------
(* The DSP.                                                                *)

DspAt(from, to) == ~stall /\ dpc = from /\ dpc' = to

\* device_irq_mode as the DSP knows it, XRP_IRQ_NONE until synchronized.
DspWaits == synced /\ DevIrq # "none"

\* xrp_hw_send_host_irq
xrp_hw_send_host_irq == hostIrq' = (hostIrq \/ (synced /\ HostIrq # "none"))

\* xrp_device_dispatch reads the flags; on XRP_STATUS_PENDING the loop waits
\* for an IRQ, which without one means looking again.
Dispatch ==
  /\ \/ xrp_request_valid(word) /\ word = XRP_DSP_SYNC_START /\ DspAt("dispatch", "hs_start")
     \/ xrp_request_valid(word) /\ word # XRP_DSP_SYNC_START /\ DspAt("dispatch", "proc")
     \/ ~xrp_request_valid(word) /\ DspWaits /\ DspAt("dispatch", "wait")
  /\ UNCHANGED <<comm, host, calls, dcur, dout, stall, synced, irqs, hist>>

\* xrp_hw_wait_device_irq: WAITI returns for an IRQ raised before or after it.
TakeIrq ==
  /\ devIrq
  /\ \/ DspAt("wait", "isr")
     \/ DspAt("hs_wait", "hs_isr")
  /\ UNCHANGED <<comm, host, calls, dcur, dout, stall, synced, irqs, hist>>

\* The DSP's xrp_irq_handler clears the IRQ.
ClearIrq ==
  /\ devIrq' = FALSE
  /\ \/ DspAt("isr", "dispatch")
     \/ DspAt("hs_isr", "hs_irq")
  /\ UNCHANGED <<comm, host, calls, dcur, dout, stall, synced, hostIrq, hist>>

\* do_handshake: the first loop.
HandshakeStart ==
  /\ DspAt("hs_start", "hs_write")
  /\ word = XRP_DSP_SYNC_START
  /\ UNCHANGED <<comm, host, calls, dcur, dout, stall, synced, irqs, hist>>

HandshakeReady ==
  /\ DspAt("hs_write", "hs_ready")
  /\ word' = XRP_DSP_SYNC_DSP_READY
  /\ UNCHANGED <<area, resp, host, calls, dcur, dout, stall, synced, irqs, hist>>

\* do_handshake: the second loop, which gives up when the host does.
HandshakePoll ==
  /\ \/ word = XRP_DSP_SYNC_HOST_TO_DSP /\ DspAt("hs_ready", "hs_data")
     \/ word \notin {XRP_DSP_SYNC_HOST_TO_DSP, XRP_DSP_SYNC_DSP_READY}
        /\ DspAt("hs_ready", "dispatch")
  /\ UNCHANGED <<comm, host, calls, dcur, dout, stall, synced, irqs, hist>>

\* xrp_hw_set_sync_data
SetSyncData ==
  /\ DspAt("hs_data", "hs_ack")
  /\ synced' = TRUE
  /\ UNCHANGED <<comm, host, calls, dcur, dout, stall, irqs, hist>>

HandshakeAck ==
  /\ DspAt("hs_ack", IF DspWaits THEN "hs_wait" ELSE "hs_irq")
  /\ word' = XRP_DSP_SYNC_DSP_TO_HOST
  /\ UNCHANGED <<area, resp, host, calls, dcur, dout, stall, synced, irqs, hist>>

HandshakeIrq ==
  /\ DspAt("hs_irq", "dispatch")
  /\ xrp_hw_send_host_irq
  /\ hsIrq' = TRUE
  /\ UNCHANGED <<comm, host, calls, dcur, dout, stall, synced, devIrq, ran>>

\* process_command reads the description of the request from the area.
ReadRequest ==
  /\ DspAt("proc", "run")
  /\ dcur' = area
  /\ UNCHANGED <<comm, host, calls, dout, stall, synced, irqs, hist>>

\* process_command from there to complete_request.  Only a handler that
\* succeeds leaves a response in out_data.
RunCommand(outcome) ==
  /\ DspAt("run", "done")
  /\ dout' = outcome
  /\ resp' = IF outcome = "ok" THEN dcur ELSE resp
  /\ ran' = IF outcome \in {"ok", "fail"}
            THEN [ran EXCEPT ![dcur] = IF @ = 0 THEN 1 ELSE 2] ELSE ran
  /\ UNCHANGED <<word, area, host, calls, dcur, stall, synced, irqs, hsIrq>>

\* A mistake: the response flags are assigned, not added to the request's.
CommandFlagsAssigned ==
  XRP_DSP_CMD_FLAG_RESPONSE_VALID
    + (IF dout \in {"fail", "nons"} THEN XRP_DSP_CMD_FLAG_RESPONSE_DELIVERY_FAIL ELSE 0)

\* The flags process_command hands to complete_request: "nomem" jumps to out
\* without setting DELIVERY_FAIL.
CommandFlags == ResponseFlags(dout \in {"fail", "nons"})

\* complete_request writes the flags back.
CompleteRequest ==
  /\ DspAt("done", "irq")
  /\ word' = CommandFlags
  /\ UNCHANGED <<area, resp, host, calls, dcur, dout, stall, synced, irqs, hist>>

\* complete_request notifies the host; the framework's loop, and with it
\* main, ends when xrp_device_dispatch returns a failure.
NotifyHost ==
  /\ DspAt("irq", IF ExitOnFailure /\ dout # "ok" THEN "exit" ELSE "dispatch")
  /\ xrp_hw_send_host_irq
  /\ UNCHANGED <<comm, host, calls, dcur, dout, stall, synced, devIrq, hist>>

----------------------------------------------------------------------------
HostStep ==
  \/ FillArea \/ FillFlags \/ KickDsp \/ CommandComplete \/ CopyBack
  \/ HaltReset \/ LoadFirmware \/ Release
  \/ SyncStart \/ SyncReady \/ WriteSyncData \/ SyncHostToDsp \/ SyncAck \/ SyncKick
  \/ SyncIrqReceived \/ SyncOk \/ SyncErr \/ GoOff

HostEnvironment ==
  \/ StaleCompletion \/ Interrupted \/ LoadFirmwareFails \/ SyncStartFails
  \/ RuntimeResume \/ RuntimeSuspend \/ ForeignIsr

Deadline == CommandTimeout \/ SyncTimeout

DspStep ==
  \/ Dispatch \/ TakeIrq \/ ClearIrq
  \/ HandshakeStart \/ HandshakeReady \/ HandshakePoll \/ SetSyncData \/ HandshakeAck
  \/ HandshakeIrq
  \/ ReadRequest \/ (\E outcome \in Outcomes : RunCommand(outcome))
  \/ CompleteRequest \/ NotifyHost

Next ==
  \/ \E r \in Requests : Map(r) \/ Lock(r) \/ Unmap(r)
  \/ HostStep \/ HostEnvironment \/ Deadline \/ HostIsr
  \/ DspStep

Spec == Init /\ [][Next]_vars

\* The kernel runs whoever can run, hands comm_lock on, delivers interrupts
\* and lets time pass; a DSP that is not stalled executes its program.
\* Callers, signals, faults and foreign interrupts are under no obligation.
Fairness ==
  /\ WF_vars(HostStep) /\ WF_vars(Deadline) /\ WF_vars(HostIsr) /\ WF_vars(DspStep)
  /\ \A r \in Requests : WF_vars(Lock(r)) /\ WF_vars(Unmap(r))

FairSpec == Spec /\ Fairness

----------------------------------------------------------------------------
(* What the link promises.                                                 *)

\* An ioctl that returns 0 hands its caller the response that the handler
\* computed for this very request, whatever timed out, was interrupted or
\* rebooted before (xrp_ioctl_submit_sync, process_command; xrp_api.h:313).
ResponseIsOwn == \A r \in Requests : ret[r] = "ok" => got[r] = r

\* While the handler of a request runs on the DSP its buffers are still
\* mapped, or leaked for good: xrp_ioctl_submit_sync has not given them back.
NoUseAfterUnmap ==
  \A r \in Requests : dpc = "run" /\ dcur = r => mem[r] \in {"mapped", "leaked"}

\* The handler runs at most once for a request, also across reboots
\* (xrp_boot_firmware clears the word before it releases the DSP).
RunsOnce == \A r \in Requests : ran[r] <= 1

\* The first thing a DSP takes from the area after a reset is the handshake,
\* never a command left there from before (xrp_boot_firmware; README:319).
SyncFirst == dpc \in CommandPcs => synced

\* The area has one user at a time: while xrp_fill_hw_request writes it, the
\* DSP is not inside process_command or do_handshake with a read or a write
\* of it to come; while xrp_synchronize writes hw_sync_data into it, the DSP
\* is in the loop that waits for that; and HOST_TO_DSP, which looks like a
\* request, is never dispatched as one.
ExclusiveArea ==
  /\ hpc \in {"fill", "flags"} =>
       dpc \in {"dispatch", "wait", "isr", "irq", "hs_wait", "hs_isr", "hs_irq", "exit"}
  /\ hpc \in {"data", "host"} => dpc = "hs_ready"
  /\ dpc = "hs_data" => area = SyncData
  /\ dpc = "proc" => area \in Requests

\* A synchronization that succeeds in IRQ mode has received the DSP's IRQ, as
\* long as no deadline or foreign interrupt leaves a completion behind
\* (xrp_synchronize waits for the completion; README:406).
IrqTested == hpc = "ok" /\ HostIrq # "none" => hsIrq

\* Every ioctl call returns: no holder of comm_lock waits forever, whatever
\* the DSP does, because the waits of xrp_synchronize and
\* xvp_complete_cmd_* have deadlines.
EveryCallReturns == \A r \in Requests : rq[r] = "mapped" ~> rq[r] = "done"

\* No wakeup is lost: if the deadlines do not pass, every command is taken
\* up by a DSP that may be about to wait for an IRQ, and its completion wakes
\* the host (KickDsp / xrp_hw_wait_device_irq, NotifyHost / xvp_complete_cmd_irq).
EveryCommandIsAnswered ==
  \A r \in Requests : rq[r] = "mapped" ~> ret[r] \in {"ok", "enxio"}

----------------------------------------------------------------------------
(* Why the promises hold: what the word, the area and the DSP may be while *)
(* the host is at each of its steps.                                       *)

\* The configurations the argument is about: a timeout reboots, no signal
\* ends a wait, malloc succeeds on the DSP, and firmware is loaded only into
\* a DSP that can be halted for it.
SafeConfig ==
  /\ FirmwareReboot = {TRUE} /\ ~Signals /\ "nomem" \notin Outcomes
  /\ HasFirmware => CanHalt

\* The DSP is past its last access to the rest of the area.
QuietPcs == {"dispatch", "wait", "isr", "irq", "hs_wait", "hs_isr", "hs_irq", "exit"}

CompleteWords == {ResponseFlags(FALSE), ResponseFlags(TRUE)}

\* The DSP is in process_command for r.
Working(r) == area = r /\ (dpc = "proc" \/ (dpc \in {"run", "done"} /\ dcur = r))

\* The command of r has been written and the DSP has or has not answered it.
Pending(r) ==
  \/ area = r /\ word = RequestFlags /\ (dpc \in QuietPcs \/ Working(r))
  \/ word \in CompleteWords /\ dpc \in QuietPcs /\ (~DeliveryFailed(word) => resp = r)

\* There is nothing in the area for the DSP, or the DSP is held in reset.
Idle ==
  \/ word \in {XRP_DSP_SYNC_IDLE} \cup CompleteWords /\ dpc \in QuietPcs
  \/ HasFirmware /\ stall /\ dpc = "dispatch"

Settled == Idle \/ (owner \in Requests /\ Pending(owner))

\* From the write of SYNC_START on.  Without a reset the DSP may still be
\* inside the command that timed out, and complete it.
Starting ==
  \/ word = XRP_DSP_SYNC_START
     /\ \/ dpc \in QuietPcs \cup {"hs_start", "hs_write"}
        \/ owner \in Requests /\ Working(owner)
  \/ word = XRP_DSP_SYNC_DSP_READY /\ dpc = "hs_ready"
  \/ word \in CompleteWords /\ dpc \in QuietPcs

\* From the write of HOST_TO_DSP on.
Acking ==
  /\ area = SyncData
  /\ \/ word = XRP_DSP_SYNC_HOST_TO_DSP /\ dpc \in {"hs_ready", "hs_data", "hs_ack"}
     \/ word = XRP_DSP_SYNC_DSP_TO_HOST /\ dpc \in QuietPcs

\* The host has given up on a DSP that may still be running.
GivenUp ==
  /\ word \in {XRP_DSP_SYNC_IDLE, XRP_DSP_SYNC_DSP_READY} \cup CompleteWords
  /\ dpc = "hs_data" => area = SyncData
  /\ dpc \in {"proc", "run", "done"} =>
       \E r \in Requests : Working(r) /\ (owner = r \/ mem[r] = "leaked")

\* A command about to be answered was allocated for and, if it succeeded, has
\* left its response.
AnswerReady == dpc = "done" => dout # "nomem" /\ (dout = "ok" => resp = dcur)

PhaseInv ==
  /\ hpc \in {"free", "fill", "flags"} /\ ~off => Idle
  /\ hpc = "flags" => area = owner
  /\ hpc \in {"kick", "wait", "complete"} => Pending(owner)
  /\ hpc = "complete" => word \in CompleteWords
  /\ hpc \in BootPcs => Settled
  /\ hpc = "firmware" => HasFirmware /\ stall /\ dpc = "dispatch"
  /\ hpc = "release" /\ HasFirmware => word = XRP_DSP_SYNC_IDLE
  /\ hpc = "start" => ~stall
  /\ hpc = "ready" => Starting
  /\ hpc \in {"data", "host"} => word = XRP_DSP_SYNC_DSP_READY /\ dpc = "hs_ready"
  /\ hpc = "host" => area = SyncData
  /\ hpc = "ack" => Acking
  /\ hpc \in {"synckick", "syncwait", "ok"} =>
       word = XRP_DSP_SYNC_DSP_TO_HOST /\ dpc \in QuietPcs
  /\ hpc = "err" => Settled \/ Starting \/ Acking
  /\ hpc = "off" \/ off => GivenUp
  /\ AnswerReady

\* comm_lock, and the life of a call.
CallInv ==
  /\ hpc = "free" <=> owner = Nothing
  /\ hpc # "free" => ~off
  /\ hpc \in SubmitPcs => owner \in Requests
  /\ owner = Pm <=> pm = "resuming"
  /\ pm = "suspended" => \A r \in Requests : rq[r] \in {"new", "done"}
  /\ \A r \in Requests :
       /\ rq[r] = "locked" <=> owner = r
       /\ rq[r] = "new" => mem[r] = "none"
       /\ rq[r] \in {"mapped", "locked", "unmap"} => mem[r] = "mapped"
       /\ rq[r] = "done" => mem[r] \in {"unmapped", "leaked"}
       /\ rq[r] \in {"new", "mapped", "locked"} <=> ret[r] = "none"

\* Where xrp_boot_firmware loads the firmware it resets the DSP and clears the
\* word before the release: a DSP that has not been synchronized since is
\* stalled or in the handshake that the host waits for, and finds no command.
RestartPcs == {"release", "start", "ready", "data", "host", "ack", "synckick", "syncwait",
               "ok", "err", "off"}

RestartInv ==
  /\ off => stall
  /\ ~synced => dpc \in {"dispatch", "hs_start", "hs_write", "hs_ready", "hs_data"}
  /\ ~synced /\ ~stall => hpc \in {"start", "ready", "data", "host", "ack", "err", "off"}
  /\ hpc \in {"firmware", "release", "start"} => ~synced /\ dpc = "dispatch"
  /\ hpc = "release" => stall
  /\ hpc = "start" => word = XRP_DSP_SYNC_IDLE
  /\ hpc \in RestartPcs =>
       /\ dpc \notin CommandPcs
       /\ dpc \notin {"hs_ready", "hs_data", "hs_ack"} => word # RequestFlags
  /\ hpc = "ack" /\ word = XRP_DSP_SYNC_DSP_TO_HOST => synced
  /\ hpc \in {"synckick", "syncwait", "ok"} => synced

\* There a command is run from the one time its flags are written.
OnceInv ==
  \A r \in Requests :
    /\ ran[r] <= 1
    /\ rq[r] \in {"new", "mapped"} => ran[r] = 0
    /\ owner = r /\ hpc \in {"fill", "flags"} => ran[r] = 0
    /\ owner = r /\ hpc \in {"kick", "wait", "halt"} /\ word = RequestFlags /\ dpc # "done"
         => ran[r] = 0

\* In a safe configuration the host's step determines what the DSP may be
\* doing: nobody writes the area under the other's feet, and a call leaves
\* xrp_ioctl_submit_sync with its command answered, reset away or leaked.
LinkInv ==
  SafeConfig => /\ PhaseInv /\ CallInv /\ ResponseIsOwn
                /\ HasFirmware => RestartInv /\ OnceInv

\* Where nothing but the DSP raises the host's IRQ and no deadline passes,
\* nobody stops waiting before its IRQ has come: at most one is on its way,
\* and none is while the host neither waits nor is about to.
IrqConfig == SafeConfig /\ ~Timeouts /\ ~SharedIrq /\ HostIrq # "none"

Silent == completion = 0 /\ ~hostIrq

OnItsWay == completion = 0 \/ (completion = 1 /\ ~hostIrq)

IrqInv ==
  /\ off => stall
  /\ owner \in Requests => hpc \in SubmitPcs
  /\ hpc \in {"kick", "wait"} =>
       \/ word = RequestFlags /\ Silent
          /\ dpc \in {"dispatch", "wait", "isr", "proc", "run", "done", "exit"}
       \/ word \in CompleteWords /\ Silent /\ dpc = "irq"
       \/ word \in CompleteWords /\ OnItsWay /\ dpc \in {"dispatch", "wait", "isr", "exit"}
  /\ hpc \in {"ack", "synckick", "syncwait"} =>
       \/ Silent /\ dpc \in {"hs_ready", "hs_data", "hs_ack", "hs_wait", "hs_isr", "hs_irq"}
       \/ OnItsWay /\ dpc \in {"dispatch", "wait", "isr"} /\ hsIrq
  /\ hpc \notin {"kick", "wait", "ack", "synckick", "syncwait"} /\ ~off =>
       Silent /\ dpc \notin {"proc", "run", "done", "irq", "hs_wait", "hs_isr", "hs_irq"}
  /\ hpc \in {"err", "off"} =>
       /\ word \in {XRP_DSP_SYNC_IDLE} \cup CompleteWords
       /\ dpc \in {"dispatch", "wait", "isr", "exit"}
  /\ hpc = "ok" => hsIrq

----------------------------------------------------------------------------
(* The link implements the exchange of commands.                           *)

CallStatus(r) ==
  CASE rq[r] = "new" -> "new"
    [] rq[r] # "new" /\ ret[r] = "none" -> "submitted"
    [] ret[r] = "ok" -> "ok"
    [] OTHER -> "failed"

MemoryStatus(r) ==
  CASE mem[r] = "mapped" -> "dsp" [] mem[r] = "leaked" -> "lost" [] OTHER -> "host"

Statuses == [r \in Requests |-> CallStatus(r)]
Memories == [r \in Requests |-> MemoryStatus(r)]
Running == IF dpc = "run" THEN dcur ELSE Nothing

Exchange == INSTANCE CommandExchange WITH
  None <- Nothing, status <- Statuses, memory <- Memories, working <- Running, answer <- resp

\* Seen through the abstraction, every step of the driver, of the DSP and of
\* the hardware is a step of CommandExchange or changes nothing: what
\* xrp_ioctl_submit_sync promises survives timeouts, reboots and stale IRQs.
ImplementsExchange == Exchange!Spec
==========================================================================
