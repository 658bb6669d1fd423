--------------------------- MODULE XrpLink_proofs ---------------------------
(***************************************************************************)
(* Proofs about XrpLink: the shared word, the types and the life of a call *)
(* for any set of requests and any configuration; then, in the safe        *)
(* configurations, what the DSP may be doing at each step of the host, the *)
(* promises that follow from it, and that XrpLink implements               *)
(* CommandExchange.                                                        *)
(***************************************************************************)
EXTENDS XrpLinkLoaded, TLAPS

\* The values of the shared word, and what the two sides take them for.
LEMMA WordFacts ==
  /\ RequestFlags = 1 /\ ResponseFlags(FALSE) = 3 /\ ResponseFlags(TRUE) = 11
  /\ CompleteWords = {3, 11} /\ Words = {0, 1, 3, 11, 257, 515}
  /\ \A w \in Words : /\ xrp_request_valid(w) <=> w \in {1, 257}
                      /\ xrp_cmd_complete(w) <=> w \in {3, 11, 515}
  /\ ~DeliveryFailed(3) /\ DeliveryFailed(11)
<1>1. RequestFlags = 1 /\ ResponseFlags(FALSE) = 3 /\ ResponseFlags(TRUE) = 11
  BY DEF RequestFlags, ResponseFlags, XRP_DSP_CMD_FLAG_REQUEST_VALID,
    XRP_DSP_CMD_FLAG_RESPONSE_VALID, XRP_DSP_CMD_FLAG_RESPONSE_DELIVERY_FAIL
<1>2. CompleteWords = {3, 11} /\ Words = {0, 1, 3, 11, 257, 515}
  <2>1. CompleteWords = {3, 11}
    BY Zenon, <1>1 DEF CompleteWords
  <2>2. Words = {0, 1, 3, 257, 515} \cup {1, 11, 3}
    BY Zenon, <1>1 DEF Words, XRP_DSP_SYNC_IDLE, XRP_DSP_SYNC_HOST_TO_DSP,
      XRP_DSP_SYNC_DSP_TO_HOST, XRP_DSP_SYNC_START, XRP_DSP_SYNC_DSP_READY
  <2> QED BY <2>1, <2>2
<1>3. 0 % 4 = 0 /\ 1 % 4 = 1 /\ 3 % 4 = 3 /\ 11 % 4 = 3 /\ 257 % 4 = 1 /\ 515 % 4 = 3
  OBVIOUS
<1>4. \A w \in Words : /\ xrp_request_valid(w) <=> w \in {1, 257}
                       /\ xrp_cmd_complete(w) <=> w \in {3, 11, 515}
  BY <1>2, <1>3 DEF xrp_request_valid, xrp_cmd_complete, ValidBits,
    XRP_DSP_CMD_FLAG_REQUEST_VALID, XRP_DSP_CMD_FLAG_RESPONSE_VALID
<1>5. ~DeliveryFailed(3) /\ DeliveryFailed(11)
  BY DEF DeliveryFailed, XRP_DSP_CMD_FLAG_RESPONSE_DELIVERY_FAIL
<1> QED BY Zenon, <1>1, <1>2, <1>4, <1>5

\* What complete_request writes is a response, with DELIVERY_FAIL when the
\* handler failed or there was none.
LEMMA AnswerIsComplete ==
  /\ CommandFlags \in {3, 11}
  /\ dout \in {"fail", "nons"} => CommandFlags = 11
<1>1. CASE dout \in {"fail", "nons"}
  BY <1>1 DEF CommandFlags, ResponseFlags, RequestFlags, XRP_DSP_CMD_FLAG_REQUEST_VALID,
    XRP_DSP_CMD_FLAG_RESPONSE_VALID, XRP_DSP_CMD_FLAG_RESPONSE_DELIVERY_FAIL
<1>2. CASE dout \notin {"fail", "nons"}
  BY <1>2 DEF CommandFlags, ResponseFlags, RequestFlags, XRP_DSP_CMD_FLAG_REQUEST_VALID,
    XRP_DSP_CMD_FLAG_RESPONSE_VALID
<1> QED BY <1>1, <1>2

----------------------------------------------------------------------------
(* Types.  The area gets the holder of comm_lock for its contents, so that *)
(* the holder is a request wherever xrp_ioctl_submit_sync is in progress.  *)

OwnerInv == hpc \in SubmitPcs => owner \in Requests

\* Init establishes both.
LEMMA TypeInit == Init => TypeOK /\ OwnerInv
<1> SUFFICES ASSUME Init PROVE TypeOK /\ OwnerInv
  OBVIOUS
<1>1. stall \in BOOLEAN /\ off \in BOOLEAN /\ synced \in BOOLEAN /\ devIrq \in BOOLEAN
      /\ hostIrq \in BOOLEAN /\ hsIrq \in BOOLEAN
  BY ConfigAssumption, Zenon DEF Init
<1>2. /\ word \in Words
      /\ area = Nothing /\ resp = Nothing /\ hpc = "free" /\ owner = Nothing
      /\ completion = 0 /\ pm = "suspended" /\ dpc = "dispatch" /\ dcur = Nothing /\ dout = "ok"
  BY WordFacts DEF Init, XRP_DSP_SYNC_IDLE
<1>3. /\ rq = [r \in Requests |-> "new"] /\ ret = [r \in Requests |-> "none"]
      /\ got = [r \in Requests |-> Nothing] /\ mem = [r \in Requests |-> "none"]
      /\ ran = [r \in Requests |-> 0]
  BY DEF Init
<1> QED BY <1>1, <1>2, <1>3 DEF TypeOK, OwnerInv, SubmitPcs, DspPcs, AllOutcomes, Returns

\* Every step keeps the types.
LEMMA TypeStep == TypeOK /\ OwnerInv /\ [Next]_vars => TypeOK'
<1> SUFFICES ASSUME TypeOK, OwnerInv, [Next]_vars PROVE TypeOK'
  OBVIOUS
<1> USE DEF DspPcs, CommandPcs, HandshakePcs, SubmitPcs, BootPcs, SyncPcs, Returns,
      comm, host, calls, dsp, irqs, hist
<1>1. ASSUME NEW r \in Requests, Map(r) PROVE TypeOK'
  BY <1>1 DEF Map, TypeOK
<1>2. ASSUME NEW r \in Requests, Lock(r) PROVE TypeOK'
  BY <1>2 DEF Lock, TypeOK
<1>3. ASSUME NEW r \in Requests, Unmap(r) PROVE TypeOK'
  BY <1>3 DEF Unmap, TypeOK
<1>4. CASE FillArea
  BY <1>4 DEF FillArea, HostAt, OwnerInv, TypeOK
<1>5. CASE FillFlags
  BY <1>5, WordFacts DEF FillFlags, HostAt, TypeOK
<1>6. CASE KickDsp
  <2>1. devIrq' \in BOOLEAN
    BY <1>6, Zenon DEF KickDsp, xrp_send_device_irq, TypeOK
  <2>2. hpc' \in {"free"} \cup SubmitPcs \cup BootPcs \cup SyncPcs
    BY <1>6 DEF KickDsp, xrp_send_device_irq, HostAt, TypeOK
  <2>3. UNCHANGED <<comm, owner, off, completion, pm, calls, dsp, hostIrq, hist>>
    BY <1>6 DEF KickDsp, xrp_send_device_irq, HostAt
  <2> QED BY <2>1, <2>2, <2>3 DEF TypeOK
<1>7. CASE CommandComplete
  BY <1>7 DEF CommandComplete, HostAt, TypeOK
<1>8. CASE CopyBack
  <2>1. /\ got' \in [Requests -> Requests \cup {Nothing, SyncData}]
        /\ hpc' \in {"free"} \cup SubmitPcs \cup BootPcs \cup SyncPcs
        /\ owner' \in Requests \cup {Nothing, Pm}
        /\ ret' \in [Requests -> Returns]
        /\ rq' \in [Requests -> {"new", "mapped", "locked", "unmap", "done"}]
        /\ mem' \in [Requests -> {"none", "mapped", "unmapped", "leaked"}]
    BY Zenon, <1>8 DEF CopyBack, Unlock, TypeOK
  <2>2. UNCHANGED <<comm, off, completion, pm, dsp, irqs, hist>>
    BY <1>8 DEF CopyBack, Unlock
  <2> QED BY <2>1, <2>2 DEF TypeOK
<1>9. CASE HaltReset
  <2>1. stall' \in BOOLEAN /\ synced' \in BOOLEAN /\ devIrq' \in BOOLEAN
    BY <1>9, Zenon DEF HaltReset, TypeOK
  <2>2. /\ hpc' \in {"free"} \cup SubmitPcs \cup BootPcs \cup SyncPcs
        /\ dpc' \in DspPcs
    BY Zenon, <1>9 DEF HaltReset, HostAt, TypeOK
  <2>3. UNCHANGED <<comm, owner, off, completion, pm, calls, dcur, dout, hostIrq, hist>>
    BY <1>9 DEF HaltReset, HostAt
  <2> QED BY <2>1, <2>2, <2>3 DEF TypeOK
<1>10. CASE LoadFirmware
  BY <1>10, WordFacts DEF LoadFirmware, HostAt, XRP_DSP_SYNC_IDLE, TypeOK
<1>11. CASE Release
  <2>1. stall' \in BOOLEAN
    BY <1>11, Zenon DEF Release, TypeOK
  <2>2. hpc' \in {"free"} \cup SubmitPcs \cup BootPcs \cup SyncPcs
    BY <1>11 DEF Release, HostAt, TypeOK
  <2>3. UNCHANGED <<comm, owner, off, completion, pm, calls, dpc, dcur, dout, synced, irqs,
      hist>>
    BY <1>11 DEF Release, HostAt
  <2> QED BY <2>1, <2>2, <2>3 DEF TypeOK
<1>12. CASE SyncStart
  <2>1. hsIrq' \in BOOLEAN
    BY <1>12, Zenon DEF SyncStart, TypeOK
  <2>2. /\ hpc' \in {"free"} \cup SubmitPcs \cup BootPcs \cup SyncPcs
        /\ word' \in Words
    BY <1>12, WordFacts DEF SyncStart, HostAt, XRP_DSP_SYNC_START, TypeOK
  <2>3. UNCHANGED <<area, resp, owner, off, completion, pm, calls, dsp, irqs, ran>>
    BY <1>12 DEF SyncStart, HostAt
  <2> QED BY <2>1, <2>2, <2>3 DEF TypeOK
<1>13. CASE SyncReady
  BY <1>13 DEF SyncReady, HostAt, TypeOK
<1>14. CASE WriteSyncData
  BY <1>14 DEF WriteSyncData, HostAt, OwnerInv, TypeOK
<1>15. CASE SyncHostToDsp
  BY <1>15, WordFacts DEF SyncHostToDsp, HostAt, XRP_DSP_SYNC_HOST_TO_DSP, TypeOK
<1>16. CASE SyncAck
  BY <1>16 DEF SyncAck, HostAt, TypeOK
<1>17. CASE SyncKick
  <2>1. devIrq' \in BOOLEAN
    BY <1>17, Zenon DEF SyncKick, xrp_send_device_irq, TypeOK
  <2>2. hpc' \in {"free"} \cup SubmitPcs \cup BootPcs \cup SyncPcs
    BY <1>17 DEF SyncKick, xrp_send_device_irq, HostAt, TypeOK
  <2>3. UNCHANGED <<comm, owner, off, completion, pm, calls, dsp, hostIrq, hist>>
    BY <1>17 DEF SyncKick, xrp_send_device_irq, HostAt
  <2> QED BY <2>1, <2>2, <2>3 DEF TypeOK
<1>18. CASE SyncIrqReceived
  BY <1>18 DEF SyncIrqReceived, HostAt, TypeOK
<1>19. CASE SyncOk
  BY <1>19, WordFacts DEF SyncOk, BootSucceeds, Unlock, XRP_DSP_SYNC_IDLE, TypeOK
<1>20. CASE SyncErr
  BY <1>20, WordFacts DEF SyncErr, HostAt, XRP_DSP_SYNC_IDLE, TypeOK
<1>21. CASE GoOff
  <2>1. off' \in BOOLEAN /\ stall' \in BOOLEAN
    BY <1>21, Zenon DEF GoOff, BootFails, Unlock, TypeOK
  <2>2. /\ hpc' \in {"free"} \cup SubmitPcs \cup BootPcs \cup SyncPcs
        /\ owner' \in Requests \cup {Nothing, Pm}
        /\ pm' \in {"suspended", "resuming", "active", "error"}
        /\ rq' \in [Requests -> {"new", "mapped", "locked", "unmap", "done"}]
        /\ ret' \in [Requests -> Returns]
        /\ mem' \in [Requests -> {"none", "mapped", "unmapped", "leaked"}]
    BY <1>21 DEF GoOff, BootFails, Unlock, TypeOK
  <2>3. UNCHANGED <<comm, completion, got, dpc, dcur, dout, synced, irqs, hist>>
    BY <1>21 DEF GoOff, BootFails, Unlock
  <2> QED BY <2>1, <2>2, <2>3 DEF TypeOK
<1>22. CASE StaleCompletion
  BY <1>22 DEF StaleCompletion, TypeOK
<1>23. CASE Interrupted
  <2>1. /\ hpc' \in {"free"} \cup SubmitPcs \cup BootPcs \cup SyncPcs
        /\ owner' \in Requests \cup {Nothing, Pm}
        /\ ret' \in [Requests -> Returns]
        /\ rq' \in [Requests -> {"new", "mapped", "locked", "unmap", "done"}]
        /\ mem' \in [Requests -> {"none", "mapped", "unmapped", "leaked"}]
    BY Zenon, <1>23 DEF Interrupted, Unlock, TypeOK
  <2>2. UNCHANGED <<comm, off, completion, pm, got, dsp, irqs, hist>>
    BY <1>23 DEF Interrupted, Unlock
  <2> QED BY <2>1, <2>2 DEF TypeOK
<1>24. CASE LoadFirmwareFails
  BY <1>24 DEF LoadFirmwareFails, BootFails, Unlock, TypeOK
<1>25. CASE SyncStartFails
  BY <1>25 DEF SyncStartFails, HostAt, TypeOK
<1>26. CASE RuntimeResume
  BY <1>26 DEF RuntimeResume, TypeOK
<1>27. CASE RuntimeSuspend
  <2>1. stall' \in BOOLEAN
    BY <1>27, Zenon DEF RuntimeSuspend, TypeOK
  <2>2. pm' \in {"suspended", "resuming", "active", "error"}
    BY <1>27 DEF RuntimeSuspend, TypeOK
  <2>3. UNCHANGED <<comm, hpc, owner, off, completion, calls, dpc, dcur, dout, synced, irqs,
      hist>>
    BY <1>27 DEF RuntimeSuspend
  <2> QED BY <2>1, <2>2, <2>3 DEF TypeOK
<1>28. CASE ForeignIsr
  <2>1. hostIrq' \in BOOLEAN
    BY <1>28, Zenon DEF ForeignIsr, TypeOK
  <2>2. completion' \in Nat
    BY <1>28 DEF ForeignIsr, TypeOK
  <2>3. UNCHANGED <<comm, hpc, owner, off, pm, calls, dsp, devIrq, hist>>
    BY <1>28 DEF ForeignIsr
  <2> QED BY <2>1, <2>2, <2>3 DEF TypeOK
<1>29. CASE CommandTimeout
  <2>1. /\ hpc' \in {"free"} \cup SubmitPcs \cup BootPcs \cup SyncPcs
        /\ owner' \in Requests \cup {Nothing, Pm}
        /\ rq' \in [Requests -> {"new", "mapped", "locked", "unmap", "done"}]
        /\ ret' \in [Requests -> Returns]
        /\ mem' \in [Requests -> {"none", "mapped", "unmapped", "leaked"}]
    <3>1. CASE hpc' = "halt" /\ UNCHANGED <<owner, rq, ret, mem>>
      BY <3>1 DEF TypeOK
    <3>2. CASE Unlock("ebusy", FALSE)
      BY Zenon, <3>2 DEF Unlock, TypeOK
    <3> QED BY <1>29, <3>1, <3>2, Zenon DEF CommandTimeout
  <2>2. UNCHANGED <<comm, off, completion, pm, got, dsp, irqs, hist>>
    BY <1>29 DEF CommandTimeout, Unlock
  <2> QED BY <2>1, <2>2 DEF TypeOK
<1>30. CASE SyncTimeout
  BY <1>30 DEF SyncTimeout, TypeOK
<1>31. CASE HostIsr
  <2>1. hostIrq' \in BOOLEAN
    BY <1>31, Zenon DEF HostIsr, TypeOK
  <2>2. completion' \in Nat
    BY <1>31 DEF HostIsr, TypeOK
  <2>3. UNCHANGED <<comm, hpc, owner, off, pm, calls, dsp, devIrq, hist>>
    BY <1>31 DEF HostIsr
  <2> QED BY <2>1, <2>2, <2>3 DEF TypeOK
<1>32. CASE Dispatch
  BY <1>32 DEF Dispatch, DspAt, TypeOK
<1>33. CASE TakeIrq
  BY <1>33 DEF TakeIrq, DspAt, TypeOK
<1>34. CASE ClearIrq
  <2>1. devIrq' \in BOOLEAN
    BY <1>34, Zenon DEF ClearIrq, TypeOK
  <2>2. dpc' \in DspPcs
    BY <1>34 DEF ClearIrq, DspAt, TypeOK
  <2>3. UNCHANGED <<comm, host, calls, dcur, dout, stall, synced, hostIrq, hist>>
    BY <1>34 DEF ClearIrq, DspAt
  <2> QED BY <2>1, <2>2, <2>3 DEF TypeOK
<1>35. CASE HandshakeStart
  BY <1>35 DEF HandshakeStart, DspAt, TypeOK
<1>36. CASE HandshakeReady
  BY <1>36, WordFacts DEF HandshakeReady, DspAt, XRP_DSP_SYNC_DSP_READY, TypeOK
<1>37. CASE HandshakePoll
  BY <1>37 DEF HandshakePoll, DspAt, TypeOK
<1>38. CASE SetSyncData
  <2>1. synced' \in BOOLEAN
    BY <1>38, Zenon DEF SetSyncData, TypeOK
  <2>2. dpc' \in DspPcs
    BY <1>38 DEF SetSyncData, DspAt, TypeOK
  <2>3. UNCHANGED <<comm, host, calls, dcur, dout, stall, irqs, hist>>
    BY <1>38 DEF SetSyncData, DspAt
  <2> QED BY <2>1, <2>2, <2>3 DEF TypeOK
<1>39. CASE HandshakeAck
  BY <1>39, WordFacts DEF HandshakeAck, DspAt, XRP_DSP_SYNC_DSP_TO_HOST, TypeOK
<1>40. CASE HandshakeIrq
  <2>1. hostIrq' \in BOOLEAN /\ hsIrq' \in BOOLEAN
    BY <1>40, Zenon DEF HandshakeIrq, xrp_hw_send_host_irq, TypeOK
  <2>2. dpc' \in DspPcs
    BY <1>40 DEF HandshakeIrq, xrp_hw_send_host_irq, DspAt, TypeOK
  <2>3. UNCHANGED <<comm, host, calls, dcur, dout, stall, synced, devIrq, ran>>
    BY <1>40 DEF HandshakeIrq, xrp_hw_send_host_irq, DspAt
  <2> QED BY <2>1, <2>2, <2>3 DEF TypeOK
<1>41. CASE ReadRequest
  BY <1>41 DEF ReadRequest, DspAt, TypeOK
<1>42. ASSUME NEW outcome \in Outcomes, RunCommand(outcome) PROVE TypeOK'
  <2>1. /\ dpc' \in DspPcs
        /\ dout' \in AllOutcomes
        /\ resp' \in Requests \cup {Nothing, SyncData}
    BY <1>42, ConfigAssumption DEF RunCommand, DspAt, TypeOK
  <2>2. ran' \in [Requests -> 0..2]
    <3>1. CASE outcome \in {"ok", "fail"}
      <4> DEFINE n == IF ran[dcur] = 0 THEN 1 ELSE 2
      <4>1. ran' = [ran EXCEPT ![dcur] = n]
        BY <1>42, <3>1 DEF RunCommand
      <4>2. n \in 0..2
        OBVIOUS
      <4>3. ran \in [Requests -> 0..2]
        BY DEF TypeOK
      <4> HIDE DEF n
      <4> QED BY Zenon, <4>1, <4>2, <4>3
    <3>2. CASE outcome \notin {"ok", "fail"}
      BY <1>42, <3>2 DEF RunCommand, TypeOK
    <3> QED BY <3>1, <3>2
  <2>3. UNCHANGED <<word, area, host, calls, dcur, stall, synced, irqs, hsIrq>>
    BY <1>42 DEF RunCommand, DspAt
  <2> QED BY <2>1, <2>2, <2>3 DEF TypeOK
<1>43. CASE CompleteRequest
  <2>1. dpc' \in DspPcs
    BY <1>43 DEF CompleteRequest, DspAt
  <2>2. word' \in Words
    BY <1>43, AnswerIsComplete, WordFacts DEF CompleteRequest
  <2>3. UNCHANGED <<area, resp, host, calls, dcur, dout, stall, synced, irqs, hist>>
    BY <1>43 DEF CompleteRequest, DspAt
  <2> QED BY <2>1, <2>2, <2>3 DEF TypeOK
<1>44. CASE NotifyHost
  <2>1. hostIrq' \in BOOLEAN
    BY <1>44, Zenon DEF NotifyHost, xrp_hw_send_host_irq, TypeOK
  <2>2. dpc' \in DspPcs
    BY <1>44 DEF NotifyHost, xrp_hw_send_host_irq, DspAt, TypeOK
  <2>3. UNCHANGED <<comm, host, calls, dcur, dout, stall, synced, devIrq, hist>>
    BY <1>44 DEF NotifyHost, xrp_hw_send_host_irq, DspAt
  <2> QED BY <2>1, <2>2, <2>3 DEF TypeOK
<1>45. CASE UNCHANGED vars
  BY <1>45 DEF vars, TypeOK
<1> QED
  BY <1>1, <1>2, <1>3, <1>4, <1>5, <1>6, <1>7, <1>8, <1>9, <1>10, <1>11, <1>12, <1>13,
    <1>14, <1>15, <1>16, <1>17, <1>18, <1>19, <1>20, <1>21, <1>22, <1>23, <1>24, <1>25,
    <1>26, <1>27, <1>28, <1>29, <1>30, <1>31, <1>32, <1>33, <1>34, <1>35, <1>36, <1>37,
    <1>38, <1>39, <1>40, <1>41, <1>42, <1>43, <1>44, <1>45 DEF Next, HostStep,
    HostEnvironment, Deadline, DspStep

\* Only Lock enters xrp_ioctl_submit_sync, for a request, and comm_lock does
\* not change hands before it is released.
LEMMA OwnerStep == TypeOK /\ OwnerInv /\ [Next]_vars => OwnerInv'
<1> SUFFICES ASSUME TypeOK, OwnerInv, [Next]_vars PROVE OwnerInv'
  OBVIOUS
<1> USE DEF OwnerInv, SubmitPcs
<1>1. ASSUME NEW r \in Requests, Map(r) \/ Lock(r) \/ Unmap(r) PROVE OwnerInv'
  BY <1>1 DEF Map, Lock, Unmap, host
<1>2. CASE FillArea \/ FillFlags \/ KickDsp \/ CommandComplete \/ CopyBack
  BY <1>2 DEF FillArea, FillFlags, KickDsp, CommandComplete, CopyBack, HostAt, Unlock
<1>3. CASE HaltReset \/ LoadFirmware \/ Release \/ SyncStart \/ SyncReady \/ WriteSyncData
  BY Zenon, <1>3 DEF HaltReset, LoadFirmware, Release, SyncStart, SyncReady, WriteSyncData, HostAt
<1>4. CASE SyncHostToDsp \/ SyncAck \/ SyncKick \/ SyncIrqReceived \/ SyncErr \/ SyncOk \/ GoOff
  BY <1>4 DEF SyncHostToDsp, SyncAck, SyncKick, SyncIrqReceived, SyncErr, SyncOk, GoOff, HostAt,
    BootSucceeds, BootFails, Unlock
<1>5. CASE HostEnvironment
  BY <1>5 DEF HostEnvironment, StaleCompletion, Interrupted, LoadFirmwareFails, SyncStartFails,
    RuntimeResume, RuntimeSuspend, ForeignIsr, HostAt, BootFails, Unlock
<1>6. CASE Deadline
  BY Zenon, <1>6 DEF Deadline, CommandTimeout, SyncTimeout, Unlock
<1>7. CASE HostIsr
  BY <1>7 DEF HostIsr
<1>8. CASE DspStep
  BY <1>8 DEF DspStep, Dispatch, TakeIrq, ClearIrq, HandshakeStart, HandshakeReady,
    HandshakePoll, SetSyncData, HandshakeAck, HandshakeIrq, ReadRequest, RunCommand,
    CompleteRequest, NotifyHost, host
<1>9. CASE UNCHANGED vars
  BY <1>9 DEF vars
<1> QED BY <1>1, <1>2, <1>3, <1>4, <1>5, <1>6, <1>7, <1>8, <1>9 DEF Next, HostStep

\* The types hold in every configuration: in particular the word is only ever
\* one of the values of the two enumerations that share it.
THEOREM TypeCorrect == Spec => []TypeOK
<1>1. Init => TypeOK /\ OwnerInv
  BY TypeInit
<1>2. TypeOK /\ OwnerInv /\ [Next]_vars => (TypeOK /\ OwnerInv)'
  BY TypeStep, OwnerStep
<1> QED BY <1>1, <1>2, PTL DEF Spec

----------------------------------------------------------------------------
(* The lock and the life of a call, in every configuration.                *)

\* No call has begun, and nobody holds comm_lock, when the driver is probed.
LEMMA CallInit == Init => CallInv
BY RequestsAssumption DEF Init, CallInv, Nothing, Pm, SubmitPcs

\* The DSP changes nothing of the host's.
LEMMA DspLeavesHost == DspStep => UNCHANGED <<host, calls>>
<1>1. ASSUME Dispatch \/ TakeIrq \/ ClearIrq PROVE UNCHANGED <<host, calls>>
  BY <1>1 DEF Dispatch, TakeIrq, ClearIrq
<1>2. ASSUME HandshakeStart \/ HandshakeReady \/ HandshakePoll \/ SetSyncData
      PROVE  UNCHANGED <<host, calls>>
  BY <1>2 DEF HandshakeStart, HandshakeReady, HandshakePoll, SetSyncData
<1>3. ASSUME HandshakeAck \/ HandshakeIrq \/ ReadRequest PROVE UNCHANGED <<host, calls>>
  BY <1>3 DEF HandshakeAck, HandshakeIrq, ReadRequest
<1>4. ASSUME NEW outcome \in Outcomes, RunCommand(outcome) PROVE UNCHANGED <<host, calls>>
  BY <1>4 DEF RunCommand
<1>5. ASSUME CompleteRequest \/ NotifyHost PROVE UNCHANGED <<host, calls>>
  BY <1>5 DEF CompleteRequest, NotifyHost
<1> QED BY <1>1, <1>2, <1>3, <1>4, <1>5 DEF DspStep

\* CallInv is about comm_lock, the power state and the calls.
LEMMA CallFrame == CallInv /\ UNCHANGED <<hpc, owner, off, pm, rq, ret, mem>> => CallInv'
BY DEF CallInv

\* Every step keeps the link between comm_lock, the calls and their memory.
LEMMA CallStep == TypeOK /\ CallInv /\ [Next]_vars => CallInv'
<1> SUFFICES ASSUME TypeOK, CallInv, [Next]_vars PROVE CallInv'
  OBVIOUS
<1> USE RequestsAssumption DEF CallInv, TypeOK, SubmitPcs, Nothing, Pm, comm, host, calls
<1>1. ASSUME NEW r \in Requests, Map(r) PROVE CallInv'
  BY <1>1 DEF Map
<1>2. ASSUME NEW r \in Requests, Lock(r) PROVE CallInv'
  BY <1>2 DEF Lock
<1>3. ASSUME NEW r \in Requests, Unmap(r) PROVE CallInv'
  BY <1>3 DEF Unmap
<1>4. CASE FillArea \/ FillFlags \/ KickDsp \/ CommandComplete
  BY <1>4 DEF FillArea, FillFlags, KickDsp, CommandComplete, HostAt
<1>5. CASE CopyBack
  BY <1>5 DEF CopyBack, Unlock
<1>6. CASE HaltReset \/ LoadFirmware \/ Release \/ SyncStart \/ SyncReady \/ WriteSyncData
  <2>1. /\ hpc \in BootPcs \cup SyncPcs /\ hpc' \in BootPcs \cup SyncPcs
        /\ UNCHANGED <<owner, off, pm, calls>>
    BY Zenon, <1>6 DEF HaltReset, LoadFirmware, Release, SyncStart, SyncReady, WriteSyncData,
      HostAt, BootPcs, SyncPcs
  <2> QED BY <2>1 DEF BootPcs, SyncPcs
<1>7. CASE SyncHostToDsp \/ SyncAck \/ SyncKick \/ SyncIrqReceived \/ SyncErr
  BY <1>7 DEF SyncHostToDsp, SyncAck, SyncKick, SyncIrqReceived, SyncErr, HostAt
<1>8. CASE SyncOk
  BY <1>8 DEF SyncOk, BootSucceeds, Unlock
<1>9. CASE GoOff
  BY <1>9 DEF GoOff, BootFails, Unlock
<1>10. CASE StaleCompletion \/ SyncStartFails \/ ForeignIsr \/ SyncTimeout \/ HostIsr
  BY <1>10 DEF StaleCompletion, SyncStartFails, ForeignIsr, SyncTimeout, HostIsr, HostAt
<1>11. CASE Interrupted
  BY <1>11 DEF Interrupted, Unlock
<1>12. CASE LoadFirmwareFails
  BY <1>12 DEF LoadFirmwareFails, BootFails, Unlock
<1>13. CASE RuntimeResume
  BY <1>13 DEF RuntimeResume
<1>14. CASE RuntimeSuspend
  BY <1>14 DEF RuntimeSuspend
<1>15. CASE CommandTimeout
  <2>1. hpc = "wait" /\ UNCHANGED <<off, pm>>
    BY <1>15 DEF CommandTimeout
  <2>2. CASE hpc' = "halt" /\ UNCHANGED <<owner, rq, ret, mem>>
    BY <2>1, <2>2
  <2>3. CASE Unlock("ebusy", FALSE)
    BY <2>1, <2>3 DEF Unlock
  <2> QED BY <1>15, <2>2, <2>3, Zenon DEF CommandTimeout
<1> HIDE RequestsAssumption DEF CallInv, TypeOK
<1>16. CASE DspStep \/ UNCHANGED vars
  <2>1. CASE DspStep
    BY <2>1, DspLeavesHost, CallFrame DEF host, calls
  <2>2. CASE UNCHANGED vars
    BY <2>2, CallFrame DEF vars
  <2> QED BY <1>16, <2>1, <2>2
<1> QED
  BY <1>1, <1>2, <1>3, <1>4, <1>5, <1>6, <1>7, <1>8, <1>9, <1>10, <1>11, <1>12, <1>13, <1>14,
    <1>15, <1>16 DEF Next, HostStep, HostEnvironment, Deadline

-----------------------------------------------------------------------------

(* What the DSP may be doing at each step of the host.  The phases are     *)
(* kept opaque in the steps' proofs where only the host's place matters.   *)

\* The values of the word that the phases name.
LEMMA PhaseWords ==
  /\ XRP_DSP_SYNC_IDLE = 0 /\ XRP_DSP_SYNC_START = 257 /\ XRP_DSP_SYNC_DSP_READY = 515
  /\ XRP_DSP_SYNC_HOST_TO_DSP = 1 /\ XRP_DSP_SYNC_DSP_TO_HOST = 3
  /\ RequestFlags = 1 /\ CompleteWords = {3, 11} /\ ~DeliveryFailed(3) /\ DeliveryFailed(11)
<1>1. RequestFlags = 1 /\ CompleteWords = {3, 11} /\ ~DeliveryFailed(3) /\ DeliveryFailed(11)
  BY WordFacts
<1> QED
  BY <1>1 DEF XRP_DSP_SYNC_IDLE, XRP_DSP_SYNC_START, XRP_DSP_SYNC_DSP_READY,
    XRP_DSP_SYNC_HOST_TO_DSP, XRP_DSP_SYNC_DSP_TO_HOST

\* Which steps of the DSP are past its last access to the area.
LEMMA QuietFacts ==
  /\ "dispatch" \in QuietPcs /\ "wait" \in QuietPcs /\ "isr" \in QuietPcs
  /\ "irq" \in QuietPcs /\ "hs_wait" \in QuietPcs /\ "hs_isr" \in QuietPcs
  /\ "hs_irq" \in QuietPcs /\ "exit" \in QuietPcs
  /\ "hs_start" \notin QuietPcs /\ "hs_write" \notin QuietPcs /\ "hs_ready" \notin QuietPcs
  /\ "hs_data" \notin QuietPcs /\ "hs_ack" \notin QuietPcs
  /\ "proc" \notin QuietPcs /\ "run" \notin QuietPcs /\ "done" \notin QuietPcs
BY DEF QuietPcs

\* Initially the host is about to boot a DSP that is not doing anything.
LEMMA PhaseInit == Init => PhaseInv
BY DEF Init, PhaseInv, Idle, QuietPcs, BootPcs, AnswerReady

\* The phases are about the area, the lock, the leaked memory and the DSP.
LEMMA PhasesFrame ==
  ASSUME UNCHANGED <<word, area, resp, owner, mem, dpc, dcur, dout, stall>>
  PROVE  /\ Idle' <=> Idle
         /\ Pending(owner)' <=> Pending(owner)
         /\ Settled' <=> Settled
         /\ Starting' <=> Starting
         /\ Acking' <=> Acking
         /\ GivenUp' <=> GivenUp
         /\ AnswerReady' <=> AnswerReady
<1>1. Idle' <=> Idle
  BY DEF Idle
<1>2. Pending(owner)' <=> Pending(owner)
  BY DEF Pending, Working
<1>3. Settled' <=> Settled
  BY <1>1, <1>2 DEF Settled
<1>4. Starting' <=> Starting
  BY DEF Starting, Working
<1>5. Acking' <=> Acking
  BY DEF Acking
<1>6. GivenUp' <=> GivenUp
  BY DEF GivenUp, Working
<1>7. AnswerReady' <=> AnswerReady
  BY DEF AnswerReady
<1> QED BY <1>1, <1>2, <1>3, <1>4, <1>5, <1>6, <1>7

\* A step that changes none of what PhaseInv is about keeps it.
LEMMA PhaseFrame ==
  ASSUME PhaseInv,
         UNCHANGED <<word, area, resp, hpc, owner, off, mem, dpc, dcur, dout, stall>>
  PROVE  PhaseInv'
BY PhasesFrame DEF PhaseInv

\* What is leaked stays leaked, so a DSP given up on may go on running.
LEMMA LeakedStays ==
  ASSUME GivenUp, UNCHANGED <<word, area, owner, dpc, dcur>>,
         \A r \in Requests : mem[r] = "leaked" => mem'[r] = "leaked"
  PROVE  GivenUp'
BY DEF GivenUp, Working

\* The host's own steps.
LEMMA PhaseHostStep ==
  ASSUME SafeConfig, TypeOK, CallInv, PhaseInv, HostStep PROVE PhaseInv'
<1>0. /\ hpc # "free" => ~off
      /\ hpc \in SubmitPcs => owner \in Requests
      /\ owner \in Requests \cup {Nothing, Pm}
      /\ AnswerReady
  BY DEF TypeOK, CallInv, PhaseInv
<1>1. CASE FillArea
  <2>1. /\ hpc = "fill" /\ hpc' = "flags" /\ area' = owner
        /\ UNCHANGED <<word, resp, owner, off, dpc, dcur, dout, stall>>
    BY <1>1 DEF FillArea, HostAt, dsp
  <2>2. Idle' /\ ~off' /\ AnswerReady'
    BY <1>0, <2>1 DEF PhaseInv, Idle, AnswerReady
  <2> QED BY <2>1, <2>2 DEF PhaseInv, BootPcs
<1>2. CASE FillFlags
  <2>1. /\ hpc = "flags" /\ hpc' = "kick" /\ word' = RequestFlags
        /\ UNCHANGED <<area, resp, owner, off, dpc, dcur, dout, stall>>
    BY <1>2 DEF FillFlags, HostAt, dsp
  <2>2. area = owner /\ Idle
    BY <1>0, <2>1 DEF PhaseInv
  <2>3. dpc \in QuietPcs
    BY <2>2, QuietFacts DEF Idle
  <2>4. Pending(owner)' /\ ~off' /\ AnswerReady'
    BY <1>0, <2>1, <2>2, <2>3 DEF Pending, AnswerReady
  <2> QED BY <2>1, <2>4 DEF PhaseInv, BootPcs
<1>3. CASE KickDsp \/ CommandComplete
  <2>1. /\ \/ hpc = "kick" /\ hpc' = "wait"
           \/ hpc = "wait" /\ hpc' = "complete" /\ xrp_cmd_complete(word)
        /\ UNCHANGED <<word, area, resp, owner, off, mem, dpc, dcur, dout, stall>>
    BY <1>3 DEF KickDsp, CommandComplete, HostAt, comm, calls, dsp
  <2>2. Pending(owner)
    BY <2>1 DEF PhaseInv
  <2>3. hpc' = "complete" => word' \in CompleteWords
    <3>1. word \in {1, 3, 11}
      BY <2>2, PhaseWords DEF Pending
    <3>2. xrp_cmd_complete(word) => word \in {3, 11, 515}
      BY WordFacts DEF TypeOK
    <3> QED BY <2>1, <3>1, <3>2, PhaseWords
  <2>4. Pending(owner)' /\ ~off' /\ AnswerReady'
    BY <1>0, <2>1, <2>2, PhasesFrame
  <2> QED BY <2>1, <2>3, <2>4 DEF PhaseInv, BootPcs
<1>4. CASE CopyBack
  <2>1. /\ hpc = "complete" /\ hpc' = "free"
        /\ UNCHANGED <<word, area, resp, off, dpc, dcur, dout, stall>>
    BY <1>4 DEF CopyBack, Unlock, comm, dsp
  <2>2. Pending(owner) /\ word \in CompleteWords
    BY <2>1 DEF PhaseInv
  <2>3. dpc \in QuietPcs
    BY <2>2, PhaseWords DEF Pending
  <2>4. Idle' /\ ~off' /\ AnswerReady'
    BY <1>0, <2>1, <2>2, <2>3 DEF Idle, AnswerReady
  <2> QED BY <2>1, <2>4 DEF PhaseInv, BootPcs
<1>5. CASE HaltReset
  <2>1. /\ hpc = "halt" /\ hpc' = (IF HasFirmware THEN "firmware" ELSE "release")
        /\ UNCHANGED <<word, area, resp, owner, off, mem, dcur, dout>>
    BY <1>5 DEF HaltReset, HostAt, comm, calls
  <2>2. Settled /\ ~off'
    BY <1>0, <2>1 DEF PhaseInv, BootPcs
  <2>3. CASE CanHalt
    <3>1. stall' /\ dpc' = "dispatch"
      BY <1>5, <2>3, Zenon DEF HaltReset
    <3>2. Settled' /\ AnswerReady'
      BY <2>1, <2>2, <3>1, QuietFacts DEF Settled, Idle, Pending, AnswerReady
    <3> QED BY <2>1, <2>2, <3>1, <3>2 DEF PhaseInv, BootPcs
  <2>4. CASE ~CanHalt
    <3>1. UNCHANGED <<stall, dpc>> /\ ~HasFirmware
      BY Zenon, <1>5, <2>4 DEF HaltReset, SafeConfig
    <3>2. Settled' /\ AnswerReady'
      BY <1>0, <2>1, <2>2, <3>1, PhasesFrame
    <3> QED BY <2>1, <2>2, <3>1, <3>2 DEF PhaseInv, BootPcs
  <2> QED BY <2>3, <2>4
<1>6. CASE LoadFirmware
  <2>1. /\ hpc = "firmware" /\ hpc' = "release" /\ word' = XRP_DSP_SYNC_IDLE
        /\ UNCHANGED <<resp, owner, off, dpc, dcur, dout, stall>>
    BY <1>6 DEF LoadFirmware, HostAt, dsp
  <2>2. Settled' /\ ~off' /\ AnswerReady'
    BY <1>0, <2>1 DEF PhaseInv, Settled, Idle, AnswerReady
  <2> QED BY <2>1, <2>2 DEF PhaseInv, BootPcs
<1>7. CASE Release
  <2>1. /\ hpc = "release" /\ hpc' = "start" /\ ~stall'
        /\ UNCHANGED <<word, area, resp, owner, off, dpc, dcur, dout>>
    BY <1>7 DEF Release, HostAt, comm
  <2>2. Settled /\ (HasFirmware => word = XRP_DSP_SYNC_IDLE)
    BY <2>1 DEF PhaseInv, BootPcs
  <2>3. Settled' /\ ~off' /\ AnswerReady'
    BY <1>0, <2>1, <2>2, QuietFacts DEF Settled, Idle, Pending, Working, AnswerReady
  <2> QED BY <2>1, <2>3 DEF PhaseInv, BootPcs
<1>8. CASE SyncStart
  <2>1. /\ hpc = "start" /\ hpc' = "ready" /\ word' = XRP_DSP_SYNC_START
        /\ UNCHANGED <<area, resp, owner, off, dpc, dcur, dout, stall>>
    BY <1>8 DEF SyncStart, HostAt, dsp
  <2>2. Settled /\ ~stall
    BY <2>1 DEF PhaseInv, BootPcs
  <2>3. dpc \in QuietPcs \/ (owner \in Requests /\ Working(owner))
    BY <2>2 DEF Settled, Idle, Pending
  <2>4. Starting' /\ ~off' /\ AnswerReady'
    BY <1>0, <2>1, <2>3 DEF Starting, Working, AnswerReady
  <2> QED BY <2>1, <2>4 DEF PhaseInv, BootPcs
<1>9. CASE SyncReady
  <2>1. /\ hpc = "ready" /\ hpc' = "data" /\ word = XRP_DSP_SYNC_DSP_READY
        /\ UNCHANGED <<word, area, resp, owner, off, mem, dpc, dcur, dout, stall>>
    BY <1>9 DEF SyncReady, HostAt, comm, calls, dsp
  <2>2. dpc = "hs_ready"
    BY <2>1, PhaseWords DEF PhaseInv, Starting
  <2>3. ~off' /\ AnswerReady'
    BY <1>0, <2>1, PhasesFrame
  <2> QED BY <2>1, <2>2, <2>3 DEF PhaseInv, BootPcs
<1>10. CASE WriteSyncData
  <2>1. /\ hpc = "data" /\ hpc' = "host" /\ area' = SyncData
        /\ UNCHANGED <<word, resp, owner, off, dpc, dcur, dout, stall>>
    BY <1>10 DEF WriteSyncData, HostAt, dsp
  <2>2. ~off' /\ AnswerReady'
    BY <1>0, <2>1 DEF AnswerReady
  <2> QED BY <2>1, <2>2 DEF PhaseInv, BootPcs
<1>11. CASE SyncHostToDsp
  <2>1. /\ hpc = "host" /\ hpc' = "ack" /\ word' = XRP_DSP_SYNC_HOST_TO_DSP
        /\ UNCHANGED <<area, resp, owner, off, dpc, dcur, dout, stall>>
    BY <1>11 DEF SyncHostToDsp, HostAt, dsp
  <2>2. Acking' /\ ~off' /\ AnswerReady'
    BY <1>0, <2>1 DEF PhaseInv, Acking, AnswerReady
  <2> QED BY <2>1, <2>2 DEF PhaseInv, BootPcs
<1>12. CASE SyncAck \/ SyncKick \/ SyncIrqReceived
  <2>1. /\ \/ hpc = "ack" /\ word = XRP_DSP_SYNC_DSP_TO_HOST
           \/ hpc \in {"synckick", "syncwait"}
        /\ hpc' \in {"synckick", "syncwait", "ok"}
        /\ UNCHANGED <<word, area, resp, owner, off, mem, dpc, dcur, dout, stall>>
    BY <1>12 DEF SyncAck, SyncKick, SyncIrqReceived, HostAt, comm, calls, dsp
  <2>2. word = XRP_DSP_SYNC_DSP_TO_HOST /\ dpc \in QuietPcs
    BY <2>1, PhaseWords DEF PhaseInv, Acking
  <2>3. ~off' /\ AnswerReady'
    BY <1>0, <2>1, PhasesFrame
  <2> QED BY <2>1, <2>2, <2>3 DEF PhaseInv, BootPcs
<1>13. CASE SyncOk
  <2>1. /\ hpc = "ok" /\ hpc' = "free" /\ word' = XRP_DSP_SYNC_IDLE
        /\ UNCHANGED <<area, resp, off, dpc, dcur, dout, stall>>
    BY <1>13 DEF SyncOk, BootSucceeds, Unlock, dsp
  <2>2. Idle' /\ ~off' /\ AnswerReady'
    BY <1>0, <2>1 DEF PhaseInv, Idle, AnswerReady
  <2> QED BY <2>1, <2>2 DEF PhaseInv, BootPcs
<1>14. CASE SyncErr
  <2>1. /\ hpc = "err" /\ hpc' = "off" /\ word' = XRP_DSP_SYNC_IDLE
        /\ UNCHANGED <<area, resp, owner, off, mem, dpc, dcur, dout, stall>>
    BY <1>14 DEF SyncErr, HostAt, calls, dsp
  <2>2. /\ dpc = "hs_data" => area = SyncData
        /\ dpc \in {"proc", "run", "done"} => owner \in Requests /\ Working(owner)
    <3>1. CASE Settled
      BY <3>1, QuietFacts DEF Settled, Idle, Pending, Working
    <3>2. CASE Starting
      BY <3>2, QuietFacts DEF Starting, Working
    <3>3. CASE Acking
      BY <3>3, QuietFacts DEF Acking
    <3> QED BY <2>1, <3>1, <3>2, <3>3 DEF PhaseInv
  <2>3. GivenUp' /\ ~off' /\ AnswerReady'
    BY <1>0, <2>1, <2>2 DEF GivenUp, Working, AnswerReady
  <2> QED BY <2>1, <2>3 DEF PhaseInv, BootPcs
<1>15. CASE GoOff
  <2>1. /\ hpc = "off" /\ hpc' = "free" /\ off'
        /\ UNCHANGED <<word, area, resp, dpc, dcur, dout>>
    BY <1>15 DEF GoOff, BootFails, Unlock, comm
  <2>2. \/ owner = Pm /\ mem' = mem
        \/ owner # Pm /\ mem' = [mem EXCEPT ![owner] = "leaked"]
    BY <1>15 DEF GoOff, BootFails, Unlock
  <2>3. \A r \in Requests : mem[r] = "leaked" \/ owner = r => mem'[r] = "leaked"
    BY <2>2, RequestsAssumption DEF TypeOK, Pm
  <2>4. GivenUp
    BY <2>1 DEF PhaseInv
  <2>5. GivenUp' /\ AnswerReady'
    BY <1>0, <2>1, <2>3, <2>4 DEF GivenUp, Working, AnswerReady
  <2> QED BY <2>1, <2>5 DEF PhaseInv, BootPcs
<1> QED
  BY <1>1, <1>2, <1>3, <1>4, <1>5, <1>6, <1>7, <1>8, <1>9, <1>10, <1>11, <1>12, <1>13,
    <1>14, <1>15 DEF HostStep

\* The other steps on the host's side.
LEMMA PhaseOtherStep ==
  ASSUME SafeConfig, TypeOK, CallInv, PhaseInv,
         \/ HostEnvironment \/ Deadline \/ HostIsr
         \/ \E r \in Requests : Map(r) \/ Lock(r) \/ Unmap(r)
  PROVE  PhaseInv'
<1>0. (hpc # "free" => ~off) /\ AnswerReady
  BY DEF CallInv, PhaseInv
<1>1. ASSUME NEW r \in Requests, Map(r) \/ Unmap(r) PROVE PhaseInv'
  <2>1. UNCHANGED <<word, area, resp, hpc, owner, off, dpc, dcur, dout, stall>>
    BY <1>1 DEF Map, Unmap, comm, host, dsp
  <2>2. mem[r] # "leaked" /\ \E m \in {"mapped", "unmapped"} : mem' = [mem EXCEPT ![r] = m]
    BY <1>1 DEF Map, Unmap, CallInv
  <2>3. \A q \in Requests : mem[q] = "leaked" => mem'[q] = "leaked"
    BY <2>2 DEF TypeOK
  <2>4. GivenUp => GivenUp'
    BY <2>1, <2>3, LeakedStays
  <2>5. /\ Idle' <=> Idle
        /\ Pending(owner)' <=> Pending(owner)
        /\ Starting' <=> Starting
        /\ Acking' <=> Acking
        /\ AnswerReady' <=> AnswerReady
    BY <2>1 DEF Idle, Pending, Starting, Acking, Working, AnswerReady
  <2>6. Settled' <=> Settled
    BY <2>1, <2>5 DEF Settled
  <2> QED BY <2>1, <2>4, <2>5, <2>6 DEF PhaseInv
<1>2. ASSUME NEW r \in Requests, Lock(r) PROVE PhaseInv'
  <2>1. hpc = "free" /\ UNCHANGED <<word, area, resp, off, mem, dpc, dcur, dout, stall>>
    BY <1>2 DEF Lock, comm, dsp
  <2>2. CASE off /\ UNCHANGED <<hpc, owner>>
    BY <2>1, <2>2, PhaseFrame
  <2>3. CASE ~off /\ hpc' = "fill"
    <3>1. Idle' /\ AnswerReady'
      BY <1>0, <2>1, <2>3 DEF PhaseInv, Idle, AnswerReady
    <3> QED BY <2>1, <2>3, <3>1 DEF PhaseInv, BootPcs
  <2> QED BY <1>2, <2>2, <2>3 DEF Lock
<1>3. CASE StaleCompletion \/ ForeignIsr \/ HostIsr
  <2>1. UNCHANGED <<word, area, resp, hpc, owner, off, mem, dpc, dcur, dout, stall>>
    BY <1>3 DEF StaleCompletion, ForeignIsr, HostIsr, comm, calls, dsp
  <2> QED BY <2>1, PhaseFrame
<1>4. CASE Interrupted
  BY <1>4 DEF Interrupted, SafeConfig
<1>5. CASE LoadFirmwareFails
  <2>1. hpc = "firmware" /\ hpc' = "free" /\ UNCHANGED <<word, resp, off, dpc, dcur, dout, stall>>
    BY <1>5 DEF LoadFirmwareFails, BootFails, Unlock, comm, dsp
  <2>2. Idle' /\ ~off' /\ AnswerReady'
    BY <1>0, <2>1 DEF PhaseInv, Idle, AnswerReady
  <2> QED BY <2>1, <2>2 DEF PhaseInv, BootPcs
<1>6. CASE SyncStartFails
  <2>1. /\ hpc = "start" /\ hpc' = "err"
        /\ UNCHANGED <<word, area, resp, owner, off, mem, dpc, dcur, dout, stall>>
    BY <1>6 DEF SyncStartFails, HostAt, comm, calls, dsp
  <2>2. Settled' /\ ~off' /\ AnswerReady'
    BY <1>0, <2>1, PhasesFrame DEF PhaseInv, BootPcs
  <2> QED BY <2>1, <2>2 DEF PhaseInv, BootPcs
<1>7. CASE RuntimeResume
  <2>1. hpc = "free" /\ UNCHANGED <<word, area, resp, off, mem, dpc, dcur, dout, stall>>
    BY <1>7 DEF RuntimeResume, comm, calls, dsp
  <2>2. CASE off /\ UNCHANGED <<hpc, owner>>
    BY <2>1, <2>2, PhaseFrame
  <2>3. CASE ~off /\ hpc' = "halt"
    <3>1. Settled' /\ AnswerReady'
      BY <1>0, <2>1, <2>3 DEF PhaseInv, Settled, Idle, AnswerReady
    <3> QED BY <2>1, <2>3, <3>1 DEF PhaseInv, BootPcs
  <2> QED BY <1>7, <2>2, <2>3 DEF RuntimeResume
<1>8. CASE RuntimeSuspend
  <2>1. stall => stall'
    BY <1>8, Zenon DEF RuntimeSuspend
  <2>2. hpc = "free" /\ UNCHANGED <<word, area, resp, hpc, owner, off, mem, dpc, dcur, dout>>
    BY <1>8 DEF RuntimeSuspend, comm, calls, CallInv, TypeOK
  <2>3. (Idle => Idle') /\ (GivenUp => GivenUp') /\ AnswerReady'
    BY <1>0, <2>1, <2>2 DEF Idle, GivenUp, Working, AnswerReady
  <2> QED BY <2>2, <2>3 DEF PhaseInv, BootPcs
<1>9. CASE CommandTimeout
  <2>1. /\ hpc = "wait" /\ hpc' = "halt"
        /\ UNCHANGED <<word, area, resp, owner, off, mem, dpc, dcur, dout, stall>>
    BY <1>9 DEF CommandTimeout, SafeConfig, comm, dsp
  <2>2. owner \in Requests /\ Pending(owner)
    BY <2>1 DEF PhaseInv, CallInv, SubmitPcs
  <2>3. Settled' /\ ~off' /\ AnswerReady'
    BY <1>0, <2>1, <2>2, PhasesFrame DEF Settled
  <2> QED BY <2>1, <2>3 DEF PhaseInv, BootPcs
<1>10. CASE SyncTimeout
  <2>1. /\ hpc \in {"ready", "ack", "syncwait"} /\ hpc' = "err"
        /\ UNCHANGED <<word, area, resp, owner, off, mem, dpc, dcur, dout, stall>>
    BY <1>10 DEF SyncTimeout, comm, calls, dsp
  <2>2. Starting \/ Acking
    BY <2>1, PhaseWords DEF PhaseInv, Starting
  <2>3. (Starting' \/ Acking') /\ ~off' /\ AnswerReady'
    BY <1>0, <2>1, <2>2, PhasesFrame
  <2> QED BY <2>1, <2>3 DEF PhaseInv, BootPcs
<1> QED
  BY <1>1, <1>2, <1>3, <1>4, <1>5, <1>6, <1>7, <1>8, <1>9, <1>10 DEF HostEnvironment, Deadline

\* What every step of the DSP does to the phases: it stays in each of them.
DspKeeps ==
  /\ ~stall /\ UNCHANGED <<area, hpc, owner, off, mem, stall>>
  /\ Idle => Idle'
  /\ Pending(owner) => Pending(owner)'
  /\ Starting => Starting'
  /\ Acking => Acking'
  /\ GivenUp => GivenUp'
  /\ AnswerReady => AnswerReady'
  /\ dpc = "hs_ready" /\ word = XRP_DSP_SYNC_DSP_READY => UNCHANGED <<dpc, word>>
  /\ word \in {XRP_DSP_SYNC_IDLE} \cup CompleteWords /\ dpc \in QuietPcs =>
       UNCHANGED word /\ dpc' \in QuietPcs

\* The phases are all that PhaseInv needs to know of the DSP.
LEMMA DspKeepsPhase == ASSUME PhaseInv, DspKeeps PROVE PhaseInv'
<1>1. Settled => Settled'
  BY DEF DspKeeps, Settled
<1>2. /\ Pending(owner) /\ word \in CompleteWords => UNCHANGED word
      /\ Settled /\ word = XRP_DSP_SYNC_IDLE => UNCHANGED word
  BY PhaseWords DEF DspKeeps, Pending, Settled, Idle
<1>3. word = XRP_DSP_SYNC_DSP_TO_HOST /\ dpc \in QuietPcs =>
        UNCHANGED word /\ dpc' \in QuietPcs
  BY PhaseWords DEF DspKeeps
<1>4. hpc # "firmware"
  BY DEF PhaseInv, DspKeeps
<1>5. /\ Settled \/ Starting \/ Acking => Settled' \/ Starting' \/ Acking'
      /\ GivenUp' \/ ~GivenUp
      /\ AnswerReady'
      /\ hpc = "complete" => word' \in CompleteWords
      /\ hpc = "release" /\ HasFirmware => word' = XRP_DSP_SYNC_IDLE
  BY <1>1, <1>2 DEF PhaseInv, DspKeeps, BootPcs
<1> QED BY <1>1, <1>3, <1>4, <1>5 DEF PhaseInv, DspKeeps

\* A DSP that leaves the area alone is in all of its quiet steps in the same
\* phases.
LEMMA QuietMove ==
  ASSUME ~stall, dpc \in QuietPcs, dpc' \in QuietPcs,
         UNCHANGED <<word, area, resp, hpc, owner, off, mem, dcur, dout, stall>>
  PROVE  DspKeeps
<1>1. dpc \notin {"hs_ready", "hs_data", "proc", "run", "done"}
      /\ dpc' \notin {"hs_start", "hs_write", "hs_ready", "hs_data", "hs_ack", "proc", "run",
                      "done"}
  BY QuietFacts
<1>2. (Idle => Idle') /\ (AnswerReady => AnswerReady')
  BY <1>1 DEF Idle, AnswerReady
<1>3. (Pending(owner) => Pending(owner)') /\ (Starting => Starting')
  BY <1>1 DEF Pending, Starting
<1>4. (Acking => Acking') /\ (GivenUp => GivenUp')
  BY QuietFacts, <1>1 DEF Acking, GivenUp
<1> QED BY <1>1, <1>2, <1>3, <1>4 DEF DspKeeps

\* The steps of the DSP.
LEMMA PhaseDspStep ==
  ASSUME SafeConfig, TypeOK, CallInv, PhaseInv, DspStep PROVE PhaseInv'
<1> SUFFICES DspKeeps
  BY DspKeepsPhase
<1> USE DEF DspAt, comm, host, calls
<1>0. AnswerReady /\ (xrp_request_valid(word) => word \in {1, 257})
  BY WordFacts DEF TypeOK, PhaseInv
<1>1. CASE TakeIrq \/ ClearIrq \/ HandshakeIrq \/ NotifyHost
  <2>1. /\ ~stall /\ dpc \in QuietPcs /\ dpc' \in QuietPcs
        /\ UNCHANGED <<word, area, resp, hpc, owner, off, mem, dcur, dout, stall>>
    BY <1>1, QuietFacts DEF TakeIrq, ClearIrq, HandshakeIrq, NotifyHost
  <2> QED BY <2>1, QuietMove
<1>2. CASE Dispatch
  <2>1. /\ ~stall /\ dpc = "dispatch"
        /\ UNCHANGED <<word, area, resp, hpc, owner, off, mem, dcur, dout, stall>>
    BY <1>2 DEF Dispatch
  <2>2. CASE dpc' = "wait"
    BY <2>1, <2>2, QuietFacts, QuietMove
  <2>3. CASE xrp_request_valid(word) /\ word = XRP_DSP_SYNC_START /\ dpc' = "hs_start"
    <3>1. (Idle => Idle') /\ (AnswerReady => AnswerReady')
      BY <2>1, <2>3, PhaseWords DEF Idle, AnswerReady
    <3>2. (Pending(owner) => Pending(owner)') /\ (Starting => Starting')
      BY <2>1, <2>3, PhaseWords DEF Pending, Starting
    <3>3. (Acking => Acking') /\ (GivenUp => GivenUp')
      BY <2>1, <2>3, PhaseWords DEF Acking, GivenUp
    <3>4. word \notin {XRP_DSP_SYNC_IDLE} \cup CompleteWords
      BY <2>3, PhaseWords
    <3> QED BY <2>1, <3>1, <3>2, <3>3, <3>4 DEF DspKeeps
  <2>4. CASE xrp_request_valid(word) /\ word # XRP_DSP_SYNC_START /\ dpc' = "proc"
    <3>1. word = 1
      BY <1>0, <2>4, PhaseWords
    <3>2. (Idle => Idle') /\ (AnswerReady => AnswerReady')
      BY <2>1, <2>4, <3>1, PhaseWords DEF Idle, AnswerReady
    <3>3. (Pending(owner) => Pending(owner)') /\ (Starting => Starting')
      BY <2>1, <2>4, <3>1, PhaseWords DEF Pending, Working, Starting
    <3>4. (Acking => Acking') /\ (GivenUp => GivenUp')
      BY <2>1, <2>4, <3>1, PhaseWords DEF Acking, GivenUp
    <3>5. word \notin {XRP_DSP_SYNC_IDLE} \cup CompleteWords
      BY <3>1, PhaseWords
    <3> QED BY <2>1, <3>2, <3>3, <3>4, <3>5 DEF DspKeeps
  <2> QED BY <1>2, <2>2, <2>3, <2>4 DEF Dispatch
<1>3. CASE HandshakeStart
  BY <1>3, PhaseWords, QuietFacts DEF HandshakeStart, DspKeeps, Idle, Pending, Working, Starting,
    Acking, GivenUp, AnswerReady
<1>4. CASE HandshakeReady
  BY <1>4, PhaseWords, QuietFacts DEF HandshakeReady, DspKeeps, Idle, Pending, Working, Starting,
    Acking, GivenUp, AnswerReady
<1>5. CASE HandshakePoll
  <2>1. /\ ~stall /\ dpc = "hs_ready"
        /\ UNCHANGED <<word, area, resp, hpc, owner, off, mem, dcur, dout, stall>>
        /\ \/ word = 1 /\ dpc' = "hs_data"
           \/ word \notin {1, 515} /\ dpc' = "dispatch"
    BY <1>5, PhaseWords DEF HandshakePoll
  <2>2. /\ ~Idle /\ ~Pending(owner) /\ ~Starting
        /\ AnswerReady'
    BY <2>1, PhaseWords, QuietFacts DEF Idle, Pending, Working, Starting, AnswerReady
  <2>3. (Acking => Acking') /\ (GivenUp => GivenUp')
    BY <2>1, PhaseWords, QuietFacts DEF Acking, GivenUp
  <2> QED BY <2>1, <2>2, <2>3, PhaseWords, QuietFacts DEF DspKeeps
<1>6. CASE SetSyncData
  BY <1>6, PhaseWords, QuietFacts DEF SetSyncData, DspKeeps, Idle, Pending, Working, Starting,
    Acking, GivenUp, AnswerReady
<1>7. CASE HandshakeAck
  <2>1. /\ ~stall /\ dpc = "hs_ack" /\ dpc' \in {"hs_wait", "hs_irq"} /\ word' = 3
        /\ UNCHANGED <<area, resp, hpc, owner, off, mem, dcur, dout, stall>>
    BY <1>7, PhaseWords DEF HandshakeAck
  <2> QED BY <2>1, PhaseWords, QuietFacts DEF DspKeeps, Idle, Pending, Working, Starting, Acking,
      GivenUp, AnswerReady
<1>8. CASE ReadRequest
  BY <1>8, PhaseWords, QuietFacts DEF ReadRequest, DspKeeps, Idle, Pending, Working, Starting,
    Acking, GivenUp, AnswerReady
<1>9. ASSUME NEW outcome \in Outcomes, RunCommand(outcome) PROVE DspKeeps
  <2>1. outcome # "nomem"
    BY DEF SafeConfig
  <2>2. /\ ~stall /\ dpc = "run" /\ dpc' = "done" /\ dout' = outcome
        /\ outcome = "ok" => resp' = dcur
        /\ UNCHANGED <<word, area, hpc, owner, off, mem, dcur, stall>>
    BY <1>9 DEF RunCommand
  <2> QED BY <2>1, <2>2, PhaseWords, QuietFacts DEF DspKeeps, Idle, Pending, Working, Starting,
      Acking, GivenUp, AnswerReady
<1>10. CASE CompleteRequest
  <2>1. /\ ~stall /\ dpc = "done" /\ dpc' = "irq"
        /\ UNCHANGED <<area, resp, hpc, owner, off, mem, dcur, dout, stall>>
    BY <1>10 DEF CompleteRequest
  <2>2. word' \in {3, 11} /\ (word' = 3 => resp = dcur)
    BY <1>0, <1>10, <2>1, AnswerIsComplete DEF CompleteRequest, AnswerReady, TypeOK, AllOutcomes
  <2> QED BY <2>1, <2>2, PhaseWords, QuietFacts DEF DspKeeps, Idle, Pending, Working, Starting,
      Acking, GivenUp, AnswerReady
<1> QED
  BY <1>1, <1>2, <1>3, <1>4, <1>5, <1>6, <1>7, <1>8, <1>9, <1>10 DEF DspStep

----------------------------------------------------------------------------
(* Restarts: where the driver loads the firmware, the reset and the write  *)
(* of SYNC_IDLE come before the release.                                   *)

\* A device that has just been probed is stalled and has run nothing.
LEMMA RestartInit == ASSUME SafeConfig, HasFirmware, Init PROVE RestartInv /\ OnceInv
BY PhaseWords DEF SafeConfig, Init, RestartInv, OnceInv, RestartPcs

\* What RestartInv is about.
LEMMA RestartFrame ==
  ASSUME RestartInv, UNCHANGED <<word, hpc, off, dpc, stall, synced>> PROVE RestartInv'
BY DEF RestartInv

\* The steps of the host.
LEMMA RestartHostStep ==
  ASSUME SafeConfig, HasFirmware, TypeOK, CallInv, PhaseInv, RestartInv, HostStep
  PROVE  RestartInv'
<1> USE DEF HostAt, RestartPcs
<1>0. CanHalt /\ (hpc # "free" => ~off)
  BY DEF SafeConfig, CallInv
<1>1. CASE FillArea \/ KickDsp \/ CommandComplete \/ CopyBack
  <2>1. /\ hpc \in {"fill", "kick", "wait", "complete"}
        /\ hpc' \in {"flags", "wait", "complete", "free"}
        /\ UNCHANGED <<word, off, dpc, stall, synced>>
    BY <1>1 DEF FillArea, KickDsp, CommandComplete, CopyBack, Unlock, comm, dsp
  <2> QED BY <2>1 DEF RestartInv
<1>2. CASE FillFlags
  <2>1. hpc = "flags" /\ hpc' = "kick" /\ UNCHANGED <<off, dpc, stall, synced>>
    BY <1>2 DEF FillFlags, dsp
  <2> QED BY <2>1 DEF RestartInv
<1>3. CASE HaltReset
  <2>1. hpc = "halt" /\ hpc' = "firmware" /\ stall' /\ ~synced' /\ dpc' = "dispatch"
    BY <1>0, <1>3 DEF HaltReset
  <2> QED BY <2>1 DEF RestartInv
<1>4. CASE LoadFirmware
  <2>1. hpc = "firmware" /\ hpc' = "release" /\ word' = 0 /\ UNCHANGED <<off, dpc, stall, synced>>
    BY <1>4, PhaseWords DEF LoadFirmware, dsp
  <2>2. stall
    BY <2>1 DEF PhaseInv
  <2> QED BY <2>1, <2>2, PhaseWords DEF RestartInv, CommandPcs
<1>5. CASE Release
  <2>1. hpc = "release" /\ hpc' = "start" /\ ~stall' /\ UNCHANGED <<word, off, dpc, synced>>
    BY <1>5 DEF Release, comm
  <2>2. word = 0 /\ ~off
    BY <1>0, <2>1, PhaseWords DEF PhaseInv
  <2> QED BY <2>1, <2>2, PhaseWords DEF RestartInv, CommandPcs
<1>6. CASE SyncStart
  <2>1. hpc = "start" /\ hpc' = "ready" /\ word' = 257 /\ UNCHANGED <<off, dpc, stall, synced>>
    BY <1>6, PhaseWords DEF SyncStart, dsp
  <2> QED BY <2>1, PhaseWords DEF RestartInv, CommandPcs
<1>7. CASE SyncReady \/ WriteSyncData
  <2>1. /\ hpc \in {"ready", "data"} /\ hpc' \in {"data", "host"}
        /\ UNCHANGED <<word, off, dpc, stall, synced>>
    BY <1>7 DEF SyncReady, WriteSyncData, comm, dsp
  <2> QED BY <2>1 DEF RestartInv
<1>8. CASE SyncHostToDsp
  <2>1. hpc = "host" /\ hpc' = "ack" /\ word' = 1 /\ UNCHANGED <<off, dpc, stall, synced>>
    BY <1>8, PhaseWords DEF SyncHostToDsp, dsp
  <2>2. dpc = "hs_ready"
    BY <2>1 DEF PhaseInv
  <2> QED BY <2>1, <2>2, PhaseWords DEF RestartInv, CommandPcs
<1>9. CASE SyncAck \/ SyncKick \/ SyncIrqReceived
  <2>1. /\ hpc \in {"ack", "synckick", "syncwait"} /\ hpc' \in {"synckick", "syncwait", "ok"}
        /\ hpc = "ack" => word = XRP_DSP_SYNC_DSP_TO_HOST
        /\ UNCHANGED <<word, off, dpc, stall, synced>>
    BY <1>9 DEF SyncAck, SyncKick, SyncIrqReceived, comm, dsp
  <2> QED BY <2>1 DEF RestartInv
<1>10. CASE SyncOk
  <2>1. hpc = "ok" /\ hpc' = "free" /\ UNCHANGED <<off, dpc, stall, synced>>
    BY <1>10 DEF SyncOk, BootSucceeds, Unlock, dsp
  <2> QED BY <2>1 DEF RestartInv
<1>11. CASE SyncErr
  <2>1. hpc = "err" /\ hpc' = "off" /\ word' = 0 /\ UNCHANGED <<off, dpc, stall, synced>>
    BY <1>11, PhaseWords DEF SyncErr, dsp
  <2> QED BY <2>1, PhaseWords DEF RestartInv
<1>12. CASE GoOff
  <2>1. hpc = "off" /\ hpc' = "free" /\ stall' /\ UNCHANGED <<word, dpc, synced>>
    BY Zenon, <1>0, <1>12 DEF GoOff, BootFails, Unlock, comm
  <2> QED BY <2>1 DEF RestartInv
<1> QED
  BY <1>1, <1>2, <1>3, <1>4, <1>5, <1>6, <1>7, <1>8, <1>9, <1>10, <1>11, <1>12 DEF HostStep

\* The steps of callers, of the environment and of time.
LEMMA RestartOtherStep ==
  ASSUME SafeConfig, HasFirmware, TypeOK, CallInv, PhaseInv, RestartInv,
         \/ \E r \in Requests : Map(r) \/ Lock(r) \/ Unmap(r)
         \/ HostEnvironment \/ Deadline \/ HostIsr
  PROVE  RestartInv'
<1> USE DEF HostAt, RestartPcs
<1>0. CanHalt /\ ~Signals /\ FirmwareReboot = {TRUE}
  BY DEF SafeConfig
<1>1. ASSUME NEW r \in Requests, Map(r) \/ Unmap(r) PROVE RestartInv'
  BY <1>1, RestartFrame DEF Map, Unmap, comm, host, dsp
<1>2. ASSUME NEW r \in Requests, Lock(r) PROVE RestartInv'
  <2>1. hpc = "free" /\ hpc' \in {"free", "fill"} /\ UNCHANGED <<word, off, dpc, stall, synced>>
    BY <1>2 DEF Lock, comm, dsp
  <2> QED BY <2>1 DEF RestartInv
<1>3. CASE StaleCompletion \/ ForeignIsr \/ HostIsr
  BY <1>3, RestartFrame DEF StaleCompletion, ForeignIsr, HostIsr, comm, dsp
<1>4. CASE Interrupted
  BY <1>0, <1>4 DEF Interrupted
<1>5. CASE LoadFirmwareFails
  <2>1. hpc = "firmware" /\ hpc' = "free" /\ UNCHANGED <<word, off, dpc, stall, synced>>
    BY <1>5 DEF LoadFirmwareFails, BootFails, Unlock, comm, dsp
  <2>2. stall
    BY <2>1 DEF PhaseInv
  <2> QED BY <2>1, <2>2 DEF RestartInv
<1>6. CASE SyncStartFails
  <2>1. hpc = "start" /\ hpc' = "err" /\ UNCHANGED <<word, off, dpc, stall, synced>>
    BY <1>6 DEF SyncStartFails, comm, dsp
  <2> QED BY <2>1 DEF RestartInv
<1>7. CASE RuntimeResume
  <2>1. hpc = "free" /\ hpc' \in {"free", "halt"} /\ UNCHANGED <<word, off, dpc, stall, synced>>
    BY <1>7 DEF RuntimeResume, comm, dsp
  <2> QED BY <2>1 DEF RestartInv
<1>8. CASE RuntimeSuspend
  <2>1. stall' /\ UNCHANGED <<word, hpc, off, dpc, synced>>
    BY Zenon, <1>0, <1>8 DEF RuntimeSuspend, comm
  <2> QED BY <2>1 DEF RestartInv
<1>9. CASE CommandTimeout
  <2>1. hpc = "wait" /\ hpc' = "halt" /\ UNCHANGED <<word, off, dpc, stall, synced>>
    BY <1>0, <1>9 DEF CommandTimeout, comm, dsp
  <2> QED BY <2>1 DEF RestartInv
<1>10. CASE SyncTimeout
  <2>1. /\ hpc \in {"ready", "ack", "syncwait"} /\ hpc' = "err"
        /\ UNCHANGED <<word, off, dpc, stall, synced>>
    BY <1>10 DEF SyncTimeout, comm, dsp
  <2> QED BY <2>1 DEF RestartInv
<1> QED
  BY <1>1, <1>2, <1>3, <1>4, <1>5, <1>6, <1>7, <1>8, <1>9, <1>10 DEF HostEnvironment, Deadline

\* The steps of the DSP.
LEMMA RestartDspStep ==
  ASSUME SafeConfig, HasFirmware, TypeOK, CallInv, PhaseInv, RestartInv, DspStep
  PROVE  RestartInv'
<1> USE DEF DspAt, RestartPcs
<1>0. ~stall /\ ~off /\ UNCHANGED <<hpc, off, stall>>
  <2>1. ~stall /\ UNCHANGED <<hpc, off, stall>>
    BY DEF DspStep, Dispatch, TakeIrq, ClearIrq, HandshakeStart, HandshakeReady, HandshakePoll,
      SetSyncData, HandshakeAck, HandshakeIrq, ReadRequest, RunCommand, CompleteRequest,
      NotifyHost, host
  <2> QED BY <2>1 DEF RestartInv
<1>1. hpc \notin {"firmware", "release"}
  BY <1>0 DEF RestartInv, PhaseInv
<1>2. CASE Dispatch
  <2>1. /\ dpc = "dispatch" /\ UNCHANGED <<word, synced>>
        /\ \/ word = 257 /\ dpc' = "hs_start"
           \/ word = 1 /\ dpc' = "proc"
           \/ synced /\ dpc' = "wait"
    BY <1>2, WordFacts, PhaseWords DEF Dispatch, DspWaits, comm, TypeOK
  <2>2. hpc = "start" => ~synced /\ word = 0
    BY PhaseWords DEF RestartInv
  <2> QED BY <1>0, <1>1, <2>1, <2>2, PhaseWords DEF RestartInv, CommandPcs
<1>3. CASE TakeIrq \/ ClearIrq \/ HandshakeIrq \/ NotifyHost
  <2>1. /\ dpc \in {"wait", "hs_wait", "isr", "hs_isr", "hs_irq", "irq"}
        /\ dpc' \in {"isr", "hs_isr", "dispatch", "hs_irq", "exit"}
        /\ UNCHANGED <<word, synced>>
    BY <1>3 DEF TakeIrq, ClearIrq, HandshakeIrq, NotifyHost, comm
  <2>2. synced /\ hpc # "start"
    BY <2>1 DEF RestartInv
  <2> QED BY <1>0, <1>1, <2>1, <2>2 DEF RestartInv, CommandPcs
<1>4. CASE HandshakeStart \/ HandshakeReady
  <2>1. /\ dpc \in {"hs_start", "hs_write"} /\ dpc' \in {"hs_write", "hs_ready"}
        /\ word' \in {word, 515} /\ UNCHANGED synced
        /\ dpc' = "hs_write" => word' = word
    BY <1>4, PhaseWords DEF HandshakeStart, HandshakeReady, comm
  <2>2. hpc # "start"
    BY <2>1 DEF RestartInv
  <2> QED BY <1>0, <1>1, <2>1, <2>2, PhaseWords DEF RestartInv, CommandPcs
<1>5. CASE HandshakePoll
  <2>1. /\ dpc = "hs_ready" /\ UNCHANGED <<word, synced>>
        /\ \/ dpc' = "hs_data"
           \/ word # 1 /\ dpc' = "dispatch"
    BY <1>5, PhaseWords DEF HandshakePoll, comm
  <2>2. hpc # "start"
    BY <2>1 DEF RestartInv
  <2> QED BY <1>0, <1>1, <2>1, <2>2, PhaseWords DEF RestartInv, CommandPcs
<1>6. CASE SetSyncData
  <2>1. dpc = "hs_data" /\ dpc' = "hs_ack" /\ synced' /\ UNCHANGED word
    BY <1>6 DEF SetSyncData, comm
  <2>2. hpc # "start"
    BY <2>1 DEF RestartInv
  <2> QED BY <1>0, <1>1, <2>1, <2>2 DEF RestartInv, CommandPcs
<1>7. CASE HandshakeAck
  <2>1. dpc = "hs_ack" /\ dpc' \in {"hs_wait", "hs_irq"} /\ word' = 3 /\ UNCHANGED synced
    BY <1>7, PhaseWords DEF HandshakeAck
  <2>2. synced /\ hpc # "start"
    BY <2>1 DEF RestartInv
  <2> QED BY <1>0, <1>1, <2>1, <2>2, PhaseWords DEF RestartInv, CommandPcs
<1>8. CASE ReadRequest \/ CompleteRequest \/ \E outcome \in Outcomes : RunCommand(outcome)
  <2>1. dpc \in CommandPcs /\ UNCHANGED synced
    BY <1>8 DEF ReadRequest, CompleteRequest, RunCommand, CommandPcs
  <2>2. synced /\ hpc \notin RestartPcs
    BY <2>1 DEF RestartInv, CommandPcs
  <2> QED BY <1>0, <1>1, <2>1, <2>2 DEF RestartInv
<1> QED BY <1>2, <1>3, <1>4, <1>5, <1>6, <1>7, <1>8 DEF DspStep

\* A command is run from the one time that xrp_fill_hw_request writes its flags:
\* the steps of the host and of its environment.
LEMMA OnceHostStep ==
  ASSUME SafeConfig, HasFirmware, TypeOK, CallInv, PhaseInv, RestartInv, OnceInv,
         Next, ~DspStep
  PROVE  OnceInv'
<1> USE DEF HostAt
<1>0. UNCHANGED ran
  BY Zenon DEF Next, Map, Lock, Unmap, HostStep, HostEnvironment, Deadline, HostIsr, FillArea,
    FillFlags, KickDsp, CommandComplete, CopyBack, HaltReset, LoadFirmware, Release, SyncStart,
    SyncReady, WriteSyncData, SyncHostToDsp, SyncAck, SyncKick, SyncIrqReceived, SyncOk, SyncErr,
    GoOff, StaleCompletion, Interrupted, LoadFirmwareFails, SyncStartFails, RuntimeResume,
    RuntimeSuspend, ForeignIsr, CommandTimeout, SyncTimeout, hist
<1>1. ASSUME NEW r \in Requests, Map(r) \/ Unmap(r) PROVE OnceInv'
  <2>1. /\ UNCHANGED <<word, hpc, owner, dpc>>
        /\ \A s \in Requests : rq'[s] \in {"new", "mapped"} => rq[s] \in {"new", "mapped"}
    BY <1>1 DEF Map, Unmap, comm, host, dsp, TypeOK
  <2> QED BY <1>0, <2>1 DEF OnceInv
<1>2. ASSUME NEW r \in Requests, Lock(r) PROVE OnceInv'
  <2>1. /\ hpc = "free" /\ rq[r] = "mapped" /\ UNCHANGED word
        /\ \A s \in Requests : rq'[s] \in {"new", "mapped"} => rq[s] \in {"new", "mapped"}
        /\ \/ UNCHANGED <<hpc, owner>>
           \/ hpc' = "fill" /\ owner' = r
    BY <1>2 DEF Lock, comm, TypeOK
  <2> QED BY <1>0, <2>1 DEF OnceInv
<1>3. CASE FillArea \/ KickDsp \/ CommandComplete \/ StaleCompletion \/ ForeignIsr \/ HostIsr
  <2>1. /\ UNCHANGED <<word, owner, dpc, rq>>
        /\ \/ hpc = "fill" /\ hpc' = "flags"
           \/ hpc = "kick" /\ hpc' = "wait"
           \/ hpc' = "complete"
           \/ hpc' = hpc
    BY <1>3 DEF FillArea, KickDsp, CommandComplete, StaleCompletion, ForeignIsr, HostIsr, comm,
      dsp, calls
  <2> QED BY <1>0, <2>1 DEF OnceInv
<1>4. CASE FillFlags
  <2>1. hpc = "flags" /\ hpc' = "kick" /\ UNCHANGED <<owner, rq>>
    BY <1>4 DEF FillFlags, calls
  <2> QED BY <1>0, <2>1 DEF OnceInv
<1>5. CASE CommandTimeout
  <2>1. hpc = "wait" /\ hpc' = "halt" /\ UNCHANGED <<word, owner, dpc, rq>>
    BY <1>5 DEF CommandTimeout, SafeConfig, comm, dsp
  <2> QED BY <1>0, <2>1 DEF OnceInv
<1>6. CASE CopyBack \/ SyncOk \/ GoOff \/ LoadFirmwareFails
  <2>1. /\ hpc' = "free"
        /\ \/ UNCHANGED rq
           \/ rq' = [rq EXCEPT ![owner] = "done"]
           \/ rq' = [rq EXCEPT ![owner] = "unmap"]
    BY <1>6 DEF CopyBack, SyncOk, GoOff, LoadFirmwareFails, BootSucceeds, BootFails, Unlock
  <2>2. \A s \in Requests : rq'[s] \in {"new", "mapped"} => rq[s] \in {"new", "mapped"}
    BY <2>1 DEF TypeOK
  <2> QED BY <1>0, <2>1, <2>2 DEF OnceInv
<1>7. CASE RuntimeResume
  <2>1. hpc' \in {"free", "halt"} /\ (hpc' = "halt" => owner' = Pm) /\ UNCHANGED rq
    BY <1>7 DEF RuntimeResume, calls
  <2> QED BY <1>0, <2>1, RequestsAssumption DEF OnceInv
<1>8. CASE RuntimeSuspend
  BY <1>0, <1>8 DEF RuntimeSuspend, OnceInv, comm, calls
<1>9. CASE \/ HaltReset \/ LoadFirmware \/ Release \/ SyncStart \/ SyncReady \/ WriteSyncData
           \/ SyncHostToDsp \/ SyncAck \/ SyncKick \/ SyncIrqReceived \/ SyncErr
           \/ SyncStartFails \/ SyncTimeout
  <2>1. hpc' \notin {"fill", "flags", "kick", "wait", "halt"} /\ UNCHANGED rq
    BY Zenon, <1>9 DEF HaltReset, LoadFirmware, Release, SyncStart, SyncReady, WriteSyncData,
      SyncHostToDsp, SyncAck, SyncKick, SyncIrqReceived, SyncErr, SyncStartFails, SyncTimeout,
      calls
  <2> QED BY <1>0, <2>1 DEF OnceInv
<1>10. CASE Interrupted
  BY <1>10 DEF Interrupted, SafeConfig
<1> QED
  BY <1>1, <1>2, <1>3, <1>4, <1>5, <1>6, <1>7, <1>8, <1>9, <1>10
  DEF Next, HostStep, HostEnvironment, Deadline

\* The steps of the DSP: the one that runs a handler finds that it has not
\* been run for this request.
LEMMA OnceDspStep ==
  ASSUME SafeConfig, HasFirmware, TypeOK, CallInv, PhaseInv, RestartInv, OnceInv, DspStep
  PROVE  OnceInv'
<1> USE DEF DspAt
<1>1. UNCHANGED <<hpc, owner, rq>>
  BY DspLeavesHost DEF host, calls
<1>2. ASSUME NEW outcome \in Outcomes, RunCommand(outcome) PROVE OnceInv'
  <2>1. ~stall /\ dpc = "run" /\ dpc' = "done" /\ UNCHANGED word
    BY <1>2 DEF RunCommand
  <2>2. ~off /\ hpc \notin RestartPcs \cup {"firmware"}
    BY <2>1 DEF RestartInv, CommandPcs
  <2>3. hpc \in {"kick", "wait", "halt"} /\ owner \in Requests /\ Working(owner) /\ word = 1
    <3>1. hpc \in {"free", "fill", "flags", "kick", "wait", "complete", "halt"}
      BY <2>2 DEF TypeOK, SubmitPcs, BootPcs, SyncPcs, RestartPcs
    <3>2. ~Idle /\ (Pending(owner) => Working(owner) /\ word = 1)
      BY <2>1, PhaseWords, QuietFacts DEF Idle, Pending
    <3>3. hpc \in {"kick", "wait", "halt"} /\ Pending(owner)
      BY <2>2, <3>1, <3>2, PhaseWords DEF PhaseInv, Settled, BootPcs
    <3>4. owner \in Requests
      BY <3>2, <3>3 DEF PhaseInv, CallInv, SubmitPcs, Settled, BootPcs
    <3> QED BY <3>2, <3>3, <3>4
  <2>4. dcur = owner /\ ran[owner] = 0
    BY <2>1, <2>3, PhaseWords DEF Working, OnceInv
  <2>5. \A r \in Requests : ran'[r] = ran[r] \/ (r = owner /\ ran'[r] = 1)
    BY <1>2, <2>3, <2>4 DEF RunCommand, TypeOK
  <2>6. hpc \notin {"fill", "flags"} /\ \A r \in Requests : rq[r] = "locked" <=> owner = r
    BY <2>3 DEF CallInv
  <2>7. ASSUME NEW r \in Requests
        PROVE  /\ ran'[r] <= 1
               /\ rq[r] \in {"new", "mapped"} => ran'[r] = 0
    <3>1. ran[r] <= 1 /\ (rq[r] \in {"new", "mapped"} => ran[r] = 0)
      BY DEF OnceInv
    <3>2. r = owner => rq[r] = "locked"
      BY <2>6
    <3> QED BY <2>5, <3>1, <3>2
  <2> QED BY <1>1, <2>1, <2>6, <2>7 DEF OnceInv
<1>3. CASE CompleteRequest
  <2>1. word' # 1 /\ UNCHANGED ran
    BY <1>3, AnswerIsComplete DEF CompleteRequest, hist
  <2> QED BY <1>1, <2>1, PhaseWords DEF OnceInv
<1>4. CASE Dispatch \/ TakeIrq \/ ClearIrq \/ HandshakeStart \/ HandshakePoll \/ SetSyncData
           \/ HandshakeIrq \/ ReadRequest \/ NotifyHost
  <2>1. UNCHANGED <<word, ran>> /\ dpc # "done"
    BY <1>4 DEF Dispatch, TakeIrq, ClearIrq, HandshakeStart, HandshakePoll, SetSyncData,
      HandshakeIrq, ReadRequest, NotifyHost, comm, hist
  <2> QED BY <1>1, <2>1 DEF OnceInv
<1>5. CASE HandshakeReady \/ HandshakeAck
  <2>1. word' # 1 /\ UNCHANGED ran
    BY <1>5, PhaseWords DEF HandshakeReady, HandshakeAck, hist
  <2> QED BY <1>1, <2>1, PhaseWords DEF OnceInv
<1> QED BY <1>2, <1>3, <1>4, <1>5 DEF DspStep

----------------------------------------------------------------------------
(* The IRQ that ends a synchronization.                                    *)

\* No IRQ has been sent to a host that has not booted its DSP.
LEMMA IrqInit == ASSUME IrqConfig, Init PROVE IrqInv
BY RequestsAssumption, ConfigAssumption DEF IrqConfig, Init, IrqInv, Silent

\* What IrqInv is about.
LEMMA IrqFrame ==
  ASSUME IrqInv, UNCHANGED <<word, hpc, owner, off, completion, dpc, stall, hostIrq, hsIrq>>
  PROVE  IrqInv'
BY DEF IrqInv, Silent, OnItsWay

\* Boots are for a resume: the wait for a command has no other end than the
\* command's.  The DSP can be halted, as it can raise an IRQ.
LEMMA IrqConfigFacts == ASSUME IrqConfig PROVE CanHalt /\ ~Signals /\ ~Timeouts /\ ~SharedIrq
BY ConfigAssumption DEF IrqConfig, SafeConfig

\* The steps of the host.
LEMMA IrqHostStep ==
  ASSUME IrqConfig, TypeOK, CallInv, PhaseInv, IrqInv, HostStep PROVE IrqInv'
<1> USE DEF HostAt, SubmitPcs, Silent, OnItsWay
<1>0. /\ CanHalt /\ ~Signals /\ ~Timeouts /\ HostIrq # "none"
      /\ hpc # "free" => ~off
      /\ off => stall
      /\ owner \in Requests => hpc \in SubmitPcs
  BY IrqConfigFacts DEF IrqConfig, CallInv, IrqInv
<1>1. CASE FillArea
  <2>1. hpc = "fill" /\ hpc' = "flags" /\ UNCHANGED <<owner, off, completion, dpc, stall, hostIrq>>
    BY <1>1 DEF FillArea, dsp, irqs
  <2> QED BY <2>1 DEF IrqInv
<1>2. CASE FillFlags
  <2>1. /\ hpc = "flags" /\ hpc' = "kick" /\ word' = RequestFlags
        /\ UNCHANGED <<owner, off, completion, dpc, stall, hostIrq>>
    BY <1>2 DEF FillFlags, dsp, irqs
  <2>2. Idle /\ dpc \in QuietPcs
    BY <1>0, <2>1, QuietFacts DEF PhaseInv, Idle
  <2> QED BY <1>0, <2>1, <2>2 DEF IrqInv, QuietPcs
<1>3. CASE KickDsp
  <2>1. /\ hpc = "kick" /\ hpc' = "wait"
        /\ UNCHANGED <<word, owner, off, completion, dpc, stall, hostIrq>>
    BY <1>3 DEF KickDsp, dsp, comm
  <2> QED BY <2>1 DEF IrqInv
<1>4. CASE CommandComplete
  <2>1. /\ hpc = "wait" /\ hpc' = "complete" /\ xrp_cmd_complete(word)
        /\ completion > 0 /\ completion' = completion - 1
        /\ UNCHANGED <<word, owner, off, dpc, stall, hostIrq>>
    BY <1>0, <1>4 DEF CommandComplete, dsp, comm, irqs
  <2>2. completion = 1 /\ ~hostIrq /\ dpc \in {"dispatch", "wait", "isr", "exit"}
    BY <2>1 DEF IrqInv, TypeOK
  <2> QED BY <2>1, <2>2 DEF IrqInv
<1>5. CASE CopyBack
  <2>1. hpc = "complete" /\ hpc' = "free" /\ owner' = Nothing
        /\ UNCHANGED <<off, completion, dpc, stall, hostIrq>>
    BY <1>5 DEF CopyBack, Unlock, dsp, irqs
  <2> QED BY <2>1, RequestsAssumption DEF IrqInv
<1>6. CASE HaltReset
  <2>1. hpc = "halt" /\ hpc' \in {"firmware", "release"} /\ dpc' = "dispatch" /\ stall'
        /\ UNCHANGED <<owner, off, completion, hostIrq>>
    BY <1>0, <1>6 DEF HaltReset
  <2> QED BY <1>0, <2>1 DEF IrqInv
<1>7. CASE LoadFirmware \/ Release
  <2>1. hpc \in {"firmware", "release"} /\ hpc' \in {"release", "start"}
        /\ UNCHANGED <<owner, off, completion, dpc, hostIrq>>
    BY <1>7 DEF LoadFirmware, Release, dsp, irqs
  <2> QED BY <1>0, <2>1 DEF IrqInv
<1>8. CASE SyncStart \/ SyncReady \/ WriteSyncData
  <2>1. hpc \in {"start", "ready", "data"} /\ hpc' \in {"ready", "data", "host"}
        /\ UNCHANGED <<owner, off, completion, dpc, stall, hostIrq>>
    BY <1>8 DEF SyncStart, SyncReady, WriteSyncData, dsp, irqs
  <2> QED BY <1>0, <2>1 DEF IrqInv
<1>9. CASE SyncHostToDsp
  <2>1. hpc = "host" /\ hpc' = "ack" /\ UNCHANGED <<owner, off, completion, dpc, stall, hostIrq>>
    BY <1>9 DEF SyncHostToDsp, dsp, irqs
  <2>2. dpc = "hs_ready"
    BY <2>1 DEF PhaseInv
  <2> QED BY <1>0, <2>1, <2>2 DEF IrqInv
<1>10. CASE SyncAck \/ SyncKick
  <2>1. hpc \in {"ack", "synckick"} /\ hpc' \in {"synckick", "syncwait"}
        /\ UNCHANGED <<owner, off, completion, dpc, stall, hostIrq, hsIrq>>
    BY <1>0, <1>10 DEF SyncAck, SyncKick, dsp, irqs, hist
  <2> QED BY <1>0, <2>1 DEF IrqInv
<1>11. CASE SyncIrqReceived
  <2>1. hpc = "syncwait" /\ hpc' = "ok" /\ completion > 0 /\ completion' = completion - 1
        /\ UNCHANGED <<owner, off, dpc, stall, hostIrq, hsIrq>>
    BY <1>11 DEF SyncIrqReceived, dsp, irqs, hist
  <2>2. completion = 1 /\ ~hostIrq /\ dpc \in {"dispatch", "wait", "isr"} /\ hsIrq
    BY <2>1 DEF IrqInv, TypeOK
  <2> QED BY <1>0, <2>1, <2>2 DEF IrqInv
<1>12. CASE SyncOk
  <2>1. hpc = "ok" /\ hpc' = "free" /\ owner' = Nothing
        /\ UNCHANGED <<off, completion, dpc, stall, hostIrq>>
    BY <1>12 DEF SyncOk, BootSucceeds, Unlock, dsp, irqs
  <2> QED BY <2>1, RequestsAssumption DEF IrqInv
<1>13. CASE SyncErr
  <2>1. hpc = "err" /\ hpc' = "off" /\ word' = XRP_DSP_SYNC_IDLE
        /\ UNCHANGED <<owner, off, completion, dpc, stall, hostIrq>>
    BY <1>13 DEF SyncErr, dsp, irqs
  <2> QED BY <1>0, <2>1 DEF IrqInv
<1>14. CASE GoOff
  <2>1. hpc = "off" /\ hpc' = "free" /\ owner' = Nothing /\ stall' /\ off'
    BY Zenon, <1>0, <1>14 DEF GoOff, BootFails, Unlock
  <2> QED BY <2>1, RequestsAssumption DEF IrqInv
<1> QED
  BY <1>1, <1>2, <1>3, <1>4, <1>5, <1>6, <1>7, <1>8, <1>9, <1>10, <1>11, <1>12, <1>13, <1>14
  DEF HostStep

\* The steps of callers, of the environment and of the host's interrupt handler.
LEMMA IrqOtherStep ==
  ASSUME IrqConfig, TypeOK, CallInv, PhaseInv, IrqInv,
         \/ \E r \in Requests : Map(r) \/ Lock(r) \/ Unmap(r)
         \/ HostEnvironment \/ Deadline \/ HostIsr
  PROVE  IrqInv'
<1> USE DEF HostAt, SubmitPcs, Silent, OnItsWay
<1>0. /\ CanHalt /\ ~Signals /\ ~Timeouts /\ ~SharedIrq /\ HostIrq # "none"
      /\ hpc # "free" => ~off
      /\ off => stall
      /\ owner \in Requests => hpc \in SubmitPcs
  BY IrqConfigFacts DEF IrqConfig, CallInv, IrqInv
<1>1. ASSUME NEW r \in Requests, Map(r) \/ Unmap(r) PROVE IrqInv'
  BY <1>1, IrqFrame DEF Map, Unmap, comm, host, dsp, irqs, hist
<1>2. ASSUME NEW r \in Requests, Lock(r) PROVE IrqInv'
  <2>1. /\ hpc = "free" /\ UNCHANGED <<off, completion, dpc, stall, hostIrq>>
        /\ UNCHANGED <<hpc, owner>> \/ hpc' = "fill"
    BY <1>2 DEF Lock, dsp, irqs
  <2> QED BY <2>1 DEF IrqInv
<1>3. CASE StaleCompletion
  <2>1. hpc = "wait" /\ completion > 0 /\ ~xrp_cmd_complete(word)
    BY <1>3 DEF StaleCompletion
  <2>2. word \in CompleteWords
    BY <2>1 DEF IrqInv, TypeOK
  <2> QED BY <2>1, <2>2, WordFacts DEF TypeOK
<1>4. CASE ForeignIsr \/ Interrupted \/ Deadline
  BY Zenon, <1>0, <1>4 DEF ForeignIsr, Interrupted, Deadline, CommandTimeout, SyncTimeout
<1>5. CASE LoadFirmwareFails
  <2>1. hpc = "firmware" /\ hpc' = "free" /\ owner' = Nothing
        /\ UNCHANGED <<off, completion, dpc, stall, hostIrq>>
    BY <1>5 DEF LoadFirmwareFails, BootFails, Unlock, dsp, irqs
  <2> QED BY <2>1, RequestsAssumption DEF IrqInv
<1>6. CASE SyncStartFails
  <2>1. /\ hpc = "start" /\ hpc' = "err"
        /\ UNCHANGED <<word, owner, off, completion, dpc, stall, hostIrq>>
    BY <1>6 DEF SyncStartFails, comm, dsp, irqs
  <2>2. Idle /\ ~stall
    BY <1>0, <2>1 DEF PhaseInv, Settled, BootPcs
  <2>3. word \in {XRP_DSP_SYNC_IDLE} \cup CompleteWords /\ dpc \in QuietPcs
    BY <2>2 DEF Idle
  <2> QED BY <1>0, <2>1, <2>3 DEF IrqInv, QuietPcs
<1>7. CASE RuntimeResume
  <2>1. /\ hpc = "free" /\ UNCHANGED <<off, completion, dpc, stall, hostIrq>>
        /\ UNCHANGED <<hpc, owner>> \/ (hpc' = "halt" /\ owner' = Pm)
    BY <1>7 DEF RuntimeResume, dsp, irqs
  <2> QED BY <2>1, RequestsAssumption DEF IrqInv
<1>8. CASE RuntimeSuspend
  <2>1. stall' /\ UNCHANGED <<word, hpc, owner, off, completion, dpc, hostIrq, hsIrq>>
    BY Zenon, <1>0, <1>8 DEF RuntimeSuspend, comm, irqs, hist
  <2> QED BY <2>1 DEF IrqInv
<1>9. CASE HostIsr
  <2>1. /\ hostIrq /\ ~hostIrq' /\ completion' \in {completion, completion + 1}
        /\ xrp_cmd_complete(word) \/ completion' = completion
        /\ UNCHANGED <<word, hpc, owner, off, dpc, stall, hsIrq>>
    BY <1>9 DEF HostIsr, comm, dsp, hist
  <2>2. CASE off
    <3>1. hpc = "free"
      BY <1>0, <2>2
    <3> QED BY <2>1, <2>2, <3>1 DEF IrqInv
  <2>3. CASE ~off
    <3>1. hpc \in {"kick", "wait", "ack", "synckick", "syncwait"} /\ completion = 0
      BY <2>1, <2>3 DEF IrqInv
    <3>2. completion' = 0 \/ completion' = 1
      BY <2>1, <3>1
    <3> QED BY <2>1, <2>3, <3>1, <3>2 DEF IrqInv
  <2> QED BY <2>2, <2>3
<1> QED
  BY <1>1, <1>2, <1>3, <1>4, <1>5, <1>6, <1>7, <1>8, <1>9 DEF HostEnvironment

\* Outside of the waits the DSP has nothing to do but to start the handshake.
LEMMA IrqQuiet ==
  ASSUME IrqConfig, CallInv, PhaseInv, IrqInv, TypeOK, ~stall,
         hpc \notin {"kick", "wait", "ack", "synckick", "syncwait"}
  PROVE  \/ dpc \in {"dispatch", "wait", "isr", "exit"} /\ word # 1 /\ (word = 257 => hpc = "ready")
         \/ dpc \in {"hs_start", "hs_write"} /\ hpc = "ready"
         \/ dpc = "hs_ready" /\ word = 515 /\ hpc \in {"ready", "data", "host"}
<1>0. ~off /\ dpc \notin {"proc", "run", "done", "irq", "hs_wait", "hs_isr", "hs_irq"}
  BY DEF IrqInv
<1>1. CASE hpc = "ready"
  <2>1. Starting /\ ~Working(owner)
    BY <1>0, <1>1 DEF PhaseInv, Working
  <2> QED BY <1>0, <1>1, <2>1, PhaseWords DEF Starting, QuietPcs
<1>2. CASE hpc \in {"data", "host"}
  BY <1>2, PhaseWords DEF PhaseInv
<1>3. CASE hpc \in {"err", "off"}
  BY <1>3, PhaseWords DEF IrqInv
<1>4. CASE hpc = "ok"
  BY <1>0, <1>4, PhaseWords DEF PhaseInv, QuietPcs
<1>5. CASE hpc = "complete"
  BY <1>0, <1>5, PhaseWords, QuietFacts DEF PhaseInv, Pending, QuietPcs
<1>6. CASE hpc \in {"free", "fill", "flags"} \cup BootPcs
  <2>1. owner \in Requests => hpc \in SubmitPcs
    BY DEF IrqInv
  <2>2. Idle
    BY <1>0, <1>6, <2>1 DEF PhaseInv, Settled, BootPcs, SubmitPcs
  <2> QED BY <1>0, <2>2, PhaseWords DEF Idle, QuietPcs
<1> QED
  BY <1>1, <1>2, <1>3, <1>4, <1>5, <1>6 DEF TypeOK, SubmitPcs, BootPcs, SyncPcs

\* The steps of the DSP.
LEMMA IrqDspStep ==
  ASSUME IrqConfig, TypeOK, CallInv, PhaseInv, IrqInv, DspStep PROVE IrqInv'
<1> USE DEF DspAt, Silent, OnItsWay
<1>0. ~stall /\ ~off /\ UNCHANGED <<hpc, owner, off, completion, stall>>
  <2>1. ~stall /\ UNCHANGED <<hpc, owner, off, completion, stall>>
    BY DEF DspStep, Dispatch, TakeIrq, ClearIrq, HandshakeStart, HandshakeReady, HandshakePoll,
      SetSyncData, HandshakeAck, HandshakeIrq, ReadRequest, RunCommand, CompleteRequest,
      NotifyHost, host
  <2> QED BY <2>1 DEF IrqInv
<1>1. hpc \notin {"kick", "wait", "ack", "synckick", "syncwait"} =>
        \/ dpc \in {"dispatch", "wait", "isr", "exit"} /\ word # 1 /\ (word = 257 => hpc = "ready")
        \/ dpc \in {"hs_start", "hs_write"} /\ hpc = "ready"
        \/ dpc = "hs_ready" /\ word = 515 /\ hpc \in {"ready", "data", "host"}
  BY <1>0, IrqQuiet
<1>2. /\ hpc = "ack" => \/ word = 1 /\ dpc \in {"hs_ready", "hs_data", "hs_ack"}
                        \/ word = 3 /\ dpc \in QuietPcs
      /\ hpc \in {"synckick", "syncwait"} => word = 3 /\ dpc \in QuietPcs
  BY PhaseWords DEF PhaseInv, Acking
<1>3. /\ hpc \in {"kick", "wait"} =>
           \/ word = 1 /\ Silent
              /\ dpc \in {"dispatch", "wait", "isr", "proc", "run", "done", "exit"}
           \/ word \in {3, 11} /\ Silent /\ dpc = "irq"
           \/ word \in {3, 11} /\ OnItsWay /\ dpc \in {"dispatch", "wait", "isr", "exit"}
      /\ hpc \in {"ack", "synckick", "syncwait"} =>
           \/ Silent /\ dpc \in {"hs_ready", "hs_data", "hs_ack", "hs_wait", "hs_isr", "hs_irq"}
           \/ OnItsWay /\ dpc \in {"dispatch", "wait", "isr"} /\ hsIrq
  BY PhaseWords DEF IrqInv
<1>4. CASE Dispatch
  <2>1. /\ dpc = "dispatch" /\ UNCHANGED <<word, hostIrq, hsIrq>>
        /\ \/ word = 257 /\ dpc' = "hs_start"
           \/ word = 1 /\ dpc' = "proc"
           \/ dpc' = "wait"
    BY <1>4, WordFacts, PhaseWords DEF Dispatch, comm, irqs, hist, TypeOK
  <2>2. CASE hpc \in {"kick", "wait"}
    <3>1. \/ word = 1 /\ Silent /\ dpc' \in {"proc", "wait"}
          \/ word \in {3, 11} /\ OnItsWay /\ dpc' = "wait"
      BY <1>3, <2>1, <2>2
    <3>2. RequestFlags = 1 /\ CompleteWords = {3, 11}
      BY PhaseWords
    <3>3. \/ word' = RequestFlags /\ Silent' /\ dpc' \in {"proc", "wait"}
          \/ word' \in CompleteWords /\ OnItsWay' /\ dpc' = "wait"
      BY <1>0, <2>1, <3>1, <3>2
    <3> QED BY <1>0, <2>2, <3>3 DEF IrqInv
  <2>3. CASE hpc \in {"ack", "synckick", "syncwait"}
    <3>1. dpc' = "wait" /\ OnItsWay /\ hsIrq
      BY <1>2, <1>3, <2>1, <2>3
    <3> QED BY <1>0, <2>1, <2>3, <3>1 DEF IrqInv
  <2>4. CASE hpc \notin {"kick", "wait", "ack", "synckick", "syncwait"}
    <3>1. Silent /\ (hpc = "ok" => hsIrq)
      BY <1>0, <2>4 DEF IrqInv
    <3>2. dpc' = "wait" \/ (dpc' = "hs_start" /\ hpc = "ready")
      BY <1>1, <2>1, <2>4
    <3>3. hpc \in {"err", "off"} => word \in {XRP_DSP_SYNC_IDLE} \cup CompleteWords
      BY DEF IrqInv
    <3> QED BY <1>0, <2>1, <2>4, <3>1, <3>2, <3>3 DEF IrqInv
  <2> QED BY <2>2, <2>3, <2>4
<1>5. CASE TakeIrq \/ ClearIrq
  <2>1. /\ UNCHANGED <<word, hostIrq, hsIrq>>
        /\ \/ dpc \in {"wait", "isr"} /\ dpc' \in {"isr", "dispatch"}
           \/ dpc \in {"hs_wait", "hs_isr"} /\ dpc' \in {"hs_isr", "hs_irq"}
    BY <1>5 DEF TakeIrq, ClearIrq, comm, irqs, hist
  <2>2. CASE hpc \in {"kick", "wait"}
    BY <1>0, <2>1, <2>2 DEF IrqInv
  <2>3. CASE hpc \in {"ack", "synckick", "syncwait"}
    BY <1>0, <2>1, <2>3 DEF IrqInv
  <2>4. CASE hpc \notin {"kick", "wait", "ack", "synckick", "syncwait"}
    BY <1>0, <1>1, <2>1, <2>4 DEF IrqInv
  <2> QED BY <2>2, <2>3, <2>4
<1>6. CASE HandshakeIrq
  <2>1. dpc = "hs_irq" /\ dpc' = "dispatch" /\ hsIrq' /\ UNCHANGED word
    BY <1>6 DEF HandshakeIrq, comm
  <2>2. hpc \in {"ack", "synckick", "syncwait"} /\ Silent
    BY <1>1, <1>3, <2>1
  <2> QED BY <1>0, <2>1, <2>2 DEF IrqInv
<1>7. CASE NotifyHost
  <2>1. dpc = "irq" /\ dpc' \in {"dispatch", "exit"} /\ UNCHANGED <<word, hsIrq>>
    BY <1>7 DEF NotifyHost, comm, hist
  <2>2. hpc \in {"kick", "wait"} /\ Silent /\ word \in CompleteWords
    BY <1>1, <1>3, <2>1, PhaseWords
  <2> QED BY <1>0, <2>1, <2>2 DEF IrqInv
<1>8. CASE HandshakeStart \/ HandshakeReady
  <2>1. /\ dpc \in {"hs_start", "hs_write"} /\ dpc' \in {"hs_write", "hs_ready"}
        /\ UNCHANGED <<hostIrq, hsIrq>>
    BY <1>8 DEF HandshakeStart, HandshakeReady, irqs, hist
  <2>2. hpc = "ready"
    BY <1>1, <1>3, <2>1
  <2> QED BY <1>0, <2>1, <2>2 DEF IrqInv
<1>9. CASE HandshakePoll
  <2>1. /\ dpc = "hs_ready" /\ UNCHANGED <<word, hostIrq, hsIrq>>
        /\ \/ word = 1 /\ dpc' = "hs_data"
           \/ word \notin {1, 515} /\ dpc' = "dispatch"
    BY <1>9, PhaseWords DEF HandshakePoll, comm, irqs, hist
  <2>2. hpc = "ack" /\ word = 1
    BY <1>1, <1>2, <1>3, <2>1, QuietFacts
  <2> QED BY <1>0, <1>3, <2>1, <2>2 DEF IrqInv
<1>10. CASE SetSyncData \/ HandshakeAck
  <2>1. /\ dpc \in {"hs_data", "hs_ack"} /\ dpc' \in {"hs_ack", "hs_wait", "hs_irq"}
        /\ UNCHANGED <<hostIrq, hsIrq>>
    BY <1>10 DEF SetSyncData, HandshakeAck, irqs, hist
  <2>2. hpc \in {"ack", "synckick", "syncwait"} /\ Silent
    BY <1>1, <1>3, <2>1
  <2> QED BY <1>0, <2>1, <2>2 DEF IrqInv
<1>11. CASE ReadRequest \/ \E outcome \in Outcomes : RunCommand(outcome)
  <2>1. dpc \in {"proc", "run"} /\ dpc' \in {"run", "done"} /\ UNCHANGED <<word, hostIrq, hsIrq>>
    BY <1>11 DEF ReadRequest, RunCommand, comm, irqs, hist
  <2>2. hpc \in {"kick", "wait"} /\ Silent /\ word = 1
    BY <1>1, <1>3, <2>1
  <2> QED BY <1>0, <2>1, <2>2, PhaseWords DEF IrqInv
<1>12. CASE CompleteRequest
  <2>1. dpc = "done" /\ dpc' = "irq" /\ word' \in {3, 11} /\ UNCHANGED <<hostIrq, hsIrq>>
    BY <1>12, AnswerIsComplete DEF CompleteRequest, irqs, hist
  <2>2. hpc \in {"kick", "wait"} /\ Silent
    BY <1>1, <1>3, <2>1
  <2> QED BY <1>0, <2>1, <2>2, PhaseWords DEF IrqInv
<1> QED
  BY <1>4, <1>5, <1>6, <1>7, <1>8, <1>9, <1>10, <1>11, <1>12 DEF DspStep

----------------------------------------------------------------------------
(* The promises.                                                           *)

\* xrp_ioctl_submit_sync returns 0 only with the response to its request: every
\* step keeps ResponseIsOwn when the phases are respected.
LEMMA ResponseStep ==
  ASSUME SafeConfig, TypeOK, CallInv, PhaseInv, ResponseIsOwn, [Next]_vars
  PROVE  ResponseIsOwn'
<1> USE DEF ResponseIsOwn, TypeOK, Returns
<1>1. CASE CopyBack
  <2>1. owner \in Requests /\ Pending(owner) /\ word \in {3, 11}
    BY <1>1, WordFacts DEF CopyBack, CallInv, PhaseInv, SubmitPcs
  <2>2. word = 3 => resp = owner
    BY <2>1, WordFacts DEF Pending
  <2>3. CASE word = 3
    BY <1>1, <2>1, <2>2, <2>3 DEF CopyBack, Unlock
  <2>4. CASE word = 11
    <3>1. DeliveryFailed(word)
      BY <2>4, WordFacts
    <3>2. ret' = [ret EXCEPT ![owner] = "enxio"] /\ got' = [got EXCEPT ![owner] = resp]
      BY <1>1, <3>1 DEF CopyBack, Unlock
    <3> QED BY <2>1, <3>2
  <2> QED BY <2>1, <2>3, <2>4
<1>2. ASSUME NEW r \in Requests, Map(r) \/ Lock(r) \/ Unmap(r) PROVE ResponseIsOwn'
  BY <1>2 DEF Map, Lock, Unmap
<1>3. CASE HostStep /\ ~CopyBack
  BY Zenon, <1>3 DEF HostStep, FillArea, FillFlags, KickDsp, CommandComplete, HaltReset,
    LoadFirmware, Release, SyncStart, SyncReady, WriteSyncData, SyncHostToDsp, SyncAck, SyncKick,
    SyncIrqReceived, SyncErr, SyncOk, GoOff, BootSucceeds, BootFails, Unlock, calls
<1>4. CASE HostEnvironment
  BY <1>4 DEF HostEnvironment, StaleCompletion, Interrupted, LoadFirmwareFails, SyncStartFails,
    RuntimeResume, RuntimeSuspend, ForeignIsr, BootFails, Unlock, calls
<1>5. CASE Deadline \/ HostIsr
  BY Zenon, <1>5 DEF Deadline, CommandTimeout, SyncTimeout, HostIsr, Unlock, calls
<1>6. CASE DspStep
  BY <1>6, DspLeavesHost DEF calls
<1>7. CASE UNCHANGED vars
  BY <1>7 DEF vars
<1> HIDE DEF ResponseIsOwn, TypeOK
<1> QED BY <1>1, <1>2, <1>3, <1>4, <1>5, <1>6, <1>7 DEF Next

\* What the proofs carry from state to state.
LinkIInv ==
  /\ TypeOK /\ CallInv
  /\ SafeConfig => /\ PhaseInv /\ ResponseIsOwn
                   /\ HasFirmware => RestartInv /\ OnceInv

\* A device that has just been probed satisfies all of it.
LEMMA LinkIInvInit == Init => LinkIInv
<1>1. Init => ResponseIsOwn
  BY DEF Init, ResponseIsOwn
<1> QED BY <1>1, TypeInit, CallInit, PhaseInit, RestartInit DEF LinkIInv

\* So does every state that a step of the driver, of the DSP or of the hardware
\* leads to.
LEMMA LinkIInvStep == LinkIInv /\ [Next]_vars => LinkIInv'
<1> SUFFICES ASSUME LinkIInv, [Next]_vars PROVE LinkIInv'
  OBVIOUS
<1>1. TypeOK' /\ CallInv'
  <2>1. OwnerInv
    BY DEF LinkIInv, CallInv, OwnerInv
  <2> QED BY <2>1, TypeStep, CallStep DEF LinkIInv
<1>2. ASSUME SafeConfig PROVE PhaseInv' /\ ResponseIsOwn'
  <2>1. CASE UNCHANGED vars
    BY <1>2, <2>1, PhaseFrame DEF LinkIInv, vars, comm, host, calls, dsp, ResponseIsOwn
  <2>2. CASE Next
    BY <1>2, <2>2, PhaseHostStep, PhaseOtherStep, PhaseDspStep, ResponseStep DEF LinkIInv, Next
  <2> QED BY <2>1, <2>2
<1>3. ASSUME SafeConfig, HasFirmware PROVE RestartInv' /\ OnceInv'
  <2>0. TypeOK /\ CallInv /\ PhaseInv /\ RestartInv /\ OnceInv
    BY <1>3 DEF LinkIInv
  <2>1. CASE UNCHANGED vars
    BY <2>0, <2>1, RestartFrame DEF vars, OnceInv
  <2>2. CASE Next
    <3>1. RestartInv'
      BY <1>3, <2>0, <2>2, RestartHostStep, RestartOtherStep, RestartDspStep DEF Next
    <3>2. OnceInv'
      BY <1>3, <2>0, <2>2, OnceHostStep, OnceDspStep
    <3> QED BY <3>1, <3>2
  <2> QED BY <2>1, <2>2
<1> QED BY Zenon, <1>1, <1>2, <1>3 DEF LinkIInv, SafeConfig

\* In a safe configuration the host's step determines what the DSP may be
\* doing, in every reachable state and for any number of requests; where the
\* driver loads the firmware, also what a restarted DSP may find.
THEOREM LinkInvariant == Spec => []LinkInv
<1>1. LinkIInv => LinkInv
  BY DEF LinkIInv, LinkInv
<1> QED BY <1>1, LinkIInvInit, LinkIInvStep, PTL DEF Spec

\* A synchronization that ends well in IRQ mode has received the IRQ which the
\* DSP sent in this very handshake, when no deadline passes and the line is not
\* shared: no completion is left over from a command or from an earlier boot
\* (xrp_synchronize, xvp_complete_cmd_irq).
THEOREM SyncTestsIrq == ASSUME SafeConfig, ~Timeouts, ~SharedIrq PROVE Spec => []IrqTested
<1>1. CASE HostIrq = "none"
  <2>1. IrqTested
    BY <1>1 DEF IrqTested
  <2> QED BY <2>1, PTL
<1>2. CASE HostIrq # "none"
  <2>0. IrqConfig
    BY <1>2 DEF IrqConfig
  <2>1. Init => IrqInv
    BY <2>0, IrqInit
  <2>2. TypeOK /\ LinkInv /\ IrqInv /\ [Next]_vars => IrqInv'
    <3> SUFFICES ASSUME TypeOK, LinkInv, IrqInv, [Next]_vars PROVE IrqInv'
      OBVIOUS
    <3>1. CallInv /\ PhaseInv
      BY DEF LinkInv
    <3>2. CASE UNCHANGED vars
      BY <3>2, IrqFrame DEF vars
    <3>3. CASE Next
      BY <2>0, <3>1, <3>3, IrqHostStep, IrqOtherStep, IrqDspStep DEF Next
    <3> QED BY <3>2, <3>3
  <2>3. IrqInv => IrqTested
    BY DEF IrqInv, IrqTested
  <2> QED BY <2>1, <2>2, <2>3, TypeCorrect, LinkInvariant, PTL DEF Spec
<1> QED BY <1>1, <1>2

\* The same on the two kinds of boards whose firmware xrp_boot_firmware loads,
\* for any number of requests and any bounds on the calls: they start and move
\* as XrpLink does.
LEMMA LoadedBoards == LoadedSpec => []LinkInv
<1>1. LoadedInit => LinkIInv
  BY LinkIInvInit DEF LoadedInit
<1>2. LinkIInv /\ [LoadedNext]_<<board, vars>> => LinkIInv'
  <2>1. [LoadedNext]_<<board, vars>> => [Next]_vars
    BY DEF LoadedNext
  <2> QED BY <2>1, LinkIInvStep
<1>3. LinkIInv => LinkInv
  BY DEF LinkIInv, LinkInv
<1> QED BY <1>1, <1>2, <1>3, PTL DEF LoadedSpec

\* The handler runs at most once for a request, whatever timeouts, reboots and
\* failed reboots come between (xrp_boot_firmware clears the word before it
\* releases the DSP, and a firmware that cannot be loaded leaves it halted).
THEOREM LoadedOnce == ASSUME SafeConfig, HasFirmware PROVE LoadedSpec => []LoadedRunsOnce
<1>1. LinkInv => LoadedRunsOnce
  BY DEF LinkInv, OnceInv, RunsOnce, LoadedRunsOnce
<1> QED BY <1>1, LoadedBoards, PTL

\* A DSP takes no command before it has been synchronized since its last reset:
\* what a restart leaves in the area is never dispatched (xrp_boot_firmware).
THEOREM LoadedSync == ASSUME SafeConfig, HasFirmware PROVE LoadedSpec => []LoadedSyncsFirst
<1>1. LinkInv => LoadedSyncsFirst
  BY DEF LinkInv, RestartInv, SyncFirst, CommandPcs, LoadedSyncsFirst
<1> QED BY <1>1, LoadedBoards, PTL

\* A command the DSP is in process_command for is the lock holder's, or its
\* buffers have been leaked.
LEMMA RunningIsLent ==
  ASSUME PhaseInv, CallInv, TypeOK, dpc \in {"proc", "run", "done"}
  PROVE  \E r \in Requests : Working(r) /\ (owner = r \/ mem[r] = "leaked")
<1>1. CASE hpc = "off" \/ off
  BY <1>1 DEF PhaseInv, GivenUp
<1>2. CASE ~(hpc = "off" \/ off)
  <2>1. Pending(owner) => Working(owner)
    BY DEF Pending, QuietPcs
  <2>2. owner \in Requests /\ Working(owner)
    BY <1>2, <2>1 DEF PhaseInv, CallInv, TypeOK, Settled, Starting, Acking, Idle, QuietPcs,
      SubmitPcs, BootPcs, SyncPcs
  <2> QED BY <2>2
<1> QED BY <1>1, <1>2

\* While the handler of a request runs its buffers have not been given back.
THEOREM SafeMemory == ASSUME SafeConfig PROVE Spec => []NoUseAfterUnmap
<1>1. TypeOK /\ LinkInv => NoUseAfterUnmap
  BY RunningIsLent DEF LinkInv, NoUseAfterUnmap, CallInv, Working
<1> QED BY <1>1, TypeCorrect, LinkInvariant, PTL

\* A call that returns 0 has the response to its own request.
THEOREM SafeResponses == ASSUME SafeConfig PROVE Spec => []ResponseIsOwn
<1>1. LinkInv => ResponseIsOwn
  BY DEF LinkInv
<1> QED BY <1>1, LinkInvariant, PTL

\* Host and DSP never use the communication area at the same time.
THEOREM SafeArea == ASSUME SafeConfig PROVE Spec => []ExclusiveArea
<1>1. TypeOK /\ LinkInv => ExclusiveArea
  <2> SUFFICES ASSUME TypeOK, LinkInv PROVE ExclusiveArea
    OBVIOUS
  <2>1. PhaseInv /\ CallInv
    BY DEF LinkInv
  <2>2. hpc \in {"fill", "flags"} => dpc \in QuietPcs
    BY <2>1 DEF PhaseInv, CallInv, Idle, QuietPcs
  <2>3. hpc \in {"data", "host"} => dpc = "hs_ready"
    BY <2>1 DEF PhaseInv
  <2>4. dpc = "hs_data" => area = SyncData
    BY <2>1, WordFacts DEF PhaseInv, CallInv, TypeOK, Settled, Starting, Acking, GivenUp, Pending,
      Working, Idle, QuietPcs, SubmitPcs, BootPcs, SyncPcs
  <2>5. dpc = "proc" => area \in Requests
    BY <2>1, RunningIsLent DEF Working
  <2> QED BY <2>2, <2>3, <2>4, <2>5 DEF ExclusiveArea, QuietPcs
<1> QED BY <1>1, TypeCorrect, LinkInvariant, PTL

-----------------------------------------------------------------------------

(* The link implements the exchange of commands.                           *)

\* The steps that the abstraction does not see.
LEMMA Unseen ==
  ASSUME UNCHANGED <<rq, ret, mem, resp>>,
         \/ UNCHANGED <<dpc, dcur>>
         \/ dpc # "run" /\ dpc' # "run"
  PROVE  UNCHANGED Exchange!vars
<1>1. UNCHANGED <<Statuses, Memories, resp>>
  BY DEF Statuses, Memories, CallStatus, MemoryStatus
<1>2. UNCHANGED Running
  BY DEF Running
<1> QED BY <1>1, <1>2 DEF Exchange!vars

\* One call changes its status.
LEMMA OneStatus ==
  ASSUME TypeOK, NEW r \in Requests, NEW x, NEW y,
         rq' = [rq EXCEPT ![r] = x], ret' = [ret EXCEPT ![r] = y]
  PROVE  Statuses' = [Statuses EXCEPT ![r] = CallStatus(r)']
<1>1. \A q \in Requests : q # r => CallStatus(q)' = CallStatus(q)
  BY DEF CallStatus, TypeOK
<1> QED BY Zenon, <1>1 DEF Statuses

\* The lock holder leaves with a failure: Fail in the abstraction.
LEMMA FailedUnlock ==
  ASSUME TypeOK, CallInv, NEW r \in Requests, owner = r, NEW res \in Returns \ {"none", "ok"},
         NEW lost \in BOOLEAN, Unlock(res, lost), UNCHANGED <<resp, dpc, dcur>>
  PROVE  Exchange!Fail(r)
<1>1. UNCHANGED Running
  BY DEF Running
<1>2. Statuses[r] = "submitted" /\ Statuses' = [Statuses EXCEPT ![r] = "failed"]
  <2>1. rq[r] = "locked" /\ ret[r] = "none"
    BY DEF CallInv
  <2>2. /\ rq' = [rq EXCEPT ![r] = IF lost THEN "done" ELSE "unmap"]
        /\ ret' = [ret EXCEPT ![r] = res]
    BY DEF Unlock
  <2>3. Statuses[r] = "submitted"
    BY <2>1 DEF Statuses, CallStatus
  <2>4. CallStatus(r)' = "failed"
    BY <2>2 DEF CallStatus, TypeOK, Returns
  <2> QED BY Zenon, <2>2, <2>3, <2>4, OneStatus
<1>3. Memories' \in {Memories, [Memories EXCEPT ![r] = "lost"]}
  <2>1. CASE lost
    <3>1. mem' = [mem EXCEPT ![r] = "leaked"]
      BY <2>1 DEF Unlock
    <3> QED BY Zenon, <3>1 DEF Memories, MemoryStatus, TypeOK
  <2>2. CASE ~lost
    <3>1. mem' = mem
      BY <2>2 DEF Unlock, TypeOK
    <3> QED BY <3>1 DEF Memories, MemoryStatus
  <2> QED BY <2>1, <2>2
<1> QED BY <1>1, <1>2, <1>3 DEF Exchange!Fail

\* Every step of the link is one step of the exchange, or unseen.
LEMMA ExchangeStep ==
  ASSUME SafeConfig, TypeOK, CallInv, PhaseInv, [Next]_vars
  PROVE  [Exchange!Next]_(Exchange!vars)
<1> USE DEF comm, host, calls, dsp
<1>1. ASSUME NEW r \in Requests, Map(r) PROVE Exchange!Submit(r)
  <2>1. /\ rq[r] = "new" /\ rq' = [rq EXCEPT ![r] = "mapped"]
        /\ mem' = [mem EXCEPT ![r] = "mapped"] /\ ret[r] = "none"
        /\ UNCHANGED <<ret, resp, dpc, dcur>>
    BY <1>1 DEF Map, CallInv
  <2>2. Statuses[r] = "new" /\ Statuses' = [Statuses EXCEPT ![r] = "submitted"]
    <3>1. ret' = [ret EXCEPT ![r] = "none"]
      BY <2>1 DEF TypeOK
    <3>2. CallStatus(r)' = "submitted"
      <4>1. rq'[r] = "mapped" /\ ret'[r] = "none"
        BY <2>1, <3>1 DEF TypeOK
      <4> QED BY <4>1 DEF CallStatus
    <3> QED BY Zenon, <2>1, <3>1, <3>2, OneStatus DEF Statuses, CallStatus
  <2>3. Memories' = [Memories EXCEPT ![r] = "dsp"]
    BY Zenon, <2>1 DEF Memories, MemoryStatus, TypeOK
  <2> QED BY <2>1, <2>2, <2>3 DEF Exchange!Submit, Running
<1>2. ASSUME NEW r \in Requests, Lock(r) PROVE Exchange!Fail(r) \/ UNCHANGED Exchange!vars
  <2>1. rq[r] = "mapped" /\ ret[r] = "none" /\ UNCHANGED <<mem, resp, dpc, dcur>>
    BY <1>2 DEF Lock, CallInv
  <2>2. UNCHANGED <<Memories, Running, resp>>
    BY <2>1 DEF Memories, MemoryStatus, Running
  <2>3. CASE /\ rq' = [rq EXCEPT ![r] = "unmap"]
             /\ ret' = [ret EXCEPT ![r] = "enodev"]
    <3>1. Statuses[r] = "submitted" /\ Statuses' = [Statuses EXCEPT ![r] = "failed"]
      <4>1. CallStatus(r)' = "failed"
        <5>1. rq'[r] = "unmap" /\ ret'[r] = "enodev"
          BY <2>3 DEF TypeOK
        <5> QED BY <5>1 DEF CallStatus
      <4> QED BY Zenon, <2>1, <2>3, <4>1, OneStatus DEF Statuses, CallStatus
    <3> QED BY <2>2, <3>1 DEF Exchange!Fail
  <2>4. CASE /\ rq' = [rq EXCEPT ![r] = "locked"]
             /\ UNCHANGED ret
    <3>1. UNCHANGED Statuses
      BY <2>1, <2>4 DEF Statuses, CallStatus, TypeOK
    <3> QED BY <2>2, <3>1 DEF Exchange!vars
  <2> QED BY <1>2, <2>3, <2>4 DEF Lock
<1>3. ASSUME NEW r \in Requests, Unmap(r) PROVE Exchange!GiveBack(r)
  <2>1. /\ rq[r] = "unmap" /\ rq' = [rq EXCEPT ![r] = "done"]
        /\ mem[r] = "mapped" /\ mem' = [mem EXCEPT ![r] = "unmapped"]
        /\ ret[r] # "none" /\ owner # r /\ UNCHANGED <<ret, resp, dpc, dcur>>
    BY <1>3 DEF Unmap, CallInv
  <2>2. Statuses[r] \in {"ok", "failed"} /\ UNCHANGED Statuses
    BY <2>1 DEF Statuses, CallStatus, TypeOK
  <2>3. Memories[r] = "dsp" /\ Memories' = [Memories EXCEPT ![r] = "host"]
    BY Zenon, <2>1 DEF Memories, MemoryStatus, TypeOK
  <2>4. Running # r
    BY <2>1, RunningIsLent, RequestsAssumption DEF Running, Working
  <2>5. UNCHANGED Running
    BY <2>1 DEF Running
  <2> QED BY <2>1, <2>2, <2>3, <2>4, <2>5 DEF Exchange!GiveBack
<1>4. CASE CopyBack
  <2>1. PICK r \in Requests : owner = r
    BY <1>4 DEF CopyBack, CallInv, SubmitPcs
  <2>2. Pending(r) /\ word \in {3, 11} /\ UNCHANGED <<resp, dpc, dcur>>
    BY <1>4, <2>1, WordFacts DEF CopyBack, PhaseInv
  <2>3. CASE word = 3
    <3>1. resp = r /\ dpc # "run"
      BY <2>2, <2>3, WordFacts DEF Pending, QuietPcs
    <3>2. Unlock("ok", FALSE)
      <4>1. ~DeliveryFailed(word)
        BY <2>3, PhaseWords
      <4> QED BY Zenon, <1>4, <4>1 DEF CopyBack
    <3>3. /\ rq[r] = "locked" /\ ret[r] = "none" /\ mem' = mem
          /\ rq' = [rq EXCEPT ![r] = "unmap"] /\ ret' = [ret EXCEPT ![r] = "ok"]
      <4>1. rq[r] = "locked" /\ ret[r] = "none"
        BY <2>1 DEF CallInv
      <4>2. /\ rq' = [rq EXCEPT ![r] = "unmap"] /\ ret' = [ret EXCEPT ![r] = "ok"]
            /\ mem' = [mem EXCEPT ![r] = mem[r]]
        BY <2>1, <3>2 DEF Unlock
      <4>3. mem' = mem
        BY <4>2 DEF TypeOK
      <4> QED BY <4>1, <4>2, <4>3
    <3>4. Statuses[r] = "submitted" /\ Statuses' = [Statuses EXCEPT ![r] = "ok"]
      <4>1. CallStatus(r)' = "ok"
        <5>1. rq'[r] = "unmap" /\ ret'[r] = "ok"
          BY <3>3 DEF TypeOK
        <5> QED BY <5>1 DEF CallStatus
      <4>2. Statuses[r] = "submitted"
        BY <3>3 DEF Statuses, CallStatus
      <4> QED BY Zenon, <3>3, <4>1, <4>2, OneStatus
    <3>5. UNCHANGED <<Memories, Running>> /\ Running = Nothing
      BY <2>2, <3>1, <3>3 DEF Memories, MemoryStatus, Running
    <3>6. Exchange!Succeed(r)
      BY <2>2, <3>1, <3>4, <3>5, RequestsAssumption DEF Exchange!Succeed
    <3> QED BY <3>6 DEF Exchange!Next
  <2>4. CASE word = 11
    <3>1. Unlock("enxio", FALSE)
      <4>1. DeliveryFailed(word)
        BY <2>4, PhaseWords
      <4> QED BY Zenon, <1>4, <4>1 DEF CopyBack
    <3>2. Exchange!Fail(r)
      BY Zenon, <2>1, <2>2, <3>1, FailedUnlock DEF Returns
    <3> QED BY <3>2 DEF Exchange!Next
  <2> QED BY <2>2, <2>3, <2>4
<1>5. CASE SyncOk
  <2>1. UNCHANGED <<resp, dpc, dcur>> /\ BootSucceeds
    BY <1>5 DEF SyncOk
  <2>2. CASE UNCHANGED <<rq, ret, mem>>
    BY <2>1, <2>2, Unseen
  <2>3. CASE owner # Pm /\ Unlock("ebusy", FALSE)
    <3>1. PICK r \in Requests : owner = r
      BY <1>5, <2>3 DEF SyncOk, CallInv, TypeOK
    <3>2. Exchange!Fail(r)
      BY Zenon, <2>1, <2>3, <3>1, FailedUnlock DEF Returns
    <3> QED BY <3>2 DEF Exchange!Next
  <2> QED BY <2>1, <2>2, <2>3 DEF BootSucceeds
<1>6. CASE GoOff \/ LoadFirmwareFails
  <2>1. /\ UNCHANGED <<resp, dpc, dcur>> /\ hpc # "free"
        /\ \E lost \in BOOLEAN : BootFails(lost)
    BY Zenon, <1>6 DEF GoOff, LoadFirmwareFails, TypeOK
  <2>2. PICK lost \in BOOLEAN : BootFails(lost)
    BY <2>1
  <2>3. CASE UNCHANGED <<rq, ret, mem>>
    BY <2>1, <2>3, Unseen
  <2>4. CASE owner # Pm /\ Unlock("error", lost)
    <3>1. PICK r \in Requests : owner = r
      BY <2>1, <2>4 DEF CallInv, TypeOK
    <3>2. Exchange!Fail(r)
      BY <2>1, <2>4, <3>1, FailedUnlock DEF Returns
    <3> QED BY <3>2 DEF Exchange!Next
  <2> QED BY <2>2, <2>3, <2>4 DEF BootFails
<1>7. CASE HaltReset
  <2>1. UNCHANGED <<rq, ret, mem, resp, dcur>> /\ (dpc' = "dispatch" \/ UNCHANGED dpc)
    BY <1>7 DEF HaltReset
  <2>2. CASE dpc = "run" /\ dpc' = "dispatch"
    <3>1. Running # Nothing /\ Running' = Nothing
      BY <2>2, RunningIsLent, RequestsAssumption DEF Running, Working
    <3>2. UNCHANGED <<Statuses, Memories>>
      BY <2>1 DEF Statuses, Memories, CallStatus, MemoryStatus
    <3>3. Exchange!Finish
      BY <2>1, <3>1, <3>2 DEF Exchange!Finish
    <3> QED BY <3>3 DEF Exchange!Next
  <2>3. CASE ~(dpc = "run" /\ dpc' = "dispatch")
    BY <2>1, <2>3, Unseen
  <2> QED BY <2>2, <2>3
<1>8. CASE ReadRequest
  <2>1. PICK r \in Requests : Working(r) /\ (owner = r \/ mem[r] = "leaked")
    BY <1>8, RunningIsLent DEF ReadRequest, DspAt
  <2>2. area = r /\ dpc = "proc" /\ dpc' = "run" /\ dcur' = r /\ UNCHANGED <<rq, ret, mem, resp>>
    BY <1>8, <2>1 DEF ReadRequest, DspAt, Working
  <2>3. Memories[r] # "host" /\ UNCHANGED <<Statuses, Memories>>
    BY <2>1, <2>2 DEF Statuses, Memories, CallStatus, MemoryStatus, CallInv
  <2>4. Exchange!Begin(r)
    BY <2>2, <2>3 DEF Exchange!Begin, Running
  <2> QED BY <2>4 DEF Exchange!Next
<1>9. ASSUME NEW outcome \in Outcomes, RunCommand(outcome) PROVE Exchange!Finish
  <2>1. /\ dpc = "run" /\ dpc' = "done" /\ resp' \in {dcur, resp}
        /\ UNCHANGED <<rq, ret, mem>>
    BY <1>9 DEF RunCommand, DspAt
  <2>2. Running = dcur /\ Running # Nothing /\ Running' = Nothing
    BY <2>1, RunningIsLent, RequestsAssumption DEF Running, Working
  <2>3. UNCHANGED <<Statuses, Memories>>
    BY <2>1 DEF Statuses, Memories, CallStatus, MemoryStatus
  <2> QED BY <2>1, <2>2, <2>3 DEF Exchange!Finish
<1>10. CASE FillArea \/ FillFlags \/ KickDsp \/ CommandComplete \/ LoadFirmware \/ Release
  BY <1>10, Unseen DEF FillArea, FillFlags, KickDsp, CommandComplete, LoadFirmware, Release
<1>11. CASE SyncStart \/ SyncReady \/ WriteSyncData \/ SyncHostToDsp \/ SyncAck \/ SyncKick
            \/ SyncIrqReceived \/ SyncErr
  BY <1>11, Unseen DEF SyncStart, SyncReady, WriteSyncData, SyncHostToDsp, SyncAck, SyncKick,
    SyncIrqReceived, SyncErr
<1>12. CASE StaleCompletion \/ SyncStartFails \/ RuntimeResume \/ RuntimeSuspend \/ ForeignIsr
            \/ SyncTimeout \/ HostIsr
  BY <1>12, Unseen DEF StaleCompletion, SyncStartFails, RuntimeResume, RuntimeSuspend,
    ForeignIsr, SyncTimeout, HostIsr
<1>13. CASE CommandTimeout
  BY <1>13, Unseen DEF CommandTimeout, SafeConfig
<1>14. CASE Interrupted
  BY <1>14 DEF Interrupted, SafeConfig
<1>15. CASE Dispatch \/ TakeIrq \/ ClearIrq \/ HandshakeStart \/ HandshakeReady \/ HandshakePoll
            \/ SetSyncData \/ HandshakeAck \/ HandshakeIrq \/ CompleteRequest \/ NotifyHost
  <2>1. UNCHANGED <<rq, ret, mem, resp>> /\ dpc # "run" /\ dpc' # "run"
    BY Zenon, <1>15 DEF Dispatch, TakeIrq, ClearIrq, HandshakeStart, HandshakeReady, HandshakePoll,
      SetSyncData, HandshakeAck, HandshakeIrq, CompleteRequest, NotifyHost, DspAt
  <2> QED BY <2>1, Unseen
<1>16. CASE UNCHANGED vars
  BY <1>16, Unseen DEF vars
<1>17. ASSUME NEW r \in Requests, Map(r) \/ Lock(r) \/ Unmap(r)
       PROVE  [Exchange!Next]_(Exchange!vars)
  BY <1>1, <1>2, <1>3, <1>17 DEF Exchange!Next
<1>18. ASSUME NEW outcome \in Outcomes, RunCommand(outcome)
       PROVE  [Exchange!Next]_(Exchange!vars)
  BY <1>9, <1>18 DEF Exchange!Next
<1> QED
  BY <1>4, <1>5, <1>6, <1>7, <1>8, <1>10, <1>11, <1>12, <1>13, <1>14, <1>15, <1>16, <1>17,
    <1>18 DEF Next, HostStep, HostEnvironment, Deadline, DspStep

\* In a safe configuration the link implements CommandExchange: whatever
\* times out, is rebooted or is interrupted by a stale IRQ, a call succeeds
\* only with the DSP's answer to it, and its memory goes back only when the
\* DSP does not work on it.
THEOREM LinkImplementsExchange == ASSUME SafeConfig PROVE Spec => ImplementsExchange
<1>1. Init => Exchange!Init
  <2> SUFFICES ASSUME Init PROVE Exchange!Init
    OBVIOUS
  <2>1. /\ Statuses = [r \in Requests |-> "new"] /\ Memories = [r \in Requests |-> "host"]
        /\ Running = Nothing /\ resp = Nothing
    BY DEF Init, Statuses, Memories, Running, CallStatus, MemoryStatus
  <2> QED BY <2>1 DEF Exchange!Init
<1>2. TypeOK /\ LinkInv /\ [Next]_vars => [Exchange!Next]_(Exchange!vars)
  BY ExchangeStep DEF LinkInv
<1> QED BY <1>1, <1>2, TypeCorrect, LinkInvariant, PTL DEF Spec, ImplementsExchange, Exchange!Spec

=============================================================================
