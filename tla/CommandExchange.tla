------------------------- MODULE CommandExchange -------------------------
(***************************************************************************)
(* What the link promises the callers of xrp_ioctl_submit_sync, without    *)
(* the shared word, the handshake, the IRQs and the reboots.               *)
(*                                                                         *)
(* A caller lends the memory of its request to the DSP, the DSP works on   *)
(* one request at a time and only on memory that it has on loan, a call    *)
(* succeeds only with the answer the DSP has just given to that request,   *)
(* and memory goes back only when the DSP does not work on it.  Memory     *)
(* that the DSP may still use when its call fails is lost.                 *)
(***************************************************************************)
CONSTANTS Requests, None

VARIABLES
  status,   \* what the caller knows
  memory,   \* who may use the request's memory
  working,  \* the request the DSP works on
  answer    \* the request the DSP has answered last

vars == <<status, memory, working, answer>>

Init ==
  /\ status = [r \in Requests |-> "new"]
  /\ memory = [r \in Requests |-> "host"]
  /\ working = None
  /\ answer = None

Submit(r) ==
  /\ status[r] = "new"
  /\ status' = [status EXCEPT ![r] = "submitted"]
  /\ memory' = [memory EXCEPT ![r] = "dsp"]
  /\ UNCHANGED <<working, answer>>

Begin(r) ==
  /\ working = None /\ memory[r] # "host"
  /\ working' = r
  /\ UNCHANGED <<status, memory, answer>>

\* The DSP answers, or it gives up or is reset without an answer.
Finish ==
  /\ working # None
  /\ working' = None
  /\ answer' \in {working, answer}
  /\ UNCHANGED <<status, memory>>

Succeed(r) ==
  /\ status[r] = "submitted" /\ answer = r /\ working # r
  /\ status' = [status EXCEPT ![r] = "ok"]
  /\ UNCHANGED <<memory, working, answer>>

\* The memory stays on loan until GiveBack, or is lost.
Fail(r) ==
  /\ status[r] = "submitted"
  /\ status' = [status EXCEPT ![r] = "failed"]
  /\ memory' \in {memory, [memory EXCEPT ![r] = "lost"]}
  /\ UNCHANGED <<working, answer>>

GiveBack(r) ==
  /\ status[r] \in {"ok", "failed"} /\ memory[r] = "dsp" /\ working # r
  /\ memory' = [memory EXCEPT ![r] = "host"]
  /\ UNCHANGED <<status, working, answer>>

Next ==
  \/ \E r \in Requests : Submit(r) \/ Begin(r) \/ Succeed(r) \/ Fail(r) \/ GiveBack(r)
  \/ Finish

Spec == Init /\ [][Next]_vars
==========================================================================
