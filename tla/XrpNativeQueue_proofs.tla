----------------------- MODULE XrpNativeQueue_proofs ------------------------
(***************************************************************************)
(* Proofs about XrpNativeQueue, for any sets of commands and threads: the  *)
(* commands of a queue run in the order they were enqueued in, each once,  *)
(* and a queue without events is freed only when its worker has finished;  *)
(* each reference to an event is released once, and its count is the number *)
(* of the references left; the count of the queue never falls below the    *)
(* number of its holders.                                                  *)
(***************************************************************************)
EXTENDS XrpNativeQueue, FiniteSetTheorems, TLAPS

\* The number of commands that have left the list.
Taken == Len(ran) + (IF wpc = "run" THEN 1 ELSE 0)

\* The linked list holds the commands enqueued and not taken yet, in order.
ListInv ==
  /\ enqueued \in Seq(Requests) /\ ran \in Seq(Requests)
  /\ next \in [Requests -> Requests \cup {NULL}]
  /\ \A i, j \in 1..Len(enqueued) : enqueued[i] = enqueued[j] => i = j
  /\ Taken <= Len(enqueued)
  /\ head = IF Taken < Len(enqueued) THEN enqueued[Taken + 1] ELSE NULL
  /\ tail = IF Taken < Len(enqueued) THEN enqueued[Len(enqueued)] ELSE NULL
  /\ \A i \in (Taken + 1)..Len(enqueued) :
       next[enqueued[i]] = IF i < Len(enqueued) THEN enqueued[i + 1] ELSE NULL
  /\ \A i \in 1..Len(ran) : ran[i] = enqueued[i]
  /\ wpc = "run" => cur = enqueued[Taken]

\* Variables of the list are left alone, and no command is taken or run.
ListKept == UNCHANGED <<head, tail, next, cur, enqueued, ran>> /\ (wpc = "run") = (wpc' = "run")

\* A step that leaves the list alone keeps ListInv.
LEMMA ListFrame == ListInv /\ ListKept => ListInv'
  BY DEF ListInv, ListKept, Taken

\* Enqueueing appends to the list (xrp_enqueue_request).
LEMMA ListEnqueue ==
  ASSUME ListInv, NEW t, NEW r \in Requests, xrp_enqueue_command(t, r)
  PROVE  ListInv'
<1>1. /\ enqueued' = Append(enqueued, r) /\ ran' = ran /\ cur' = cur
      /\ (wpc = "run") = (wpc' = "run")
      /\ next' = IF tail # NULL THEN [next EXCEPT ![tail] = r, ![r] = NULL] ELSE [next EXCEPT ![r] = NULL]
      /\ head' = IF tail = NULL THEN r ELSE head
      /\ tail' = r
      /\ \A i \in 1..Len(enqueued) : enqueued[i] # r
  BY DEF xrp_enqueue_command, xrp_enqueue_request, WakeWorker, ToSet, ListInv
<1>2. /\ Taken \in Nat /\ Taken' = Taken /\ Taken <= Len(enqueued)
      /\ enqueued' \in Seq(Requests) /\ Len(enqueued') = Len(enqueued) + 1
      /\ \A i \in 1..Len(enqueued) : enqueued'[i] = enqueued[i]
      /\ enqueued'[Len(enqueued) + 1] = r
  BY <1>1 DEF ListInv, Taken
<1>3. \A i, j \in 1..Len(enqueued') : enqueued'[i] = enqueued'[j] => i = j
  BY <1>1, <1>2 DEF ListInv
<1>4. next' \in [Requests -> Requests \cup {NULL}]
  BY <1>1, <1>2 DEF ListInv
<1>5. /\ head' = enqueued'[Taken + 1] /\ tail' = enqueued'[Len(enqueued) + 1]
  BY <1>1, <1>2, NamesAssumption DEF ListInv
<1>6. ASSUME NEW i \in (Taken + 1)..(Len(enqueued) + 1)
      PROVE  next'[enqueued'[i]] = IF i < Len(enqueued) + 1 THEN enqueued'[i + 1] ELSE NULL
  <2>1. CASE Taken = Len(enqueued)
    BY <1>1, <1>2, <2>1 DEF ListInv
  <2>2. CASE Taken < Len(enqueued)
    <3>1. tail = enqueued[Len(enqueued)] /\ tail # NULL /\ tail \in Requests /\ tail # r
      BY <1>1, <1>2, <2>2, NamesAssumption DEF ListInv
    <3>2. next' = [next EXCEPT ![tail] = r, ![r] = NULL]
      BY <1>1, <3>1
    <3>3. CASE i = Len(enqueued) + 1
      BY <1>2, <3>1, <3>2, <3>3 DEF ListInv
    <3>4. CASE i = Len(enqueued)
      BY <1>2, <2>2, <3>1, <3>2, <3>4 DEF ListInv
    <3>5. CASE i < Len(enqueued)
      <4>1. enqueued'[i] = enqueued[i] /\ enqueued[i] # r /\ enqueued[i] # tail /\ enqueued[i] \in Requests
        BY <1>1, <1>2, <3>1, <3>5 DEF ListInv
      <4>2. next'[enqueued[i]] = next[enqueued[i]]
        BY <4>1, <3>1, <3>2 DEF ListInv
      <4>3. next[enqueued[i]] = enqueued[i + 1]
        BY <1>2, <3>5 DEF ListInv
      <4>4. enqueued'[i + 1] = enqueued[i + 1] /\ i < Len(enqueued) + 1
        BY <1>2, <3>5 DEF ListInv
      <4>5. QED
        BY <4>1, <4>2, <4>3, <4>4
    <3>6. QED
      BY <1>2, <3>3, <3>4, <3>5
  <2>3. QED
    BY <1>2, <2>1, <2>2
<1>7. \A i \in (Taken' + 1)..Len(enqueued') :
        next'[enqueued'[i]] = IF i < Len(enqueued') THEN enqueued'[i + 1] ELSE NULL
  BY <1>2, <1>6
<1>8. /\ head' = IF Taken' < Len(enqueued') THEN enqueued'[Taken' + 1] ELSE NULL
      /\ tail' = IF Taken' < Len(enqueued') THEN enqueued'[Len(enqueued')] ELSE NULL
      /\ Taken' <= Len(enqueued')
  BY <1>2, <1>5 DEF ListInv
<1>9. \A i \in 1..Len(ran') : ran'[i] = enqueued'[i]
  BY <1>1, <1>2 DEF ListInv, Taken
<1>10. wpc' = "run" => cur' = enqueued'[Taken']
  BY <1>1, <1>2 DEF ListInv, Taken
<1>11. enqueued' \in Seq(Requests) /\ ran' \in Seq(Requests)
  BY <1>1, <1>2 DEF ListInv
<1>12. QED
  BY <1>3, <1>4, <1>7, <1>8, <1>9, <1>10, <1>11, Zenon DEF ListInv

\* The worker takes the first command of the list (_xrp_dequeue_request).
LEMMA ListDequeue == ListInv /\ Dequeue => ListInv'
  BY NamesAssumption DEF ListInv, Taken, Dequeue, hist

\* The worker runs the command it has taken.
LEMMA ListRun == ListInv /\ RunCommand => ListInv'
  BY DEF ListInv, Taken, RunCommand, list

\* The commands run are the first ones enqueued.
LEMMA ListMeaning == ListInv => CompletedInOrder
<1> SUFFICES ASSUME ListInv PROVE CompletedInOrder
  OBVIOUS
<1>1. Len(ran) <= Len(enqueued)
  BY DEF ListInv, Taken
<1>2. SubSeq(ran, 1, Len(ran)) = SubSeq(enqueued, 1, Len(ran))
  BY <1>1 DEF ListInv
<1>3. QED
  BY <1>1, <1>2 DEF CompletedInOrder, IsPrefix

\* Every step keeps the list in order.
LEMMA ListStep == ListInv /\ [Next]_vars => ListInv'
<1> SUFFICES ASSUME ListInv, [Next]_vars PROVE ListInv'
  OBVIOUS
<1>1. CASE Dequeue
  BY <1>1, ListDequeue
<1>2. CASE RunCommand
  BY <1>2, ListRun
<1>3. CASE \E t \in AppThreads, r \in Requests : xrp_enqueue_command(t, r)
  BY <1>3, ListEnqueue
<1>4. CASE SleepOrEnd \/ SignalEvent \/ ReturnToLoop \/ SpuriousWakeup
  <2>1. ListKept
    BY <1>4 DEF SleepOrEnd, SignalEvent, ReturnToLoop, SpuriousWakeup, ListKept, list, hist
  <2>2. QED
    BY <2>1, ListFrame
<1>5. CASE \E t \in Threads : ReleaseStep(t)
  <2>1. ListKept
    BY <1>5 DEF ReleaseStep, CheckEvent, CheckQueue, SetExit, Join, DropQueue, DropEvent, WakeWorker,
                ListKept, list, worker, hist
  <2>2. QED
    BY <2>1, ListFrame
<1>6. CASE \E t \in AppThreads : xrp_release_queue(t) \/ \E r \in Requests : xrp_release_event(t, r)
  <2>1. ListKept
    BY <1>6 DEF xrp_release_queue, xrp_release_event, ListKept, list, worker, hist
  <2>2. QED
    BY <2>1, ListFrame
<1>7. CASE UNCHANGED vars
  <2>1. ListKept
    BY <1>7 DEF vars, ListKept
  <2>2. QED
    BY <2>1, ListFrame
<1>8. QED
  BY <1>1, <1>2, <1>3, <1>4, <1>5, <1>6, <1>7 DEF Next, WorkerStep, AppStep

\* The list is empty at first.
LEMMA ListInit == Init => ListInv
  BY DEF Init, ListInv, Taken

\* For any sets of commands and threads the commands of a queue run in the
\* order they were enqueued in, each at most once (xrp_enqueue_request,
\* _xrp_dequeue_request, xrp_queue_process).
THEOREM CommandsInOrder == Spec => []CompletedInOrder
<1>1. Spec => []ListInv
  BY ListInit, ListStep, PTL DEF Spec
<1>2. QED
  BY <1>1, ListMeaning, PTL

----------------------------------------------------------------------------
(* Release of a queue whose commands have no events.                       *)

\* The steps of xrp_release_queue.
QueueSteps == {"q_check", "q_exit", "q_join", "q_dec"}

\* Events belong to commands that were enqueued with one.
EventInv ==
  /\ pc \in [Threads -> QueueSteps \cup {"idle", "e_check", "e_dec"}]
  /\ ev \in [Threads -> WithEvent \cup {NULL}]
  /\ eHeld \subseteq ToSet(enqueued) \cap WithEvent
  /\ wpc = "signal" => cur \in ToSet(enqueued) \cap WithEvent
  /\ \A t \in Threads : pc[t] # "idle" /\ ev[t] # NULL => ev[t] \in ToSet(enqueued) \cap WithEvent
  /\ \A t \in Threads : pc[t] \in {"e_check", "e_dec"} => ev[t] # NULL

\* Without events one thread of the application releases the queue, once, and
\* nobody else touches the count; the worker ends when it is told to and has
\* nothing left, and is joined before the count falls.
AloneInv ==
  /\ qref = (IF gone THEN 0 ELSE 1) /\ gone \in BOOLEAN
  /\ syncExit = FALSE
  /\ pc[Worker] = "idle"
  /\ qHeld => ~exit /\ ~gone
  /\ \A t \in Threads : pc[t] # "idle" => pc[t] \in QueueSteps /\ ~qHeld /\ ~gone
  /\ \A t, u \in Threads : pc[t] # "idle" /\ pc[u] # "idle" => t = u
  /\ wpc = "end" => exit /\ Len(ran) = Len(enqueued)
  /\ \A t \in Threads : pc[t] = "q_dec" => wpc = "end"
  /\ gone => wpc = "end"

ReleaseInv == ListInv /\ EventInv /\ (NoEvents => AloneInv)

\* Enqueueing adds the command to those enqueued.
LEMMA EnqueuedSet ==
  ASSUME ListInv, NEW r \in Requests, enqueued' = Append(enqueued, r)
  PROVE  ToSet(enqueued') = ToSet(enqueued) \cup {r}
<1>1. /\ Len(enqueued') = Len(enqueued) + 1 /\ Len(enqueued) \in Nat
      /\ \A i \in 1..Len(enqueued) : enqueued'[i] = enqueued[i]
      /\ enqueued'[Len(enqueued) + 1] = r
      /\ DOMAIN enqueued = 1..Len(enqueued) /\ DOMAIN enqueued' = 1..Len(enqueued')
  BY DEF ListInv
<1>2. QED
  BY <1>1 DEF ToSet

\* Commands are never forgotten.
LEMMA EnqueuedGrows ==
  ASSUME ListInv, [Next]_vars
  PROVE  \/ enqueued' = enqueued
         \/ \E t \in AppThreads, r \in Requests : xrp_enqueue_command(t, r)
  BY DEF Next, WorkerStep, AppStep, ReleaseStep, Dequeue, SleepOrEnd, RunCommand, SignalEvent, ReturnToLoop,
         SpuriousWakeup, CheckEvent, CheckQueue, SetExit, Join, DropQueue, DropEvent,
         xrp_release_queue, xrp_release_event, hist, vars

\* The worker dequeues only what was enqueued.
LEMMA RunningIsEnqueued == ListInv /\ wpc = "run" => cur \in ToSet(enqueued)
  BY DEF ListInv, Taken, ToSet

\* Every step keeps EventInv.
LEMMA EventStep ==
  ASSUME ListInv, EventInv, [Next]_vars
  PROVE  EventInv'
<1> USE DEF QueueSteps, Threads
<1>1. ASSUME NEW t \in AppThreads, NEW r \in Requests, xrp_enqueue_command(t, r)
      PROVE  EventInv'
  <2>1. ToSet(enqueued') = ToSet(enqueued) \cup {r}
    BY <1>1, EnqueuedSet DEF xrp_enqueue_command
  <2>2. /\ UNCHANGED <<pc, ev, cur>> /\ eHeld' \subseteq eHeld \cup ({r} \cap WithEvent)
        /\ wpc' = "signal" => wpc = "signal"
    BY <1>1 DEF xrp_enqueue_command, xrp_enqueue_request, CreateEvent, WakeWorker, release, EventInv
  <2>3. QED
    BY <2>1, <2>2 DEF EventInv
<1>2. ASSUME NEW t \in AppThreads, xrp_release_queue(t)
      PROVE  EventInv'
  BY <1>2 DEF xrp_release_queue, EventInv, worker, hist
<1>3. ASSUME NEW t \in AppThreads, NEW r \in Requests, xrp_release_event(t, r)
      PROVE  EventInv'
  <2>1. r \in ToSet(enqueued) \cap WithEvent /\ r # NULL
    BY <1>3, NamesAssumption DEF xrp_release_event, EventInv
  <2>2. /\ UNCHANGED <<wpc, cur, enqueued>> /\ eHeld' \subseteq eHeld
        /\ pc' = [pc EXCEPT ![t] = "e_check"] /\ ev' = [ev EXCEPT ![t] = r]
    BY <1>3 DEF xrp_release_event, worker, hist
  <2>3. QED
    BY <2>1, <2>2 DEF EventInv
<1>4. ASSUME NEW t \in Threads, ReleaseStep(t)
      PROVE  EventInv'
  <2>1. UNCHANGED <<ev, eHeld, cur, enqueued>> /\ (wpc' = "signal" => wpc = "signal")
    BY <1>4 DEF ReleaseStep, CheckEvent, CheckQueue, SetExit, Join, DropQueue, DropEvent, WakeWorker,
                refs, worker, hist
  <2>2. PICK where \in QueueSteps \cup {"idle", "e_check", "e_dec"} :
          /\ pc' = [pc EXCEPT ![t] = where] /\ pc[t] # "idle"
          /\ where \in {"e_check", "e_dec"} => ev[t] # NULL
    BY <1>4 DEF ReleaseStep, CheckEvent, CheckQueue, SetExit, Join, DropQueue, DropEvent, Goto, EventInv
  <2>3. QED
    BY <2>1, <2>2 DEF EventInv
<1>5. CASE SignalEvent
  <2>1. /\ cur \in ToSet(enqueued) \cap WithEvent /\ cur # NULL
        /\ UNCHANGED <<eHeld, cur, enqueued>> /\ wpc' # "signal"
        /\ pc' = [pc EXCEPT ![Worker] = "e_check"] /\ ev' = [ev EXCEPT ![Worker] = cur]
    BY <1>5, NamesAssumption, QueueAssumption DEF SignalEvent, EventInv, refs, hist
  <2>2. QED
    BY <2>1 DEF EventInv
<1>6. CASE RunCommand
  <2>1. /\ UNCHANGED <<eHeld, cur, enqueued, pc, ev>> /\ cur \in ToSet(enqueued)
        /\ wpc' = "signal" => cur \in WithEvent
    BY <1>6, RunningIsEnqueued DEF RunCommand, refs, release
  <2>2. QED
    BY <2>1 DEF EventInv
<1>7. CASE Dequeue \/ SleepOrEnd \/ ReturnToLoop \/ SpuriousWakeup
  <2>1. UNCHANGED <<eHeld, enqueued, pc, ev>> /\ wpc' # "signal"
    BY <1>7 DEF Dequeue, SleepOrEnd, ReturnToLoop, SpuriousWakeup, refs, release, hist
  <2>2. QED
    BY <2>1 DEF EventInv
<1>8. CASE UNCHANGED vars
  BY <1>8 DEF vars, EventInv
<1>9. QED
  BY <1>1, <1>2, <1>3, <1>4, <1>5, <1>6, <1>7, <1>8 DEF Next, WorkerStep, AppStep

\* A thread of the application that is idle may begin to release the queue;
\* it has the only reference.
LEMMA AloneApp ==
  ASSUME ListInv, EventInv, NoEvents, AloneInv, NEW t \in AppThreads, AppStep(t), NoEvents'
  PROVE  AloneInv'
<1> USE DEF QueueSteps, Threads
<1>1. CASE xrp_release_queue(t)
  <2>1. /\ pc[t] = "idle" /\ qHeld /\ pc' = [pc EXCEPT ![t] = "q_check"] /\ qHeld' = FALSE
        /\ UNCHANGED <<qref, gone, syncExit, exit, wpc, ran, enqueued>>
    BY <1>1 DEF xrp_release_queue, worker, hist
  <2>2. \A u \in Threads : pc[u] = "idle"
    BY <2>1 DEF AloneInv
  <2>3. \A u \in Threads : pc'[u] = IF u = t THEN "q_check" ELSE "idle"
    BY <2>1, <2>2 DEF EventInv
  <2>4. QED
    BY <2>1, <2>2, <2>3, NamesAssumption DEF AloneInv
<1>2. ASSUME NEW r \in Requests, xrp_enqueue_command(t, r)
      PROVE  AloneInv'
  <2>1. ToSet(enqueued') = ToSet(enqueued) \cup {r}
    BY <1>2, EnqueuedSet DEF xrp_enqueue_command
  <2>2. r \notin WithEvent
    BY <2>1 DEF NoEvents
  <2>3. /\ qHeld /\ UNCHANGED <<qref, gone, syncExit, exit, qHeld, pc, ran>>
        /\ wpc' = "end" => wpc = "end"
    BY <1>2, <2>2 DEF xrp_enqueue_command, xrp_enqueue_request, WakeWorker, release
  <2>4. wpc # "end" /\ ~gone
    BY <2>3 DEF AloneInv
  <2>5. QED
    BY <2>3, <2>4 DEF AloneInv
<1>3. ASSUME NEW r \in Requests, xrp_release_event(t, r)
      PROVE  AloneInv'
  BY <1>3 DEF xrp_release_event, EventInv, NoEvents
<1>4. QED
  BY <1>1, <1>2, <1>3 DEF AppStep

\* The one thread that releases the queue: exit, join, count.
LEMMA AloneRelease ==
  ASSUME ListInv, EventInv, NoEvents, AloneInv, NEW t \in Threads, ReleaseStep(t)
  PROVE  AloneInv'
<1> USE DEF QueueSteps, Threads
<1>1. /\ pc[t] \in QueueSteps /\ t # Worker /\ ~qHeld /\ ~gone /\ qref = 1 /\ ev[t] = NULL
      /\ \A u \in Threads : u # t => pc[u] = "idle"
  <2>1. pc[t] # "idle"
    BY DEF ReleaseStep, CheckEvent, CheckQueue, SetExit, Join, DropQueue, DropEvent
  <2>2. QED
    BY <2>1 DEF AloneInv, EventInv, NoEvents
<1>2. ASSUME NEW where, pc' = [pc EXCEPT ![t] = where]
      PROVE  \A u \in Threads : pc'[u] = IF u = t THEN where ELSE "idle"
  BY <1>1, <1>2 DEF EventInv
<1>3. CASE CheckQueue(t)
  <2>1. /\ pc' = [pc EXCEPT ![t] = "q_exit"]
        /\ UNCHANGED <<qref, gone, syncExit, exit, qHeld, wpc, ran, enqueued>>
    BY <1>1, <1>3 DEF CheckQueue, Goto, refs, worker, hist
  <2>2. \A u \in Threads : pc'[u] = IF u = t THEN "q_exit" ELSE "idle"
    BY <1>2, <2>1
  <2>3. QED
    BY <1>1, <2>1, <2>2 DEF AloneInv
<1>4. CASE SetExit(t)
  <2>1. /\ pc' = [pc EXCEPT ![t] = "q_join"] /\ exit' = TRUE /\ (wpc' = "end" <=> wpc = "end")
        /\ UNCHANGED <<qref, gone, syncExit, qHeld, ran, enqueued>>
    BY <1>4 DEF SetExit, Goto, WakeWorker, refs, hist
  <2>2. \A u \in Threads : pc'[u] = IF u = t THEN "q_join" ELSE "idle"
    BY <1>2, <2>1
  <2>3. QED
    BY <1>1, <2>1, <2>2 DEF AloneInv
<1>5. CASE Join(t)
  <2>1. /\ pc' = [pc EXCEPT ![t] = "q_dec"] /\ wpc = "end"
        /\ UNCHANGED <<qref, gone, syncExit, exit, qHeld, wpc, ran, enqueued>>
    BY <1>1, <1>5 DEF Join, Goto, refs, hist
  <2>2. \A u \in Threads : pc'[u] = IF u = t THEN "q_dec" ELSE "idle"
    BY <1>2, <2>1
  <2>3. QED
    BY <1>1, <2>1, <2>2 DEF AloneInv
<1>6. CASE DropQueue(t)
  <2>1. /\ pc' = [pc EXCEPT ![t] = "idle"] /\ wpc = "end" /\ qref' = 0 /\ gone' = TRUE
        /\ UNCHANGED <<syncExit, exit, qHeld, wpc, ran, enqueued>>
    <3>1. wpc = "end"
      BY <1>6 DEF DropQueue, AloneInv
    <3>2. qref' = 0 /\ gone' = TRUE
      <4>1. qref' = qref - 1 /\ gone' = (qref' = 0)
        BY <1>6 DEF DropQueue
      <4>2. qref' = 0
        BY <1>1, <4>1
      <4>3. QED
        BY <4>1, <4>2, Zenon
    <3>3. QED
      BY <1>1, <1>6, <3>1, <3>2 DEF DropQueue, Goto, worker, hist
  <2>2. \A u \in Threads : pc'[u] = "idle"
    BY <1>2, <2>1
  <2>3. QED
    BY <1>1, <2>1, <2>2 DEF AloneInv
<1>7. QED
  BY <1>1, <1>3, <1>4, <1>5, <1>6 DEF ReleaseStep, CheckEvent, DropEvent

\* The worker ends with nothing left in the list.
LEMMA AloneWorker ==
  ASSUME ListInv, EventInv, NoEvents, AloneInv, WorkerStep \/ SpuriousWakeup
  PROVE  AloneInv'
<1>1. ~SignalEvent
  BY DEF SignalEvent, EventInv, NoEvents
<1>2. /\ UNCHANGED <<qref, gone, exit, qHeld, pc, enqueued>> /\ wpc # "end" /\ syncExit' = FALSE
  BY <1>1 DEF WorkerStep, Dequeue, SleepOrEnd, RunCommand, ReturnToLoop, SpuriousWakeup, refs, release, hist,
              AloneInv
<1>3. wpc' = "end" => exit' /\ Len(ran') = Len(enqueued')
  <2>1. SUFFICES ASSUME wpc' = "end" PROVE exit' /\ Len(ran') = Len(enqueued')
    OBVIOUS
  <2>2. SleepOrEnd
    BY <1>1, <2>1 DEF WorkerStep, Dequeue, RunCommand, ReturnToLoop, SpuriousWakeup, AloneInv
  <2>3. head = NULL /\ exit /\ wpc = "look" /\ ran' = ran
    BY <2>1, <2>2 DEF SleepOrEnd, hist
  <2>4. Len(ran) = Len(enqueued)
    BY <2>3, NamesAssumption DEF ListInv, Taken
  <2>5. QED
    BY <1>2, <2>3, <2>4
<1>4. QED
  BY <1>2, <1>3 DEF AloneInv

\* Every step keeps ReleaseInv.
LEMMA ReleaseInvStep == ReleaseInv /\ [Next]_vars => ReleaseInv'
<1> SUFFICES ASSUME ReleaseInv, [Next]_vars PROVE ReleaseInv'
  OBVIOUS
<1>1. ListInv' /\ EventInv'
  BY ListStep, EventStep DEF ReleaseInv
<1>2. ASSUME NoEvents' PROVE AloneInv'
  <2>1. NoEvents
    <3>1. CASE enqueued' = enqueued
      BY <1>2, <3>1 DEF NoEvents
    <3>2. ASSUME NEW t \in AppThreads, NEW r \in Requests, xrp_enqueue_command(t, r)
          PROVE  NoEvents
      <4>1. ToSet(enqueued') = ToSet(enqueued) \cup {r}
        BY <3>2, EnqueuedSet DEF xrp_enqueue_command, ReleaseInv
      <4>2. QED
        BY <1>2, <4>1 DEF NoEvents
    <3>3. QED
      BY <3>1, <3>2, EnqueuedGrows DEF ReleaseInv
  <2>2. ListInv /\ EventInv /\ AloneInv
    BY <2>1 DEF ReleaseInv
  <2>3. CASE UNCHANGED vars
    BY <2>2, <2>3 DEF vars, AloneInv
  <2>4. QED
    BY <1>2, <2>1, <2>2, <2>3, AloneApp, AloneRelease, AloneWorker DEF Next
<1>3. QED
  BY <1>1, <1>2 DEF ReleaseInv

\* The queue starts with one reference and the worker looking at it.
LEMMA ReleaseInvInit == Init => ReleaseInv
<1> SUFFICES ASSUME Init PROVE ReleaseInv
  OBVIOUS
<1>1. EventInv
  BY DEF Init, EventInv, ToSet, QueueSteps
<1>2. AloneInv
  BY DEF Init, AloneInv, Threads
<1>3. QED
  BY <1>1, <1>2, ListInit DEF ReleaseInv

\* For any sets of commands and threads a queue without events is freed only
\* when its worker has processed every command and has ended
\* (xrp_release_queue sets exit, wakes and joins the worker before it frees).
THEOREM ReleaseWaitsForWorker == Spec => []ReleaseFinishes
<1>1. ReleaseInv => ReleaseFinishes
  BY DEF ReleaseInv, AloneInv, ReleaseFinishes
<1>2. QED
  BY <1>1, ReleaseInvInit, ReleaseInvStep, PTL DEF Spec

-----------------------------------------------------------------------------
(* The events: each reference is released once, and the count of an event  *)
(* is the number of its references left.                                   *)

\* t is inside xrp_release_event(r), or xrp_release_queue when r is NULL.
Releases(t, r) == pc[t] # "idle" /\ ev[t] = r

\* The two references an event is created with: the caller's and that of the
\* request, each held until its release has decremented the count.
AppHolds(r) == r \in eHeld \/ \E t \in AppThreads : Releases(t, r)

WorkerHolds(r) == r \in ToSet(enqueued) /\ (status[r] = "pending" \/ Releases(Worker, r))

\* The types of the variables about which the other invariants do not speak.
ScalarInv ==
  /\ exit \in BOOLEAN /\ syncExit \in BOOLEAN /\ qHeld \in BOOLEAN /\ gone \in BOOLEAN
  /\ wpc \in {"look", "asleep", "run", "signal", "return", "end"}
  /\ cur \in Requests \cup {NULL}
  /\ eref \in [WithEvent -> 0..2] /\ status \in [WithEvent -> {"pending", "done"}]

\* Each reference is released once: by one thread of the application, and by
\* the worker after it has set the status of a command it has run once.
OnceInv ==
  /\ wpc # "return" => pc[Worker] = "idle"
  /\ wpc = "signal" => Len(ran) > 0 /\ cur = ran[Len(ran)]
  /\ \A r \in WithEvent : status[r] = "done" =>
       \E i \in 1..Len(ran) : ran[i] = r /\ (wpc = "signal" => i # Len(ran))
  /\ \A r \in WithEvent : status[r] = "pending" => ~Releases(Worker, r)
  /\ \A t, u \in AppThreads, r \in WithEvent \cup {NULL} : Releases(t, r) /\ Releases(u, r) => t = u
  /\ \A t \in AppThreads, r \in eHeld : ~Releases(t, r)
  /\ ~Releases(Worker, NULL)
  /\ \A t \in AppThreads : Releases(t, NULL) => ~qHeld

\* An event's count is the number of its references, and the thread that goes
\* on to the queue's count has the last of them.
CountInv ==
  /\ \A r \in WithEvent :
       eref[r] = (IF AppHolds(r) THEN 1 ELSE 0) + (IF WorkerHolds(r) THEN 1 ELSE 0)
  /\ \A t \in Threads : pc[t] \in QueueSteps /\ ev[t] # NULL => eref[ev[t]] = 1

\* Every step keeps the types.
LEMMA ScalarStep ==
  ASSUME ListInv, EventInv, ScalarInv, CountInv, [Next]_vars
  PROVE  ScalarInv'
<1> USE DEF Threads
<1>1. ASSUME NEW t \in AppThreads, NEW r \in Requests, xrp_enqueue_command(t, r)
      PROVE  ScalarInv'
  <2>1. eref' \in [WithEvent -> 0..2]
    BY <1>1 DEF xrp_enqueue_command, CreateEvent, ScalarInv
  <2>2. wpc' \in {"look", "asleep", "run", "signal", "return", "end"}
    BY <1>1 DEF xrp_enqueue_command, xrp_enqueue_request, WakeWorker, ScalarInv
  <2>3. UNCHANGED <<exit, syncExit, qHeld, gone, cur, status>>
    BY <1>1 DEF xrp_enqueue_command
  <2>4. QED
    BY <2>1, <2>2, <2>3 DEF ScalarInv
<1>2. CASE \E t \in AppThreads : xrp_release_queue(t) \/ \E r \in Requests : xrp_release_event(t, r)
  <2>1. UNCHANGED <<exit, syncExit, gone, wpc, cur, eref, status>> /\ (qHeld' = FALSE \/ qHeld' = qHeld)
    BY <1>2 DEF xrp_release_queue, xrp_release_event, worker
  <2>2. QED
    BY <2>1 DEF ScalarInv
<1>3. ASSUME NEW t \in Threads, CheckEvent(t) \/ CheckQueue(t) \/ SetExit(t) \/ Join(t)
      PROVE  ScalarInv'
  <2>1. UNCHANGED <<qHeld, gone, cur, eref, status>>
    BY <1>3 DEF CheckEvent, CheckQueue, SetExit, Join, refs, worker
  <2>2. exit' \in BOOLEAN /\ syncExit' \in BOOLEAN
    BY <1>3 DEF CheckEvent, CheckQueue, SetExit, Join, worker, ScalarInv
  <2>3. wpc' \in {"look", "asleep", "run", "signal", "return", "end"}
    BY <1>3 DEF CheckEvent, CheckQueue, SetExit, Join, WakeWorker, worker, ScalarInv
  <2>4. QED
    BY <2>1, <2>2, <2>3 DEF ScalarInv
<1>4. ASSUME NEW t \in Threads, DropQueue(t)
      PROVE  ScalarInv'
  <2>1. UNCHANGED <<exit, syncExit, qHeld, wpc, cur, eref, status>> /\ gone' \in BOOLEAN
    BY <1>4, Zenon DEF DropQueue, worker
  <2>2. QED
    BY <2>1 DEF ScalarInv
<1>5. ASSUME NEW t \in Threads, DropEvent(t)
      PROVE  ScalarInv'
  <2>1. UNCHANGED <<exit, syncExit, qHeld, gone, wpc, cur, status>>
    BY <1>5 DEF DropEvent, worker
  <2>2. eref' = [eref EXCEPT ![ev[t]] = @ - 1] /\ ev[t] \in WithEvent /\ Releases(t, ev[t])
    BY <1>5 DEF DropEvent, EventInv, Releases
  <2>3. eref[ev[t]] \in 1..2
    <3>1. ev[t] \in ToSet(enqueued)
      BY <2>2, QueueAssumption, NamesAssumption DEF EventInv, Releases
    <3>2. AppHolds(ev[t]) \/ WorkerHolds(ev[t])
      BY <2>2, <3>1 DEF AppHolds, WorkerHolds
    <3>3. QED
      BY <2>2, <3>2 DEF CountInv
  <2>4. eref' \in [WithEvent -> 0..2]
    BY <2>2, <2>3 DEF ScalarInv
  <2>5. QED
    BY <2>1, <2>4 DEF ScalarInv
<1>6. CASE WorkerStep \/ SpuriousWakeup
  <2>1. UNCHANGED <<exit, qHeld, gone, eref>>
    BY <1>6 DEF WorkerStep, Dequeue, SleepOrEnd, RunCommand, SignalEvent, ReturnToLoop, SpuriousWakeup, refs
  <2>2. wpc' \in {"look", "asleep", "run", "signal", "return", "end"}
    BY <1>6 DEF WorkerStep, Dequeue, SleepOrEnd, RunCommand, SignalEvent, ReturnToLoop, SpuriousWakeup
  <2>3. syncExit' \in BOOLEAN
    BY <1>6 DEF WorkerStep, Dequeue, SleepOrEnd, RunCommand, SignalEvent, ReturnToLoop, SpuriousWakeup,
                ScalarInv
  <2>4. head \in Requests \cup {NULL}
    BY DEF ListInv, Taken
  <2>5. cur' \in Requests \cup {NULL}
    BY <1>6, <2>4 DEF WorkerStep, Dequeue, SleepOrEnd, RunCommand, SignalEvent, ReturnToLoop,
                      SpuriousWakeup, ScalarInv
  <2>6. status' \in [WithEvent -> {"pending", "done"}]
    BY <1>6 DEF WorkerStep, Dequeue, SleepOrEnd, RunCommand, SignalEvent, ReturnToLoop, SpuriousWakeup,
                ScalarInv
  <2>7. QED
    BY <2>1, <2>2, <2>3, <2>5, <2>6 DEF ScalarInv
<1>7. CASE UNCHANGED vars
  BY <1>7 DEF vars, ScalarInv
<1>8. QED
  BY <1>1, <1>2, <1>3, <1>4, <1>5, <1>6, <1>7 DEF Next, AppStep, ReleaseStep

----------------------------------------------------------------------------
(* Each reference is released once.                                        *)

\* A command that has not been enqueued has no event in use.
LEMMA NotYetUsed ==
  ASSUME ListInv, EventInv, ScalarInv, OnceInv, NEW r \in WithEvent, r \notin ToSet(enqueued)
  PROVE  /\ status[r] = "pending" /\ r \notin eHeld
         /\ \A t \in Threads : ~Releases(t, r)
<1>1. status[r] = "pending"
  <2>1. SUFFICES ASSUME status[r] = "done" PROVE FALSE
    BY DEF ScalarInv
  <2>2. PICK i \in 1..Len(ran) : ran[i] = r
    BY <2>1 DEF OnceInv
  <2>3. i \in 1..Len(enqueued) /\ enqueued[i] = r
    BY <2>2 DEF ListInv, Taken
  <2>4. QED
    BY <2>3 DEF ToSet, ListInv
<1>2. \A t \in Threads : ~Releases(t, r)
  BY QueueAssumption, NamesAssumption DEF EventInv, Releases
<1>3. QED
  BY <1>1, <1>2 DEF EventInv

\* The worker signals a command that was pending.
LEMMA SignalIsFirst ==
  ASSUME ListInv, EventInv, ScalarInv, OnceInv, wpc = "signal"
  PROVE  cur \in WithEvent /\ status[cur] = "pending" /\ pc[Worker] = "idle"
<1>1. cur \in WithEvent /\ pc[Worker] = "idle"
  BY DEF EventInv, OnceInv
<1>2. SUFFICES ASSUME status[cur] = "done" PROVE FALSE
  BY <1>1 DEF ScalarInv
<1>3. PICK i \in 1..Len(ran) : ran[i] = cur /\ i # Len(ran)
  BY <1>1, <1>2 DEF OnceInv
<1>4. Len(ran) \in 1..Len(ran) /\ cur = ran[Len(ran)] /\ Len(ran) <= Len(enqueued)
  BY DEF OnceInv, ListInv, Taken
<1>5. enqueued[i] = enqueued[Len(ran)] /\ i \in 1..Len(enqueued) /\ Len(ran) \in 1..Len(enqueued)
  BY <1>3, <1>4 DEF ListInv
<1>6. QED
  BY <1>3, <1>5 DEF ListInv

\* What the application's steps do to OnceInv.
LEMMA OnceApp ==
  ASSUME ListInv, EventInv, ScalarInv, OnceInv, NEW t \in AppThreads, AppStep(t)
  PROVE  OnceInv'
<1> USE DEF Threads
<1>1. ASSUME NEW r \in Requests, xrp_enqueue_command(t, r)
      PROVE  OnceInv'
  <2>1. /\ UNCHANGED <<pc, ev, status, ran, cur, qHeld>> /\ r \notin ToSet(enqueued)
        /\ eHeld' = eHeld \/ (r \in WithEvent /\ eHeld' = eHeld \cup {r})
        /\ wpc' = wpc \/ (wpc = "asleep" /\ wpc' = "look")
    BY <1>1 DEF xrp_enqueue_command, xrp_enqueue_request, CreateEvent, WakeWorker, release
  <2>2. \A u \in AppThreads, s \in eHeld' : ~Releases(u, s)
    BY <2>1, NotYetUsed DEF OnceInv
  <2>3. \A u, s : Releases(u, s)' = Releases(u, s)
    BY <2>1 DEF Releases
  <2>4. QED
    BY <2>1, <2>2, <2>3 DEF OnceInv, Releases
<1>2. CASE xrp_release_queue(t)
  <2>1. /\ UNCHANGED <<status, ran, cur, eHeld, wpc>> /\ qHeld /\ pc[t] = "idle" /\ t # Worker
        /\ qHeld' = FALSE
        /\ pc' = [pc EXCEPT ![t] = "q_check"] /\ ev' = [ev EXCEPT ![t] = NULL]
    BY <1>2, NamesAssumption DEF xrp_release_queue, worker, hist
  <2>2. /\ \A u \in Threads : u # t => pc'[u] = pc[u] /\ ev'[u] = ev[u]
        /\ pc'[t] = "q_check" /\ ev'[t] = NULL
    BY <2>1 DEF EventInv
  <2>3. \A r \in eHeld : r # NULL
    BY QueueAssumption, NamesAssumption DEF EventInv
  <2>4. QED
    BY <2>1, <2>2, <2>3, QueueAssumption, NamesAssumption DEF OnceInv, Releases
<1>3. ASSUME NEW r \in Requests, xrp_release_event(t, r)
      PROVE  OnceInv'
  <2>1. /\ UNCHANGED <<status, ran, cur, qHeld, wpc>> /\ r \in eHeld /\ pc[t] = "idle" /\ t # Worker
        /\ eHeld' = eHeld \ {r}
        /\ pc' = [pc EXCEPT ![t] = "e_check"] /\ ev' = [ev EXCEPT ![t] = r]
    BY <1>3, NamesAssumption DEF xrp_release_event, worker, hist
  <2>2. /\ \A u \in Threads : u # t => pc'[u] = pc[u] /\ ev'[u] = ev[u]
        /\ pc'[t] = "e_check" /\ ev'[t] = r
    BY <2>1 DEF EventInv
  <2>3. r # NULL
    BY NamesAssumption
  <2>4. QED
    BY <2>1, <2>2, <2>3 DEF OnceInv, Releases
<1>4. QED
  BY <1>1, <1>2, <1>3 DEF AppStep

\* A thread inside a release function goes on with the same event.
LEMMA ReleaseGoesOn ==
  ASSUME EventInv, NEW t \in Threads, ReleaseStep(t)
  PROVE  /\ UNCHANGED <<ev, eHeld, qHeld, status, enqueued, ran, cur>>
         /\ wpc' = wpc \/ (wpc = "asleep" /\ wpc' = "look")
         /\ pc[t] # "idle"
         /\ \A u \in Threads : u # t => pc'[u] = pc[u]
<1>1. /\ UNCHANGED <<ev, eHeld, qHeld, status, enqueued, ran, cur>> /\ pc[t] # "idle"
  BY DEF ReleaseStep, CheckEvent, CheckQueue, SetExit, Join, DropQueue, DropEvent, refs, worker, hist
<1>2. wpc' = wpc \/ (wpc = "asleep" /\ wpc' = "look")
  BY DEF ReleaseStep, CheckEvent, CheckQueue, SetExit, Join, DropQueue, DropEvent, WakeWorker, worker
<1>3. \E where : pc' = [pc EXCEPT ![t] = where]
  BY DEF ReleaseStep, CheckEvent, CheckQueue, SetExit, Join, DropQueue, DropEvent, Goto
<1>4. QED
  BY <1>1, <1>2, <1>3 DEF EventInv

\* What the release functions do to OnceInv.
LEMMA OnceRelease ==
  ASSUME EventInv, OnceInv, NEW t \in Threads, ReleaseStep(t)
  PROVE  OnceInv'
<1>1. \A u \in Threads : \A s : Releases(u, s)' => Releases(u, s)
  BY ReleaseGoesOn DEF Releases
<1>2. wpc' # "return" => pc'[Worker] = "idle"
  BY ReleaseGoesOn DEF OnceInv, Threads
<1>3. QED
  BY <1>1, <1>2, ReleaseGoesOn DEF OnceInv, Threads

\* What the worker's steps do to OnceInv.
LEMMA OnceWorker ==
  ASSUME ListInv, EventInv, ScalarInv, OnceInv, WorkerStep \/ SpuriousWakeup
  PROVE  OnceInv'
<1> USE DEF Threads
<1>1. CASE SignalEvent
  <2>1. /\ UNCHANGED <<ran, cur, qHeld, eHeld>> /\ wpc = "signal" /\ wpc' = "return"
        /\ status' = [status EXCEPT ![cur] = "done"]
        /\ pc' = [pc EXCEPT ![Worker] = "e_check"] /\ ev' = [ev EXCEPT ![Worker] = cur]
    BY <1>1 DEF SignalEvent, refs, hist
  <2>2. cur \in WithEvent /\ cur # NULL
    BY <2>1, SignalIsFirst, QueueAssumption, NamesAssumption
  <2>3. /\ \A u \in AppThreads : pc'[u] = pc[u] /\ ev'[u] = ev[u]
        /\ pc'[Worker] = "e_check" /\ ev'[Worker] = cur
    BY <2>1, NamesAssumption DEF EventInv
  <2>4. ASSUME NEW r \in WithEvent, status'[r] = "done"
        PROVE  \E i \in 1..Len(ran') : ran'[i] = r /\ (wpc' = "signal" => i # Len(ran'))
    <3>1. CASE r = cur
      <4>1. Len(ran) \in 1..Len(ran) /\ ran[Len(ran)] = cur
        BY <2>1 DEF OnceInv, ListInv
      <4>2. QED
        BY <2>1, <3>1, <4>1
    <3>2. CASE r # cur
      <4>1. status[r] = "done"
        BY <2>1, <2>4, <3>2 DEF ScalarInv
      <4>2. QED
        BY <2>1, <4>1 DEF OnceInv
    <3>3. QED
      BY <3>1, <3>2
  <2>5. \A r \in WithEvent : status'[r] = "pending" => r # cur
    BY <2>1, <2>2 DEF ScalarInv
  <2>6. QED
    BY <2>1, <2>2, <2>3, <2>4, <2>5 DEF OnceInv, Releases
<1>2. CASE RunCommand
  <2>1. /\ UNCHANGED <<cur, qHeld, eHeld, status, pc, ev>> /\ wpc = "run" /\ wpc' \in {"signal", "return"}
        /\ ran' = Append(ran, cur)
    BY <1>2 DEF RunCommand, refs, release
  <2>2. /\ Len(ran') = Len(ran) + 1 /\ ran'[Len(ran')] = cur /\ Len(ran) \in Nat
        /\ \A i \in 1..Len(ran) : ran'[i] = ran[i]
    BY <2>1 DEF ListInv
  <2>3. ASSUME NEW r \in WithEvent, status'[r] = "done"
        PROVE  \E i \in 1..Len(ran') : ran'[i] = r /\ (wpc' = "signal" => i # Len(ran'))
    <3>1. PICK i \in 1..Len(ran) : ran[i] = r
      BY <2>1, <2>3 DEF OnceInv
    <3>2. QED
      BY <2>2, <3>1
  <2>4. QED
    BY <2>1, <2>2, <2>3 DEF OnceInv, Releases
<1>3. CASE Dequeue \/ SleepOrEnd \/ ReturnToLoop \/ SpuriousWakeup
  <2>1. /\ UNCHANGED <<qHeld, eHeld, status, pc, ev, ran>> /\ wpc # "signal" /\ wpc' # "signal"
        /\ pc[Worker] = "idle"
    BY <1>3 DEF Dequeue, SleepOrEnd, ReturnToLoop, SpuriousWakeup, refs, release, hist, OnceInv
  <2>2. QED
    BY <2>1 DEF OnceInv, Releases
<1>4. QED
  BY <1>1, <1>2, <1>3 DEF WorkerStep

----------------------------------------------------------------------------
(* The count of an event.                                                  *)

\* Two threads release an event only when both references are still counted.
LEMMA TwoReleases ==
  ASSUME EventInv, ScalarInv, OnceInv, CountInv, NEW t \in Threads, NEW u \in Threads, t # u,
         NEW r \in WithEvent, Releases(t, r), Releases(u, r)
  PROVE  eref[r] = 2
<1>1. r \in ToSet(enqueued)
  BY QueueAssumption, NamesAssumption DEF EventInv, Releases
<1>2. \/ t \in AppThreads /\ u = Worker
      \/ u \in AppThreads /\ t = Worker
  BY DEF OnceInv, Threads
<1>3. AppHolds(r) /\ WorkerHolds(r)
  BY <1>1, <1>2 DEF AppHolds, WorkerHolds
<1>4. QED
  BY <1>3 DEF CountInv

\* What the application's steps do to CountInv.
LEMMA CountApp ==
  ASSUME ListInv, EventInv, ScalarInv, OnceInv, CountInv, NEW t \in AppThreads, AppStep(t)
  PROVE  CountInv'
<1> USE DEF Threads
<1>1. ASSUME NEW r \in Requests, xrp_enqueue_command(t, r)
      PROVE  CountInv'
  <2>1. UNCHANGED <<pc, ev, status>> /\ r \notin ToSet(enqueued)
    BY <1>1 DEF xrp_enqueue_command, release
  <2>2. ToSet(enqueued') = ToSet(enqueued) \cup {r}
    BY <1>1, EnqueuedSet DEF xrp_enqueue_command
  <2>3. /\ \A s \in WithEvent : s # r => eref'[s] = eref[s] /\ (s \in eHeld' <=> s \in eHeld)
        /\ r \in WithEvent => eref'[r] = 2 /\ r \in eHeld'
    BY <1>1 DEF xrp_enqueue_command, CreateEvent, ScalarInv
  <2>4. ASSUME NEW s \in WithEvent
        PROVE  eref'[s] = (IF AppHolds(s)' THEN 1 ELSE 0) + (IF WorkerHolds(s)' THEN 1 ELSE 0)
    <3>1. CASE s = r
      <4>1. status[s] = "pending"
        BY <2>1, <3>1, NotYetUsed
      <4>2. AppHolds(s)' /\ WorkerHolds(s)'
        BY <2>1, <2>2, <2>3, <3>1, <4>1 DEF AppHolds, WorkerHolds
      <4>3. QED
        BY <2>3, <3>1, <4>2
    <3>2. CASE s # r
      <4>1. AppHolds(s)' <=> AppHolds(s)
        BY <2>1, <2>3, <3>2 DEF AppHolds, Releases
      <4>2. WorkerHolds(s)' <=> WorkerHolds(s)
        BY <2>1, <2>2, <3>2 DEF WorkerHolds, Releases
      <4>3. QED
        BY <2>3, <3>2, <4>1, <4>2 DEF CountInv
    <3>3. QED
      BY <3>1, <3>2
  <2>5. ASSUME NEW u \in Threads, pc'[u] \in QueueSteps, ev'[u] # NULL
        PROVE  eref'[ev'[u]] = 1
    <3>1. ev[u] \in WithEvent /\ ev[u] # r /\ eref[ev[u]] = 1
      BY <2>1, <2>5 DEF EventInv, CountInv, QueueSteps
    <3>2. QED
      BY <2>1, <2>3, <3>1
  <2>6. QED
    BY <2>4, <2>5 DEF CountInv
<1>2. ASSUME NEW r \in WithEvent \cup {NULL}, NEW where \in {"q_check", "e_check"}, pc[t] = "idle",
             UNCHANGED <<eref, status, enqueued>>, where = "q_check" => r = NULL,
             r = NULL \/ r \in eHeld,
             eHeld' = eHeld \ {r}, pc' = [pc EXCEPT ![t] = where], ev' = [ev EXCEPT ![t] = r]
      PROVE  CountInv'
  <2>1. /\ \A u \in Threads : u # t => pc'[u] = pc[u] /\ ev'[u] = ev[u]
        /\ pc'[t] = where /\ ev'[t] = r /\ where # "idle" /\ t # Worker
    BY <1>2, NamesAssumption DEF EventInv
  <2>2. ASSUME NEW s \in WithEvent
        PROVE  (AppHolds(s)' <=> AppHolds(s)) /\ (WorkerHolds(s)' <=> WorkerHolds(s))
    <3>1. s # NULL
      BY QueueAssumption, NamesAssumption
    <3>2. WorkerHolds(s)' <=> WorkerHolds(s)
      BY <1>2, <2>1 DEF WorkerHolds, Releases
    <3>3. CASE s = r
      <4>1. AppHolds(s)
        BY <1>2, <3>1, <3>3 DEF AppHolds
      <4>2. AppHolds(s)'
        BY <2>1, <3>3 DEF AppHolds, Releases
      <4>3. QED
        BY <3>2, <4>1, <4>2
    <3>4. CASE s # r
      <4>1. AppHolds(s)' <=> AppHolds(s)
        BY <1>2, <2>1, <3>4 DEF AppHolds, Releases
      <4>2. QED
        BY <3>2, <4>1
    <3>5. QED
      BY <3>3, <3>4
  <2>3. \A u \in Threads : pc'[u] \in QueueSteps /\ ev'[u] # NULL => eref'[ev'[u]] = 1
    BY <1>2, <2>1 DEF CountInv, QueueSteps
  <2>4. QED
    BY <1>2, <2>2, <2>3 DEF CountInv
<1>3. CASE xrp_release_queue(t)
  <2>1. eHeld = eHeld \ {NULL}
    BY QueueAssumption, NamesAssumption DEF EventInv
  <2>2. QED
    BY <1>2, <1>3, <2>1 DEF xrp_release_queue, hist
<1>4. ASSUME NEW r \in Requests, xrp_release_event(t, r)
      PROVE  CountInv'
  BY <1>2, <1>4 DEF xrp_release_event, hist, EventInv
<1>5. QED
  BY <1>1, <1>3, <1>4 DEF AppStep

\* What the release functions do to CountInv: last_refcount and
\* release_refcounted of an event.
LEMMA CountRelease ==
  ASSUME ListInv, EventInv, ScalarInv, OnceInv, CountInv, NEW t \in Threads, ReleaseStep(t)
  PROVE  CountInv'
<1>1. ASSUME eref' = eref, pc'[t] = "idle" => ev[t] = NULL,
             pc'[t] \in QueueSteps /\ ev[t] # NULL => eref[ev[t]] = 1
      PROVE  CountInv'
  <2>1. \A s \in WithEvent : s # NULL
    BY QueueAssumption, NamesAssumption
  <2>2. \A u \in Threads, s \in WithEvent : Releases(u, s)' <=> Releases(u, s)
    BY <1>1, <2>1, ReleaseGoesOn DEF Releases
  <2>3. \A s \in WithEvent : (AppHolds(s)' <=> AppHolds(s)) /\ (WorkerHolds(s)' <=> WorkerHolds(s))
    BY <2>2, ReleaseGoesOn DEF AppHolds, WorkerHolds, Threads
  <2>4. \A u \in Threads : pc'[u] \in QueueSteps /\ ev'[u] # NULL => eref'[ev'[u]] = 1
    BY <1>1, ReleaseGoesOn DEF CountInv
  <2>5. QED
    BY <1>1, <2>3, <2>4 DEF CountInv
<1>2. CASE CheckEvent(t)
  BY <1>1, <1>2 DEF CheckEvent, Goto, EventInv, refs, QueueSteps
<1>3. CASE CheckQueue(t) \/ SetExit(t) \/ Join(t) \/ DropQueue(t)
  <2>1. eref' = eref /\ pc[t] \in QueueSteps
    BY <1>3 DEF CheckQueue, SetExit, Join, DropQueue, refs, QueueSteps
  <2>2. pc'[t] = "idle" => ev[t] = NULL
    BY <1>3 DEF CheckQueue, SetExit, Join, DropQueue, Goto, EventInv
  <2>3. ev[t] # NULL => eref[ev[t]] = 1
    BY <2>1 DEF CountInv
  <2>4. QED
    BY <1>1, <2>1, <2>2, <2>3
<1>4. CASE DropEvent(t)
  <2> DEFINE r == ev[t]
  <2>1. r \in WithEvent /\ r # NULL /\ Releases(t, r) /\ r \in ToSet(enqueued)
    BY <1>4 DEF DropEvent, EventInv, Releases
  <2>2. eref' = [eref EXCEPT ![r] = @ - 1] /\ pc'[t] = "idle"
    BY <1>4 DEF DropEvent, Goto, EventInv
  <2>3. /\ \A s \in WithEvent : s # r => eref'[s] = eref[s]
        /\ eref'[r] = eref[r] - 1
    BY <2>1, <2>2 DEF ScalarInv
  <2>4. \A u \in Threads : u # t => pc'[u] = pc[u] /\ ev'[u] = ev[u]
    BY ReleaseGoesOn
  <2> HIDE DEF r
  <2>5. ASSUME NEW s \in WithEvent
        PROVE  eref'[s] = (IF AppHolds(s)' THEN 1 ELSE 0) + (IF WorkerHolds(s)' THEN 1 ELSE 0)
    <3>1. CASE s # r
      <4>1. \A u \in Threads : Releases(u, s)' <=> Releases(u, s)
        BY <2>1, <2>2, <2>4, <3>1, ReleaseGoesOn DEF Releases
      <4>2. (AppHolds(s)' <=> AppHolds(s)) /\ (WorkerHolds(s)' <=> WorkerHolds(s))
        BY <4>1, ReleaseGoesOn DEF AppHolds, WorkerHolds, Threads
      <4>3. QED
        BY <2>3, <3>1, <4>2 DEF CountInv
    <3>2. CASE s = r /\ t = Worker
      <4>1. status[s] # "pending" /\ WorkerHolds(s)
        BY <2>1, <3>2 DEF OnceInv, WorkerHolds
      <4>2. ~WorkerHolds(s)'
        BY <2>1, <2>2, <3>2, <4>1, ReleaseGoesOn DEF WorkerHolds, Releases
      <4>3. AppHolds(s)' <=> AppHolds(s)
        BY <2>4, <3>2, NamesAssumption, ReleaseGoesOn DEF AppHolds, Releases, Threads
      <4>4. QED
        BY <2>1, <2>3, <3>2, <4>1, <4>2, <4>3 DEF CountInv
    <3>3. CASE s = r /\ t # Worker
      <4>1. t \in AppThreads /\ AppHolds(s)
        BY <2>1, <3>3 DEF AppHolds, Threads
      <4>2. s \notin eHeld /\ \A u \in AppThreads : Releases(u, s) => u = t
        BY <2>1, <3>3, <4>1 DEF OnceInv
      <4>3. ~AppHolds(s)'
        BY <2>2, <2>4, <4>2, NamesAssumption, ReleaseGoesOn DEF AppHolds, Releases, Threads
      <4>4. WorkerHolds(s)' <=> WorkerHolds(s)
        BY <2>4, <3>3, ReleaseGoesOn DEF WorkerHolds, Releases, Threads
      <4>5. QED
        BY <2>1, <2>3, <3>3, <4>1, <4>3, <4>4 DEF CountInv
    <3>4. QED
      BY <3>1, <3>2, <3>3
  <2>6. ASSUME NEW u \in Threads, pc'[u] \in QueueSteps, ev'[u] # NULL
        PROVE  eref'[ev'[u]] = 1
    <3>1. u # t
      BY <2>2, <2>6 DEF QueueSteps
    <3>2. pc[u] \in QueueSteps /\ ev'[u] = ev[u] /\ ev[u] # NULL /\ ev[u] \in WithEvent
      BY <2>4, <2>6, <3>1 DEF EventInv
    <3>3. eref[ev[u]] = 1 /\ Releases(u, ev[u])
      BY <3>2 DEF CountInv, Releases, QueueSteps
    <3>4. ev[u] # r
      BY <2>1, <3>1, <3>3, TwoReleases
    <3>5. QED
      BY <2>3, <3>2, <3>3, <3>4
  <2>7. QED
    BY <2>5, <2>6 DEF CountInv
<1>5. QED
  BY <1>2, <1>3, <1>4 DEF ReleaseStep

\* What the worker's steps do to CountInv: signalling an event turns the
\* request's reference into one that is being released.
LEMMA CountWorker ==
  ASSUME ListInv, EventInv, ScalarInv, OnceInv, CountInv, WorkerStep \/ SpuriousWakeup
  PROVE  CountInv'
<1> USE DEF Threads
<1>1. CASE SignalEvent
  <2>1. /\ UNCHANGED <<eref, eHeld, enqueued>>
        /\ status' = [status EXCEPT ![cur] = "done"]
        /\ pc' = [pc EXCEPT ![Worker] = "e_check"] /\ ev' = [ev EXCEPT ![Worker] = cur]
    BY <1>1 DEF SignalEvent, refs, hist
  <2>2. cur \in WithEvent /\ cur \in ToSet(enqueued) /\ status[cur] = "pending" /\ pc[Worker] = "idle"
    BY <1>1, SignalIsFirst DEF SignalEvent, EventInv
  <2>3. /\ \A u \in AppThreads : pc'[u] = pc[u] /\ ev'[u] = ev[u]
        /\ pc'[Worker] = "e_check" /\ ev'[Worker] = cur
    BY <2>1, NamesAssumption DEF EventInv
  <2>4. \A s \in WithEvent : status'[s] = IF s = cur THEN "done" ELSE status[s]
    BY <2>1, <2>2 DEF ScalarInv
  <2>5. \A s \in WithEvent : AppHolds(s)' <=> AppHolds(s)
    BY <2>1, <2>3 DEF AppHolds, Releases
  <2>6. \A s \in WithEvent : WorkerHolds(s)' <=> WorkerHolds(s)
    BY <2>1, <2>2, <2>3, <2>4 DEF WorkerHolds, Releases
  <2>7. \A u \in Threads : pc'[u] \in QueueSteps /\ ev'[u] # NULL => eref'[ev'[u]] = 1
    BY <2>1, <2>3 DEF CountInv, QueueSteps
  <2>8. QED
    BY <2>1, <2>5, <2>6, <2>7 DEF CountInv
<1>2. CASE ~SignalEvent
  <2>1. UNCHANGED <<eref, eHeld, enqueued, status, pc, ev>>
    BY <1>2 DEF WorkerStep, Dequeue, SleepOrEnd, RunCommand, ReturnToLoop, SpuriousWakeup, refs, release, hist
  <2>2. QED
    BY <2>1 DEF CountInv, AppHolds, WorkerHolds, Releases
<1>3. QED
  BY <1>1, <1>2

-----------------------------------------------------------------------------
(* The reference count of the queue.                                       *)

\* The events that hold a reference to the queue, and whether the application
\* still has its own, as in Holders.
Alive == {r \in WithEvent : eref[r] > 0 /\ ~\E t \in Threads :
              ev[t] = r /\ pc[t] = "e_dec" /\ eref[r] = 1}

InUse == qHeld \/ \E t \in Threads : ev[t] = NULL /\ pc[t] # "idle"

QueueInv ==
  /\ IsFiniteSet(Alive)
  /\ qref \in Nat
  /\ qref >= Cardinality(Alive) + (IF InUse THEN 1 ELSE 0)
  /\ gone => qref = 0

RefsInv == ListInv /\ EventInv /\ ScalarInv /\ OnceInv /\ CountInv /\ QueueInv

----------------------------------------------------------------------------
(* The count of the queue.                                                 *)

\* A step that leaves the count alone and adds no holder keeps QueueInv.
LEMMA QueueFrame ==
  ASSUME QueueInv, Alive' \in SUBSET Alive, InUse' => InUse, UNCHANGED <<qref, gone>>
  PROVE  QueueInv'
<1>1. IsFiniteSet(Alive') /\ Cardinality(Alive') <= Cardinality(Alive)
  BY FS_Subset DEF QueueInv
<1>2. Cardinality(Alive) \in Nat /\ Cardinality(Alive') \in Nat
  BY <1>1, FS_CardinalityType DEF QueueInv
<1>3. qref' \in Nat /\ qref' >= Cardinality(Alive') + (IF InUse' THEN 1 ELSE 0)
  BY <1>1, <1>2 DEF QueueInv
<1>4. QED
  BY <1>1, <1>3 DEF QueueInv

\* A thread that begins a release adds no holder.
LEMMA QueueBegin ==
  ASSUME QueueInv, EventInv, NEW t \in Threads, NEW r, NEW where, pc[t] = "idle",
         pc' = [pc EXCEPT ![t] = where], ev' = [ev EXCEPT ![t] = r],
         UNCHANGED <<eref, qref, gone>>, qHeld' => qHeld, r = NULL => qHeld
  PROVE  QueueInv'
<1>1. /\ \A u \in Threads : u # t => pc'[u] = pc[u] /\ ev'[u] = ev[u]
      /\ ev'[t] = r
  BY DEF EventInv
<1>2. Alive' \in SUBSET Alive
  BY <1>1 DEF Alive
<1>3. InUse' => InUse
  BY <1>1 DEF InUse
<1>4. QED
  BY <1>2, <1>3, QueueFrame

\* What the application's steps do to QueueInv.
LEMMA QueueApp ==
  ASSUME ListInv, EventInv, ScalarInv, OnceInv, CountInv, QueueInv, NEW t \in AppThreads, AppStep(t)
  PROVE  QueueInv'
<1> USE DEF Threads
<1>1. ASSUME NEW r \in Requests, xrp_enqueue_command(t, r)
      PROVE  QueueInv'
  <2>1. UNCHANGED <<pc, ev, qHeld, gone>> /\ qHeld /\ r \notin ToSet(enqueued)
    BY <1>1 DEF xrp_enqueue_command, release
  <2>2. CASE r \notin WithEvent
    <3>1. UNCHANGED <<eref, qref>>
      BY <1>1, <2>2 DEF xrp_enqueue_command
    <3>2. Alive' \in SUBSET Alive /\ (InUse' => InUse)
      BY <2>1, <3>1 DEF Alive, InUse
    <3>3. QED
      BY <2>1, <3>1, <3>2, QueueFrame
  <2>3. CASE r \in WithEvent
    <3>1. qref' = qref + 1 /\ eref' = [eref EXCEPT ![r] = 2]
      BY <1>1, <2>3 DEF xrp_enqueue_command, CreateEvent
    <3>2. eref[r] = 0
      <4>1. ~AppHolds(r) /\ ~WorkerHolds(r)
        BY <2>1, <2>3, NotYetUsed DEF AppHolds, WorkerHolds
      <4>2. QED
        BY <2>3, <4>1 DEF CountInv
    <3>3. eref'[r] = 2 /\ \A s \in WithEvent : s # r => eref'[s] = eref[s]
      BY <2>3, <3>1 DEF ScalarInv
    <3>4. Alive' = Alive \cup {r}
      BY <2>1, <2>3, <3>3, <3>2 DEF Alive
    <3>5. IsFiniteSet(Alive') /\ Cardinality(Alive') <= Cardinality(Alive) + 1
      <4>1. Cardinality(Alive) \in Nat
        BY FS_CardinalityType DEF QueueInv
      <4>2. QED
        BY <3>4, <4>1, FS_AddElement DEF QueueInv
    <3>6. Cardinality(Alive) \in Nat /\ Cardinality(Alive') \in Nat
      BY <3>5, FS_CardinalityType DEF QueueInv
    <3>7. InUse /\ InUse'
      BY <2>1 DEF InUse
    <3>8. ~gone
      BY <3>6, <3>7 DEF QueueInv
    <3>9. qref' \in Nat /\ qref' >= Cardinality(Alive') + (IF InUse' THEN 1 ELSE 0)
      BY <3>1, <3>5, <3>6, <3>7 DEF QueueInv
    <3>10. QED
      BY <2>1, <3>5, <3>8, <3>9 DEF QueueInv
  <2>4. QED
    BY <2>2, <2>3
<1>2. CASE xrp_release_queue(t)
  <2>1. /\ pc[t] = "idle" /\ qHeld /\ UNCHANGED <<eref, qref, gone>>
        /\ pc' = [pc EXCEPT ![t] = "q_check"] /\ ev' = [ev EXCEPT ![t] = NULL]
    BY <1>2 DEF xrp_release_queue
  <2>2. QED
    BY <2>1, QueueBegin
<1>3. ASSUME NEW r \in Requests, xrp_release_event(t, r)
      PROVE  QueueInv'
  <2>1. /\ pc[t] = "idle" /\ r # NULL /\ UNCHANGED <<eref, qref, gone, qHeld>>
        /\ pc' = [pc EXCEPT ![t] = "e_check"] /\ ev' = [ev EXCEPT ![t] = r]
    BY <1>3, NamesAssumption DEF xrp_release_event
  <2>2. QED
    BY <2>1, QueueBegin
<1>4. QED
  BY <1>1, <1>2, <1>3 DEF AppStep

\* What the release functions do to QueueInv: release_refcounted of the queue
\* is called by one of the holders that are counted.
LEMMA QueueRelease ==
  ASSUME ListInv, EventInv, ScalarInv, OnceInv, CountInv, QueueInv, NEW t \in Threads, ReleaseStep(t)
  PROVE  QueueInv'
<1>1. InUse' => InUse
  BY ReleaseGoesOn DEF InUse
<1>2. ASSUME pc[t] # "e_dec", eref' = eref
      PROVE  Alive' \in SUBSET Alive
  BY <1>2, ReleaseGoesOn DEF Alive
<1>3. CASE CheckEvent(t) \/ CheckQueue(t) \/ SetExit(t) \/ Join(t)
  <2>1. UNCHANGED <<eref, qref, gone>> /\ pc[t] # "e_dec"
    BY <1>3 DEF CheckEvent, CheckQueue, SetExit, Join, refs
  <2>2. QED
    BY <1>1, <1>2, <2>1, QueueFrame
<1>4. CASE DropEvent(t)
  <2>1. PICK r \in WithEvent : ev[t] = r /\ Releases(t, r)
    BY <1>4 DEF DropEvent, EventInv, Releases
  <2>2. eref' = [eref EXCEPT ![r] = @ - 1] /\ UNCHANGED <<qref, gone>>
    BY <1>4, <2>1 DEF DropEvent
  <2>3. /\ \A s \in WithEvent : s # r => eref'[s] = eref[s]
        /\ eref'[r] = eref[r] - 1 /\ eref[r] \in 0..2
    BY <2>1, <2>2 DEF ScalarInv
  <2>4. ASSUME NEW s \in Alive' PROVE s \in Alive
    <3>1. CASE s = r
      BY <2>1, <2>3, <2>4, <3>1 DEF Alive
    <3>2. CASE s # r
      BY <2>1, <2>3, <2>4, <3>2, ReleaseGoesOn DEF Alive
    <3>3. QED
      BY <3>1, <3>2
  <2>5. QED
    BY <1>1, <2>2, <2>4, QueueFrame
<1>5. CASE DropQueue(t)
  <2>1. qref' = qref - 1 /\ gone' = (qref' = 0) /\ eref' = eref /\ pc[t] = "q_dec"
    BY <1>5 DEF DropQueue
  <2>2. Alive' \in SUBSET Alive
    BY <1>2, <2>1
  <2>3. /\ IsFiniteSet(Alive') /\ Cardinality(Alive') <= Cardinality(Alive)
        /\ Cardinality(Alive) \in Nat /\ Cardinality(Alive') \in Nat
    <3>1. IsFiniteSet(Alive') /\ Cardinality(Alive') <= Cardinality(Alive)
      BY <2>2, FS_Subset DEF QueueInv
    <3>2. QED
      BY <3>1, FS_CardinalityType DEF QueueInv
  <2>4. qref' \in Nat /\ qref' >= Cardinality(Alive') + (IF InUse' THEN 1 ELSE 0)
    <3>1. CASE ev[t] = NULL
      <4>1. Releases(t, NULL) /\ t \in AppThreads /\ pc'[t] = "idle"
        BY <1>5, <3>1 DEF DropQueue, Goto, EventInv, Releases, OnceInv, Threads
      <4>2. InUse /\ ~qHeld
        BY <4>1 DEF InUse, Releases, OnceInv, Threads
      <4>3. ~InUse'
        <5>1. ASSUME NEW u \in Threads, ev'[u] = NULL, pc'[u] # "idle"
              PROVE  FALSE
          <6>1. u # t
            BY <4>1, <5>1
          <6>2. Releases(u, NULL)
            BY <5>1, <6>1, ReleaseGoesOn DEF Releases
          <6>3. u \in AppThreads
            BY <6>2 DEF OnceInv, Threads
          <6>4. QED
            BY <4>1, <6>1, <6>2, <6>3 DEF OnceInv
        <5>2. QED
          BY <4>2, <5>1, ReleaseGoesOn DEF InUse
      <4>4. QED
        BY <2>1, <2>3, <4>2, <4>3 DEF QueueInv
    <3>2. CASE ev[t] # NULL
      <4>1. PICK r \in WithEvent : ev[t] = r /\ Releases(t, r) /\ eref[r] = 1
        BY <2>1, <3>2 DEF EventInv, Releases, CountInv, QueueSteps
      <4>2. r \in Alive
        <5>1. ASSUME NEW u \in Threads, ev[u] = r, pc[u] = "e_dec"
              PROVE  FALSE
          <6>1. u # t /\ Releases(u, r)
            BY <2>1, <5>1 DEF Releases
          <6>2. QED
            BY <4>1, <6>1, TwoReleases
        <5>2. QED
          BY <4>1, <5>1 DEF Alive
      <4>3. pc'[t] = "e_dec"
        BY <1>5, <3>2 DEF DropQueue, Goto, EventInv
      <4>4. r \notin Alive'
        BY <2>1, <4>1, <4>3, ReleaseGoesOn DEF Alive
      <4>5. Alive' \in SUBSET (Alive \ {r})
        BY <2>2, <4>4
      <4>6. IsFiniteSet(Alive \ {r}) /\ Cardinality(Alive \ {r}) = Cardinality(Alive) - 1
        BY <4>2, FS_RemoveElement DEF QueueInv
      <4>7. Cardinality(Alive') <= Cardinality(Alive) - 1
        BY <4>5, <4>6, FS_Subset
      <4>8. QED
        BY <1>1, <2>1, <2>3, <4>7 DEF QueueInv
    <3>3. QED
      BY <3>1, <3>2
  <2>5. gone' => qref' = 0
    BY <2>1, Zenon
  <2>6. QED
    BY <2>3, <2>4, <2>5 DEF QueueInv
<1>6. QED
  BY <1>3, <1>4, <1>5 DEF ReleaseStep

\* What the worker's steps do to QueueInv.
LEMMA QueueWorker ==
  ASSUME ListInv, EventInv, ScalarInv, OnceInv, QueueInv, WorkerStep \/ SpuriousWakeup
  PROVE  QueueInv'
<1>1. CASE SignalEvent
  <2>1. /\ wpc = "signal" /\ UNCHANGED <<eref, qref, gone, qHeld>>
        /\ pc' = [pc EXCEPT ![Worker] = "e_check"] /\ ev' = [ev EXCEPT ![Worker] = cur]
    BY <1>1 DEF SignalEvent, refs
  <2>2. Worker \in Threads /\ pc[Worker] = "idle" /\ cur # NULL
    BY <2>1, SignalIsFirst, QueueAssumption, NamesAssumption DEF Threads
  <2>3. QED
    BY <2>1, <2>2, QueueBegin
<1>2. CASE ~SignalEvent
  <2>1. UNCHANGED <<eref, qref, gone, qHeld, pc, ev>>
    BY <1>2 DEF WorkerStep, Dequeue, SleepOrEnd, RunCommand, ReturnToLoop, SpuriousWakeup, refs, release
  <2>2. Alive' \in SUBSET Alive /\ (InUse' => InUse)
    BY <2>1 DEF Alive, InUse
  <2>3. QED
    BY <2>1, <2>2, QueueFrame
<1>3. QED
  BY <1>1, <1>2

----------------------------------------------------------------------------
\* The queue starts with the application's reference and no event.
LEMMA RefsInvInit == Init => RefsInv
<1> SUFFICES ASSUME Init PROVE RefsInv
  OBVIOUS
<1> USE DEF Threads
<1>1. ListInv /\ EventInv
  BY ReleaseInvInit DEF ReleaseInv
<1>2. ScalarInv
  <2>1. exit \in BOOLEAN /\ syncExit \in BOOLEAN /\ qHeld \in BOOLEAN /\ gone \in BOOLEAN
    BY Zenon DEF Init
  <2>2. /\ wpc \in {"look", "asleep", "run", "signal", "return", "end"} /\ cur \in Requests \cup {NULL}
        /\ status \in [WithEvent -> {"pending", "done"}]
    BY DEF Init
  <2>3. eref \in [WithEvent -> 0..2]
    BY DEF Init
  <2>4. QED
    BY <2>1, <2>2, <2>3 DEF ScalarInv
<1>3. \A t \in Threads : pc[t] = "idle"
  BY DEF Init
<1>4. OnceInv
  BY <1>3 DEF Init, OnceInv, Releases
<1>5. CountInv
  <2>1. ToSet(enqueued) = {}
    BY DEF Init, ToSet
  <2>2. \A r \in WithEvent : ~AppHolds(r) /\ ~WorkerHolds(r) /\ eref[r] = 0
    BY <1>3, <2>1 DEF Init, AppHolds, WorkerHolds, Releases
  <2>3. \A r \in WithEvent :
          eref[r] = (IF AppHolds(r) THEN 1 ELSE 0) + (IF WorkerHolds(r) THEN 1 ELSE 0)
    BY <2>2
  <2>4. \A t \in Threads : pc[t] \notin QueueSteps
    BY <1>3 DEF QueueSteps
  <2>5. QED
    BY <2>3, <2>4 DEF CountInv
<1>6. QueueInv
  <2>1. Alive = {}
    BY DEF Init, Alive
  <2>2. QED
    BY <2>1, FS_EmptySet DEF Init, QueueInv
<1>7. QED
  BY <1>1, <1>2, <1>4, <1>5, <1>6 DEF RefsInv

\* Every step keeps RefsInv.
LEMMA RefsInvStep == RefsInv /\ [Next]_vars => RefsInv'
<1> SUFFICES ASSUME RefsInv, [Next]_vars PROVE RefsInv'
  OBVIOUS
<1>1. ListInv /\ EventInv /\ ScalarInv /\ OnceInv /\ CountInv /\ QueueInv
  BY DEF RefsInv
<1>2. ListInv' /\ EventInv' /\ ScalarInv'
  BY <1>1, ListStep, EventStep, ScalarStep
<1>3. CASE UNCHANGED vars
  <2>1. UNCHANGED <<pc, ev, eref, status, enqueued, ran, wpc, cur, eHeld, qHeld, qref, gone>>
    BY <1>3 DEF vars
  <2>2. OnceInv' /\ CountInv'
    BY <1>1, <2>1 DEF OnceInv, CountInv, AppHolds, WorkerHolds, Releases
  <2>3. Alive' \in SUBSET Alive /\ (InUse' => InUse)
    BY <2>1 DEF Alive, InUse
  <2>4. QueueInv'
    BY <1>1, <2>1, <2>3, QueueFrame
  <2>5. QED
    BY <1>2, <2>2, <2>4 DEF RefsInv
<1>4. CASE WorkerStep \/ SpuriousWakeup
  BY <1>1, <1>2, <1>4, OnceWorker, CountWorker, QueueWorker DEF RefsInv
<1>5. ASSUME NEW t \in Threads, ReleaseStep(t)
      PROVE  RefsInv'
  BY <1>1, <1>2, <1>5, OnceRelease, CountRelease, QueueRelease DEF RefsInv
<1>6. ASSUME NEW t \in AppThreads, AppStep(t)
      PROVE  RefsInv'
  BY <1>1, <1>2, <1>6, OnceApp, CountApp, QueueApp DEF RefsInv
<1>7. QED
  BY <1>3, <1>4, <1>5, <1>6 DEF Next

\* For any sets of commands and threads, while the application and the worker
\* may both be between looking at a count and decrementing it, the queue's
\* count never falls below the number of those that hold it, and an event that
\* the application holds has not been freed (xrp_release_event,
\* xrp_release_queue, last_refcount and release_refcounted).
THEOREM ReferencesKeepAlive == Spec => []HeldIsAlive
<1>1. RefsInv => HeldIsAlive
  <2> SUFFICES ASSUME RefsInv PROVE HeldIsAlive
    OBVIOUS
  <2>1. ListInv /\ EventInv /\ ScalarInv /\ OnceInv /\ CountInv /\ QueueInv
    BY DEF RefsInv
  <2>2. TypeOK
    <3>1. head \in Requests \cup {NULL} /\ tail \in Requests \cup {NULL}
      BY <2>1 DEF ListInv, Taken
    <3>2. QED
      BY <2>1, <3>1 DEF TypeOK, ListInv, EventInv, ScalarInv, QueueInv, QueueSteps
  <2>3. Holders = Cardinality(Alive) + (IF InUse THEN 1 ELSE 0)
    BY DEF Holders, Alive, InUse
  <2>4. \A r \in eHeld : eref[r] > 0
    <3>1. \A r \in eHeld : r \in WithEvent /\ AppHolds(r)
      BY <2>1 DEF EventInv, AppHolds
    <3>2. QED
      BY <2>1, <3>1 DEF CountInv
  <2>5. QED
    BY <2>1, <2>2, <2>3, <2>4 DEF HeldIsAlive, QueueInv
<1>2. QED
  BY <1>1, RefsInvInit, RefsInvStep, PTL DEF Spec

=============================================================================
