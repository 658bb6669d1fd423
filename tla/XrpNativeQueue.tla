-------------------------- MODULE XrpNativeQueue --------------------------
(***************************************************************************)
(* One command queue of the native host library with its worker thread     *)
(* (xrp-linux-native/xrp_linux_native.c): the linked list of requests and  *)
(* its condition variable, the events, and the reference counts of queue   *)
(* and events.                                                             *)
(*                                                                         *)
(* Every thread of the application may enqueue, wait and release.  The     *)
(* release functions look at a reference count first (last_refcount) and   *)
(* decrement it later (release_refcounted); each of these is a step, so    *)
(* that the application and the worker may both be between the two.        *)
(* Buffer groups and the device are left out: a group only adds references *)
(* of its own, the device outlives its queues.                             *)
(***************************************************************************)
EXTENDS Naturals, FiniteSets, SequencesExt

CONSTANTS
  Requests,    \* the commands, each enqueued at most once
  WithEvent,   \* those enqueued with a non-NULL evt
  AppThreads   \* the threads of the application

ASSUME QueueAssumption == WithEvent \subseteq Requests

NULL == "NULL"
Worker == "xrp_queue_thread"
Threads == AppThreads \cup {Worker}

ASSUME NamesAssumption == NULL \notin Requests /\ Worker \notin AppThreads

VARIABLES
  head, tail, next,  \* request_queue and the requests' next fields
  exit,              \* queue->exit
  syncExit,          \* exit of the xrp_queue_process that is running
  qref,              \* queue->ref.count
  gone,              \* the queue has been freed
  eref,              \* event->ref.count, 0 before and after its life
  status,            \* event->status
  qHeld,             \* the application has not released the queue
  eHeld,             \* the events it has not released
  wpc,               \* where the worker is
  cur,               \* the request the worker is processing
  pc,                \* where each thread is in a release function
  ev,                \* the event it is releasing, NULL for the queue alone
  enqueued,          \* history: the commands in the order they were enqueued
  ran                \* history: the commands in the order they were run

list == <<head, tail, next>>
worker == <<exit, syncExit, wpc, cur>>
refs == <<qref, gone, eref, qHeld, eHeld>>
release == <<pc, ev>>
hist == <<enqueued, ran>>
vars == <<head, tail, next, exit, syncExit, qref, gone, eref, status, qHeld, eHeld, wpc,
          cur, pc, ev, enqueued, ran>>

TypeOK ==
  /\ head \in Requests \cup {NULL} /\ tail \in Requests \cup {NULL}
  /\ next \in [Requests -> Requests \cup {NULL}]
  /\ exit \in BOOLEAN /\ syncExit \in BOOLEAN /\ gone \in BOOLEAN /\ qHeld \in BOOLEAN
  /\ qref \in Nat /\ eref \in [WithEvent -> 0..2]
  /\ status \in [WithEvent -> {"pending", "done"}]
  /\ eHeld \subseteq WithEvent
  /\ wpc \in {"look", "asleep", "run", "signal", "return", "end"}
  /\ cur \in Requests \cup {NULL}
  /\ pc \in [Threads -> {"idle", "e_check", "q_check", "q_exit", "q_join", "q_dec", "e_dec"}]
  /\ ev \in [Threads -> WithEvent \cup {NULL}]
  /\ enqueued \in Seq(Requests) /\ ran \in Seq(Requests)

\* xrp_create_ns_queue has returned.
Init ==
  /\ head = NULL /\ tail = NULL /\ next = [r \in Requests |-> NULL]
  /\ exit = FALSE /\ syncExit = FALSE
  /\ qref = 1 /\ gone = FALSE /\ qHeld = TRUE
  /\ eref = [r \in WithEvent |-> 0] /\ status = [r \in WithEvent |-> "pending"]
  /\ eHeld = {}
  /\ wpc = "look" /\ cur = NULL
  /\ pc = [t \in Threads |-> "idle"] /\ ev = [t \in Threads |-> NULL]
  /\ enqueued = <<>> /\ ran = <<>>

----------------------------------------------------------------------------
(* The application.                                                        *)

\* pthread_cond_broadcast(&queue->request_queue_cond)
WakeWorker == wpc' = IF wpc = "asleep" THEN "look" ELSE wpc

\* A mistake: the worker is woken when there is something to wait for behind.
xrp_enqueue_request_nowake(r) ==
  /\ next' = IF tail # NULL THEN [next EXCEPT ![tail] = r, ![r] = NULL]
             ELSE [next EXCEPT ![r] = NULL]
  /\ head' = IF tail = NULL THEN r ELSE head
  /\ IF tail # NULL THEN WakeWorker ELSE UNCHANGED wpc
  /\ tail' = r

\* The worker is woken only when the list was empty.
xrp_enqueue_request(r) ==
  /\ next' = IF tail # NULL THEN [next EXCEPT ![tail] = r, ![r] = NULL]
             ELSE [next EXCEPT ![r] = NULL]
  /\ head' = IF tail = NULL THEN r ELSE head
  /\ IF tail = NULL THEN WakeWorker ELSE UNCHANGED wpc
  /\ tail' = r

\* A mistake: the event does not retain the queue.
CreateEventNoQueue(r) ==
  /\ eref' = [eref EXCEPT ![r] = 2]
  /\ eHeld' = eHeld \cup {r}
  /\ UNCHANGED qref

\* The event holds a reference to the queue; the caller and the request hold
\* one to the event.
CreateEvent(r) ==
  /\ qref' = qref + 1
  /\ eref' = [eref EXCEPT ![r] = 2]
  /\ eHeld' = eHeld \cup {r}

\* When malloc fails nothing has happened; the step is left out.
xrp_enqueue_command(t, r) ==
  /\ pc[t] = "idle" /\ qHeld /\ r \notin ToSet(enqueued)
  /\ \/ r \in WithEvent /\ CreateEvent(r)
     \/ /\ r \notin WithEvent
        /\ UNCHANGED <<qref, eref, eHeld>>
  /\ xrp_enqueue_request(r)
  /\ enqueued' = Append(enqueued, r)
  /\ UNCHANGED <<exit, syncExit, cur, gone, status, qHeld, release, ran>>

\* xrp_release_queue on the application's own reference.
xrp_release_queue(t) ==
  /\ pc[t] = "idle" /\ qHeld
  /\ qHeld' = FALSE
  /\ pc' = [pc EXCEPT ![t] = "q_check"] /\ ev' = [ev EXCEPT ![t] = NULL]
  /\ UNCHANGED <<list, worker, qref, gone, eref, eHeld, status, hist>>

\* xrp_release_event on the application's own reference, after xrp_wait as in
\* xrp_run_command_sync or without waiting.
xrp_release_event(t, r) ==
  /\ pc[t] = "idle" /\ r \in eHeld
  /\ eHeld' = eHeld \ {r}
  /\ pc' = [pc EXCEPT ![t] = "e_check"] /\ ev' = [ev EXCEPT ![t] = r]
  /\ UNCHANGED <<list, worker, qref, gone, eref, qHeld, status, hist>>

----------------------------------------------------------------------------
(* xrp_release_event and xrp_release_queue, by whichever thread.           *)

Goto(t, where) == pc' = [pc EXCEPT ![t] = where]

\* last_refcount(event)
CheckEvent(t) ==
  /\ pc[t] = "e_check"
  /\ Goto(t, IF eref[ev[t]] = 1 THEN "q_check" ELSE "e_dec")
  /\ UNCHANGED <<list, worker, refs, status, ev, hist>>

\* last_refcount(queue)
CheckQueue(t) ==
  /\ pc[t] = "q_check"
  /\ Goto(t, IF qref = 1 THEN "q_exit" ELSE "q_dec")
  /\ UNCHANGED <<list, worker, refs, status, ev, hist>>

\* A mistake: the worker is not woken.
SetExitNoBroadcast(t) ==
  /\ pc[t] = "q_exit"
  /\ exit' = TRUE
  /\ Goto(t, "q_join")
  /\ UNCHANGED <<list, syncExit, wpc, cur, refs, status, ev, hist>>

SetExit(t) ==
  /\ pc[t] = "q_exit"
  /\ exit' = TRUE
  /\ WakeWorker
  /\ Goto(t, "q_join")
  /\ UNCHANGED <<list, syncExit, cur, refs, status, ev, hist>>

\* pthread_join fails for the worker itself, which then leaves its loop by
\* *queue->sync_exit.
Join(t) ==
  /\ pc[t] = "q_join"
  /\ \/ t # Worker /\ wpc = "end" /\ UNCHANGED syncExit
     \/ t = Worker /\ syncExit' = TRUE
  /\ Goto(t, "q_dec")
  /\ UNCHANGED <<list, exit, wpc, cur, refs, status, ev, hist>>

\* release_refcounted(queue)
DropQueue(t) ==
  /\ pc[t] = "q_dec"
  /\ qref' = qref - 1
  /\ gone' = (qref' = 0)
  /\ Goto(t, IF ev[t] = NULL THEN "idle" ELSE "e_dec")
  /\ UNCHANGED <<list, worker, eref, qHeld, eHeld, status, ev, hist>>

\* release_refcounted(event)
DropEvent(t) ==
  /\ pc[t] = "e_dec"
  /\ eref' = [eref EXCEPT ![ev[t]] = @ - 1]
  /\ Goto(t, "idle")
  /\ UNCHANGED <<list, worker, qref, gone, qHeld, eHeld, status, ev, hist>>

----------------------------------------------------------------------------
(* The worker: xrp_queue_process.  What it does with a queue that has been *)
(* freed is undefined and not followed.                                    *)

\* A mistake: the head keeps pointing to a request that is not the last.
DequeueKeepsHead ==
  /\ wpc = "look" /\ ~gone /\ head # NULL
  /\ tail' = IF head = tail THEN NULL ELSE tail
  /\ head' = IF head = tail THEN NULL ELSE head
  /\ cur' = head
  /\ wpc' = "run" /\ syncExit' = FALSE
  /\ UNCHANGED <<next, exit, refs, status, release, hist>>

\* _xrp_dequeue_request
Dequeue ==
  /\ wpc = "look" /\ ~gone /\ head # NULL
  /\ tail' = IF head = tail THEN NULL ELSE tail
  /\ head' = next[head]
  /\ cur' = head
  /\ wpc' = "run" /\ syncExit' = FALSE
  /\ UNCHANGED <<next, exit, refs, status, release, hist>>

\* A mistake: exit is looked at before the list.
SleepOrEndExitFirst ==
  /\ wpc = "look" /\ ~gone
  /\ exit \/ head = NULL
  /\ wpc' = IF exit THEN "end" ELSE "asleep"
  /\ syncExit' = FALSE
  /\ UNCHANGED <<list, exit, cur, refs, status, release, hist>>

\* The list is empty: leave if told to, or pthread_cond_wait.
SleepOrEnd ==
  /\ wpc = "look" /\ ~gone /\ head = NULL
  /\ wpc' = IF exit THEN "end" ELSE "asleep"
  /\ syncExit' = FALSE
  /\ UNCHANGED <<list, exit, cur, refs, status, release, hist>>

\* pthread_cond_wait may return without a broadcast.
SpuriousWakeup ==
  /\ wpc = "asleep" /\ ~gone
  /\ wpc' = "look"
  /\ UNCHANGED <<list, exit, syncExit, cur, refs, status, release, hist>>

\* _xrp_run_command
RunCommand ==
  /\ wpc = "run" /\ ~gone
  /\ ran' = Append(ran, cur)
  /\ wpc' = IF cur \in WithEvent THEN "signal" ELSE "return"
  /\ UNCHANGED <<list, exit, syncExit, cur, refs, status, release, enqueued>>

\* The status and the broadcast under event->mutex, then xrp_release_event.
SignalEvent ==
  /\ wpc = "signal"
  /\ status' = [status EXCEPT ![cur] = "done"]
  /\ pc' = [pc EXCEPT ![Worker] = "e_check"] /\ ev' = [ev EXCEPT ![Worker] = cur]
  /\ wpc' = "return"
  /\ UNCHANGED <<list, exit, syncExit, cur, refs, hist>>

\* return !exit
ReturnToLoop ==
  /\ wpc = "return" /\ pc[Worker] = "idle"
  /\ wpc' = IF syncExit THEN "end" ELSE "look"
  /\ UNCHANGED <<list, exit, syncExit, cur, refs, status, release, hist>>

----------------------------------------------------------------------------
WorkerStep == Dequeue \/ SleepOrEnd \/ RunCommand \/ SignalEvent \/ ReturnToLoop

ReleaseStep(t) ==
  CheckEvent(t) \/ CheckQueue(t) \/ SetExit(t) \/ Join(t) \/ DropQueue(t) \/ DropEvent(t)

AppStep(t) ==
  \/ xrp_release_queue(t)
  \/ \E r \in Requests : xrp_enqueue_command(t, r) \/ xrp_release_event(t, r)

Next ==
  \/ WorkerStep \/ SpuriousWakeup
  \/ \E t \in Threads : ReleaseStep(t)
  \/ \E t \in AppThreads : AppStep(t)

Spec == Init /\ [][Next]_vars

\* Threads are scheduled; the application need not call anything.
Fairness == WF_vars(WorkerStep) /\ \A t \in Threads : WF_vars(ReleaseStep(t))

FairSpec == Spec /\ Fairness

----------------------------------------------------------------------------
\* Commands run in the order in which they were enqueued, each once, so that
\* the completion of one means the completion of all before it
\* (xrp_enqueue_request, _xrp_dequeue_request; README:34 and README:358).
CompletedInOrder == IsPrefix(ran, enqueued)

\* The holders of a reference to the queue: the application, and every event
\* that has not come to the end of its release.
Holders ==
  Cardinality({r \in WithEvent : eref[r] > 0 /\ ~\E t \in Threads :
                   ev[t] = r /\ pc[t] = "e_dec" /\ eref[r] = 1})
  + (IF qHeld \/ \E t \in Threads : ev[t] = NULL /\ pc[t] # "idle" THEN 1 ELSE 0)

\* The count never falls below the number of holders, so that the queue is
\* not freed under one of them, and an event lives as long as it is held
\* (xrp_release_event, xrp_release_queue).
HeldIsAlive ==
  /\ TypeOK
  /\ qref >= Holders /\ (gone => qref = 0)
  /\ \A r \in eHeld : eref[r] > 0

\* No wakeup is lost: a command that was enqueued with an event has it
\* signalled, also when the queue is released meanwhile
\* (xrp_enqueue_request broadcasts only for an empty list).
EveryEventIsSignalled ==
  \A r \in WithEvent : r \in ToSet(enqueued) ~> status[r] = "done"

\* When the queue is freed its worker does not use it any more
\* (xrp_release_queue joins the worker, or tells it to leave, before it frees).
WorkerEndsFirst == gone => wpc \notin {"look", "asleep", "run"}

\* No command had an event: the application has the only reference.
NoEvents == ToSet(enqueued) \cap WithEvent = {}

\* A queue without events is freed only when its worker has processed all its
\* commands and ended (xrp_release_queue, xrp_queue_process; README:34).
ReleaseFinishes == gone /\ NoEvents => wpc = "end" /\ Len(ran) = Len(enqueued)

\* A queue without events that is released is freed in the end: the worker
\* leaves its wait, finishes the list and is joined (xrp_release_queue).
ReleasedIsFreed == (~qHeld /\ NoEvents) ~> gone
===========================================================================
