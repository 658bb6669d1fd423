------------------------------- MODULE XrpSim -------------------------------
(***************************************************************************)
(* The host library of the simulator (xrp-linux-sim/xrp_linux_sim.c):      *)
(* buffers, a buffer group, the request lists of devices with their worker *)
(* threads, and commands from xrp_enqueue_command to the signalled event.  *)
(* The devices are opened on one description, so that they share its       *)
(* communication area, its hw_mutex and its pool of shared memory.         *)
(*                                                                         *)
(* A slot stands for one allocation of the pool, whatever its size; the    *)
(* contents of a buffer are the command that wrote them, or Blank.  What   *)
(* happens under a mutex is a step, and so is a call of the pool, whose    *)
(* own mutex is empty here (xrp_alloc.c): threads are taken not to be      *)
(* inside the pool at the same time.  Release functions look at the count  *)
(* first (last_refcount) and decrement it later (release_refcounted).      *)
(* Devices outlive their queues and every command has an event, whose      *)
(* references are as in XrpNativeQueue.                                    *)
(***************************************************************************)
EXTENDS Integers, FiniteSetsExt, SequencesExt

CONSTANTS
  Devices, AppThreads, Requests,
  Host, Device,     \* the buffers, by type
  Big,              \* requests whose data is not inline, in or out
  Unknown,          \* requests that no handler on the DSP takes
  WithGroup,        \* requests enqueued with the group
  On,               \* the devices on whose queues each request may be enqueued
  Access,           \* the rights with which each buffer may be put in the group: may write
  Inline,           \* XRP_DSP_CMD_INLINE_BUFFER_COUNT
  Pool,             \* the number of slots
  MaxGroup, MaxHolds, MaxMaps      \* bounds of the model

Buffers == Host \cup Device
Threads == AppThreads \cup Devices       \* each device has its worker
Slots == 1..Pool
None == "none"
Blank == "blank"

VARIABLES
  used,      \* slots allocated
  mem,       \* their contents
  content,   \* contents of the buffers of type HOST
  slot,      \* xrp_allocation of a buffer of type DEVICE, 0 for none
  ref,       \* reference counts of the buffers
  holds,     \* the application's references to them
  maps,      \* map_count
  group,     \* the group's records [buf, write]
  gref,      \* its reference count
  gHeld,     \* the application has not released it
  stuck,     \* its mutex was left locked
  rq,        \* the requests
  list,      \* request_queue of each device
  asleep,    \* its worker waits for request_queue_cond
  cur,       \* the request its worker is processing
  hw,        \* the holder of hw_mutex
  comm,      \* the communication area
  todo,      \* what each thread has yet to release
  lost,      \* history: slots and references to the group left by a failed enqueue
  edited,    \* history: requests under way whose group was changed
  raced,     \* history: slots not freed as two releases overlapped
  wild       \* history: xrp_free got a pointer that was never set

buffers == <<content, slot, ref, holds, maps>>
groupVars == <<group, gref, gHeld, stuck>>
work == <<list, asleep, cur>>
area == <<hw, comm>>
pool == <<used, mem>>
hist == <<lost, edited, raced, wild>>
vars == <<used, mem, content, slot, ref, holds, maps, group, gref, gHeld, stuck, rq,
          list, asleep, cur, hw, comm, todo, lost, edited, raced, wild>>

\* in, out, desc and user are the request's allocations, 0 for none; ptr is
\* buffer_ptr; status the event's; orig (history) the buffers it was given.
NoRequest == [pc |-> "new", by |-> None, in |-> 0, out |-> 0, desc |-> 0, user |-> <<>>, ptr |-> <<>>,
              data |-> Blank, fail |-> FALSE, status |-> "pending", orig |-> <<>>]

NoCommand == [rq |-> None, valid |-> "none", data |-> Blank, fail |-> FALSE]

FirstSlot == CHOOSE s \in [Device -> 1..Cardinality(Device)] : IsInjective(s)

\* Buffers have been created (xrp_create_buffer) and the group is empty.
Init ==
  /\ used = 1..Cardinality(Device)
  /\ slot = [b \in Buffers |-> IF b \in Device THEN FirstSlot[b] ELSE 0]
  /\ mem = [s \in Slots |-> Blank] /\ content = [b \in Host |-> Blank]
  /\ ref = [b \in Buffers |-> 1] /\ holds = [b \in Buffers |-> 1] /\ maps = [b \in Buffers |-> 0]
  /\ group = <<>> /\ gref = 1 /\ gHeld = TRUE /\ stuck = FALSE
  /\ rq = [r \in Requests |-> NoRequest]
  /\ list = [d \in Devices |-> <<>>] /\ asleep = [d \in Devices |-> TRUE]
  /\ cur = [d \in Devices |-> None]
  /\ hw = None /\ comm = NoCommand
  /\ todo = [t \in Threads |-> <<>>]
  /\ lost = [slots |-> {}, refs |-> 0] /\ edited = {} /\ raced = {} /\ wild = FALSE

----------------------------------------------------------------------------
(* Helpers                                                                 *)

\* The slot that xrp_allocate finds among those that are free.
NextSlot(u) == IF Slots \subseteq u THEN 0 ELSE Min(Slots \ u)

\* xrp_free, of several allocations (0 for none).
Free(slots) ==
  /\ used' = used \ slots
  /\ mem' = [s \in Slots |-> IF s \in slots THEN Blank ELSE mem[s]]

Put(what, b) == [what |-> what, buf |-> b]
ToDo(t, what) == ~wild /\ todo[t] # <<>> /\ Head(todo[t]).what = what

\* What follows the use of a wild pointer is not looked at.
Idle(t) == ~wild /\ todo[t] = <<>> /\ \A r \in Requests : rq[r].by = t => rq[r].pc # "begun"

\* Requests between the reading of their group and its second reading.
InFlight == {r \in WithGroup : rq[r].pc \in {"queued", "taken", "sent", "answered"}}

----------------------------------------------------------------------------
(* Buffers                                                                 *)

xrp_release_buffer(t, b) ==
  /\ Idle(t) /\ holds[b] > 0
  /\ holds' = [holds EXCEPT ![b] = @ - 1]
  /\ todo' = [todo EXCEPT ![t] = <<Put("buffer", b)>>]
  /\ UNCHANGED <<pool, content, slot, ref, maps, groupVars, rq, work, area, hist>>

xrp_map_buffer(t, b) ==
  /\ Idle(t) /\ holds[b] > 0 /\ maps[b] < MaxMaps[b]
  /\ ref' = [ref EXCEPT ![b] = @ + 1] /\ maps' = [maps EXCEPT ![b] = @ + 1]
  /\ UNCHANGED <<pool, content, slot, holds, groupVars, rq, work, area, todo, hist>>

xrp_unmap_buffer(t, b) ==
  /\ Idle(t) /\ maps[b] > 0
  /\ maps' = [maps EXCEPT ![b] = @ - 1]
  /\ todo' = [todo EXCEPT ![t] = <<Put("buffer", b)>>]
  /\ UNCHANGED <<pool, content, slot, ref, holds, groupVars, rq, work, area, hist>>

----------------------------------------------------------------------------
(* The group.  A thread that meets a mutex left locked waits for ever.     *)

xrp_add_buffer_to_group(t, b, w) ==
  /\ Idle(t) /\ gHeld /\ holds[b] > 0 /\ ~stuck /\ Len(group) < MaxGroup
  /\ ref' = [ref EXCEPT ![b] = @ + 1]
  /\ group' = Append(group, [buf |-> b, write |-> w])
  /\ UNCHANGED <<pool, content, slot, holds, maps, gref, gHeld, stuck, rq, work, area, todo, hist>>

\* A mistake: the group has no reference of its own to the new buffer.
xrp_set_buffer_in_group_noref(t, i, b, w) ==
  /\ Idle(t) /\ gHeld /\ holds[b] > 0 /\ ~stuck /\ i \in DOMAIN group
  /\ group' = [group EXCEPT ![i] = [buf |-> b, write |-> w]]
  /\ todo' = [todo EXCEPT ![t] = <<Put("buffer", group[i].buf)>>]
  /\ edited' = edited \cup InFlight
  /\ UNCHANGED <<pool, buffers, gref, gHeld, stuck, rq, work, area, lost, raced, wild>>

\* An index out of range leaves everything as it was.
xrp_set_buffer_in_group(t, i, b, w) ==
  /\ Idle(t) /\ gHeld /\ holds[b] > 0 /\ ~stuck /\ i \in DOMAIN group
  /\ ref' = [ref EXCEPT ![b] = @ + 1]
  /\ group' = [group EXCEPT ![i] = [buf |-> b, write |-> w]]
  /\ todo' = [todo EXCEPT ![t] = <<Put("buffer", group[i].buf)>>]
  /\ edited' = edited \cup InFlight
  /\ UNCHANGED <<pool, content, slot, holds, maps, gref, gHeld, stuck, rq, work, area, lost, raced, wild>>

xrp_get_buffer_from_group(t, i) ==
  LET b == group[i].buf
  IN  /\ Idle(t) /\ gHeld /\ ~stuck /\ i \in DOMAIN group /\ holds[b] < MaxHolds
      /\ ref' = [ref EXCEPT ![b] = @ + 1] /\ holds' = [holds EXCEPT ![b] = @ + 1]
      /\ UNCHANGED <<pool, content, slot, maps, groupVars, rq, work, area, todo, hist>>

xrp_release_buffer_group(t) ==
  /\ Idle(t) /\ gHeld
  /\ gHeld' = FALSE
  /\ todo' = [todo EXCEPT ![t] = <<Put("group", None)>>]
  /\ UNCHANGED <<pool, buffers, group, gref, stuck, rq, work, area, hist>>

----------------------------------------------------------------------------
(* The rest of a release, by an application's thread or a worker           *)

\* last_refcount(buffer): the memory goes with the last reference.
CheckBuffer(t) ==
  /\ ToDo(t, "buffer")
  /\ LET b == Head(todo[t]).buf
     IN  /\ Free(IF ref[b] = 1 THEN {slot[b]} ELSE {})
         /\ slot' = IF ref[b] = 1 THEN [slot EXCEPT ![b] = 0] ELSE slot
         /\ todo' = [todo EXCEPT ![t][1] = Put("bdec", b)]
  /\ UNCHANGED <<content, ref, holds, maps, groupVars, rq, work, area, hist>>

\* release_refcounted(buffer)
DropBuffer(t) ==
  /\ ToDo(t, "bdec")
  /\ LET b == Head(todo[t]).buf
     IN  /\ ref' = [ref EXCEPT ![b] = @ - 1]
         /\ raced' = IF ref[b] = 1 /\ slot[b] # 0 THEN raced \cup {slot[b]} ELSE raced
         /\ slot' = IF ref[b] = 1 THEN [slot EXCEPT ![b] = 0] ELSE slot
  /\ todo' = [todo EXCEPT ![t] = Tail(@)]
  /\ UNCHANGED <<pool, content, holds, maps, groupVars, rq, work, area, lost, edited, wild>>

\* last_refcount(group): its buffers are released with the last reference.
CheckGroup(t) ==
  /\ ToDo(t, "group")
  /\ gref = 1 => ~stuck
  /\ LET bufs == IF gref = 1 THEN [i \in DOMAIN group |-> Put("buffer", group[i].buf)] ELSE <<>>
     IN  todo' = [todo EXCEPT ![t] = bufs \o <<Put("gdec", None)>> \o Tail(@)]
  /\ group' = IF gref = 1 THEN <<>> ELSE group
  /\ UNCHANGED <<pool, buffers, gref, gHeld, stuck, rq, work, area, hist>>

\* release_refcounted(group)
DropGroup(t) ==
  /\ ToDo(t, "gdec")
  /\ gref' = gref - 1
  /\ todo' = [todo EXCEPT ![t] = Tail(@)]
  /\ UNCHANGED <<pool, buffers, group, gHeld, stuck, rq, work, area, hist>>

----------------------------------------------------------------------------
(* xrp_enqueue_command                                                     *)

Fails(r, slots) ==
  /\ rq' = [rq EXCEPT ![r].pc = "failed"]
  /\ lost' = [slots |-> lost.slots \cup (slots \ {0}), refs |-> lost.refs + IF r \in WithGroup THEN 1 ELSE 0]

\* The reference to the group and the memory for data that is not inline.
\* Neither is given back when the pool is empty.
EnqueueBegin(t, r) ==
  LET in == NextSlot(used)
      out == NextSlot(used \cup {in})
  IN  /\ Idle(t) /\ rq[r].pc = "new" /\ (r \in WithGroup => gHeld)
      /\ gref' = IF r \in WithGroup THEN gref + 1 ELSE gref
      /\ used' = IF r \in Big THEN used \cup ({in, out} \ {0}) ELSE used
      /\ IF r \in Big /\ out = 0 THEN Fails(r, {in})
         ELSE /\ rq' = [rq EXCEPT ![r].pc = "begun", ![r].by = t,
                                  ![r].in = IF r \in Big THEN in ELSE 0,
                                  ![r].out = IF r \in Big THEN out ELSE 0]
              /\ UNCHANGED lost
      /\ UNCHANGED <<mem, buffers, group, gHeld, stuck, work, area, todo, edited, raced, wild>>

\* One round of the loop over the group's buffers: s holds what is allocated
\* and copied so far.  A buffer of type HOST gets a copy in the pool.
LoadBuffer(s, e) ==
  LET a == IF e.buf \in Device THEN slot[e.buf] ELSE NextSlot(s.used)
  IN  IF s.rc # "ok" THEN s
      ELSE IF maps[e.buf] > 0 THEN [s EXCEPT !.rc = "mapped"]
      ELSE IF a = 0 THEN [s EXCEPT !.rc = "nomem"]
      ELSE [s EXCEPT !.used = @ \cup {a},
                     !.mem = IF e.buf \in Host THEN [@ EXCEPT ![a] = content[e.buf]] ELSE @,
                     !.user = Append(@, IF e.buf \in Host THEN a ELSE 0),
                     !.ptr = Append(@, [addr |-> a, write |-> e.write])]

\* A mistake: the worker is not woken by a first request.
xrp_enqueue_request_nowake(d, r) ==
  /\ list' = [list EXCEPT ![d] = Append(@, r)]
  /\ asleep' = [asleep EXCEPT ![d] = @ /\ list[d] = <<>>]

xrp_enqueue_request(d, r) ==
  /\ list' = [list EXCEPT ![d] = Append(@, r)]
  /\ asleep' = [asleep EXCEPT ![d] = @ /\ list[d] # <<>>]

\* What is done under the mutex of the group, and the queueing.  The mutex
\* stays locked when there is no memory for a copy.
EnqueueBuffers(t, r) ==
  LET recs == IF r \in WithGroup THEN group ELSE <<>>
      desc == IF Len(recs) > Inline THEN NextSlot(used) ELSE 0
      none == [rc |-> IF Len(recs) > Inline /\ desc = 0 THEN "nodesc" ELSE "ok",
               used |-> used \cup ({desc} \ {0}), mem |-> mem, user |-> <<>>, ptr |-> <<>>]
      s == FoldLeft(LoadBuffer, none, recs)
  IN  /\ ~wild /\ rq[r].pc = "begun" /\ rq[r].by = t /\ (r \in WithGroup => ~stuck)
      /\ used' = s.used /\ mem' = s.mem
      /\ stuck' = (stuck \/ s.rc = "nomem")
      /\ \/ /\ s.rc = "ok"
            /\ rq' = [rq EXCEPT ![r].pc = "queued", ![r].by = None, ![r].desc = desc, ![r].user = s.user,
                                ![r].ptr = s.ptr,
                                ![r].orig = [i \in DOMAIN recs |->
                                  [buf |-> recs[i].buf, val |-> s.mem[s.ptr[i].addr]]]]
            /\ \E d \in On[r] : xrp_enqueue_request(d, r)
            /\ UNCHANGED lost
         \/ /\ s.rc # "ok"
            /\ Fails(r, (s.used \ used) \cup {rq[r].in, rq[r].out})
            /\ UNCHANGED <<list, asleep>>
      /\ UNCHANGED <<buffers, group, gref, gHeld, cur, area, todo, edited, raced, wild>>

----------------------------------------------------------------------------
(* xrp_queue_process, and the DSP                                          *)

At(d, pc) == ~wild /\ cur[d] # None /\ rq[cur[d]].pc = pc /\ todo[d] = <<>>

Dequeue(d) ==
  /\ ~wild /\ cur[d] = None /\ list[d] # <<>> /\ ~asleep[d]
  /\ cur' = [cur EXCEPT ![d] = Head(list[d])]
  /\ list' = [list EXCEPT ![d] = Tail(@)]
  /\ rq' = [rq EXCEPT ![Head(list[d])].pc = "taken"]
  /\ UNCHANGED <<pool, buffers, groupVars, asleep, area, todo, hist>>

\* A mistake: hw_mutex is not taken.
SendUnlocked(d) ==
  /\ At(d, "taken")
  /\ hw' = d
  /\ comm' = [rq |-> cur[d], valid |-> "request", data |-> Blank, fail |-> FALSE]
  /\ rq' = [rq EXCEPT ![cur[d]].pc = "sent"]
  /\ UNCHANGED <<pool, buffers, groupVars, work, todo, hist>>

Send(d) ==
  /\ At(d, "taken") /\ hw = None
  /\ hw' = d
  /\ comm' = [rq |-> cur[d], valid |-> "request", data |-> Blank, fail |-> FALSE]
  /\ rq' = [rq EXCEPT ![cur[d]].pc = "sent"]
  /\ UNCHANGED <<pool, buffers, groupVars, work, todo, hist>>

\* The DSP writes what it may write, or does not know the command.
process_command ==
  LET r == comm.rq
      out == {rq[r].ptr[i].addr : i \in {k \in DOMAIN rq[r].ptr : rq[r].ptr[k].write}} \cup {rq[r].out}
  IN  /\ ~wild /\ comm.valid = "request"
      /\ comm' = [comm EXCEPT !.valid = "response", !.data = IF r \in Unknown THEN Blank ELSE r,
                              !.fail = r \in Unknown]
      /\ mem' = [s \in Slots |-> IF r \notin Unknown /\ s \in out THEN r ELSE mem[s]]
      /\ UNCHANGED <<used, buffers, groupVars, rq, work, hw, todo, hist>>

\* A mistake: the memory of the input stays allocated.
ReceiveKeepsIn(d) ==
  LET r == cur[d]
  IN  /\ At(d, "sent") /\ comm.valid = "response"
      /\ rq' = [rq EXCEPT ![r].pc = "answered", ![r].fail = comm.fail, ![r].in = 0, ![r].out = 0,
                          ![r].data = IF r \in Big THEN mem[rq[r].out] ELSE comm.data]
      /\ Free({rq[r].out})
      /\ hw' = None /\ comm' = NoCommand
      /\ UNCHANGED <<buffers, groupVars, work, todo, hist>>

\* The answer and the output are copied under hw_mutex.
Receive(d) ==
  LET r == cur[d]
  IN  /\ At(d, "sent") /\ comm.valid = "response"
      /\ rq' = [rq EXCEPT ![r].pc = "answered", ![r].fail = comm.fail, ![r].in = 0, ![r].out = 0,
                          ![r].data = IF r \in Big THEN mem[rq[r].out] ELSE comm.data]
      /\ Free({rq[r].in, rq[r].out})
      /\ hw' = None /\ comm' = NoCommand
      /\ UNCHANGED <<buffers, groupVars, work, todo, hist>>

\* The loop over the buffers, under the group's mutex.  Which of them are of
\* type HOST is read from the group as it is now.
Complete(d) ==
  LET r == cur[d]
      q == rq[r]
      host == {i \in DOMAIN q.ptr : group[i].buf \in Host}
      written(b) == {i \in host : group[i].buf = b /\ q.ptr[i].write}
  IN  /\ At(d, "answered") /\ (r \in WithGroup => ~stuck)
      /\ wild' = \E i \in host : q.user[i] = 0
      /\ content' = [b \in Host |-> IF written(b) = {} \/ wild' THEN content[b]
                                    ELSE mem[q.user[Max(written(b))]]]
      /\ Free({q.user[i] : i \in host} \cup {q.desc})
      /\ lost' = [lost EXCEPT !.slots = @ \cup ({q.user[i] : i \in DOMAIN q.ptr \ host} \ {0})]
      /\ rq' = [rq EXCEPT ![r].pc = "copied", ![r].user = <<>>, ![r].ptr = <<>>, ![r].desc = 0,
                          ![r].orig = <<>>, ![r].data = Blank]
      /\ todo' = [todo EXCEPT ![d] = IF r \in WithGroup THEN <<Put("group", None)>> ELSE <<>>]
      /\ UNCHANGED <<slot, ref, holds, maps, groupVars, work, area, edited, raced>>

\* The status and the broadcast under event->mutex; the request is freed, and
\* with an empty list the worker goes to sleep.
Signal(d) ==
  LET r == cur[d]
  IN  /\ At(d, "copied")
      /\ rq' = [rq EXCEPT ![r] = [NoRequest EXCEPT !.pc = "done",
                                               !.status = IF rq[r].fail THEN "failure" ELSE "success"]]
      /\ cur' = [cur EXCEPT ![d] = None]
      /\ asleep' = [asleep EXCEPT ![d] = (list[d] = <<>>)]
      /\ edited' = edited \ {r}
      /\ UNCHANGED <<pool, buffers, groupVars, list, area, todo, lost, raced, wild>>

----------------------------------------------------------------------------
WorkerStep(d) == Dequeue(d) \/ Send(d) \/ Receive(d) \/ Complete(d) \/ Signal(d)

ReleaseStep(t) == CheckBuffer(t) \/ DropBuffer(t) \/ CheckGroup(t) \/ DropGroup(t)

AppStep(t) ==
  \/ \E r \in Requests : EnqueueBegin(t, r) \/ EnqueueBuffers(t, r)
  \/ \E b \in Buffers : \/ xrp_release_buffer(t, b)
                        \/ xrp_map_buffer(t, b) \/ xrp_unmap_buffer(t, b)
                        \/ \E w \in Access[b] : xrp_add_buffer_to_group(t, b, w)
                        \/ \E i \in 1..MaxGroup, w \in Access[b] : xrp_set_buffer_in_group(t, i, b, w)
  \/ \E i \in 1..MaxGroup : xrp_get_buffer_from_group(t, i)
  \/ xrp_release_buffer_group(t)

Next ==
  \/ process_command
  \/ \E d \in Devices : WorkerStep(d)
  \/ \E t \in Threads : ReleaseStep(t)
  \/ \E t \in AppThreads : AppStep(t)

Spec == Init /\ [][Next]_vars

\* Workers are scheduled and the DSP answers.
Fairness ==
  /\ WF_vars(process_command)
  /\ \A d \in Devices : WF_vars(WorkerStep(d) \/ ReleaseStep(d))

FairSpec == Spec /\ Fairness

----------------------------------------------------------------------------
\* Owners of shared memory, for what they use it, and the slot.
Owners ==
  {<<b, 0, slot[b]>> : b \in Device}
  \cup UNION {{<<r, -1, rq[r].in>>, <<r, -2, rq[r].out>>, <<r, -3, rq[r].desc>>}
              \cup {<<r, i, rq[r].user[i]>> : i \in DOMAIN rq[r].user} :
                r \in {q \in Requests : rq[q].pc # "failed"}}

\* Every allocation of the pool has one owner: a buffer that is alive, a
\* command that is under way, or nobody for those that a failed
\* xrp_enqueue_command, overlapping releases of a buffer or a change of the
\* group left behind.  None is freed twice, and a pointer that was not set is
\* freed only when a group was changed under a command (xrp_queue_process).
PoolAccounted ==
  LET owned == {o \in Owners : o[3] # 0}
  IN  /\ wild => edited # {}
      /\ ~wild => /\ used = {o[3] : o \in owned} \cup lost.slots \cup raced
                  /\ Cardinality(used) = Cardinality(owned) + Cardinality(lost.slots) + Cardinality(raced)

Pending(whats, b) ==
  Cardinality({<<t, i>> \in Threads \X (1..(MaxGroup + 1)) :
                 i \in DOMAIN todo[t] /\ todo[t][i].what \in whats /\ todo[t][i].buf = b})

\* The counts are those of the references there are, so that buffers and the
\* group live as long as the application, a mapping, a group or a command
\* under way has one of them, whichever threads release theirs, and a buffer
\* of shared memory has its memory until then.
HeldBuffersLive ==
  /\ \A b \in Buffers :
       LET used_by == holds[b] + maps[b] + Cardinality({i \in DOMAIN group : group[i].buf = b})
       IN  /\ ref[b] = used_by + Pending({"buffer", "bdec"}, b)
           /\ b \in Device /\ used_by > 0 => slot[b] \in used
  /\ gref = (IF gHeld THEN 1 ELSE 0) + lost.refs + Pending({"group", "gdec"}, None)
            + Cardinality({r \in WithGroup : rq[r].pc \in {"begun", "queued", "taken", "sent", "answered"}})

\* A handler finds in each buffer of type HOST what the buffer held when its
\* command was enqueued; the command gets its own answer and output, though
\* devices share a communication area; and unless the group was changed, each
\* such buffer that it may write, and no other, holds what it wrote
\* (xrp_enqueue_command, hw_mutex in xrp_queue_process).
ResultsAreOwn ==
  [][\A r \in Requests :
       LET q == rq[r]
           given == {i \in DOMAIN q.ptr : q.user[i] # 0}
       IN  /\ comm.rq = r /\ comm.valid = "request" /\ comm'.valid = "response" =>
                \A i \in given : mem[q.ptr[i].addr] = q.orig[i].val
           /\ q.pc = "answered" /\ rq'[r].pc = "copied" =>
                /\ q.fail = (r \in Unknown)
                /\ ~q.fail => q.data = r
                /\ ~q.fail /\ r \notin edited =>
                     \A b \in Host : content'[b] =
                       IF \E i \in given : q.orig[i].buf = b /\ q.ptr[i].write THEN r ELSE content[b]]_vars

\* Every command that was enqueued is answered and its event signalled, unless
\* xrp_enqueue_command has left the mutex of the group locked.
EveryCommandCompletes ==
  \A r \in Requests : rq[r].pc = "queued" ~> (rq[r].pc = "done" \/ stuck \/ wild)
=============================================================================
