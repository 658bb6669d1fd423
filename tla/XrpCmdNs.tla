----------------------------- MODULE XrpCmdNs -----------------------------
(***************************************************************************)
(* The table of namespace handlers of the DSP library (xrp-dsp/xrp_dsp.c): *)
(* an array sorted by namespace id that grows by realloc, searched by      *)
(* bisection on registration, deregistration and for every command.        *)
(*                                                                         *)
(* Elements of the array at and behind n_cmd_ns are memory like any other: *)
(* what an earlier namespace left there, or whatever realloc returned.     *)
(* Indices count from 0 as in the code.                                    *)
(***************************************************************************)
EXTENDS Integers, Sequences, FiniteSets

CONSTANTS
  Ids,         \* namespace ids: numbers, in memcmp's order
  Handlers,    \* handlers with their contexts: model values
  MaxSize      \* bound: realloc fails for a larger array

NoHandler == "none"
Fail == "XRP_STATUS_FAILURE"
Junk == "junk"

\* Ids can be compared and no handler is NULL.
TableAssumption == Ids \subseteq Nat /\ MaxSize \in Nat /\ NoHandler \notin Handlers

VARIABLES
  cmd_ns,       \* the array, size_cmd_ns elements
  n_cmd_ns,
  registered,   \* history: the handler of each id, by the calls that succeeded
  last          \* the last call and what came of it

tablevars == <<cmd_ns, n_cmd_ns, registered, last>>

size_cmd_ns == Len(cmd_ns)
Slots == [id : Ids, handler : Handlers \cup {Junk}]
At(i) == cmd_ns[i + 1]

\* Memory from realloc: either it looks like no id, or like some id.
Garbage == [id : Ids \cup {-1}, handler : {Junk}]

TableTypeOK ==
  /\ cmd_ns \in Seq(Slots \cup Garbage) /\ size_cmd_ns <= MaxSize
  /\ n_cmd_ns \in 0..size_cmd_ns
  /\ registered \in [Ids -> Handlers \cup {NoHandler}]
  /\ last \in [op : {"none", "register", "unregister", "command"}, id : Ids \cup {-1},
               result : Handlers \cup {NoHandler, Fail, Junk, "ok"}]

TableInit ==
  /\ cmd_ns = <<>> /\ n_cmd_ns = 0
  /\ registered = [id \in Ids |-> NoHandler]
  /\ last = [op |-> "none", id |-> -1, result |-> NoHandler]

----------------------------------------------------------------------------
\* A mistake: the last step of the bisection is forgotten.
find_cmd_ns_noincrement(id) ==
  LET find[r \in (0..n_cmd_ns) \X (0..n_cmd_ns)] ==
        LET c == (r[1] + r[2]) \div 2
        IN  IF r[2] - r[1] > 1 THEN find[IF id < At(c).id THEN <<r[1], c>> ELSE <<c, r[2]>>]
            ELSE r[1]
  IN  find[<<0, n_cmd_ns>>]

\* The index of id, or the index at which it has to be inserted: bisection of
\* the range r.
find_cmd_ns(id) ==
  LET find[r \in (0..n_cmd_ns) \X (0..n_cmd_ns)] ==
        LET c == (r[1] + r[2]) \div 2
        IN  IF r[2] - r[1] > 1 THEN find[IF id < At(c).id THEN <<r[1], c>> ELSE <<c, r[2]>>]
            ELSE IF r[1] < r[2] /\ id > At(r[1]).id THEN r[1] + 1 ELSE r[1]
  IN  find[<<0, n_cmd_ns>>]

\* A mistake: the element behind the last one is taken for present.
PresentOrEnd(i) == i <= n_cmd_ns /\ i < size_cmd_ns

\* cmd_ns_present
Present(i) == i < n_cmd_ns

\* cmd_ns_match on an element of the array.
Match(id, i) == At(i).id = id

\* memmove up and the new element, in an array that is large enough.
Inserted(array, i, slot) ==
  [k \in 1..Len(array) |->
     IF k = i + 1 THEN slot
     ELSE IF k > i + 1 /\ k <= n_cmd_ns + 1 THEN array[k - 1] ELSE array[k]]

\* A mistake: the element that is removed is overwritten by itself.
RemovedOffByOne(i) ==
  [k \in 1..size_cmd_ns |-> IF k > i + 1 /\ k < n_cmd_ns THEN cmd_ns[k + 1] ELSE cmd_ns[k]]

\* memmove down; the last element stays behind n_cmd_ns.
Removed(i) ==
  [k \in 1..size_cmd_ns |-> IF k > i /\ k < n_cmd_ns THEN cmd_ns[k + 1] ELSE cmd_ns[k]]

Done(op, id, result) == last' = [op |-> op, id |-> id, result |-> result]

----------------------------------------------------------------------------
\* xrp_device_register_namespace with insert_cmd_ns
Register(id, h) ==
  LET i == find_cmd_ns(id)
      new_size == (size_cmd_ns + 1) * 2
      slot == [id |-> id, handler |-> h]
      fill(array) ==
        /\ cmd_ns' = Inserted(array, i, slot)
        /\ n_cmd_ns' = n_cmd_ns + 1
        /\ registered' = [registered EXCEPT ![id] = h]
        /\ Done("register", id, "ok")
      refuse == Done("register", id, Fail) /\ UNCHANGED <<cmd_ns, n_cmd_ns, registered>>
  IN  \/ Present(i) /\ Match(id, i) /\ refuse
      \/ /\ ~(Present(i) /\ Match(id, i))
         /\ \/ n_cmd_ns < size_cmd_ns /\ fill(cmd_ns)
            \/ /\ n_cmd_ns = size_cmd_ns /\ new_size <= MaxSize
               /\ \E g \in Garbage :
                    fill(cmd_ns \o [k \in 1..(new_size - size_cmd_ns) |-> g])
            \/ n_cmd_ns = size_cmd_ns /\ refuse     \* realloc failed

\* xrp_device_unregister_namespace with remove_cmd_ns
Unregister(id) ==
  LET i == find_cmd_ns(id)
  IN  \/ /\ Present(i) /\ Match(id, i)
         /\ cmd_ns' = Removed(i)
         /\ n_cmd_ns' = n_cmd_ns - 1
         /\ registered' = [registered EXCEPT ![id] = NoHandler]
         /\ Done("unregister", id, "ok")
      \/ /\ ~(Present(i) /\ Match(id, i))
         /\ Done("unregister", id, Fail)
         /\ UNCHANGED <<cmd_ns, n_cmd_ns, registered>>

\* The lookup of process_command for a command with a namespace id.  It does
\* not ask whether the element is present.  There is no array before the first
\* registration (NULL does not match); an element behind the array is not ours
\* and may hold anything.
Command(id) ==
  LET i == find_cmd_ns(id)
      found == IF i < size_cmd_ns THEN {At(i)}
               ELSE IF size_cmd_ns = 0 THEN {} ELSE Garbage
  IN  /\ \/ \E slot \in found : slot.id = id /\ Done("command", id, slot.handler)
         \/ (\A slot \in found : slot.id # id) /\ Done("command", id, Fail)
         \/ found = Garbage /\ Done("command", id, Fail)
      /\ UNCHANGED <<cmd_ns, n_cmd_ns, registered>>

TableNext ==
  \E id \in Ids : (\E h \in Handlers : Register(id, h)) \/ Unregister(id) \/ Command(id)

TableSpec == TableInit /\ [][TableNext]_tablevars

----------------------------------------------------------------------------
\* The elements before n_cmd_ns are sorted, and they are the map from ids to
\* handlers that the successful calls describe, after any sequence of calls
\* (insert_cmd_ns and remove_cmd_ns move the rest of the array).
TableIsMap ==
  /\ TableTypeOK
  /\ \A i \in 0..(n_cmd_ns - 2) : At(i).id < At(i + 1).id
  /\ {At(i) : i \in 0..(n_cmd_ns - 1)} =
       {[id |-> id, handler |-> registered[id]] : id \in {x \in Ids : registered[x] # NoHandler}}

\* A registration succeeds only for an id that has no handler; a deregistration
\* succeeds exactly for an id that has one (xrp_device_register_namespace and
\* xrp_device_unregister_namespace; xrp_api.h:423, xrp_api.h:442).
StatusIsHonest ==
  [][/\ last'.op = "register" /\ last'.result = "ok" => registered[last'.id] = NoHandler
     /\ last'.op = "unregister" =>
          (last'.result = "ok") = (registered[last'.id] # NoHandler)]_tablevars

\* A command for a registered namespace is given to the handler registered for
\* it (find_cmd_ns and process_command).
RegisteredIsCalled ==
  last.op = "command" /\ registered[last.id] # NoHandler => last.result = registered[last.id]

\* A handler is called for no command but one for the namespace for which it
\* is registered at that time, not for one it was registered for once
\* (process_command; README:331).
OnlyRegisteredIsCalled ==
  last.op = "command" /\ last.result \in Handlers => last.result = registered[last.id]
===========================================================================
