----------------------------- MODULE XrpDriver -----------------------------
(***************************************************************************)
(* The life of a device under the kernel driver (xvp_main.c): probing with *)
(* every error path, opening and closing, runtime power management, boots  *)
(* of the DSP with its firmware, and removal.  A device is a record; what  *)
(* a function of the driver does to it is the set of its outcomes, records *)
(* [rc, dev].  Fields from usage on belong to the device and survive its   *)
(* driver; the others are those of struct xvp, zeroed when it is bound:    *)
(*   phase     unbound, probing (its node is there), bound or removing     *)
(*   res       what has been set up and must be undone                     *)
(*   name      number of the device node, -1 for none                      *)
(*   map       xvp->address_map                                            *)
(*   off       xvp->off                                                    *)
(*   firmware  xvp->firmware: "null", "live", or "freed" when dangling     *)
(*   image, mem   history: the image loaded since the last halt, and what  *)
(*             the load has written                                        *)
(*   usage, rpm, error   of runtime PM: the usage count, the status, and   *)
(*             runtime_error, with which the PM core refuses every resume  *)
(*   enabled, running    power, and whether the core is released           *)
(*   handles   firmware objects held                                       *)
(*   lost      history: uses of the device that nobody will put            *)
(*   excused   history: one of the steps named at UnboundIsClean was taken *)
(***************************************************************************)
EXTENDS XrpFirmware

CONSTANTS
  Devices,
  Files,
  Boards,        \* by model: [init, acpi, pm, ranges, comm_phys, shared_size, images]
  Machines,      \* the models that devices of one machine have
  MaxHandles, MaxLost, MaxNodeId      \* bounds of the model

ASSUME DriverAssumption ==
  /\ IsFiniteSet(Devices) /\ IsFiniteSet(Files) /\ "none" \notin Devices
  /\ Machines \subseteq [Devices -> DOMAIN Boards]
  /\ \A m \in DOMAIN Boards : Boards[m].pm \in BOOLEAN /\ Boards[m].acpi \in BOOLEAN

VARIABLES
  model,     \* the board each device is on
  dev,       \* the devices
  file,      \* what each file has open: a device and its binding, or Closed
  nodeid     \* xvp_nodeid

vars == <<model, dev, file, nodeid>>

Closed == [dev |-> "none", stale |-> FALSE]

Fresh == [phase |-> "unbound", res |-> {}, name |-> -1, map |-> <<>>, off |-> FALSE,
          firmware |-> "null", image |-> {}, mem |-> <<>>,
          usage |-> 0, rpm |-> "suspended", error |-> FALSE, enabled |-> FALSE, running |-> FALSE,
          handles |-> 0, lost |-> 0, excused |-> FALSE]

\* struct xvp as kzalloc gives it to probe.
Zeroed(x) == [x EXCEPT !.res = {}, !.name = -1, !.map = <<>>, !.off = FALSE,
                       !.firmware = "null", !.image = {}, !.mem = <<>>]

Init ==
  /\ model \in Machines
  /\ dev = [d \in Devices |-> Fresh]
  /\ file = [f \in Files |-> Closed]
  /\ nodeid = 0

board[d \in Devices] == Boards[model[d]]
Result(rc, x) == [rc |-> rc, dev |-> x]

\* One of the outcomes, within the bounds.
Becomes(d, x) ==
  /\ x.handles <= MaxHandles /\ x.lost <= MaxLost
  /\ dev' = [dev EXCEPT ![d] = x]

Opened(d) == {f \in Files : file[f].dev = d}

----------------------------------------------------------------------------
(* Firmware and boot                                                       *)

halt(x) == [x EXCEPT !.running = FALSE, !.image = {}, !.mem = <<>>]

\* request_firmware may fail, and a load that fails releases the image but
\* leaves the pointer.  A boot after the first overwrites a live pointer.
xrp_request_firmware(x, b) ==
  {Result(-1, [x EXCEPT !.firmware = "null", !.excused = @ \/ x.firmware = "live"])}
  \cup
  {LET load == xrp_load_firmware(fw, b.ranges, x.map, b.comm_phys)
       y == [x EXCEPT !.excused = @ \/ x.firmware = "live"]
   IN  IF load.rc = "ok"
       THEN Result(0, [y EXCEPT !.firmware = "live", !.handles = @ + 1, !.image = {fw}, !.mem = load.mem])
       ELSE Result(-1, [y EXCEPT !.firmware = "freed"]) :
     fw \in b.images}

release(x) == [x EXCEPT !.running = TRUE]

\* Loading, releasing the core and the handshake, which may fail for good.
xrp_boot_firmware(x, b) ==
  LET loads == IF b.images = {} THEN {Result(0, halt(x))} ELSE xrp_request_firmware(halt(x), b)
  IN  {l \in loads : l.rc < 0}
      \cup UNION {{Result(0, release(l.dev)), Result(-1, [halt(l.dev) EXCEPT !.off = TRUE])} :
                    l \in {m \in loads : m.rc = 0}}

----------------------------------------------------------------------------
(* Runtime power management                                                *)

xvp_enable_dsp(x) == [x EXCEPT !.enabled = TRUE]

\* A DSP that is off has not been enabled by the resume before.
xvp_disable_dsp(x) == [x EXCEPT !.enabled = FALSE]

xrp_runtime_suspend(x) == xvp_disable_dsp(halt(x))

\* A mistake: a boot that fails leaves the DSP enabled.
xrp_runtime_resume_leaves_on(x, b) ==
  IF x.off THEN {Result(0, x)}
  ELSE {Result(-1, x)} \cup xrp_boot_firmware(xvp_enable_dsp(x), b)

xrp_runtime_resume(x, b) ==
  IF x.off THEN {Result(0, x)}
  ELSE {Result(-1, x)}                                        \* cannot be enabled
       \cup {IF r.rc < 0 THEN Result(r.rc, xvp_disable_dsp(r.dev)) ELSE r :
               r \in xrp_boot_firmware(xvp_enable_dsp(x), b)}

\* pm_runtime_get_sync: counts a use even when it fails.  Without CONFIG_PM
\* nothing happens; with PM disabled the answer is -EACCES.
pm_runtime_get_sync(x, b) ==
  LET y == [x EXCEPT !.usage = @ + 1]
  IN  IF ~b.pm THEN {Result(0, x)}
      ELSE IF "pm" \notin x.res \/ x.error THEN {Result(-1, y)}
      ELSE IF x.rpm = "active" THEN {Result(0, y)}
      ELSE {IF r.rc < 0 THEN Result(-1, [r.dev EXCEPT !.error = TRUE])
                        ELSE Result(0, [r.dev EXCEPT !.rpm = "active"]) :
              r \in xrp_runtime_resume(y, b)}

\* pm_runtime_put_sync: the last use suspends the device.
pm_runtime_put_sync(x, b) ==
  LET y == [x EXCEPT !.usage = @ - 1]
  IN  IF ~b.pm THEN x
      ELSE IF y.usage = 0 /\ y.rpm = "active" /\ "pm" \in y.res /\ ~y.error
      THEN [xrp_runtime_suspend(y) EXCEPT !.rpm = "suspended"]
      ELSE y

----------------------------------------------------------------------------
(* Probing                                                                 *)

\* xrp_init_regs_v0, _v1 and _cma: resources may be missing and kmalloc may
\* fail; the communication area of the last one is allocated, and is not
\* given back when there is no memory for the pool.
xrp_init_regs(x, b) ==
  LET up == IF b.init = "cma" THEN {"comm", "pool"} ELSE {"pool"}
  IN  {Result(0, [x EXCEPT !.res = up]), Result(-1, x)}
      \cup IF b.init = "cma" THEN {Result(-1, [x EXCEPT !.res = {"comm"}, !.excused = TRUE])} ELSE {}

\* A mistake: the labels are one too far down.
UndoOneLess(x) == [x EXCEPT !.res = @ \ {"pm", "pool", "comm"}]

\* err_pm_disable, err_free_map and err_free_pool undo what was set up before;
\* a DSP that was resumed explicitly, and its firmware, are left as they are.
Undo(x) == [x EXCEPT !.res = @ \ {"pm", "map", "pool", "comm"},
                     !.excused = @ \/ x.firmware = "live"]

Names(d) == {dev[e].name : e \in Devices \ {d}}

\* misc_register refuses a name that is taken and may fail otherwise.
misc_register(x, d) ==
  {Result(-1, [x EXCEPT !.excused = TRUE])} \cup
  (IF nodeid \in Names(d) THEN {} ELSE {Result(0, [x EXCEPT !.res = @ \cup {"misc"}, !.name = nodeid])})

\* The outcomes, and whether a node number has been taken.
xrp_init_common(d, b) ==
  LET regs == xrp_init_regs(Zeroed(dev[d]), b)
      Ok(S) == {r.dev : r \in {s \in S : s.rc = 0}}
      Bad(S) == {r.dev : r \in {s \in S : s.rc < 0}}
      mapped == {[x EXCEPT !.res = @ \cup {"map"},
                           !.map = xrp_init_address_map(b.ranges, Width)] : x \in Ok(regs)}
      enabled == {[x EXCEPT !.res = @ \cup IF b.pm THEN {"pm"} ELSE {}] : x \in mapped}
      resumed == IF b.pm THEN {Result(0, x) : x \in enabled}
                 ELSE UNION {xrp_runtime_resume(x, b) : x \in enabled}
      registered == UNION {misc_register(x, d) : x \in Ok(resumed)}
  IN  [early |-> Bad(regs)
                 \cup {Undo(x) : x \in Ok(regs) \cup mapped \cup Bad(resumed)},
       late |-> {Undo(x) : x \in Bad(registered)},
       bound |-> {[x EXCEPT !.phase = IF b.acpi THEN "probing" ELSE "bound"] : x \in Ok(registered)}]

xrp_probe(d) ==
  LET r == xrp_init_common(d, board[d])
  IN  /\ dev[d].phase = "unbound"
      /\ \/ \E x \in r.early : Becomes(d, x) /\ UNCHANGED nodeid
         \/ /\ nodeid < MaxNodeId
            /\ nodeid' = nodeid + 1
            /\ \E x \in r.late \cup r.bound : Becomes(d, x)
      /\ UNCHANGED <<model, file>>

\* With ACPI the DSP reaches its own shared memory only.  The map is changed
\* when the device can already be opened.
xrp_probe_acpi(d) ==
  LET x == dev[d]
      b == board[d]
      i == xrp_get_address_mapping(x.map, b.comm_phys)
  IN  /\ x.phase = "probing" /\ i # 0
      /\ dev' = [dev EXCEPT ![d] =
                   [x EXCEPT !.phase = "bound",
                             !.map[i] = [src |-> b.comm_phys, dst |-> b.comm_phys,
                                         size |-> b.shared_size + PAGE_SIZE]]]
      /\ UNCHANGED <<model, file, nodeid>>

----------------------------------------------------------------------------
(* Files                                                                   *)

\* A mistake: the use is not given back when there is no memory.
OpenOutcomesKeepUse(x, b) ==
  LET got == pm_runtime_get_sync(x, b)
  IN  {r \in got : r.rc = 0}
      \cup {Result(-1, [r.dev EXCEPT !.lost = @ + 1, !.excused = TRUE]) : r \in {s \in got : s.rc < 0}}
      \cup {Result(-1, r.dev) : r \in {s \in got : s.rc = 0}}

\* xvp_open: the use that a failing pm_runtime_get_sync has counted stays.
OpenOutcomes(x, b) ==
  LET got == pm_runtime_get_sync(x, b)
  IN  {r \in got : r.rc = 0}
      \cup {Result(-1, [r.dev EXCEPT !.lost = @ + 1, !.excused = TRUE]) : r \in {s \in got : s.rc < 0}}
      \cup {Result(-1, pm_runtime_put_sync(r.dev, b)) : r \in {s \in got : s.rc = 0}}

xvp_open(f, d) ==
  /\ file[f] = Closed /\ "misc" \in dev[d].res
  /\ \E r \in OpenOutcomes(dev[d], board[d]) :
       /\ Becomes(d, r.dev)
       /\ file' = [file EXCEPT ![f] = IF r.rc = 0 THEN [dev |-> d, stale |-> FALSE] ELSE Closed]
  /\ UNCHANGED <<model, nodeid>>

\* The device is read from the xvp_file just freed: mostly it is still there.
xvp_close(f) ==
  LET d == file[f].dev
      x == dev[d]
  IN  /\ file[f] # Closed
      /\ file' = [file EXCEPT ![f] = Closed]
      /\ \/ Becomes(d, pm_runtime_put_sync(x, board[d]))
         \/ board[d].pm /\ Becomes(d, [x EXCEPT !.lost = @ + 1, !.excused = TRUE])
      /\ UNCHANGED <<model, nodeid>>

\* A command that timed out boots the DSP again (xrp_ioctl_submit_sync).
Reboot(d) ==
  /\ \E f \in Opened(d) : ~file[f].stale
  /\ ~dev[d].off
  /\ \E r \in xrp_boot_firmware(dev[d], board[d]) :
       Becomes(d, [r.dev EXCEPT !.excused = @ \/ dev[d].phase = "removing"])
  /\ UNCHANGED <<model, file, nodeid>>

----------------------------------------------------------------------------
(* Removal: the device is suspended, then its node goes and all the rest   *)

\* A mistake: runtime PM is disabled with the rest.
DeinitSuspendKeepsPm(x, b) ==
  IF b.pm /\ x.rpm = "suspended" THEN x ELSE xrp_runtime_suspend(x)

DeinitSuspend(x, b) ==
  LET y == [x EXCEPT !.res = @ \ {"pm"}]
  IN  IF b.pm /\ x.rpm = "suspended" THEN y ELSE xrp_runtime_suspend(y)

xrp_deinit_suspend(d) ==
  /\ dev[d].phase = "bound"
  /\ dev' = [dev EXCEPT ![d] = [DeinitSuspend(dev[d], board[d])
                                  EXCEPT !.phase = "removing", !.excused = @ \/ Opened(d) # {}]]
  /\ UNCHANGED <<model, file, nodeid>>

\* A dangling pointer is released like a live one.  The PM core sets an active
\* device to suspended when its driver has gone.
xrp_deinit_free(d) ==
  LET x == dev[d]
  IN  /\ x.phase = "removing"
      /\ dev' = [dev EXCEPT ![d] =
                   [Zeroed(x) EXCEPT !.phase = "unbound", !.rpm = "suspended",
                                     !.handles = IF x.firmware = "live" THEN @ - 1 ELSE @,
                                     !.excused = @ \/ x.firmware = "freed" \/ Opened(d) # {}]]
      /\ file' = [f \in Files |-> IF file[f].dev = d THEN [file[f] EXCEPT !.stale = TRUE] ELSE file[f]]
      /\ nodeid' = nodeid - 1
      /\ UNCHANGED model

----------------------------------------------------------------------------
Next ==
  \/ \E d \in Devices : \/ xrp_probe(d)
                        \/ \E f \in Files : xvp_open(f, d)
                        \/ xrp_probe_acpi(d)
                        \/ Reboot(d)
                        \/ xrp_deinit_suspend(d)
                        \/ xrp_deinit_free(d)
  \/ \E f \in Files : xvp_close(f)

Spec == Init /\ [][Next]_vars

----------------------------------------------------------------------------
\* A device that is not bound holds nothing: whatever step of probing failed,
\* and whatever happened before removal, memory, firmware, node and power are
\* given back, and when no device is bound node numbers start from 0 again.
\* Excused are the paths on which the code does leave something: the pool of
\* a CMA device cannot be made, misc_register fails, probing fails when the
\* firmware has been loaded, a boot replaces firmware
\* that was loaded, an open or a close loses its use of the device, a file is
\* open when the device is removed, the DSP is booted during the removal (for
\* a file opened and closed again between the two steps of it, which without
\* runtime PM nothing prevents), or the last load failed.
UnboundIsClean ==
  /\ \A d \in Devices :
       LET x == dev[d]
       IN  x.phase = "unbound" /\ ~x.excused =>
             x.res = {} /\ x.handles = 0 /\ ~x.enabled /\ ~x.running /\ x.usage = 0
  /\ (\A d \in Devices : ~dev[d].excused) =>
       nodeid = Cardinality({d \in Devices : dev[d].phase # "unbound"})

\* The usage count is the number of open files and of the uses lost by a
\* failing open or close, so that the device can be suspended when the last
\* file is closed, and not before (xvp_open, xvp_close).
UsageCounted ==
  \A d \in Devices : board[d].pm => dev[d].usage = Cardinality(Opened(d)) + dev[d].lost

\* A bound device that is not off is powered exactly while it is in use, by a
\* file at least; a device that is off does not run until the driver is bound
\* again (message at xvp_main.c:1564), whatever resumes and reboots follow.
PowerFollowsUse ==
  \A d \in Devices :
    LET x == dev[d]
    IN  x.phase \in {"probing", "bound"} =>
          /\ x.off => ~x.running
          /\ board[d].pm /\ ~x.off =>
               /\ x.enabled <=> x.rpm = "active"
               /\ (\E f \in Opened(d) : ~file[f].stale) => x.enabled
               /\ x.usage = 0 => ~x.enabled /\ (x.running => x.excused)
          /\ ~board[d].pm /\ ~x.off => x.enabled

\* With runtime PM no file is opened any more once xrp_deinit has begun, though
\* the node is there until misc_deregister.
NoOpenDuringRemoval ==
  [][\A f \in Files, d \in Devices :
       board[d].pm /\ dev[d].phase = "removing" /\ file'[f].dev = d => file[f].dev = d]_vars

\* After a load that succeeded the memory of the DSP holds the image, cleared
\* where the file has no data, with the DSP's address of the communication
\* area in xrp_dsp_comm_base, and no other memory has been written.
BootedIsImage ==
  \A d \in Devices : \A fw \in dev[d].image :
    HoldsImage(dev[d].mem, fw, board[d].ranges, board[d].comm_phys)
=============================================================================
