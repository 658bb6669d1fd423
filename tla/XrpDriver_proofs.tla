------------------------- MODULE XrpDriver_proofs --------------------------
(***************************************************************************)
(* Proofs about XrpDriver, for any number of devices and files and any     *)
(* boards and firmware: uses of a device are counted, its power follows    *)
(* its use, it is not opened any more once it is removed, and unbound it   *)
(* holds nothing.                                                          *)
(***************************************************************************)
EXTENDS XrpDriver, FiniteSetTheorems, TLAPS

Phases == {"unbound", "probing", "bound", "removing"}

\* A device record; what its map, image and memory hold does not matter here.
Device(x) ==
  x \in [phase : Phases, res : SUBSET {"pm", "map", "pool", "comm", "misc"},
         name : Int, map : {x.map}, off : BOOLEAN, firmware : {"null", "live", "freed"},
         image : {x.image}, mem : {x.mem},
         usage : Int, rpm : {"active", "suspended"}, error : BOOLEAN, enabled : BOOLEAN,
         running : BOOLEAN, handles : Int, lost : Nat, excused : BOOLEAN]

\* What a boot and a change of power leave alone.
Same(x, y) ==
  /\ Device(y)
  /\ y.phase = x.phase /\ y.res = x.res /\ y.name = x.name
  /\ y.lost = x.lost /\ (x.excused => y.excused)

\* The firmware held is the one that xvp->firmware points to.
Held(x) ==
  /\ x.firmware = "live" => x.handles = 1
  /\ x.firmware # "live" => x.handles = 0

\* From x to y no firmware was lost, or it is excused.
KeepsHeld(x, y) == (~y.excused /\ Held(x)) => Held(y)

----------------------------------------------------------------------------
(* What the functions of the driver do to a device                         *)

Booted(x, r) ==
  LET y == r.dev
  IN  /\ Same(x, y) /\ KeepsHeld(x, y)
      /\ y.usage = x.usage /\ y.rpm = x.rpm /\ y.error = x.error /\ y.enabled = x.enabled
      /\ r.rc \in {0, -1}
      /\ r.rc = 0 => y.running /\ y.off = x.off
      /\ r.rc # 0 => ~y.running

\* The DSP does not run while its firmware is loaded (xrp_request_firmware).
LEMMA LoadOutcome ==
  ASSUME NEW x, NEW b, Device(x), NEW r \in xrp_request_firmware(x, b)
  PROVE  /\ Same(x, r.dev) /\ KeepsHeld(x, r.dev)
         /\ r.dev.usage = x.usage /\ r.dev.rpm = x.rpm /\ r.dev.error = x.error
         /\ r.dev.enabled = x.enabled /\ r.dev.running = x.running /\ r.dev.off = x.off
         /\ r.rc \in {0, -1}
<1>1. CASE r = Result(-1, [x EXCEPT !.firmware = "null", !.excused = @ \/ x.firmware = "live"])
  BY <1>1 DEF Result, Device, Same, KeepsHeld, Held
<1> DEFINE y == [x EXCEPT !.excused = @ \/ x.firmware = "live"]
<1>2. ASSUME NEW fw, NEW load,
             \/ r = Result(0, [y EXCEPT !.firmware = "live", !.handles = @ + 1, !.image = {fw}, !.mem = load.mem])
             \/ r = Result(-1, [y EXCEPT !.firmware = "freed"])
      PROVE  /\ Same(x, r.dev) /\ KeepsHeld(x, r.dev)
             /\ r.dev.usage = x.usage /\ r.dev.rpm = x.rpm /\ r.dev.error = x.error
             /\ r.dev.enabled = x.enabled /\ r.dev.running = x.running /\ r.dev.off = x.off
             /\ r.rc \in {0, -1}
  <2>1. CASE r = Result(0, [y EXCEPT !.firmware = "live", !.handles = @ + 1, !.image = {fw}, !.mem = load.mem])
    <3> DEFINE z == [y EXCEPT !.firmware = "live", !.handles = @ + 1, !.image = {fw}, !.mem = load.mem]
    <3>1. /\ r.rc = 0 /\ r.dev = z
      BY <2>1 DEF Result
    <3>2. /\ z.firmware = "live" /\ z.handles = x.handles + 1
          /\ z.excused = (x.excused \/ x.firmware = "live")
          /\ z.usage = x.usage /\ z.rpm = x.rpm /\ z.error = x.error
          /\ z.enabled = x.enabled /\ z.running = x.running /\ z.off = x.off
      BY DEF Device
    <3>3. Same(x, z)
      <4>1. Same(x, y) /\ Device(y)
        BY DEF Device, Same
      <4> HIDE DEF y
      <4>2. Device(z)
        <5>1. \A h \in Int : \A i, m : Device([y EXCEPT !.firmware = "live", !.handles = h, !.image = i, !.mem = m])
          BY <4>1 DEF Device
        <5>2. y.handles + 1 \in Int
          BY <4>1 DEF Device
        <5> QED BY <5>1, <5>2
      <4>3. z.phase = y.phase /\ z.res = y.res /\ z.name = y.name /\ z.lost = y.lost /\ z.excused = y.excused
        BY <4>1 DEF Device
      <4> QED BY <4>1, <4>2, <4>3 DEF Same
    <3> HIDE DEF z
    <3>4. ~z.excused => x.firmware # "live"
      BY <3>2
    <3>5. KeepsHeld(x, z)
      BY <3>2, <3>4 DEF KeepsHeld, Held
    <3> QED BY <3>1, <3>2, <3>3, <3>5
  <2>2. CASE r = Result(-1, [y EXCEPT !.firmware = "freed"])
    BY <2>2 DEF Result, Device, Same, KeepsHeld, Held
  <2> QED BY <1>2, <2>1, <2>2
<1>3. CASE \E fw \in b.images :
             LET load == xrp_load_firmware(fw, b.ranges, x.map, b.comm_phys)
             IN  r = IF load.rc = "ok"
                     THEN Result(0, [y EXCEPT !.firmware = "live", !.handles = @ + 1, !.image = {fw}, !.mem = load.mem])
                     ELSE Result(-1, [y EXCEPT !.firmware = "freed"])
  BY <1>2, <1>3
<1> QED BY <1>1, <1>3 DEF xrp_request_firmware

\* A boot loads, releases the core and waits for the handshake; when a step
\* fails the DSP is left halted (xrp_boot_firmware).
LEMMA BootOutcome ==
  ASSUME NEW x, NEW b, Device(x), NEW r \in xrp_boot_firmware(x, b)
  PROVE  Booted(x, r)
<1> DEFINE h == halt(x)
           loads == IF b.images = {} THEN {Result(0, h)} ELSE xrp_request_firmware(h, b)
<1>1. /\ Device(h) /\ ~h.running /\ Same(x, h) /\ h.excused = x.excused
      /\ Held(x) => Held(h)
      /\ h.usage = x.usage /\ h.rpm = x.rpm /\ h.error = x.error /\ h.enabled = x.enabled /\ h.off = x.off
  BY DEF halt, Device, Same, Held
<1> HIDE DEF h
<1>2. ASSUME NEW l \in loads
      PROVE  /\ Same(x, l.dev) /\ KeepsHeld(x, l.dev)
             /\ l.dev.usage = x.usage /\ l.dev.rpm = x.rpm /\ l.dev.error = x.error
             /\ l.dev.enabled = x.enabled /\ ~l.dev.running /\ l.dev.off = x.off
             /\ l.rc \in {0, -1}
  <2>1. CASE b.images = {}
    BY <1>1, <1>2, <2>1 DEF Result, KeepsHeld
  <2>2. CASE b.images # {}
    <3>1. /\ Same(h, l.dev) /\ KeepsHeld(h, l.dev)
          /\ l.dev.usage = h.usage /\ l.dev.rpm = h.rpm /\ l.dev.error = h.error
          /\ l.dev.enabled = h.enabled /\ l.dev.running = h.running /\ l.dev.off = h.off
          /\ l.rc \in {0, -1}
      BY <1>1, <1>2, <2>2, LoadOutcome
    <3> QED BY <1>1, <3>1 DEF Same, KeepsHeld
  <2> QED BY <2>1, <2>2
<1>3. \/ r \in {l \in loads : l.rc < 0}
      \/ \E l \in loads : l.rc = 0 /\ r \in {Result(0, release(l.dev)), Result(-1, [halt(l.dev) EXCEPT !.off = TRUE])}
  BY DEF xrp_boot_firmware, h
<1> HIDE DEF loads
<1>4. CASE r \in {l \in loads : l.rc < 0}
  BY <1>4, <1>2 DEF Booted
<1>5. ASSUME NEW l \in loads, l.rc = 0, r = Result(0, release(l.dev))
      PROVE  Booted(x, r)
  BY <1>2, <1>5 DEF Booted, Result, release, Same, KeepsHeld, Held, Device
<1>6. ASSUME NEW l \in loads, l.rc = 0, r = Result(-1, [halt(l.dev) EXCEPT !.off = TRUE])
      PROVE  Booted(x, r)
  <2> DEFINE z == [halt(l.dev) EXCEPT !.off = TRUE]
  <2>1. r.rc = -1 /\ r.dev = z
    BY <1>6 DEF Result
  <2>2. Device(l.dev)
    BY <1>2 DEF Same
  <2>3. /\ Device(z) /\ ~z.running
        /\ z.phase = l.dev.phase /\ z.res = l.dev.res /\ z.name = l.dev.name /\ z.lost = l.dev.lost
        /\ z.excused = l.dev.excused /\ z.firmware = l.dev.firmware /\ z.handles = l.dev.handles
        /\ z.usage = l.dev.usage /\ z.rpm = l.dev.rpm /\ z.error = l.dev.error /\ z.enabled = l.dev.enabled
    BY <2>2 DEF halt, Device
  <2> HIDE DEF z
  <2> QED BY <1>2, <2>1, <2>3 DEF Booted, Same, KeepsHeld, Held
<1> QED BY <1>3, <1>4, <1>5, <1>6

Resumed(x, r) ==
  LET y == r.dev
  IN  /\ Same(x, y) /\ KeepsHeld(x, y)
      /\ y.usage = x.usage /\ y.rpm = x.rpm /\ y.error = x.error
      /\ r.rc \in {0, -1}
      /\ x.off => r.rc = 0 /\ y = x
      /\ ~x.off /\ r.rc = 0 => y.enabled /\ y.running /\ ~y.off
      /\ ~x.off /\ r.rc # 0 => y = x \/ (~y.enabled /\ ~y.running)

\* A resume that succeeds leaves the DSP powered and running, unless it is
\* off; one that fails leaves it as it was or without power
\* (xrp_runtime_resume).
LEMMA ResumeOutcome ==
  ASSUME NEW x, NEW b, Device(x), NEW r \in xrp_runtime_resume(x, b)
  PROVE  Resumed(x, r)
<1>1. Same(x, x) /\ KeepsHeld(x, x)
  BY DEF Same, KeepsHeld
<1>2. CASE x.off
  BY <1>1, <1>2 DEF xrp_runtime_resume, Result, Resumed
<1>3. CASE ~x.off /\ r = Result(-1, x)
  BY <1>1, <1>3 DEF Result, Resumed
<1> DEFINE e == xvp_enable_dsp(x)
<1>4. /\ Device(e) /\ e.phase = x.phase /\ e.res = x.res /\ e.name = x.name /\ e.lost = x.lost
      /\ e.excused = x.excused /\ e.firmware = x.firmware /\ e.handles = x.handles /\ e.off = x.off
      /\ e.usage = x.usage /\ e.rpm = x.rpm /\ e.error = x.error /\ e.enabled = TRUE
  BY DEF xvp_enable_dsp, Device
<1> HIDE DEF e
<1>5. ASSUME ~x.off, NEW q \in xrp_boot_firmware(e, b),
             r = IF q.rc < 0 THEN Result(q.rc, xvp_disable_dsp(q.dev)) ELSE q
      PROVE  Resumed(x, r)
  <2>1. Booted(e, q)
    BY <1>4, <1>5, BootOutcome
  <2>2. CASE q.rc = 0
    <3>1. r = q
      BY <1>5, <2>2
    <3> QED BY <1>4, <1>5, <2>1, <2>2, <3>1 DEF Booted, Resumed, Same, KeepsHeld, Held
  <2>3. CASE q.rc = -1
    <3> DEFINE z == xvp_disable_dsp(q.dev)
    <3>1. r.rc = -1 /\ r.dev = z
      BY <1>5, <2>3 DEF Result
    <3>2. Device(q.dev)
      BY <2>1 DEF Booted, Same
    <3>3. /\ Device(z) /\ ~z.enabled /\ z.running = q.dev.running
          /\ z.phase = q.dev.phase /\ z.res = q.dev.res /\ z.name = q.dev.name /\ z.lost = q.dev.lost
          /\ z.excused = q.dev.excused /\ z.firmware = q.dev.firmware /\ z.handles = q.dev.handles
          /\ z.usage = q.dev.usage /\ z.rpm = q.dev.rpm /\ z.error = q.dev.error
      BY <3>2 DEF xvp_disable_dsp, Device
    <3> HIDE DEF z
    <3>4. ~q.dev.running
      BY <2>1, <2>3 DEF Booted
    <3> QED BY <1>4, <1>5, <2>1, <3>1, <3>3, <3>4 DEF Booted, Resumed, Same, KeepsHeld, Held
  <2> QED BY <2>1, <2>2, <2>3 DEF Booted
<1>6. CASE ~x.off
  BY <1>3, <1>5, <1>6 DEF xrp_runtime_resume, e
<1> QED BY <1>2, <1>6

\* Where a use of the device that has been asked for leaves it.
Got(x, r) ==
  LET y == r.dev
  IN  /\ Same(x, y) /\ KeepsHeld(x, y)
      /\ y.usage = x.usage + 1 /\ r.rc \in {0, -1}
      /\ r.rc = 0 => y.rpm = "active" /\ "pm" \in x.res /\ ~y.error
      /\ r.rc # 0 => y.rpm = x.rpm /\ (y.error => x.error \/ x.rpm # "active")
      /\ \/ /\ y.enabled = x.enabled /\ y.running = x.running /\ y.off = x.off
            /\ r.rc = 0 => x.rpm = "active" \/ x.off
         \/ r.rc # 0 /\ x.rpm # "active" /\ ~y.enabled /\ ~y.running
         \/ r.rc = 0 /\ y.enabled /\ y.running /\ ~y.off

\* Asking for a use of the device counts it, even when the device cannot be
\* resumed; that it succeeds means that the device is active
\* (pm_runtime_get_sync).
LEMMA GetOutcome ==
  ASSUME NEW x, NEW b, Device(x), NEW r \in pm_runtime_get_sync(x, b)
  PROVE  /\ b.pm => Got(x, r)
         /\ ~b.pm => r.rc = 0 /\ r.dev = x
<1>1. CASE ~b.pm
  BY <1>1 DEF pm_runtime_get_sync, Result
<1> DEFINE u == [x EXCEPT !.usage = @ + 1]
<1>2. /\ Device(u) /\ u.phase = x.phase /\ u.res = x.res /\ u.name = x.name /\ u.lost = x.lost
      /\ u.excused = x.excused /\ u.firmware = x.firmware /\ u.handles = x.handles /\ u.off = x.off
      /\ u.usage = x.usage + 1 /\ u.rpm = x.rpm /\ u.error = x.error /\ u.enabled = x.enabled
      /\ u.running = x.running
  BY DEF Device
<1>3. Same(x, u) /\ KeepsHeld(x, u)
  BY <1>2 DEF Same, KeepsHeld, Held
<1> HIDE DEF u
<1>4. CASE b.pm /\ ("pm" \notin x.res \/ x.error)
  <2>1. r = Result(-1, u)
    BY <1>4 DEF pm_runtime_get_sync, u
  <2> QED BY <1>2, <1>3, <1>4, <2>1 DEF Result, Got
<1>5. CASE b.pm /\ "pm" \in x.res /\ ~x.error /\ x.rpm = "active"
  <2>1. r = Result(0, u)
    BY <1>5 DEF pm_runtime_get_sync, u
  <2> QED BY <1>2, <1>3, <1>5, <2>1 DEF Result, Got
<1>6. CASE b.pm /\ "pm" \in x.res /\ ~x.error /\ x.rpm # "active"
  <2>1. PICK q \in xrp_runtime_resume(u, b) :
          r = IF q.rc < 0 THEN Result(-1, [q.dev EXCEPT !.error = TRUE])
                          ELSE Result(0, [q.dev EXCEPT !.rpm = "active"])
    BY <1>6 DEF pm_runtime_get_sync, u
  <2>2. Resumed(u, q)
    BY <1>2, ResumeOutcome
  <2>3. Device(q.dev) /\ q.rc \in {0, -1}
    BY <2>2 DEF Resumed, Same
  <2>4. CASE q.rc = -1
    <3> DEFINE z == [q.dev EXCEPT !.error = TRUE]
    <3>1. r.rc = -1 /\ r.dev = z
      BY <2>1, <2>4 DEF Result
    <3>2. /\ Device(z) /\ z.enabled = q.dev.enabled /\ z.running = q.dev.running /\ z.off = q.dev.off
          /\ z.phase = q.dev.phase /\ z.res = q.dev.res /\ z.name = q.dev.name /\ z.lost = q.dev.lost
          /\ z.excused = q.dev.excused /\ z.firmware = q.dev.firmware /\ z.handles = q.dev.handles
          /\ z.usage = q.dev.usage /\ z.rpm = q.dev.rpm
      BY <2>3 DEF Device
    <3> HIDE DEF z
    <3>3. \/ z.enabled = x.enabled /\ z.running = x.running /\ z.off = x.off
          \/ ~z.enabled /\ ~z.running
      BY <1>2, <2>2, <2>4, <3>2 DEF Resumed
    <3>4. Same(x, z) /\ KeepsHeld(x, z)
      BY <1>2, <2>2, <3>2 DEF Resumed, Same, KeepsHeld, Held
    <3>5. z.usage = x.usage + 1 /\ z.rpm = x.rpm
      BY <1>2, <2>2, <3>2 DEF Resumed
    <3>6. Got(x, r)
      BY <1>6, <3>1, <3>3, <3>4, <3>5 DEF Got
    <3> QED BY <1>6, <3>6
  <2>5. CASE q.rc = 0
    <3> DEFINE z == [q.dev EXCEPT !.rpm = "active"]
    <3>1. r.rc = 0 /\ r.dev = z
      BY <2>1, <2>5 DEF Result
    <3>2. /\ Device(z) /\ z.enabled = q.dev.enabled /\ z.running = q.dev.running /\ z.off = q.dev.off
          /\ z.phase = q.dev.phase /\ z.res = q.dev.res /\ z.name = q.dev.name /\ z.lost = q.dev.lost
          /\ z.excused = q.dev.excused /\ z.firmware = q.dev.firmware /\ z.handles = q.dev.handles
          /\ z.usage = q.dev.usage /\ z.error = q.dev.error /\ z.rpm = "active"
      BY <2>3 DEF Device
    <3> HIDE DEF z
    <3>3. \/ z.enabled = x.enabled /\ z.running = x.running /\ z.off = x.off /\ x.off
          \/ z.enabled /\ z.running /\ ~z.off
      BY <1>2, <2>2, <2>5, <3>2 DEF Resumed
    <3>4. Same(x, z) /\ KeepsHeld(x, z)
      BY <1>2, <2>2, <3>2 DEF Resumed, Same, KeepsHeld, Held
    <3>5. z.usage = x.usage + 1 /\ z.error = x.error
      BY <1>2, <2>2, <3>2 DEF Resumed
    <3>6. Got(x, r)
      BY <1>6, <3>1, <3>2, <3>3, <3>4, <3>5 DEF Got
    <3> QED BY <1>6, <3>6
  <2> QED BY <2>3, <2>4, <2>5
<1> QED BY <1>1, <1>4, <1>5, <1>6

\* Where a use that is given back leaves the device.
Put(x, y) ==
  /\ Same(x, y) /\ KeepsHeld(x, y)
  /\ y.usage = x.usage - 1 /\ y.off = x.off /\ y.error = x.error
  /\ \/ /\ y.rpm = x.rpm /\ y.enabled = x.enabled /\ y.running = x.running
        /\ x.rpm = "active" /\ "pm" \in x.res /\ ~x.error => y.usage # 0
     \/ y.rpm = "suspended" /\ ~y.enabled /\ ~y.running /\ y.usage = 0

\* The last use of an active device that is given back suspends it
\* (pm_runtime_put_sync).
LEMMA PutOutcome ==
  ASSUME NEW x, NEW b, Device(x)
  PROVE  /\ b.pm => Put(x, pm_runtime_put_sync(x, b))
         /\ ~b.pm => pm_runtime_put_sync(x, b) = x
<1>1. CASE ~b.pm
  BY <1>1 DEF pm_runtime_put_sync
<1> DEFINE u == [x EXCEPT !.usage = @ - 1]
<1>2. /\ Device(u) /\ u.phase = x.phase /\ u.res = x.res /\ u.name = x.name /\ u.lost = x.lost
      /\ u.excused = x.excused /\ u.firmware = x.firmware /\ u.handles = x.handles /\ u.off = x.off
      /\ u.usage = x.usage - 1 /\ u.rpm = x.rpm /\ u.error = x.error /\ u.enabled = x.enabled
      /\ u.running = x.running
  BY DEF Device
<1>3. Same(x, u) /\ KeepsHeld(x, u)
  BY <1>2 DEF Same, KeepsHeld, Held
<1> DEFINE last == u.usage = 0 /\ u.rpm = "active" /\ "pm" \in u.res /\ ~u.error
           z == [xrp_runtime_suspend(u) EXCEPT !.rpm = "suspended"]
<1>4. b.pm => pm_runtime_put_sync(x, b) = IF last THEN z ELSE u
  BY DEF pm_runtime_put_sync
<1> HIDE DEF u
<1>5. /\ Device(z) /\ z.phase = u.phase /\ z.res = u.res /\ z.name = u.name /\ z.lost = u.lost
      /\ z.excused = u.excused /\ z.firmware = u.firmware /\ z.handles = u.handles /\ z.off = u.off
      /\ z.usage = u.usage /\ z.rpm = "suspended" /\ z.error = u.error /\ ~z.enabled /\ ~z.running
  BY <1>2 DEF Device, xrp_runtime_suspend, xvp_disable_dsp, halt
<1> HIDE DEF z
<1>6. CASE b.pm /\ last
  <2>1. pm_runtime_put_sync(x, b) = z
    BY <1>4, <1>6
  <2>2. Same(x, z) /\ KeepsHeld(x, z)
    BY <1>2, <1>5 DEF Same, KeepsHeld, Held
  <2>3. Put(x, z)
    BY <1>2, <1>5, <1>6, <2>2 DEF Put
  <2> QED BY <1>6, <2>1, <2>3
<1>7. CASE b.pm /\ ~last
  <2>1. pm_runtime_put_sync(x, b) = u
    BY <1>4, <1>7
  <2>2. Put(x, u)
    BY <1>2, <1>3, <1>7 DEF Put
  <2> QED BY <1>7, <2>1, <2>2
<1> QED BY <1>1, <1>6, <1>7

----------------------------------------------------------------------------
(* What is true of a device between the steps.  pm says whether its board  *)
(* has runtime PM, n is the number of files that have it open, and fresh   *)
(* whether one of them was opened since the driver was bound.              *)

Live(x) == x.phase \in {"probing", "bound"}

\* What is set up in each phase.
PhaseInv(x, pm, n, fresh) ==
  /\ Live(x) => "misc" \in x.res /\ ("pm" \in x.res <=> pm)
  /\ x.phase \in {"removing", "unbound"} => "pm" \notin x.res
  /\ x.phase = "unbound" => "misc" \notin x.res /\ ~fresh /\ x.rpm = "suspended"
  /\ x.phase = "unbound" /\ ~x.excused => x.res = {} /\ n = 0

\* The counters.
CountInv(x, pm, n) ==
  /\ pm => x.usage = n + x.lost
  /\ ~pm => x.usage = 0
  /\ ~x.excused => x.lost = 0 /\ Held(x)
  /\ x.phase = "unbound" /\ ~x.excused => x.firmware # "live"

\* Power, and whether the core runs.
PowerInv(x, pm, fresh) ==
  /\ x.error => x.rpm = "suspended"
  /\ ~pm => x.rpm = "suspended"
  /\ Live(x) =>
       /\ x.off => ~x.running
       /\ pm /\ ~x.off => (x.enabled <=> x.rpm = "active")
       /\ pm /\ x.rpm = "suspended" => ~x.enabled /\ (x.running => x.excused)
       /\ pm /\ x.rpm = "active" => x.usage # 0
       /\ pm /\ fresh => x.rpm = "active"
       /\ ~pm /\ ~x.off => x.enabled
  /\ x.phase = "removing" => ~x.enabled /\ (x.running => x.excused)
  /\ x.phase = "unbound" /\ (pm \/ ~x.excused) => ~x.enabled
  /\ x.phase = "unbound" => (x.running => x.excused)

DevInv(x, pm, n, fresh) ==
  Device(x) /\ PhaseInv(x, pm, n, fresh) /\ CountInv(x, pm, n) /\ PowerInv(x, pm, fresh)

\* A use that was got with success belongs to a file opened since the driver
\* was bound (xvp_open).
LEMMA GetKeeps ==
  ASSUME NEW x, NEW pm \in BOOLEAN, NEW n \in Nat, NEW fresh, DevInv(x, pm, n, fresh),
         NEW r, pm, Got(x, r), r.rc = 0, "misc" \in x.res
  PROVE  DevInv(r.dev, pm, n + 1, TRUE)
<1> DEFINE y == r.dev
<1>1. /\ Device(y) /\ y.phase = x.phase /\ y.res = x.res /\ y.lost = x.lost /\ (x.excused => y.excused)
      /\ KeepsHeld(x, y) /\ y.usage = x.usage + 1 /\ y.rpm = "active" /\ "pm" \in x.res /\ ~y.error
  BY DEF Got, Same
<1>2. /\ Device(x) /\ PhaseInv(x, pm, n, fresh) /\ CountInv(x, pm, n) /\ PowerInv(x, pm, fresh)
  BY DEF DevInv
<1>3. \/ y.enabled = x.enabled /\ y.running = x.running /\ y.off = x.off /\ (x.rpm = "active" \/ x.off)
      \/ y.enabled /\ y.running /\ ~y.off
  BY DEF Got
<1>4. Live(x)
  BY <1>1, <1>2 DEF PhaseInv, Live, Device, Phases
<1> HIDE DEF y
<1>5. Live(y) /\ y.phase # "unbound" /\ y.phase # "removing"
  BY <1>1, <1>4 DEF Live
<1>6. PhaseInv(y, pm, n + 1, TRUE)
  <2>1. "misc" \in y.res /\ "pm" \in y.res
    BY <1>1
  <2> QED BY <1>5, <2>1 DEF PhaseInv
<1>7. CountInv(y, pm, n + 1)
  <2>1. x.usage = n + x.lost /\ x.lost \in Nat /\ x.usage \in Int
    BY <1>2 DEF CountInv, Device
  <2>2. y.usage = n + 1 + y.lost
    BY <1>1, <2>1
  <2>3. ~y.excused => y.lost = 0 /\ Held(y)
    BY <1>1, <1>2 DEF CountInv, KeepsHeld
  <2> QED BY <1>5, <2>2, <2>3 DEF CountInv
<1>8. PowerInv(y, pm, TRUE)
  <2>1. y.usage # 0
    BY <1>1, <1>2 DEF CountInv, Device
  <2>2. y.off => ~y.running
    BY <1>2, <1>3, <1>4 DEF PowerInv
  <2>3. ~y.off => y.enabled
    BY <1>2, <1>3, <1>4 DEF PowerInv
  <2> QED BY <1>1, <1>5, <2>1, <2>2, <2>3 DEF PowerInv
<1> QED BY <1>1, <1>6, <1>7, <1>8 DEF DevInv, y

\* A use that was counted and failed is lost.
LEMMA LostKeeps ==
  ASSUME NEW x, NEW pm \in BOOLEAN, NEW n \in Nat, NEW fresh, DevInv(x, pm, n, fresh),
         NEW r, pm, Got(x, r), r.rc < 0
  PROVE  DevInv([r.dev EXCEPT !.lost = @ + 1, !.excused = TRUE], pm, n, fresh)
<1> DEFINE q == r.dev
           y == [q EXCEPT !.lost = @ + 1, !.excused = TRUE]
<1>1. /\ Device(q) /\ q.phase = x.phase /\ q.res = x.res /\ q.lost = x.lost
      /\ q.usage = x.usage + 1 /\ q.rpm = x.rpm /\ (q.error => x.error \/ x.rpm # "active")
  BY DEF Got, Same
<1>2. /\ Device(x) /\ PhaseInv(x, pm, n, fresh) /\ CountInv(x, pm, n) /\ PowerInv(x, pm, fresh)
  BY DEF DevInv
<1>3. \/ q.enabled = x.enabled /\ q.running = x.running /\ q.off = x.off
      \/ x.rpm # "active" /\ ~q.enabled /\ ~q.running
  BY DEF Got
<1> HIDE DEF q
<1>4. /\ Device(y) /\ y.phase = q.phase /\ y.res = q.res /\ y.lost = q.lost + 1 /\ y.excused
      /\ y.usage = q.usage /\ y.rpm = q.rpm /\ y.error = q.error
      /\ y.enabled = q.enabled /\ y.running = q.running /\ y.off = q.off
  <2> DEFINE l == q.lost + 1
  <2>1. l \in Nat
    BY <1>1 DEF Device
  <2>2. y = [q EXCEPT !.lost = l, !.excused = TRUE]
    OBVIOUS
  <2>3. Device(q)
    BY <1>1
  <2> HIDE DEF l
  <2>4. Device([q EXCEPT !.lost = l])
    BY <2>1, <2>3 DEF Device
  <2>5. [q EXCEPT !.lost = l].lost = l
    BY <2>3 DEF Device
  <2> DEFINE p == [q EXCEPT !.lost = l]
  <2>6. /\ p.phase = q.phase /\ p.res = q.res /\ p.usage = q.usage /\ p.rpm = q.rpm
        /\ p.error = q.error /\ p.enabled = q.enabled /\ p.running = q.running /\ p.off = q.off
    BY <2>3 DEF Device
  <2>7. y = [p EXCEPT !.excused = TRUE]
    BY <2>2
  <2>8. Device(p) /\ p.lost = l
    BY <2>4, <2>5
  <2> HIDE DEF p, y
  <2>9. Device([p EXCEPT !.excused = TRUE]) /\ [p EXCEPT !.excused = TRUE].excused
    BY <2>8 DEF Device
  <2>10. /\ y.phase = p.phase /\ y.res = p.res /\ y.usage = p.usage /\ y.rpm = p.rpm
         /\ y.error = p.error /\ y.enabled = p.enabled /\ y.running = p.running /\ y.off = p.off
         /\ y.lost = p.lost
    BY <2>7, <2>8 DEF Device
  <2> QED BY <2>6, <2>7, <2>8, <2>9, <2>10 DEF l
<1> HIDE DEF y
<1>5. PhaseInv(y, pm, n, fresh)
  BY <1>1, <1>2, <1>4 DEF PhaseInv, Live
<1>6. CountInv(y, pm, n)
  BY <1>1, <1>2, <1>4 DEF CountInv, Device
<1>7. PowerInv(y, pm, fresh)
  <2>1. y.usage # 0
    BY <1>1, <1>2, <1>4 DEF CountInv, Device
  <2>2. y.error => y.rpm = "suspended"
    BY <1>1, <1>2, <1>4 DEF PowerInv, Device
  <2>3. CASE q.enabled = x.enabled /\ q.running = x.running /\ q.off = x.off
    BY <1>1, <1>2, <1>4, <2>1, <2>2, <2>3 DEF PowerInv, Live
  <2>4. CASE x.rpm # "active" /\ ~q.enabled /\ ~q.running
    BY <1>1, <1>2, <1>4, <2>1, <2>2, <2>4 DEF PowerInv, Live
  <2> QED BY <1>3, <2>3, <2>4
<1> QED BY <1>4, <1>5, <1>6, <1>7 DEF DevInv, y, q

\* A use is given back by a file that is closed, or was not opened after all
\* (xvp_close, xvp_open).
LEMMA PutKeeps ==
  ASSUME NEW x, NEW pm \in BOOLEAN, NEW n \in Nat, NEW before, NEW fresh, DevInv(x, pm, n + 1, before),
         fresh => before, fresh => n > 0,
         NEW y, pm => Put(x, y), ~pm => y = x
  PROVE  DevInv(y, pm, n, fresh)
<1>1. /\ Device(x) /\ PhaseInv(x, pm, n + 1, before) /\ CountInv(x, pm, n + 1) /\ PowerInv(x, pm, before)
  BY DEF DevInv
<1>2. ~(x.phase = "unbound" /\ ~x.excused)
  <2>1. n + 1 # 0
    OBVIOUS
  <2> QED BY <1>1, <2>1 DEF PhaseInv
<1>3. CASE ~pm
  <2>1. y = x
    BY <1>3
  <2>2. PhaseInv(x, pm, n, fresh)
    BY <1>1, <1>2 DEF PhaseInv
  <2>3. CountInv(x, pm, n)
    BY <1>1, <1>3 DEF CountInv
  <2>4. PowerInv(x, pm, fresh)
    BY <1>1, <1>3 DEF PowerInv
  <2> QED BY <1>1, <2>1, <2>2, <2>3, <2>4 DEF DevInv
<1>4. CASE pm
  <2>1. /\ Device(y) /\ y.phase = x.phase /\ y.res = x.res /\ y.lost = x.lost /\ (x.excused => y.excused)
        /\ KeepsHeld(x, y) /\ y.usage = x.usage - 1 /\ y.error = x.error /\ y.off = x.off
    BY <1>4 DEF Put, Same
  <2>2. \/ /\ y.rpm = x.rpm /\ y.enabled = x.enabled /\ y.running = x.running
           /\ x.rpm = "active" /\ "pm" \in x.res /\ ~x.error => y.usage # 0
        \/ y.rpm = "suspended" /\ ~y.enabled /\ ~y.running /\ y.usage = 0
    BY <1>4 DEF Put
  <2>3. PhaseInv(y, pm, n, fresh)
    BY <1>1, <1>2, <2>1, <2>2 DEF PhaseInv, Live
  <2>4. y.usage = n + y.lost
    BY <1>1, <1>4, <2>1 DEF CountInv, Device
  <2>5. CountInv(y, pm, n)
    BY <1>1, <1>2, <1>4, <2>1, <2>4 DEF CountInv, KeepsHeld
  <2>6. PowerInv(y, pm, fresh)
    <3>1. fresh => y.usage # 0
      BY <2>1, <2>4 DEF Device
    <3>2. CASE /\ y.rpm = x.rpm /\ y.enabled = x.enabled /\ y.running = x.running
               /\ x.rpm = "active" /\ "pm" \in x.res /\ ~x.error => y.usage # 0
      <4>1. Live(x) /\ x.rpm = "active" => y.usage # 0
        BY <1>1, <1>4, <3>2 DEF PhaseInv, PowerInv
      <4> QED BY <1>1, <1>4, <2>1, <3>2, <4>1 DEF PowerInv, Live
    <3>3. CASE y.rpm = "suspended" /\ ~y.enabled /\ ~y.running /\ y.usage = 0
      BY <1>4, <2>1, <3>1, <3>3 DEF PowerInv
    <3> QED BY <2>2, <3>2, <3>3
  <2> QED BY <2>1, <2>3, <2>5, <2>6 DEF DevInv
<1> QED BY <1>3, <1>4

\* A close that reads freed memory may lose the use of its file (xvp_close).
LEMMA CloseLosesKeeps ==
  ASSUME NEW x, NEW pm \in BOOLEAN, NEW n \in Nat, NEW before, NEW fresh, DevInv(x, pm, n + 1, before),
         fresh => before, pm
  PROVE  DevInv([x EXCEPT !.lost = @ + 1, !.excused = TRUE], pm, n, fresh)
<1> DEFINE y == [x EXCEPT !.lost = @ + 1, !.excused = TRUE]
<1>1. /\ Device(x) /\ PhaseInv(x, pm, n + 1, before) /\ CountInv(x, pm, n + 1) /\ PowerInv(x, pm, before)
  BY DEF DevInv
<1>2. /\ Device(y) /\ y.phase = x.phase /\ y.res = x.res /\ y.lost = x.lost + 1 /\ y.excused
      /\ y.usage = x.usage /\ y.rpm = x.rpm /\ y.error = x.error
      /\ y.enabled = x.enabled /\ y.running = x.running /\ y.off = x.off
  <2>1. Device(x) /\ x.lost + 1 \in Nat
    BY <1>1 DEF Device
  <2>2. \A l \in Nat : Device([x EXCEPT !.lost = l, !.excused = TRUE])
    BY <2>1 DEF Device
  <2>3. Device(y)
    BY <2>1, <2>2
  <2>4. /\ y.phase = x.phase /\ y.res = x.res /\ y.lost = x.lost + 1 /\ y.excused
        /\ y.usage = x.usage /\ y.rpm = x.rpm /\ y.error = x.error
        /\ y.enabled = x.enabled /\ y.running = x.running /\ y.off = x.off
    BY <2>1 DEF Device
  <2> QED BY <2>3, <2>4
<1> HIDE DEF y
<1>3. PhaseInv(y, pm, n, fresh)
  BY <1>1, <1>2 DEF PhaseInv, Live
<1>4. CountInv(y, pm, n)
  BY <1>1, <1>2 DEF CountInv, Device
<1>5. PowerInv(y, pm, fresh)
  BY <1>1, <1>2 DEF PowerInv, Live
<1> QED BY <1>2, <1>3, <1>4, <1>5 DEF DevInv, y

\* A boot after a command that timed out: a file is open, so that the device
\* is powered (xrp_ioctl_submit_sync).
LEMMA RebootKeeps ==
  ASSUME NEW x, NEW pm \in BOOLEAN, NEW n \in Nat, NEW fresh, DevInv(x, pm, n, fresh),
         NEW r, Booted(x, r), fresh, ~x.off
  PROVE  DevInv([r.dev EXCEPT !.excused = @ \/ x.phase = "removing"], pm, n, fresh)
<1> DEFINE q == r.dev
           y == [q EXCEPT !.excused = @ \/ x.phase = "removing"]
<1>1. /\ Device(x) /\ PhaseInv(x, pm, n, fresh) /\ CountInv(x, pm, n) /\ PowerInv(x, pm, fresh)
  BY DEF DevInv
<1>2. /\ Device(q) /\ q.phase = x.phase /\ q.res = x.res /\ q.lost = x.lost /\ (x.excused => q.excused)
      /\ KeepsHeld(x, q) /\ q.usage = x.usage /\ q.rpm = x.rpm /\ q.error = x.error /\ q.enabled = x.enabled
      /\ (q.off => ~q.running) /\ (q.running => ~q.off)
  BY DEF Booted, Same
<1> HIDE DEF q
<1>3. /\ Device(y) /\ y.phase = q.phase /\ y.res = q.res /\ y.lost = q.lost
      /\ y.excused = (q.excused \/ x.phase = "removing") /\ y.firmware = q.firmware /\ y.handles = q.handles
      /\ y.usage = q.usage /\ y.rpm = q.rpm /\ y.error = q.error
      /\ y.enabled = q.enabled /\ y.running = q.running /\ y.off = q.off
  BY <1>2 DEF Device
<1> HIDE DEF y
<1>4. x.phase # "unbound"
  BY <1>1 DEF PhaseInv
<1>5. PhaseInv(y, pm, n, fresh)
  BY <1>1, <1>2, <1>3, <1>4 DEF PhaseInv, Live
<1>6. CountInv(y, pm, n)
  <2>1. ~y.excused => ~x.excused /\ ~q.excused
    BY <1>2, <1>3
  <2>2. ~y.excused => y.lost = 0 /\ Held(y)
    BY <1>1, <1>2, <1>3, <2>1 DEF CountInv, KeepsHeld, Held
  <2> QED BY <1>1, <1>2, <1>3, <1>4, <2>2 DEF CountInv
<1>7. PowerInv(y, pm, fresh)
  <2>1. y.off => ~y.running
    BY <1>2, <1>3
  <2>2. x.phase = "removing" => y.excused
    BY <1>3
  <2>3. Live(x) /\ pm => x.rpm = "active" /\ x.enabled /\ x.usage # 0
    BY <1>1 DEF PowerInv
  <2>4. Live(x) /\ ~pm => x.enabled
    BY <1>1 DEF PowerInv
  <2>5. x.phase = "removing" => ~x.enabled
    BY <1>1 DEF PowerInv
  <2>6. (x.error => x.rpm = "suspended") /\ (~pm => x.rpm = "suspended")
    BY <1>1 DEF PowerInv
  <2>7. Live(y) <=> Live(x)
    BY <1>2, <1>3 DEF Live
  <2> QED BY <1>2, <1>3, <1>4, <2>1, <2>2, <2>3, <2>4, <2>5, <2>6, <2>7 DEF PowerInv
<1> QED BY <1>3, <1>5, <1>6, <1>7 DEF DevInv, y, q

\* What the first half of xrp_deinit leaves.
Suspended(x, b, open) == [DeinitSuspend(x, b) EXCEPT !.phase = "removing", !.excused = @ \/ open]

\* Removal begins: pm_runtime_disable and the suspend of xrp_deinit keep the
\* invariant of a bound device.
LEMMA DeinitSuspendKeeps ==
  ASSUME NEW x, NEW b, b.pm \in BOOLEAN, NEW n \in Nat, NEW fresh, DevInv(x, b.pm, n, fresh),
         NEW open \in BOOLEAN, x.phase = "bound"
  PROVE  LET y == Suspended(x, b, open)
         IN  DevInv(y, b.pm, n, fresh) /\ y.phase = "removing" /\ (x.excused => y.excused)
<1> DEFINE u == [x EXCEPT !.res = @ \ {"pm"}]
           q == DeinitSuspend(x, b)
           y == Suspended(x, b, open)
<1>1. /\ Device(x) /\ PhaseInv(x, b.pm, n, fresh) /\ CountInv(x, b.pm, n) /\ PowerInv(x, b.pm, fresh)
  BY DEF DevInv
<1>2. /\ Device(u) /\ u.res = x.res \ {"pm"} /\ u.lost = x.lost
      /\ u.excused = x.excused /\ u.firmware = x.firmware /\ u.handles = x.handles
      /\ u.usage = x.usage /\ u.rpm = x.rpm /\ u.error = x.error
      /\ u.enabled = x.enabled /\ u.running = x.running
  BY <1>1 DEF Device
<1>3. q = IF b.pm /\ x.rpm = "suspended" THEN u ELSE xrp_runtime_suspend(u)
  BY DEF DeinitSuspend
<1> HIDE DEF u
<1>4. /\ Device(q) /\ q.res = u.res /\ q.lost = u.lost
      /\ q.excused = u.excused /\ q.firmware = u.firmware /\ q.handles = u.handles
      /\ q.usage = u.usage /\ q.rpm = u.rpm /\ q.error = u.error
      /\ \/ ~q.enabled /\ ~q.running
         \/ b.pm /\ x.rpm = "suspended" /\ q.enabled = x.enabled /\ q.running = x.running
  <2>1. CASE b.pm /\ x.rpm = "suspended"
    BY <1>2, <1>3, <2>1
  <2>2. CASE ~(b.pm /\ x.rpm = "suspended")
    <3>1. q = xrp_runtime_suspend(u)
      BY <1>3, <2>2
    <3> HIDE DEF q
    <3> QED BY <1>2, <3>1 DEF Device, xrp_runtime_suspend, xvp_disable_dsp, halt
  <2> QED BY <2>1, <2>2
<1>0. y = [q EXCEPT !.phase = "removing", !.excused = @ \/ open]
  BY DEF Suspended
<1> HIDE DEF q, y
<1>5. /\ Device(y) /\ y.phase = "removing" /\ y.res = q.res /\ y.lost = q.lost
      /\ y.excused = (q.excused \/ open) /\ y.firmware = q.firmware /\ y.handles = q.handles
      /\ y.usage = q.usage /\ y.rpm = q.rpm /\ y.error = q.error
      /\ y.enabled = q.enabled /\ y.running = q.running
  BY <1>0, <1>4 DEF Device, Phases
<1>6. PhaseInv(y, b.pm, n, fresh)
  BY <1>2, <1>4, <1>5 DEF PhaseInv, Live
<1>7. CountInv(y, b.pm, n)
  <2>1. ~y.excused => ~x.excused
    BY <1>2, <1>4, <1>5
  <2>2. ~y.excused => y.lost = 0 /\ Held(y)
    BY <1>1, <1>2, <1>4, <1>5, <2>1 DEF CountInv, Held
  <2> QED BY <1>1, <1>2, <1>4, <1>5, <2>2 DEF CountInv
<1>8. PowerInv(y, b.pm, fresh)
  <2>1. ~y.enabled /\ (y.running => y.excused)
    BY <1>1, <1>2, <1>4, <1>5 DEF PowerInv, Live
  <2> QED BY <1>1, <1>2, <1>4, <1>5, <2>1 DEF PowerInv, Live
<1>9. x.excused => y.excused
  BY <1>2, <1>4, <1>5
<1> QED BY <1>5, <1>6, <1>7, <1>8, <1>9 DEF DevInv, y

\* struct xvp is new at each binding: what belongs to the device stays.
LEMMA ZeroedDevice ==
  ASSUME NEW x, Device(x)
  PROVE  LET q == Zeroed(x)
         IN  /\ Device(q) /\ q.phase = x.phase /\ q.res = {} /\ q.off = FALSE /\ q.firmware = "null"
             /\ q.usage = x.usage /\ q.rpm = x.rpm /\ q.error = x.error
             /\ q.enabled = x.enabled /\ q.running = x.running
             /\ q.handles = x.handles /\ q.lost = x.lost /\ q.excused = x.excused
<1> DEFINE q == Zeroed(x)
<1> DEFINE e == [x EXCEPT !.res = {}]
<1>1. Device(e)
  BY DEF Device
<1>2. Device(q)
  <2> HIDE DEF e
  <2>1. ASSUME NEW name \in Int, NEW map, NEW image, NEW mem
        PROVE  Device([e EXCEPT !.name = name, !.map = map, !.off = FALSE,
                                !.firmware = "null", !.image = image, !.mem = mem])
    BY <1>1 DEF Device
  <2>2. -1 \in Int
    OBVIOUS
  <2>3. Device([e EXCEPT !.name = -1, !.map = <<>>, !.off = FALSE,
                         !.firmware = "null", !.image = {}, !.mem = <<>>])
    BY <2>1, <2>2
  <2> QED BY <2>3 DEF Zeroed, e
<1>3. /\ q.phase = x.phase /\ q.res = {} /\ q.off = FALSE /\ q.firmware = "null"
      /\ q.usage = x.usage /\ q.rpm = x.rpm /\ q.error = x.error
      /\ q.enabled = x.enabled /\ q.running = x.running
      /\ q.handles = x.handles /\ q.lost = x.lost /\ q.excused = x.excused
  BY DEF Device, Zeroed
<1> QED BY <1>2, <1>3

\* Removal ends: everything is given back, and what files are still open are
\* of a driver that has gone (xrp_deinit).
LEMMA DeinitFreeKeeps ==
  ASSUME NEW x, NEW pm \in BOOLEAN, NEW n \in Nat, NEW fresh, DevInv(x, pm, n, fresh),
         x.phase = "removing"
  PROVE  DevInv([Zeroed(x) EXCEPT !.phase = "unbound", !.rpm = "suspended",
                                  !.handles = IF x.firmware = "live" THEN @ - 1 ELSE @,
                                  !.excused = @ \/ x.firmware = "freed" \/ n # 0],
                pm, n, FALSE)
<1> DEFINE q == Zeroed(x)
           y == [q EXCEPT !.phase = "unbound", !.rpm = "suspended",
                          !.handles = IF x.firmware = "live" THEN @ - 1 ELSE @,
                          !.excused = @ \/ x.firmware = "freed" \/ n # 0]
<1>1. /\ Device(x) /\ PhaseInv(x, pm, n, fresh) /\ CountInv(x, pm, n) /\ PowerInv(x, pm, fresh)
  BY DEF DevInv
<1>2. /\ Device(q) /\ q.res = {} /\ q.lost = x.lost /\ q.excused = x.excused /\ q.firmware = "null"
      /\ q.handles = x.handles /\ q.usage = x.usage /\ q.error = x.error
      /\ q.enabled = x.enabled /\ q.running = x.running
  BY <1>1, ZeroedDevice
<1> HIDE DEF q
<1>3. /\ y.phase = "unbound" /\ y.rpm = "suspended"
      /\ y.res = {} /\ y.lost = x.lost /\ y.firmware = "null"
      /\ y.handles = (IF x.firmware = "live" THEN x.handles - 1 ELSE x.handles)
      /\ y.excused = (x.excused \/ x.firmware = "freed" \/ n # 0)
      /\ y.usage = x.usage /\ y.error = x.error /\ y.enabled = x.enabled /\ y.running = x.running
  BY <1>2 DEF Device
<1>4. Device(y)
  <2>1. \A h \in Int, e \in BOOLEAN :
          Device([q EXCEPT !.phase = "unbound", !.rpm = "suspended", !.handles = h, !.excused = e])
    BY <1>2 DEF Device, Phases
  <2>2. (IF x.firmware = "live" THEN q.handles - 1 ELSE q.handles) \in Int
    BY <1>2 DEF Device
  <2>3. (q.excused \/ x.firmware = "freed" \/ n # 0) \in BOOLEAN
    OBVIOUS
  <2> QED BY <2>1, <2>2, <2>3
<1> HIDE DEF y
<1>5. ~y.excused => ~x.excused /\ x.firmware # "freed" /\ n = 0
  BY <1>3
<1>6. PhaseInv(y, pm, n, FALSE)
  BY <1>3, <1>5 DEF PhaseInv, Live
<1>7. CountInv(y, pm, n)
  <2>1. ~y.excused => y.lost = 0 /\ y.handles = 0
    BY <1>1, <1>3, <1>5 DEF CountInv, Held
  <2> QED BY <1>1, <1>3, <2>1 DEF CountInv, Held
<1>8. PowerInv(y, pm, FALSE)
  <2>1. ~x.enabled /\ (x.running => x.excused)
    BY <1>1 DEF PowerInv
  <2>2. x.excused => y.excused
    BY <1>3
  <2> QED BY <1>3, <2>1, <2>2 DEF PowerInv, Live
<1> QED BY <1>4, <1>6, <1>7, <1>8 DEF DevInv, y, q

----------------------------------------------------------------------------
(* Probing                                                                 *)

\* x is what probing has made of the unbound device u before its node is
\* registered.
Partial(u, x) ==
  /\ Device(x) /\ x.phase = "unbound" /\ x.res \subseteq {"pm", "map", "pool", "comm"}
  /\ x.usage = u.usage /\ x.rpm = u.rpm /\ x.error = u.error /\ x.lost = u.lost
  /\ u.excused => x.excused
  /\ ~x.excused => Held(x)

\* Probing has not powered the device.
NotPowered(u, x) == (x.enabled => u.enabled) /\ (x.running => u.running)

\* Everything but the node is there; without runtime PM the device has been
\* resumed.
Ready(u, x, pm) ==
  /\ Partial(u, x) /\ ~x.off
  /\ "pm" \in x.res <=> pm
  /\ pm => NotPowered(u, x)
  /\ ~pm => x.enabled /\ x.running

\* A device that could not be bound is as good as before, when what was set up
\* has gone.
LEMMA FailKeeps ==
  ASSUME NEW u, NEW pm \in BOOLEAN, NEW n \in Nat, NEW fresh, DevInv(u, pm, n, fresh), u.phase = "unbound",
         NEW x, Partial(u, x), NotPowered(u, x) \/ (x.excused /\ ~pm),
         "pm" \notin x.res, ~x.excused => x.firmware # "live" /\ x.res = {}
  PROVE  DevInv(x, pm, n, fresh)
<1>1. /\ PhaseInv(u, pm, n, fresh) /\ CountInv(u, pm, n) /\ PowerInv(u, pm, fresh)
  BY DEF DevInv
<1>2. /\ Device(x) /\ x.phase = "unbound" /\ "misc" \notin x.res
      /\ x.usage = u.usage /\ x.rpm = u.rpm /\ x.error = u.error /\ x.lost = u.lost
      /\ (u.excused => x.excused) /\ (~x.excused => Held(x))
  BY DEF Partial
<1>3. PhaseInv(x, pm, n, fresh)
  BY <1>1, <1>2 DEF PhaseInv, Live
<1>4. CountInv(x, pm, n)
  BY <1>1, <1>2 DEF CountInv
<1>5. PowerInv(x, pm, fresh)
  BY <1>1, <1>2 DEF PowerInv, Live, NotPowered
<1> QED BY <1>2, <1>3, <1>4, <1>5 DEF DevInv

\* The labels at the end of xrp_init_common undo what was set up.
LEMMA UndoKeeps ==
  ASSUME NEW u, NEW pm \in BOOLEAN, NEW n \in Nat, NEW fresh, DevInv(u, pm, n, fresh), u.phase = "unbound",
         NEW x, Partial(u, x), NotPowered(u, x) \/ (x.excused /\ ~pm)
  PROVE  DevInv(Undo(x), pm, n, fresh) /\ (x.excused => Undo(x).excused) /\ Undo(x).phase = "unbound"
<1> DEFINE y == Undo(x)
<1>1. Device(x)
  BY DEF Partial
<1>2. /\ Device(y) /\ y.phase = x.phase /\ y.res = x.res \ {"pm", "map", "pool", "comm"}
      /\ y.excused = (x.excused \/ x.firmware = "live") /\ y.firmware = x.firmware /\ y.handles = x.handles
      /\ y.usage = x.usage /\ y.rpm = x.rpm /\ y.error = x.error /\ y.lost = x.lost
      /\ y.enabled = x.enabled /\ y.running = x.running
  BY <1>1 DEF Undo, Device
<1> HIDE DEF y
<1>3. y.res = {}
  BY <1>2 DEF Partial
<1>4. Partial(u, y)
  <2>1. ~y.excused => Held(y)
    BY <1>2 DEF Partial, Held
  <2> QED BY <1>2, <1>3, <2>1 DEF Partial
<1>5. NotPowered(u, y) \/ (y.excused /\ ~pm)
  BY <1>2 DEF NotPowered
<1>6. ~y.excused => y.firmware # "live" /\ y.res = {}
  BY <1>2, <1>3
<1>7. DevInv(y, pm, n, fresh)
  BY <1>3, <1>4, <1>5, <1>6, FailKeeps
<1> QED BY <1>2, <1>7 DEF Partial, y

\* A device with its node, and one that probing leaves in a phase.
WithNode(x, name) == [x EXCEPT !.res = @ \cup {"misc"}, !.name = name]
Bound(x, name, phase) == [WithNode(x, name) EXCEPT !.phase = phase]

\* With its node registered the device is bound, or with ACPI still probed
\* (the end of xrp_init_common).
LEMMA BindKeeps ==
  ASSUME NEW u, NEW pm \in BOOLEAN, NEW n \in Nat, NEW fresh, DevInv(u, pm, n, fresh), u.phase = "unbound",
         NEW x, Ready(u, x, pm), NEW name \in Int, NEW phase \in {"probing", "bound"}
  PROVE  LET y == Bound(x, name, phase)
         IN  DevInv(y, pm, n, fresh) /\ y.phase = phase /\ (u.excused => y.excused)
<1> DEFINE y == Bound(x, name, phase)
<1>1. /\ PhaseInv(u, pm, n, fresh) /\ CountInv(u, pm, n) /\ PowerInv(u, pm, fresh)
  BY DEF DevInv
<1>2. /\ Device(x) /\ x.usage = u.usage /\ x.rpm = u.rpm /\ x.error = u.error /\ x.lost = u.lost
      /\ (u.excused => x.excused) /\ (~x.excused => Held(x)) /\ ~x.off
      /\ ("pm" \in x.res <=> pm)
  BY DEF Ready, Partial
<1>3. Device(x)
  BY <1>2
<1>4. /\ Device(y) /\ y.phase = phase /\ y.res = x.res \cup {"misc"}
      /\ y.excused = x.excused /\ y.firmware = x.firmware /\ y.handles = x.handles
      /\ y.usage = x.usage /\ y.rpm = x.rpm /\ y.error = x.error /\ y.lost = x.lost
      /\ y.enabled = x.enabled /\ y.running = x.running /\ y.off = x.off
  <2> DEFINE z == WithNode(x, name)
  <2>1. /\ Device(z) /\ z.res = x.res \cup {"misc"}
        /\ z.excused = x.excused /\ z.firmware = x.firmware /\ z.handles = x.handles
        /\ z.usage = x.usage /\ z.rpm = x.rpm /\ z.error = x.error /\ z.lost = x.lost
        /\ z.enabled = x.enabled /\ z.running = x.running /\ z.off = x.off
    BY <1>3 DEF Device, WithNode
  <2> HIDE DEF z
  <2>2. y = [z EXCEPT !.phase = phase]
    BY DEF z, Bound
  <2> HIDE DEF y
  <2> QED BY <2>1, <2>2 DEF Device, Phases
<1> HIDE DEF y
<1>5. Live(y) /\ y.phase # "unbound" /\ y.phase # "removing"
  BY <1>4 DEF Live
<1>6. "misc" \in y.res /\ ("pm" \in y.res <=> pm)
  BY <1>2, <1>4
<1>7. PhaseInv(y, pm, n, fresh)
  BY <1>5, <1>6 DEF PhaseInv
<1>8. CountInv(y, pm, n)
  <2>1. ~y.excused => Held(y)
    BY <1>2, <1>4 DEF Held
  <2> QED BY <1>1, <1>2, <1>4, <1>5, <2>1 DEF CountInv
<1>9. PowerInv(y, pm, fresh)
  <2>1. ~fresh /\ y.rpm = "suspended"
    BY <1>1, <1>2, <1>4 DEF PhaseInv
  <2>2. pm => ~y.enabled /\ (y.running => y.excused)
    BY <1>1, <1>2, <1>4 DEF PowerInv, Ready, NotPowered
  <2>3. ~pm => y.enabled
    BY <1>4 DEF Ready
  <2>4. ~y.off
    BY <1>2, <1>4
  <2> QED BY <1>5, <2>1, <2>2, <2>3, <2>4 DEF PowerInv
<1> QED BY <1>2, <1>4, <1>7, <1>8, <1>9 DEF DevInv, y

\* The registers and the memory of the device (xrp_init_regs_v0, _v1, _cma).
LEMMA RegsOutcome ==
  ASSUME NEW u, NEW b, b.pm \in BOOLEAN, NEW n \in Nat, NEW fresh, DevInv(u, b.pm, n, fresh), u.phase = "unbound",
         NEW r \in xrp_init_regs(Zeroed(u), b)
  PROVE  /\ r.rc = 0 => /\ Partial(u, r.dev) /\ NotPowered(u, r.dev) /\ ~r.dev.off
                        /\ r.dev.res \subseteq {"comm", "pool"}
         /\ r.rc < 0 => DevInv(r.dev, b.pm, n, fresh) /\ r.dev.phase = "unbound" /\ (u.excused => r.dev.excused)
<1> DEFINE z == Zeroed(u)
<1>1. Device(u) /\ CountInv(u, b.pm, n)
  BY DEF DevInv
<1>2. /\ Device(z) /\ z.phase = "unbound" /\ z.res = {} /\ z.off = FALSE /\ z.firmware = "null"
      /\ z.usage = u.usage /\ z.rpm = u.rpm /\ z.error = u.error
      /\ z.enabled = u.enabled /\ z.running = u.running
      /\ z.handles = u.handles /\ z.lost = u.lost /\ z.excused = u.excused
  BY <1>1, ZeroedDevice
<1>3. ~u.excused => u.handles = 0
  BY <1>1 DEF CountInv, Held
<1> HIDE DEF z
<1>4. Partial(u, z) /\ NotPowered(u, z)
  BY <1>2, <1>3 DEF Partial, NotPowered, Held
<1>5. ASSUME NEW up \in SUBSET {"comm", "pool"}, r = Result(0, [z EXCEPT !.res = up])
      PROVE  /\ r.rc = 0 /\ Partial(u, r.dev) /\ NotPowered(u, r.dev) /\ ~r.dev.off
             /\ r.dev.res \subseteq {"comm", "pool"}
  <2> DEFINE y == [z EXCEPT !.res = up]
  <2>1. r.rc = 0 /\ r.dev = y
    BY <1>5 DEF Result
  <2>2. /\ Device(y) /\ y.phase = "unbound" /\ y.res = up /\ y.off = FALSE /\ y.firmware = "null"
        /\ y.usage = u.usage /\ y.rpm = u.rpm /\ y.error = u.error
        /\ y.enabled = u.enabled /\ y.running = u.running
        /\ y.handles = u.handles /\ y.lost = u.lost /\ y.excused = u.excused
    BY <1>2 DEF Device
  <2> HIDE DEF y
  <2>3. Partial(u, y) /\ NotPowered(u, y)
    BY <1>3, <2>2 DEF Partial, NotPowered, Held
  <2> QED BY <2>1, <2>2, <2>3
<1>6. ASSUME r = Result(-1, z)
      PROVE  r.rc < 0 /\ DevInv(r.dev, b.pm, n, fresh) /\ r.dev.phase = "unbound" /\ (u.excused => r.dev.excused)
  <2>1. r.rc = -1 /\ r.dev = z
    BY <1>6 DEF Result
  <2>2. DevInv(z, b.pm, n, fresh)
    <3>1. "pm" \notin z.res /\ (~z.excused => z.firmware # "live" /\ z.res = {})
      BY <1>2
    <3> QED BY <1>4, <3>1, FailKeeps
  <2> QED BY <1>2, <2>1, <2>2
<1>7. ASSUME r = Result(-1, [z EXCEPT !.res = {"comm"}, !.excused = TRUE])
      PROVE  r.rc < 0 /\ DevInv(r.dev, b.pm, n, fresh) /\ r.dev.phase = "unbound" /\ (u.excused => r.dev.excused)
  <2> DEFINE y == [z EXCEPT !.res = {"comm"}, !.excused = TRUE]
  <2>1. r.rc = -1 /\ r.dev = y
    BY <1>7 DEF Result
  <2>2. /\ Device(y) /\ y.phase = "unbound" /\ y.res = {"comm"} /\ y.excused
        /\ y.usage = u.usage /\ y.rpm = u.rpm /\ y.error = u.error
        /\ y.enabled = u.enabled /\ y.running = u.running /\ y.lost = u.lost
    BY <1>2 DEF Device
  <2> HIDE DEF y
  <2>3. Partial(u, y) /\ NotPowered(u, y) /\ "pm" \notin y.res
    BY <2>2 DEF Partial, NotPowered
  <2>4. DevInv(y, b.pm, n, fresh)
    BY <2>2, <2>3, FailKeeps
  <2> QED BY <2>1, <2>2, <2>4
<1>8. \/ \E up \in SUBSET {"comm", "pool"} : r = Result(0, [z EXCEPT !.res = up])
      \/ r = Result(-1, z)
      \/ r = Result(-1, [z EXCEPT !.res = {"comm"}, !.excused = TRUE])
  BY DEF xrp_init_regs, z
<1>9. CASE \E up \in SUBSET {"comm", "pool"} : r = Result(0, [z EXCEPT !.res = up])
  <2>1. /\ r.rc = 0 /\ Partial(u, r.dev) /\ NotPowered(u, r.dev) /\ ~r.dev.off
        /\ r.dev.res \subseteq {"comm", "pool"}
    BY <1>5, <1>9
  <2> QED BY <2>1
<1>10. CASE r = Result(-1, z) \/ r = Result(-1, [z EXCEPT !.res = {"comm"}, !.excused = TRUE])
  <2>1. r.rc < 0 /\ DevInv(r.dev, b.pm, n, fresh) /\ r.dev.phase = "unbound" /\ (u.excused => r.dev.excused)
    BY <1>6, <1>7, <1>10
  <2>2. r.rc = -1
    BY <1>10 DEF Result
  <2>3. r.rc # 0
    BY <2>2
  <2> QED BY <2>1, <2>3
<1> QED BY <1>8, <1>9, <1>10

\* The address map, and runtime PM enabled where there is one.
LEMMA MappedOutcome ==
  ASSUME NEW u, NEW x, Partial(u, x), NotPowered(u, x), ~x.off, x.res \subseteq {"comm", "pool"},
         NEW map, NEW pm \in BOOLEAN
  PROVE  LET m == [x EXCEPT !.res = @ \cup {"map"}, !.map = map]
             e == [m EXCEPT !.res = @ \cup IF pm THEN {"pm"} ELSE {}]
         IN  /\ Partial(u, m) /\ NotPowered(u, m)
             /\ Partial(u, e) /\ NotPowered(u, e) /\ ~e.off /\ ("pm" \in e.res <=> pm)
<1> DEFINE m == [x EXCEPT !.res = @ \cup {"map"}, !.map = map]
           e == [m EXCEPT !.res = @ \cup IF pm THEN {"pm"} ELSE {}]
<1>1. Device(x) /\ x.phase = "unbound"
  BY DEF Partial
<1>2. /\ Device(m) /\ m.phase = "unbound" /\ m.res = x.res \cup {"map"} /\ m.off = x.off /\ m.firmware = x.firmware
      /\ m.usage = x.usage /\ m.rpm = x.rpm /\ m.error = x.error
      /\ m.enabled = x.enabled /\ m.running = x.running
      /\ m.handles = x.handles /\ m.lost = x.lost /\ m.excused = x.excused
  BY <1>1 DEF Device
<1> HIDE DEF m
<1>3. Partial(u, m) /\ NotPowered(u, m)
  BY <1>2 DEF Partial, NotPowered, Held
<1>4. /\ Device(e) /\ e.phase = "unbound" /\ e.res = m.res \cup (IF pm THEN {"pm"} ELSE {})
      /\ e.off = m.off /\ e.firmware = m.firmware
      /\ e.usage = m.usage /\ e.rpm = m.rpm /\ e.error = m.error
      /\ e.enabled = m.enabled /\ e.running = m.running
      /\ e.handles = m.handles /\ e.lost = m.lost /\ e.excused = m.excused
  <2>1. \A res \in SUBSET {"pm", "map", "pool", "comm", "misc"} : Device([m EXCEPT !.res = res])
    BY <1>2 DEF Device
  <2>2. (m.res \cup IF pm THEN {"pm"} ELSE {}) \in SUBSET {"pm", "map", "pool", "comm", "misc"}
    BY <1>2 DEF Device
  <2>3. Device(e)
    BY <2>1, <2>2
  <2> QED BY <1>2, <2>3 DEF Device
<1> HIDE DEF e
<1>5. e.res \subseteq {"pm", "map", "pool", "comm"} /\ ("pm" \in e.res <=> pm)
  BY <1>2, <1>4
<1>6. Partial(u, e) /\ NotPowered(u, e) /\ ~e.off
  BY <1>2, <1>3, <1>4, <1>5 DEF Partial, NotPowered, Held
<1> QED BY <1>3, <1>5, <1>6 DEF m, e

\* Without runtime PM probing resumes the device itself; a resume that fails
\* leaves it without power.
LEMMA ProbeResume ==
  ASSUME NEW u, NEW b, NEW x, Partial(u, x), NotPowered(u, x), ~x.off, ("pm" \in x.res <=> b.pm), ~b.pm,
         NEW r \in xrp_runtime_resume(x, b)
  PROVE  /\ r.rc = 0 => Ready(u, r.dev, b.pm)
         /\ r.rc < 0 => Partial(u, r.dev) /\ NotPowered(u, r.dev)
<1> DEFINE y == r.dev
<1>1. Device(x)
  BY DEF Partial
<1>2. Resumed(x, r)
  BY <1>1, ResumeOutcome
<1>3. /\ Device(y) /\ y.phase = x.phase /\ y.res = x.res /\ y.lost = x.lost /\ (x.excused => y.excused)
      /\ y.usage = x.usage /\ y.rpm = x.rpm /\ y.error = x.error /\ KeepsHeld(x, y)
      /\ (r.rc = 0 => y.enabled /\ y.running /\ ~y.off)
      /\ (r.rc # 0 => y = x \/ (~y.enabled /\ ~y.running))
      /\ r.rc \in {0, -1}
  BY <1>2 DEF Resumed, Same
<1> HIDE DEF y
<1>4. Partial(u, y)
  <2>1. ~y.excused => Held(y)
    BY <1>3 DEF Partial, KeepsHeld
  <2> QED BY <1>3, <2>1 DEF Partial
<1>5. r.rc = 0 => Ready(u, y, b.pm)
  BY <1>3, <1>4 DEF Ready
<1>6. r.rc < 0 => r.rc # 0
  BY <1>3
<1>7. r.rc # 0 => NotPowered(u, y)
  BY <1>3 DEF NotPowered
<1> QED BY <1>4, <1>5, <1>6, <1>7 DEF y

\* What a failed registration leaves.
Unregistered(x) == [x EXCEPT !.excused = TRUE]

\* misc_register adds the node, or fails and leaves what came before it behind
\* (xrp_init_common).
LEMMA RegisterOutcome ==
  ASSUME NEW x, NEW d, NEW r \in misc_register(x, d)
  PROVE  \/ r.rc = -1 /\ r.dev = Unregistered(x)
         \/ r.rc = 0 /\ r.dev = WithNode(x, nodeid)
<1>1. r = Result(-1, Unregistered(x)) \/ r = Result(0, WithNode(x, nodeid))
  BY DEF misc_register, Unregistered, WithNode
<1> QED BY <1>1 DEF Result

\* The outcomes r of probing keep what is true of the device u: an early
\* failure and a late one leave it unbound, the late one excused.
Outcomes(u, r, pm, n, fresh) ==
  /\ \A x \in r.early : DevInv(x, pm, n, fresh) /\ x.phase = "unbound" /\ (u.excused => x.excused)
  /\ \A x \in r.late : DevInv(x, pm, n, fresh) /\ x.phase = "unbound" /\ x.excused
  /\ \A x \in r.bound : DevInv(x, pm, n, fresh) /\ x.phase # "unbound" /\ (u.excused => x.excused)

\* Whatever step of probing fails, and when none does (xrp_init_common).
LEMMA ProbeOutcomes ==
  ASSUME NEW d \in Devices, NEW b, b.pm \in BOOLEAN, nodeid \in Int, NEW n \in Nat, NEW fresh,
         DevInv(dev[d], b.pm, n, fresh), dev[d].phase = "unbound"
  PROVE  Outcomes(dev[d], xrp_init_common(d, b), b.pm, n, fresh)
<1> DEFINE u == dev[d]
           regs == xrp_init_regs(Zeroed(u), b)
           Ok(S) == {r.dev : r \in {s \in S : s.rc = 0}}
           Bad(S) == {r.dev : r \in {s \in S : s.rc < 0}}
           M(x) == [x EXCEPT !.res = @ \cup {"map"}, !.map = xrp_init_address_map(b.ranges, Width)]
           E(x) == [x EXCEPT !.res = @ \cup IF b.pm THEN {"pm"} ELSE {}]
           mapped == {M(x) : x \in Ok(regs)}
           enabled == {E(x) : x \in mapped}
           resumed == IF b.pm THEN {Result(0, x) : x \in enabled}
                      ELSE UNION {xrp_runtime_resume(x, b) : x \in enabled}
           registered == UNION {misc_register(x, d) : x \in Ok(resumed)}
           early == Bad(regs) \cup {Undo(x) : x \in Ok(regs) \cup mapped \cup Bad(resumed)}
           late == {Undo(x) : x \in Bad(registered)}
           bound == {[x EXCEPT !.phase = IF b.acpi THEN "probing" ELSE "bound"] : x \in Ok(registered)}
<1>1. xrp_init_common(d, b) = [early |-> early, late |-> late, bound |-> bound]
  BY DEF xrp_init_common
<1>2. \A x \in Bad(regs) : DevInv(x, b.pm, n, fresh) /\ x.phase = "unbound" /\ (u.excused => x.excused)
  BY RegsOutcome
<1>3. \A x \in Ok(regs) : /\ Partial(u, x) /\ NotPowered(u, x) /\ ~x.off
                          /\ x.res \subseteq {"comm", "pool"}
  BY RegsOutcome
<1> HIDE DEF regs
<1>4. \A x \in Ok(regs) : /\ Partial(u, M(x)) /\ NotPowered(u, M(x))
                          /\ Partial(u, E(M(x))) /\ NotPowered(u, E(M(x))) /\ ~E(M(x)).off
                          /\ ("pm" \in E(M(x)).res <=> b.pm)
  BY <1>3, MappedOutcome
<1> HIDE DEF Ok, Bad, M, E
<1>5. /\ \A x \in mapped : Partial(u, x) /\ NotPowered(u, x)
      /\ \A x \in enabled : Partial(u, x) /\ NotPowered(u, x) /\ ~x.off /\ ("pm" \in x.res <=> b.pm)
  BY <1>4
<1> USE DEF Ok, Bad
<1> HIDE DEF enabled
<1>6. /\ \A x \in Ok(resumed) : Ready(u, x, b.pm)
      /\ \A x \in Bad(resumed) : Partial(u, x) /\ NotPowered(u, x)
  <2>1. CASE b.pm
    <3>1. \A r \in resumed : r.rc = 0 /\ r.dev \in enabled
      BY <2>1 DEF Result
    <3> HIDE DEF resumed
    <3>2. Bad(resumed) = {}
      BY <3>1
    <3>3. \A x \in Ok(resumed) : x \in enabled
      BY <3>1
    <3> QED BY <1>5, <2>1, <3>2, <3>3 DEF Ready
  <2>2. CASE ~b.pm
    <3>1. \A r \in resumed : \E x \in enabled : r \in xrp_runtime_resume(x, b)
      BY <2>2
    <3> HIDE DEF resumed
    <3>2. \A r \in resumed : /\ r.rc = 0 => Ready(u, r.dev, b.pm)
                             /\ r.rc < 0 => Partial(u, r.dev) /\ NotPowered(u, r.dev)
      BY <1>5, <2>2, <3>1, ProbeResume
    <3> QED BY <3>2
  <2> QED BY <2>1, <2>2
<1> HIDE DEF resumed
<1>7. \A x \in early : DevInv(x, b.pm, n, fresh) /\ x.phase = "unbound" /\ (u.excused => x.excused)
  <2>1. \A x \in Ok(regs) \cup mapped \cup Bad(resumed) : Partial(u, x) /\ NotPowered(u, x)
    BY <1>3, <1>5, <1>6
  <2>2. \A x : Partial(u, x) /\ NotPowered(u, x) =>
               DevInv(Undo(x), b.pm, n, fresh) /\ (x.excused => Undo(x).excused) /\ Undo(x).phase = "unbound"
    BY UndoKeeps
  <2>3. \A x : Partial(u, x) => (u.excused => x.excused)
    BY DEF Partial
  <2> HIDE DEF mapped, Ok, Bad
  <2> QED BY <1>2, <2>1, <2>2, <2>3
<1> HIDE DEF mapped
<1>8. /\ \A x \in Bad(registered) : \E y \in Ok(resumed) : x = Unregistered(y)
      /\ \A x \in Ok(registered) : \E y \in Ok(resumed) : x = WithNode(y, nodeid)
  <2> DEFINE R == Ok(resumed)
  <2>1. \A r \in registered : \E y \in R : r \in misc_register(y, d)
    OBVIOUS
  <2> HIDE DEF R, registered
  <2>2. \A r \in registered : \E y \in R :
          \/ r.rc = -1 /\ r.dev = Unregistered(y)
          \/ r.rc = 0 /\ r.dev = WithNode(y, nodeid)
    <3> SUFFICES ASSUME NEW r \in registered
                 PROVE  \E y \in R :
                          \/ r.rc = -1 /\ r.dev = Unregistered(y)
                          \/ r.rc = 0 /\ r.dev = WithNode(y, nodeid)
      OBVIOUS
    <3>1. PICK y \in R : r \in misc_register(y, d)
      BY <2>1
    <3>2. \/ r.rc = -1 /\ r.dev = Unregistered(y)
          \/ r.rc = 0 /\ r.dev = WithNode(y, nodeid)
      BY <3>1, RegisterOutcome
    <3> QED BY <3>2
  <2>3. -1 < 0 /\ -1 # 0 /\ ~(0 < 0)
    OBVIOUS
  <2>4. \A r \in registered : r.rc < 0 => \E y \in R : r.dev = Unregistered(y)
    BY <2>2, <2>3
  <2>5. \A r \in registered : r.rc = 0 => \E y \in R : r.dev = WithNode(y, nodeid)
    BY <2>2, <2>3
  <2> QED BY <2>4, <2>5 DEF R
<1> HIDE DEF registered, Ok, Bad
<1>9. ASSUME NEW y \in Ok(resumed)
      PROVE  LET x == Undo(Unregistered(y))
             IN  DevInv(x, b.pm, n, fresh) /\ x.phase = "unbound" /\ x.excused
  <2> DEFINE z == Unregistered(y)
  <2>1. Ready(u, y, b.pm)
    BY <1>6
  <2>2. Device(y)
    BY <2>1 DEF Ready, Partial
  <2>3. /\ Device(z) /\ z.excused /\ z.phase = y.phase /\ z.res = y.res
        /\ z.usage = y.usage /\ z.rpm = y.rpm /\ z.error = y.error /\ z.lost = y.lost
        /\ z.enabled = y.enabled /\ z.running = y.running
    BY <2>2 DEF Device, Unregistered
  <2> HIDE DEF z
  <2>4. Partial(u, z)
    BY <2>1, <2>3 DEF Ready, Partial
  <2>5. NotPowered(u, z) \/ (z.excused /\ ~b.pm)
    BY <2>1, <2>3 DEF Ready, NotPowered
  <2>6. DevInv(Undo(z), b.pm, n, fresh) /\ (z.excused => Undo(z).excused) /\ Undo(z).phase = "unbound"
    BY <2>4, <2>5, UndoKeeps
  <2> QED BY <2>3, <2>6 DEF z
<1>10. \A x \in late : DevInv(x, b.pm, n, fresh) /\ x.phase = "unbound" /\ x.excused
  BY <1>8, <1>9
<1>11. \A x \in bound : DevInv(x, b.pm, n, fresh) /\ x.phase # "unbound" /\ (u.excused => x.excused)
  <2> DEFINE p == IF b.acpi THEN "probing" ELSE "bound"
             P(x) == [x EXCEPT !.phase = p]
  <2>1. p \in {"probing", "bound"} /\ p # "unbound"
    OBVIOUS
  <2>2. bound = {P(x) : x \in Ok(registered)}
    OBVIOUS
  <2> HIDE DEF p
  <2>3. ASSUME NEW y \in Ok(resumed)
        PROVE  LET x == Bound(y, nodeid, p)
               IN  DevInv(x, b.pm, n, fresh) /\ x.phase = p /\ (u.excused => x.excused)
    <3>1. Ready(u, y, b.pm)
      BY <1>6
    <3>2. DevInv(u, b.pm, n, fresh) /\ u.phase = "unbound" /\ p \in {"probing", "bound"}
      BY <2>1
    <3> HIDE DEF u
    <3> QED BY <3>1, <3>2, BindKeeps
  <2>4. \A y : P(WithNode(y, nodeid)) = Bound(y, nodeid, p)
    BY DEF Bound
  <2> HIDE DEF bound, P
  <2> QED BY <1>8, <2>1, <2>2, <2>3, <2>4
<1> HIDE DEF early, late, bound
<1> QED BY <1>1, <1>7, <1>10, <1>11 DEF Outcomes

----------------------------------------------------------------------------
(* The whole state                                                         *)

HasFresh(d) == \E f \in Opened(d) : ~file[f].stale

FileInv ==
  /\ file \in [Files -> [dev : Devices \cup {"none"}, stale : BOOLEAN]]
  /\ \A f \in Files : file[f].dev = "none" => file[f] = Closed

DevicesInv ==
  /\ dev = [d \in Devices |-> dev[d]]
  /\ \A d \in Devices : DevInv(dev[d], board[d].pm, Cardinality(Opened(d)), HasFresh(d))

\* Node numbers are those of the bound devices.
BoundDevices == {d \in Devices : dev[d].phase # "unbound"}
NodeInv ==
  /\ nodeid \in Int
  /\ (\A d \in Devices : ~dev[d].excused) => nodeid = Cardinality(BoundDevices)

DriverInv == model \in Machines /\ FileInv /\ DevicesInv /\ NodeInv

\* The board of a device.
LEMMA BoardFacts ==
  model \in Machines =>
    \A d \in Devices : /\ board[d] = Boards[model[d]]
                       /\ board[d].pm \in BOOLEAN /\ board[d].acpi \in BOOLEAN
  BY DriverAssumption DEF board

\* A device is opened by finitely many files.
LEMMA OpenedFinite ==
  \A d : /\ IsFiniteSet(Opened(d)) /\ Cardinality(Opened(d)) \in Nat
         /\ Cardinality(Opened(d)) = 0 <=> Opened(d) = {}
<1> SUFFICES ASSUME NEW d
             PROVE  /\ IsFiniteSet(Opened(d)) /\ Cardinality(Opened(d)) \in Nat
                    /\ Cardinality(Opened(d)) = 0 <=> Opened(d) = {}
  OBVIOUS
<1>1. Opened(d) \subseteq Files
  BY DEF Opened
<1>2. IsFiniteSet(Opened(d))
  BY <1>1, DriverAssumption, FS_Subset
<1> QED BY <1>2, FS_CardinalityType, FS_EmptySet

\* A step of one device, when it keeps what is true of that one.
LEMMA StepOf ==
  ASSUME DevicesInv, model \in Machines, NEW d \in Devices, NEW y,
         model' = model, dev' = [dev EXCEPT ![d] = y],
         DevInv(y, board[d].pm, Cardinality(Opened(d)'), HasFresh(d)'),
         \A e \in Devices \ {d} : Opened(e)' = Opened(e) /\ HasFresh(e)' = HasFresh(e)
  PROVE  DevicesInv'
<1>1. \A e \in Devices : board[e]' = board[e]
  BY DEF board
<1>2. dev' = [e \in Devices |-> dev'[e]] /\ dev'[d] = y /\ \A e \in Devices \ {d} : dev'[e] = dev[e]
  BY DEF DevicesInv
<1>3. ASSUME NEW e \in Devices
      PROVE  DevInv(dev'[e], board[e].pm, Cardinality(Opened(e)'), HasFresh(e)')
  <2>1. CASE e = d
    BY <1>2, <2>1
  <2>2. CASE e # d
    <3>1. Opened(e)' = Opened(e) /\ HasFresh(e)' = HasFresh(e) /\ dev'[e] = dev[e]
      BY <1>2, <2>2
    <3>2. DevInv(dev[e], board[e].pm, Cardinality(Opened(e)), HasFresh(e))
      BY DEF DevicesInv
    <3> QED BY <3>1, <3>2
  <2> QED BY <2>1, <2>2
<1>4. \A e \in Devices : (DevInv(dev[e], board[e].pm, Cardinality(Opened(e)), HasFresh(e)))'
  BY <1>1, <1>3
<1> QED BY <1>2, <1>4 DEF DevicesInv

\* The number of bound devices.
LEMMA NodeStep ==
  ASSUME NodeInv, NEW d \in Devices, dev = [e \in Devices |-> dev[e]], NEW y, dev' = [dev EXCEPT ![d] = y],
         dev[d].excused => y.excused,
         \/ nodeid' = nodeid /\ (dev[d].phase = "unbound" <=> y.phase = "unbound")
         \/ nodeid' = nodeid + 1 /\ dev[d].phase = "unbound" /\ (y.phase # "unbound" \/ y.excused)
         \/ nodeid' = nodeid - 1 /\ dev[d].phase # "unbound" /\ y.phase = "unbound"
  PROVE  NodeInv'
<1>1. nodeid' \in Int
  BY DEF NodeInv
<1>2. dev'[d] = y /\ \A e \in Devices \ {d} : dev'[e] = dev[e]
  OBVIOUS
<1>3. ASSUME \A e \in Devices : ~dev'[e].excused
      PROVE  nodeid' = Cardinality(BoundDevices')
  <2>1. ~y.excused /\ \A e \in Devices : ~dev[e].excused
    BY <1>2, <1>3
  <2>2. nodeid = Cardinality(BoundDevices)
    BY <2>1 DEF NodeInv
  <2>3. IsFiniteSet(BoundDevices) /\ IsFiniteSet(BoundDevices')
    <3>1. BoundDevices \subseteq Devices /\ BoundDevices' \subseteq Devices
      BY DEF BoundDevices
    <3> QED BY <3>1, DriverAssumption, FS_Subset
  <2>4. CASE nodeid' = nodeid /\ (dev[d].phase = "unbound" <=> y.phase = "unbound")
    <3>1. BoundDevices' = BoundDevices
      BY <1>2, <2>4 DEF BoundDevices
    <3> QED BY <2>2, <2>4, <3>1
  <2>5. CASE nodeid' = nodeid + 1 /\ dev[d].phase = "unbound" /\ (y.phase # "unbound" \/ y.excused)
    <3>1. y.phase # "unbound"
      BY <2>1, <2>5
    <3>2. BoundDevices' = BoundDevices \cup {d} /\ d \notin BoundDevices
      BY <1>2, <2>5, <3>1 DEF BoundDevices
    <3>3. Cardinality(BoundDevices') = Cardinality(BoundDevices) + 1
      BY <2>3, <3>2, FS_AddElement
    <3> QED BY <2>2, <2>5, <3>3
  <2>6. CASE nodeid' = nodeid - 1 /\ dev[d].phase # "unbound" /\ y.phase = "unbound"
    <3>1. BoundDevices' = BoundDevices \ {d} /\ d \in BoundDevices
      BY <1>2, <2>6 DEF BoundDevices
    <3>2. Cardinality(BoundDevices') = Cardinality(BoundDevices) - 1
      BY <2>3, <3>1, FS_RemoveElement
    <3> QED BY <2>2, <2>6, <3>2
  <2> QED BY <2>4, <2>5, <2>6
<1> QED BY <1>1, <1>3 DEF NodeInv

\* When no file changes, the files of every device stay as they are.
LEMMA SameFiles ==
  ASSUME FileInv, file' = file
  PROVE  FileInv' /\ \A e \in Devices : Opened(e)' = Opened(e) /\ HasFresh(e)' = HasFresh(e)
  BY DEF FileInv, Opened, HasFresh

----------------------------------------------------------------------------
(* The steps                                                               *)

\* What the invariant says of one device.
LEMMA Of ==
  DriverInv => \A d \in Devices :
    /\ DevInv(dev[d], board[d].pm, Cardinality(Opened(d)), HasFresh(d))
    /\ board[d].pm \in BOOLEAN /\ Cardinality(Opened(d)) \in Nat
  BY BoardFacts, OpenedFinite DEF DriverInv, DevicesInv

\* xrp_probe: probing of a device tree board keeps the invariant, whichever of
\* its calls fails.
LEMMA ProbeStep ==
  ASSUME DriverInv, NEW d \in Devices, xrp_probe(d)
  PROVE  DriverInv'
<1> DEFINE u == dev[d]
           r == xrp_init_common(d, board[d])
<1>1. Outcomes(u, r, board[d].pm, Cardinality(Opened(d)), HasFresh(d))
  <2>1. u.phase = "unbound" /\ nodeid \in Int
    BY DEF xrp_probe, DriverInv, NodeInv
  <2>2. DevInv(dev[d], board[d].pm, Cardinality(Opened(d)), HasFresh(d))
    BY Of
  <2>3. board[d].pm \in BOOLEAN /\ Cardinality(Opened(d)) \in Nat
    BY Of
  <2> QED BY <2>1, <2>2, <2>3, ProbeOutcomes
<1>2. model' = model /\ file' = file
  BY DEF xrp_probe
<1>3. PICK x : /\ dev' = [dev EXCEPT ![d] = x]
               /\ DevInv(x, board[d].pm, Cardinality(Opened(d)), HasFresh(d)) /\ (u.excused => x.excused)
               /\ \/ nodeid' = nodeid /\ u.phase = "unbound" /\ x.phase = "unbound"
                  \/ nodeid' = nodeid + 1 /\ u.phase = "unbound" /\ (x.phase # "unbound" \/ x.excused)
  <2> HIDE DEF r
  <2>1. \/ \E x \in r.early : Becomes(d, x) /\ UNCHANGED nodeid
        \/ nodeid' = nodeid + 1 /\ \E x \in r.late \cup r.bound : Becomes(d, x)
    BY DEF xrp_probe, r
  <2>2. u.phase = "unbound"
    BY DEF xrp_probe
  <2>3. CASE \E x \in r.early : Becomes(d, x) /\ UNCHANGED nodeid
    BY <1>1, <2>2, <2>3 DEF Becomes, Outcomes
  <2>4. CASE nodeid' = nodeid + 1 /\ \E x \in r.late \cup r.bound : Becomes(d, x)
    BY <1>1, <2>2, <2>4 DEF Becomes, Outcomes
  <2> QED BY <2>1, <2>3, <2>4
<1>4. FileInv' /\ \A e \in Devices : Opened(e)' = Opened(e) /\ HasFresh(e)' = HasFresh(e)
  BY <1>2, SameFiles DEF DriverInv
<1>5. DevicesInv'
  BY <1>2, <1>3, <1>4, StepOf DEF DriverInv
<1>6. NodeInv'
  BY <1>3, NodeStep DEF DriverInv, DevicesInv
<1> QED BY <1>2, <1>4, <1>5, <1>6 DEF DriverInv

\* xrp_probe_acpi: the same with the resources ACPI describes.
LEMMA ProbeAcpiStep ==
  ASSUME DriverInv, NEW d \in Devices, xrp_probe_acpi(d)
  PROVE  DriverInv'
<1> DEFINE x == dev[d]
           n == Cardinality(Opened(d))
           fresh == HasFresh(d)
           pm == board[d].pm
<1>1. model' = model /\ file' = file /\ nodeid' = nodeid /\ x.phase = "probing"
  BY DEF xrp_probe_acpi
<1>2. DevInv(x, pm, n, fresh) /\ pm \in BOOLEAN /\ n \in Nat
  BY Of
<1>3. PICK i, e : dev' = [dev EXCEPT ![d] = [x EXCEPT !.phase = "bound", !.map[i] = e]]
  BY DEF xrp_probe_acpi
<1> DEFINE y == [x EXCEPT !.phase = "bound", !.map[i] = e]
<1>4. /\ Device(y) /\ y.phase = "bound" /\ y.res = x.res
      /\ y.excused = x.excused /\ y.firmware = x.firmware /\ y.handles = x.handles
      /\ y.usage = x.usage /\ y.rpm = x.rpm /\ y.error = x.error /\ y.lost = x.lost
      /\ y.enabled = x.enabled /\ y.running = x.running /\ y.off = x.off
  <2>1. Device(x)
    BY <1>2 DEF DevInv
  <2> HIDE DEF x
  <2> QED BY <2>1 DEF Device, Phases
<1> HIDE DEF y
<1>5. DevInv(y, pm, n, fresh)
  <2> HIDE DEF x, n, fresh, pm
  <2>1. /\ PhaseInv(x, pm, n, fresh) /\ CountInv(x, pm, n) /\ PowerInv(x, pm, fresh)
    BY <1>2 DEF DevInv
  <2>2. PhaseInv(y, pm, n, fresh)
    BY <1>1, <1>4, <2>1 DEF PhaseInv, Live
  <2>3. CountInv(y, pm, n)
    BY <1>4, <2>1 DEF CountInv, Held
  <2>4. PowerInv(y, pm, fresh)
    BY <1>1, <1>4, <2>1 DEF PowerInv, Live
  <2> QED BY <1>4, <2>2, <2>3, <2>4 DEF DevInv
<1>6. FileInv' /\ \A e_1 \in Devices : Opened(e_1)' = Opened(e_1) /\ HasFresh(e_1)' = HasFresh(e_1)
  BY <1>1, SameFiles DEF DriverInv
<1>7. dev' = [dev EXCEPT ![d] = y]
  BY <1>3 DEF y
<1>8. DevicesInv'
  BY <1>1, <1>5, <1>6, <1>7, StepOf DEF DriverInv
<1>9. NodeInv'
  BY <1>1, <1>4, <1>7, NodeStep DEF DriverInv, DevicesInv
<1> QED BY <1>1, <1>6, <1>8, <1>9 DEF DriverInv

\* Booting the DSP again after a command that timed out (xrp_ioctl_submit_sync)
\* keeps the invariant.
LEMMA RebootStep ==
  ASSUME DriverInv, NEW d \in Devices, Reboot(d)
  PROVE  DriverInv'
<1> DEFINE x == dev[d]
<1>1. model' = model /\ file' = file /\ nodeid' = nodeid /\ HasFresh(d) /\ ~x.off
  BY DEF Reboot, HasFresh
<1>2. /\ DevInv(x, board[d].pm, Cardinality(Opened(d)), HasFresh(d))
      /\ board[d].pm \in BOOLEAN /\ Cardinality(Opened(d)) \in Nat
  BY Of
<1>3. PICK r \in xrp_boot_firmware(x, board[d]) :
        dev' = [dev EXCEPT ![d] = [r.dev EXCEPT !.excused = @ \/ x.phase = "removing"]]
  BY DEF Reboot, Becomes
<1> DEFINE y == [r.dev EXCEPT !.excused = @ \/ x.phase = "removing"]
<1>4. Booted(x, r)
  BY <1>2, BootOutcome DEF DevInv
<1>5. DevInv(y, board[d].pm, Cardinality(Opened(d)), HasFresh(d))
  BY <1>1, <1>2, <1>4, RebootKeeps
<1>6. y.phase = x.phase /\ (x.excused => y.excused)
  <2>1. Device(r.dev) /\ r.dev.phase = x.phase /\ (x.excused => r.dev.excused)
    BY <1>4 DEF Booted, Same
  <2> HIDE DEF x
  <2> QED BY <2>1 DEF Device
<1> HIDE DEF y
<1>7. FileInv' /\ \A e \in Devices : Opened(e)' = Opened(e) /\ HasFresh(e)' = HasFresh(e)
  BY <1>1, SameFiles DEF DriverInv
<1>8. dev' = [dev EXCEPT ![d] = y]
  BY <1>3 DEF y
<1>9. DevicesInv'
  BY <1>1, <1>5, <1>7, <1>8, StepOf DEF DriverInv
<1>10. NodeInv'
  BY <1>1, <1>6, <1>8, NodeStep DEF DriverInv, DevicesInv
<1> QED BY <1>1, <1>7, <1>9, <1>10 DEF DriverInv

\* What an open leaves of the device: one more file that has it open, or none.
AfterOpen(x, r, pm, n, fresh) ==
  /\ r.rc = 0 => DevInv(r.dev, pm, n + 1, TRUE) /\ ("pm" \in x.res \/ ~pm)
  /\ r.rc # 0 => DevInv(r.dev, pm, n, fresh)
  /\ r.dev.phase = x.phase /\ (x.excused => r.dev.excused)

\* An open that succeeds finds runtime PM enabled, where there is one
\* (xvp_open).
LEMMA OpenOutcome ==
  ASSUME NEW x, NEW b, b.pm \in BOOLEAN, NEW n \in Nat, NEW fresh, fresh => n > 0,
         DevInv(x, b.pm, n, fresh), "misc" \in x.res, NEW r \in OpenOutcomes(x, b)
  PROVE  AfterOpen(x, r, b.pm, n, fresh)
<1> DEFINE got == pm_runtime_get_sync(x, b)
<1>1. Device(x) /\ PhaseInv(x, b.pm, n, fresh) /\ CountInv(x, b.pm, n) /\ PowerInv(x, b.pm, fresh)
  BY DEF DevInv
<1>2. \A g \in got : (b.pm => Got(x, g)) /\ (~b.pm => g.rc = 0 /\ g.dev = x)
  BY <1>1, GetOutcome
<1>3. \/ r \in got /\ r.rc = 0
      \/ \E g \in got : g.rc < 0 /\ r = Result(-1, [g.dev EXCEPT !.lost = @ + 1, !.excused = TRUE])
      \/ \E g \in got : g.rc = 0 /\ r = Result(-1, pm_runtime_put_sync(g.dev, b))
  BY DEF OpenOutcomes
<1> HIDE DEF got
<1>4. ASSUME NEW g \in got, g.rc = 0
      PROVE  /\ DevInv(g.dev, b.pm, n + 1, TRUE) /\ ("pm" \in x.res \/ ~b.pm)
             /\ g.dev.phase = x.phase /\ (x.excused => g.dev.excused)
  <2>1. CASE b.pm
    <3>1. Got(x, g)
      BY <1>2, <2>1
    <3>2. DevInv(g.dev, b.pm, n + 1, TRUE)
      BY <1>4, <2>1, <3>1, GetKeeps
    <3> QED BY <1>4, <3>1, <3>2 DEF Got, Same
  <2>2. CASE ~b.pm
    <3>1. g.dev = x
      BY <1>2, <2>2
    <3>2. x.phase # "unbound"
      BY <1>1 DEF PhaseInv
    <3>3. PhaseInv(x, b.pm, n + 1, TRUE)
      BY <1>1, <3>2 DEF PhaseInv
    <3>4. CountInv(x, b.pm, n + 1)
      BY <1>1, <2>2 DEF CountInv
    <3>5. PowerInv(x, b.pm, TRUE)
      BY <1>1, <2>2 DEF PowerInv
    <3> QED BY <1>1, <2>2, <3>1, <3>3, <3>4, <3>5 DEF DevInv
  <2> QED BY <2>1, <2>2
<1>5. CASE r \in got /\ r.rc = 0
  BY <1>4, <1>5 DEF AfterOpen
<1>6. ASSUME NEW g \in got, g.rc < 0, r = Result(-1, [g.dev EXCEPT !.lost = @ + 1, !.excused = TRUE])
      PROVE  r.rc # 0 /\ DevInv(r.dev, b.pm, n, fresh) /\ r.dev.phase = x.phase /\ r.dev.excused
  <2> DEFINE y == [g.dev EXCEPT !.lost = @ + 1, !.excused = TRUE]
  <2>1. b.pm
    <3>1. ~(0 < 0)
      OBVIOUS
    <3> QED BY <1>2, <1>6, <3>1
  <2>2. Got(x, g)
    BY <1>2, <2>1
  <2>3. DevInv(y, b.pm, n, fresh)
    BY <1>6, <2>1, <2>2, LostKeeps
  <2>4. y.phase = x.phase /\ y.excused
    <3>1. Device(g.dev) /\ g.dev.phase = x.phase
      BY <2>2 DEF Got, Same
    <3> QED BY <3>1 DEF Device
  <2>5. r.rc = -1 /\ r.dev = y
    BY <1>6 DEF Result
  <2> HIDE DEF y
  <2>6. -1 # 0
    OBVIOUS
  <2> QED BY <2>3, <2>4, <2>5, <2>6
<1>7. ASSUME NEW g \in got, g.rc = 0, r = Result(-1, pm_runtime_put_sync(g.dev, b))
      PROVE  r.rc # 0 /\ DevInv(r.dev, b.pm, n, fresh) /\ r.dev.phase = x.phase /\ (x.excused => r.dev.excused)
  <2> DEFINE y == pm_runtime_put_sync(g.dev, b)
  <2>1. r.rc = -1 /\ r.dev = y
    BY <1>7 DEF Result
  <2>2. DevInv(g.dev, b.pm, n + 1, TRUE) /\ g.dev.phase = x.phase /\ (x.excused => g.dev.excused)
    BY <1>4, <1>7
  <2>3. (b.pm => Put(g.dev, y)) /\ (~b.pm => y = g.dev)
    BY <2>2, PutOutcome DEF DevInv
  <2> HIDE DEF y
  <2>4. DevInv(y, b.pm, n, fresh)
    BY <2>2, <2>3, PutKeeps
  <2>5. y.phase = g.dev.phase /\ (g.dev.excused => y.excused)
    BY <2>3 DEF Put, Same
  <2>6. -1 # 0
    OBVIOUS
  <2> QED BY <2>1, <2>2, <2>4, <2>5, <2>6
<1> QED BY <1>3, <1>5, <1>6, <1>7 DEF AfterOpen

\* xvp_open keeps the invariant, touches no other file and succeeds only while
\* runtime PM is enabled.
LEMMA OpenStep ==
  ASSUME DriverInv, NEW f \in Files, NEW d \in Devices, xvp_open(f, d)
  PROVE  DriverInv' /\ (file'[f].dev = d => "pm" \in dev[d].res \/ ~board[d].pm)
                    /\ \A g \in Files \ {f} : file'[g] = file[g]
<1> DEFINE x == dev[d]
           n == Cardinality(Opened(d))
<1>1. /\ file[f] = Closed /\ "misc" \in x.res /\ model' = model /\ nodeid' = nodeid
  BY DEF xvp_open
<1>2. /\ DevInv(x, board[d].pm, n, HasFresh(d)) /\ board[d].pm \in BOOLEAN /\ n \in Nat
  BY Of
<1>3. HasFresh(d) => n > 0
  <2>1. HasFresh(d) => Opened(d) # {}
    BY DEF HasFresh
  <2>2. n = 0 <=> Opened(d) = {}
    BY OpenedFinite
  <2>3. n # 0 => n > 0
    BY <1>2
  <2> QED BY <2>1, <2>2, <2>3
<1>4. PICK r \in OpenOutcomes(x, board[d]) :
        /\ dev' = [dev EXCEPT ![d] = r.dev]
        /\ file' = [file EXCEPT ![f] = IF r.rc = 0 THEN [dev |-> d, stale |-> FALSE] ELSE Closed]
  BY DEF xvp_open, Becomes
<1>5. /\ r.rc = 0 => DevInv(r.dev, board[d].pm, n + 1, TRUE) /\ ("pm" \in x.res \/ ~board[d].pm)
      /\ r.rc # 0 => DevInv(r.dev, board[d].pm, n, HasFresh(d))
      /\ r.dev.phase = x.phase /\ (x.excused => r.dev.excused)
  <2>1. AfterOpen(x, r, board[d].pm, n, HasFresh(d))
    BY <1>1, <1>2, <1>3, <1>4, OpenOutcome
  <2> QED BY <2>1 DEF AfterOpen
<1>6. NodeInv'
  BY <1>1, <1>4, <1>5, NodeStep DEF DriverInv, DevicesInv
<1>7. FileInv /\ d # "none"
  BY DriverAssumption DEF DriverInv
<1>8. CASE r.rc = 0
  <2>1. file' = [file EXCEPT ![f] = [dev |-> d, stale |-> FALSE]]
    BY <1>4, <1>8
  <2>2. FileInv' /\ file'[f].dev = d /\ ~file'[f].stale /\ \A g \in Files \ {f} : file'[g] = file[g]
    BY <1>7, <2>1 DEF FileInv
  <2>3. file[f].dev = "none"
    BY <1>1 DEF Closed
  <2>4. Opened(d)' = Opened(d) \cup {f} /\ f \notin Opened(d)
    BY <1>7, <2>2, <2>3 DEF Opened
  <2>5. Cardinality(Opened(d)') = n + 1
    BY <2>4, OpenedFinite, FS_AddElement
  <2>6. HasFresh(d)' = TRUE
    BY <2>2, <2>4 DEF HasFresh
  <2>7. \A e \in Devices \ {d} : Opened(e)' = Opened(e)
    BY <1>7, <2>2, <2>3, DriverAssumption DEF Opened
  <2>8. \A e \in Devices \ {d} : HasFresh(e)' = HasFresh(e)
    <3> SUFFICES ASSUME NEW e \in Devices \ {d} PROVE HasFresh(e)' = HasFresh(e)
      OBVIOUS
    <3>1. Opened(e)' = Opened(e) /\ f \notin Opened(e) /\ Opened(e) \subseteq Files
      BY <2>3, <2>7, DriverAssumption DEF Opened
    <3>2. \A g \in Opened(e) : file'[g] = file[g]
      BY <2>2, <3>1
    <3> QED BY <3>1, <3>2 DEF HasFresh
  <2>9. DevInv(r.dev, board[d].pm, Cardinality(Opened(d)'), HasFresh(d)')
    BY <1>5, <1>8, <2>5, <2>6
  <2>10. DevicesInv'
    BY <1>1, <1>4, <2>7, <2>8, <2>9, StepOf DEF DriverInv
  <2> QED BY <1>1, <1>5, <1>6, <1>8, <2>2, <2>10 DEF DriverInv
<1>9. CASE r.rc # 0
  <2>1. file' = [file EXCEPT ![f] = Closed]
    BY <1>4, <1>9
  <2>2. file' = file
    BY <1>1, <1>7, <2>1 DEF FileInv
  <2>3. FileInv' /\ \A e \in Devices : Opened(e)' = Opened(e) /\ HasFresh(e)' = HasFresh(e)
    BY <1>7, <2>2, SameFiles
  <2>4. DevInv(r.dev, board[d].pm, Cardinality(Opened(d)'), HasFresh(d)')
    BY <1>5, <1>9, <2>3
  <2>5. DevicesInv'
    BY <1>1, <1>4, <2>3, <2>4, StepOf DEF DriverInv
  <2>6. file'[f].dev # d
    BY <1>1, <1>7, <2>2 DEF Closed
  <2> QED BY <1>1, <1>6, <2>2, <2>3, <2>5, <2>6 DEF DriverInv
<1> QED BY <1>8, <1>9

\* xvp_close keeps the invariant.
LEMMA CloseStep ==
  ASSUME DriverInv, NEW f \in Files, xvp_close(f)
  PROVE  DriverInv' /\ file' = [file EXCEPT ![f] = Closed]
<1>0. PICK d : d = file[f].dev
  OBVIOUS
<1> DEFINE x == dev[d]
           n == Cardinality(Opened(d)')
<1>1. /\ file[f] # Closed /\ file' = [file EXCEPT ![f] = Closed] /\ model' = model /\ nodeid' = nodeid
      /\ \/ Becomes(d, pm_runtime_put_sync(x, board[d]))
         \/ board[d].pm /\ Becomes(d, [x EXCEPT !.lost = @ + 1, !.excused = TRUE])
  BY <1>0 DEF xvp_close
<1>2. FileInv /\ d \in Devices
  BY <1>0, <1>1 DEF DriverInv, FileInv
<1>3. /\ file'[f].dev = "none" /\ \A g \in Files \ {f} : file'[g] = file[g]
  BY <1>1, <1>2 DEF FileInv, Closed
<1>4. FileInv'
  BY <1>1, <1>2 DEF FileInv, Closed
<1>5. Opened(d)' = Opened(d) \ {f} /\ f \in Opened(d)
  BY <1>0, <1>2, <1>3, DriverAssumption DEF Opened
<1>6. n \in Nat /\ Cardinality(Opened(d)) = n + 1 /\ (n = 0 <=> Opened(d)' = {})
  <2>1. IsFiniteSet(Opened(d)) /\ Cardinality(Opened(d)) \in Nat
    BY OpenedFinite
  <2>2. IsFiniteSet(Opened(d)') /\ n = Cardinality(Opened(d)) - 1
    BY <1>5, <2>1, FS_RemoveElement
  <2>3. n \in Nat /\ (n = 0 <=> Opened(d)' = {})
    BY <2>2, FS_CardinalityType, FS_EmptySet
  <2> HIDE DEF n
  <2> QED BY <2>1, <2>2, <2>3
<1>7. HasFresh(d)' => HasFresh(d) /\ n > 0
  <2>1. \A g \in Opened(d)' : file'[g] = file[g] /\ g \in Opened(d)
    BY <1>3, <1>5 DEF Opened
  <2>2. HasFresh(d)' => HasFresh(d) /\ Opened(d)' # {}
    BY <2>1 DEF HasFresh
  <2>3. n # 0 => n > 0
    BY <1>6
  <2> QED BY <1>6, <2>2, <2>3
<1>8. \A e \in Devices \ {d} : Opened(e)' = Opened(e) /\ HasFresh(e)' = HasFresh(e)
  <2> SUFFICES ASSUME NEW e \in Devices \ {d} PROVE Opened(e)' = Opened(e) /\ HasFresh(e)' = HasFresh(e)
    OBVIOUS
  <2>1. Opened(e)' = Opened(e) /\ f \notin Opened(e) /\ Opened(e) \subseteq Files
    BY <1>0, <1>2, <1>3, DriverAssumption DEF Opened
  <2>2. \A g \in Opened(e) : file'[g] = file[g]
    BY <1>3, <2>1
  <2> QED BY <2>1, <2>2 DEF HasFresh
<1>9. DevInv(x, board[d].pm, n + 1, HasFresh(d)) /\ board[d].pm \in BOOLEAN
  BY <1>2, <1>6, Of
<1>10. PICK y : /\ dev' = [dev EXCEPT ![d] = y] /\ DevInv(y, board[d].pm, n, HasFresh(d)')
                /\ y.phase = x.phase /\ (x.excused => y.excused)
  <2>1. CASE Becomes(d, pm_runtime_put_sync(x, board[d]))
    <3> DEFINE y == pm_runtime_put_sync(x, board[d])
    <3>1. (board[d].pm => Put(x, y)) /\ (~board[d].pm => y = x)
      BY <1>9, PutOutcome DEF DevInv
    <3>2. dev' = [dev EXCEPT ![d] = y]
      BY <2>1 DEF Becomes
    <3> HIDE DEF y
    <3>3. DevInv(y, board[d].pm, n, HasFresh(d)')
      <4> HIDE DEF n, x
      <4> QED BY <1>6, <1>7, <1>9, <3>1, PutKeeps
    <3>4. y.phase = x.phase /\ (x.excused => y.excused)
      BY <1>9, <3>1 DEF Put, Same
    <3> QED BY <3>2, <3>3, <3>4
  <2>2. CASE board[d].pm /\ Becomes(d, [x EXCEPT !.lost = @ + 1, !.excused = TRUE])
    <3> DEFINE y == [x EXCEPT !.lost = @ + 1, !.excused = TRUE]
    <3>1. dev' = [dev EXCEPT ![d] = y]
      BY <2>2 DEF Becomes
    <3>2. DevInv(y, board[d].pm, n, HasFresh(d)')
      <4> HIDE DEF n, x
      <4> QED BY <1>6, <1>7, <1>9, <2>2, CloseLosesKeeps
    <3>3. y.phase = x.phase /\ y.excused
      <4>1. Device(x)
        BY <1>9 DEF DevInv
      <4> HIDE DEF x
      <4> QED BY <4>1 DEF Device
    <3> HIDE DEF y
    <3> QED BY <3>1, <3>2, <3>3
  <2> QED BY <1>1, <2>1, <2>2
<1>11. DevicesInv'
  BY <1>1, <1>2, <1>8, <1>10, StepOf DEF DriverInv
<1>12. NodeInv'
  BY <1>1, <1>2, <1>10, NodeStep DEF DriverInv, DevicesInv
<1> QED BY <1>1, <1>4, <1>11, <1>12 DEF DriverInv

\* The first half of xrp_deinit keeps the invariant.
LEMMA DeinitSuspendStep ==
  ASSUME DriverInv, NEW d \in Devices, xrp_deinit_suspend(d)
  PROVE  DriverInv'
<1> DEFINE x == dev[d]
           open == Opened(d) # {}
           y == Suspended(x, board[d], open)
<1>1. /\ x.phase = "bound" /\ model' = model /\ file' = file /\ nodeid' = nodeid
      /\ dev' = [dev EXCEPT ![d] = y]
  BY DEF xrp_deinit_suspend, Suspended
<1>2. /\ DevInv(x, board[d].pm, Cardinality(Opened(d)), HasFresh(d))
      /\ board[d].pm \in BOOLEAN /\ Cardinality(Opened(d)) \in Nat
  BY Of
<1>3. open \in BOOLEAN
  OBVIOUS
<1>4. /\ DevInv(y, board[d].pm, Cardinality(Opened(d)), HasFresh(d))
      /\ y.phase = "removing" /\ (x.excused => y.excused)
  <2> HIDE DEF open
  <2> QED BY <1>1, <1>2, <1>3, DeinitSuspendKeeps
<1> HIDE DEF y
<1>5. FileInv' /\ \A e \in Devices : Opened(e)' = Opened(e) /\ HasFresh(e)' = HasFresh(e)
  BY <1>1, SameFiles DEF DriverInv
<1>6. DevicesInv'
  BY <1>1, <1>4, <1>5, StepOf DEF DriverInv
<1>7. x.phase # "unbound" /\ y.phase # "unbound"
  BY <1>1, <1>4
<1>8. NodeInv'
  BY <1>1, <1>4, <1>7, NodeStep DEF DriverInv, DevicesInv
<1> QED BY <1>1, <1>5, <1>6, <1>8 DEF DriverInv

\* The second half of xrp_deinit keeps the invariant and closes no file.
LEMMA DeinitFreeStep ==
  ASSUME DriverInv, NEW d \in Devices, xrp_deinit_free(d)
  PROVE  DriverInv' /\ \A f \in Files : file'[f].dev = file[f].dev
<1> DEFINE x == dev[d]
           n == Cardinality(Opened(d))
           y == [Zeroed(x) EXCEPT !.phase = "unbound", !.rpm = "suspended",
                                  !.handles = IF x.firmware = "live" THEN @ - 1 ELSE @,
                                  !.excused = @ \/ x.firmware = "freed" \/ n # 0]
<1>1. (Opened(d) # {}) = (n # 0)
  BY OpenedFinite
<1>2. /\ x.phase = "removing" /\ model' = model /\ nodeid' = nodeid - 1
      /\ file' = [f \in Files |-> IF file[f].dev = d THEN [file[f] EXCEPT !.stale = TRUE] ELSE file[f]]
      /\ dev' = [dev EXCEPT ![d] = y]
  <2> HIDE DEF n
  <2> QED BY <1>1 DEF xrp_deinit_free
<1>3. /\ DevInv(x, board[d].pm, n, HasFresh(d)) /\ board[d].pm \in BOOLEAN /\ n \in Nat
  BY Of
<1>4. DevInv(y, board[d].pm, n, FALSE)
  <2> HIDE DEF n, x
  <2> QED BY <1>2, <1>3, DeinitFreeKeeps
<1>5. y.phase = "unbound" /\ (x.excused => y.excused)
  <2> DEFINE q == Zeroed(x)
  <2>1. Device(q) /\ q.excused = x.excused
    BY <1>3, ZeroedDevice DEF DevInv
  <2>2. y = [q EXCEPT !.phase = "unbound", !.rpm = "suspended",
                      !.handles = IF x.firmware = "live" THEN @ - 1 ELSE @,
                      !.excused = @ \/ x.firmware = "freed" \/ n # 0]
    OBVIOUS
  <2> HIDE DEF q, n, x, y
  <2> QED BY <2>1, <2>2 DEF Device
<1> HIDE DEF y
<1>6. FileInv /\ d # "none"
  BY DriverAssumption DEF DriverInv
<1>7. /\ FileInv' /\ \A f \in Files : file'[f].dev = file[f].dev /\ (file[f].dev # d => file'[f] = file[f])
      /\ \A f \in Files : file[f].dev = d => file'[f].stale
  <2>1. ASSUME NEW f \in Files
        PROVE  /\ file'[f] \in [dev : Devices \cup {"none"}, stale : BOOLEAN] /\ file'[f].dev = file[f].dev
               /\ file[f].dev # d => file'[f] = file[f]
               /\ file[f].dev = d => file'[f].stale
    <3>1. file[f] \in [dev : Devices \cup {"none"}, stale : BOOLEAN]
      BY <1>6 DEF FileInv
    <3>2. CASE file[f].dev = d
      <4>1. file'[f] = [file[f] EXCEPT !.stale = TRUE]
        BY <1>2, <3>2
      <4> QED BY <3>1, <3>2, <4>1
    <3>3. CASE file[f].dev # d
      BY <1>2, <3>1, <3>3
    <3> QED BY <3>2, <3>3
  <2>2. file' \in [Files -> [dev : Devices \cup {"none"}, stale : BOOLEAN]]
    <3>1. file' = [f \in Files |-> file'[f]]
      BY <1>2
    <3> QED BY <2>1, <3>1
  <2>3. \A f \in Files : file'[f].dev = "none" => file'[f] = Closed
    BY <1>6, <2>1 DEF FileInv
  <2> QED BY <2>1, <2>2, <2>3 DEF FileInv, Closed
<1>8. \A e \in Devices : Opened(e)' = Opened(e)
  BY <1>7 DEF Opened
<1>9. ~HasFresh(d)' /\ \A e \in Devices \ {d} : HasFresh(e)' = HasFresh(e)
  <2>1. \A f \in Opened(d) : file'[f].stale
    BY <1>7 DEF Opened
  <2>2. \A e \in Devices \ {d} : \A f \in Opened(e) : file'[f] = file[f]
    BY <1>7 DEF Opened
  <2> QED BY <1>8, <2>1, <2>2 DEF HasFresh
<1>10. DevInv(y, board[d].pm, Cardinality(Opened(d)'), HasFresh(d)')
  <2>1. HasFresh(d)' = FALSE
    BY <1>9 DEF HasFresh
  <2> QED BY <1>4, <1>8, <2>1
<1>11. DevicesInv'
  BY <1>2, <1>8, <1>9, <1>10, StepOf DEF DriverInv
<1>12. x.phase # "unbound"
  BY <1>2
<1>13. NodeInv'
  BY <1>2, <1>5, <1>12, NodeStep DEF DriverInv, DevicesInv
<1> QED BY <1>2, <1>7, <1>11, <1>13 DEF DriverInv

----------------------------------------------------------------------------
(* The invariant, and what follows from it                                 *)

\* Before any probe no device is bound and no file is open.
LEMMA DriverInvInit == Init => DriverInv
<1> SUFFICES ASSUME Init PROVE DriverInv
  OBVIOUS
<1>1. model \in Machines /\ nodeid = 0 /\ dev = [d \in Devices |-> Fresh] /\ file = [f \in Files |-> Closed]
  BY DEF Init
<1>2. FileInv
  BY <1>1 DEF FileInv, Closed
<1>3. \A d \in Devices : Opened(d) = {} /\ ~HasFresh(d)
  BY <1>1, DriverAssumption DEF Opened, HasFresh, Closed
<1>4. /\ Device(Fresh) /\ Fresh.phase = "unbound" /\ Fresh.res = {} /\ Fresh.firmware = "null"
      /\ Fresh.usage = 0 /\ Fresh.rpm = "suspended" /\ Fresh.error = FALSE /\ Fresh.enabled = FALSE
      /\ Fresh.running = FALSE /\ Fresh.handles = 0 /\ Fresh.lost = 0 /\ Fresh.excused = FALSE
  BY DEF Fresh, Device, Phases
<1>5. ASSUME NEW d \in Devices
      PROVE  DevInv(Fresh, board[d].pm, 0, FALSE)
  <2> HIDE DEF Fresh
  <2>1. PhaseInv(Fresh, board[d].pm, 0, FALSE)
    BY <1>4 DEF PhaseInv, Live
  <2>2. CountInv(Fresh, board[d].pm, 0)
    BY <1>4 DEF CountInv, Held
  <2>3. PowerInv(Fresh, board[d].pm, FALSE)
    BY <1>4 DEF PowerInv, Live
  <2> QED BY <1>4, <2>1, <2>2, <2>3 DEF DevInv
<1>6. DevicesInv
  <2>1. Cardinality({}) = 0
    BY FS_EmptySet
  <2>2. ASSUME NEW d \in Devices
        PROVE  DevInv(dev[d], board[d].pm, Cardinality(Opened(d)), HasFresh(d))
    <3>1. dev[d] = Fresh /\ Cardinality(Opened(d)) = 0 /\ HasFresh(d) = FALSE
      BY <1>1, <1>3, <2>1 DEF HasFresh
    <3> QED BY <1>5, <3>1
  <2> QED BY <1>1, <2>2 DEF DevicesInv
<1>7. NodeInv
  <2>1. BoundDevices = {}
    BY <1>1, <1>4 DEF BoundDevices
  <2> QED BY <1>1, <2>1, FS_EmptySet DEF NodeInv
<1> QED BY <1>1, <1>2, <1>6, <1>7 DEF DriverInv

\* Every operation of the driver keeps the invariant.
LEMMA DriverInvStep == DriverInv /\ [Next]_vars => DriverInv'
<1> SUFFICES ASSUME DriverInv, [Next]_vars PROVE DriverInv'
  OBVIOUS
<1>1. ASSUME NEW d \in Devices, xrp_probe(d) PROVE DriverInv'
  BY <1>1, ProbeStep
<1>2. ASSUME NEW d \in Devices, NEW f \in Files, xvp_open(f, d) PROVE DriverInv'
  BY <1>2, OpenStep
<1>3. ASSUME NEW d \in Devices, xrp_probe_acpi(d) PROVE DriverInv'
  BY <1>3, ProbeAcpiStep
<1>4. ASSUME NEW d \in Devices, Reboot(d) PROVE DriverInv'
  BY <1>4, RebootStep
<1>5. ASSUME NEW d \in Devices, xrp_deinit_suspend(d) PROVE DriverInv'
  BY <1>5, DeinitSuspendStep
<1>6. ASSUME NEW d \in Devices, xrp_deinit_free(d) PROVE DriverInv'
  BY <1>6, DeinitFreeStep
<1>7. ASSUME NEW f \in Files, xvp_close(f) PROVE DriverInv'
  BY <1>7, CloseStep
<1>8. CASE UNCHANGED vars
  <2>1. model' = model /\ dev' = dev /\ file' = file /\ nodeid' = nodeid
    BY <1>8 DEF vars
  <2> QED BY <2>1 DEF DriverInv, FileInv, DevicesInv, NodeInv, BoundDevices, HasFresh, Opened, board
<1> QED BY <1>1, <1>2, <1>3, <1>4, <1>5, <1>6, <1>7, <1>8 DEF Next

\* The invariant of the driver: each device fits its phase, its uses and its
\* power, and node numbers count the bound devices.
THEOREM DriverInvariant == Spec => []DriverInv
  BY DriverInvInit, DriverInvStep, PTL DEF Spec

\* Uses of a device are the files that have it open and the uses lost by opens
\* and closes that fail (xvp_open, xvp_close).
THEOREM UsageStaysCounted == Spec => []UsageCounted
<1>1. DriverInv => UsageCounted
  BY Of DEF DevInv, CountInv, UsageCounted
<1> QED BY <1>1, DriverInvariant, PTL

\* A bound device is powered exactly while it is used, and one that is off
\* does not run again (xrp_runtime_resume, xrp_runtime_suspend,
\* xrp_boot_firmware).
THEOREM PowerStaysWithUse == Spec => []PowerFollowsUse
<1>1. DriverInv => PowerFollowsUse
  <2> SUFFICES ASSUME DriverInv, NEW d \in Devices, Live(dev[d])
               PROVE  LET x == dev[d]
                      IN  /\ x.off => ~x.running
                          /\ board[d].pm /\ ~x.off =>
                               /\ x.enabled <=> x.rpm = "active"
                               /\ (\E f \in Opened(d) : ~file[f].stale) => x.enabled
                               /\ x.usage = 0 => ~x.enabled /\ (x.running => x.excused)
                          /\ ~board[d].pm /\ ~x.off => x.enabled
    BY DEF PowerFollowsUse, Live
  <2> DEFINE x == dev[d]
  <2>1. PowerInv(x, board[d].pm, HasFresh(d)) /\ Device(x)
    BY Of DEF DevInv
  <2>2. x.rpm = "active" \/ x.rpm = "suspended"
    BY <2>1 DEF Device
  <2> HIDE DEF x
  <2>3. /\ x.off => ~x.running
        /\ board[d].pm /\ ~x.off =>
             /\ x.enabled <=> x.rpm = "active"
             /\ HasFresh(d) => x.enabled
             /\ x.usage = 0 => ~x.enabled /\ (x.running => x.excused)
        /\ ~board[d].pm /\ ~x.off => x.enabled
    <3>1. Live(x)
      BY DEF x
    <3> QED BY <2>1, <2>2, <3>1 DEF PowerInv
  <2> QED BY <2>3 DEF HasFresh, x
<1> QED BY <1>1, DriverInvariant, PTL

\* Memory, firmware, node, power and uses are given back when a device is
\* unbound, on every path of probing and removal that is not excused, and node
\* numbers start again (xrp_init_common, xrp_deinit).
THEOREM UnboundStaysClean == Spec => []UnboundIsClean
<1>1. DriverInv => UnboundIsClean
  <2> SUFFICES ASSUME DriverInv PROVE UnboundIsClean
    OBVIOUS
  <2>1. ASSUME NEW d \in Devices, dev[d].phase = "unbound", ~dev[d].excused
        PROVE  LET x == dev[d]
               IN  x.res = {} /\ x.handles = 0 /\ ~x.enabled /\ ~x.running /\ x.usage = 0
    <3> DEFINE x == dev[d]
               n == Cardinality(Opened(d))
               pm == board[d].pm
    <3>1. /\ Device(x) /\ PhaseInv(x, pm, n, HasFresh(d)) /\ CountInv(x, pm, n)
          /\ PowerInv(x, pm, HasFresh(d)) /\ pm \in BOOLEAN /\ n \in Nat
      BY Of DEF DevInv
    <3>2. x.phase = "unbound" /\ ~x.excused
      BY <2>1
    <3> HIDE DEF x, n, pm
    <3>3. x.res = {} /\ n = 0
      BY <3>1, <3>2 DEF PhaseInv
    <3>4. x.handles = 0 /\ x.lost = 0
      BY <3>1, <3>2 DEF CountInv, Held
    <3>5. ~x.enabled /\ ~x.running
      BY <3>1, <3>2 DEF PowerInv
    <3>6. x.usage = 0
      BY <3>1, <3>3, <3>4 DEF CountInv
    <3> QED BY <3>3, <3>4, <3>5, <3>6 DEF x
  <2>2. (\A d \in Devices : ~dev[d].excused) =>
          nodeid = Cardinality({d \in Devices : dev[d].phase # "unbound"})
    BY DEF DriverInv, NodeInv, BoundDevices
  <2> QED BY <2>1, <2>2 DEF UnboundIsClean
<1> QED BY <1>1, DriverInvariant, PTL

\* With runtime PM an open fails once xrp_deinit has disabled it, though the
\* node is still there (xvp_open, xrp_deinit).
THEOREM RemovalStaysClosed == Spec => NoOpenDuringRemoval
<1> DEFINE Keeps == \A f \in Files, d \in Devices :
                       board[d].pm /\ dev[d].phase = "removing" /\ file'[f].dev = d => file[f].dev = d
<1>1. DriverInv /\ [Next]_vars => [Keeps]_vars
  <2> SUFFICES ASSUME DriverInv, [Next]_vars, NEW f \in Files, NEW d \in Devices,
                      board[d].pm, dev[d].phase = "removing", file'[f].dev = d
               PROVE  file[f].dev = d
    OBVIOUS
  <2>1. "pm" \notin dev[d].res
    BY Of DEF DevInv, PhaseInv
  <2>2. CASE file' = file
    BY <2>2
  <2>3. ASSUME NEW g \in Files, NEW e \in Devices, xvp_open(g, e) PROVE file[f].dev = d
    <3>1. CASE g = f
      <4>1. file'[f].dev = e \/ file'[f].dev = "none"
        <5>1. PICK r : file' = [file EXCEPT ![f] = IF r = 0 THEN [dev |-> e, stale |-> FALSE] ELSE Closed]
          BY <2>3, <3>1 DEF xvp_open
        <5>2. file \in [Files -> [dev : Devices \cup {"none"}, stale : BOOLEAN]]
          BY DEF DriverInv, FileInv
        <5> QED BY <5>1, <5>2 DEF Closed
      <4>2. e = d
        BY <4>1, DriverAssumption
      <4> QED BY <2>1, <2>3, <3>1, <4>2, OpenStep
    <3>2. CASE g # f
      <4>1. file'[f] = file[f]
        BY <2>3, <3>2, OpenStep
      <4> QED BY <4>1
    <3> QED BY <3>1, <3>2
  <2>4. ASSUME NEW e \in Devices, xrp_deinit_free(e) PROVE file[f].dev = d
    <3>1. file'[f].dev = file[f].dev
      BY <2>4, DeinitFreeStep
    <3> QED BY <3>1
  <2>5. ASSUME NEW g \in Files, xvp_close(g) PROVE file[f].dev = d
    <3>1. file' = [file EXCEPT ![g] = Closed]
      BY <2>5 DEF xvp_close
    <3>2. file \in [Files -> [dev : Devices \cup {"none"}, stale : BOOLEAN]]
      BY DEF DriverInv, FileInv
    <3>3. Closed.dev = "none"
      BY DEF Closed
    <3> QED BY <3>1, <3>2, <3>3, DriverAssumption
  <2>6. ASSUME NEW e \in Devices, xrp_probe(e) \/ xrp_probe_acpi(e) \/ Reboot(e) \/ xrp_deinit_suspend(e)
        PROVE  file' = file
    BY <2>6 DEF xrp_probe, xrp_probe_acpi, Reboot, xrp_deinit_suspend
  <2>7. CASE UNCHANGED vars
    BY <2>2, <2>7 DEF vars
  <2> QED BY <2>2, <2>3, <2>4, <2>5, <2>6, <2>7 DEF Next
<1> QED BY <1>1, DriverInvariant, PTL DEF Spec, NoOpenDuringRemoval

=============================================================================
