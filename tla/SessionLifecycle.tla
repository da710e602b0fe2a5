-------------------------- MODULE SessionLifecycle --------------------------
(***************************************************************************)
(* Who holds a UART (sw_core/session_manager.py): attach workers, the RPCs *)
(* device.attach, device.release, session.clear, session.bind and          *)
(* session.attach, hotplug, a dying bridge, flashing and shutdown open,    *)
(* hand over and drain the same ports.  A section under _lock is one step; *)
(* opening, probing and draining happen between the steps, and so does     *)
(* closing a port whose operation a section has taken off the tables.      *)
(*                                                                         *)
(* An _AttachOp and the bridge that takes over its port share a number.    *)
(* A drain job is <<kind, bridge>>; 0 is no op and no bridge.              *)
(***************************************************************************)
EXTENDS Naturals, Sequences, FiniteSets

CONSTANTS
  Device, Session,
  Home,        \* Home[s]: the device a session is configured for
  NeedsLogin,  \* sessions whose attach logs in (ensure_ready)
  None,
  Mixes,       \* bound: sets of RPCs that meet in one behaviour, and "plug" when
               \*    devices come and go and bridges die in it
  MaxOps,      \* bound: attach operations
  MaxCalls,    \* bound: RPCs
  MaxPlugs     \* bound: hotplug events and bridges that die

ASSUME LifecycleAssumption ==
  /\ Home \in [Session -> Device] /\ NeedsLogin \subseteq Session
  /\ None \notin Device \cup Session
  /\ Mixes \subseteq SUBSET {"attach_device", "release", "clear", "bind",
                             "attach_session", "flash", "stop", "plug"}
  /\ MaxOps \in Nat /\ MaxCalls \in Nat /\ MaxPlugs \in Nat

VARIABLES
  path,      \* path[d]: real_path in _devices, 0 when absent
  opening,   \* _attach_ops
  preopened, \* _preopened_ports
  active,    \* _active_attach_ops
  attaching, \* _attach_bridges
  drain,     \* _draining_by_ids
  released,  \* _released_by_ids
  inflight,  \* _attach_inflight
  ops,       \* operations made so far
  info,      \* info[k]: session, device, path and generation of op k
  cancelled, \* ops with cancelled set
  relreq,    \* ops with a release_request
  done,      \* ops with done set
  handle,    \* handle[k]: its port: "none", "opening", "open", "closed", or
             \*    "lost": open, and nobody has it
  started,   \* bridges whose start() has returned
  closing,   \* bridges told to drain
  st,        \* a session's state
  dev,       \* its device_by_id
  gen,       \* its bridge_generation
  br,        \* its bridge
  pend,      \* its _pending_drain
  target,    \* target_by_id of its bind job
  flag,      \* the gate's "recovering" flag
  critical,  \* _flash_critical_coms
  prev,      \* flash_prev_state
  wpc,       \* the attach worker of a device: where it is
  ws,        \* its session
  wop,       \* its op
  wgen,      \* gen_before
  wpath,     \* real_path
  apc,       \* a session's device.attach call: where it is, its device
  aop,       \* its op
  agen,      \* the generation it read
  apath,     \* the path it read
  rw,        \* what a session's device.release call waits for
  bw,        \* a session.bind call: where it is, the op it waits for or
             \*    closes, target
  spawns,    \* calls of _spawn_attach under way
  watch,     \* what update_devices has left to do: its next step, the
             \*    device, and the op it has to finish before
  down,      \* the stage of shutdown_drain
  stalled,   \* it has given up on something
  sops,      \* ops it waits for
  sjobs,     \* drain jobs it waits for
  promised,  \* history: devices released with ok and not asked back
  mix,       \* the RPCs of this behaviour
  calls,     \* RPCs so far
  plugs      \* hotplug events and dying bridges so far

tabs   == <<opening, preopened, active>>
made   == <<ops, info>>
asked  == <<cancelled, relreq>>
bridge == <<started, closing>>
ident  == <<dev, gen>>
job    == <<pend, drain>>
flash  == <<critical, prev>>
wloc   == <<ws, wop, wgen, wpath>>
aloc   == <<aop, agen, apath>>
shut   == <<down, stalled, sops, sjobs>>
bounds == <<calls, plugs>>
plant  == <<path, watch>>
held   == <<handle, done, tabs>>
seen   == <<st, flag, br, released>>
vars   == <<plant, held, attaching, job, inflight, made, asked, bridge, seen,
            ident, target, flash, wpc, wloc, apc, aloc, rw, bw, spawns, shut,
            promised, mix, bounds>>

Op == 1..MaxOps
NoJob == <<"none", 0>>
Unbound == <<"idle", 0, None>>
NoWatch == <<"idle", None, 0>>

Init ==
  /\ mix \in Mixes
  /\ path \in [Device -> {0, 1}]
  /\ opening = [d \in Device |-> 0] /\ preopened = opening
  /\ active = opening /\ attaching = opening
  /\ drain = [d \in Device |-> NoJob] /\ released = {} /\ inflight = {}
  /\ ops = 0 /\ info = <<>> /\ cancelled = {} /\ relreq = {} /\ done = {}
  /\ handle = [k \in Op |-> "none"] /\ started = {} /\ closing = {}
  /\ st = [s \in Session |-> "DETACHED"] /\ dev = Home
  /\ gen = [s \in Session |-> 0] /\ br = gen
  /\ pend = [s \in Session |-> NoJob] /\ target = Home
  /\ flag = [s \in Session |-> FALSE] /\ critical = {} /\ prev = st
  /\ wpc = [d \in Device |-> "none"] /\ ws = [d \in Device |-> None]
  /\ wop = opening /\ wgen = opening /\ wpath = opening
  /\ apc = [s \in Session |-> <<"idle", None>>] /\ aop = gen /\ agen = gen /\ apath = gen
  /\ rw = [s \in Session |-> NoJob] /\ bw = [s \in Session |-> Unbound]
  /\ spawns = {d \in Device : path[d] # 0} /\ watch = NoWatch
  /\ down = "no" /\ stalled = FALSE /\ sops = {} /\ sjobs = {}
  /\ promised = {} /\ calls = 0 /\ plugs = 0

---------------------------------------------------------------------------
(* What the sections share *)

Shutting == down # "no"
Bound(d) == {s \in Session : dev[s] = d}
FlashBusy(s) == st[s] = "FLASHING" \/ s \in critical
Receipt(k) == k \in closing \cap started /\ handle[k] # "open"
Call(r) == r \in mix /\ calls < MaxCalls /\ calls' = calls + 1
Plugs == "plug" \in mix /\ plugs < MaxPlugs
Set(f, x, v) == [f EXCEPT ![x] = v]
Without(table, k) == [d \in Device |-> IF table[d] = k THEN 0 ELSE table[d]]

(* A new _AttachOp, entered in _attach_ops; its port is opened next. *)
NewOp(d, s) ==
  /\ ops < MaxOps
  /\ ops' = ops + 1
  /\ info' = Append(info, [s |-> s, d |-> d, path |-> path[d], gen |-> gen[s]])
  /\ opening' = Set(opening, d, ops + 1)
  /\ handle' = Set(handle, ops + 1, "opening")

(* Mutant: a release that came is forgotten. *)
FinishOpUnreleased(k, st0) ==
  IF k = 0 THEN st' = st0 /\ UNCHANGED <<held, flag, br, released>> ELSE
  /\ opening' = Without(opening, k) /\ preopened' = Without(preopened, k)
  /\ active' = Without(active, k) /\ done' = done \cup {k}
  /\ handle' = IF k \in done THEN handle ELSE Set(handle, k, "closed")
  /\ flag' = IF k \in relreq THEN Set(flag, info[k].s, FALSE) ELSE flag
  /\ st' = st0 /\ UNCHANGED <<br, released>>

(* _finish_attach_op, in a section that made the states st0: the port is   *)
(* closed unless a bridge has it, the op leaves the tables, and a release  *)
(* that came for it takes effect.                                          *)
FinishOp(k, st0) ==
  IF k = 0 THEN st' = st0 /\ UNCHANGED <<held, flag, br, released>> ELSE
  LET s    == info[k].s
      rel  == k \in relreq
      stop == rel /\ st0[s] # "RELEASED"
  IN /\ opening' = Without(opening, k) /\ preopened' = Without(preopened, k)
     /\ active' = Without(active, k)
     /\ done' = done \cup {k}
     /\ handle' = [j \in Op |-> IF (j = k /\ k \notin done) \/ (stop /\ j = br[s])
                                THEN "closed" ELSE handle[j]]
     /\ st' = IF rel THEN Set(st0, s, "RELEASED") ELSE st0
     /\ br' = IF stop THEN Set(br, s, 0) ELSE br
     /\ flag' = IF stop THEN Set(flag, s, FALSE) ELSE flag
     /\ released' = IF rel THEN released \cup {info[k].d} ELSE released

(* _begin_drain_locked for bridge b of a session without a pending drain. *)
BeginDrain(s, kind, b) ==
  /\ pend' = Set(pend, s, <<kind, b>>)
  /\ drain' = Set(drain, dev[s], <<kind, b>>)
  /\ st' = IF kind = "shutdown" THEN st ELSE Set(st, s, "RECOVERING")
  /\ flag' = Set(flag, s, TRUE)
  /\ released' = IF kind = "release" THEN released \cup {dev[s]} ELSE released
  /\ closing' = closing \cup {b}

(* _detach_session_locked of a session without a bridge. *)
Detach(s) == st' = Set(st, s, "DETACHED") /\ flag' = Set(flag, s, FALSE)

(* _begin_attach_bridge_stop_locked: the by-id barrier around a bridge     *)
(* that no session has yet.                                                *)
BeginCleanup(d, b) ==
  /\ drain' = Set(drain, d, <<"cleanup", b>>)
  /\ closing' = closing \cup {b}

(* _revert_pre_marked_attaching_locked *)
Reverted(d) == [s \in Session |->
  IF dev[s] = d /\ st[s] = "ATTACHING" /\ br[s] = 0 THEN "DETACHED" ELSE st[s]]

---------------------------------------------------------------------------
(* Attach workers *)

(* _spawn_attach *)
Spawn(d) ==
  /\ d \in spawns /\ spawns' = spawns \ {d}
  /\ IF Shutting \/ d \in released \/ drain[d] # NoJob \/ d \in inflight
     THEN /\ st' = IF Shutting /\ d \notin inflight THEN Reverted(d) ELSE st
          /\ UNCHANGED <<inflight, wpc>>
     ELSE /\ inflight' = inflight \cup {d} /\ wpc' = Set(wpc, d, "look")
          /\ UNCHANGED st
  /\ UNCHANGED <<plant, attaching, released, made, asked, held, bridge,
                ident, br, job, target, flag, flash, wloc, apc, aloc, rw, bw, shut,
                promised, mix, bounds>>

At(d, l) == wpc[d] = l
Go(d, l) == wpc' = Set(wpc, d, l)

(* The first section of _attach_by_id: give up, or take the port that was  *)
(* opened for this device and find a session, if need be one whose device  *)
(* is gone.                                                                *)
LookStops(d) ==
  /\ At(d, "look")
  /\ Shutting \/ drain[d] # NoJob \/ \E s \in Bound(d) : br[s] # 0
  /\ st' = IF Shutting THEN Reverted(d) ELSE st
  /\ Go(d, "exit")
  /\ UNCHANGED <<plant, attaching, released, inflight, made, asked, held,
                bridge, ident, br, job, target, flag, flash, wloc, apc, aloc, rw, bw,
                spawns, shut, promised, mix, bounds>>

Look(d) ==
  /\ At(d, "look")
  /\ ~Shutting /\ drain[d] = NoJob /\ \A s \in Bound(d) : br[s] = 0
  /\ \E s \in IF Bound(d) # {} THEN Bound(d)
              ELSE {u \in Session : st[u] = "DETACHED" /\ path[dev[u]] = 0} :
       /\ dev' = Set(dev, s, d)
       /\ ws' = Set(ws, d, s)
  /\ wop' = Set(wop, d, preopened[d])
  /\ preopened' = Set(preopened, d, 0)
  /\ active' = IF preopened[d] = 0 THEN active ELSE Set(active, d, preopened[d])
  /\ Go(d, "device")
  /\ UNCHANGED <<plant, opening, attaching, inflight, made, asked, done,
                handle, bridge, seen, gen, job, target, flash, wgen, wpath, apc, aloc,
                rw, bw, spawns, shut, promised, mix, bounds>>

(* Nobody wants the device (profile detection is not modelled). *)
LookNobody(d) ==
  /\ At(d, "look")
  /\ ~Shutting /\ drain[d] = NoJob /\ Bound(d) = {}
  /\ ~\E u \in Session : st[u] = "DETACHED" /\ path[dev[u]] = 0
  /\ FinishOp(preopened[d], st)
  /\ Go(d, "exit")
  /\ UNCHANGED <<plant, attaching, inflight, made, asked, bridge, ident, job,
                target, flash, wloc, apc, aloc, rw, bw, spawns, shut, promised, mix,
                bounds>>

(* The section that reads the device, and picks up a port opened by now. *)
ReadDevice(d) ==
  LET k == IF preopened[d] # 0 THEN preopened[d] ELSE wop[d] IN
  /\ At(d, "device")
  /\ IF path[d] = 0
     THEN /\ FinishOp(wop[d], Set(st, ws[d], "DETACHED"))
          /\ Go(d, "exit") /\ UNCHANGED <<wop, wpath>>
     ELSE /\ wop' = Set(wop, d, k) /\ wpath' = Set(wpath, d, path[d])
          /\ Go(d, IF k = 0 THEN "preopen" ELSE "mark")
          /\ UNCHANGED <<held, seen>>
  /\ UNCHANGED <<plant, attaching, inflight, made, asked, bridge, ident, job,
                target, flash, ws, wgen, apc, aloc, rw, bw, spawns, shut, promised, mix,
                bounds>>

(* Mutant: a release is not looked for. *)
PreopenReleased(d) ==
  /\ At(d, "preopen") /\ ~Shutting /\ br[ws[d]] = 0 /\ preopened[d] = 0
  /\ NewOp(d, ws[d]) /\ wop' = Set(wop, d, ops + 1)
  /\ wpc' = Set(wpc, d, "open")
  /\ UNCHANGED <<plant, preopened, active, attaching, inflight, asked, done,
                bridge, seen, ident, job, target, flash, ws, wgen, wpath, apc, aloc, rw,
                bw, spawns, shut, promised, mix, bounds>>

(* _preopen_auto_attach_port: its first section *)
Preopen(d) ==
  LET s == ws[d] IN
  /\ At(d, "preopen")
  /\ IF Shutting \/ br[s] # 0 \/ st[s] = "RELEASED" \/ d \in released
     THEN Go(d, "exit") /\ UNCHANGED <<made, opening, handle, wop>>
     ELSE IF preopened[d] # 0
     THEN /\ wop' = Set(wop, d, preopened[d])
          /\ Go(d, "mark") /\ UNCHANGED <<made, opening, handle>>
     ELSE IF \/ opening[d] # 0 \/ active[d] # 0 \/ drain[d] # NoJob
             \/ dev[s] # d \/ path[d] # wpath[d] \/ path[d] = 0
     THEN Go(d, "exit") /\ UNCHANGED <<made, opening, handle, wop>>
     ELSE /\ NewOp(d, s) /\ wop' = Set(wop, d, ops + 1) /\ Go(d, "open")
  /\ UNCHANGED <<plant, preopened, active, attaching, inflight, asked, done,
                bridge, seen, ident, job, target, flash, ws, wgen, wpath, apc, aloc, rw,
                bw, spawns, shut, promised, mix, bounds>>

(* No other handle of the daemon is on the device: the exclusive lock and  *)
(* TIOCEXCL refuse a second one.                                           *)
Free(d) == \A j \in 1..ops : info[j].d = d => handle[j] \notin {"open", "lost"}

(* port.open() *)
Open(d) ==
  /\ At(d, "open") /\ Free(d) /\ path[d] = wpath[d]
  /\ handle' = Set(handle, wop[d], "open")
  /\ Go(d, "opened")
  /\ UNCHANGED <<plant, tabs, attaching, inflight, made, asked, done, bridge,
                seen, ident, job, target, flash, wloc, apc, aloc, rw, bw, spawns, shut,
                promised, mix, bounds>>

OpenFails(d) ==
  LET k == wop[d] s == ws[d] IN
  /\ At(d, "open")
  /\ handle' = Set(handle, k, "closed")
  /\ opening' = Without(opening, k)
  /\ st' = IF /\ k \notin cancelled /\ opening[d] = k /\ dev[s] = d
              /\ gen[s] = info[k].gen /\ st[s] # "RELEASED"
              /\ d \notin released
           THEN Set(st, s, "DETACHED") ELSE st
  /\ Go(d, "discard")
  /\ UNCHANGED <<plant, preopened, active, done, flag, br, released, attaching,
                inflight, made, asked, bridge, ident, job, target, flash, wloc, apc,
                aloc, rw, bw, spawns, shut, promised, mix, bounds>>

(* Its second section: the port is the worker's if nothing changed, or the *)
(* operation leaves the tables ...                                         *)
Opened(d) ==
  LET k == wop[d] s == ws[d] IN
  /\ At(d, "opened")
  /\ opening' = Without(opening, k)
  /\ IF /\ opening[d] = k /\ k \notin cancelled /\ dev[s] = d
        /\ gen[s] = info[k].gen /\ st[s] # "RELEASED" /\ d \notin released
        /\ pend[s] = NoJob /\ drain[d] = NoJob /\ ~Shutting
        /\ path[d] = info[k].path
     THEN /\ active' = Set(active, d, k)
          /\ st' = Set(st, s, "ATTACHING") /\ Go(d, "mark")
     ELSE Go(d, "discard") /\ UNCHANGED <<active, st>>
  /\ UNCHANGED <<plant, preopened, done, handle, flag, br, released, attaching,
                inflight, made, asked, bridge, ident, job, target, flash, wloc, apc,
                aloc, rw, bw, spawns, shut, promised, mix, bounds>>

(* Mutant: nobody closes it. *)
DiscardForgets(d) ==
  /\ At(d, "discard") /\ Go(d, "exit")
  /\ done' = done \cup {wop[d]}
  /\ UNCHANGED <<plant, handle, tabs, seen, attaching, inflight, made, asked, bridge,
                ident, job, target, flash, wloc, apc, aloc, rw, bw, spawns, shut,
                promised, mix, bounds>>

(* ... and is finished, its port closed, after that. *)
Discard(d) ==
  /\ At(d, "discard") /\ Go(d, "exit")
  /\ FinishOp(wop[d], st)
  /\ UNCHANGED <<plant, attaching, inflight, made, asked, bridge, ident, job,
                target, flash, wloc, apc, aloc, rw, bw, spawns, shut, promised, mix,
                bounds>>

(* The section before the bridge is made. *)
Mark(d) ==
  LET k == wop[d] s == ws[d] IN
  /\ At(d, "mark")
  /\ IF \/ Shutting \/ drain[d] # NoJob \/ br[s] # 0 \/ dev[s] # d
        \/ st[s] = "RELEASED" \/ d \in released \/ k \in cancelled
     THEN FinishOp(k, st) /\ Go(d, "exit") /\ UNCHANGED <<wgen, wpath>>
     ELSE IF path[d] = 0
     THEN /\ FinishOp(k, Set(st, s, "DETACHED")) /\ Go(d, "exit")
          /\ UNCHANGED <<wgen, wpath>>
     ELSE /\ st' = Set(st, s, "ATTACHING")
          /\ wgen' = Set(wgen, d, gen[s]) /\ wpath' = Set(wpath, d, path[d])
          /\ Go(d, "handoff") /\ UNCHANGED <<held, flag, br, released>>
  /\ UNCHANGED <<plant, attaching, inflight, made, asked, bridge, ident, job,
                target, flash, ws, wop, apc, aloc, rw, bw, spawns, shut, promised, mix,
                bounds>>

(* The port goes from the op to the bridge.  A port that went to a bridge  *)
(* before leaves this one to open its own.                                 *)
HandOff(d) ==
  LET k == wop[d] s == ws[d] IN
  /\ At(d, "handoff")
  /\ IF \/ Shutting \/ drain[d] # NoJob \/ st[s] = "RELEASED"
        \/ d \in released \/ k \in cancelled
     THEN FinishOp(k, st) /\ Go(d, "exit") /\ UNCHANGED <<made, attaching, wop>>
     ELSE /\ IF k \in done
             THEN /\ ops < MaxOps /\ ops' = ops + 1
                  /\ info' = Append(info, [info[k] EXCEPT !.path = wpath[d]])
                  /\ wop' = Set(wop, d, ops + 1)
                  /\ attaching' = Set(attaching, d, ops + 1)
                  /\ done' = done \cup {ops + 1}
             ELSE /\ attaching' = Set(attaching, d, k)
                  /\ done' = done \cup {k} /\ UNCHANGED <<made, wop>>
          /\ active' = Set(active, d, IF active[d] = k THEN 0 ELSE active[d])
          /\ Go(d, "start")
          /\ UNCHANGED <<opening, preopened, handle, seen>>
  /\ UNCHANGED <<plant, inflight, asked, bridge, ident, job, target, flash,
                ws, wgen, wpath, apc, aloc, rw, bw, spawns, shut, promised, mix,
                bounds>>

(* bridge.start() *)
Start(d) ==
  LET b == wop[d] IN
  /\ At(d, "start") /\ b \notin closing
  /\ handle[b] = "open" \/ (handle[b] = "none" /\ Free(d))
  /\ handle' = Set(handle, b, "open")
  /\ started' = started \cup {b}
  /\ Go(d, "started")
  /\ UNCHANGED <<plant, tabs, attaching, inflight, made, asked, done,
                closing, seen, ident, job, target, flash, wloc, apc, aloc, rw, bw,
                spawns, shut, promised, mix, bounds>>

(* It raises: the device went or is held, or a drain came while the port   *)
(* was being set up; start() closes the port.                              *)
StartFails(d) ==
  LET b == wop[d] IN
  /\ At(d, "start")
  /\ handle' = Set(handle, b, "closed")
  /\ started' = started \cup {b}
  /\ Go(d, "raised")
  /\ UNCHANGED <<plant, tabs, attaching, inflight, made, asked, done,
                closing, seen, ident, job, target, flash, wloc, apc, aloc, rw, bw,
                spawns, shut, promised, mix, bounds>>

(* It raises at once, a drain having begun: the port it was given is left  *)
(* open, and the drain, which knows no port, gives its receipt.            *)
StartRefused(d) ==
  LET b == wop[d] IN
  /\ At(d, "start") /\ b \in closing
  /\ handle' = IF handle[b] = "open" THEN Set(handle, b, "lost") ELSE handle
  /\ started' = started \cup {b}
  /\ Go(d, "raised")
  /\ UNCHANGED <<plant, tabs, attaching, inflight, made, asked, done,
                closing, seen, ident, job, target, flash, wloc, apc, aloc, rw, bw,
                spawns, shut, promised, mix, bounds>>

(* The section after it: a drain that came meanwhile takes the bridge. *)
Started(d) ==
  /\ At(d, "started")
  /\ IF drain[d] # NoJob THEN Go(d, "exit") /\ UNCHANGED <<drain, closing>>
     ELSE IF Shutting THEN BeginCleanup(d, wop[d]) /\ Go(d, "exit")
     ELSE Go(d, "probe") /\ UNCHANGED <<drain, closing>>
  /\ UNCHANGED <<plant, attaching, inflight, made, asked, held, started,
                seen, ident, pend, target, flash, wloc, apc, aloc, rw, bw, spawns, shut,
                promised, mix, bounds>>

(* The probe or login ends: with an answer, with a login that failed, or   *)
(* with an exception.                                                      *)
ProbeEnds(d) ==
  /\ At(d, "probe")
  /\ \/ Go(d, "ready") \/ Go(d, "noprompt") \/ Go(d, "raised")
     \/ ws[d] \in NeedsLogin /\ Go(d, "nologin")
  /\ UNCHANGED <<plant, attaching, inflight, made, asked, held, bridge, seen,
                ident, job, target, flash, wloc, apc, aloc, rw, bw, spawns, shut,
                promised, mix, bounds>>

(* The section that gives the bridge to the session. *)
Publish(d) ==
  LET s == ws[d] b == wop[d] IN
  /\ wpc[d] \in {"ready", "noprompt"}
  /\ IF Shutting \/ st[s] = "RELEASED" \/ d \in released
     THEN /\ IF drain[d][2] # b /\ attaching[d] = b
             THEN BeginCleanup(d, b) ELSE UNCHANGED <<drain, closing>>
          /\ UNCHANGED <<st, br, gen, attaching>>
     ELSE IF path[d] # wpath[d] \/ st[s] = "DETACHED" \/ gen[s] # wgen[d]
     THEN /\ BeginCleanup(d, b)
          /\ st' = Set(st, s, "DETACHED") /\ UNCHANGED <<br, gen, attaching>>
     ELSE /\ br' = Set(br, s, b) /\ gen' = Set(gen, s, gen[s] + 1)
          /\ st' = Set(st, s, IF At(d, "ready") THEN "READY" ELSE "ATTACHED")
          /\ attaching' = Set(attaching, d, 0) /\ UNCHANGED <<drain, closing>>
  /\ Go(d, "exit")
  /\ UNCHANGED <<plant, released, inflight, made, asked, held, started, dev,
                pend, target, flag, flash, wloc, apc, aloc, rw, bw, spawns, shut,
                promised, mix, bounds>>

(* The exception handler: a drain that owns the bridge goes on alone.      *)
Raised(d) ==
  LET s == ws[d] b == wop[d] IN
  /\ At(d, "raised")
  /\ IF \/ pend[s] # NoJob \/ drain[d][2] = b
        \/ (st[s] = "RELEASED" \/ d \in released) /\ attaching[d] # b
     THEN Go(d, "exit") /\ UNCHANGED <<drain, closing>>
     ELSE BeginCleanup(d, b) /\ Go(d, "failed")
  /\ UNCHANGED <<plant, attaching, inflight, made, asked, held, started,
                seen, ident, pend, target, flash, wloc, apc, aloc, rw, bw, spawns, shut,
                promised, mix, bounds>>

(* _finish_attach_bridge_stop returned: the bridge it stops is cleaned up, *)
(* or has not closed in time.                                              *)
Stopped(d) == drain[d] # <<"cleanup", wop[d]>> \/ ~Receipt(wop[d])

Failed(d) ==
  LET s == ws[d] IN
  /\ At(d, "failed") /\ Stopped(d)
  /\ IF st[s] = "RELEASED" \/ d \in released THEN UNCHANGED <<st, br>>
     ELSE st' = Set(st, s, "DETACHED") /\ br' = Set(br, s, 0)
  /\ Go(d, "exit")
  /\ UNCHANGED <<plant, attaching, released, inflight, made, asked, held,
                bridge, ident, job, target, flag, flash, wloc, apc, aloc, rw, bw,
                spawns, shut, promised, mix, bounds>>

(* A login that failed: the bridge is stopped, the session detached. *)
LoginFails(d) ==
  /\ At(d, "nologin")
  /\ BeginCleanup(d, wop[d])
  /\ Go(d, "loggedout")
  /\ UNCHANGED <<plant, attaching, inflight, made, asked, held, started,
                seen, ident, pend, target, flash, wloc, apc, aloc, rw, bw, spawns, shut,
                promised, mix, bounds>>

LoggedOut(d) ==
  /\ At(d, "loggedout") /\ Stopped(d)
  /\ st' = Set(st, ws[d], "DETACHED") /\ br' = Set(br, ws[d], 0)
  /\ Go(d, "exit")
  /\ UNCHANGED <<plant, attaching, released, inflight, made, asked, held,
                bridge, ident, job, target, flag, flash, wloc, apc, aloc, rw, bw,
                spawns, shut, promised, mix, bounds>>

(* The end of the worker; a session that still waits gets another. *)
Exit(d) ==
  /\ At(d, "exit") /\ Stopped(d)
  /\ inflight' = inflight \ {d}
  /\ Go(d, "none")
  /\ spawns' = IF /\ ~Shutting /\ d \notin released /\ drain[d] = NoJob
                  /\ path[d] # 0
                  /\ \E s \in Bound(d) : br[s] = 0 /\ st[s] = "ATTACHING"
               THEN spawns \cup {d} ELSE spawns
  /\ UNCHANGED <<plant, attaching, made, asked, held, bridge, seen, ident,
                job, target, flash, wloc, apc, aloc, rw, bw, shut, promised, mix,
                bounds>>

Worker(d) ==
  \/ Spawn(d) \/ LookStops(d) \/ Look(d) \/ LookNobody(d) \/ ReadDevice(d)
  \/ Preopen(d) \/ Open(d) \/ OpenFails(d) \/ Opened(d) \/ Discard(d) \/ Mark(d)
  \/ HandOff(d) \/ Start(d) \/ StartFails(d) \/ StartRefused(d) \/ Started(d)
  \/ ProbeEnds(d) \/ Publish(d) \/ Raised(d) \/ Failed(d) \/ LoginFails(d)
  \/ LoggedOut(d) \/ Exit(d)

---------------------------------------------------------------------------
(* Drains *)

(* The reader and the writers of a bridge end and its port is closed. *)
BridgeCloses(k) ==
  /\ k \in closing \cap started /\ handle[k] = "open"
  /\ handle' = Set(handle, k, "closed")
  /\ UNCHANGED <<plant, tabs, attaching, inflight, made, asked, done, bridge,
                seen, ident, job, target, flash, wpc, wloc, apc, aloc, rw, bw, spawns,
                shut, promised, mix, bounds>>

(* Mutant: the gate's flag stays set. *)
CompleteDrainFlagged(s) ==
  LET d == dev[s] IN
  /\ pend[s] # NoJob /\ Receipt(pend[s][2])
  /\ br' = Set(br, s, 0)
  /\ pend' = Set(pend, s, NoJob) /\ drain' = Set(drain, d, NoJob)
  /\ st' = Set(st, s, "DETACHED")
  /\ UNCHANGED <<plant, attaching, released, inflight, made, asked, held,
                bridge, ident, target, flag, flash, wpc, wloc, apc, aloc, rw, bw,
                spawns, shut, promised, mix, bounds>>

(* _complete_drain with a safe receipt, on time or late. *)
CompleteDrain(s) ==
  LET d == dev[s] kind == pend[s][1] b == pend[s][2]
      here == path[d] # 0 there == path[target[s]] # 0
  IN
  /\ pend[s] # NoJob /\ Receipt(b)
  /\ br' = IF br[s] = b THEN Set(br, s, 0) ELSE br
  /\ pend' = Set(pend, s, NoJob)
  /\ drain' = IF drain[d] = pend[s] THEN Set(drain, d, NoJob) ELSE drain
  /\ flag' = Set(flag, s, FALSE)
  /\ attaching' = IF kind = "release" /\ attaching[d] = b
                  THEN Set(attaching, d, 0) ELSE attaching
  /\ st' = CASE kind = "release" -> Set(st, s, "RELEASED")
             [] kind = "shutdown" -> st
             [] \/ kind \in {"clear", "io_error"} /\ here
                \/ kind = "bind" /\ there -> Set(st, s, "ATTACHING")
             [] OTHER -> Set(st, s, "DETACHED")
  /\ released' = CASE kind = "release" -> released \cup {d}
                   [] kind = "bind" -> released \ {d}
                   [] OTHER -> released
  /\ dev' = IF kind = "bind" THEN Set(dev, s, target[s]) ELSE dev
  /\ spawns' = spawns \cup
       CASE kind \in {"clear", "recover", "io_error"} /\ here -> {d}
         [] kind = "bind" /\ there -> {target[s]}
         [] OTHER -> {}
  /\ promised' = IF kind = "bind" THEN promised \ {d} ELSE promised
  /\ UNCHANGED <<plant, inflight, made, asked, held, bridge, gen, target,
                flash, wpc, wloc, apc, aloc, rw, bw, shut, mix, bounds>>

(* _complete_attach_bridge_stop *)
CompleteCleanup(d) ==
  LET b == drain[d][2] IN
  /\ drain[d][1] = "cleanup" /\ Receipt(b)
  /\ drain' = Set(drain, d, NoJob)
  /\ attaching' = IF attaching[d] = b THEN Set(attaching, d, 0) ELSE attaching
  /\ UNCHANGED <<plant, inflight, made, asked, held, bridge, seen, ident,
                pend, target, flash, wpc, wloc, apc, aloc, rw, bw, spawns, shut,
                promised, mix, bounds>>

---------------------------------------------------------------------------
(* device.release *)

(* The op of a device a release or a bind meets: at work, or waiting with  *)
(* its port open.                                                          *)
Working(d) == IF active[d] # 0 THEN active[d] ELSE opening[d]
Pending(d) == IF Working(d) # 0 THEN Working(d) ELSE preopened[d]

ReleaseCall(s) == rw[s] = NoJob /\ Call("release") /\ ~FlashBusy(s)

(* An attach is under way: it is cancelled and asked to release.  A port   *)
(* nobody has picked up is taken and closed by the caller.                 *)
ReleaseOp(s) ==
  LET d == dev[s] k == Pending(d) IN
  /\ ReleaseCall(s) /\ k # 0 /\ (Shutting => st[s] = "RELEASED")
  /\ preopened' = IF Working(d) = 0 THEN Set(preopened, d, 0) ELSE preopened
  /\ relreq' = relreq \cup {k} /\ cancelled' = cancelled \cup {k}
  /\ IF st[s] = "RELEASED" THEN UNCHANGED <<st, flag>>
     ELSE st' = Set(st, s, "RECOVERING") /\ flag' = Set(flag, s, TRUE)
  /\ rw' = Set(rw, s, <<IF Working(d) = 0 THEN "finish" ELSE "op", k>>)
  /\ UNCHANGED <<plant, opening, active, attaching, released, inflight, made,
                done, handle, bridge, ident, br, job, target, flash, wpc, wloc, apc,
                aloc, bw, spawns, shut, promised, mix, plugs>>

ReleaseFinish(s) ==
  /\ rw[s][1] = "finish"
  /\ FinishOp(rw[s][2], st)
  /\ rw' = Set(rw, s, <<"op", rw[s][2]>>)
  /\ UNCHANGED <<plant, attaching, inflight, made, asked, bridge, ident, job,
                target, flash, wpc, wloc, apc, aloc, bw, spawns, shut, promised, mix,
                bounds>>

(* A bridge, the session's or one on its way to it, is drained; a second   *)
(* call joins the drain of the first.                                      *)
ReleaseDrain(s) ==
  LET b == IF br[s] # 0 THEN br[s] ELSE attaching[dev[s]] IN
  /\ ReleaseCall(s) /\ Pending(dev[s]) = 0 /\ st[s] # "RELEASED" /\ ~Shutting
  /\ \/ /\ pend[s] = NoJob /\ b # 0
        /\ BeginDrain(s, "release", b) /\ rw' = Set(rw, s, <<"job", b>>)
     \/ /\ pend[s][1] = "release"
        /\ rw' = Set(rw, s, <<"job", pend[s][2]>>)
        /\ UNCHANGED <<pend, drain, st, flag, released, closing>>
  /\ UNCHANGED <<plant, attaching, inflight, made, asked, held, started,
                ident, br, target, flash, wpc, wloc, apc, aloc, bw, spawns, shut,
                promised, mix, plugs>>

(* Nothing is open, or the session is RELEASED already. *)
ReleaseNow(s) ==
  LET d == dev[s] IN
  /\ ReleaseCall(s) /\ Pending(d) = 0
  /\ \/ st[s] = "RELEASED" /\ UNCHANGED <<st, flag, released>>
     \/ /\ st[s] # "RELEASED" /\ ~Shutting
        /\ pend[s] = NoJob /\ br[s] = 0 /\ attaching[d] = 0
        /\ st' = Set(st, s, "RELEASED") /\ flag' = Set(flag, s, FALSE)
        /\ released' = released \cup {d}
  /\ promised' = promised \cup {d}
  /\ UNCHANGED <<plant, attaching, inflight, made, asked, held, bridge,
                ident, br, job, target, flash, wpc, wloc, apc, aloc, rw, bw, spawns,
                shut, mix, plugs>>

(* The call returns ok; a promise if the device was not asked back since.  *)
ReleaseAnswered(s) ==
  LET k == rw[s][2] IN
  /\ \/ rw[s][1] = "op" /\ k \in done
     \/ rw[s][1] = "job" /\ Receipt(k) /\ pend[s][2] # k
  /\ promised' = IF /\ st[s] = "RELEASED" /\ dev[s] \in released
                    /\ Pending(dev[s]) = 0
                 THEN promised \cup {dev[s]} ELSE promised
  /\ rw' = Set(rw, s, NoJob)
  /\ UNCHANGED <<plant, attaching, inflight, made, asked, held, bridge, seen,
                ident, job, target, flash, wpc, wloc, apc, aloc, bw, spawns, shut, mix,
                bounds>>

(* The deadline passes first: DRAIN_STALLED. *)
ReleaseTimeout(s) ==
  LET k == rw[s][2] IN
  /\ \/ rw[s][1] = "op" /\ k \notin done
     \/ rw[s][1] = "job" /\ ~Receipt(k)
  /\ st' = IF rw[s][1] = "op" /\ st[s] # "RELEASED"
           THEN Set(st, s, "RECOVERING") ELSE st
  /\ rw' = Set(rw, s, NoJob)
  /\ UNCHANGED <<plant, attaching, released, inflight, made, asked, held,
                bridge, ident, br, job, target, flag, flash, wpc, wloc, apc, aloc, bw,
                spawns, shut, promised, mix, bounds>>

---------------------------------------------------------------------------
(* device.attach *)

Attach(s, l) == apc' = Set(apc, s, <<l, apc[s][2]>>)
AtAttach(s, l) == apc[s][1] = l

(* The first section; other holders of the device are looked up after it. *)
AttachCall(s) ==
  LET d == dev[s] IN
  /\ AtAttach(s, "idle") /\ Call("attach_device") /\ ~Shutting
  /\ pend[s] = NoJob /\ drain[d] = NoJob /\ path[d] # 0
  /\ br[s] = 0 \/ st[s] = "RELEASED" \/ d \in released
  /\ Pending(d) = 0 /\ attaching[d] = 0
  /\ apc' = Set(apc, s, <<"scan", d>>)
  /\ agen' = Set(agen, s, gen[s]) /\ apath' = Set(apath, s, path[d])
  /\ UNCHANGED <<plant, attaching, inflight, made, asked, held, bridge, seen,
                ident, job, target, flash, wpc, wloc, aop, rw, bw, spawns, shut,
                promised, mix, plugs>>

(* The second section enters the op, or refuses. *)
AttachScanned(s) ==
  LET d == apc[s][2] IN
  /\ AtAttach(s, "scan")
  /\ IF \/ Shutting \/ opening[d] # 0 \/ preopened[d] # 0
        \/ pend[s] # NoJob \/ drain[d] # NoJob \/ dev[s] # d
        \/ gen[s] # agen[s] \/ path[d] # apath[s]
     THEN Attach(s, "idle") /\ UNCHANGED <<made, opening, handle, aop, promised>>
     ELSE /\ NewOp(d, s) /\ aop' = Set(aop, s, ops + 1) /\ Attach(s, "open")
          /\ promised' = promised \ {d}
  /\ UNCHANGED <<plant, preopened, active, attaching, inflight, asked, done,
                bridge, seen, ident, job, target, flash, wpc, wloc, agen, apath, rw, bw,
                spawns, shut, mix, bounds>>

AttachOpen(s) ==
  LET d == apc[s][2] IN
  /\ AtAttach(s, "open") /\ Free(d) /\ path[d] = apath[s]
  /\ handle' = Set(handle, aop[s], "open")
  /\ Attach(s, "opened")
  /\ UNCHANGED <<plant, tabs, attaching, inflight, made, asked, done, bridge,
                seen, ident, job, target, flash, wpc, wloc, aloc, rw, bw, spawns, shut,
                promised, mix, bounds>>

(* DeviceHeldError or DeviceNotPresentError: nothing else changes. *)
AttachHeld(s) ==
  /\ AtAttach(s, "open")
  /\ FinishOp(aop[s], st)
  /\ Attach(s, "idle")
  /\ UNCHANGED <<plant, attaching, inflight, made, asked, bridge, ident, job,
                target, flash, wpc, wloc, aloc, rw, bw, spawns, shut, promised, mix,
                bounds>>

(* Another OSError: the device counts as taken back. *)
AttachOpenFails(s) ==
  LET d == apc[s][2] k == aop[s] IN
  /\ AtAttach(s, "open") /\ k \notin cancelled /\ opening[d] = k
  /\ st' = Set(st, s, "DETACHED") /\ released' = released \ {d}
  /\ opening' = Set(opening, d, 0) /\ handle' = Set(handle, k, "closed")
  /\ done' = done \cup {k}
  /\ Attach(s, "idle")
  /\ UNCHANGED <<plant, preopened, active, attaching, inflight, made, asked,
                bridge, ident, br, job, target, flag, flash, wpc, wloc, aloc, rw, bw,
                spawns, shut, promised, mix, bounds>>

(* The last section: the port waits for a worker, or the operation leaves  *)
(* the tables ...                                                          *)
AttachOpened(s) ==
  LET d == apc[s][2] k == aop[s] IN
  /\ AtAttach(s, "opened")
  /\ opening' = Without(opening, k)
  /\ IF /\ path[d] = apath[s] /\ k \notin cancelled /\ opening[d] = k
        /\ dev[s] = d /\ gen[s] = agen[s] /\ pend[s] = NoJob
        /\ drain[d] = NoJob /\ ~Shutting
     THEN /\ preopened' = Set(preopened, d, k)
          /\ released' = released \ {d} /\ st' = Set(st, s, "ATTACHING")
          /\ spawns' = spawns \cup {d} /\ Attach(s, "idle")
     ELSE Attach(s, "discard") /\ UNCHANGED <<preopened, released, st, spawns>>
  /\ UNCHANGED <<plant, active, done, handle, flag, br, attaching, inflight, made,
                asked, bridge, ident, job, target, flash, wpc, wloc, aloc, rw, bw,
                shut, promised, mix, bounds>>

(* ... and the call closes its port after that, whatever went on meanwhile. *)
AttachDiscard(s) ==
  /\ AtAttach(s, "discard") /\ Attach(s, "idle")
  /\ FinishOp(aop[s], st)
  /\ UNCHANGED <<plant, attaching, inflight, made, asked, bridge, ident, job,
                target, flash, wpc, wloc, aloc, rw, bw, spawns, shut, promised, mix,
                bounds>>

---------------------------------------------------------------------------
(* session.clear, session.attach, session.bind *)

Clear(s) ==
  LET d == dev[s] IN
  /\ Call("clear") /\ ~FlashBusy(s) /\ pend[s] = NoJob /\ ~Shutting
  /\ st[s] # "RELEASED" /\ d \notin released
  /\ IF br[s] # 0 THEN BeginDrain(s, "clear", br[s]) /\ UNCHANGED spawns
     ELSE /\ st' = Set(st, s, IF path[d] # 0 THEN "ATTACHING" ELSE "DETACHED")
          /\ flag' = Set(flag, s, FALSE)
          /\ spawns' = IF path[d] # 0 THEN spawns \cup {d} ELSE spawns
          /\ UNCHANGED <<pend, drain, released, closing>>
  /\ UNCHANGED <<plant, attaching, inflight, made, asked, held, started,
                ident, br, target, flash, wpc, wloc, apc, aloc, rw, bw, shut, promised,
                mix, plugs>>

(* attach_session without a bridge; with one it probes. *)
AttachSession(s) ==
  LET d == dev[s] IN
  /\ Call("attach_session") /\ pend[s] = NoJob /\ Pending(d) \notin relreq
  /\ st[s] # "RELEASED" /\ d \notin released /\ br[s] = 0
  /\ st' = Set(st, s, IF path[d] # 0 THEN "ATTACHING" ELSE "DETACHED")
  /\ spawns' = IF path[d] # 0 THEN spawns \cup {d} ELSE spawns
  /\ UNCHANGED <<plant, attaching, released, inflight, made, asked, held,
                bridge, ident, br, job, target, flag, flash, wpc, wloc, apc, aloc, rw,
                bw, shut, promised, mix, plugs>>

AtBind(s, l) == bw[s][1] = l
Bind(s, l, k) == bw' = Set(bw, s, <<l, k, bw[s][3]>>)

BindCall(s, t) ==
  /\ AtBind(s, "idle") /\ Call("bind")
  /\ bw' = Set(bw, s, <<"first", 0, t>>)
  /\ UNCHANGED <<plant, attaching, inflight, made, asked, held, bridge, seen,
                ident, job, target, flash, wpc, wloc, apc, aloc, rw, spawns, shut,
                promised, mix, plugs>>

(* The first section: an attach under way is cancelled and waited for. *)
BindFirst(s) ==
  LET d == dev[s] k == Pending(d) IN
  /\ AtBind(s, "first")
  /\ cancelled' = IF k = 0 THEN cancelled ELSE cancelled \cup {k}
  /\ preopened' = IF Working(d) = 0 THEN Set(preopened, d, 0) ELSE preopened
  /\ Bind(s, IF k = 0 THEN "second" ELSE IF Working(d) = 0 THEN "finish"
             ELSE "wait", k)
  /\ UNCHANGED <<plant, opening, active, attaching, inflight, made, relreq,
                done, handle, bridge, seen, ident, job, target, flash, wpc, wloc, apc,
                aloc, rw, spawns, shut, promised, mix, bounds>>

BindFinish(s) ==
  /\ AtBind(s, "finish")
  /\ FinishOp(bw[s][2], st)
  /\ Bind(s, "wait", bw[s][2])
  /\ UNCHANGED <<plant, attaching, inflight, made, asked, bridge, ident, job,
                target, flash, wpc, wloc, apc, aloc, rw, spawns, shut, promised, mix,
                bounds>>

(* Once it is done the call starts over, unless a release came for it. *)
BindWaited(s) ==
  /\ AtBind(s, "wait") /\ bw[s][2] \in done
  /\ IF bw[s][2] \in relreq THEN bw' = Set(bw, s, Unbound)
     ELSE Bind(s, "first", 0)
  /\ UNCHANGED <<plant, attaching, inflight, made, asked, held, bridge, seen,
                ident, job, target, flash, wpc, wloc, apc, aloc, rw, spawns, shut,
                promised, mix, bounds>>

BindTimeout(s) ==
  /\ AtBind(s, "wait") /\ bw[s][2] \notin done
  /\ st' = Set(st, s, "RECOVERING")
  /\ bw' = Set(bw, s, Unbound)
  /\ UNCHANGED <<plant, attaching, released, inflight, made, asked, held,
                bridge, ident, br, job, target, flag, flash, wpc, wloc, apc, aloc, rw,
                spawns, shut, promised, mix, bounds>>

(* The second section: refuse, drain the bridge, or move at once.  A port  *)
(* that waits for a worker is taken, and closed before one is started for  *)
(* the target.                                                             *)
BindSecond(s) ==
  LET d == dev[s] t == bw[s][3]
      k == IF preopened[d] \in done THEN 0 ELSE preopened[d]
  IN
  /\ AtBind(s, "second")
  /\ IF \/ Shutting \/ FlashBusy(s) \/ pend[s] # NoJob
        \/ Bound(t) \ {s} # {}
        \/ br[s] # 0 /\ d = t /\ st[s] \in {"READY", "ATTACHED"}
     THEN /\ bw' = Set(bw, s, Unbound)
          /\ UNCHANGED <<tabs, seen, job, closing, dev, target, spawns, promised>>
     ELSE IF br[s] # 0
     THEN /\ BeginDrain(s, "bind", br[s]) /\ target' = Set(target, s, t)
          /\ bw' = Set(bw, s, Unbound)
          /\ UNCHANGED <<tabs, br, dev, spawns, promised>>
     ELSE /\ opening' = Set(opening, d, 0) /\ preopened' = Set(preopened, d, 0)
          /\ released' = IF st[s] = "RELEASED" THEN released \ {d} ELSE released
          /\ promised' = promised \ {d}
          /\ dev' = Set(dev, s, t)
          /\ st' = Set(st, s, IF path[t] # 0 THEN "ATTACHING" ELSE "DETACHED")
          /\ IF k = 0
             THEN /\ bw' = Set(bw, s, Unbound)
                  /\ spawns' = IF path[t] # 0 THEN spawns \cup {t} ELSE spawns
             ELSE /\ bw' = Set(bw, s, <<"close", k, IF path[t] # 0 THEN t ELSE None>>)
                  /\ UNCHANGED spawns
          /\ UNCHANGED <<active, flag, br, job, closing, target>>
  /\ UNCHANGED <<plant, done, handle, attaching, inflight, made, asked, started, gen,
                flash, wpc, wloc, apc, aloc, rw, shut, mix, bounds>>

BindClose(s) ==
  /\ AtBind(s, "close") /\ bw' = Set(bw, s, Unbound)
  /\ handle' = Set(handle, bw[s][2], "closed")
  /\ spawns' = spawns \cup ({bw[s][3]} \ {None})
  /\ UNCHANGED <<plant, tabs, attaching, inflight, made, asked, done, bridge, seen,
                ident, job, target, flash, wpc, wloc, apc, aloc, rw, shut, promised,
                mix, bounds>>

---------------------------------------------------------------------------
(* Hotplug, dying bridges, flashing *)

(* update_devices: the first section.  Operations of a device that left or *)
(* moved are cancelled, a port nobody picked up is taken ...               *)
Plug(d, p) ==
  LET k == IF attaching[d] = 0 /\ active[d] = 0 THEN preopened[d] ELSE 0 IN
  /\ watch[1] = "idle" /\ ~Shutting /\ Plugs /\ p # path[d]
  /\ plugs' = plugs + 1
  /\ path' = Set(path, d, p)
  /\ cancelled' = cancelled \cup ({opening[d], active[d], k} \ {0})
  /\ preopened' = IF k = 0 THEN preopened ELSE Set(preopened, d, 0)
  /\ st' = [s \in Session |->
       IF p = 0 /\ dev[s] = d /\ br[s] = 0 /\ st[s] # "RELEASED"
       THEN "DETACHED" ELSE st[s]]
  /\ watch' = <<IF path[d] = 0 THEN "spawn"
               ELSE IF p = 0 THEN "device_removed" ELSE "recover", d, k>>
  /\ UNCHANGED <<opening, active, handle, done, flag, br, released, attaching,
                inflight, made, relreq, bridge, ident, job, target, flash, wpc, wloc,
                apc, aloc, rw, bw, spawns, shut, promised, mix, calls>>

(* ... and closed after it. *)
PlugFinish ==
  /\ watch[3] # 0 /\ watch' = [watch EXCEPT ![3] = 0]
  /\ FinishOp(watch[3], st)
  /\ UNCHANGED <<path, attaching, inflight, made, asked, bridge, ident, job,
                target, flash, wpc, wloc, apc, aloc, rw, bw, spawns, shut, promised,
                mix, bounds>>

(* _detach_by_id *)
PlugDetach ==
  LET d == watch[2] IN
  /\ watch[1] \in {"device_removed", "recover"} /\ watch[3] = 0
  /\ LET out == {s \in Bound(d) : st[s] # "RELEASED" /\ ~FlashBusy(s)
                                  /\ pend[s] = NoJob}
     IN \/ /\ out = {}
           /\ UNCHANGED <<pend, drain, st, flag, released, closing>>
        \/ \E s \in out : br[s] # 0 /\ BeginDrain(s, watch[1], br[s])
        \/ \E s \in out : /\ br[s] = 0 /\ Detach(s)
                           /\ UNCHANGED <<pend, drain, released, closing>>
  /\ watch' = IF watch[1] = "recover" THEN <<"spawn", d, 0>> ELSE NoWatch
  /\ UNCHANGED <<path, attaching, inflight, made, asked, held, started,
                ident, br, target, flash, wpc, wloc, apc, aloc, rw, bw, spawns, shut,
                promised, mix, bounds>>

PlugSpawn ==
  /\ watch[1] = "spawn" /\ watch[3] = 0
  /\ spawns' = spawns \cup {watch[2]} /\ watch' = NoWatch
  /\ UNCHANGED <<path, attaching, inflight, made, asked, held, bridge, seen,
                ident, job, target, flash, wpc, wloc, apc, aloc, rw, bw, shut, promised,
                mix, bounds>>

(* Mutant: flashing does not matter. *)
BridgeDownAnyway(s) ==
  /\ Plugs /\ plugs' = plugs + 1
  /\ br[s] # 0 /\ pend[s] = NoJob
  /\ BeginDrain(s, "io_error", br[s])
  /\ UNCHANGED <<plant, attaching, inflight, made, asked, held, started,
                ident, br, target, flash, wpc, wloc, apc, aloc, rw, bw, spawns, shut,
                promised, mix, calls>>

(* _handle_bridge_down *)
BridgeDown(s) ==
  /\ Plugs /\ plugs' = plugs + 1
  /\ br[s] # 0 /\ ~FlashBusy(s) /\ pend[s] = NoJob
  /\ BeginDrain(s, "io_error", br[s])
  /\ UNCHANGED <<plant, attaching, inflight, made, asked, held, started,
                ident, br, target, flash, wpc, wloc, apc, aloc, rw, bw, spawns, shut,
                promised, mix, calls>>

(* collect_flash_candidates_and_mark *)
FlashMark(s) ==
  /\ Call("flash") /\ st[s] \in {"READY", "ATTACHED"}
  /\ pend[s] = NoJob /\ drain[dev[s]] = NoJob
  /\ critical' = critical \cup {s}
  /\ UNCHANGED <<plant, attaching, inflight, made, asked, held, bridge, seen,
                ident, job, target, prev, wpc, wloc, apc, aloc, rw, bw, spawns, shut,
                promised, mix, plugs>>

(* enter_flashing of a session that was marked *)
FlashEnter(s) ==
  /\ s \in critical /\ st[s] \notin {"FLASHING", "RELEASED", "RECOVERING"}
  /\ pend[s] = NoJob /\ drain[dev[s]] = NoJob
  /\ prev' = Set(prev, s, st[s]) /\ st' = Set(st, s, "FLASHING")
  /\ UNCHANGED <<plant, attaching, released, inflight, made, asked, held,
                bridge, ident, br, job, target, flag, critical, wpc, wloc, apc, aloc,
                rw, bw, spawns, shut, promised, mix, bounds>>

(* unmark_flash_critical *)
FlashUnmark(s) ==
  /\ s \in critical /\ critical' = critical \ {s}
  /\ UNCHANGED <<plant, attaching, inflight, made, asked, held, bridge, seen,
                ident, job, target, prev, wpc, wloc, apc, aloc, rw, bw, spawns, shut,
                promised, mix, bounds>>

(* exit_flashing *)
FlashExit(s) ==
  /\ st[s] = "FLASHING" /\ st' = Set(st, s, prev[s])
  /\ UNCHANGED <<plant, attaching, released, inflight, made, asked, held,
                bridge, ident, br, job, target, flag, flash, wpc, wloc, apc, aloc, rw,
                bw, spawns, shut, promised, mix, bounds>>

---------------------------------------------------------------------------
(* shutdown_drain *)

(* begin_shutdown: from here on nothing is opened. *)
ShutBegin ==
  /\ down = "no" /\ Call("stop")
  /\ down' = "begun"
  /\ UNCHANGED <<plant, attaching, inflight, made, asked, held, bridge, seen,
                ident, job, target, flash, wpc, wloc, apc, aloc, rw, bw, spawns,
                stalled, sops, sjobs, promised, mix, plugs>>

InTables == {opening[d] : d \in Device} \cup {preopened[d] : d \in Device}
              \cup {active[d] : d \in Device}

(* The first section: cancel the operations, stop the bridges that no      *)
(* session has yet.                                                        *)
ShutCancel ==
  LET lone == {d \in Device : /\ attaching[d] # 0 /\ drain[d] = NoJob
                              /\ Bound(d) # {}}
  IN
  /\ down = "begun" /\ down' = "cancelled"
  /\ sops' = InTables \ {0}
  /\ cancelled' = cancelled \cup (InTables \ {0})
  /\ drain' = [d \in Device |->
       IF d \in lone THEN <<"cleanup", attaching[d]>> ELSE drain[d]]
  /\ closing' = closing \cup {attaching[d] : d \in lone}
  /\ UNCHANGED <<plant, attaching, inflight, made, relreq, held, started,
                seen, ident, pend, target, flash, wpc, wloc, apc, aloc, rw, bw, spawns,
                stalled, sjobs, promised, mix, bounds>>

(* The workers are joined, or time is up. *)
ShutJoin ==
  /\ down = "cancelled" /\ down' = "joined"
  /\ stalled' = (inflight # {})
  /\ UNCHANGED <<plant, attaching, inflight, made, asked, held, bridge, seen,
                ident, job, target, flash, wpc, wloc, apc, aloc, rw, bw, spawns, sops,
                sjobs, promised, mix, bounds>>

(* A port nobody picked up is closed. *)
ShutFinish(d) ==
  /\ down = "joined" /\ preopened[d] \in sops
  /\ active[d] # preopened[d] /\ opening[d] # preopened[d]
  /\ FinishOp(preopened[d], st)
  /\ UNCHANGED <<plant, attaching, inflight, made, asked, bridge, ident, job,
                target, flash, wpc, wloc, apc, aloc, rw, bw, spawns, shut, promised,
                mix, bounds>>

(* The operations are waited for, or time is up. *)
ShutOps ==
  /\ down = "joined" /\ down' = "ops"
  /\ \A d \in Device : preopened[d] \notin sops
  /\ stalled' = (stalled \/ ~(sops \cup InTables \subseteq done \cup {0}))
  /\ UNCHANGED <<plant, attaching, inflight, made, asked, held, bridge, seen,
                ident, job, target, flash, wpc, wloc, apc, aloc, rw, bw, spawns, sops,
                sjobs, promised, mix, bounds>>

(* Every bridge left is drained. *)
ShutDrain ==
  LET left == {s \in Session : pend[s] = NoJob /\ br[s] # 0} IN
  /\ down = "ops" /\ down' = "draining"
  /\ pend' = [s \in Session |->
       IF s \in left THEN <<"shutdown", br[s]>> ELSE pend[s]]
  /\ drain' = [d \in Device |-> IF \E s \in left : dev[s] = d
       THEN pend'[CHOOSE s \in left : dev[s] = d] ELSE drain[d]]
  /\ flag' = [s \in Session |-> s \in left \/ flag[s]]
  /\ closing' = closing \cup {br[s] : s \in left}
  /\ sjobs' = {pend'[s] : s \in Session}
       \cup {drain'[d] : d \in {e \in Device : drain'[e][1] = "cleanup"}}
  /\ UNCHANGED <<plant, attaching, released, inflight, made, asked, held,
                started, st, ident, br, target, flash, wpc, wloc, apc, aloc, rw, bw,
                spawns, stalled, sops, promised, mix, bounds>>

(* Mutant: what it gave up on before is forgotten. *)
ShutEndForgets ==
  LET left == {pend[s] : s \in Session} \cup {drain[d] : d \in Device} IN
  /\ down = "draining"
  /\ down' = IF sjobs \cap left \subseteq {NoJob} THEN "graceful" ELSE "stalled"
  /\ UNCHANGED <<plant, attaching, inflight, made, asked, held, bridge, seen,
                ident, job, target, flash, wpc, wloc, apc, aloc, rw, bw, spawns,
                stalled, sops, sjobs, promised, mix, bounds>>

(* The receipts are in, or time is up. *)
ShutEnd ==
  LET left == {pend[s] : s \in Session} \cup {drain[d] : d \in Device} IN
  /\ down = "draining"
  /\ down' = IF ~stalled /\ sjobs \cap left \subseteq {NoJob}
             THEN "graceful" ELSE "stalled"
  /\ UNCHANGED <<plant, attaching, inflight, made, asked, held, bridge, seen,
                ident, job, target, flash, wpc, wloc, apc, aloc, rw, bw, spawns,
                stalled, sops, sjobs, promised, mix, bounds>>

---------------------------------------------------------------------------
RpcStep(s) ==
  \/ ReleaseFinish(s) \/ ReleaseAnswered(s) \/ AttachScanned(s)
  \/ AttachOpen(s) \/ AttachHeld(s) \/ AttachOpenFails(s) \/ AttachOpened(s)
  \/ AttachDiscard(s)
  \/ BindFirst(s) \/ BindFinish(s) \/ BindWaited(s) \/ BindSecond(s) \/ BindClose(s)

Drains ==
  \/ \E k \in Op : BridgeCloses(k)
  \/ \E s \in Session : CompleteDrain(s)
  \/ \E d \in Device : CompleteCleanup(d)

Watcher == PlugFinish \/ PlugDetach \/ PlugSpawn

Next ==
  \/ \E d \in Device : Worker(d) \/ ShutFinish(d)
  \/ Drains
  \/ \E s \in Session :
       \/ RpcStep(s) \/ ReleaseTimeout(s) \/ BindTimeout(s)
       \/ ReleaseOp(s) \/ ReleaseDrain(s) \/ ReleaseNow(s) \/ AttachCall(s)
       \/ Clear(s) \/ AttachSession(s) \/ BridgeDown(s)
       \/ FlashMark(s) \/ FlashEnter(s) \/ FlashUnmark(s) \/ FlashExit(s)
       \/ \E t \in Device : BindCall(s, t)
  \/ \E d \in Device, p \in {0, plugs + 2} : Plug(d, p)
  \/ Watcher
  \/ ShutBegin \/ ShutCancel \/ ShutJoin \/ ShutOps \/ ShutDrain \/ ShutEnd

Spec == Init /\ [][Next]_vars

(* Threads that began go on: workers, calls, the watcher, and the drains,  *)
(* whose reader and writers end.  Nothing makes a client call.             *)
Fairness ==
  /\ \A d \in Device : WF_vars(Worker(d)) /\ WF_vars(CompleteCleanup(d))
  /\ \A k \in Op : WF_vars(BridgeCloses(k))
  /\ \A s \in Session : WF_vars(RpcStep(s)) /\ WF_vars(CompleteDrain(s))
  /\ WF_vars(Watcher)

FairSpec == Spec /\ Fairness

---------------------------------------------------------------------------
(* Behaviours without device.attach.  A port it opened stays in            *)
(* _preopened_ports after a worker has read it, so a release can meet an   *)
(* operation there that is over and answer ok while a bridge has the port. *)
NoPreopened == "attach_device" \notin mix

Held(k) == handle[k] \in {"open", "lost"}
On(d) == {k \in 1..ops : info[k].d = d}

(* A section has taken the operation off the tables, and the thread that   *)
(* did is about to close its port: nothing else knows of it meanwhile.     *)
Dropped(k) ==
  \/ watch[3] = k
  \/ \E d \in Device : wpc[d] = "discard" /\ wop[d] = k
  \/ \E s \in Session : \/ rw[s] = <<"finish", k>>
                        \/ bw[s][1] \in {"finish", "close"} /\ bw[s][2] = k
                        \/ apc[s][1] = "discard" /\ aop[s] = k

(* A device that was released with ok is not used by the daemon until it   *)
(* is asked back: no worker, call or bridge has its port (release_device   *)
(* against attach, hotplug and drain).  Two ports may be open all the      *)
(* same: one that its worker has taken off the tables and is about to      *)
(* close, and one that start() has left open (handle "lost"), which is     *)
(* what ReleasedMeansClosed shows.  device.attach is left aside.           *)
(* And a RELEASED session's device stays blocked: _released_by_ids is what *)
(* every automatic attach looks at.                                        *)
ReleasedMeansUnused ==
  /\ NoPreopened => \A d \in promised : \A k \in On(d) :
                      handle[k] = "open" => Dropped(k)
  /\ \A s \in Session : st[s] = "RELEASED" => dev[s] \in released

(* ... and no port of it is left open at all. *)
ReleasedMeansClosed == \A d \in promised : \A k \in On(d) : ~Held(k)

(* A port that is open has an owner who will close it: a table, a session, *)
(* a drain, or a thread that is about to enter or finish its operation.    *)
(* And at most one thread has, or is opening, a port of a device: a bridge *)
(* that drains is closed before the device is opened again.                *)
(* device.attach is left aside in the second part: its second section does *)
(* not look whether a worker has opened the device meanwhile, and relies   *)
(* on TIOCEXCL.                                                            *)
HandlesAreOwned ==
  /\ \A k \in 1..ops : handle[k] = "open" =>
       \/ k \in closing \/ k \in InTables \/ Dropped(k)
       \/ \E d \in Device : attaching[d] = k \/ (wop[d] = k /\ wpc[d] # "none")
       \/ \E s \in Session : \/ br[s] = k
                             \/ apc[s][1] = "opened" /\ aop[s] = k
  /\ NoPreopened => \A d \in Device : Cardinality({k \in On(d) :
                         handle[k] \in {"opening", "open", "lost"}}) <= 1

(* The gate's recovering flag has a drain or a cancelled attach that will  *)
(* clear it: no session is refused for ever.                               *)
RecoveringHasOwner ==
  NoPreopened => \A s \in Session : flag[s] =>
    \/ pend[s] # NoJob
    \/ \E k \in relreq \ done : info[k].s = s

(* While a session flashes or is being probed for it, its bridge is        *)
(* neither drained nor replaced, unless the daemon stops.  This one and    *)
(* the next are claimed for sessions that keep their device.               *)
FlashKeepsBridge ==
  \A s \in Session : FlashBusy(s) /\ ~Shutting =>
    br[s] # 0 /\ br[s] \notin closing /\ st[s] \notin {"RECOVERING", "RELEASED"}

(* A shutdown that reports graceful leaves no port to an operation, a      *)
(* bridge or a drain, and nothing can open one any more (shutdown_drain,   *)
(* which joins the workers but not the RPC threads).  The same two ports   *)
(* may still be open: one that a call has taken off the tables and is      *)
(* about to close, and one that start() has left open.                     *)
GracefulMeansClosed ==
  down = "graceful" => \A k \in Op :
    handle[k] \in {"opening", "open"} => handle[k] = "open" /\ Dropped(k)

Bounded == ops = MaxOps

(* No session stays ATTACHING or RECOVERING while the daemon runs: the     *)
(* attach succeeds, fails or is undone, the drain or the cancelled attach  *)
(* ends.  session.clear is left aside for ATTACHING: it sets that before   *)
(* it knows that a worker will start, and _spawn_attach may refuse.        *)
TransientStatesEnd ==
  \A s \in Session, x \in {"ATTACHING", "RECOVERING"} :
    st[s] = x /\ NoPreopened /\ (x = "ATTACHING" => "clear" \notin mix)
      ~> (st[s] # x \/ Shutting \/ Bounded)
==============================================================================
