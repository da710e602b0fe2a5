--------------------------- MODULE LifecycleProofs ---------------------------
(***************************************************************************)
(* Why a released device is left alone, why every port has an owner, why a *)
(* flash keeps its bridge and why a graceful stop leaves nothing in use,   *)
(* for any number of sessions, operations, calls and hotplug events, as    *)
(* long as every session keeps the device it is configured for.            *)
(***************************************************************************)
EXTENDS SessionLifecycle, FiniteSetTheorems, TLAPS

\* Every device is configured for one session.
OneEach ==
  /\ \A d \in Device : \E s \in Session : Home[s] = d
  /\ \A s, t \in Session : Home[s] = Home[t] => s = t

\* Nobody calls device.attach or session.bind.
Settled == mix \cap {"attach_device", "bind"} = {}

Bridging == {"start", "started", "probe", "ready", "noprompt", "raised", "failed",
             "nologin", "loggedout"}
AtWork == {"open", "opened", "mark", "handoff", "discard"}
Stages == {"none", "look", "device", "preopen", "exit"} \cup AtWork \cup Bridging
Causes == {"release", "clear", "device_removed", "recover", "io_error", "shutdown"}
States == {"DETACHED", "ATTACHING", "READY", "ATTACHED", "FLASHING", "RECOVERING", "RELEASED"}
Ops == 1 .. ops
Jobs == {NoJob} \cup (Causes \X Ops)

\* The shape of the state; what device.attach and session.bind would use is
\* not used.
Shape ==
  /\ ops \in Nat /\ ops <= MaxOps
  /\ info \in Seq([s : Session, d : Device, path : Nat, gen : Nat]) /\ Len(info) = ops
  /\ path \in [Device -> Nat] /\ gen \in [Session -> Nat] /\ plugs \in Nat
  /\ handle \in [Op -> {"none", "opening", "open", "closed", "lost"}]
  /\ {done, closing, started} \subseteq SUBSET Ops
  /\ relreq \subseteq Ops /\ relreq \subseteq cancelled
  /\ opening \in [Device -> 0 .. ops] /\ active \in [Device -> 0 .. ops]
  /\ attaching \in [Device -> 0 .. ops] /\ preopened = [d \in Device |-> 0]
  /\ drain \in [Device -> Jobs \cup ({"cleanup"} \X Ops)]
  /\ pend \in [Session -> Jobs]
  /\ dev = Home
  /\ st \in [Session -> States] /\ br \in [Session -> 0 .. ops]
  /\ flag \in [Session -> BOOLEAN]
  /\ released \subseteq Device /\ inflight \subseteq Device
  /\ promised \subseteq Device /\ critical \subseteq Session
  /\ wpc \in [Device -> Stages] /\ ws \in [Device -> Session \cup {None}]
  /\ wop \in [Device -> 0 .. ops]
  /\ prev \in [Session -> {"DETACHED", "ATTACHING", "READY", "ATTACHED"}]
  /\ apc = [s \in Session |-> <<"idle", None>>]
  /\ bw = [s \in Session |-> Unbound]
  /\ rw \in [Session -> {NoJob} \cup ({"op", "job"} \X Ops)]
  /\ watch[1] # "idle" => watch[2] \in Device
  /\ watch \in {"idle", "spawn", "device_removed", "recover"} \X (Device \cup {None}) \X {0}
  /\ sops \subseteq Ops
  /\ down \in {"no", "begun", "cancelled", "joined", "ops", "draining", "graceful", "stalled"}
  /\ stalled \in BOOLEAN

\* Where an operation is: with the worker of its device, in the table that
\* goes with the worker's stage, until it is done.
WorkerPlaced(d) ==
  /\ wpc[d] # "none" <=> d \in inflight
  /\ wpc[d] \in {"device", "preopen"} \cup AtWork \cup Bridging =>
       ws[d] \in Session /\ Home[ws[d]] = d
  /\ wpc[d] = "device" => wop[d] = 0
  /\ opening[d] = IF wpc[d] \in {"open", "opened"} THEN wop[d] ELSE 0
  /\ active[d] = IF wpc[d] \in {"mark", "handoff"} THEN wop[d] ELSE 0
  /\ wpc[d] \in AtWork \cup Bridging =>
       /\ wop[d] # 0
       /\ info[wop[d]].d = d /\ info[wop[d]].s = ws[d]
       /\ wop[d] \in done <=> wpc[d] \in Bridging
  /\ wpc[d] = "open" => handle[wop[d]] = "opening"
  /\ wpc[d] = "discard" => handle[wop[d]] \in {"open", "closed"}
  /\ wpc[d] \in {"opened", "mark", "handoff", "start"} => handle[wop[d]] = "open"
  /\ wpc[d] \in AtWork \cup {"start"} => wop[d] \notin started
  /\ wpc[d] \in Bridging \ {"start"} => wop[d] \in started
OpPlaced(k) ==
  /\ Home[info[k].s] = info[k].d
  /\ k \notin done => wpc[info[k].d] \in AtWork /\ wop[info[k].d] = k
  /\ handle[k] = "opening" => k \notin done
WorkersHold ==
  /\ \A d \in Device : WorkerPlaced(d)
  /\ \A k \in Ops : OpPlaced(k)
  /\ \A k \in Op \ Ops : handle[k] = "none"
  /\ closing \cup started \subseteq done

\* A bridge a session has, and one that a worker is about to give it.
BridgeOwned(s) == br[s] # 0 =>
  /\ wpc[Home[s]] \in {"none", "look", "exit"}
  /\ attaching[Home[s]] = 0
  /\ info[br[s]].d = Home[s] /\ br[s] \in started
  /\ br[s] \in closing => pend[s] # NoJob
AttachOwned(d) == attaching[d] # 0 =>
  /\ info[attaching[d]].d = d /\ attaching[d] \in done
  /\ \/ wpc[d] \in Bridging /\ wop[d] = attaching[d]
     \/ drain[d] # NoJob /\ drain[d][2] = attaching[d]
  /\ wpc[d] \in {"failed", "loggedout"} => drain[d] # NoJob
  /\ wpc[d] \notin AtWork
StageFits(d) == wpc[d] \in Bridging =>
  /\ drain[d] # NoJob => drain[d][2] = wop[d]
  /\ wpc[d] \in {"start", "started", "probe", "ready", "noprompt"}
       /\ (wop[d] \in closing \/ attaching[d] # wop[d] \/ drain[d] # NoJob)
       => Shutting \/ d \in released
  /\ attaching[d] \in {0, wop[d]}
BridgesHold ==
  /\ \A s \in Session : BridgeOwned(s)
  /\ \A d \in Device : AttachOwned(d) /\ StageFits(d)

\* What drains: the session's bridge or one that was on its way to it.
DrainOwned(s) ==
  /\ pend[s] # NoJob =>
       /\ info[pend[s][2]].d = Home[s]
       /\ \/ br[s] = pend[s][2]
          \/ pend[s][1] = "release" /\ br[s] = 0 /\ Home[s] \in released
       /\ attaching[Home[s]] # 0 =>
            attaching[Home[s]] = pend[s][2] /\ drain[Home[s]] # NoJob
       /\ pend[s][1] = "release" => Home[s] \in released
       /\ pend[s][1] = "shutdown" => Shutting
       /\ pend[s][2] \in closing
  /\ drain[Home[s]][1] \notin {"none", "cleanup"} => pend[s] = drain[Home[s]]
  /\ drain[Home[s]][1] = "cleanup" => br[s] = 0 /\ info[drain[Home[s]][2]].d = Home[s]
DrainsHold ==
  /\ \A s \in Session : DrainOwned(s)
  /\ \A d \in Device : drain[d] # NoJob => drain[d][2] \in closing

\* An open port is an operation's, a bridge's that is on its way to a session,
\* or a session's; a device has one; and one nobody will close is not met.
PortOwned(k) ==
  \/ attaching[info[k].d] = k
  \/ \E s \in Session : Home[s] = info[k].d /\ br[s] = k
PortsHold ==
  /\ \A k \in done : handle[k] = "open" => PortOwned(k)
  /\ \A j, k \in Ops : /\ info[j].d = info[k].d
                       /\ {handle[j], handle[k]} \subseteq {"opening", "open", "lost"}
                       => j = k
  /\ \A k \in Ops : handle[k] = "lost" => Shutting \/ info[k].d \in released

\* A released device is blocked; only an operation under way has it open, and
\* once the release was answered only one that its worker is about to close.
ReleasesHold ==
  /\ \A s \in Session : st[s] = "RELEASED" =>
       /\ Home[s] \in released
       /\ \A k \in done : info[k].d = Home[s] => handle[k] # "open"
  /\ \A d \in promised :
       /\ d \in released
       /\ \A k \in Ops : info[k].d = d /\ handle[k] \in {"opening", "open"} =>
            wpc[d] = "discard" /\ wop[d] = k

FlagsHold ==
  \A s \in Session : flag[s] =>
    \/ pend[s] # NoJob
    \/ st[s] # "RELEASED" /\ \E k \in relreq \ done : info[k].s = s

\* A session that may flash has its bridge, and nobody drains it.
FlashHolds ==
  ~Shutting => \A s \in Session :
    /\ st[s] \in {"READY", "ATTACHED"} => br[s] # 0
    /\ FlashBusy(s) => br[s] # 0 /\ pend[s] = NoJob /\ st[s] \notin {"RECOVERING", "RELEASED"}

\* A graceful shutdown leaves no port open, "lost" ones aside: nobody has one to
\* close without device.attach and session.bind.
AllClosed == down = "graceful" => \A k \in Op : handle[k] \notin {"opening", "open"}

\* What the shutdown has left open is on its list.
ShutHolds ==
  /\ down \in {"joined", "ops", "draining", "graceful"} /\ ~stalled => inflight = {}
  /\ down = "graceful" => ~stalled
  /\ down = "draining" /\ ~stalled => \A k \in Ops : handle[k] = "open" =>
       \/ \E s \in Session : pend[s] \in sjobs /\ pend[s] # NoJob /\ pend[s][2] = k
       \/ \E d \in Device : drain[d] \in sjobs /\ drain[d] = <<"cleanup", k>>
  /\ AllClosed

\* A device.release that waits for an operation waits for one of its device.
CallsHold ==
  \A s \in Session : rw[s][1] = "op" => info[rw[s][2]].d = Home[s]

Inv ==
  /\ Shape /\ WorkersHold /\ BridgesHold /\ DrainsHold /\ PortsHold
  /\ ReleasesHold /\ FlagsHold /\ FlashHolds /\ ShutHolds /\ CallsHold
USE DEF tabs, made, asked, bridge, ident, job, flash, wloc, aloc, shut, bounds, plant, held,
        seen, vars

------------------------------------------------------------------------------
(* The steps of settled sessions                                           *)

\* What is left of Next.
Moves ==
  \/ \E d \in Device :
       \/ Spawn(d) \/ LookStops(d) \/ Look(d) \/ ReadDevice(d) \/ Preopen(d) \/ Open(d)
       \/ OpenFails(d) \/ Opened(d) \/ Discard(d) \/ Mark(d) \/ HandOff(d) \/ Start(d)
       \/ StartFails(d) \/ StartRefused(d) \/ Started(d) \/ ProbeEnds(d) \/ Publish(d) \/ Raised(d)
       \/ Failed(d) \/ LoginFails(d) \/ LoggedOut(d) \/ Exit(d) \/ CompleteCleanup(d)
  \/ \E k \in Op : BridgeCloses(k)
  \/ \E s \in Session :
       \/ CompleteDrain(s) \/ ReleaseOp(s) \/ ReleaseDrain(s) \/ ReleaseNow(s)
       \/ ReleaseAnswered(s) \/ ReleaseTimeout(s) \/ Clear(s) \/ AttachSession(s)
       \/ BridgeDown(s) \/ FlashMark(s) \/ FlashEnter(s) \/ FlashUnmark(s) \/ FlashExit(s)
  \/ \E d \in Device, p \in {0, plugs + 2} : Plug(d, p)
  \/ PlugDetach \/ PlugSpawn
  \/ ShutBegin \/ ShutCancel \/ ShutJoin \/ ShutOps \/ ShutDrain \/ ShutEnd

\* Nobody calls device.attach or session.bind, and every device has a session.
LEMMA SettledMoves ==
  ASSUME OneEach, Settled, Shape, Next
  PROVE  Moves
<1>1. \A d \in Device : ~LookNobody(d) /\ ~ShutFinish(d)
  BY DEF OneEach, Shape, LookNobody, Bound, ShutFinish, Ops
<1>2. \A s \in Session : ~ReleaseFinish(s)
  <2>1. \A s \in Session : rw[s] = NoJob \/ rw[s][1] \in {"op", "job"}
    BY DEF Shape
  <2> QED BY <2>1 DEF ReleaseFinish, NoJob
<1>4. \A s \in Session :
        /\ ~AttachCall(s) /\ ~AttachScanned(s) /\ ~AttachOpen(s) /\ ~AttachHeld(s)
        /\ ~AttachOpenFails(s) /\ ~AttachOpened(s) /\ ~AttachDiscard(s)
  <2>1. \A s \in Session : apc[s][1] = "idle"
    BY DEF Shape
  <2> QED BY <2>1 DEF Settled, AttachCall, AttachScanned, AttachOpen, AttachHeld,
         AttachOpenFails, AttachOpened, AttachDiscard, AtAttach, Call
<1>3. \A s \in Session :
        /\ \A t \in Device : ~BindCall(s, t)
        /\ ~BindFirst(s) /\ ~BindFinish(s) /\ ~BindWaited(s) /\ ~BindTimeout(s)
        /\ ~BindSecond(s) /\ ~BindClose(s)
  BY DEF Shape, Settled, BindCall, BindFirst, BindFinish, BindWaited, BindTimeout, BindSecond,
     BindClose, AtBind, Unbound, Call
<1>5. ~PlugFinish
  BY DEF Shape, PlugFinish
<1> QED
  BY <1>1, <1>2, <1>3, <1>4, <1>5 DEF Next, Moves, Worker, Drains, RpcStep, Watcher

------------------------------------------------------------------------------
(* What a step does to the ports                                           *)

\* What no worker changes, and no other worker.
Elsewhere ==
  UNCHANGED <<asked, pend, dev, promised, critical, prev, apc, bw, rw, watch, path, plugs,
              sops, down, stalled, sjobs, mix, preopened>>
Others(d) ==
  /\ \E l \in Stages, s \in Session \cup {None}, k \in 0 .. ops' :
       wpc' = Set(wpc, d, l) /\ ws' = Set(ws, d, s) /\ wop' = Set(wop, d, k)
  /\ inflight' \subseteq Device
  /\ \A e \in Device \ {d} : e \in inflight' <=> e \in inflight
Stay(d) == ws' = ws /\ wop' = wop /\ inflight' = inflight

\* Only sessions without a bridge are marked, as waiting or as gone.
Idles ==
  /\ st' \in [Session -> States]
  /\ \A s \in Session :
       st'[s] = st[s] \/ (br[s] = 0 /\ st'[s] \in {"DETACHED", "ATTACHING"})

\* A worker moves between stages in which it has no operation.
Walks(d) ==
  /\ Elsewhere /\ Others(d) /\ Idles
  /\ {wpc[d], wpc'[d]} \subseteq {"none", "look", "device", "preopen", "exit"}
  /\ d \in inflight' <=> wpc'[d] # "none"
  /\ d \in inflight' => d \in inflight \/ ~Shutting
  /\ wpc'[d] \in {"device", "preopen"} =>
       ws'[d] \in Session /\ Home[ws'[d]] = d /\ br[ws'[d]] = 0
  /\ wpc'[d] = "device" => wop'[d] = 0
  /\ UNCHANGED <<ops, info, handle, done, opening, active, attaching, started, closing,
                 drain, br, flag, released, gen>>

\* It makes an operation.
Enters(d) ==
  /\ Elsewhere /\ Others(d) /\ UNCHANGED <<ws, inflight, st>>
  /\ wpc[d] = "preopen" /\ wpc'[d] = "open" /\ wop'[d] = ops + 1
  /\ ~Shutting /\ d \notin released /\ br[ws[d]] = 0 /\ drain[d] = NoJob
  /\ ops < MaxOps /\ ops' = ops + 1
  /\ info' = Append(info, [s |-> ws[d], d |-> d, path |-> path[d], gen |-> gen[ws[d]]])
  /\ opening' = Set(opening, d, ops + 1)
  /\ handle' = Set(handle, ops + 1, "opening")
  /\ UNCHANGED <<done, active, attaching, started, closing, drain, br, flag, released, gen>>

\* It opens the port, and prepares for the bridge or takes the operation off
\* the tables.
Works(d) ==
  /\ Elsewhere /\ Others(d) /\ Stay(d) /\ Idles
  /\ wpc[d] \in AtWork \ {"discard"} /\ wpc'[d] \in AtWork \ {"open"}
  /\ opening' = Set(opening, d, IF wpc'[d] = "opened" THEN wop[d] ELSE 0)
  /\ active' = Set(active, d, IF wpc'[d] \in {"mark", "handoff"} THEN wop[d] ELSE 0)
  /\ \E h \in {"open", "closed"} :
       /\ handle' = Set(handle, wop[d], h)
       /\ wpc'[d] # "discard" => h = "open"
  /\ UNCHANGED <<ops, info, done, attaching, started, closing, drain, br, flag, released, gen>>

\* It gives up, and closes the port; a release that came takes effect.
Finishes(d) ==
  /\ Elsewhere /\ Others(d) /\ Stay(d)
  /\ wpc[d] \in AtWork /\ wpc'[d] = "exit"
  /\ opening' = Set(opening, d, 0) /\ active' = Set(active, d, 0)
  /\ done' = done \cup {wop[d]}
  /\ handle' = Set(handle, wop[d], "closed")
  /\ IF wop[d] \in relreq
     THEN /\ st' = Set(st, ws[d], "RELEASED")
          /\ flag' \in {flag, Set(flag, ws[d], FALSE)}
          /\ flag' = flag => st[ws[d]] = "RELEASED" \/ ~flag[ws[d]]
          /\ released' = released \cup {d}
     ELSE Idles /\ UNCHANGED <<flag, released>>
  /\ UNCHANGED <<ops, info, attaching, started, closing, drain, br, gen>>

\* The port goes to a bridge.
HandsOver(d) ==
  /\ Elsewhere /\ Others(d) /\ Stay(d)
  /\ wpc[d] = "handoff" /\ wpc'[d] = "start"
  /\ ~Shutting /\ drain[d] = NoJob /\ st[ws[d]] # "RELEASED" /\ d \notin released
  /\ wop[d] \notin relreq
  /\ attaching' = Set(attaching, d, wop[d]) /\ done' = done \cup {wop[d]}
  /\ active' = Set(active, d, 0)
  /\ UNCHANGED <<ops, info, handle, opening, started, closing, drain, st, br, flag, released,
                 gen>>

\* The bridge starts, or does not.
Starts(d) ==
  /\ Elsewhere /\ Others(d) /\ Stay(d)
  /\ wpc[d] = "start" /\ wpc'[d] \in {"started", "raised"}
  /\ \E h \in {"open", "closed", "lost"} :
       /\ handle' = Set(handle, wop[d], h)
       /\ h = "lost" => wop[d] \in closing
  /\ started' = started \cup {wop[d]}
  /\ UNCHANGED <<ops, info, done, opening, active, attaching, closing, drain, st, br, flag,
                 released, gen>>

\* The target is probed, or the bridge is stopped, or left to a drain.
Probes(d) ==
  /\ Elsewhere /\ Others(d) /\ Stay(d) /\ Idles
  /\ wpc[d] \in Bridging \ {"start"}
  /\ \/ wpc[d] \in {"started", "probe"} /\ wpc'[d] \in {"probe", "ready", "noprompt"}
        /\ UNCHANGED <<drain, closing>>
     \/ wpc'[d] \in {"raised", "nologin"} /\ UNCHANGED <<drain, closing>>
     \/ /\ wpc'[d] = "exit" /\ UNCHANGED <<drain, closing>>
        /\ attaching[d] # 0 => drain[d] # NoJob
     \/ wpc'[d] \in {"exit", "failed", "loggedout"} /\ BeginCleanup(d, wop[d])
  /\ UNCHANGED <<ops, info, handle, done, opening, active, attaching, started, br, flag,
                 released, gen>>

\* The session gets the bridge.
Publishes(d) ==
  /\ Elsewhere /\ Others(d) /\ Stay(d)
  /\ wpc[d] \in {"ready", "noprompt"} /\ wpc'[d] = "exit"
  /\ ~Shutting /\ st[ws[d]] # "RELEASED" /\ d \notin released
  /\ br' = Set(br, ws[d], wop[d])
  /\ \E x \in {"READY", "ATTACHED"} : st' = Set(st, ws[d], x)
  /\ gen' = Set(gen, ws[d], gen[ws[d]] + 1)
  /\ attaching' = Set(attaching, d, 0)
  /\ UNCHANGED <<ops, info, handle, done, opening, active, started, closing, drain, flag,
                 released>>

WorkerMoves(d) ==
  \/ Walks(d) \/ Enters(d) \/ Works(d) \/ Finishes(d) \/ HandsOver(d) \/ Starts(d)
  \/ Probes(d) \/ Publishes(d)

\* Where a worker is.
LEMMA WorkerPlace ==
  ASSUME OneEach, Shape, WorkersHold, BridgesHold, NEW d \in Device
  PROVE  /\ wpc[d] \in Stages /\ wop[d] \in 0 .. ops /\ ops \in Nat /\ Ops \subseteq Op
         /\ preopened[d] = 0
         /\ wpc[d] \in AtWork \cup Bridging => wop[d] \in Ops
         /\ wpc[d] \in {"device", "preopen"} \cup AtWork \cup Bridging =>
              ws[d] \in Session /\ Home[ws[d]] = d /\ br[ws[d]] = 0 /\ dev[ws[d]] = d
         /\ wpc[d] \in AtWork => wop[d] \notin done
         /\ wpc[d] \in Bridging => wop[d] \in done
         /\ \A e \in Device \ {d} :
              wpc[d] \in AtWork => opening[e] # wop[d] /\ active[e] # wop[d]
<1>1. wpc[d] \in Stages /\ wop[d] \in 0 .. ops /\ ops \in Nat /\ Ops \subseteq Op
      /\ preopened[d] = 0
  BY LifecycleAssumption DEF Shape, Ops, Op
<1>2. wpc[d] \in AtWork \cup Bridging => wop[d] \in Ops
  BY <1>1 DEF WorkersHold, WorkerPlaced, OpPlaced, Ops
<1>3. wpc[d] \in {"device", "preopen"} \cup AtWork \cup Bridging =>
        ws[d] \in Session /\ Home[ws[d]] = d /\ br[ws[d]] = 0 /\ dev[ws[d]] = d
  BY ZenonT(40) DEF WorkersHold, WorkerPlaced, OpPlaced, BridgesHold, BridgeOwned, AttachOwned, StageFits,
     Shape, AtWork, Bridging
<1>4. wpc[d] \in AtWork => wop[d] \notin done
  BY DEF WorkersHold, WorkerPlaced, OpPlaced, AtWork, Bridging
<1>5. wpc[d] \in Bridging => wop[d] \in done
  BY DEF WorkersHold, WorkerPlaced, OpPlaced
<1>6. ASSUME NEW e \in Device \ {d}, wpc[d] \in AtWork
      PROVE  opening[e] # wop[d] /\ active[e] # wop[d]
  <2>1. wop[d] # 0 /\ info[wop[d]].d = d
    BY <1>6 DEF WorkersHold, WorkerPlaced, OpPlaced
  <2>2. opening[e] # 0 => wop[e] = opening[e] /\ info[opening[e]].d = e
    BY DEF WorkersHold, WorkerPlaced, OpPlaced, AtWork
  <2>3. active[e] # 0 => wop[e] = active[e] /\ info[active[e]].d = e
    BY DEF WorkersHold, WorkerPlaced, OpPlaced, AtWork
  <2> QED BY <2>1, <2>2, <2>3
<1> QED BY <1>1, <1>2, <1>3, <1>4, <1>5, <1>6

\* How an operation ends when only its worker can end it.
LEMMA OpFinishes ==
  ASSUME OneEach, Shape, WorkersHold, BridgesHold, NEW d \in Device, wpc[d] \in AtWork,
         NEW st0 \in [Session -> States],
         \A s \in Session : st0[s] = st[s] \/ (s = ws[d] /\ st0[s] = "DETACHED"),
         FinishOp(wop[d], st0), wpc' = Set(wpc, d, "exit"), Stay(d),
         preopened' = preopened => Elsewhere,
         UNCHANGED <<ops, info, attaching, started, closing, drain, gen>>
  PROVE  Finishes(d)
<1> DEFINE k == wop[d]
           s == ws[d]
<1>0. /\ k \in Ops /\ k \in Op /\ k # 0 /\ k \notin done
      /\ s \in Session /\ Home[s] = d /\ br[s] = 0 /\ info[k].s = s /\ info[k].d = d
  BY WorkerPlace DEF WorkersHold, WorkerPlaced, OpPlaced, Ops
<1> HIDE DEF k, s
<1>a. /\ opening' = Without(opening, k) /\ preopened' = Without(preopened, k)
      /\ active' = Without(active, k) /\ done' = done \cup {k}
      /\ \E stop \in BOOLEAN :
           /\ handle' = [j \in Op |-> IF (j = k /\ k \notin done) \/ (stop /\ j = br[s])
                                     THEN "closed" ELSE handle[j]]
           /\ br' = IF stop THEN Set(br, s, 0) ELSE br
  BY <1>0 DEF FinishOp, k, s
<1>1. opening' = Set(opening, d, 0) /\ active' = Set(active, d, 0) /\ preopened' = preopened
  <2>0. /\ opening \in [Device -> 0 .. ops] /\ active \in [Device -> 0 .. ops]
        /\ preopened = [e \in Device |-> 0]
    BY DEF Shape
  <2>1. \A e \in Device : (opening[e] = k => e = d) /\ (active[e] = k => e = d) /\ preopened[e] # k
    <3>1. \A e \in Device \ {d} : opening[e] # wop[d] /\ active[e] # wop[d]
      BY WorkerPlace
    <3> QED BY <3>1, <2>0, <1>0 DEF k
  <2>2. opening[d] \in {0, k} /\ active[d] \in {0, k}
    BY DEF WorkersHold, WorkerPlaced, OpPlaced, k
  <2>3. Without(opening, k) = Set(opening, d, 0) /\ Without(active, k) = Set(active, d, 0)
    BY <2>0, <2>1, <2>2 DEF Without, Set
  <2>4. Without(preopened, k) = preopened
    BY <2>0, <2>1 DEF Without
  <2> QED BY <2>3, <2>4, <1>a
<1>2. br' = br /\ handle' = Set(handle, k, "closed") /\ done' = done \cup {k}
  <2>1. \A j \in Op : j # br[s]
    BY <1>0 DEF Op
  <2>2. handle \in [Op -> {"none", "opening", "open", "closed", "lost"}]
        /\ br \in [Session -> 0 .. ops]
    BY DEF Shape
  <2>3. PICK stop \in BOOLEAN :
          /\ handle' = [j \in Op |-> IF (j = k /\ k \notin done) \/ (stop /\ j = br[s])
                                    THEN "closed" ELSE handle[j]]
          /\ br' = IF stop THEN Set(br, s, 0) ELSE br
    BY <1>a
  <2>4. Set(br, s, 0) = br
    BY <2>2, <1>0 DEF Set
  <2>5. handle' = Set(handle, k, "closed")
    BY <2>1, <2>2, <2>3, <1>0 DEF Set
  <2> QED BY <2>3, <2>4, <2>5, <1>a
<1>3. IF k \in relreq
      THEN /\ st' = Set(st, s, "RELEASED")
           /\ flag' \in {flag, Set(flag, s, FALSE)}
           /\ flag' = flag => st[s] = "RELEASED" \/ ~flag[s]
           /\ released' = released \cup {d}
      ELSE Idles /\ UNCHANGED <<flag, released>>
  <2>1. CASE k \in relreq
    <3>1. st' = Set(st0, s, "RELEASED") /\ released' = released \cup {d}
          /\ flag' = IF st0[s] # "RELEASED" THEN Set(flag, s, FALSE) ELSE flag
      BY <2>1, <1>0 DEF FinishOp, k, s
    <3>2. Set(st0, s, "RELEASED") = Set(st, s, "RELEASED")
      BY ZenonT(40), <1>0 DEF Set, Shape, s
    <3> QED BY <2>1, <3>1, <3>2, <1>0 DEF Set, Shape
  <2>2. CASE k \notin relreq
    <3>1. st' = st0 /\ flag' = flag /\ released' = released
      BY <2>2, <1>0 DEF FinishOp, k, s
    <3> QED BY <2>2, <3>1, <1>0 DEF Idles, s
  <2> QED BY <2>1, <2>2
<1>4. Others(d)
  <2>1. ws' = Set(ws, d, ws[d]) /\ wop' = Set(wop, d, wop[d])
    BY DEF Stay, Set, Shape
  <2>2. inflight' = inflight /\ wop[d] \in 0 .. ops'
    BY WorkerPlace DEF Stay
  <2> QED BY <2>1, <2>2, <1>0 DEF Others, Stages, Shape
<1>5. wpc'[d] = "exit"
  BY DEF Set, Shape
<1> QED BY <1>0, <1>1, <1>2, <1>3, <1>4, <1>5 DEF Finishes, k, s

\* Every action of a worker is one of these.
LEMMA WorkerKinds ==
  ASSUME OneEach, Shape, WorkersHold, BridgesHold, DrainsHold, NEW d \in Device,
         \/ Spawn(d) \/ LookStops(d) \/ Look(d) \/ ReadDevice(d) \/ Preopen(d) \/ Open(d)
         \/ OpenFails(d) \/ Opened(d) \/ Discard(d) \/ Mark(d) \/ HandOff(d) \/ Start(d)
         \/ StartFails(d) \/ StartRefused(d) \/ Started(d) \/ ProbeEnds(d) \/ Publish(d) \/ Raised(d)
         \/ Failed(d) \/ LoginFails(d) \/ LoggedOut(d) \/ Exit(d)
  PROVE  WorkerMoves(d) \/ (Spawn(d) /\ Idles /\ UNCHANGED <<wpc, inflight>>)
<1> DEFINE k == wop[d]
           s == ws[d]
<1>0. /\ wpc \in [Device -> Stages] /\ ws \in [Device -> Session \cup {None}]
      /\ wop \in [Device -> 0 .. ops] /\ inflight \subseteq Device
      /\ opening \in [Device -> 0 .. ops] /\ active \in [Device -> 0 .. ops]
      /\ attaching \in [Device -> 0 .. ops] /\ ops \in Nat
      /\ handle \in [Op -> {"none", "opening", "open", "closed", "lost"}]
      /\ st \in [Session -> States] /\ br \in [Session -> 0 .. ops] /\ dev = Home
      /\ Home \in [Session -> Device] /\ flag \in [Session -> BOOLEAN]
  BY LifecycleAssumption DEF Shape
<1>w. /\ wpc[d] \in Stages /\ k \in 0 .. ops /\ Ops \subseteq Op /\ preopened[d] = 0
      /\ wpc[d] \in AtWork \cup Bridging => k \in Ops /\ k # 0
      /\ wpc[d] \in {"device", "preopen"} \cup AtWork \cup Bridging =>
           s \in Session /\ Home[s] = d /\ br[s] = 0 /\ dev[s] = d
      /\ wpc[d] \in AtWork => k \notin done
      /\ wpc[d] \in Bridging => k \in done
  BY WorkerPlace DEF WorkersHold, WorkerPlaced, OpPlaced
<1>p. ASSUME NEW l \in Stages, NEW u \in Session \cup {None}, NEW j \in 0 .. ops',
             Go(d, l), ws' = Set(ws, d, u), wop' = Set(wop, d, j), inflight' \subseteq Device,
             \A e \in Device \ {d} : e \in inflight' <=> e \in inflight
      PROVE  Others(d) /\ wpc'[d] = l /\ ws'[d] = u /\ wop'[d] = j
  <2>1. wpc' = Set(wpc, d, l)
    BY <1>p DEF Go
  <2>2. Others(d)
    BY <1>p, <2>1 DEF Others
  <2> QED BY <1>0, <1>p, <2>1, <2>2 DEF Set
<1>o. ASSUME NEW l \in Stages, Go(d, l), Stay(d), ops' = ops
      PROVE  Others(d) /\ wpc'[d] = l
  <2>1. ws' = Set(ws, d, s) /\ wop' = Set(wop, d, k)
    BY <1>0, <1>o DEF Stay, Set
  <2>2. k \in 0 .. ops' /\ s \in Session \cup {None}
    BY <1>0, <1>o
  <2> QED BY <2>1, <2>2, <1>0, <1>o DEF Others, Go, Set, Stay
<1>i. ASSUME NEW u \in Session, br[u] = 0, NEW x \in {"DETACHED", "ATTACHING"}, st' = Set(st, u, x)
      PROVE  Idles
  BY <1>0, <1>i DEF Idles, Set, States
<1>j. ASSUME st' = st
      PROVE  Idles
  BY <1>0, <1>j DEF Idles
<1>r. ASSUME st' = Reverted(d)
      PROVE  Idles
  BY <1>0, <1>r DEF Idles, Reverted, States
<1> HIDE DEF k, s
<1>1. CASE Spawn(d)
  <2>1. Idles
    BY <1>1, <1>j, <1>r DEF Spawn
  <2>2. CASE UNCHANGED <<wpc, inflight>>
    BY <1>1, <2>1, <2>2
  <2>3. CASE ~ UNCHANGED <<wpc, inflight>>
    <3>1. /\ ~Shutting /\ inflight' = inflight \cup {d} /\ Go(d, "look") /\ d \notin inflight
          /\ UNCHANGED <<ws, wop, ops>>
      BY <1>1, <2>3 DEF Spawn, Go
    <3>2. Others(d) /\ wpc'[d] = "look"
      <4>1. ws' = Set(ws, d, s) /\ wop' = Set(wop, d, k)
        BY <1>0, <3>1 DEF Set, s, k
      <4>2. k \in 0 .. ops' /\ s \in Session \cup {None}
        BY <1>0, <3>1 DEF s, k
      <4>3. inflight' \subseteq Device /\ \A e \in Device \ {d} : e \in inflight' <=> e \in inflight
        BY <1>0, <3>1
      <4> QED BY <4>1, <4>2, <4>3, <1>p, <3>1 DEF Stages
    <3>3. wpc[d] = "none"
      BY <3>1 DEF WorkersHold, WorkerPlaced, OpPlaced
    <3> QED BY <1>1, <2>1, <3>1, <3>2, <3>3 DEF Spawn, Walks, WorkerMoves, Elsewhere
  <2> QED BY <2>2, <2>3
<1>2. CASE LookStops(d)
  <2>1. Idles
    BY <1>2, <1>j, <1>r DEF LookStops
  <2>2. Others(d) /\ wpc'[d] = "exit" /\ wpc[d] = "look"
    BY <1>2, <1>o DEF LookStops, Stay, Stages, At
  <2>3. d \in inflight
    BY <2>2 DEF WorkersHold, WorkerPlaced, OpPlaced
  <2> QED BY <1>2, <2>1, <2>2, <2>3 DEF LookStops, Walks, WorkerMoves, Elsewhere, Idles
<1>3. CASE Look(d)
  <2>1. PICK u \in Session : dev[u] = d /\ dev' = Set(dev, u, d) /\ ws' = Set(ws, d, u) /\ br[u] = 0
    <3>1. Bound(d) # {}
      BY <1>0 DEF OneEach, Bound
    <3> QED BY <1>3, <3>1 DEF Look, Bound
  <2>2. dev' = dev /\ preopened' = preopened /\ active' = active /\ wop' = Set(wop, d, 0)
    <3>1. dev' = dev
      BY <1>0, <2>1 DEF Set
    <3>2. wop' = Set(wop, d, 0) /\ preopened' = Set(preopened, d, 0) /\ active' = active
      BY <1>3, <1>w DEF Look
    <3>3. Set(preopened, d, 0) = preopened
      BY <1>w DEF Set, Shape
    <3> QED BY <3>1, <3>2, <3>3
  <2>3. Others(d) /\ wpc'[d] = "device" /\ wpc[d] = "look" /\ ws'[d] = u /\ wop'[d] = 0
    <3>1. inflight' = inflight /\ Go(d, "device") /\ wpc[d] = "look" /\ ops' = ops
      BY <1>3 DEF Look, At
    <3> QED BY <3>1, <2>1, <2>2, <1>p, <1>0 DEF Stages
  <2>4. d \in inflight
    BY <2>3 DEF WorkersHold, WorkerPlaced, OpPlaced
  <2> QED BY <1>0, <1>3, <1>j, <2>1, <2>2, <2>3, <2>4 DEF Look, Walks, WorkerMoves, Elsewhere
<1>4. CASE ReadDevice(d)
  <2>1. wpc[d] = "device" /\ k = 0 /\ d \in inflight
    BY <1>4 DEF ReadDevice, At, WorkersHold, WorkerPlaced, OpPlaced, k
  <2>2. wop' = wop
    BY <1>0, <1>w, <1>4, <2>1 DEF ReadDevice, Set, k
  <2>3. /\ \E l \in {"exit", "preopen"} : Go(d, l)
        /\ st' = st \/ st' = Set(st, s, "DETACHED")
        /\ UNCHANGED <<held, flag, br, released>>
    BY <1>w, <1>4, <2>1 DEF ReadDevice, FinishOp, k, s
  <2>4. Idles
    BY <1>i, <1>j, <1>w, <2>1, <2>3
  <2>5. Others(d) /\ wpc'[d] \in {"exit", "preopen"}
    BY <1>4, <1>o, <2>2, <2>3 DEF ReadDevice, Stay, Stages
  <2> QED BY <1>4, <1>w, <2>1, <2>2, <2>3, <2>4, <2>5
          DEF ReadDevice, Walks, WorkerMoves, Elsewhere, s
<1>5. CASE Preopen(d)
  <2>1. wpc[d] = "preopen" /\ d \in inflight
    BY <1>5 DEF Preopen, At, WorkersHold, WorkerPlaced, OpPlaced
  <2>2. CASE Go(d, "exit") /\ UNCHANGED <<made, opening, handle, wop>>
    <3>1. Others(d) /\ wpc'[d] = "exit"
      BY <1>5, <1>o, <2>2 DEF Preopen, Stay, Stages
    <3> QED BY <1>5, <1>j, <2>1, <2>2, <3>1 DEF Preopen, Walks, WorkerMoves, Elsewhere
  <2>3. CASE /\ ~Shutting /\ br[s] = 0 /\ d \notin released /\ drain[d] = NoJob
             /\ NewOp(d, s) /\ wop' = Set(wop, d, ops + 1) /\ Go(d, "open")
    <3>1. Others(d) /\ wpc'[d] = "open" /\ wop'[d] = ops + 1
      <4>1. ws' = Set(ws, d, s) /\ inflight' = inflight
        BY <1>0, <1>5 DEF Preopen, Set, s
      <4>2. s \in Session \cup {None} /\ ops + 1 \in 0 .. ops'
        BY <1>0, <2>3 DEF NewOp, s
      <4> QED BY <4>1, <4>2, <1>p, <1>0, <2>3 DEF Stages, AtWork
    <3> QED BY <1>5, <2>1, <2>3, <3>1 DEF Preopen, NewOp, Enters, WorkerMoves, Elsewhere, s
  <2> QED BY <1>5, <1>w, <2>2, <2>3 DEF Preopen, s
<1>t. wpc[d] \in AtWork =>
        /\ opening[d] = IF wpc[d] \in {"open", "opened"} THEN k ELSE 0
        /\ active[d] = IF wpc[d] \in {"mark", "handoff"} THEN k ELSE 0
        /\ wpc[d] # "discard" =>
             handle[k] = IF wpc[d] = "open" THEN "opening" ELSE "open"
  BY DEF WorkersHold, WorkerPlaced, OpPlaced, AtWork, k
<1>v. Set(opening, d, opening[d]) = opening /\ Set(active, d, active[d]) = active
      /\ (k \in Op => Set(handle, k, handle[k]) = handle)
  BY <1>0 DEF Set
<1>6. CASE Open(d)
  <2>1. wpc[d] = "open" /\ wpc'[d] = "opened" /\ Others(d)
    BY <1>6, <1>o DEF Open, At, Stages, AtWork, Stay
  <2>2. opening' = Set(opening, d, k) /\ active' = Set(active, d, 0)
    BY <1>6, <2>1, <1>t, <1>v DEF Open, AtWork
  <2>3. handle' = Set(handle, k, "open")
    BY <1>6 DEF Open, k
  <2> QED BY <1>6, <1>j, <2>1, <2>2, <2>3 DEF Open, Works, WorkerMoves, Elsewhere, Stay, AtWork, k
<1>f. ASSUME wpc[d] \in AtWork, NEW st0 \in [Session -> States],
             \A u \in Session : st0[u] = st[u] \/ (u = s /\ st0[u] = "DETACHED"),
             FinishOp(k, st0), Go(d, "exit"), preopened' = preopened => Elsewhere, Stay(d),
             UNCHANGED <<ops, info, attaching, started, closing, drain, gen>>
      PROVE  WorkerMoves(d)
  <2>1. Finishes(d)
    BY <1>f, OpFinishes DEF Go, k, s
  <2> QED BY <2>1 DEF WorkerMoves
<1>s. /\ \A u \in Session : st[u] = st[u] \/ (u = s /\ st[u] = "DETACHED")
      /\ s \in Session => /\ Set(st, s, "DETACHED") \in [Session -> States]
                          /\ \A u \in Session : \/ Set(st, s, "DETACHED")[u] = st[u]
                                                \/ u = s /\ Set(st, s, "DETACHED")[u] = "DETACHED"
  BY <1>0 DEF Set, States
<1>x. ASSUME wpc[d] \in {"open", "opened"} PROVE Without(opening, k) = Set(opening, d, 0)
  <2>1. opening[d] = k /\ \A e \in Device \ {d} : opening[e] # k
    BY <1>x, <1>t, WorkerPlace DEF AtWork, k
  <2>2. opening \in [Device -> 0 .. ops]
    BY <1>0
  <2>3. \A e \in Device : (IF opening[e] = k THEN 0 ELSE opening[e])
                          = (IF e = d THEN 0 ELSE opening[e])
    BY <2>1
  <2>4. Without(opening, k) = [e \in Device |-> IF e = d THEN 0 ELSE opening[e]]
    BY <2>3 DEF Without
  <2> QED BY <2>2, <2>4 DEF Set
<1>7. CASE OpenFails(d)
  <2>1. wpc[d] = "open"
    BY <1>7 DEF OpenFails, At
  <2>2. Elsewhere /\ Stay(d) /\ Go(d, "discard") /\ handle' = Set(handle, k, "closed")
        /\ opening' = Without(opening, k) /\ (st' = st \/ st' = Set(st, s, "DETACHED"))
        /\ UNCHANGED <<ops, info, done, active, attaching, started, closing, drain, br, flag,
                       released, gen>>
    BY <1>7 DEF OpenFails, Elsewhere, Stay, k, s
  <2>3. Others(d) /\ wpc'[d] = "discard"
    BY <1>o, <2>2 DEF Stages, AtWork
  <2>4. opening' = Set(opening, d, 0) /\ active' = Set(active, d, 0)
    BY <1>t, <1>v, <1>x, <2>1, <2>2 DEF AtWork
  <2>5. Idles
    BY <1>0, <1>i, <1>w, <2>1, <2>2 DEF Idles, AtWork
  <2> QED BY <2>1, <2>2, <2>3, <2>4, <2>5 DEF Works, WorkerMoves, AtWork, k
<1>8. CASE Opened(d)
  <2>1. wpc[d] = "opened" /\ opening' = Set(opening, d, 0)
    BY <1>8, <1>x DEF Opened, At, k
  <2>2. Elsewhere /\ Stay(d)
        /\ UNCHANGED <<ops, info, handle, done, attaching, started, closing, drain, br, flag,
                       released, gen>>
    BY <1>8 DEF Opened, Elsewhere, Stay
  <2>3. handle' = Set(handle, k, "open")
    BY <1>t, <1>v, <1>w, <2>1, <2>2 DEF AtWork
  <2>4. CASE Go(d, "discard") /\ UNCHANGED <<active, st>>
    <3>1. Others(d) /\ wpc'[d] = "discard"
      BY <1>o, <2>2, <2>4 DEF Stages, AtWork
    <3>2. active' = Set(active, d, 0)
      BY <1>t, <1>v, <2>1, <2>4 DEF AtWork
    <3>3. Idles
      BY <1>0, <2>4 DEF Idles
    <3> QED BY <2>1, <2>2, <2>3, <3>1, <3>2, <3>3 DEF Works, WorkerMoves, AtWork, k
  <2>5. CASE active' = Set(active, d, k) /\ st' = Set(st, s, "ATTACHING") /\ Go(d, "mark")
    <3>1. Others(d) /\ wpc'[d] = "mark"
      BY <1>o, <2>2, <2>5 DEF Stages, AtWork
    <3>2. Idles
      BY <1>i, <1>w, <2>1, <2>5 DEF AtWork
    <3> QED BY <2>1, <2>2, <2>3, <2>5, <3>1, <3>2 DEF Works, WorkerMoves, AtWork, k
  <2> QED BY <1>8, <2>4, <2>5 DEF Opened, k, s
<1>22. CASE Discard(d)
  <2>1. wpc[d] \in AtWork
    BY <1>22 DEF Discard, At, AtWork
  <2>2. (preopened' = preopened => Elsewhere) /\ Stay(d) /\ Go(d, "exit")
        /\ UNCHANGED <<ops, info, attaching, started, closing, drain, gen>>
    BY <1>22 DEF Discard, Elsewhere, Stay
  <2>3. FinishOp(k, st)
    BY <1>22 DEF Discard, k
  <2> QED BY <1>0, <1>s, <1>f, <2>1, <2>2, <2>3
<1>9. CASE Mark(d)
  <2>1. wpc[d] = "mark" /\ wpc[d] \in AtWork
    BY <1>9 DEF Mark, At, AtWork
  <2>2. (preopened' = preopened => Elsewhere) /\ Stay(d)
        /\ UNCHANGED <<ops, info, attaching, started, closing, drain, gen>>
    BY <1>9 DEF Mark, Elsewhere, Stay
  <2>3. CASE (FinishOp(k, st) \/ FinishOp(k, Set(st, s, "DETACHED"))) /\ Go(d, "exit")
    BY <1>0, <1>w, <1>s, <1>f, <2>1, <2>2, <2>3
  <2>4. CASE /\ st' = Set(st, s, "ATTACHING") /\ Go(d, "handoff")
             /\ UNCHANGED <<held, flag, br, released>>
    <3>1. Others(d) /\ wpc'[d] = "handoff"
      BY <1>o, <2>2, <2>4 DEF Stages, AtWork
    <3>2. handle' = Set(handle, k, "open") /\ opening' = Set(opening, d, 0)
          /\ active' = Set(active, d, k)
      BY <1>t, <1>v, <1>w, <2>1, <2>4
    <3>3. Idles
      BY <1>i, <1>w, <2>1, <2>4
    <3> QED BY <2>1, <2>2, <2>4, <3>1, <3>2, <3>3 DEF Works, WorkerMoves, AtWork, k
  <2> QED BY <1>9, <2>3, <2>4 DEF Mark, k, s
<1>10. CASE HandOff(d)
  <2>1. wpc[d] = "handoff" /\ wpc[d] \in AtWork
    BY <1>10 DEF HandOff, At, AtWork
  <2>2. CASE FinishOp(k, st) /\ Go(d, "exit") /\ UNCHANGED <<made, attaching, wop>>
    <3>1. (preopened' = preopened => Elsewhere) /\ Stay(d)
          /\ UNCHANGED <<ops, info, attaching, started, closing, drain, gen>>
      BY <1>10, <2>2 DEF HandOff, Elsewhere, Stay
    <3> QED BY <1>0, <1>s, <1>f, <2>1, <2>2, <3>1
  <2>3. CASE /\ ~Shutting /\ drain[d] = NoJob /\ st[s] # "RELEASED" /\ d \notin released
             /\ k \notin cancelled
             /\ attaching' = Set(attaching, d, k) /\ done' = done \cup {k}
             /\ UNCHANGED <<made, wop>>
             /\ active' = Set(active, d, IF active[d] = k THEN 0 ELSE active[d])
             /\ Go(d, "start") /\ UNCHANGED <<opening, preopened, handle, seen>>
    <3>1. Stay(d) /\ Elsewhere /\ UNCHANGED <<started, closing, drain, gen>>
      BY <1>10, <2>3 DEF HandOff, Stay, Elsewhere
    <3>2. Others(d) /\ wpc'[d] = "start"
      BY <1>o, <2>3, <3>1 DEF Stages, Bridging
    <3>3. active[d] = k
      BY <1>t, <2>1
    <3>4. k \notin relreq
      BY <2>3 DEF Shape
    <3> QED BY <2>1, <2>3, <3>1, <3>2, <3>3, <3>4 DEF HandsOver, WorkerMoves, k, s
  <2> QED BY <1>10, <1>w, <2>1, <2>2, <2>3 DEF HandOff, k, s
<1>q. ASSUME Stay(d), UNCHANGED <<ops, info, handle, done, opening, active, attaching, started, br,
                                  flag, released, gen>>,
             Elsewhere, Idles, wpc[d] \in Bridging \ {"start"},
             \E l \in Stages :
               /\ Go(d, l)
               /\ \/ wpc[d] \in {"started", "probe"} /\ l \in {"probe", "ready", "noprompt"}
                     /\ UNCHANGED <<drain, closing>>
                  \/ l \in {"raised", "nologin"} /\ UNCHANGED <<drain, closing>>
                  \/ /\ l = "exit" /\ UNCHANGED <<drain, closing>>
                     /\ attaching[d] # 0 => drain[d] # NoJob
                  \/ l \in {"exit", "failed", "loggedout"} /\ BeginCleanup(d, k)
      PROVE  WorkerMoves(d)
  <2>1. PICK l \in Stages :
               /\ Go(d, l)
               /\ \/ wpc[d] \in {"started", "probe"} /\ l \in {"probe", "ready", "noprompt"}
                     /\ UNCHANGED <<drain, closing>>
                  \/ l \in {"raised", "nologin"} /\ UNCHANGED <<drain, closing>>
                  \/ /\ l = "exit" /\ UNCHANGED <<drain, closing>>
                     /\ attaching[d] # 0 => drain[d] # NoJob
                  \/ l \in {"exit", "failed", "loggedout"} /\ BeginCleanup(d, k)
    BY <1>q
  <2>2. Others(d) /\ wpc'[d] = l
    BY <1>o, <1>q, <2>1
  <2> QED BY <1>q, <2>1, <2>2 DEF Probes, WorkerMoves, k
<1>11. CASE Start(d) \/ StartFails(d) \/ StartRefused(d)
  <2>1. wpc[d] = "start" /\ handle[k] = "open"
    <3>1. wpc[d] = "start"
      BY <1>11 DEF Start, StartFails, StartRefused, At
    <3> QED BY <3>1 DEF WorkersHold, WorkerPlaced, OpPlaced, k
  <2>2. Stay(d) /\ Elsewhere
        /\ UNCHANGED <<ops, info, done, opening, active, attaching, closing, drain, st, br, flag,
                       released, gen>>
    BY <1>11 DEF Start, StartFails, StartRefused, Stay, Elsewhere
  <2>3. started' = started \cup {k}
        /\ \E h \in {"open", "closed", "lost"} :
             handle' = Set(handle, k, h) /\ (h = "lost" => k \in closing)
    BY <1>11, <2>1 DEF Start, StartFails, StartRefused, k
  <2>4. \E l \in {"started", "raised"} : Go(d, l)
    BY <1>11 DEF Start, StartFails, StartRefused
  <2>5. Others(d) /\ wpc'[d] \in {"started", "raised"}
    BY <1>o, <2>2, <2>4 DEF Stages, Bridging
  <2> QED BY <2>1, <2>2, <2>3, <2>5 DEF Starts, WorkerMoves, k
<1>12. CASE Started(d)
  <2>1. wpc[d] = "started"
    BY <1>12 DEF Started, At
  <2> QED BY <1>12, <1>j, <1>q, <2>1 DEF Started, Stay, Elsewhere, Stages, Bridging, k
<1>13. CASE ProbeEnds(d)
  <2>1. wpc[d] = "probe"
    BY <1>13 DEF ProbeEnds, At
  <2>2. \E l \in {"ready", "noprompt", "raised", "nologin"} : Go(d, l)
    BY <1>13 DEF ProbeEnds
  <2> QED BY <1>13, <1>j, <1>q, <2>1, <2>2 DEF ProbeEnds, Stay, Elsewhere, Stages, Bridging
<1>14. CASE Publish(d)
  <2>1. wpc[d] \in {"ready", "noprompt"} /\ Go(d, "exit") /\ Stay(d)
        /\ UNCHANGED <<ops, info, handle, done, opening, active, started, flag, released>>
        /\ Elsewhere
    BY <1>14 DEF Publish, Stay, Elsewhere
  <2>2. CASE /\ UNCHANGED <<br, gen, attaching>> /\ (st' = st \/ st' = Set(st, s, "DETACHED"))
             /\ \/ BeginCleanup(d, k)
                \/ (drain[d][2] = k \/ attaching[d] # k) /\ UNCHANGED <<drain, closing>>
    <3>1. Idles
      BY <1>i, <1>j, <1>w, <2>1, <2>2 DEF Bridging
    <3>2. k # 0 /\ attaching[d] \in {0, k}
      BY <1>w, <2>1 DEF BridgesHold, BridgeOwned, AttachOwned, StageFits, Bridging, k
    <3>3. drain[d][2] = k => drain[d] # NoJob
      BY <3>2 DEF NoJob
    <3> QED BY <1>q, <2>1, <2>2, <3>1, <3>2, <3>3 DEF Stages, Bridging
  <2>3. CASE /\ ~Shutting /\ st[s] # "RELEASED" /\ d \notin released
             /\ br' = Set(br, s, k) /\ gen' = Set(gen, s, gen[s] + 1)
             /\ st' = Set(st, s, IF At(d, "ready") THEN "READY" ELSE "ATTACHED")
             /\ attaching' = Set(attaching, d, 0) /\ UNCHANGED <<drain, closing>>
    <3>1. Others(d) /\ wpc'[d] = "exit"
      BY <1>o, <2>1 DEF Stages
    <3> QED BY <2>1, <2>3, <3>1 DEF Publishes, WorkerMoves, k, s
  <2> QED BY <1>14, <2>2, <2>3 DEF Publish, k, s
<1>15. CASE Raised(d)
  <2>1. wpc[d] = "raised" /\ Stay(d) /\ Elsewhere
        /\ UNCHANGED <<ops, info, handle, done, opening, active, attaching, started, br, flag, st,
                       released, gen>>
    BY <1>15 DEF Raised, At, Stay, Elsewhere
  <2>2. CASE BeginCleanup(d, k) /\ Go(d, "failed")
    BY <1>j, <1>q, <2>1, <2>2 DEF Stages, Bridging
  <2>3. CASE /\ \/ pend[s] # NoJob \/ drain[d][2] = k \/ attaching[d] # k
             /\ Go(d, "exit") /\ UNCHANGED <<drain, closing>>
    <3>1. k # 0 /\ attaching[d] \in {0, k} /\ s \in Session /\ Home[s] = d
      BY <1>w, <2>1 DEF BridgesHold, BridgeOwned, AttachOwned, StageFits, Bridging, k
    <3>2. attaching[d] # 0 => drain[d] # NoJob
      BY <2>3, <3>1 DEF DrainsHold, DrainOwned, NoJob
    <3> QED BY <1>j, <1>q, <2>1, <2>3, <3>2 DEF Stages, Bridging
  <2> QED BY <1>15, <2>2, <2>3 DEF Raised, k, s
<1>16. CASE Failed(d) \/ LoggedOut(d)
  <2>1. wpc[d] \in {"failed", "loggedout"} /\ Stay(d) /\ Go(d, "exit")
        /\ UNCHANGED <<ops, info, handle, done, opening, active, attaching, started, flag,
                       released, gen, drain, closing>>
        /\ Elsewhere
    BY <1>16 DEF Failed, LoggedOut, At, Stay, Elsewhere
  <2>2. Set(br, s, 0) = br /\ br[s] = 0 /\ s \in Session
    BY <1>0, <1>w, <2>1 DEF Bridging, Set
  <2>3. br' = br /\ (st' = st \/ st' = Set(st, s, "DETACHED"))
    BY <1>16, <2>2 DEF Failed, LoggedOut, s
  <2>4. Idles
    BY <1>i, <1>j, <2>2, <2>3
  <2>5. attaching[d] # 0 => drain[d] # NoJob
    BY <2>1 DEF BridgesHold, BridgeOwned, AttachOwned, StageFits
  <2> QED BY <1>q, <2>1, <2>3, <2>4, <2>5 DEF Stages, Bridging
<1>17. CASE LoginFails(d)
  <2>1. wpc[d] = "nologin"
    BY <1>17 DEF LoginFails, At
  <2> QED BY <1>17, <1>j, <1>q, <2>1 DEF LoginFails, Stay, Elsewhere, Stages, Bridging, k
<1>18. CASE Exit(d)
  <2>1. wpc[d] = "exit" /\ inflight' = inflight \ {d} /\ ws' = ws /\ wop' = wop /\ Go(d, "none")
        /\ ops' = ops
    BY <1>18 DEF Exit, At
  <2>2. Others(d) /\ wpc'[d] = "none"
    <3>1. ws' = Set(ws, d, s) /\ wop' = Set(wop, d, k)
      BY <1>0, <2>1 DEF Set, s, k
    <3>2. k \in 0 .. ops' /\ s \in Session \cup {None}
      BY <1>0, <2>1 DEF s, k
    <3> QED BY <1>p, <1>0, <2>1, <3>1, <3>2 DEF Stages
  <2> QED BY <1>18, <1>j, <2>1, <2>2 DEF Exit, Walks, WorkerMoves, Elsewhere
<1> QED
  BY <1>1, <1>2, <1>3, <1>4, <1>5, <1>6, <1>7, <1>8, <1>9, <1>10, <1>11, <1>12, <1>13, <1>14,
     <1>15, <1>16, <1>17, <1>18, <1>22

------------------------------------------------------------------------------
(* The shape                                                               *)

\* The numbers of operations, and the jobs, grow with the operations.
LEMMA OpsGrow ==
  ASSUME ops \in Nat, ops' \in {ops, ops + 1}
  PROVE  Ops \subseteq Ops' /\ Jobs \subseteq Jobs' /\ 0 .. ops \subseteq 0 .. ops' /\ ops' \in Nat
BY DEF Ops, Jobs

\* The shape in parts, so that a step is held against what it touches.
PortShape ==
  /\ ops \in Nat /\ ops <= MaxOps
  /\ info \in Seq([s : Session, d : Device, path : Nat, gen : Nat]) /\ Len(info) = ops
  /\ handle \in [Op -> {"none", "opening", "open", "closed", "lost"}]
  /\ {done, closing, started} \subseteq SUBSET Ops
TableShape ==
  /\ opening \in [Device -> 0 .. ops] /\ active \in [Device -> 0 .. ops]
  /\ attaching \in [Device -> 0 .. ops] /\ preopened = [d \in Device |-> 0]
  /\ wpc \in [Device -> Stages] /\ ws \in [Device -> Session \cup {None}]
  /\ wop \in [Device -> 0 .. ops] /\ inflight \subseteq Device
JobShape ==
  /\ drain \in [Device -> Jobs \cup ({"cleanup"} \X Ops)]
  /\ pend \in [Session -> Jobs]
SessionShape ==
  /\ st \in [Session -> States] /\ br \in [Session -> 0 .. ops]
  /\ flag \in [Session -> BOOLEAN]
  /\ released \subseteq Device /\ promised \subseteq Device /\ critical \subseteq Session
  /\ prev \in [Session -> {"DETACHED", "ATTACHING", "READY", "ATTACHED"}]
RestShape ==
  /\ dev = Home /\ path \in [Device -> Nat] /\ gen \in [Session -> Nat] /\ plugs \in Nat
  /\ relreq \subseteq Ops /\ relreq \subseteq cancelled
  /\ apc = [s \in Session |-> <<"idle", None>>]
  /\ bw = [s \in Session |-> Unbound]
  /\ rw \in [Session -> {NoJob} \cup ({"op", "job"} \X Ops)]
  /\ watch[1] # "idle" => watch[2] \in Device
  /\ watch \in {"idle", "spawn", "device_removed", "recover"} \X (Device \cup {None}) \X {0}
  /\ sops \subseteq Ops
  /\ down \in {"no", "begun", "cancelled", "joined", "ops", "draining", "graceful", "stalled"}
  /\ stalled \in BOOLEAN

\* The shape in parts, so that a step is asked only for what it changes.
LEMMA ShapeParts ==
  /\ Shape <=> PortShape /\ TableShape /\ JobShape /\ SessionShape /\ RestShape
  /\ Shape' <=> PortShape' /\ TableShape' /\ JobShape' /\ SessionShape' /\ RestShape'
BY DEF Shape, PortShape, TableShape, JobShape, SessionShape, RestShape

\* A worker keeps the shape.
LEMMA WorkerShape ==
  ASSUME OneEach, Shape, WorkersHold, BridgesHold, NEW d \in Device, WorkerMoves(d)
  PROVE  Shape'
<1>0. /\ wop[d] \in 0 .. ops /\ (wpc[d] \in AtWork \cup Bridging => wop[d] \in Ops /\ wop[d] \in Op)
      /\ wpc[d] \in {"device", "preopen"} \cup AtWork \cup Bridging => ws[d] \in Session
      /\ ops \in Nat /\ MaxOps \in Nat /\ 0 \in 0 .. ops /\ Ops = 1 .. ops /\ Op = 1 .. MaxOps
  BY WorkerPlace, LifecycleAssumption DEF Ops, Op
<1>1. PortShape /\ TableShape /\ JobShape /\ SessionShape /\ RestShape
  BY ShapeParts
<1>2. ops' \in {ops, ops + 1} /\ Elsewhere /\ Others(d)
  BY DEF WorkerMoves, Walks, Enters, Works, Finishes, HandsOver, Starts, Probes, Publishes
<1>3. Ops \subseteq Ops' /\ Jobs \subseteq Jobs' /\ 0 .. ops \subseteq 0 .. ops' /\ ops' \in Nat
  BY <1>0, <1>2, OpsGrow
<1>4. wpc' \in [Device -> Stages] /\ ws' \in [Device -> Session \cup {None}]
      /\ wop' \in [Device -> 0 .. ops'] /\ inflight' \subseteq Device
  <2>1. PICK l \in Stages, s \in Session \cup {None}, k \in 0 .. ops' :
          wpc' = Set(wpc, d, l) /\ ws' = Set(ws, d, s) /\ wop' = Set(wop, d, k)
    BY <1>2 DEF Others
  <2>2. wop \in [Device -> 0 .. ops']
    BY <1>1, <1>3 DEF TableShape
  <2> QED BY <1>1, <1>2, <2>1, <2>2 DEF TableShape, Set, Others
<1>5. CASE Enters(d)
  <2>1. PortShape'
    <3>1. info' \in Seq([s : Session, d : Device, path : Nat, gen : Nat]) /\ Len(info') = ops'
      <4>1. path[d] \in Nat /\ gen[ws[d]] \in Nat /\ ws[d] \in Session
        BY <1>0, <1>1, <1>5 DEF Enters, RestShape
      <4> DEFINE r == [s |-> ws[d], d |-> d, path |-> path[d], gen |-> gen[ws[d]]]
      <4>2. r \in [s : Session, d : Device, path : Nat, gen : Nat]
        BY <4>1
      <4>3. info' = Append(info, r) /\ ops' = ops + 1
        BY <1>5 DEF Enters
      <4>4. info \in Seq([s : Session, d : Device, path : Nat, gen : Nat]) /\ Len(info) = ops
        BY <1>1 DEF PortShape
      <4> HIDE DEF r
      <4> QED BY <1>0, <4>2, <4>3, <4>4
    <3>2. ops' <= MaxOps /\ handle' \in [Op -> {"none", "opening", "open", "closed", "lost"}]
      BY <1>0, <1>1, <1>5 DEF Enters, PortShape, Set
    <3> QED BY <1>1, <1>3, <1>5, <3>1, <3>2 DEF Enters, PortShape
  <2>2. TableShape'
    <3>1. opening' \in [Device -> 0 .. ops']
      <4>1. opening \in [Device -> 0 .. ops'] /\ ops + 1 \in 0 .. ops'
        BY <1>0, <1>1, <1>3, <1>5 DEF TableShape, Enters
      <4> QED BY <1>5, <4>1 DEF Enters, Set
    <3>2. active' \in [Device -> 0 .. ops'] /\ attaching' \in [Device -> 0 .. ops']
      BY <1>1, <1>3, <1>5 DEF TableShape, Enters
    <3> QED BY <1>1, <1>2, <1>4, <3>1, <3>2 DEF TableShape, Elsewhere
  <2>3. JobShape'
    <3>1. Jobs \cup ({"cleanup"} \X Ops) \subseteq Jobs' \cup ({"cleanup"} \X Ops')
      BY <1>3
    <3> QED BY <1>1, <1>2, <1>3, <1>5, <3>1 DEF JobShape, Enters, Elsewhere
  <2>4. SessionShape'
    BY <1>1, <1>2, <1>3, <1>5 DEF SessionShape, Enters, Elsewhere
  <2>5. RestShape'
    <3>1. {NoJob} \cup ({"op", "job"} \X Ops) \subseteq {NoJob} \cup ({"op", "job"} \X Ops')
      BY <1>3
    <3> QED BY <1>1, <1>2, <1>3, <1>5, <3>1 DEF RestShape, Enters, Elsewhere
  <2> QED BY <2>1, <2>2, <2>3, <2>4, <2>5, ShapeParts
<1>6. CASE ~Enters(d)
  <2>0. ops' = ops /\ info' = info
    BY <1>6 DEF WorkerMoves, Walks, Works, Finishes, HandsOver, Starts, Probes, Publishes
  <2>1. Ops' = Ops /\ Jobs' = Jobs
    BY <2>0 DEF Ops, Jobs
  <2>2. PortShape'
    <3>1. handle' \in [Op -> {"none", "opening", "open", "closed", "lost"}]
      BY <1>0, <1>1, <1>6 DEF PortShape, Set, WorkerMoves, Walks, Works, Finishes, HandsOver,
         Starts, Probes, Publishes
    <3>2. /\ done' = done \/ (wop[d] \in Ops /\ done' = done \cup {wop[d]})
          /\ closing' = closing \/ (wop[d] \in Ops /\ closing' = closing \cup {wop[d]})
          /\ started' = started \/ (wop[d] \in Ops /\ started' = started \cup {wop[d]})
      <4>1. CASE Walks(d) \/ Works(d) \/ Publishes(d)
        BY <4>1 DEF Walks, Works, Publishes
      <4>2. CASE Finishes(d) \/ HandsOver(d)
        BY <1>0, <4>2 DEF Finishes, HandsOver, AtWork
      <4>3. CASE Starts(d)
        BY <1>0, <4>3 DEF Starts, Bridging
      <4>4. CASE Probes(d)
        BY <1>0, <4>4 DEF Probes, BeginCleanup
      <4> QED BY <1>6, <4>1, <4>2, <4>3, <4>4 DEF WorkerMoves
    <3> QED BY <1>1, <2>0, <2>1, <3>1, <3>2 DEF PortShape
  <2>3. TableShape'
    <3>1. opening' \in [Device -> 0 .. ops] /\ active' \in [Device -> 0 .. ops]
      <4>0. wop[d] \in 0 .. ops /\ 0 \in 0 .. ops
        BY <1>0
      <4>1. CASE Walks(d) \/ HandsOver(d) \/ Starts(d) \/ Probes(d) \/ Publishes(d)
        BY <4>0, <4>1, <1>1 DEF TableShape, Set, Walks, HandsOver, Starts, Probes, Publishes
      <4>2. CASE Works(d)
        BY <4>0, <4>2, <1>1 DEF TableShape, Set, Works
      <4>3. CASE Finishes(d)
        BY <4>0, <4>3, <1>1 DEF TableShape, Set, Finishes
      <4> QED BY <1>6, <4>1, <4>2, <4>3 DEF WorkerMoves
    <3>2. attaching' \in [Device -> 0 .. ops]
      BY <1>0, <1>1, <1>6 DEF TableShape, Set, WorkerMoves, Walks, Works, Finishes, HandsOver,
         Starts, Probes, Publishes
    <3> QED BY <1>1, <1>2, <1>4, <2>0, <3>1, <3>2 DEF TableShape, Elsewhere
  <2>4. JobShape'
    <3>1. drain' = drain \/ (wop[d] \in Ops /\ drain' = Set(drain, d, <<"cleanup", wop[d]>>))
      BY <1>0, <1>6 DEF WorkerMoves, Walks, Works, Finishes, HandsOver, Starts, Probes,
         Publishes, BeginCleanup
    <3>2. drain' \in [Device -> Jobs \cup ({"cleanup"} \X Ops)]
      BY <1>1, <3>1 DEF JobShape, Set
    <3> QED BY <1>1, <1>2, <2>1, <3>2 DEF JobShape, Elsewhere
  <2>5. SessionShape'
    <3>1. st' \in [Session -> States]
      BY <1>0, <1>1, <1>6 DEF SessionShape, Set, WorkerMoves, Walks, Works, Finishes, HandsOver,
         Starts, Probes, Publishes, Idles, States, AtWork, Bridging
    <3>2. br' \in [Session -> 0 .. ops]
      BY <1>0, <1>1, <1>6 DEF SessionShape, Set, WorkerMoves, Walks, Works, Finishes, HandsOver,
         Starts, Probes, Publishes
    <3>3. flag' \in [Session -> BOOLEAN]
      BY <1>0, <1>1, <1>6 DEF SessionShape, Set, WorkerMoves, Walks, Works, Finishes, HandsOver,
         Starts, Probes, Publishes
    <3>4. released' \subseteq Device
      BY <1>0, <1>1, <1>6 DEF SessionShape, WorkerMoves, Walks, Works, Finishes, HandsOver,
         Starts, Probes, Publishes
    <3> QED BY <1>1, <1>2, <2>0, <3>1, <3>2, <3>3, <3>4 DEF SessionShape, Elsewhere
  <2>6. RestShape'
    <3>1. gen' \in [Session -> Nat]
      <4>1. CASE Publishes(d)
        BY <1>0, <1>1, <4>1 DEF Publishes, RestShape, Set, Bridging
      <4>2. CASE ~Publishes(d)
        BY <1>1, <1>6, <4>2 DEF RestShape, WorkerMoves, Walks, Works, Finishes, HandsOver, Starts,
           Probes
      <4> QED BY <4>1, <4>2
    <3> QED BY <1>1, <1>2, <2>1, <3>1 DEF RestShape, Elsewhere
  <2> QED BY <2>2, <2>3, <2>4, <2>5, <2>6, ShapeParts
<1> QED BY <1>5, <1>6

------------------------------------------------------------------------------
(* What the other steps do                                                 *)

\* A drain of a session begins.
DrainBegins(s, kind, b) ==
  /\ BeginDrain(s, kind, b) /\ pend[s] = NoJob /\ ~FlashBusy(s) /\ b # 0
  /\ kind \in Causes \ {"shutdown"} /\ (kind = "release" => ~Shutting)
  /\ b = br[s] \/ (kind = "release" /\ br[s] = 0 /\ b = attaching[Home[s]])

\* Workers, ports, bridges and drains stay as they are, what is released
\* stays released, and a daemon that stops goes on stopping.
Frame ==
  /\ cancelled \subseteq cancelled'
  /\ UNCHANGED <<ops, info, done, started, opening, active, preopened, inflight, wpc, ws, wop,
                 dev, gen, apc, bw, mix>>
Quiet ==
  /\ Frame /\ UNCHANGED <<handle, sjobs, closing, attaching, drain, pend, br>>
  /\ released \subseteq released' /\ (Shutting => Shutting')

\* What moves besides the workers.
OtherMoves ==
  \/ \E d \in Device : CompleteCleanup(d)
  \/ \E k \in Op : BridgeCloses(k)
  \/ \E s \in Session :
       \/ CompleteDrain(s) \/ ReleaseOp(s) \/ ReleaseDrain(s) \/ ReleaseNow(s)
       \/ ReleaseAnswered(s) \/ ReleaseTimeout(s) \/ Clear(s) \/ AttachSession(s)
       \/ BridgeDown(s) \/ FlashMark(s) \/ FlashEnter(s) \/ FlashUnmark(s) \/ FlashExit(s)
  \/ \E d \in Device, p \in {0, plugs + 2} : Plug(d, p)
  \/ PlugDetach \/ PlugSpawn
  \/ ShutBegin \/ ShutCancel \/ ShutJoin \/ ShutOps \/ ShutDrain \/ ShutEnd

\* The operation a release or a bind would meet is a worker's.
LEMMA PendingOp ==
  ASSUME OneEach, Shape, WorkersHold, NEW s \in Session, Pending(dev[s]) # 0
  PROVE  /\ Working(dev[s]) = Pending(dev[s]) /\ Pending(dev[s]) \in Ops \ done
         /\ info[Pending(dev[s])].s = s /\ preopened[dev[s]] = 0
<1>1. dev[s] \in Device /\ preopened[dev[s]] = 0 /\ dev[s] = Home[s]
      /\ opening[dev[s]] \in 0 .. ops /\ active[dev[s]] \in 0 .. ops /\ ops \in Nat
  BY LifecycleAssumption DEF Shape
<1>2. PICK d \in Device : d = dev[s]
  BY <1>1
<1>3. Pending(d) = Working(d) /\ Working(d) # 0
  BY <1>1, <1>2 DEF Pending
<1>4. Pending(d) = wop[d] /\ wpc[d] \in AtWork /\ wop[d] \notin done
      /\ info[wop[d]].s = ws[d] /\ ws[d] \in Session /\ Home[ws[d]] = d
  BY <1>1, <1>2, <1>3 DEF Working, WorkersHold, WorkerPlaced, OpPlaced, AtWork, Bridging
<1>5. wop[d] \in Ops
  BY <1>1, <1>2, <1>3, <1>4 DEF Working, Ops
<1>6. ws[d] = s
  BY <1>1, <1>2, <1>4 DEF OneEach
<1> QED BY <1>1, <1>2, <1>3, <1>4, <1>5, <1>6

\* What the beginning of a drain writes has the shape.
LEMMA DrainShape ==
  ASSUME Shape, Frame, NEW s \in Session, NEW kind \in Causes, NEW b \in Ops,
         BeginDrain(s, kind, b)
  PROVE  /\ closing' \in SUBSET Ops /\ drain' \in [Device -> Jobs \cup ({"cleanup"} \X Ops)]
         /\ pend' \in [Session -> Jobs] /\ st' \in [Session -> States]
         /\ flag' \in [Session -> BOOLEAN] /\ released' \subseteq Device
<1>1. dev[s] \in Device /\ <<kind, b>> \in Jobs
  BY LifecycleAssumption DEF Shape, Jobs
<1>2. closing' \in SUBSET Ops /\ released' \subseteq Device
  BY <1>1 DEF Shape, BeginDrain
<1>3. drain' \in [Device -> Jobs \cup ({"cleanup"} \X Ops)] /\ pend' \in [Session -> Jobs]
  BY <1>1 DEF Shape, BeginDrain, Set
<1>4. st' \in [Session -> States] /\ flag' \in [Session -> BOOLEAN]
  BY <1>1 DEF Shape, BeginDrain, Set, States
<1> QED BY <1>2, <1>3, <1>4

\* A step that is no worker's keeps the shape if what it changes has one.
LEMMA FrameShape ==
  ASSUME Shape, Frame,
         handle' \in [Op -> {"none", "opening", "open", "closed", "lost"}],
         closing' \in SUBSET Ops, attaching' \in [Device -> 0 .. ops],
         drain' \in [Device -> Jobs \cup ({"cleanup"} \X Ops)], pend' \in [Session -> Jobs],
         st' \in [Session -> States], br' \in [Session -> 0 .. ops],
         flag' \in [Session -> BOOLEAN], released' \subseteq Device, promised' \subseteq Device,
         critical' \subseteq Session,
         prev' \in [Session -> {"DETACHED", "ATTACHING", "READY", "ATTACHED"}],
         path' \in [Device -> Nat], plugs' \in Nat, relreq' \subseteq Ops,
         relreq' \subseteq cancelled',
         rw' \in [Session -> {NoJob} \cup ({"op", "job"} \X Ops)],
         watch'[1] # "idle" => watch'[2] \in Device,
         watch' \in {"idle", "spawn", "device_removed", "recover"} \X (Device \cup {None}) \X {0},
         sops' \subseteq Ops, stalled' \in BOOLEAN,
         down' \in {"no", "begun", "cancelled", "joined", "ops", "draining", "graceful",
                    "stalled"}
  PROVE  Shape'
<1>1. Ops' = Ops /\ Jobs' = Jobs
  BY DEF Ops, Jobs, Frame
<1>2. PortShape /\ TableShape /\ JobShape /\ SessionShape /\ RestShape
  BY ShapeParts
<1>3. PortShape'
  BY <1>1, <1>2 DEF PortShape, Frame
<1>4. TableShape'
  BY <1>1, <1>2 DEF TableShape, Frame
<1>5. JobShape'
  BY <1>1, <1>2 DEF JobShape, Frame
<1>6. SessionShape'
  BY <1>1, <1>2 DEF SessionShape, Frame
<1>7. RestShape'
  BY <1>1, <1>2 DEF RestShape, Frame
<1> QED BY <1>3, <1>4, <1>5, <1>6, <1>7, ShapeParts

\* A drain of a session begins, and nothing else happens.
DrainStarts(s, kind, b) ==
  /\ Frame /\ DrainBegins(s, kind, b)
  /\ UNCHANGED <<handle, attaching, br, promised, critical, prev, relreq, down, stalled, sops,
                 sjobs>>
  /\ \A t \in Session : rw'[t][1] = "op" => rw'[t] = rw[t]

\* What is not a worker leaves the workers alone and keeps the shape.
LEMMA OtherShape ==
  ASSUME OneEach, Shape, WorkersHold, OtherMoves
  PROVE  Frame /\ Shape'
<1> DEFINE
  TPort == handle' \in [Op -> {"none", "opening", "open", "closed", "lost"}]
           /\ closing' \in SUBSET Ops /\ attaching' \in [Device -> 0 .. ops]
  TJob == drain' \in [Device -> Jobs \cup ({"cleanup"} \X Ops)] /\ pend' \in [Session -> Jobs]
  TSess == /\ st' \in [Session -> States] /\ br' \in [Session -> 0 .. ops]
           /\ flag' \in [Session -> BOOLEAN] /\ released' \subseteq Device
  TFlash == promised' \subseteq Device /\ critical' \subseteq Session
            /\ prev' \in [Session -> {"DETACHED", "ATTACHING", "READY", "ATTACHED"}]
  TPlug == /\ path' \in [Device -> Nat] /\ plugs' \in Nat
           /\ watch'[1] # "idle" => watch'[2] \in Device
           /\ watch' \in {"idle", "spawn", "device_removed", "recover"} \X (Device \cup {None}) \X {0}
  TCall == relreq' \subseteq Ops /\ relreq' \subseteq cancelled'
           /\ rw' \in [Session -> {NoJob} \cup ({"op", "job"} \X Ops)]
  TShut == /\ sops' \subseteq Ops /\ stalled' \in BOOLEAN
           /\ down' \in {"no", "begun", "cancelled", "joined", "ops", "draining", "graceful",
                         "stalled"}
<1>0. /\ ops \in Nat /\ Ops = 1 .. ops /\ dev = Home /\ Home \in [Session -> Device]
      /\ Ops \subseteq Op
  BY LifecycleAssumption DEF Shape, Ops, Op
<1>t. /\ st \in [Session -> States] /\ br \in [Session -> 0 .. ops]
      /\ flag \in [Session -> BOOLEAN] /\ released \subseteq Device
      /\ promised \subseteq Device /\ critical \subseteq Session
      /\ prev \in [Session -> {"DETACHED", "ATTACHING", "READY", "ATTACHED"}]
      /\ handle \in [Op -> {"none", "opening", "open", "closed", "lost"}]
      /\ closing \in SUBSET Ops /\ attaching \in [Device -> 0 .. ops]
      /\ drain \in [Device -> Jobs \cup ({"cleanup"} \X Ops)] /\ pend \in [Session -> Jobs]
  BY DEF Shape
<1>1. /\ UNCHANGED <<handle, closing, attaching>> => TPort
      /\ UNCHANGED <<drain, pend>> => TJob
      /\ UNCHANGED <<st, br, flag, released>> => TSess
      /\ UNCHANGED <<promised, critical, prev>> => TFlash
      /\ UNCHANGED <<path, plugs, watch>> => TPlug
      /\ UNCHANGED <<relreq, rw>> /\ cancelled \subseteq cancelled' => TCall
      /\ UNCHANGED <<sops, stalled, down>> => TShut
  BY ZenonT(40), <1>0 DEF Shape
<1>2. ASSUME Frame, TPort, TJob, TSess, TFlash, TPlug, TCall, TShut
      PROVE  Frame /\ Shape'
  BY <1>2, FrameShape
<1> HIDE DEF TPort, TJob, TSess, TFlash, TPlug, TCall, TShut
<1>3. ASSUME NEW d \in Device, CompleteCleanup(d)
      PROVE  Frame /\ Shape'
  <2>1. Frame /\ TSess /\ TFlash /\ TPlug /\ TCall /\ TShut
    BY <1>1, <1>3 DEF CompleteCleanup, Frame
  <2>2. TPort
    BY <1>0, <1>3, <1>t DEF CompleteCleanup, TPort, Set
  <2>3. TJob
    BY <1>3, <1>t DEF CompleteCleanup, TJob, Set, Jobs
  <2> QED BY <1>2, <2>1, <2>2, <2>3
<1>4. ASSUME NEW k \in Op, BridgeCloses(k)
      PROVE  Frame /\ Shape'
  <2>1. Frame /\ TJob /\ TSess /\ TFlash /\ TPlug /\ TCall /\ TShut
    BY <1>1, <1>4 DEF BridgeCloses, Frame
  <2>2. TPort
    BY <1>0, <1>4 DEF BridgeCloses, TPort, Shape, Set
  <2> QED BY <1>2, <2>1, <2>2
<1>5. ASSUME NEW s \in Session, CompleteDrain(s)
      PROVE  Frame /\ Shape'
  <2>0. pend[s] \in Causes \X Ops /\ dev[s] \in Device
    BY <1>0, <1>5 DEF CompleteDrain, Shape, Jobs
  <2>1. dev' = dev /\ promised' = promised
    BY <2>0, <1>5 DEF CompleteDrain, Causes
  <2>2. Frame /\ TFlash /\ TPlug /\ TCall /\ TShut
    BY <1>1, <1>5, <2>1 DEF CompleteDrain, Frame
  <2>3. TPort
    BY <1>0, <2>0, <1>5, <1>t DEF CompleteDrain, TPort, Set
  <2>4. TJob
    BY <1>0, <2>0, <1>5 DEF CompleteDrain, TJob, Shape, Set, Jobs
  <2>5. TSess
    <3>1. br' \in [Session -> 0 .. ops] /\ flag' \in [Session -> BOOLEAN]
      BY <1>0, <2>0, <1>5, <1>t DEF CompleteDrain, Set
    <3>2. released' \subseteq Device
      BY <1>0, <2>0, <1>5 DEF CompleteDrain, Shape
    <3>3. \/ st' = st
          \/ \E x \in {"RELEASED", "ATTACHING", "DETACHED"} : st' = Set(st, s, x)
      BY <1>5 DEF CompleteDrain
    <3>4. st' \in [Session -> States]
      BY <3>3 DEF Shape, States, Set
    <3> QED BY <3>1, <3>2, <3>4 DEF TSess
  <2> QED BY <1>2, <2>2, <2>3, <2>4, <2>5
<1>6. ASSUME NEW s \in Session, ReleaseOp(s)
      PROVE  Frame /\ Shape'
  <2>1. /\ Working(dev[s]) = Pending(dev[s]) /\ Pending(dev[s]) \in Ops
        /\ Pending(dev[s]) # 0
    BY <1>6, PendingOp DEF ReleaseOp
  <2>2. Working(dev[s]) # 0
    BY <2>1
  <2>3. Frame /\ TPort /\ TJob /\ TFlash /\ TPlug /\ TShut
    BY <1>1, <1>6, <2>2 DEF ReleaseOp, Frame, Call
  <2>4. TSess
    BY ZenonT(40), <1>6 DEF ReleaseOp, TSess, Shape, Set, States
  <2>5. TCall
    BY <1>6, <2>1, <2>2 DEF ReleaseOp, TCall, Shape, Set
  <2> QED BY <1>2, <2>3, <2>4, <2>5
<1>7. ASSUME Frame, NEW s \in Session, NEW kind \in Causes, NEW b \in Ops,
             BeginDrain(s, kind, b),
             UNCHANGED <<handle, attaching, br>>
      PROVE  TPort /\ TJob /\ TSess
  <2>1. /\ closing' \in SUBSET Ops /\ drain' \in [Device -> Jobs \cup ({"cleanup"} \X Ops)]
        /\ pend' \in [Session -> Jobs] /\ st' \in [Session -> States]
        /\ flag' \in [Session -> BOOLEAN] /\ released' \subseteq Device
    BY <1>7, DrainShape
  <2> QED BY <2>1, <1>7, <1>t DEF TPort, TJob, TSess
<1>8. ASSUME NEW s \in Session, ReleaseDrain(s)
      PROVE  Frame /\ Shape'
  <2>1. Frame /\ TFlash /\ TPlug /\ TShut
    BY <1>1, <1>8 DEF ReleaseDrain, ReleaseCall, Frame, Call
  <2>2. CASE /\ pend[s][1] = "release" /\ rw' = Set(rw, s, <<"job", pend[s][2]>>)
             /\ UNCHANGED <<pend, drain, st, flag, released, closing>>
    <3>1. pend[s] \in Causes \X Ops
      BY <2>2 DEF Shape, Jobs, NoJob
    <3>2. TCall
      BY <1>8, <2>2, <3>1 DEF ReleaseDrain, TCall, Shape, Set
    <3> QED BY <1>1, <1>2, <1>8, <2>1, <2>2, <3>2 DEF ReleaseDrain
  <2>3. ASSUME NEW b \in Ops, BeginDrain(s, "release", b), rw' = Set(rw, s, <<"job", b>>)
        PROVE  Frame /\ Shape'
    <3>1. TCall
      BY <1>8, <2>3 DEF ReleaseDrain, TCall, Shape, Set
    <3>2. TPort /\ TJob /\ TSess
      BY <1>7, <1>8, <2>1, <2>3 DEF ReleaseDrain, Causes
    <3> QED BY <1>2, <2>1, <3>1, <3>2
  <2>4. br[s] # 0 => br[s] \in Ops
    BY <1>0 DEF Shape
  <2>5. attaching[dev[s]] # 0 => attaching[dev[s]] \in Ops
    BY <1>0 DEF Shape
  <2> QED BY <1>8, <2>2, <2>3, <2>4, <2>5 DEF ReleaseDrain
<1>9. ASSUME NEW s \in Session, ReleaseNow(s) \/ ReleaseAnswered(s) \/ ReleaseTimeout(s)
      PROVE  Frame /\ Shape'
  <2>1. Frame /\ TPort /\ TJob /\ TPlug /\ TShut
    BY <1>1, <1>9 DEF ReleaseNow, ReleaseAnswered, ReleaseTimeout, ReleaseCall, Frame, Call
  <2>2. TSess
    <3>1. \/ st' = st
          \/ \E x \in {"RELEASED", "RECOVERING"} : st' = Set(st, s, x)
      BY <1>9 DEF ReleaseNow, ReleaseAnswered, ReleaseTimeout
    <3>2. br' = br /\ (flag' = flag \/ flag' = Set(flag, s, FALSE))
          /\ (released' = released \/ released' = released \cup {dev[s]})
      BY <1>9 DEF ReleaseNow, ReleaseAnswered, ReleaseTimeout
    <3>3. st' \in [Session -> States]
      BY <1>t, <3>1 DEF Set, States
    <3>4. flag' \in [Session -> BOOLEAN]
      BY <1>t, <3>2 DEF Set
    <3>5. released' \subseteq Device
      BY <1>0, <1>t, <3>2
    <3> QED BY <1>t, <3>2, <3>3, <3>4, <3>5 DEF TSess
  <2>3. TFlash
    <3>1. (promised' = promised \/ promised' = promised \cup {dev[s]})
          /\ UNCHANGED <<critical, prev>>
      BY <1>9 DEF ReleaseNow, ReleaseAnswered, ReleaseTimeout
    <3> QED BY <1>0, <1>t, <3>1 DEF TFlash
  <2>4. TCall
    BY <1>9 DEF ReleaseNow, ReleaseAnswered, ReleaseTimeout, TCall, Shape, Set
  <2> QED BY <1>2, <2>1, <2>2, <2>3, <2>4
<1>10. ASSUME NEW s \in Session, Clear(s) \/ BridgeDown(s)
       PROVE  Frame /\ Shape'
  <2>1. Frame /\ TFlash /\ TCall /\ TShut
    BY <1>1, <1>10 DEF Clear, BridgeDown, Frame, Call
  <2>2. TPlug
    <3>1. UNCHANGED <<path, watch>> /\ plugs' \in {plugs, plugs + 1}
      BY <1>10 DEF Clear, BridgeDown
    <3> QED BY <3>1 DEF TPlug, Shape
  <2>3. CASE \E kind \in Causes : br[s] # 0 /\ BeginDrain(s, kind, br[s])
    <3>1. br[s] # 0 => br[s] \in Ops
      BY <1>0 DEF Shape
    <3>2. TPort /\ TJob /\ TSess
      BY <1>7, <1>10, <2>1, <2>3, <3>1 DEF Clear, BridgeDown
    <3> QED BY <1>2, <2>1, <2>2, <3>2
  <2>4. CASE /\ st' = Set(st, s, IF path[dev[s]] # 0 THEN "ATTACHING" ELSE "DETACHED")
             /\ flag' = Set(flag, s, FALSE) /\ UNCHANGED <<pend, drain, released, closing>>
    <3>1. TPort /\ TJob
      BY <1>1, <1>10, <2>4 DEF Clear, BridgeDown
    <3>2. TSess
      BY <1>10, <2>4 DEF Clear, BridgeDown, TSess, Shape, Set, States
    <3> QED BY <1>2, <2>1, <2>2, <3>1, <3>2
  <2> QED BY <1>10, <2>3, <2>4 DEF Clear, BridgeDown, Causes
<1>11. ASSUME NEW s \in Session, AttachSession(s)
       PROVE  Frame /\ Shape'
  <2>1. Frame /\ TPort /\ TJob /\ TFlash /\ TPlug /\ TCall /\ TShut
    BY <1>1, <1>11 DEF AttachSession, Frame, Call
  <2>2. TSess
    BY <1>11 DEF AttachSession, TSess, Shape, Set, States
  <2> QED BY <1>2, <2>1, <2>2
<1>12. ASSUME NEW s \in Session, FlashMark(s) \/ FlashEnter(s) \/ FlashUnmark(s) \/ FlashExit(s)
       PROVE  Frame /\ Shape'
  <2>1. Frame /\ TPort /\ TJob /\ TPlug /\ TCall /\ TShut
    BY <1>1, <1>12 DEF FlashMark, FlashEnter, FlashUnmark, FlashExit, Frame, Call
  <2>2. TFlash
    <3>1. /\ promised' = promised
          /\ critical' \in {critical, critical \cup {s}, critical \ {s}}
          /\ \/ prev' = prev
             \/ prev' = Set(prev, s, st[s]) /\ st[s] \notin {"FLASHING", "RELEASED", "RECOVERING"}
      BY <1>12 DEF FlashMark, FlashEnter, FlashUnmark, FlashExit
    <3> QED BY <1>t, <3>1 DEF TFlash, Set, States
  <2>3. TSess
    <3>1. st' = st \/ st' = Set(st, s, "FLASHING") \/ st' = Set(st, s, prev[s])
      BY <1>12 DEF FlashMark, FlashEnter, FlashUnmark, FlashExit
    <3>2. UNCHANGED <<br, flag, released>>
      BY <1>12 DEF FlashMark, FlashEnter, FlashUnmark, FlashExit
    <3> QED BY <1>t, <3>1, <3>2 DEF TSess, Set, States
  <2> QED BY <1>2, <2>1, <2>2, <2>3
<1>13. ASSUME NEW d \in Device, NEW p \in {0, plugs + 2}, Plug(d, p)
       PROVE  Frame /\ Shape'
  <2>1. /\ st' = [s \in Session |->
             IF p = 0 /\ dev[s] = d /\ br[s] = 0 /\ st[s] # "RELEASED" THEN "DETACHED" ELSE st[s]]
        /\ UNCHANGED <<held, flag, br, released>>
    BY <1>13 DEF Plug, Shape
  <2>k. attaching[d] = 0 /\ active[d] = 0 => preopened[d] = 0
    BY DEF Shape
  <2>2. Frame /\ TPort /\ TJob /\ TFlash /\ TCall /\ TShut
    BY <1>1, <1>13, <2>1, <2>k DEF Plug, Plugs, Frame
  <2>3. TSess
    BY <2>1 DEF TSess, Shape, States
  <2>4. TPlug
    <3>1. path' = Set(path, d, p) /\ plugs' = plugs + 1 /\ watch[1] = "idle"
          /\ \E x \in {"spawn", "device_removed", "recover"} : watch' = <<x, d, 0>>
      BY <1>13, <2>k DEF Plug
    <3>2. p \in Nat /\ plugs \in Nat /\ path \in [Device -> Nat]
      BY DEF Shape
    <3>3. path' \in [Device -> Nat] /\ plugs' \in Nat
      BY <3>1, <3>2 DEF Set
    <3> QED BY <3>1, <3>3 DEF TPlug
  <2> QED BY <1>2, <2>2, <2>3, <2>4
<1>14. ASSUME PlugDetach
       PROVE  Frame /\ Shape'
  <2>1. Frame /\ TFlash /\ TCall /\ TShut
    BY <1>1, <1>14 DEF PlugDetach, Frame
  <2>2. TPlug
    BY <1>14 DEF PlugDetach, TPlug, Shape, NoWatch
  <2>3. CASE \E s \in Session, kind \in Causes : br[s] # 0 /\ BeginDrain(s, kind, br[s])
    <3>1. \A s \in Session : br[s] # 0 => br[s] \in Ops
      BY <1>0 DEF Shape
    <3>2. TPort /\ TJob /\ TSess
      BY <1>7, <1>14, <2>1, <2>3, <3>1 DEF PlugDetach
    <3> QED BY <1>2, <2>1, <2>2, <3>2
  <2>4. CASE /\ UNCHANGED <<pend, drain, released, closing>>
             /\ UNCHANGED <<st, flag>> \/ \E s \in Session : Detach(s)
    <3>1. TPort /\ TJob
      BY <1>1, <1>14, <2>4 DEF PlugDetach
    <3>2. TSess
      BY ZenonT(40), <1>14, <2>4 DEF PlugDetach, Detach, TSess, Shape, Set, States
    <3> QED BY <1>2, <2>1, <2>2, <3>1, <3>2
  <2> QED BY <1>14, <2>3, <2>4 DEF PlugDetach, Causes, Bound
<1>15. ASSUME PlugSpawn
       PROVE  Frame /\ Shape'
  <2>1. Frame /\ TPort /\ TJob /\ TSess /\ TFlash /\ TCall /\ TShut
    BY <1>1, <1>15 DEF PlugSpawn, Frame
  <2>2. TPlug
    BY <1>15 DEF PlugSpawn, TPlug, Shape, NoWatch
  <2> QED BY <1>2, <2>1, <2>2
<1>16. ASSUME ShutBegin \/ ShutJoin \/ ShutOps \/ ShutEnd
       PROVE  Frame /\ Shape'
  <2>1. Frame /\ TPort /\ TJob /\ TSess /\ TFlash /\ TPlug /\ TCall
    BY <1>1, <1>16 DEF ShutBegin, ShutJoin, ShutOps, ShutEnd, Frame, Call
  <2>2. TShut
    BY <1>16 DEF ShutBegin, ShutJoin, ShutOps, ShutEnd, TShut, Shape
  <2> QED BY <1>2, <2>1, <2>2
<1>17. ASSUME ShutCancel
       PROVE  Frame /\ Shape'
  <2>1. Frame /\ TSess /\ TFlash /\ TPlug /\ TCall
    BY <1>1, <1>17 DEF ShutCancel, Frame
  <2>2. InTables \ {0} \subseteq Ops
    BY <1>0 DEF InTables, Shape
  <2>3. TShut
    BY <1>17, <2>2 DEF ShutCancel, TShut, Shape
  <2>4. \A d \in Device : attaching[d] # 0 => attaching[d] \in Ops
    BY <1>0 DEF Shape
  <2>5. TPort
    BY <1>17, <2>4 DEF ShutCancel, TPort, Shape
  <2>6. TJob
    BY <1>17, <2>4 DEF ShutCancel, TJob, Shape
  <2> QED BY <1>2, <2>1, <2>3, <2>5, <2>6
<1>18. ASSUME ShutDrain
       PROVE  Frame /\ Shape'
  <2> DEFINE left == {s \in Session : pend[s] = NoJob /\ br[s] # 0}
  <2>1. Frame /\ TFlash /\ TPlug /\ TCall
    BY <1>1, <1>18 DEF ShutDrain, Frame
  <2>2. TShut
    BY <1>18 DEF ShutDrain, TShut, Shape
  <2>3. \A s \in left : br[s] \in Ops
    BY <1>0 DEF Shape
  <2>4. TPort
    BY <1>18, <2>3 DEF ShutDrain, TPort, Shape
  <2>5. pend' \in [Session -> Jobs]
    BY <1>18, <2>3 DEF ShutDrain, Shape, Jobs, Causes
  <2>6. TJob
    <3>1. \A d \in Device : (\E s \in left : dev[s] = d) =>
            (CHOOSE s \in left : dev[s] = d) \in Session
      OBVIOUS
    <3>2. drain' = [d \in Device |-> IF \E s \in left : dev[s] = d
                     THEN pend'[CHOOSE s \in left : dev[s] = d] ELSE drain[d]]
      BY <1>18 DEF ShutDrain
    <3>3. drain \in [Device -> Jobs \cup ({"cleanup"} \X Ops)]
      BY DEF Shape
    <3> QED BY <2>5, <3>1, <3>2, <3>3 DEF TJob
  <2>7. TSess
    BY <1>18 DEF ShutDrain, TSess, Shape
  <2> QED BY <1>2, <2>1, <2>2, <2>4, <2>6, <2>7
<1> QED
  BY <1>3, <1>4, <1>5, <1>6, <1>8, <1>9, <1>10, <1>11, <1>12, <1>13, <1>14, <1>15, <1>16, <1>17,
     <1>18 DEF OtherMoves

\* What they do to ports and drains.
LEMMA OtherKinds ==
  ASSUME OneEach, Shape, WorkersHold, OtherMoves
  PROVE  \/ Quiet
         \/ \E k \in Op : BridgeCloses(k)
         \/ \E d \in Device : CompleteCleanup(d)
         \/ \E s \in Session : CompleteDrain(s)
         \/ \E s \in Session, kind \in Causes \ {"shutdown"}, b \in Ops : DrainStarts(s, kind, b)
         \/ ShutCancel \/ ShutDrain
<1>0. Frame /\ dev = Home
  BY OtherShape DEF Shape
<1>1. ASSUME NEW s \in Session, ReleaseOp(s)
      PROVE  Quiet
  <2>1. Working(dev[s]) # 0
    BY <1>1, PendingOp DEF ReleaseOp
  <2> QED BY <1>0, <1>1, <2>1 DEF ReleaseOp, Quiet, Shutting
<1>2. ASSUME NEW s \in Session, ReleaseDrain(s)
      PROVE  Quiet \/ \E b \in Ops : DrainStarts(s, "release", b)
  <2>1. CASE /\ pend[s][1] = "release"
             /\ UNCHANGED <<pend, drain, st, flag, released, closing>>
    BY <1>0, <1>2, <2>1 DEF ReleaseDrain, Quiet, Shutting
  <2>2. ASSUME NEW b \in Nat, b = IF br[s] # 0 THEN br[s] ELSE attaching[dev[s]],
               BeginDrain(s, "release", b), rw' = Set(rw, s, <<"job", b>>), b # 0,
               pend[s] = NoJob
        PROVE  DrainStarts(s, "release", b) /\ b \in Ops
    <3>1. b \in Ops
      BY <2>2, LifecycleAssumption DEF Shape, Ops
    <3>2. \A t \in Session : rw'[t][1] = "op" => rw'[t] = rw[t]
      BY <2>2 DEF Set, Shape
    <3>3. /\ ~Shutting /\ ~FlashBusy(s)
          /\ UNCHANGED <<handle, attaching, br, promised, critical, prev, relreq, down, stalled,
                         sops, sjobs>>
      BY <1>2 DEF ReleaseDrain, ReleaseCall
    <3> QED BY <1>0, <2>2, <3>1, <3>2, <3>3 DEF DrainStarts, DrainBegins, Causes
  <2>3. br[s] \in Nat /\ attaching[dev[s]] \in Nat
    BY <1>0, LifecycleAssumption DEF Shape
  <2> QED BY <1>2, <2>1, <2>2, <2>3 DEF ReleaseDrain
<1>3. ASSUME NEW s \in Session, ReleaseNow(s) \/ ReleaseAnswered(s) \/ ReleaseTimeout(s)
                                \/ AttachSession(s) \/ FlashMark(s) \/ FlashEnter(s)
                                \/ FlashUnmark(s) \/ FlashExit(s)
      PROVE  Quiet
  BY <1>0, <1>3 DEF ReleaseNow, ReleaseAnswered, ReleaseTimeout, AttachSession, FlashMark,
     FlashEnter, FlashUnmark, FlashExit, Quiet, Shutting
<1>4. ASSUME NEW s \in Session, NEW kind \in Causes \ {"shutdown", "release"}, br[s] # 0,
             pend[s] = NoJob, ~FlashBusy(s), BeginDrain(s, kind, br[s]),
             UNCHANGED <<handle, attaching, br, promised, critical, prev, relreq, down, stalled,
                         sops, sjobs, rw>>
      PROVE  br[s] \in Ops /\ DrainStarts(s, kind, br[s])
  <2>1. br[s] \in Ops
    BY <1>4 DEF Shape, Ops
  <2> QED BY <1>0, <1>4, <2>1 DEF DrainStarts, DrainBegins
<1>5. ASSUME NEW s \in Session, Clear(s) \/ BridgeDown(s)
      PROVE  Quiet \/ \E kind \in Causes \ {"shutdown"}, b \in Ops : DrainStarts(s, kind, b)
  <2>1. CASE UNCHANGED <<pend, drain, released, closing>>
    BY <1>0, <1>5, <2>1 DEF Clear, BridgeDown, Quiet, Shutting
  <2>2. CASE \E kind \in {"clear", "io_error"} : br[s] # 0 /\ BeginDrain(s, kind, br[s])
    <3>1. /\ pend[s] = NoJob /\ ~FlashBusy(s)
          /\ UNCHANGED <<handle, attaching, br, promised, critical, prev, relreq, down, stalled,
                         sops, sjobs, rw>>
      BY <1>5 DEF Clear, BridgeDown
    <3> QED BY <1>4, <2>2, <3>1 DEF Causes
  <2> QED BY <1>5, <2>1, <2>2 DEF Clear, BridgeDown
<1>6. ASSUME PlugDetach
      PROVE  \/ Quiet
             \/ \E s \in Session, kind \in Causes \ {"shutdown"}, b \in Ops :
                  DrainStarts(s, kind, b)
  <2>1. CASE UNCHANGED <<pend, drain, released, closing>>
    BY <1>0, <1>6, <2>1 DEF PlugDetach, Quiet, Shutting
  <2>2. CASE \E s \in Session : /\ br[s] # 0 /\ BeginDrain(s, watch[1], br[s])
                                /\ ~FlashBusy(s) /\ pend[s] = NoJob
    <3>1. /\ watch[1] \in Causes \ {"shutdown", "release"}
          /\ UNCHANGED <<handle, attaching, br, promised, critical, prev, relreq, down, stalled,
                         sops, sjobs, rw>>
      BY <1>6 DEF PlugDetach, Causes
    <3> QED BY <1>4, <2>2, <3>1
  <2> QED BY <1>6, <2>1, <2>2 DEF PlugDetach, Bound
<1>7. ASSUME NEW d \in Device, NEW p \in {0, plugs + 2}, Plug(d, p)
      PROVE  Quiet
  <2>1. UNCHANGED <<held, br, released>>
    BY <1>7 DEF Plug, FinishOp, Shape
  <2> QED BY <1>0, <1>7, <2>1 DEF Plug, Quiet, Shutting
<1>8. ASSUME PlugSpawn \/ ShutBegin \/ ShutJoin \/ ShutOps \/ ShutEnd
      PROVE  Quiet
  BY <1>0, <1>8 DEF PlugSpawn, ShutBegin, ShutJoin, ShutOps, ShutEnd, Quiet, Shutting
<1> QED BY <1>1, <1>2, <1>3, <1>5, <1>6, <1>7, <1>8 DEF OtherMoves, Causes

------------------------------------------------------------------------------
(* Ports, bridges and drains                                               *)

Ports == WorkersHold /\ BridgesHold /\ DrainsHold /\ PortsHold

\* A quiet step disturbs none of them.
LEMMA QuietPorts ==
  ASSUME OneEach, Shape, Ports, Quiet
  PROVE  Ports'
<1>0. /\ UNCHANGED <<ops, info, handle, done, started, opening, active, preopened, inflight, wpc,
                     ws, wop, closing, attaching, drain, pend, br>>
      /\ Ops' = Ops /\ released \subseteq released' /\ (Shutting => Shutting')
  BY DEF Quiet, Frame, Ops
<1>1. WorkersHold'
  BY <1>0 DEF Ports, WorkersHold, WorkerPlaced, OpPlaced
<1>2. BridgesHold'
  <2>1. ASSUME NEW s \in Session
        PROVE  BridgeOwned(s)'
    BY <1>0 DEF Ports, BridgesHold, BridgeOwned
  <2>2. ASSUME NEW d \in Device
        PROVE  AttachOwned(d)' /\ StageFits(d)'
    BY <1>0 DEF Ports, BridgesHold, AttachOwned, StageFits
  <2> QED BY <2>1, <2>2 DEF BridgesHold
<1>3. DrainsHold'
  <2>1. ASSUME NEW s \in Session
        PROVE  DrainOwned(s)'
    BY <1>0 DEF Ports, DrainsHold, DrainOwned
  <2> QED BY <1>0, <2>1 DEF Ports, DrainsHold
<1>4. PortsHold'
  BY <1>0 DEF Ports, PortsHold, PortOwned
<1> QED BY <1>1, <1>2, <1>3, <1>4 DEF Ports

\* The numbers of operations.
LEMMA OpNumbers ==
  ASSUME Shape
  PROVE  /\ ops \in Nat /\ Ops = 1 .. ops /\ Ops \subseteq Op
         /\ \A k \in 0 .. ops : k # 0 => k \in Ops
         /\ 0 \notin Ops /\ ops + 1 \notin Ops
<1>1. ops \in Nat /\ ops <= MaxOps
  BY DEF Shape
<1> QED BY <1>1, LifecycleAssumption DEF Ops, Op

\* An operation has a session and a device.
LEMMA InfoShape ==
  ASSUME Shape
  PROVE  \A k \in Ops : info[k].d \in Device /\ info[k].s \in Session
<1> DEFINE R == [s : Session, d : Device, path : Nat, gen : Nat]
<1>1. info \in Seq(R) /\ Ops = 1 .. Len(info)
  BY DEF Shape, Ops
<1> HIDE DEF R
<1>2. \A k \in Ops : info[k] \in R
  BY <1>1
<1> QED BY <1>2 DEF R

\* What a step of a worker leaves to the others, and to the operations there are.
Same(k) ==
  /\ info'[k] = info[k] /\ handle'[k] = handle[k]
  /\ k \in done' <=> k \in done
  /\ k \in started' <=> k \in started
  /\ k \in closing' <=> k \in closing
LEMMA Apart ==
  ASSUME OneEach, Shape, WorkersHold, NEW d \in Device, WorkerMoves(d)
  PROVE  /\ \A e \in Device \ {d} :
              /\ wpc'[e] = wpc[e] /\ ws'[e] = ws[e] /\ wop'[e] = wop[e]
              /\ opening'[e] = opening[e] /\ active'[e] = active[e]
              /\ attaching'[e] = attaching[e] /\ drain'[e] = drain[e]
              /\ e \in inflight' <=> e \in inflight
         /\ \A k \in Ops : k # wop[d] \/ info[k].d # d => Same(k)
         /\ \A s \in Session : Home[s] # d => br'[s] = br[s]
         /\ Ops \subseteq Ops'
         /\ \A k \in Ops : info'[k] = info[k]
<1>0. /\ opening \in [Device -> 0 .. ops] /\ active \in [Device -> 0 .. ops]
      /\ attaching \in [Device -> 0 .. ops] /\ wpc \in [Device -> Stages]
      /\ ws \in [Device -> Session \cup {None}] /\ wop \in [Device -> 0 .. ops]
      /\ drain \in [Device -> Jobs \cup ({"cleanup"} \X Ops)] /\ br \in [Session -> 0 .. ops]
      /\ handle \in [Op -> {"none", "opening", "open", "closed", "lost"}]
      /\ ops \in Nat /\ Ops = 1 .. ops
      /\ info \in Seq([s : Session, d : Device, path : Nat, gen : Nat]) /\ Len(info) = ops
  BY DEF Shape, Ops
<1>a. Ops \subseteq Op /\ \A k \in Ops : k # ops + 1
  BY LifecycleAssumption DEF Shape, Ops, Op
<1>1. Others(d)
  BY DEF WorkerMoves, Walks, Enters, Works, Finishes, HandsOver, Starts, Probes, Publishes
<1>2. ASSUME NEW e \in Device \ {d}
      PROVE  /\ wpc'[e] = wpc[e] /\ ws'[e] = ws[e] /\ wop'[e] = wop[e]
             /\ e \in inflight' <=> e \in inflight
  BY <1>0, <1>1 DEF Others, Set
<1>3. ASSUME NEW e \in Device \ {d}
      PROVE  opening'[e] = opening[e] /\ active'[e] = active[e] /\ attaching'[e] = attaching[e]
  <2>1. CASE Walks(d) \/ Enters(d) \/ Works(d) \/ Finishes(d)
    BY <1>0, <2>1 DEF Walks, Enters, Works, Finishes, Set
  <2>2. CASE HandsOver(d) \/ Starts(d) \/ Probes(d) \/ Publishes(d)
    BY <1>0, <2>2 DEF HandsOver, Starts, Probes, Publishes, Set
  <2> QED BY <2>1, <2>2 DEF WorkerMoves
<1>4. ASSUME NEW e \in Device \ {d}
      PROVE  drain'[e] = drain[e]
  <2>1. drain' = drain \/ \E k \in 0 .. ops : drain' = Set(drain, d, <<"cleanup", k>>)
    BY <1>0 DEF WorkerMoves, Walks, Enters, Works, Finishes, HandsOver, Starts, Probes, Publishes,
       BeginCleanup
  <2> QED BY <1>0, <2>1 DEF Set
<1>5. ASSUME NEW s \in Session, Home[s] # d
      PROVE  br'[s] = br[s]
  <2>1. CASE Publishes(d)
    <3>1. ws[d] \in Session /\ Home[ws[d]] = d
      BY <2>1 DEF Publishes, WorkersHold, WorkerPlaced, Bridging
    <3> QED BY <1>0, <1>5, <2>1, <3>1 DEF Publishes, Set
  <2>2. CASE ~Publishes(d)
    BY <2>2 DEF WorkerMoves, Walks, Enters, Works, Finishes, HandsOver, Starts, Probes
  <2> QED BY <2>1, <2>2
<1>6. /\ Ops \subseteq Ops'
      /\ \A k \in Ops : info'[k] = info[k]
  <2>1. CASE Enters(d)
    BY SMTT(20), <1>0, <2>1 DEF Enters, Ops, Shape
  <2>2. CASE ~Enters(d)
    BY <2>2 DEF WorkerMoves, Walks, Publishes, Works, Finishes, HandsOver, Starts, Probes, Ops
  <2> QED BY <2>1, <2>2
<1>7. ASSUME NEW k \in Ops, k # wop[d] \/ info[k].d # d
      PROVE  Same(k)
  <2>0. wpc[d] \in AtWork \cup Bridging => k # wop[d]
    BY <1>7 DEF WorkersHold, WorkerPlaced
  <2>1. CASE Walks(d)
    BY <1>6, <2>1 DEF Walks, Same
  <2>5. CASE Enters(d)
    <3>1. handle'[k] = handle[k]
      BY <1>0, <1>a, <2>5 DEF Enters, Set
    <3> QED BY <1>6, <2>5, <3>1 DEF Enters, Same
  <2>2. CASE Works(d) \/ Finishes(d)
    BY <1>0, <1>a, <1>6, <2>0, <2>2 DEF Works, Finishes, Same, Set, AtWork
  <2>3. CASE HandsOver(d) \/ Starts(d)
    BY <1>0, <1>a, <1>6, <2>0, <2>3 DEF HandsOver, Starts, Same, Set, AtWork, Bridging
  <2>4. CASE Probes(d) \/ Publishes(d)
    BY <1>0, <1>6, <2>0, <2>4 DEF Probes, Publishes, BeginCleanup, Same
  <2> QED BY <2>1, <2>2, <2>3, <2>4, <2>5 DEF WorkerMoves
<1> QED BY <1>2, <1>3, <1>4, <1>5, <1>6, <1>7

\* Workers and their operations.
LEMMA WorkerKeepsWorkers ==
  ASSUME OneEach, Shape, Ports, NEW d \in Device, WorkerMoves(d)
  PROVE  WorkersHold'
<1>0. WorkersHold /\ BridgesHold /\ DrainsHold /\ PortsHold
  BY DEF Ports
<1>a. /\ wpc \in [Device -> Stages] /\ wop \in [Device -> 0 .. ops] /\ ops \in Nat
      /\ opening \in [Device -> 0 .. ops] /\ active \in [Device -> 0 .. ops]
      /\ handle \in [Op -> {"none", "opening", "open", "closed", "lost"}]
      /\ done \subseteq Ops /\ started \subseteq Ops /\ Ops = 1 .. ops
      /\ info \in Seq([s : Session, d : Device, path : Nat, gen : Nat]) /\ Len(info) = ops
  BY DEF Shape, Ops
<1>b. Ops \subseteq Op
  BY LifecycleAssumption DEF Shape, Ops, Op
<1>c. \A k \in Ops : info[k].d \in Device /\ info[k].s \in Session
  BY InfoShape
<1>1. ASSUME NEW e \in Device \ {d}
      PROVE  WorkerPlaced(e)'
  <2>1. WorkerPlaced(e)
    BY <1>0 DEF WorkersHold
  <2>2. wpc[e] \in AtWork \cup Bridging => wop[e] \in Ops /\ info[wop[e]].d # d
    <3>1. wpc[e] \in AtWork \cup Bridging => wop[e] # 0 /\ info[wop[e]].d = e
      BY <2>1 DEF WorkerPlaced
    <3>2. wop[e] \in 0 .. ops /\ e # d
      BY <1>a
    <3>3. ops \in Nat /\ Ops = 1 .. ops
      BY <1>a
    <3> QED BY <3>1, <3>2, <3>3
  <2>3. wpc[e] \in AtWork \cup Bridging => Same(wop[e])
    BY <1>0, <2>2, Apart
  <2>4. /\ wpc'[e] = wpc[e] /\ ws'[e] = ws[e] /\ wop'[e] = wop[e]
        /\ opening'[e] = opening[e] /\ active'[e] = active[e]
        /\ e \in inflight' <=> e \in inflight
    BY <1>0, Apart
  <2>5. (wpc[e] \in AtWork \cup Bridging)' <=> wpc[e] \in AtWork \cup Bridging
    BY <2>4 DEF AtWork, Bridging
  <2>6. CASE wpc[e] \in AtWork \cup Bridging
    BY <2>1, <2>3, <2>4, <2>6 DEF WorkerPlaced, Same, AtWork, Bridging
  <2>7. CASE wpc[e] \notin AtWork \cup Bridging
    BY <2>1, <2>4, <2>7 DEF WorkerPlaced, AtWork, Bridging
  <2> QED BY <2>6, <2>7
<1>2. WorkerPlaced(d) /\ wpc[d] \in Stages
      /\ (wpc[d] \in AtWork \cup Bridging => wop[d] \in Ops /\ wop[d] \in Op)
  BY <1>0, <1>a, <1>b DEF WorkersHold, WorkerPlaced
<1>3. WorkerPlaced(d)'
  <2>1. CASE Walks(d)
    BY <1>2, <2>1 DEF Walks, WorkerPlaced, AtWork, Bridging
  <2>2. CASE Enters(d)
    <3>1. ops + 1 \in Op /\ ops + 1 \notin Ops /\ ops + 1 # 0
      BY <1>a, <2>2, LifecycleAssumption DEF Enters, Op
    <3>2. info'[ops + 1].d = d /\ info'[ops + 1].s = ws[d]
      BY <1>a, <2>2 DEF Enters
    <3>3. handle'[ops + 1] = "opening" /\ opening'[d] = ops + 1 /\ active'[d] = 0
      BY <1>a, <1>2, <2>2, <3>1 DEF Enters, Set, WorkerPlaced
    <3>4. ops + 1 \notin done' /\ ops + 1 \notin started'
      BY <1>a, <2>2, <3>1 DEF Enters
    <3>5. ws'[d] \in Session /\ Home[ws'[d]] = d /\ d \in inflight'
      BY <1>2, <2>2 DEF Enters, WorkerPlaced
    <3> QED BY <2>2, <3>1, <3>2, <3>3, <3>4, <3>5 DEF Enters, WorkerPlaced, AtWork, Bridging
  <2>3. CASE Works(d)
    BY <1>a, <1>2, <2>3 DEF Works, Stay, Set, WorkerPlaced, AtWork, Bridging
  <2>4. CASE Finishes(d)
    BY <1>a, <1>2, <2>4 DEF Finishes, Stay, Set, WorkerPlaced, AtWork, Bridging
  <2>5. CASE HandsOver(d)
    BY <1>a, <1>2, <2>5 DEF HandsOver, Stay, Set, WorkerPlaced, AtWork, Bridging
  <2>6. CASE Starts(d)
    BY <1>a, <1>2, <2>6 DEF Starts, Stay, Set, WorkerPlaced, AtWork, Bridging
  <2>7. CASE Probes(d)
    BY <1>a, <1>2, <2>7 DEF Probes, Stay, WorkerPlaced, AtWork, Bridging
  <2>8. CASE Publishes(d)
    BY <1>a, <1>2, <2>8 DEF Publishes, Stay, WorkerPlaced, AtWork, Bridging
  <2> QED BY <2>1, <2>2, <2>3, <2>4, <2>5, <2>6, <2>7, <2>8 DEF WorkerMoves
<1>4. ASSUME NEW k \in Ops
      PROVE  OpPlaced(k)'
  <2>0. OpPlaced(k) /\ info'[k] = info[k] /\ info[k].d \in Device
    BY <1>0, <1>c, Apart DEF WorkersHold
  <2>1. CASE k # wop[d] \/ info[k].d # d
    <3>1. Same(k)
      BY <1>0, <2>1, Apart
    <3>2. CASE info[k].d # d
      <4>1. wpc'[info[k].d] = wpc[info[k].d] /\ wop'[info[k].d] = wop[info[k].d]
        BY <1>0, <2>0, <3>2, Apart
      <4> QED BY <2>0, <3>1, <4>1 DEF OpPlaced, Same
    <3>3. CASE info[k].d = d
      <4>1. k \in done
        BY <2>0, <2>1, <3>3 DEF OpPlaced
      <4> QED BY <2>0, <3>1, <4>1 DEF OpPlaced, Same
    <3> QED BY <3>2, <3>3
  <2>2. CASE k = wop[d] /\ info[k].d = d
    <3>1. CASE Walks(d) \/ Enters(d)
      <4>1. k \in done /\ done' = done
        BY <2>0, <2>2, <3>1 DEF OpPlaced, Walks, Enters, AtWork
      <4>2. handle'[k] = handle[k]
        <5>1. k # ops + 1 /\ k \in Op
          BY <1>a, <1>b
        <5> QED BY <1>a, <3>1, <5>1 DEF Walks, Enters, Set
      <4> QED BY <2>0, <4>1, <4>2 DEF OpPlaced
    <3>2. CASE Works(d)
      BY <1>a, <1>2, <2>0, <2>2, <3>2 DEF OpPlaced, Works, Stay, Set, AtWork
    <3>3. CASE Finishes(d) \/ HandsOver(d)
      BY <1>a, <1>2, <2>0, <2>2, <3>3 DEF OpPlaced, Finishes, HandsOver, Stay, Set, AtWork,
         WorkerPlaced
    <3>4. CASE Starts(d)
      BY <1>a, <1>2, <2>0, <2>2, <3>4 DEF OpPlaced, Starts, Set, Bridging, WorkerPlaced
    <3>5. CASE Probes(d) \/ Publishes(d)
      BY <1>a, <1>2, <2>0, <2>2, <3>5 DEF OpPlaced, Probes, Publishes, Bridging, WorkerPlaced
    <3> QED BY <3>1, <3>2, <3>3, <3>4, <3>5 DEF WorkerMoves
  <2> QED BY <2>1, <2>2
<1>5. ASSUME NEW k \in Ops' \ Ops
      PROVE  OpPlaced(k)'
  <2>1. Enters(d)
    BY DEF WorkerMoves, Walks, Works, Finishes, HandsOver, Starts, Probes, Publishes, Ops
  <2>2. k = ops + 1
    BY <1>a, <2>1 DEF Enters, Ops
  <2>3. info'[k].d = d /\ info'[k].s = ws[d]
    BY <1>a, <2>1, <2>2 DEF Enters
  <2>4. k \notin done'
    BY <1>a, <2>1 DEF Enters
  <2>5. Home[ws[d]] = d
    BY <1>2, <2>1 DEF Enters, WorkerPlaced
  <2> QED BY <2>1, <2>2, <2>3, <2>4, <2>5 DEF Enters, OpPlaced, AtWork
<1>6. ASSUME NEW k \in Op \ Ops'
      PROVE  handle'[k] = "none"
  <2>0. handle[k] = "none" /\ k \notin Ops
    BY <1>0, Apart DEF WorkersHold
  <2>1. CASE Enters(d)
    <3>1. k # ops + 1
      BY SMTT(20), <1>a, <2>1 DEF Enters, Ops
    <3> QED BY <1>a, <2>0, <2>1, <3>1 DEF Enters, Set
  <2>2. CASE ~Enters(d)
    <3>1. handle' = handle \/ \E h \in {"open", "closed", "lost"} :
            wop[d] \in Ops /\ handle' = Set(handle, wop[d], h)
      BY <1>2, <2>2 DEF WorkerMoves, Walks, Works, Finishes, HandsOver, Starts, Probes, Publishes,
         AtWork, Bridging
    <3> QED BY <1>a, <2>0, <3>1 DEF Set
  <2> QED BY <2>1, <2>2
<1>7. closing' \cup started' \subseteq done'
  <2>0. closing \cup started \subseteq done /\ (wpc[d] \in Bridging => wop[d] \in done)
    BY <1>0, <1>2 DEF WorkersHold, WorkerPlaced
  <2>1. CASE Walks(d) \/ Enters(d) \/ Works(d) \/ Publishes(d)
    BY <2>0, <2>1 DEF Walks, Enters, Works, Publishes
  <2>2. CASE Finishes(d) \/ HandsOver(d)
    BY <2>0, <2>2 DEF Finishes, HandsOver
  <2>3. CASE Starts(d)
    BY <2>0, <2>3 DEF Starts, Bridging
  <2>4. CASE Probes(d)
    BY <2>0, <2>4 DEF Probes, BeginCleanup
  <2> QED BY <2>1, <2>2, <2>3, <2>4 DEF WorkerMoves
<1>8. ASSUME NEW e \in Device
      PROVE  WorkerPlaced(e)'
  BY <1>1, <1>3
<1>9. ASSUME NEW k \in Ops'
      PROVE  OpPlaced(k)'
  BY <1>4, <1>5
<1> QED BY <1>6, <1>7, <1>8, <1>9 DEF WorkersHold

\* It keeps who works on what: at most a bridge that drains closes its port.
LEMMA OtherKeepsWorkers ==
  ASSUME OneEach, Shape, Ports, Frame, closing' \subseteq done,
         handle' = handle \/ \E k \in closing \cap started : handle' = Set(handle, k, "closed")
  PROVE  WorkersHold'
<1>0. /\ WorkersHold /\ Ops' = Ops /\ closing \cup started \subseteq done
      /\ handle \in [Op -> {"none", "opening", "open", "closed", "lost"}]
      /\ done \subseteq Ops /\ Ops \subseteq Op
  BY OpNumbers DEF Ports, Frame, Ops, WorkersHold, Shape
<1>1. UNCHANGED <<wpc, inflight, ws, wop, opening, active, info, done, started>>
  BY DEF Frame
<1>2. \A k \in Op : handle'[k] = handle[k] \/ (k \in started /\ handle'[k] = "closed")
  BY <1>0 DEF Set
<1>3. ASSUME NEW d \in Device
      PROVE  WorkerPlaced(d)'
  <2>1. WorkerPlaced(d)
    BY <1>0 DEF WorkersHold
  <2>2. wpc[d] \in AtWork \cup {"start"} => wop[d] \in Op
    <3>1. wpc[d] \in AtWork \cup {"start"} => wop[d] # 0
      BY <2>1 DEF WorkerPlaced, Bridging
    <3>2. wop[d] \in 0 .. ops
      BY DEF Shape
    <3> QED BY <3>1, <3>2, OpNumbers
  <2>3. wpc[d] \in AtWork \cup {"start"} => handle'[wop[d]] = handle[wop[d]]
    BY <1>2, <2>1, <2>2 DEF WorkerPlaced
  <2> QED BY <1>1, <2>1, <2>3 DEF WorkerPlaced, AtWork
<1>4. ASSUME NEW k \in Ops
      PROVE  OpPlaced(k)'
  BY <1>0, <1>1, <1>2 DEF WorkersHold, OpPlaced
<1>5. \A k \in Op \ Ops : handle'[k] = "none"
  BY <1>0, <1>2 DEF WorkersHold
<1> QED BY <1>0, <1>1, <1>3, <1>4, <1>5 DEF WorkersHold

\* The bridges sessions have, and those on their way to one.
LEMMA WorkerKeepsBridges ==
  ASSUME OneEach, Shape, Ports, NEW d \in Device, WorkerMoves(d)
  PROVE  BridgesHold'
<1>0. /\ WorkersHold /\ BridgesHold /\ DrainsHold /\ WorkerPlaced(d) /\ WorkersHold'
      /\ AttachOwned(d) /\ StageFits(d)
  BY WorkerKeepsWorkers DEF Ports, WorkersHold, BridgesHold
<1>a. /\ wpc \in [Device -> Stages] /\ wop \in [Device -> 0 .. ops]
      /\ attaching \in [Device -> 0 .. ops] /\ br \in [Session -> 0 .. ops]
      /\ drain \in [Device -> Jobs \cup ({"cleanup"} \X Ops)] /\ Home \in [Session -> Device]
      /\ ws \in [Device -> Session \cup {None}]
  BY LifecycleAssumption DEF Shape
<1>b. ops \in Nat /\ Ops = 1 .. ops /\ (\A k \in 0 .. ops : k # 0 => k \in Ops)
      /\ closing \subseteq done /\ started \subseteq done
  BY <1>0 DEF Shape, Ops, WorkersHold
<1>c. /\ Elsewhere /\ (released' = released \/ released' = released \cup {d})
      /\ Others(d)
  BY DEF WorkerMoves, Walks, Enters, Works, Finishes, HandsOver, Starts, Probes, Publishes
<1>d. pend' = pend /\ Shutting' = Shutting
  BY <1>c DEF Elsewhere, Shutting
<1>1. ASSUME NEW s \in Session, Home[s] # d
      PROVE  BridgeOwned(s)'
  <2>1. BridgeOwned(s) /\ br'[s] = br[s]
    BY <1>0, <1>1, Apart DEF BridgesHold
  <2>2. wpc'[Home[s]] = wpc[Home[s]] /\ attaching'[Home[s]] = attaching[Home[s]]
    BY <1>0, <1>1, <1>a, Apart
  <2>3. br[s] # 0 => Same(br[s])
    BY <1>0, <1>1, <1>a, <1>b, <2>1, Apart DEF BridgeOwned
  <2> QED BY <1>d, <2>1, <2>2, <2>3 DEF BridgeOwned, Same
<1>2. ASSUME NEW e \in Device, e # d
      PROVE  AttachOwned(e)' /\ StageFits(e)'
  <2>1. AttachOwned(e) /\ StageFits(e) /\ WorkerPlaced(e)
    BY <1>0 DEF BridgesHold, WorkersHold
  <2>2. /\ wpc'[e] = wpc[e] /\ wop'[e] = wop[e] /\ attaching'[e] = attaching[e]
        /\ drain'[e] = drain[e]
    BY <1>0, <1>2, Apart
  <2>3. attaching[e] # 0 => Same(attaching[e])
    BY <1>0, <1>2, <1>a, <1>b, <2>1, Apart DEF AttachOwned
  <2>4. wpc[e] \in Bridging => Same(wop[e])
    <3>1. wpc[e] \in Bridging => wop[e] # 0 /\ info[wop[e]].d = e
      BY <2>1 DEF WorkerPlaced
    <3>2. wop[e] # 0 => wop[e] \in Ops
      BY <1>a, <1>b
    <3> QED BY <1>0, <1>2, <3>1, <3>2, Apart
  <2>5. AttachOwned(e)'
    BY <2>1, <2>2, <2>3 DEF AttachOwned, Same
  <2>6. StageFits(e)'
    BY <1>c, <1>d, <2>1, <2>2, <2>4 DEF StageFits, Same
  <2> QED BY <2>5, <2>6
<1>3. ASSUME NEW s \in Session, Home[s] = d
      PROVE  BridgeOwned(s)'
  <2>1. BridgeOwned(s)
    BY <1>0 DEF BridgesHold
  <2>2. CASE Walks(d)
    <3>1. wpc'[d] \in {"device", "preopen"} => br[s] = 0
      <4>1. wpc'[d] \in {"device", "preopen"} => ws'[d] = s /\ br[ws'[d]] = 0
        BY <1>3, <2>2 DEF Walks, OneEach
      <4> QED BY <4>1
    <3>2. br[s] # 0 => info'[br[s]] = info[br[s]]
      BY <2>2 DEF Walks
    <3> QED BY <1>3, <1>d, <2>1, <2>2, <3>1, <3>2 DEF BridgeOwned, Walks
  <2>3. CASE Enters(d) \/ Works(d) \/ Finishes(d) \/ HandsOver(d) \/ Starts(d) \/ Probes(d)
    <3>1. wpc[d] \notin {"none", "look", "exit"} /\ br' = br
      BY <2>3 DEF Enters, Works, Finishes, HandsOver, Starts, Probes, AtWork, Bridging
    <3> QED BY <1>3, <2>1, <3>1 DEF BridgeOwned
  <2>4. CASE Publishes(d)
    <3>1. ws[d] = s /\ wop[d] \in Ops /\ info[wop[d]].d = d /\ wop[d] \in started
      BY <1>0, <1>3, <1>a, <1>b, <2>4 DEF Publishes, WorkerPlaced, Bridging, OneEach
    <3>2. br'[s] = wop[d]
      BY <1>a, <2>4, <3>1 DEF Publishes, Set
    <3>3. wop[d] \notin closing
      BY <1>0, <2>4 DEF Publishes, StageFits, Bridging
    <3>4. wpc'[d] = "exit" /\ attaching'[d] = 0 /\ info' = info /\ started' = started
          /\ closing' = closing
      BY <1>a, <2>4 DEF Publishes, Set
    <3> QED BY <1>3, <3>1, <3>2, <3>3, <3>4 DEF BridgeOwned
  <2> QED BY <2>2, <2>3, <2>4 DEF WorkerMoves
<1>4. AttachOwned(d)' /\ StageFits(d)'
  <2>1. CASE Walks(d) \/ Works(d) \/ Finishes(d)
    <3>1. /\ UNCHANGED <<attaching, drain, info>> /\ done \subseteq done'
          /\ wpc[d] \notin Bridging /\ wpc'[d] \notin Bridging
          /\ wpc'[d] \in AtWork => wpc[d] \in AtWork
      BY <2>1 DEF Walks, Works, Finishes, AtWork, Bridging
    <3> QED BY <1>0, <3>1 DEF AttachOwned, StageFits, Bridging
  <2>2. CASE Enters(d)
    <3>1. attaching' = attaching /\ attaching[d] = 0
      BY <1>0, <2>2 DEF Enters, AttachOwned, Bridging
    <3>2. wpc'[d] \notin Bridging
      BY <2>2 DEF Enters, Bridging
    <3> QED BY <3>1, <3>2 DEF AttachOwned, StageFits
  <2>3. CASE HandsOver(d)
    <3>1. /\ attaching'[d] = wop[d] /\ wop'[d] = wop[d] /\ wpc'[d] = "start" /\ drain[d] = NoJob
          /\ UNCHANGED <<drain, info, closing>> /\ wop[d] \in done'
      BY <1>a, <2>3 DEF HandsOver, Stay, Set
    <3>2. wop[d] \notin closing /\ info[wop[d]].d = d
      BY <1>0, <1>b, <2>3 DEF HandsOver, WorkerPlaced, AtWork, Bridging
    <3> QED BY <3>1, <3>2 DEF AttachOwned, StageFits, AtWork, Bridging
  <2>4. CASE Starts(d)
    <3>1. /\ wpc[d] = "start" /\ wpc'[d] \in {"started", "raised"} /\ wop' = wop
          /\ UNCHANGED <<attaching, drain, info, closing, done, released>>
      BY <2>4 DEF Starts, Stay
    <3> QED BY <1>0, <1>d, <3>1 DEF AttachOwned, StageFits, AtWork, Bridging
  <2>5. CASE Probes(d)
    <3>1. /\ wpc[d] \in Bridging /\ UNCHANGED <<attaching, info, done, released, wop>>
          /\ wop[d] \in done /\ info[wop[d]].d = d /\ attaching[d] \in {0, wop[d]}
      BY <1>0, <2>5 DEF Probes, Stay, StageFits, WorkerPlaced
    <3>2. CASE /\ wpc[d] \in {"started", "probe"} /\ wpc'[d] \in {"probe", "ready", "noprompt"}
               /\ UNCHANGED <<drain, closing>>
      BY <1>0, <1>d, <3>1, <3>2 DEF AttachOwned, StageFits, AtWork, Bridging
    <3>3. CASE wpc'[d] \in {"raised", "nologin"} /\ UNCHANGED <<drain, closing>>
      BY <1>0, <3>1, <3>3 DEF AttachOwned, StageFits, AtWork, Bridging
    <3>4. CASE /\ wpc'[d] = "exit" /\ UNCHANGED <<drain, closing>>
               /\ attaching[d] # 0 => drain[d] # NoJob
      BY <1>0, <3>1, <3>4 DEF AttachOwned, StageFits, AtWork, Bridging
    <3>5. CASE wpc'[d] \in {"exit", "failed", "loggedout"} /\ BeginCleanup(d, wop[d])
      <4>1. drain'[d] = <<"cleanup", wop[d]>>
        BY <1>a, <3>5 DEF BeginCleanup, Set
      <4>2. drain'[d] # NoJob /\ drain'[d][2] = wop[d]
        BY <4>1 DEF NoJob
      <4> QED BY <3>1, <3>5, <4>2 DEF AttachOwned, StageFits, AtWork, Bridging
    <3> QED BY <2>5, <3>2, <3>3, <3>4, <3>5 DEF Probes
  <2>6. CASE Publishes(d)
    <3>1. attaching'[d] = 0 /\ wpc'[d] = "exit"
      BY <1>a, <2>6 DEF Publishes, Set
    <3> QED BY <3>1 DEF AttachOwned, StageFits, AtWork, Bridging
  <2> QED BY <2>1, <2>2, <2>3, <2>4, <2>5, <2>6 DEF WorkerMoves
<1> QED BY <1>1, <1>2, <1>3, <1>4 DEF BridgesHold

\* What drains.
LEMMA WorkerKeepsDrains ==
  ASSUME OneEach, Shape, Ports, NEW d \in Device, WorkerMoves(d)
  PROVE  DrainsHold'
<1>0. /\ WorkersHold /\ BridgesHold /\ DrainsHold /\ WorkerPlaced(d)
      /\ AttachOwned(d) /\ StageFits(d)
  BY DEF Ports, WorkersHold, BridgesHold
<1>a. /\ wop \in [Device -> 0 .. ops] /\ pend \in [Session -> Jobs]
      /\ attaching \in [Device -> 0 .. ops] /\ br \in [Session -> 0 .. ops]
      /\ drain \in [Device -> Jobs \cup ({"cleanup"} \X Ops)] /\ Home \in [Session -> Device]
      /\ ws \in [Device -> Session \cup {None}] /\ Jobs = {NoJob} \cup (Causes \X Ops)
  BY LifecycleAssumption DEF Shape, Jobs
<1>b. /\ \A s \in Session : pend[s] # NoJob => pend[s][2] \in Ops
      /\ \A e \in Device : drain[e] # NoJob => drain[e][2] \in Ops
      /\ \A s \in Session : pend[s] # NoJob => info'[pend[s][2]] = info[pend[s][2]]
      /\ \A e \in Device : drain[e] # NoJob => info'[drain[e][2]] = info[drain[e][2]]
  <2>1. /\ \A s \in Session : pend[s] # NoJob => pend[s][2] \in Ops
        /\ \A e \in Device : drain[e] # NoJob => drain[e][2] \in Ops
    BY <1>a
  <2> QED BY <1>0, <2>1, Apart
<1>c. Elsewhere /\ (released' = released \/ released' = released \cup {d})
  BY DEF WorkerMoves, Walks, Enters, Works, Finishes, HandsOver, Starts, Probes, Publishes
<1>d. pend' = pend /\ Shutting' = Shutting
  BY <1>c DEF Elsewhere, Shutting
<1>e. /\ drain' = drain /\ closing' = closing
      \/ /\ BeginCleanup(d, wop[d]) /\ wpc[d] \in Bridging
         /\ UNCHANGED <<info, attaching, br>> /\ wop[d] \in Ops
  <2>1. wpc[d] \in Bridging => wop[d] \in Ops
    <3>1. wpc[d] \in Bridging => wop[d] # 0
      BY <1>0 DEF WorkerPlaced
    <3> QED BY <3>1, <1>a, OpNumbers
  <2> QED BY <2>1 DEF WorkerMoves, Walks, Enters, Works, Finishes, HandsOver, Starts, Probes,
          Publishes, Bridging
<1>1. ASSUME NEW s \in Session, Home[s] # d
      PROVE  DrainOwned(s)'
  <2>1. /\ DrainOwned(s) /\ br'[s] = br[s] /\ Home[s] \in Device
        /\ attaching'[Home[s]] = attaching[Home[s]] /\ drain'[Home[s]] = drain[Home[s]]
    BY <1>0, <1>a, <1>1, Apart DEF DrainsHold
  <2>2. closing \subseteq closing'
    BY <1>e DEF BeginCleanup
  <2>3. drain[Home[s]][1] = "cleanup" => drain[Home[s]] # NoJob
    BY DEF NoJob
  <2> QED BY <1>b, <1>c, <1>d, <2>1, <2>2, <2>3 DEF DrainOwned
<1>2. ASSUME NEW s \in Session, Home[s] = d
      PROVE  DrainOwned(s)'
  <2>1. DrainOwned(s) /\ BridgeOwned(s)
    BY <1>0 DEF DrainsHold, BridgesHold
  <2>3. drain[d][1] = "cleanup" => drain[d] # NoJob
    BY DEF NoJob
  <2>4. CASE BeginCleanup(d, wop[d]) /\ wpc[d] \in Bridging /\ UNCHANGED <<info, attaching, br>>
    <3>1. br[s] = 0 /\ info[wop[d]].d = d
      BY <1>0, <1>2, <2>1, <2>4 DEF BridgeOwned, WorkerPlaced, Bridging
    <3>2. drain'[d] = <<"cleanup", wop[d]>> /\ closing \subseteq closing'
      BY <1>a, <2>4 DEF BeginCleanup, Set
    <3>3. drain'[d] # NoJob
      BY <3>2 DEF NoJob
    <3> QED BY <1>2, <1>b, <1>c, <1>d, <2>1, <2>4, <3>1, <3>2, <3>3 DEF DrainOwned
  <2>5. CASE UNCHANGED <<drain, closing, br, attaching>>
    BY <1>2, <1>b, <1>c, <1>d, <2>1, <2>3, <2>5 DEF DrainOwned
  <2>6. CASE HandsOver(d)
    <3>1. br[s] = 0 /\ d \notin released
      BY <1>2, <2>1, <2>6 DEF HandsOver, BridgeOwned
    <3>2. pend[s] = NoJob
      <4>1. pend[s] # NoJob => pend[s][2] # 0
        BY <1>b, OpNumbers
      <4> QED BY <1>2, <2>1, <3>1, <4>1 DEF DrainOwned
    <3> QED BY <1>2, <1>b, <1>d, <2>1, <2>3, <2>6, <3>2 DEF HandsOver, DrainOwned
  <2>7. CASE Publishes(d)
    <3>1. br[s] = 0 /\ d \notin released /\ drain[d] = NoJob /\ drain' = drain
      BY <1>0, <1>2, <2>1, <2>7 DEF Publishes, BridgeOwned, StageFits, Bridging
    <3>2. pend[s] = NoJob
      <4>1. pend[s] # NoJob => pend[s][2] # 0
        BY <1>b, OpNumbers
      <4> QED BY <1>2, <2>1, <3>1, <4>1 DEF DrainOwned
    <3> QED BY <1>2, <1>d, <3>1, <3>2 DEF DrainOwned, NoJob
  <2> QED BY <1>e, <2>4, <2>5, <2>6, <2>7 DEF WorkerMoves, Walks, Enters, Works, Finishes, Starts,
          Probes
<1>3. ASSUME NEW e \in Device, drain'[e] # NoJob
      PROVE  drain'[e][2] \in closing'
  <2>1. CASE drain' = drain /\ closing' = closing
    BY <1>0, <1>3, <2>1 DEF DrainsHold
  <2>2. CASE BeginCleanup(d, wop[d])
    BY <1>0, <1>3, <1>a, <2>2 DEF DrainsHold, BeginCleanup, Set
  <2> QED BY <1>e, <2>1, <2>2
<1> QED BY <1>1, <1>2, <1>3 DEF DrainsHold

\* Who has an open port.
LEMMA WorkerKeepsPorts ==
  ASSUME OneEach, Shape, Ports, NEW d \in Device, WorkerMoves(d)
  PROVE  PortsHold'
<1>0. /\ WorkersHold /\ BridgesHold /\ DrainsHold /\ PortsHold /\ WorkerPlaced(d)
      /\ AttachOwned(d) /\ StageFits(d)
  BY DEF Ports, WorkersHold, BridgesHold
<1>a. /\ wop \in [Device -> 0 .. ops] /\ wpc \in [Device -> Stages]
      /\ attaching \in [Device -> 0 .. ops] /\ br \in [Session -> 0 .. ops]
      /\ Home \in [Session -> Device] /\ ws \in [Device -> Session \cup {None}]
      /\ handle \in [Op -> {"none", "opening", "open", "closed", "lost"}]
      /\ done \subseteq Ops
  BY LifecycleAssumption DEF Shape
<1>b. /\ ops \in Nat /\ Ops = 1 .. ops /\ Ops \subseteq Op /\ 0 \notin Ops /\ ops + 1 \notin Ops
      /\ wpc[d] \in AtWork \cup Bridging => wop[d] \in Ops
      /\ \A k \in Ops : info[k].d \in Device /\ info[k].s \in Session
      /\ \A k \in Ops : info'[k] = info[k]
  <2>1. wpc[d] \in AtWork \cup Bridging => wop[d] # 0
    BY <1>0 DEF WorkerPlaced
  <2> QED BY <1>0, <1>a, <2>1, OpNumbers, InfoShape, Apart
<1>c. /\ released \subseteq released' /\ Shutting' = Shutting
  BY DEF Elsewhere, Shutting, WorkerMoves, Walks, Enters, Works, Finishes, HandsOver, Starts,
     Probes, Publishes
<1>w. \A s \in Session : Home[s] = d /\ wpc[d] \notin {"none", "look", "exit"} => br[s] = 0
  BY <1>0 DEF BridgesHold, BridgeOwned
<1>1. ASSUME NEW k \in done', handle'[k] = "open"
      PROVE  PortOwned(k)'
  <2>1. CASE k \in Ops /\ (k # wop[d] \/ info[k].d # d)
    <3>1. handle[k] = "open" /\ k \in done /\ info'[k] = info[k]
      BY <1>0, <1>1, <2>1, Apart DEF Same
    <3>2. PortOwned(k)
      BY <1>0, <3>1 DEF PortsHold
    <3>3. CASE info[k].d # d
      <4>1. attaching'[info[k].d] = attaching[info[k].d]
            /\ \A s \in Session : Home[s] # d => br'[s] = br[s]
        BY <1>0, <1>b, <2>1, <3>3, Apart
      <4> QED BY <3>1, <3>2, <3>3, <4>1 DEF PortOwned
    <3>4. CASE info[k].d = d /\ k # wop[d]
      <4>1. attaching[d] = k => attaching'[d] = k
        <5>1. CASE HandsOver(d)
          <6>1. attaching[d] = 0
            BY <1>0, <5>1 DEF HandsOver, AttachOwned, Bridging
          <6> QED BY <1>b, <2>1, <6>1
        <5>2. CASE Publishes(d)
          BY <1>0, <1>b, <2>1, <3>4, <5>2 DEF Publishes, StageFits, Bridging
        <5> QED BY <5>1, <5>2 DEF WorkerMoves, Walks, Enters, Works, Finishes, Starts, Probes
      <4>2. ASSUME NEW s \in Session, Home[s] = d, br[s] = k
            PROVE  br'[s] = k
        <5>1. ~Publishes(d)
          BY <1>b, <1>w, <2>1, <4>2 DEF Publishes
        <5> QED BY <4>2, <5>1 DEF WorkerMoves, Walks, Enters, Works, Finishes, HandsOver, Starts,
                Probes
      <4> QED BY <3>1, <3>2, <3>4, <4>1, <4>2 DEF PortOwned
    <3> QED BY <2>1, <3>3, <3>4
  <2>2. CASE k = wop[d] /\ k \in Ops /\ info[k].d = d
    <3>1. CASE Walks(d) \/ Enters(d)
      <4>1. k \in done /\ UNCHANGED <<attaching, br>>
        BY <1>1, <3>1 DEF Walks, Enters
      <4>2. handle'[k] = handle[k]
        <5>1. k # ops + 1 /\ k \in Op
          BY <1>b, <2>2
        <5> QED BY <1>a, <3>1, <5>1 DEF Walks, Enters, Set
      <4>3. PortOwned(k)
        BY <1>0, <1>1, <4>1, <4>2 DEF PortsHold
      <4> QED BY <1>b, <2>2, <4>1, <4>3 DEF PortOwned
    <3>2. CASE Works(d)
      BY <1>0, <1>1, <2>2, <3>2 DEF Works, WorkerPlaced, AtWork, Bridging
    <3>3. CASE Finishes(d)
      BY <1>1, <1>a, <1>b, <2>2, <3>3 DEF Finishes, Set
    <3>4. CASE HandsOver(d)
      <4>1. attaching'[d] = k
        BY <1>a, <2>2, <3>4 DEF HandsOver, Set
      <4> QED BY <1>b, <2>2, <4>1 DEF PortOwned
    <3>5. CASE Starts(d) \/ Probes(d)
      <4>1. /\ UNCHANGED <<attaching, br>> /\ wpc[d] \in Bridging /\ k \in done
            /\ handle[k] = "open"
        <5>1. UNCHANGED <<attaching, br, done>> /\ wpc[d] \in Bridging
          BY <3>5 DEF Starts, Probes, Bridging
        <5>2. handle[k] = "open"
          BY <1>0, <1>1, <2>2, <3>5 DEF Starts, Probes, WorkerPlaced
        <5> QED BY <1>1, <5>1, <5>2
      <4>2. PortOwned(k)
        BY <1>0, <4>1 DEF PortsHold
      <4> QED BY <1>b, <2>2, <4>1, <4>2 DEF PortOwned
    <3>6. CASE Publishes(d)
      <4>1. ws[d] \in Session /\ Home[ws[d]] = d
        BY <1>0, <3>6 DEF Publishes, WorkerPlaced, Bridging
      <4>2. br'[ws[d]] = k
        BY <1>a, <2>2, <3>6, <4>1 DEF Publishes, Set
      <4> QED BY <1>b, <2>2, <4>1, <4>2 DEF PortOwned
    <3> QED BY <3>1, <3>2, <3>3, <3>4, <3>5, <3>6 DEF WorkerMoves
  <2>3. k \in Ops
    <3>1. done' = done \/ (wop[d] \in Ops /\ done' = done \cup {wop[d]})
      BY <1>b DEF WorkerMoves, Walks, Enters, Works, Finishes, HandsOver, Starts, Probes, Publishes,
         AtWork
    <3> QED BY <1>1, <1>a, <3>1
  <2> QED BY <2>1, <2>2, <2>3
<1>2. ASSUME NEW j \in Ops', NEW k \in Ops', info'[j].d = info'[k].d,
             {handle'[j], handle'[k]} \subseteq {"opening", "open", "lost"}
      PROVE  j = k
  <2>1. CASE ~Enters(d)
    <3>1. Ops' = Ops
      BY <2>1 DEF WorkerMoves, Walks, Works, Finishes, HandsOver, Starts, Probes, Publishes, Ops
    <3>2. ASSUME NEW i \in Ops, handle'[i] \in {"opening", "open", "lost"}
          PROVE  handle[i] \in {"opening", "open", "lost"}
      <4>1. CASE i # wop[d] \/ info[i].d # d
        BY <1>0, <3>2, <4>1, Apart DEF Same
      <4>2. CASE i = wop[d]
        BY <1>0, <1>a, <1>b, <2>1, <3>2, <4>2 DEF WorkerMoves, Walks, Works, Finishes, HandsOver,
           Starts, Probes, Publishes, Set, WorkerPlaced, AtWork, Bridging
      <4> QED BY <4>1, <4>2
    <3>3. info'[j] = info[j] /\ info'[k] = info[k]
      BY <1>b, <3>1
    <3>4. handle[j] \in {"opening", "open", "lost"} /\ handle[k] \in {"opening", "open", "lost"}
      BY <1>2, <3>1, <3>2
    <3> QED BY <1>0, <1>2, <3>1, <3>3, <3>4 DEF PortsHold
  <2>2. CASE Enters(d)
    <3>1. Ops' = Ops \cup {ops + 1} /\ info'[ops + 1].d = d
      <4>1. info \in Seq([s : Session, d : Device, path : Nat, gen : Nat]) /\ Len(info) = ops
        BY DEF Shape
      <4>2. info'[ops + 1].d = d
        BY <1>b, <2>2, <4>1 DEF Enters
      <4>3. Ops' = Ops \cup {ops + 1}
        BY <1>b, <2>2 DEF Enters, Ops
      <4> QED BY <4>2, <4>3
    <3>2. \A i \in Ops : handle'[i] = handle[i] /\ info'[i] = info[i]
      <4>1. \A i \in Ops : i # ops + 1 /\ i \in Op
        BY <1>b
      <4> QED BY <1>a, <1>b, <2>2, <4>1 DEF Enters, Set
    <3>3. ASSUME NEW i \in Ops, info[i].d = d
          PROVE  handle[i] \notin {"opening", "open", "lost"}
      <4>1. i \in done /\ handle[i] # "opening"
        BY <1>0, <2>2, <3>3 DEF WorkersHold, OpPlaced, Enters, AtWork
      <4>2. handle[i] # "lost"
        BY <1>0, <2>2, <3>3 DEF PortsHold, Enters
      <4>3. attaching[d] = 0
        BY <1>0, <2>2 DEF Enters, AttachOwned, Bridging
      <4>4. \A s \in Session : Home[s] = d => br[s] = 0
        BY <1>w, <2>2 DEF Enters
      <4>5. handle[i] # "open"
        BY <1>0, <1>b, <3>3, <4>1, <4>3, <4>4 DEF PortsHold, PortOwned
      <4> QED BY <4>1, <4>2, <4>5
    <3>4. CASE j \in Ops /\ k \in Ops
      BY <1>0, <1>2, <3>2, <3>4 DEF PortsHold
    <3>5. CASE j = ops + 1 \/ k = ops + 1
      BY <1>2, <3>1, <3>2, <3>3, <3>5
    <3> QED BY <3>1, <3>4, <3>5
  <2> QED BY <2>1, <2>2
<1>3. ASSUME NEW k \in Ops', handle'[k] = "lost"
      PROVE  Shutting' \/ info'[k].d \in released'
  <2>1. CASE Enters(d)
    <3>1. Ops' = Ops \cup {ops + 1}
      BY <1>b, <2>1 DEF Enters, Ops
    <3>2. handle'[ops + 1] = "opening"
      <4>1. ops + 1 \in Op
        BY <1>b, <2>1, LifecycleAssumption DEF Enters, Op
      <4> QED BY <1>a, <2>1, <4>1 DEF Enters, Set
    <3>3. k \in Ops
      BY <1>3, <3>1, <3>2
    <3>4. handle'[k] = handle[k]
      <4>1. k # ops + 1 /\ k \in Op
        BY <1>b, <3>3
      <4> QED BY <1>a, <2>1, <4>1 DEF Enters, Set
    <3> QED BY <1>0, <1>3, <1>b, <1>c, <3>3, <3>4 DEF PortsHold
  <2>2. CASE ~Enters(d)
    <3>1. Ops' = Ops
      BY <2>2 DEF WorkerMoves, Walks, Works, Finishes, HandsOver, Starts, Probes, Publishes, Ops
    <3>2. CASE handle[k] = "lost"
      BY <1>0, <1>b, <1>c, <3>1, <3>2 DEF PortsHold
    <3>3. CASE handle[k] # "lost"
      <4>1. Starts(d) /\ k = wop[d] /\ wop[d] \in closing
        BY <1>3, <1>a, <1>b, <2>2, <3>1, <3>3 DEF WorkerMoves, Walks, Works, Finishes, HandsOver,
           Starts, Probes, Publishes, Set
      <4>2. Shutting \/ d \in released
        BY <1>0, <4>1 DEF Starts, StageFits, Bridging
      <4>3. info[k].d = d
        BY <1>0, <4>1 DEF Starts, WorkerPlaced, Bridging
      <4> QED BY <1>b, <1>c, <3>1, <4>1, <4>2, <4>3
    <3> QED BY <3>2, <3>3
  <2> QED BY <2>1, <2>2
<1> QED BY <1>1, <1>2, <1>3 DEF PortsHold

\* A worker keeps who holds what.
LEMMA WorkerKeepsAll ==
  ASSUME OneEach, Shape, Ports, NEW d \in Device, WorkerMoves(d)
  PROVE  Shape' /\ Ports'
BY WorkerShape, WorkerKeepsWorkers, WorkerKeepsBridges, WorkerKeepsDrains, WorkerKeepsPorts
   DEF Ports

------------------------------------------------------------------------------
(* The steps of drains and of the shutdown                                 *)

\* A port closes.
LEMMA ClosesKeeps ==
  ASSUME OneEach, Shape, Ports, NEW k \in Op, BridgeCloses(k), Frame
  PROVE  Ports'
<1>0. /\ WorkersHold /\ BridgesHold /\ DrainsHold /\ PortsHold
      /\ Ops' = Ops /\ handle \in [Op -> {"none", "opening", "open", "closed", "lost"}]
      /\ Ops \subseteq Op
      /\ done \subseteq Ops
  BY OpNumbers DEF Ports, Frame, Ops, Shape
<1>1. /\ k \in closing \cap started /\ handle' = Set(handle, k, "closed")
      /\ UNCHANGED <<info, done, started, closing, wpc, wop, attaching, drain, pend, br, released,
                     down>>
  BY DEF BridgeCloses, Frame
<1>2. WorkersHold'
  BY <1>0, <1>1, OtherKeepsWorkers DEF WorkersHold
<1>3. BridgesHold'
  BY <1>0, <1>1 DEF BridgesHold, BridgeOwned, AttachOwned, StageFits, Shutting
<1>4. DrainsHold'
  BY <1>0, <1>1 DEF DrainsHold, DrainOwned, Shutting
<1>5. PortsHold'
  <2>1. \A j \in Op : handle'[j] \in {handle[j], "closed"}
    BY <1>0, <1>1 DEF Set
  <2>2. \A j \in done : handle'[j] = "open" => PortOwned(j)'
    BY <1>0, <1>1, <2>1 DEF PortsHold, PortOwned
  <2> QED BY <1>0, <1>1, <2>1, <2>2 DEF PortsHold, Shutting
<1> QED BY <1>2, <1>3, <1>4, <1>5 DEF Ports

\* A late cleanup ends: what it drained was all there was on its way.
LEMMA CleanupKeeps ==
  ASSUME OneEach, Shape, Ports, NEW d \in Device, CompleteCleanup(d), Frame
  PROVE  Ports'
<1>0. /\ WorkersHold /\ BridgesHold /\ DrainsHold /\ PortsHold /\ Ops' = Ops
      /\ AttachOwned(d) /\ StageFits(d)
      /\ attaching \in [Device -> 0 .. ops]
      /\ drain \in [Device -> Jobs \cup ({"cleanup"} \X Ops)]
      /\ Home \in [Session -> Device]
      /\ \A k \in Ops : info[k].d \in Device
  BY LifecycleAssumption, InfoShape DEF Ports, Frame, Ops, Shape, BridgesHold
<1>1. /\ UNCHANGED <<info, handle, done, started, closing, wpc, wop, pend, br, released, down>>
      /\ drain[d] # NoJob /\ drain'[d] = NoJob /\ handle[drain[d][2]] # "open"
      /\ \A e \in Device \ {d} : drain'[e] = drain[e] /\ attaching'[e] = attaching[e]
  BY <1>0 DEF CompleteCleanup, Frame, Set, Receipt, NoJob
<1>2. attaching'[d] = 0 /\ attaching[d] \in {0, drain[d][2]}
  <2>1. attaching[d] \in {0, drain[d][2]}
    BY <1>0, <1>1 DEF AttachOwned, StageFits
  <2> QED BY <1>0, <2>1 DEF CompleteCleanup, Set
<1>3. WorkersHold'
  BY <1>0, <1>1, OtherKeepsWorkers DEF WorkersHold
<1>4. BridgesHold'
  <2>1. ASSUME NEW s \in Session
        PROVE  BridgeOwned(s)'
    <3>1. BridgeOwned(s) /\ (attaching'[Home[s]] = attaching[Home[s]] \/ attaching'[Home[s]] = 0)
      BY <1>0, <1>1, <1>2 DEF BridgesHold
    <3> QED BY <1>1, <3>1 DEF BridgeOwned
  <2>2. ASSUME NEW e \in Device \ {d}
        PROVE  AttachOwned(e)' /\ StageFits(e)'
    BY <1>0, <1>1 DEF BridgesHold, AttachOwned, StageFits, Shutting
  <2>3. AttachOwned(d)' /\ StageFits(d)'
    BY <1>0, <1>1, <1>2 DEF AttachOwned, StageFits, Shutting
  <2> QED BY <2>1, <2>2, <2>3 DEF BridgesHold
<1>5. DrainsHold'
  <2>1. ASSUME NEW s \in Session, Home[s] # d
        PROVE  DrainOwned(s)'
    <3>1. DrainOwned(s) /\ Home[s] \in Device
      BY <1>0 DEF DrainsHold
    <3> QED BY <1>1, <2>1, <3>1 DEF DrainOwned, Shutting
  <2>2. ASSUME NEW s \in Session, Home[s] = d
        PROVE  DrainOwned(s)'
    <3>1. DrainOwned(s)
      BY <1>0 DEF DrainsHold
    <3> QED BY <1>1, <1>2, <2>2, <3>1 DEF DrainOwned, Shutting, NoJob
  <2>3. \A e \in Device : drain'[e] # NoJob => drain'[e][2] \in closing'
    BY <1>0, <1>1 DEF DrainsHold
  <2> QED BY <2>1, <2>2, <2>3 DEF DrainsHold
<1>6. PortsHold'
  <2>1. ASSUME NEW k \in done, handle[k] = "open"
        PROVE  PortOwned(k)'
    <3>1. PortOwned(k) /\ info[k].d \in Device
      BY <1>0, <2>1 DEF PortsHold, Shape
    <3>2. CASE info[k].d = d /\ attaching[d] = k
      <4>1. k \in Ops
        BY <2>1 DEF Shape
      <4> QED BY <1>1, <1>2, <2>1, <3>2, <4>1, OpNumbers
    <3>3. CASE info[k].d # d \/ attaching[d] # k
      BY <1>1, <3>1, <3>3 DEF PortOwned
    <3> QED BY <3>2, <3>3
  <2> QED BY <1>0, <1>1, <2>1 DEF PortsHold, Shutting
<1> QED BY <1>3, <1>4, <1>5, <1>6 DEF Ports

\* A drain of a session ends: it has given its bridge back, and nothing is on
\* its way.
LEMMA DrainLeaves ==
  ASSUME OneEach, Shape, Ports, NEW s \in Session, CompleteDrain(s)
  PROVE  /\ pend[s] \in Causes \X Ops /\ pend'[s] = NoJob
         /\ br'[s] = 0 /\ attaching'[Home[s]] = 0
         /\ attaching[Home[s]] \in {0, pend[s][2]}
         /\ handle[pend[s][2]] # "open"
<1> DEFINE d == Home[s]
<1>0. /\ BridgeOwned(s) /\ DrainOwned(s) /\ dev[s] = d /\ d \in Device
      /\ attaching \in [Device -> 0 .. ops] /\ br \in [Session -> 0 .. ops]
      /\ pend \in [Session -> Jobs]
  BY ZenonT(40), LifecycleAssumption DEF Ports, Shape, BridgesHold, DrainsHold
<1>1. pend[s] # NoJob /\ pend[s] \in Causes \X Ops
  <2>1. pend[s] # NoJob /\ pend[s] \in Jobs
    BY <1>0 DEF CompleteDrain
  <2> QED BY <2>1 DEF Jobs
<1>2. /\ pend'[s] = NoJob /\ handle[pend[s][2]] # "open"
      /\ br'[s] = IF br[s] = pend[s][2] THEN 0 ELSE br[s]
      /\ attaching'[d] = IF pend[s][1] = "release" /\ attaching[d] = pend[s][2] THEN 0
                         ELSE attaching[d]
  BY <1>0 DEF CompleteDrain, Set, Receipt
<1>3. pend[s][2] # 0
  BY <1>1, OpNumbers
<1>4. br'[s] = 0
  BY <1>0, <1>1, <1>2 DEF DrainOwned
<1>5. attaching'[d] = 0 /\ attaching[d] \in {0, pend[s][2]}
  BY <1>0, <1>1, <1>2, <1>3 DEF DrainOwned, BridgeOwned
<1> QED BY <1>1, <1>2, <1>4, <1>5

\* It keeps who holds what.
LEMMA DrainKeeps ==
  ASSUME OneEach, Shape, Ports, NEW s \in Session, CompleteDrain(s), Frame
  PROVE  Ports'
<1> DEFINE d == Home[s]
<1>0. /\ WorkersHold /\ BridgesHold /\ DrainsHold /\ PortsHold /\ Ops' = Ops /\ d \in Device
      /\ AttachOwned(d) /\ StageFits(d) /\ BridgeOwned(s) /\ DrainOwned(s) /\ dev[s] = d
      /\ attaching \in [Device -> 0 .. ops] /\ br \in [Session -> 0 .. ops]
      /\ drain \in [Device -> Jobs \cup ({"cleanup"} \X Ops)]
      /\ pend \in [Session -> Jobs]
      /\ Home \in [Session -> Device]
      /\ \A k \in Ops : info[k].d \in Device
  BY LifecycleAssumption, InfoShape DEF Ports, Frame, Ops, Shape, BridgesHold, DrainsHold
<1>a. pend[s] # NoJob /\ pend[s] \in Causes \X Ops /\ pend[s][2] # 0 /\ pend[s][2] \in Ops
  BY DrainLeaves, OpNumbers DEF CompleteDrain
<1>1. /\ UNCHANGED <<info, handle, done, started, closing, wpc, wop, down>>
      /\ pend'[s] = NoJob /\ handle[pend[s][2]] # "open"
      /\ drain'[d] = IF drain[d] = pend[s] THEN NoJob ELSE drain[d]
      /\ br'[s] = IF br[s] = pend[s][2] THEN 0 ELSE br[s]
  BY <1>0 DEF CompleteDrain, Frame, Set, Receipt
<1>2. /\ \A e \in Device \ {d} : drain'[e] = drain[e] /\ attaching'[e] = attaching[e]
      /\ \A t \in Session \ {s} : pend'[t] = pend[t] /\ br'[t] = br[t] /\ Home[t] # d
  BY <1>0 DEF CompleteDrain, Set, OneEach
<1>3. released \subseteq released'
  BY <1>a DEF CompleteDrain, Causes
<1>4. br'[s] = 0
  BY DrainLeaves
<1>5. attaching'[d] = 0 /\ attaching[d] \in {0, pend[s][2]}
  BY DrainLeaves
<1>6. WorkersHold'
  BY <1>0, <1>1, OtherKeepsWorkers DEF WorkersHold
<1> HIDE DEF d
<1>7. BridgesHold'
  <2>1. ASSUME NEW t \in Session
        PROVE  BridgeOwned(t)'
    <3>1. CASE t = s
      BY <1>4, <3>1 DEF BridgeOwned
    <3>2. CASE t # s
      <4>1. BridgeOwned(t) /\ Home[t] \in Device
        BY <1>0 DEF BridgesHold
      <4> QED BY <1>1, <1>2, <3>2, <4>1 DEF BridgeOwned
    <3> QED BY <3>1, <3>2
  <2>2. ASSUME NEW e \in Device \ {d}
        PROVE  AttachOwned(e)' /\ StageFits(e)'
    BY <1>0, <1>1, <1>2, <1>3 DEF BridgesHold, AttachOwned, StageFits, Shutting
  <2>3. AttachOwned(d)'
    BY <1>5 DEF AttachOwned
  <2>4. StageFits(d)'
    <3>1. ASSUME wpc[d] \in Bridging
          PROVE  d \in released
      <4>1. br[s] = 0
        BY <1>0, <3>1 DEF BridgeOwned, Bridging, d
      <4> QED BY <1>0, <1>a, <4>1 DEF DrainOwned, d
    <3>2. drain'[d] # NoJob => drain'[d] = drain[d]
      BY <1>1
    <3> QED BY <1>0, <1>1, <1>3, <1>5, <3>1, <3>2 DEF StageFits
  <2> QED BY <2>1, <2>2, <2>3, <2>4 DEF BridgesHold
<1>8. DrainsHold'
  <2>1. ASSUME NEW t \in Session, t # s
        PROVE  DrainOwned(t)'
    <3>1. DrainOwned(t) /\ Home[t] \in Device
      BY <1>0 DEF DrainsHold
    <3> QED BY <1>1, <1>2, <1>3, <2>1, <3>1 DEF DrainOwned, Shutting
  <2>2. DrainOwned(s)'
    BY <1>0, <1>1, <1>4 DEF DrainOwned, NoJob, d
  <2>3. \A e \in Device : drain'[e] # NoJob => drain'[e][2] \in closing'
    BY <1>0, <1>1, <1>2 DEF DrainsHold
  <2> QED BY <2>1, <2>2, <2>3 DEF DrainsHold
<1>9. PortsHold'
  <2>1. ASSUME NEW k \in done, handle[k] = "open"
        PROVE  PortOwned(k)'
    <3>1. PortOwned(k) /\ info[k].d \in Device /\ k \in Ops
      BY <1>0, <2>1 DEF PortsHold, Shape
    <3>2. CASE k = pend[s][2]
      BY <1>1, <2>1, <3>2
    <3>3. CASE k # pend[s][2]
      <4>1. attaching[info[k].d] = k => attaching'[info[k].d] = k
        BY <1>2, <1>5, <3>1, <3>3, OpNumbers
      <4>2. \A t \in Session : br[t] = k => br'[t] = k
        BY <1>1, <1>2, <3>3
      <4> QED BY <1>1, <3>1, <4>1, <4>2 DEF PortOwned
    <3> QED BY <3>2, <3>3
  <2> QED BY <1>0, <1>1, <1>3, <2>1 DEF PortsHold, Shutting
<1> QED BY <1>6, <1>7, <1>8, <1>9 DEF Ports

\* A drain of a session begins: with its bridge, or with the one on its way.
LEMMA StartKeeps ==
  ASSUME OneEach, Shape, Ports, NEW s \in Session, NEW kind \in Causes \ {"shutdown"},
         NEW b \in Ops, DrainStarts(s, kind, b)
  PROVE  Ports'
<1> DEFINE d == Home[s]
<1>0. /\ WorkersHold /\ BridgesHold /\ DrainsHold /\ PortsHold /\ Frame /\ Ops' = Ops
      /\ d \in Device
      /\ AttachOwned(d) /\ StageFits(d) /\ BridgeOwned(s) /\ DrainOwned(s) /\ dev[s] = d
      /\ drain \in [Device -> Jobs \cup ({"cleanup"} \X Ops)]
      /\ pend \in [Session -> Jobs]
      /\ Home \in [Session -> Device]
  BY ZenonT(40), LifecycleAssumption DEF Ports, Frame, Ops, Shape, BridgesHold, DrainsHold, DrainStarts
<1>b. b # 0
  BY OpNumbers
<1>1. /\ UNCHANGED <<info, handle, done, started, wpc, wop, down, attaching, br>>
      /\ pend'[s] = <<kind, b>> /\ drain'[d] = <<kind, b>>
      /\ closing' = closing \cup {b}
      /\ released \subseteq released' /\ (kind = "release" => d \in released')
      /\ b = br[s] \/ (kind = "release" /\ br[s] = 0 /\ b = attaching[d])
  BY <1>0 DEF DrainStarts, DrainBegins, BeginDrain, Frame, Set
<1>2. /\ \A e \in Device \ {d} : drain'[e] = drain[e]
      /\ \A t \in Session \ {s} : pend'[t] = pend[t] /\ Home[t] # d
  BY <1>0 DEF DrainStarts, DrainBegins, BeginDrain, Set, OneEach
<1>3. info[b].d = d /\ b \in done /\ <<kind, b>> # NoJob
  BY <1>0, <1>b, <1>1 DEF BridgeOwned, AttachOwned, WorkersHold, NoJob
<1>4. WorkersHold'
  BY <1>0, <1>1, <1>3, OtherKeepsWorkers DEF WorkersHold
<1> HIDE DEF d
<1>5. BridgesHold'
  <2>1. ASSUME NEW t \in Session, t # s
        PROVE  BridgeOwned(t)'
    <3>1. BridgeOwned(t) /\ Home[t] # d
      BY <1>0, <1>2, <2>1 DEF BridgesHold
    <3> QED BY <1>1, <1>2, <1>3, <2>1, <3>1 DEF BridgeOwned
  <2>2. BridgeOwned(s)'
    BY <1>0, <1>b, <1>1, <1>3 DEF BridgeOwned
  <2>3. ASSUME NEW e \in Device \ {d}
        PROVE  AttachOwned(e)' /\ StageFits(e)'
    <3>1. AttachOwned(e) /\ StageFits(e) /\ WorkerPlaced(e)
      BY <1>0 DEF BridgesHold, WorkersHold
    <3>2. wpc[e] \in Bridging => wop[e] # b
      BY <1>3, <3>1 DEF WorkerPlaced
    <3>3. AttachOwned(e)'
      BY <1>1, <1>2, <3>1 DEF AttachOwned
    <3> QED BY <1>1, <1>2, <3>1, <3>2, <3>3 DEF StageFits, Shutting
  <2>4. AttachOwned(d)'
    BY <1>0, <1>b, <1>1, <1>3 DEF AttachOwned, BridgeOwned, d
  <2>5. StageFits(d)'
    <3>1. ASSUME wpc[d] \in Bridging
          PROVE  kind = "release" /\ b = wop[d]
      <4>1. br[s] = 0
        BY <1>0, <3>1 DEF BridgeOwned, Bridging, d
      <4> QED BY <1>0, <1>b, <1>1, <3>1, <4>1 DEF StageFits
    <3> QED BY <1>0, <1>1, <3>1 DEF StageFits
  <2> QED BY <2>1, <2>2, <2>3, <2>4, <2>5 DEF BridgesHold
<1>6. DrainsHold'
  <2>1. ASSUME NEW t \in Session, t # s
        PROVE  DrainOwned(t)'
    <3>1. DrainOwned(t) /\ Home[t] \in Device /\ Home[t] # d
      BY <1>0, <1>2, <2>1 DEF DrainsHold
    <3> QED BY <1>1, <1>2, <2>1, <3>1 DEF DrainOwned, Shutting
  <2>2. DrainOwned(s)'
    <3>1. attaching[d] # 0 => attaching[d] = b
      BY <1>0, <1>b, <1>1 DEF BridgeOwned, d
    <3> QED BY <1>1, <1>3, <3>1 DEF DrainOwned, d, Causes
  <2>3. \A e \in Device : drain'[e] # NoJob => drain'[e][2] \in closing'
    BY <1>0, <1>1, <1>2 DEF DrainsHold
  <2> QED BY <2>1, <2>2, <2>3 DEF DrainsHold
<1>7. PortsHold'
  BY <1>0, <1>1 DEF PortsHold, PortOwned, Shutting
<1> QED BY <1>4, <1>5, <1>6, <1>7 DEF Ports

\* The shutdown stops the bridges that no session has yet.
LEMMA CancelKeeps ==
  ASSUME OneEach, Shape, Ports, ShutCancel, Frame
  PROVE  Ports'
<1> DEFINE lone == {d \in Device : attaching[d] # 0 /\ drain[d] = NoJob /\ Bound(d) # {}}
<1>0. /\ WorkersHold /\ BridgesHold /\ DrainsHold /\ PortsHold /\ Ops' = Ops
      /\ drain \in [Device -> Jobs \cup ({"cleanup"} \X Ops)] /\ Home \in [Session -> Device]
  BY LifecycleAssumption DEF Ports, Frame, Ops, Shape
<1>1. /\ UNCHANGED <<info, handle, done, started, wpc, wop, attaching, br, pend, released>>
      /\ closing' = closing \cup {attaching[d] : d \in lone} /\ Shutting'
  BY DEF ShutCancel, Frame, Shutting
<1>2. /\ \A d \in Device \ lone : drain'[d] = drain[d]
      /\ \A d \in lone : drain'[d] = <<"cleanup", attaching[d]>> /\ drain[d] = NoJob
                         /\ attaching[d] # 0
      /\ lone \subseteq Device
  BY <1>0 DEF ShutCancel
<1> HIDE DEF lone
<1>3. \A d \in lone : info[attaching[d]].d = d /\ attaching[d] \in done
  BY <1>0, <1>2 DEF BridgesHold, AttachOwned
<1>4. WorkersHold'
  BY <1>0, <1>1, <1>3, OtherKeepsWorkers DEF WorkersHold
<1>5. BridgesHold'
  <2>1. ASSUME NEW s \in Session
        PROVE  BridgeOwned(s)'
    <3>1. BridgeOwned(s)
      BY <1>0 DEF BridgesHold
    <3>2. br[s] # 0 => \A d \in lone : attaching[d] # br[s]
      BY <1>2, <1>3, <3>1 DEF BridgeOwned
    <3> QED BY <1>1, <3>1, <3>2 DEF BridgeOwned
  <2>2. ASSUME NEW d \in Device
        PROVE  AttachOwned(d)' /\ StageFits(d)'
    <3>1. AttachOwned(d) /\ StageFits(d)
      BY <1>0 DEF BridgesHold
    <3> QED BY <1>1, <1>2, <3>1 DEF AttachOwned, StageFits, NoJob
  <2> QED BY <2>1, <2>2 DEF BridgesHold
<1>6. DrainsHold'
  <2>1. ASSUME NEW s \in Session
        PROVE  DrainOwned(s)'
    <3>1. DrainOwned(s) /\ BridgeOwned(s) /\ Home[s] \in Device
      BY <1>0 DEF DrainsHold, BridgesHold
    <3>2. CASE Home[s] \in lone
      <4>1. pend[s] = NoJob /\ br[s] = 0
        BY <1>2, <3>1, <3>2 DEF DrainOwned, BridgeOwned
      <4> QED BY <1>1, <1>2, <1>3, <3>2, <4>1 DEF DrainOwned
    <3>3. CASE Home[s] \notin lone
      BY <1>1, <1>2, <3>1, <3>3 DEF DrainOwned
    <3> QED BY <3>2, <3>3
  <2>2. \A d \in Device : drain'[d] # NoJob => drain'[d][2] \in closing'
    BY <1>0, <1>1, <1>2 DEF DrainsHold
  <2> QED BY <2>1, <2>2 DEF DrainsHold
<1>7. PortsHold'
  BY <1>0, <1>1 DEF PortsHold, PortOwned
<1> QED BY <1>4, <1>5, <1>6, <1>7 DEF Ports

\* It drains the bridges there are.
LEMMA LeftKeeps ==
  ASSUME OneEach, Shape, Ports, ShutDrain, Frame
  PROVE  Ports'
<1> DEFINE left == {s \in Session : pend[s] = NoJob /\ br[s] # 0}
<1>0. /\ WorkersHold /\ BridgesHold /\ DrainsHold /\ PortsHold /\ Ops' = Ops /\ dev = Home
      /\ drain \in [Device -> Jobs \cup ({"cleanup"} \X Ops)] /\ Home \in [Session -> Device]
      /\ pend \in [Session -> Jobs]
  BY LifecycleAssumption DEF Ports, Frame, Ops, Shape
<1>1. /\ UNCHANGED <<info, handle, done, started, wpc, wop, attaching, br, released>>
      /\ closing' = closing \cup {br[s] : s \in left} /\ Shutting'
  BY DEF ShutDrain, Frame, Shutting
<1>2. /\ \A s \in Session \ left : pend'[s] = pend[s]
      /\ \A s \in left : pend'[s] = <<"shutdown", br[s]>> /\ br[s] # 0
      /\ left \subseteq Session
  BY <1>0 DEF ShutDrain
<1>3. /\ \A s \in left : drain'[Home[s]] = <<"shutdown", br[s]>>
      /\ \A d \in Device : (\A s \in left : Home[s] # d) => drain'[d] = drain[d]
  <2>1. \A d \in Device : drain'[d] = IF \E s \in left : Home[s] = d
          THEN pend'[CHOOSE s \in left : Home[s] = d] ELSE drain[d]
    BY <1>0 DEF ShutDrain
  <2>2. \A s \in left : (CHOOSE t \in left : Home[t] = Home[s]) = s
    BY DEF OneEach
  <2> QED BY SMTT(20), <1>0, <1>2, <2>1, <2>2
<1> HIDE DEF left
<1>4. /\ \A s \in left : br[s] \in done /\ info[br[s]].d = Home[s] /\ attaching[Home[s]] = 0
                         /\ wpc[Home[s]] \notin Bridging
  BY <1>0, <1>2 DEF BridgesHold, BridgeOwned, WorkersHold, Bridging
<1>5. WorkersHold'
  BY <1>0, <1>1, <1>4, OtherKeepsWorkers DEF WorkersHold
<1>6. BridgesHold'
  <2>1. ASSUME NEW s \in Session
        PROVE  BridgeOwned(s)'
    <3>1. BridgeOwned(s)
      BY <1>0 DEF BridgesHold
    <3>2. CASE s \in left
      BY <1>1, <1>2, <3>1, <3>2 DEF BridgeOwned, NoJob
    <3>3. CASE s \notin left
      <4>1. br[s] # 0 => \A t \in left : br[t] # br[s]
        BY <1>2, <1>4, <3>1, <3>3 DEF BridgeOwned, OneEach
      <4> QED BY <1>1, <1>2, <3>1, <3>3, <4>1 DEF BridgeOwned
    <3> QED BY <3>2, <3>3
  <2>2. ASSUME NEW d \in Device
        PROVE  AttachOwned(d)' /\ StageFits(d)'
    <3>1. AttachOwned(d) /\ StageFits(d)
      BY <1>0 DEF BridgesHold
    <3>2. CASE \E s \in left : Home[s] = d
      <4>1. attaching[d] = 0 /\ wpc[d] \notin Bridging
        BY <1>4, <3>2
      <4> QED BY <1>1, <4>1 DEF AttachOwned, StageFits
    <3>3. CASE \A s \in left : Home[s] # d
      BY <1>1, <1>3, <3>1, <3>3 DEF AttachOwned, StageFits
    <3> QED BY <3>2, <3>3
  <2> QED BY <2>1, <2>2 DEF BridgesHold
<1>7. DrainsHold'
  <2>1. ASSUME NEW s \in Session
        PROVE  DrainOwned(s)'
    <3>1. DrainOwned(s) /\ Home[s] \in Device
      BY <1>0 DEF DrainsHold
    <3>2. CASE s \in left
      <4>1. br[s] \in closing'
        BY <1>1, <3>2
      <4> QED BY <1>1, <1>2, <1>3, <1>4, <3>2, <4>1 DEF DrainOwned
    <3>3. CASE s \notin left
      <4>1. drain'[Home[s]] = drain[Home[s]]
        BY <1>2, <1>3, <3>1, <3>3 DEF OneEach
      <4> QED BY <1>1, <1>2, <3>1, <3>3, <4>1 DEF DrainOwned
    <3> QED BY <3>2, <3>3
  <2>2. ASSUME NEW d \in Device, drain'[d] # NoJob
        PROVE  drain'[d][2] \in closing'
    <3>1. CASE \E s \in left : Home[s] = d
      BY <1>1, <1>3, <3>1
    <3>2. CASE \A s \in left : Home[s] # d
      BY <1>0, <1>1, <1>3, <2>2, <3>2 DEF DrainsHold
    <3> QED BY <3>1, <3>2
  <2> QED BY <2>1, <2>2 DEF DrainsHold
<1>8. PortsHold'
  BY <1>0, <1>1 DEF PortsHold, PortOwned
<1> QED BY <1>5, <1>6, <1>7, <1>8 DEF Ports

\* A worker that is not wanted does not begin.
Refused(d) == Spawn(d) /\ Idles /\ UNCHANGED <<wpc, inflight>>

\* A step is a worker's or one of the others.
LEMMA MoveKinds ==
  ASSUME OneEach, Shape, Ports, Moves
  PROVE  OtherMoves \/ \E d \in Device : WorkerMoves(d) \/ Refused(d)
BY WorkerKinds DEF Ports, Moves, OtherMoves, Refused

\* A refused worker changes at most the state of a session without a bridge.
LEMMA RefusedQuiet ==
  ASSUME Shape, NEW d \in Device, Refused(d)
  PROVE  Quiet /\ Shape'
<1>1. Quiet
  BY DEF Refused, Spawn, Quiet, Frame, Shutting
<1>2. /\ UNCHANGED <<handle, closing, attaching, drain, pend, br, flag, released, promised,
                     critical, prev, path, plugs, asked, rw, watch, sops, stalled, down>>
      /\ st' \in [Session -> States]
  BY DEF Refused, Spawn, Idles
<1>3. relreq' \subseteq Ops /\ relreq' \subseteq cancelled'
  BY <1>2 DEF Shape
<1>4. Shape'
  BY <1>1, <1>2, <1>3, FrameShape DEF Shape, Quiet
<1> QED BY <1>1, <1>4

\* So every step keeps the shape, and who holds what.
LEMMA PortsKept ==
  ASSUME OneEach, Shape, Ports, Moves
  PROVE  Shape' /\ Ports'
<1>1. ASSUME NEW d \in Device, Refused(d)
      PROVE  Shape' /\ Ports'
  BY <1>1, RefusedQuiet, QuietPorts
<1>2. ASSUME OtherMoves
      PROVE  Shape' /\ Ports'
  <2>0. WorkersHold
    BY DEF Ports
  <2>1. Frame /\ Shape'
    BY <1>2, <2>0, OtherShape
  <2>2. \/ Quiet
        \/ \E k \in Op : BridgeCloses(k)
        \/ \E d \in Device : CompleteCleanup(d)
        \/ \E s \in Session : CompleteDrain(s)
        \/ \E s \in Session, kind \in Causes \ {"shutdown"}, b \in Ops : DrainStarts(s, kind, b)
        \/ ShutCancel \/ ShutDrain
    BY <1>2, <2>0, OtherKinds
  <2> QED BY <2>1, <2>2, QuietPorts, ClosesKeeps, CleanupKeeps, DrainKeeps, StartKeeps,
          CancelKeeps, LeftKeeps
<1> QED BY <1>1, <1>2, MoveKinds, WorkerKeepsAll

------------------------------------------------------------------------------
(* What the other steps do to the sessions                                 *)

\* Sessions without a bridge are marked, and nothing begins for a session.
Marks ==
  /\ Frame /\ Idles
  /\ flag' = flag \/ \E s \in Session : flag' = Set(flag, s, FALSE)
  /\ critical' \subseteq critical /\ UNCHANGED <<pend, br, promised, released, relreq>>
  /\ \A k \in Op : handle'[k] \in {handle[k], "closed"}
  /\ Shutting => Shutting'
  /\ \A t \in Session : rw'[t][1] = "op" => rw'[t] = rw[t]

\* What the steps that are no worker's do to the sessions: only these begin
\* something or make a promise.
LEMMA OtherEffects ==
  ASSUME OneEach, Shape, Ports, OtherMoves
  PROVE  \/ Marks
         \/ \E s \in Session, kind \in Causes \ {"shutdown"}, b \in Ops : DrainStarts(s, kind, b)
         \/ \E s \in Session : \/ CompleteDrain(s) \/ ReleaseOp(s) \/ ReleaseNow(s)
                               \/ ReleaseAnswered(s) \/ ReleaseTimeout(s)
                               \/ FlashMark(s) \/ FlashEnter(s) \/ FlashExit(s)
         \/ ShutDrain
<1>0. /\ Frame /\ dev = Home /\ st \in [Session -> States] /\ pend \in [Session -> Jobs]
      /\ handle \in [Op -> {"none", "opening", "open", "closed", "lost"}]
      /\ Home \in [Session -> Device]
      /\ rw \in [Session -> {NoJob} \cup ({"op", "job"} \X Ops)]
  BY OtherShape, LifecycleAssumption DEF Ports, Shape
<1>1. \/ Quiet
      \/ \E k \in Op : BridgeCloses(k)
      \/ \E d \in Device : CompleteCleanup(d)
      \/ \E s \in Session : CompleteDrain(s)
      \/ \E s \in Session, kind \in Causes \ {"shutdown"}, b \in Ops : DrainStarts(s, kind, b)
      \/ ShutCancel \/ ShutDrain
  BY OtherKinds DEF Ports
<1>2. UNCHANGED st => Idles
  BY <1>0 DEF Idles
<1>3. ASSUME NEW k \in Op, BridgeCloses(k)
      PROVE  Marks
  BY <1>0, <1>2, <1>3 DEF BridgeCloses, Marks, Set, Shutting
<1>4. ASSUME ShutCancel \/ \E d \in Device : CompleteCleanup(d)
      PROVE  Marks
  BY <1>0, <1>2, <1>4 DEF ShutCancel, CompleteCleanup, Marks, Shutting
<1>5. ASSUME NEW s \in Session, NEW kind, NEW b, BeginDrain(s, kind, b), b # 0, pend[s] = NoJob,
             Quiet
      PROVE  FALSE
  BY <1>0, <1>5 DEF BeginDrain, Set, Quiet, NoJob
<1>6. ASSUME NEW s \in Session, ReleaseDrain(s), Quiet
      PROVE  Marks
  <2>1. /\ UNCHANGED <<pend, drain, st, flag, released, closing>>
        /\ rw' = Set(rw, s, <<"job", pend[s][2]>>)
    BY <1>5, <1>6 DEF ReleaseDrain
  <2>2. \A t \in Session : rw'[t][1] = "op" => rw'[t] = rw[t]
    BY <1>0, <2>1 DEF Set
  <2> QED BY <1>0, <1>2, <1>6, <2>1, <2>2 DEF ReleaseDrain, Marks, Shutting
<1>7. ASSUME NEW s \in Session, Clear(s) \/ AttachSession(s), Quiet
      PROVE  Marks
  <2>1. br[s] = 0 /\ \E x \in {"ATTACHING", "DETACHED"} : st' = Set(st, s, x)
    BY <1>5, <1>7 DEF Clear, AttachSession
  <2>2. Idles
    BY <1>0, <2>1 DEF Idles, Set, States
  <2>3. flag' = flag \/ flag' = Set(flag, s, FALSE)
    BY <1>7, <2>1 DEF Clear, AttachSession
  <2>4. UNCHANGED <<critical, pend, br, promised, released, relreq, handle, down, rw>>
    BY <1>7, <2>1 DEF Clear, AttachSession
  <2> QED BY <1>0, <2>2, <2>3, <2>4 DEF Marks, Shutting
<1>8. ASSUME PlugDetach, Quiet
      PROVE  Marks
  <2>1. \/ UNCHANGED <<st, flag>>
        \/ \E s \in Session : br[s] = 0 /\ Detach(s)
    BY <1>5, <1>8 DEF PlugDetach, Bound
  <2>2. Idles
    BY <1>0, <1>2, <2>1 DEF Idles, Detach, Set, States
  <2>3. flag' = flag \/ \E s \in Session : flag' = Set(flag, s, FALSE)
    BY <2>1 DEF Detach
  <2>4. UNCHANGED <<critical, pend, br, promised, released, relreq, handle, down, rw>>
    BY <1>5, <1>8 DEF PlugDetach, Bound
  <2> QED BY <1>0, <2>2, <2>3, <2>4 DEF Marks, Shutting
<1>9. ASSUME NEW d \in Device, NEW p \in {0, plugs + 2}, Plug(d, p)
      PROVE  Marks
  <2>1. /\ st' = [s \in Session |->
             IF p = 0 /\ dev[s] = d /\ br[s] = 0 /\ st[s] # "RELEASED" THEN "DETACHED" ELSE st[s]]
        /\ UNCHANGED <<held, flag, br, released>>
    BY <1>9 DEF Plug, FinishOp, Shape
  <2>2. Idles
    BY <1>0, <2>1 DEF Idles, States
  <2> QED BY <1>0, <1>9, <2>1, <2>2 DEF Plug, Marks, Shutting
<1>10. ASSUME PlugSpawn \/ ShutBegin \/ ShutJoin \/ ShutOps \/ ShutEnd
       PROVE  Marks
  BY <1>0, <1>2, <1>10 DEF PlugSpawn, ShutBegin, ShutJoin, ShutOps, ShutEnd, Marks, Shutting
<1>11. ASSUME NEW s \in Session, FlashUnmark(s)
       PROVE  Marks
  BY <1>0, <1>2, <1>11 DEF FlashUnmark, Marks, Shutting
<1>12. ASSUME NEW s \in Session, BridgeDown(s), Quiet
       PROVE  FALSE
  BY <1>5, <1>12 DEF BridgeDown
<1> QED
  BY <1>1, <1>3, <1>4, <1>6, <1>7, <1>8, <1>9, <1>10, <1>11, <1>12 DEF OtherMoves

\* A refused worker only marks.
LEMMA RefusedMarks ==
  ASSUME Shape, NEW d \in Device, Refused(d)
  PROVE  Marks
<1>1. Quiet /\ Idles /\ UNCHANGED <<handle, rw, flag, critical, promised, released, relreq, down>>
  BY RefusedQuiet DEF Refused, Spawn
<1>2. handle \in [Op -> {"none", "opening", "open", "closed", "lost"}]
  BY DEF Shape
<1> QED BY <1>1, <1>2 DEF Marks, Quiet

------------------------------------------------------------------------------
(* Calls                                                                   *)

\* Only ReleaseOp begins to wait for an operation, one of its own device.
LEMMA CallsKept ==
  ASSUME OneEach, Shape, Ports, CallsHold, Moves
  PROVE  CallsHold'
<1>0. \A s \in Session : rw[s][1] = "op" => rw[s][2] \in Ops
  BY DEF Shape, NoJob
<1>1. ASSUME \A s \in Session : rw'[s][1] = "op" => rw'[s] = rw[s],
             \A k \in Ops : info'[k] = info[k], UNCHANGED Home
      PROVE  CallsHold'
  BY <1>0, <1>1 DEF CallsHold
<1>2. ASSUME NEW d \in Device, WorkerMoves(d)
      PROVE  CallsHold'
  <2>1. rw' = rw
    BY <1>2 DEF WorkerMoves, Walks, Enters, Works, Finishes, HandsOver, Starts, Probes, Publishes,
       Elsewhere
  <2> QED BY <1>1, <1>2, <2>1, Apart DEF Ports
<1>3. ASSUME Marks
      PROVE  CallsHold'
  BY <1>1, <1>3 DEF Marks, Frame
<1>4. ASSUME OtherMoves
      PROVE  CallsHold'
  <2>0. Frame /\ rw \in [Session -> {NoJob} \cup ({"op", "job"} \X Ops)]
    BY <1>4, OtherShape DEF Ports, Shape
  <2>1. CASE \E s \in Session, kind \in Causes \ {"shutdown"}, b \in Ops : DrainStarts(s, kind, b)
    BY <1>1, <2>0, <2>1 DEF DrainStarts, Frame
  <2>2. CASE \E s \in Session : \/ CompleteDrain(s) \/ ReleaseNow(s) \/ FlashMark(s)
                                \/ FlashEnter(s) \/ FlashExit(s)
    BY ZenonT(40), <1>1, <2>0, <2>2 DEF CompleteDrain, ReleaseNow, FlashMark, FlashEnter, FlashExit, Frame
  <2>3. CASE \E s \in Session : ReleaseAnswered(s) \/ ReleaseTimeout(s)
    <3>1. \A s \in Session : rw'[s][1] = "op" => rw'[s] = rw[s]
      BY <2>0, <2>3 DEF ReleaseAnswered, ReleaseTimeout, Set, NoJob
    <3> QED BY <1>1, <2>0, <3>1 DEF Frame
  <2>4. CASE ShutDrain
    BY <1>1, <2>0, <2>4 DEF ShutDrain, Frame
  <2>5. ASSUME NEW s \in Session, ReleaseOp(s)
        PROVE  CallsHold'
    <3>1. Pending(dev[s]) \in Ops /\ info[Pending(dev[s])].s = s /\ OpPlaced(Pending(dev[s]))
          /\ Working(dev[s]) # 0
      BY <2>5, PendingOp, OpNumbers DEF Ports, WorkersHold, ReleaseOp
    <3>2. rw' = Set(rw, s, <<"op", Pending(dev[s])>>)
      BY <2>5, <3>1 DEF ReleaseOp
    <3>3. info[Pending(dev[s])].d = Home[s]
      BY <3>1 DEF OpPlaced
    <3>4. UNCHANGED info
      BY <2>0 DEF Frame
    <3> QED BY <2>0, <3>2, <3>3, <3>4 DEF Set, CallsHold
  <2> QED BY <1>3, <1>4, <2>1, <2>2, <2>3, <2>4, <2>5, OtherEffects
<1> QED BY <1>2, <1>3, <1>4, MoveKinds, RefusedMarks

------------------------------------------------------------------------------
(* Released devices                                                        *)

\* Where no operation is pending, all are done.
LEMMA NonePending ==
  ASSUME OneEach, Shape, WorkersHold, NEW s \in Session, Pending(dev[s]) = 0
  PROVE  \A k \in Ops : info[k].d = Home[s] =>
           k \in done \/ (wpc[Home[s]] = "discard" /\ wop[Home[s]] = k)
<1>1. ASSUME NEW k \in Ops, info[k].d = Home[s], k \notin done
      PROVE  wpc[Home[s]] = "discard" /\ wop[Home[s]] = k
  <2>1. dev[s] = Home[s] /\ Home[s] \in Device
    BY LifecycleAssumption DEF Shape
  <2>2. OpPlaced(k) /\ WorkerPlaced(Home[s])
    BY <1>1, <2>1 DEF WorkersHold
  <2>3. k # 0
    BY OpNumbers
  <2> QED BY <1>1, <2>1, <2>2, <2>3 DEF OpPlaced, WorkerPlaced, AtWork, Pending, Working
<1> QED BY <1>1

\* The port of a worker's operation, in a step of the worker that is not its end.
LEMMA WorkerPort ==
  ASSUME OneEach, Shape, Ports, NEW d \in Device, WorkerMoves(d), NEW k \in Ops,
         handle'[k] \in {"opening", "open"}
  PROVE  /\ handle[k] \in {"opening", "open"}
         /\ k \in done' /\ handle'[k] = "open" => handle[k] = "open"
         /\ k \in done' \ done => HandsOver(d) /\ k = wop[d]
<1>0. /\ wpc \in [Device -> Stages] /\ wop[d] \in 0 .. ops
      /\ handle \in [Op -> {"none", "opening", "open", "closed", "lost"}]
      /\ Ops \subseteq Op /\ k # ops + 1 /\ k \in Op
      /\ WorkerPlaced(d) /\ OpPlaced(k)
  BY OpNumbers DEF Shape, Ports, WorkersHold
<1>1. CASE k # wop[d] \/ info[k].d # d
  BY <1>1, Apart DEF Same, Ports
<1>2. CASE k = wop[d] /\ info[k].d = d
  <2>1. CASE Walks(d) \/ Probes(d) \/ Publishes(d)
    BY <2>1 DEF Walks, Probes, Publishes
  <2>2. CASE Enters(d)
    BY <1>0, <2>2 DEF Enters, Set
  <2>3. CASE Works(d)
    BY <1>0, <1>2, <2>3 DEF Works, WorkerPlaced, AtWork, Bridging
  <2>4. CASE Finishes(d)
    BY <1>0, <1>2, <2>4 DEF Finishes, Set
  <2>5. CASE HandsOver(d)
    BY <1>0, <1>2, <2>5 DEF HandsOver, WorkerPlaced
  <2>6. CASE Starts(d)
    BY <1>0, <1>2, <2>6 DEF Starts, WorkerPlaced
  <2> QED BY <2>1, <2>2, <2>3, <2>4, <2>5, <2>6 DEF WorkerMoves
<1> QED BY <1>1, <1>2

\* How a worker changes a session.
LEMMA WorkerSession ==
  ASSUME OneEach, Shape, Ports, NEW d \in Device, WorkerMoves(d), NEW s \in Session
  PROVE  /\ UNCHANGED <<pend, critical, promised, relreq, down, stalled, sjobs>>
         /\ released \subseteq released'
         /\ br[s] # 0 => st'[s] = st[s] /\ br'[s] # 0
         /\ st'[s] \in {"READY", "ATTACHED", "FLASHING"} =>
              st'[s] = st[s] \/ (st'[s] # "FLASHING" /\ br'[s] # 0)
         /\ st'[s] = "RELEASED" => st[s] = "RELEASED" \/
              (Finishes(d) /\ s = ws[d] /\ wop[d] \in relreq)
         /\ flag'[s] => flag[s]
<1>0. /\ wpc \in [Device -> Stages] /\ st \in [Session -> States]
      /\ br \in [Session -> 0 .. ops] /\ flag \in [Session -> BOOLEAN]
      /\ WorkersHold /\ BridgesHold
  BY DEF Shape, Ports
<1>1. /\ wpc[d] \in AtWork \cup Bridging => wop[d] # 0
      /\ wpc[d] \in AtWork \cup Bridging =>
           ws[d] \in Session /\ Home[ws[d]] = d /\ br[ws[d]] = 0
  BY <1>0, WorkerPlace DEF WorkersHold, WorkerPlaced
<1>2. CASE Walks(d)
  BY <1>0, <1>2 DEF Walks, Elsewhere, Idles
<1>3. CASE Enters(d)
  BY <1>0, <1>3 DEF Enters, Elsewhere
<1>4. CASE Works(d)
  BY <1>0, <1>4 DEF Works, Elsewhere, Idles
<1>5. CASE Finishes(d)
  <2>1. CASE wop[d] \in relreq
    BY <1>0, <1>1, <1>5, <2>1 DEF Finishes, Elsewhere, Set
  <2>2. CASE wop[d] \notin relreq
    BY <1>0, <1>5, <2>2 DEF Finishes, Elsewhere, Idles
  <2> QED BY <2>1, <2>2
<1>6. CASE HandsOver(d) \/ Starts(d)
  BY <1>0, <1>6 DEF HandsOver, Starts, Elsewhere
<1>7. CASE Probes(d)
  BY <1>0, <1>7 DEF Probes, Elsewhere, Idles
<1>8. CASE Publishes(d)
  BY <1>0, <1>1, <1>8 DEF Publishes, Elsewhere, Set, Bridging
<1> QED BY <1>2, <1>3, <1>4, <1>5, <1>6, <1>7, <1>8 DEF WorkerMoves

\* A worker opens no port of a device that is released.
LEMMA WorkerReleases ==
  ASSUME OneEach, Shape, Ports, ReleasesHold, NEW d \in Device, WorkerMoves(d)
  PROVE  ReleasesHold'
<1>0. /\ PortsHold /\ WorkersHold
      /\ done \subseteq Ops /\ done' \subseteq Ops' /\ Ops \subseteq Ops'
      /\ \A k \in Ops : info'[k] = info[k]
      /\ \A k \in Ops' \ Ops : k \notin done' /\ Enters(d) /\ info'[k].d = d
  <2>1. PortsHold /\ WorkersHold /\ done \subseteq Ops /\ done' \subseteq Ops' /\ Ops \subseteq Ops'
        /\ \A k \in Ops : info'[k] = info[k]
    BY Apart, WorkerKeepsAll DEF Ports, Shape
  <2>2. CASE Enters(d)
    <3>1. /\ Ops' \ Ops \subseteq {ops + 1} /\ ops + 1 \notin Ops
          /\ info'[ops + 1].d = d /\ done' = done
      <4>1. /\ ops \in Nat /\ Len(info) = ops
            /\ info \in Seq([s : Session, d : Device, path : Nat, gen : Nat])
        BY DEF Shape
      <4>2. /\ ops' = ops + 1 /\ done' = done
            /\ \E x, y, z : info' = Append(info, [s |-> x, d |-> d, path |-> y, gen |-> z])
        BY <2>2 DEF Enters
      <4> QED BY <4>1, <4>2 DEF Ops
    <3> QED BY <2>1, <2>2, <3>1
  <2>3. CASE ~Enters(d)
    BY <2>1, <2>3 DEF WorkerMoves, Walks, Publishes, Works, Finishes, HandsOver, Starts, Probes,
       Ops
  <2> QED BY <2>1, <2>2, <2>3
<1>1. ASSUME NEW s \in Session, st'[s] = "RELEASED"
      PROVE  /\ Home[s] \in released'
             /\ \A k \in done' : info'[k].d = Home[s] => handle'[k] # "open"
  <2>1. CASE st[s] = "RELEASED"
    <3>1. ASSUME NEW k \in done', info'[k].d = Home[s], handle'[k] = "open"
          PROVE  FALSE
      <4>1. k \in Ops
        BY <1>0, <3>1
      <4>2. handle[k] = "open" /\ (k \in done \/ (HandsOver(d) /\ k = wop[d]))
        BY <3>1, <4>1, WorkerPort
      <4>3. CASE k \in done
        BY <1>0, <2>1, <3>1, <4>1, <4>2, <4>3 DEF ReleasesHold
      <4>4. CASE HandsOver(d) /\ k = wop[d]
        <5>1. ws[d] \in Session /\ Home[ws[d]] = d /\ info[k].d = d
          BY <1>0, <4>4 DEF HandsOver, WorkersHold, WorkerPlaced, AtWork
        <5>2. ws[d] = s
          BY <1>0, <3>1, <4>1, <5>1 DEF OneEach
        <5> QED BY <2>1, <4>4, <5>2 DEF HandsOver
      <4> QED BY <4>2, <4>3, <4>4
    <3>2. Home[s] \in released'
      BY <2>1, WorkerSession DEF ReleasesHold
    <3> QED BY <3>1, <3>2
  <2>2. CASE Finishes(d) /\ s = ws[d] /\ wop[d] \in relreq
    <3>1. /\ Home[s] = d /\ wop[d] # 0 /\ info[wop[d]].d = d
          /\ wop[d] \in Ops
      <4>1. Home[s] = d /\ wop[d] # 0 /\ info[wop[d]].d = d
        BY <1>0, <2>2 DEF Finishes, WorkersHold, WorkerPlaced, AtWork
      <4> QED BY <4>1, OpNumbers DEF Shape
    <3>2. d \in released' /\ handle' = Set(handle, wop[d], "closed")
      BY <2>2 DEF Finishes
    <3>3. ASSUME NEW k \in done', info'[k].d = Home[s], handle'[k] = "open"
          PROVE  FALSE
      <4>1. k \in Ops
        BY <1>0, <3>3
      <4>2. handle[k] = "open"
        BY <3>3, <4>1, WorkerPort
      <4>3. /\ wop[d] \in Op /\ k \in Op
            /\ handle \in [Op -> {"none", "opening", "open", "closed", "lost"}]
        BY <3>1, <4>1, OpNumbers DEF Shape
      <4>4. k # wop[d]
        BY <3>2, <3>3, <4>3 DEF Set
      <4>5. k \in done
        BY <1>0, <2>2, <3>3, <4>4 DEF Finishes
      <4>6. PortOwned(k)
        BY <1>0, <4>2, <4>5 DEF PortsHold
      <4>7. attaching[d] = 0
        BY <2>2 DEF Finishes, Ports, BridgesHold, AttachOwned, OneEach
      <4>8. \A t \in Session : Home[t] = d => br[t] = 0
        BY <2>2 DEF Finishes, Ports, BridgesHold, BridgeOwned, AtWork
      <4>9. info[k].d = d /\ k # 0
        BY <1>0, <3>1, <3>3, <4>1, OpNumbers
      <4> QED BY <4>6, <4>7, <4>8, <4>9 DEF PortOwned
    <3> QED BY <3>1, <3>2, <3>3
  <2> QED BY <1>1, <2>1, <2>2, WorkerSession
<1>2. ASSUME NEW e \in promised'
      PROVE  /\ e \in released'
             /\ \A k \in Ops' : info'[k].d = e /\ handle'[k] \in {"opening", "open"} =>
                  wpc'[e] = "discard" /\ wop'[e] = k
  <2>1. promised' = promised /\ released \subseteq released' /\ e \in Device
    <3>1. promised' = promised
      BY DEF WorkerMoves, Walks, Publishes, Works, Finishes, HandsOver, Starts, Probes, Enters,
         Elsewhere
    <3>2. e \in Device
      BY <3>1 DEF Shape
    <3> QED BY <3>1, <3>2, WorkerSession DEF OneEach
  <2>2. e \in released
    BY <2>1 DEF ReleasesHold
  <2>3. ASSUME NEW k \in Ops', info'[k].d = e, handle'[k] \in {"opening", "open"}
        PROVE  wpc'[e] = "discard" /\ wop'[e] = k
    <3>1. CASE k \in Ops
      <4>1. wpc[e] = "discard" /\ wop[e] = k
        BY <1>0, <2>1, <2>3, <3>1, WorkerPort DEF ReleasesHold
      <4>2. CASE e # d
        BY <1>0, <2>1, <4>1, <4>2, Apart
      <4>3. CASE e = d
        <5>1. Finishes(d)
          BY <4>1, <4>3 DEF WorkerMoves, Walks, Publishes, Works, HandsOver, Starts, Probes,
             Enters, Bridging
        <5>2. k \in Op /\ handle \in [Op -> {"none", "opening", "open", "closed", "lost"}]
          BY <3>1, OpNumbers DEF Shape
        <5> QED BY <2>3, <4>1, <4>3, <5>1, <5>2 DEF Finishes, Set
      <4> QED BY <4>2, <4>3
    <3>2. CASE k \notin Ops
      BY <1>0, <2>2, <2>3, <3>2 DEF Enters
    <3> QED BY <3>1, <3>2
  <2> QED BY <2>1, <2>2, <2>3
<1> QED BY <1>1, <1>2 DEF ReleasesHold

\* The drain of a release, and the release of an idle device, leave nothing
\* open; nothing else releases.
LEMMA ReleasesKept ==
  ASSUME OneEach, Shape, Ports, ReleasesHold, Moves
  PROVE  ReleasesHold'
<1>0. /\ PortsHold /\ WorkersHold /\ PortsHold' /\ Shape' /\ done \subseteq Ops /\ Ops \subseteq Op
      /\ st \in [Session -> States] /\ Home \in [Session -> Device]
      /\ prev \in [Session -> {"DETACHED", "ATTACHING", "READY", "ATTACHED"}]
      /\ dev = Home
  BY PortsKept, OpNumbers, LifecycleAssumption DEF Ports, Shape
<1>1. ASSUME Frame, promised' = promised, released \subseteq released',
             \A s \in Session : st'[s] = "RELEASED" => st[s] = "RELEASED",
             \A k \in Op : handle'[k] \in {handle[k], "closed"}
      PROVE  ReleasesHold'
  <2>1. done' = done /\ info' = info /\ Ops' = Ops /\ wpc' = wpc /\ wop' = wop
    BY <1>1 DEF Frame, Ops
  <2> QED BY <1>0, <1>1, <2>1 DEF ReleasesHold
<1>2. ASSUME Marks
      PROVE  ReleasesHold'
  <2>1. \A s \in Session : st'[s] = "RELEASED" => st[s] = "RELEASED"
    BY <1>2 DEF Marks, Idles
  <2> QED BY <1>1, <1>2, <2>1 DEF Marks
<1>3. ASSUME OtherMoves
      PROVE  ReleasesHold'
  <2>0. Frame
    BY <1>3, <1>0, OtherShape
  <2>1. CASE \E s \in Session, kind \in Causes \ {"shutdown"}, b \in Ops : DrainStarts(s, kind, b)
    <3>1. /\ promised' = promised /\ handle' = handle /\ released \subseteq released'
          /\ \E s \in Session : st' = Set(st, s, "RECOVERING")
      BY <2>1 DEF DrainStarts, DrainBegins, BeginDrain
    <3> QED BY <1>0, <1>1, <2>0, <3>1 DEF Set
  <2>2. CASE \E s \in Session : \/ ReleaseOp(s) \/ ReleaseTimeout(s) \/ FlashMark(s)
                                \/ FlashEnter(s) \/ FlashExit(s)
    <3>1. UNCHANGED <<promised, handle, released>>
      BY <2>2 DEF ReleaseOp, ReleaseTimeout, FlashMark, FlashEnter, FlashExit
    <3>2. \/ st' = st
          \/ \E s \in Session : \E x \in {"RECOVERING", "FLASHING", prev[s]} : st' = Set(st, s, x)
      BY ZenonT(40), <2>2 DEF ReleaseOp, ReleaseTimeout, FlashMark, FlashEnter, FlashExit
    <3>3. \A s \in Session : st'[s] = "RELEASED" => st[s] = "RELEASED"
      BY <1>0, <3>2 DEF Set
    <3> QED BY <1>1, <2>0, <3>1, <3>3
  <2>3. CASE ShutDrain
    BY <1>1, <2>0, <2>3 DEF ShutDrain
  <2>4. ASSUME NEW s \in Session, CompleteDrain(s)
        PROVE  ReleasesHold'
    <3>1. pend[s] \in Causes \X Ops /\ br'[s] = 0 /\ attaching'[Home[s]] = 0
      BY <2>4, DrainLeaves
    <3>2. handle' = handle /\ promised' = promised /\ released \subseteq released'
      BY <2>4, <3>1 DEF CompleteDrain, Causes
    <3>3. \/ st' = Set(st, s, "RELEASED") /\ Home[s] \in released'
          \/ st' = st \/ st' = Set(st, s, "ATTACHING") \/ st' = Set(st, s, "DETACHED")
      BY <1>0, <2>4 DEF CompleteDrain
    <3>4. CASE st' = Set(st, s, "RELEASED") /\ Home[s] \in released'
      <4>0. done' = done /\ info' = info /\ Ops' = Ops /\ wpc' = wpc /\ wop' = wop
        BY <2>0 DEF Frame, Ops
      <4>1. ASSUME NEW k \in done, info[k].d = Home[s], handle[k] = "open"
            PROVE  FALSE
        <5>1. PortOwned(k)'
          BY <1>0, <3>2, <4>0, <4>1 DEF PortsHold
        <5> QED BY <1>0, <3>1, <4>0, <4>1, <5>1, OpNumbers DEF PortOwned, OneEach
      <4>2. \A t \in Session \ {s} : st'[t] = st[t]
        BY <1>0, <3>4 DEF Set
      <4> QED BY <1>0, <3>2, <3>4, <4>0, <4>1, <4>2 DEF ReleasesHold
    <3>5. CASE st' = st \/ st' = Set(st, s, "ATTACHING") \/ st' = Set(st, s, "DETACHED")
      <4>1. \A t \in Session : st'[t] = "RELEASED" => st[t] = "RELEASED"
        BY <1>0, <3>5 DEF Set
      <4> QED BY <1>1, <2>0, <3>2, <4>1
    <3> QED BY <3>3, <3>4, <3>5
  <2>5. ASSUME NEW s \in Session, ReleaseNow(s) \/ ReleaseAnswered(s)
        PROVE  ReleasesHold'
    <3>0. done' = done /\ info' = info /\ Ops' = Ops /\ handle' = handle
      BY <2>0, <2>5 DEF Frame, Ops, ReleaseNow, ReleaseAnswered
    <3>1. promised' = promised \/ (promised' = promised \cup {Home[s]} /\ Pending(dev[s]) = 0)
      BY <1>0, <2>5 DEF ReleaseNow, ReleaseAnswered
    <3>2. /\ released \subseteq released'
          /\ \/ UNCHANGED st
             \/ /\ st' = Set(st, s, "RELEASED") /\ Home[s] \in released'
                /\ br[s] = 0 /\ attaching[Home[s]] = 0
          /\ promised' # promised => st'[s] = "RELEASED"
      BY <1>0, <2>5 DEF ReleaseNow, ReleaseAnswered, Set
    <3>3. ASSUME NEW t \in Session, st'[t] = "RELEASED"
          PROVE  Home[t] \in released' /\ \A k \in done : info[k].d = Home[t] => handle[k] # "open"
      <4>1. CASE st[t] = "RELEASED"
        BY <3>2, <4>1 DEF ReleasesHold
      <4>2. CASE st[t] # "RELEASED"
        <5>1. t = s /\ Home[s] \in released' /\ br[s] = 0 /\ attaching[Home[s]] = 0
          BY <1>0, <3>2, <3>3, <4>2 DEF Set
        <5>2. \A k \in done : info[k].d = Home[s] => ~PortOwned(k)
          BY <1>0, <5>1, OpNumbers DEF PortOwned, OneEach
        <5> QED BY <1>0, <5>1, <5>2 DEF PortsHold
      <4> QED BY <4>1, <4>2
    <3>w. wpc' = wpc /\ wop' = wop
      BY <2>5 DEF ReleaseNow, ReleaseAnswered
    <3>4. ASSUME NEW e \in promised', NEW k \in Ops, info[k].d = e,
                 handle[k] \in {"opening", "open"}
          PROVE  wpc[e] = "discard" /\ wop[e] = k
      <4>1. CASE e \in promised
        BY <3>4, <4>1 DEF ReleasesHold
      <4>2. CASE e = Home[s] /\ Pending(dev[s]) = 0 /\ st'[s] = "RELEASED"
        <5>1. k \in done \/ (wpc[e] = "discard" /\ wop[e] = k)
          BY <1>0, <3>4, <4>2, NonePending
        <5>2. k \in done => handle[k] = "open"
          BY <1>0, <3>4 DEF WorkersHold, OpPlaced
        <5> QED BY <3>3, <3>4, <4>2, <5>1, <5>2
      <4> QED BY <3>1, <3>2, <4>1, <4>2
    <3>5. promised' \subseteq released'
      BY <3>1, <3>2, <3>3 DEF ReleasesHold
    <3> QED BY <3>0, <3>3, <3>4, <3>5, <3>w DEF ReleasesHold
  <2> QED BY <1>2, <1>3, <2>1, <2>2, <2>3, <2>4, <2>5, OtherEffects
<1> QED BY <1>2, <1>3, MoveKinds, RefusedMarks, WorkerReleases

------------------------------------------------------------------------------
(* Sessions that wait                                                      *)

\* The flag is set with a drain or for a cancelled operation, and goes with them.
LEMMA FlagsKept ==
  ASSUME OneEach, Shape, Ports, FlagsHold, Moves
  PROVE  FlagsHold'
<1>0. /\ WorkersHold /\ done \subseteq Ops /\ relreq \subseteq Ops
      /\ st \in [Session -> States] /\ flag \in [Session -> BOOLEAN]
      /\ pend \in [Session -> Jobs] /\ dev = Home
      /\ prev \in [Session -> {"DETACHED", "ATTACHING", "READY", "ATTACHED"}]
  BY DEF Ports, Shape
<1>1. ASSUME NEW s \in Session, flag'[s], flag[s], pend'[s] = pend[s] \/ pend'[s] # NoJob,
             st'[s] = "RELEASED" => st[s] = "RELEASED",
             UNCHANGED <<info, done>>, relreq \subseteq relreq'
      PROVE  \/ pend'[s] # NoJob
             \/ st'[s] # "RELEASED" /\ \E k \in relreq' \ done' : info'[k].s = s
  BY <1>1 DEF FlagsHold
<1>2. ASSUME NEW d \in Device, WorkerMoves(d)
      PROVE  FlagsHold'
  <2>1. ASSUME NEW s \in Session, flag'[s]
        PROVE  \/ pend'[s] # NoJob
               \/ st'[s] # "RELEASED" /\ \E k \in relreq' \ done' : info'[k].s = s
    <3>1. flag[s] /\ pend' = pend /\ relreq' = relreq
      BY <1>2, <2>1, WorkerSession
    <3>2. CASE pend[s] # NoJob
      BY <3>1, <3>2
    <3>3. CASE pend[s] = NoJob
      <4>1. PICK k \in relreq \ done : info[k].s = s /\ st[s] # "RELEASED"
        BY <3>1, <3>3 DEF FlagsHold
      <4>2. k \in Ops /\ info'[k] = info[k]
        BY <1>0, <1>2, <4>1, Apart
      <4>3. ASSUME Finishes(d), wop[d] \in relreq
            PROVE  s # ws[d]
        BY <1>0, <2>1, <3>1, <4>1, <4>3 DEF Finishes, Set
      <4>4. st'[s] # "RELEASED"
        BY <1>2, <4>1, <4>3, WorkerSession
      <4>5. k \notin done'
        <5>1. CASE k # wop[d] \/ info[k].d # d
          BY <1>0, <1>2, <4>1, <4>2, <5>1, Apart DEF Same
        <5>2. CASE k = wop[d] /\ info[k].d = d
          <6>1. wpc[d] \in AtWork => ws[d] = s
            BY <1>0, <4>1, <5>2 DEF WorkersHold, WorkerPlaced
          <6>2. ~Finishes(d) /\ ~HandsOver(d)
            BY <4>1, <4>3, <5>2, <6>1 DEF Finishes, HandsOver, AtWork
          <6> QED BY <1>2, <4>1, <6>2
              DEF WorkerMoves, Walks, Enters, Works, Starts, Probes, Publishes
        <5> QED BY <5>1, <5>2
      <4> QED BY <3>1, <4>1, <4>2, <4>4, <4>5
    <3> QED BY <3>2, <3>3
  <2> QED BY <2>1 DEF FlagsHold
<1>3. ASSUME Marks
      PROVE  FlagsHold'
  <2>1. \A s \in Session : flag'[s] => flag[s]
    BY <1>0, <1>3 DEF Marks, Set
  <2>2. /\ \A s \in Session : st'[s] = "RELEASED" => st[s] = "RELEASED"
        /\ UNCHANGED <<info, done, pend, relreq>>
    BY <1>3 DEF Marks, Idles, Frame
  <2> QED BY <1>1, <2>1, <2>2 DEF FlagsHold
<1>4. ASSUME OtherMoves
      PROVE  FlagsHold'
  <2>0. Frame /\ UNCHANGED <<info, done>>
    BY <1>0, <1>4, OtherShape DEF Frame
  <2>1. ASSUME NEW s \in Session, NEW kind \in Causes \ {"shutdown"}, NEW b \in Ops,
               DrainStarts(s, kind, b)
        PROVE  FlagsHold'
    <3>1. /\ pend' = Set(pend, s, <<kind, b>>) /\ <<kind, b>> # NoJob
          /\ st' = Set(st, s, "RECOVERING") /\ flag' = Set(flag, s, TRUE)
          /\ relreq' = relreq
      BY <2>1 DEF DrainStarts, DrainBegins, BeginDrain, NoJob, Causes
    <3>2. ASSUME NEW t \in Session \ {s}
          PROVE  pend'[t] = pend[t] /\ st'[t] = st[t] /\ flag'[t] = flag[t]
      BY <1>0, <3>1 DEF Set
    <3>3. pend'[s] # NoJob
      BY <1>0, <3>1 DEF Set
    <3> QED BY ZenonT(40), <1>1, <2>0, <3>1, <3>2, <3>3 DEF FlagsHold
  <2>2. ASSUME NEW s \in Session, CompleteDrain(s)
        PROVE  FlagsHold'
    <3>1. /\ pend' = Set(pend, s, NoJob) /\ flag' = Set(flag, s, FALSE) /\ relreq' = relreq
          /\ st' = st \/ \E x \in States : st' = Set(st, s, x)
      BY <2>2 DEF CompleteDrain, States
    <3>2. ASSUME NEW t \in Session \ {s}
          PROVE  pend'[t] = pend[t] /\ st'[t] = st[t] /\ flag'[t] = flag[t]
      BY <1>0, <3>1 DEF Set
    <3>3. ~flag'[s]
      BY <1>0, <3>1 DEF Set
    <3> QED BY ZenonT(40), <1>1, <2>0, <3>1, <3>2, <3>3 DEF FlagsHold
  <2>3. ASSUME NEW s \in Session, ReleaseOp(s)
        PROVE  FlagsHold'
    <3>1. /\ relreq' = relreq \cup {Pending(dev[s])} /\ pend' = pend
          /\ UNCHANGED <<st, flag>> \/
               (st' = Set(st, s, "RECOVERING") /\ flag' = Set(flag, s, TRUE))
      BY <2>3 DEF ReleaseOp
    <3>2. Pending(dev[s]) \in Ops \ done /\ info[Pending(dev[s])].s = s
      BY <1>0, <2>3, PendingOp DEF ReleaseOp
    <3>3. CASE UNCHANGED <<st, flag>>
      BY <1>1, <2>0, <3>1, <3>3 DEF FlagsHold
    <3>4. CASE st' = Set(st, s, "RECOVERING") /\ flag' = Set(flag, s, TRUE)
      <4>1. ASSUME NEW t \in Session \ {s}
            PROVE  st'[t] = st[t] /\ flag'[t] = flag[t]
        BY <1>0, <3>4 DEF Set
      <4>2. st'[s] # "RELEASED"
        BY <1>0, <3>4 DEF Set
      <4> QED BY <1>1, <2>0, <3>1, <3>2, <4>1, <4>2 DEF FlagsHold
    <3> QED BY <3>1, <3>3, <3>4
  <2>4. ASSUME NEW s \in Session, ReleaseNow(s)
        PROVE  FlagsHold'
    <3>1. /\ pend' = pend /\ relreq' = relreq
          /\ UNCHANGED <<st, flag>> \/
               (st' = Set(st, s, "RELEASED") /\ flag' = Set(flag, s, FALSE))
      BY <2>4 DEF ReleaseNow
    <3>3. CASE UNCHANGED <<st, flag>>
      BY <1>1, <2>0, <3>1, <3>3 DEF FlagsHold
    <3>4. CASE st' = Set(st, s, "RELEASED") /\ flag' = Set(flag, s, FALSE)
      <4>1. ASSUME NEW t \in Session \ {s}
            PROVE  st'[t] = st[t] /\ flag'[t] = flag[t]
        BY <1>0, <3>4 DEF Set
      <4>2. ~flag'[s]
        BY <1>0, <3>4 DEF Set
      <4> QED BY <1>1, <2>0, <3>1, <4>1, <4>2 DEF FlagsHold
    <3> QED BY <3>1, <3>3, <3>4
  <2>5. ASSUME NEW s \in Session, \/ ReleaseAnswered(s) \/ ReleaseTimeout(s) \/ FlashMark(s)
                                  \/ FlashEnter(s) \/ FlashExit(s)
        PROVE  FlagsHold'
    <3>1. UNCHANGED <<pend, flag, relreq>>
      BY <2>5 DEF ReleaseAnswered, ReleaseTimeout, FlashMark, FlashEnter, FlashExit
    <3>2. \/ st' = st
          \/ \E x \in {"RECOVERING", "FLASHING", prev[s]} : st' = Set(st, s, x)
      BY <2>5 DEF ReleaseAnswered, ReleaseTimeout, FlashMark, FlashEnter, FlashExit
    <3>3. \A t \in Session : st'[t] = "RELEASED" => st[t] = "RELEASED"
      BY <1>0, <3>2 DEF Set
    <3> QED BY <1>1, <2>0, <3>1, <3>3 DEF FlagsHold
  <2>6. CASE ShutDrain
    <3> DEFINE left == {s \in Session : pend[s] = NoJob /\ br[s] # 0}
    <3>1. /\ pend' = [s \in Session |-> IF s \in left THEN <<"shutdown", br[s]>> ELSE pend[s]]
          /\ flag' = [s \in Session |-> s \in left \/ flag[s]]
          /\ UNCHANGED <<st, relreq>>
      BY <2>6 DEF ShutDrain
    <3>2. \A s \in left : pend'[s] # NoJob
      BY <3>1 DEF NoJob
    <3>3. \A s \in Session \ left : pend'[s] = pend[s] /\ (flag'[s] => flag[s])
      BY <3>1
    <3> HIDE DEF left
    <3> QED BY <1>1, <2>0, <3>1, <3>2, <3>3 DEF FlagsHold
  <2> QED BY <1>3, <1>4, <2>1, <2>2, <2>3, <2>4, <2>5, <2>6, OtherEffects
<1> QED BY <1>2, <1>3, <1>4, MoveKinds, RefusedMarks

------------------------------------------------------------------------------
(* Sessions that flash                                                     *)

\* While a release waits for an operation, its session has no bridge.
LEMMA WaitedFor ==
  ASSUME OneEach, Shape, Ports, CallsHold, NEW s \in Session, rw[s][1] = "op",
         rw[s][2] \notin done
  PROVE  br[s] = 0
<1>1. rw[s][2] \in Ops /\ info[rw[s][2]].d = Home[s]
  BY DEF CallsHold, Shape, NoJob
<1>2. wpc[Home[s]] \in AtWork
  BY <1>1 DEF Ports, WorkersHold, OpPlaced
<1> QED BY <1>2 DEF Ports, BridgesHold, BridgeOwned, AtWork

\* Nothing drains or marks a session that flashes.
LEMMA FlashKept ==
  ASSUME OneEach, Shape, Ports, CallsHold, FlashHolds, Moves
  PROVE  FlashHolds'
<1> DEFINE Fit(x, b, c, p) ==
      /\ x \in {"READY", "ATTACHED"} => b
      /\ x = "FLASHING" \/ c => b /\ p /\ x \notin {"RECOVERING", "RELEASED"}
           Fits(s) == Fit(st[s], br[s] # 0, s \in critical, pend[s] = NoJob)
<1>0. /\ st \in [Session -> States] /\ br \in [Session -> 0 .. ops]
      /\ pend \in [Session -> Jobs] /\ critical \subseteq Session
      /\ prev \in [Session -> {"DETACHED", "ATTACHING", "READY", "ATTACHED"}]
      /\ dev = Home
  BY DEF Shape
<1>1. FlashHolds <=> (Shutting \/ \A s \in Session : Fits(s))
  BY DEF FlashHolds, FlashBusy
<1>2. FlashHolds' <=> (Shutting' \/ \A s \in Session : Fits(s)')
  BY DEF FlashHolds, FlashBusy
<1>3. ASSUME Shutting, Shutting => Shutting'
      PROVE  FlashHolds'
  BY <1>2, <1>3
<1>4. ASSUME NEW d \in Device, WorkerMoves(d), ~Shutting
      PROVE  FlashHolds'
  <2>1. ASSUME NEW s \in Session
        PROVE  Fits(s)'
    BY <1>0, <1>1, <1>4, WorkerSession
  <2> QED BY <1>2, <2>1
<1>5. ASSUME Marks, ~Shutting
      PROVE  FlashHolds'
  <2>1. ASSUME NEW s \in Session
        PROVE  Fits(s)'
    BY <1>0, <1>1, <1>5 DEF Marks, Idles
  <2> QED BY <1>2, <2>1
<1>6. ASSUME OtherMoves, ~Shutting
      PROVE  FlashHolds'
  <2>1. ASSUME NEW s \in Session, \A t \in Session \ {s} : Fits(t) => Fits(t)', Fits(s) => Fits(s)'
        PROVE  FlashHolds'
    BY <1>1, <1>2, <1>6, <2>1
  <2>2. ASSUME NEW s \in Session, NEW kind \in Causes \ {"shutdown"}, NEW b \in Ops,
               DrainStarts(s, kind, b)
        PROVE  FlashHolds'
    <3>1. /\ pend' = Set(pend, s, <<kind, b>>) /\ st' = Set(st, s, "RECOVERING")
          /\ UNCHANGED <<br, critical>> /\ ~FlashBusy(s)
      BY <2>2 DEF DrainStarts, DrainBegins, BeginDrain
    <3>2. \A t \in Session \ {s} : pend'[t] = pend[t] /\ st'[t] = st[t]
      BY <1>0, <3>1 DEF Set
    <3>3. st'[s] = "RECOVERING" /\ s \notin critical
      BY <1>0, <3>1 DEF Set, FlashBusy
    <3> QED BY <2>1, <3>1, <3>2, <3>3
  <2>3. ASSUME NEW s \in Session, CompleteDrain(s)
        PROVE  FlashHolds'
    <3>1. pend[s] # NoJob /\ pend[s][1] # "shutdown"
      BY <1>6, <2>3 DEF CompleteDrain, Ports, DrainsHold, DrainOwned
    <3>2. /\ pend' = Set(pend, s, NoJob) /\ critical' = critical
          /\ \E x \in {"RELEASED", "ATTACHING", "DETACHED"} : st' = Set(st, s, x)
          /\ br' = br \/ br' = Set(br, s, 0)
      BY <2>3, <3>1 DEF CompleteDrain
    <3>3. \A t \in Session \ {s} : pend'[t] = pend[t] /\ st'[t] = st[t] /\ br'[t] = br[t]
      BY <1>0, <3>2 DEF Set
    <3>4. st'[s] \in {"RELEASED", "ATTACHING", "DETACHED"}
      BY <1>0, <3>2 DEF Set
    <3> QED BY <2>1, <3>1, <3>2, <3>3, <3>4
  <2>4. ASSUME NEW s \in Session,
               ReleaseOp(s) \/ ReleaseNow(s) \/ ReleaseAnswered(s) \/ ReleaseTimeout(s)
        PROVE  FlashHolds'
    <3>1. UNCHANGED <<br, critical, pend>>
      BY <2>4 DEF ReleaseOp, ReleaseNow, ReleaseAnswered, ReleaseTimeout
    <3>2. \/ st' = st
          \/ /\ st' = Set(st, s, "RECOVERING") \/ st' = Set(st, s, "RELEASED")
             /\ ~FlashBusy(s) \/ br[s] = 0
      BY <2>4, WaitedFor DEF ReleaseOp, ReleaseNow, ReleaseAnswered, ReleaseTimeout, ReleaseCall
    <3>3. \A t \in Session \ {s} : st'[t] = st[t]
      BY <1>0, <3>2 DEF Set
    <3>4. \/ st'[s] = st[s]
          \/ st'[s] \in {"RECOVERING", "RELEASED"} /\ (s \notin critical \/ br[s] = 0)
      BY <1>0, <3>2 DEF Set, FlashBusy
    <3> QED BY <2>1, <3>1, <3>3, <3>4
  <2>5. ASSUME NEW s \in Session, FlashMark(s) \/ FlashEnter(s) \/ FlashExit(s)
        PROVE  FlashHolds'
    <3>1. UNCHANGED <<br, pend>>
      BY <2>5 DEF FlashMark, FlashEnter, FlashExit
    <3>2. \/ /\ st' = st /\ critical' = critical \cup {s}
             /\ st[s] \in {"READY", "ATTACHED"} /\ pend[s] = NoJob
          \/ st' = Set(st, s, "FLASHING") /\ critical' = critical /\ s \in critical
          \/ st' = Set(st, s, prev[s]) /\ critical' = critical /\ st[s] = "FLASHING"
      BY <2>5 DEF FlashMark, FlashEnter, FlashExit
    <3>3. \A t \in Session \ {s} : st'[t] = st[t] /\ (t \in critical' <=> t \in critical)
      BY <1>0, <3>2 DEF Set
    <3>4. Fits(s) => Fits(s)'
      BY <1>0, <3>1, <3>2 DEF Set
    <3> QED BY <2>1, <3>1, <3>3, <3>4
  <2>6. CASE ShutDrain
    BY <1>6, <2>6 DEF ShutDrain, Shutting
  <2> QED BY <1>5, <1>6, <2>2, <2>3, <2>4, <2>5, <2>6, OtherEffects
<1>7. Shutting => Shutting'
  <2>1. CASE OtherMoves
    BY <1>0, <2>1, OtherKinds DEF Ports, Quiet, BridgeCloses, CompleteCleanup, CompleteDrain,
       DrainStarts, ShutCancel, ShutDrain, Shutting
  <2>2. ASSUME NEW d \in Device, WorkerMoves(d)
        PROVE  down' = down
    BY <2>2 DEF WorkerMoves, Walks, Enters, Works, Finishes, HandsOver, Starts, Probes, Publishes,
       Elsewhere
  <2> QED BY <2>1, <2>2, MoveKinds, RefusedMarks DEF Marks, Shutting
<1> QED BY <1>3, <1>4, <1>5, <1>6, <1>7, MoveKinds, RefusedMarks

------------------------------------------------------------------------------
(* The shutdown                                                            *)

Listed(k) ==
  \/ \E s \in Session : pend[s] \in sjobs /\ pend[s] # NoJob /\ pend[s][2] = k
  \/ \E d \in Device : drain[d] \in sjobs /\ drain[d] = <<"cleanup", k>>
Joined == down \in {"joined", "ops", "draining", "graceful"} /\ ~stalled

\* The invariant of the shutdown in parts.
LEMMA ShutParts ==
  ShutHolds <=>
    /\ Joined => inflight = {}
    /\ down = "graceful" => ~stalled
    /\ down = "draining" /\ Joined => \A k \in Ops : handle[k] = "open" => Listed(k)
    /\ AllClosed
BY DEF ShutHolds, Joined, Listed

\* Without workers every operation is done, and no port is being opened.
LEMMA WorkersGone ==
  ASSUME Shape, WorkersHold, inflight = {}
  PROVE  /\ \A d \in Device : wpc[d] = "none"
         /\ \A k \in Ops : k \in done
         /\ \A k \in Op : handle[k] # "opening"
<1>1. \A d \in Device : wpc[d] = "none"
  BY DEF WorkersHold, WorkerPlaced
<1>2. ASSUME NEW k \in Ops
      PROVE  k \in done /\ handle[k] # "opening"
  <2>1. OpPlaced(k) /\ info[k].d \in Device
    BY InfoShape DEF WorkersHold
  <2> QED BY <1>1, <2>1 DEF OpPlaced, AtWork
<1>3. \A k \in Op \ Ops : handle[k] # "opening"
  BY DEF WorkersHold
<1> QED BY <1>1, <1>2, <1>3

\* What the list names is what is left open, as long as nothing is opened.
LEMMA ListKept ==
  ASSUME OneEach, Shape, Ports, down = "draining", ~Quiet, OtherMoves, NEW k \in Ops,
         Listed(k), handle'[k] = "open"
  PROVE  Listed(k)'
<1>0. /\ DrainsHold /\ BridgesHold /\ Shutting /\ ~ShutCancel /\ ~ShutDrain
      /\ handle \in [Op -> {"none", "opening", "open", "closed", "lost"}]
      /\ drain \in [Device -> Jobs \cup ({"cleanup"} \X Ops)] /\ pend \in [Session -> Jobs]
      /\ dev = Home /\ Home \in [Session -> Device] /\ k \in Op
  BY OpNumbers, LifecycleAssumption DEF Ports, Shape, Shutting, ShutCancel, ShutDrain
<1>1. ASSUME NEW j \in Op, BridgeCloses(j)
      PROVE  Listed(k)'
  BY <1>1 DEF BridgeCloses, Listed
<1>2. ASSUME NEW d \in Device, CompleteCleanup(d)
      PROVE  Listed(k)'
  <2>1. /\ UNCHANGED <<pend, handle, sjobs>> /\ drain' = Set(drain, d, NoJob)
        /\ handle[drain[d][2]] # "open"
    BY <1>2 DEF CompleteCleanup, Receipt
  <2>2. \A e \in Device : drain[e] = <<"cleanup", k>> => drain'[e] = drain[e]
    BY <1>0, <2>1 DEF Set
  <2> QED BY <2>1, <2>2 DEF Listed
<1>3. ASSUME NEW s \in Session, CompleteDrain(s)
      PROVE  Listed(k)'
  <2>1. /\ UNCHANGED <<handle, sjobs>> /\ pend' = Set(pend, s, NoJob)
        /\ drain' = drain \/ (drain' = Set(drain, Home[s], NoJob) /\ drain[Home[s]] = pend[s])
        /\ handle[pend[s][2]] # "open" /\ pend[s] \in Causes \X Ops
    BY <1>0, <1>3, DrainLeaves DEF CompleteDrain
  <2>2. \A e \in Device : drain[e] = <<"cleanup", k>> => drain'[e] = drain[e]
    BY <1>0, <2>1 DEF Set, Causes
  <2>3. \A t \in Session : pend[t][2] = k => pend'[t] = pend[t]
    BY <1>0, <2>1 DEF Set
  <2> QED BY <2>1, <2>2, <2>3 DEF Listed
<1>4. ASSUME NEW s \in Session, NEW kind \in Causes \ {"shutdown"}, NEW b \in Ops,
             DrainStarts(s, kind, b)
      PROVE  Listed(k)'
  <2>1. /\ UNCHANGED <<handle, sjobs>> /\ pend[s] = NoJob
        /\ pend' = Set(pend, s, <<kind, b>>) /\ drain' = Set(drain, Home[s], <<kind, b>>)
        /\ b = br[s] /\ b # 0
    BY <1>0, <1>4 DEF DrainStarts, DrainBegins, BeginDrain
  <2>2. drain[Home[s]][1] # "cleanup"
    BY <1>0, <2>1 DEF DrainsHold, DrainOwned
  <2>3. \A e \in Device : drain[e] = <<"cleanup", k>> => drain'[e] = drain[e]
    BY <1>0, <2>1, <2>2 DEF Set
  <2>4. \A t \in Session : pend[t] # NoJob => pend'[t] = pend[t]
    BY <1>0, <2>1 DEF Set
  <2> QED BY <2>1, <2>3, <2>4 DEF Listed
<1> QED BY <1>0, <1>1, <1>2, <1>3, <1>4, OtherKinds DEF Ports

\* Everything open is on the list when it is made.
LEMMA ListMade ==
  ASSUME OneEach, Shape, Ports, ShutDrain, inflight = {}, NEW k \in Ops, handle[k] = "open"
  PROVE  Listed(k)'
<1> DEFINE left == {s \in Session : pend[s] = NoJob /\ br[s] # 0}
           d == info[k].d
<1>a. d \in Device /\ k # 0
  BY InfoShape, OpNumbers
<1>0. /\ BridgesHold /\ DrainsHold /\ PortsHold
      /\ dev = Home /\ Home \in [Session -> Device]
      /\ drain \in [Device -> Jobs \cup ({"cleanup"} \X Ops)] /\ pend \in [Session -> Jobs]
  BY LifecycleAssumption DEF Ports, Shape
<1>1. PortOwned(k) /\ wpc[d] = "none"
  BY <1>a, <1>0, WorkersGone DEF Ports, PortsHold
<1>2. /\ pend' = [s \in Session |-> IF s \in left THEN <<"shutdown", br[s]>> ELSE pend[s]]
      /\ sjobs' = {pend'[s] : s \in Session}
                    \cup {drain'[e] : e \in {f \in Device : drain'[f][1] = "cleanup"}}
      /\ \A e \in Device : (\A s \in left : Home[s] # e) => drain'[e] = drain[e]
  BY <1>0 DEF ShutDrain
<1>3. ASSUME NEW s \in Session, Home[s] = d, pend'[s] # NoJob, pend'[s][2] = k
      PROVE  Listed(k)'
  BY <1>2, <1>3 DEF Listed
<1>4. CASE attaching[d] = k
  <2>1. drain[d] # NoJob /\ drain[d][2] = k
    BY <1>a, <1>0, <1>1, <1>4 DEF BridgesHold, AttachOwned, Bridging
  <2>2. PICK s \in Session : Home[s] = d
    BY <1>a DEF OneEach
  <2>3. br[s] = 0
    BY <1>a, <1>0, <1>4, <2>2 DEF BridgesHold, BridgeOwned
  <2>4. drain'[d] = drain[d]
    <3>1. \A t \in left : Home[t] # d
      BY <2>2, <2>3 DEF OneEach
    <3> QED BY <1>a, <1>0, <1>2, <3>1
  <2>5. CASE drain[d][1] = "cleanup"
    <3>1. drain[d] = <<"cleanup", k>>
      BY <1>a, <1>0, <2>1, <2>5 DEF Jobs, NoJob
    <3> QED BY <1>a, <1>0, <1>2, <2>4, <2>5, <3>1 DEF Listed
  <2>6. CASE drain[d][1] # "cleanup"
    <3>1. drain[d][1] # "none"
      BY <1>a, <1>0, <2>1, <2>6 DEF Jobs, NoJob, Causes
    <3>2. pend[s] = drain[d]
      BY <1>a, <1>0, <2>2, <2>6, <3>1 DEF DrainsHold, DrainOwned
    <3> QED BY <1>2, <1>3, <2>1, <2>2, <3>2
  <2> QED BY <2>5, <2>6
<1>5. CASE \E s \in Session : Home[s] = d /\ br[s] = k
  <2>1. PICK s \in Session : Home[s] = d /\ br[s] = k
    BY <1>5
  <2>2. CASE pend[s] = NoJob
    <3>1. pend'[s] = <<"shutdown", k>>
      BY <1>a, <1>0, <1>2, <2>1, <2>2
    <3> QED BY <1>3, <2>1, <3>1 DEF NoJob
  <2>3. CASE pend[s] # NoJob
    <3>1. pend[s][2] = k
      BY <1>a, <1>0, <2>1, <2>3 DEF DrainsHold, DrainOwned
    <3> QED BY <1>2, <1>3, <2>1, <2>3, <3>1
  <2> QED BY <2>2, <2>3
<1> QED BY <1>1, <1>4, <1>5 DEF PortOwned

\* A shutdown that has given up on nothing has everything open on its list.
LEMMA ShutKept ==
  ASSUME OneEach, Shape, Ports, ShutHolds, Moves
  PROVE  ShutHolds'
<1>0. /\ WorkersHold /\ ops \in Nat /\ Ops \subseteq Op /\ inflight \subseteq Device
      /\ handle \in [Op -> {"none", "opening", "open", "closed", "lost"}]
      /\ wpc \in [Device -> Stages] /\ stalled \in BOOLEAN
  BY OpNumbers DEF Ports, Shape
<1>1. ASSUME UNCHANGED <<down, stalled>>, ~Joined, down # "graceful"
      PROVE  ShutHolds'
  BY <1>1, ShutParts DEF Joined, ShutHolds, AllClosed
<1>2. ASSUME UNCHANGED <<down, stalled, inflight, sjobs, drain, pend, ops, handle>>
      PROVE  ShutHolds'
  BY <1>2 DEF ShutHolds, AllClosed, Ops
<1>3. Joined => inflight = {}
  BY ShutParts
<1>4. down = "graceful" => Joined
  BY ShutParts DEF Joined
<1>5. ASSUME NEW d \in Device, WorkerMoves(d)
      PROVE  ShutHolds'
  <2>0. UNCHANGED <<down, stalled, sjobs, pend>>
    BY <1>5 DEF WorkerMoves, Walks, Enters, Works, Finishes, HandsOver, Starts, Probes, Publishes,
       Elsewhere
  <2>1. CASE Joined
    <3>1. wpc[d] = "none" /\ inflight = {} /\ Shutting
      BY <1>0, <1>3, <2>1, WorkersGone DEF Joined, Shutting
    <3>2. Walks(d)
      BY <1>5, <3>1 DEF WorkerMoves, Enters, Works, Finishes, HandsOver, Starts, Probes, Publishes,
         AtWork, Bridging
    <3>3. inflight' = {}
      <4>1. d \notin inflight' /\ inflight' \subseteq Device
            /\ \A e \in Device \ {d} : e \notin inflight'
        BY <3>1, <3>2 DEF Walks, Others
      <4> QED BY <4>1
    <3> QED BY <1>2, <2>0, <3>1, <3>2, <3>3 DEF Walks
  <2>2. CASE ~Joined
    BY <1>1, <1>4, <2>0, <2>2
  <2> QED BY <2>1, <2>2
<1>6. ASSUME NEW d \in Device, Refused(d)
      PROVE  ShutHolds'
  <2>1. Quiet /\ UNCHANGED <<down, stalled>>
    BY <1>6, RefusedQuiet DEF Refused, Spawn
  <2> QED BY <1>2, <2>1 DEF Quiet, Frame
<1>7. ASSUME OtherMoves
      PROVE  ShutHolds'
  <2>0. Frame /\ UNCHANGED <<inflight, ops, done>> /\ Ops' = Ops
    BY <1>0, <1>7, OtherShape DEF Frame, Ops
  <2>1. CASE ShutBegin \/ ShutCancel
    BY <2>1 DEF ShutBegin, ShutCancel, ShutHolds, AllClosed
  <2>2. CASE ShutJoin \/ ShutOps
    BY <2>2, ShutParts DEF ShutJoin, ShutOps, ShutHolds, Joined, AllClosed
  <2>3. CASE ShutDrain
    <3>1. /\ down' = "draining" /\ UNCHANGED <<stalled, handle, inflight>>
          /\ ~stalled => inflight = {}
      BY <1>3, <2>3, <2>0 DEF ShutDrain, Joined
    <3>2. ~stalled => \A k \in Ops : handle[k] = "open" => Listed(k)'
      BY <2>3, <3>1, ListMade
    <3> QED BY <2>0, <3>1, <3>2 DEF ShutHolds, Listed, AllClosed
  <2>4. CASE ShutEnd
    <3>1. /\ UNCHANGED <<stalled, handle, inflight, pend, drain, sjobs>> /\ down = "draining"
          /\ down' \in {"graceful", "stalled"}
      BY <2>4, <2>0 DEF ShutEnd
    <3>2. CASE down' = "graceful"
      <4>1. /\ ~stalled
            /\ \A s \in Session : pend[s] \in sjobs => pend[s] = NoJob
            /\ \A d \in Device : drain[d] \in sjobs => drain[d] = NoJob
        BY <2>4, <3>2 DEF ShutEnd
      <4>2. inflight = {} /\ \A k \in Ops : handle[k] = "open" => Listed(k)
        BY <3>1, <4>1, ShutParts DEF Joined
      <4>3. \A k \in Ops : ~Listed(k)
        BY <4>1 DEF Listed, NoJob
      <4>4. \A k \in Op : handle[k] \notin {"opening", "open"}
        <5>1. \A k \in Op \ Ops : handle[k] = "none"
          BY <1>0 DEF WorkersHold
        <5> QED BY <1>0, <4>2, <4>3, <5>1, WorkersGone
      <4> QED BY <3>1, <3>2, <4>1, <4>2, <4>4 DEF ShutHolds, AllClosed
    <3>3. CASE down' = "stalled"
      BY <3>3 DEF ShutHolds, AllClosed
    <3> QED BY <3>1, <3>2, <3>3
  <2>5. CASE ~(ShutBegin \/ ShutCancel \/ ShutJoin \/ ShutOps \/ ShutDrain \/ ShutEnd)
    <3>a. ASSUME NEW s \in Session, \/ CompleteDrain(s) \/ ReleaseOp(s) \/ ReleaseDrain(s)
                                    \/ ReleaseNow(s) \/ ReleaseAnswered(s)
                                    \/ ReleaseTimeout(s)
          PROVE  UNCHANGED <<down, stalled>>
      BY <3>a DEF CompleteDrain, ReleaseOp, ReleaseDrain, ReleaseNow, ReleaseAnswered,
         ReleaseTimeout
    <3>b. ASSUME NEW s \in Session, \/ Clear(s) \/ AttachSession(s) \/ BridgeDown(s)
                                    \/ FlashMark(s) \/ FlashEnter(s) \/ FlashUnmark(s)
                                    \/ FlashExit(s)
          PROVE  UNCHANGED <<down, stalled>>
      BY <3>b DEF Clear, AttachSession, BridgeDown, FlashMark, FlashEnter, FlashUnmark, FlashExit
    <3>c. ASSUME NEW d \in Device, CompleteCleanup(d) \/ \E p \in {0, plugs + 2} : Plug(d, p)
          PROVE  UNCHANGED <<down, stalled>>
      BY <3>c DEF CompleteCleanup, Plug
    <3>d. ASSUME PlugDetach \/ PlugSpawn \/ \E k \in Op : BridgeCloses(k)
          PROVE  UNCHANGED <<down, stalled>>
      BY <3>d DEF BridgeCloses, PlugDetach, PlugSpawn
    <3>1. UNCHANGED <<down, stalled>>
      BY <1>7, <2>5, <3>a, <3>b, <3>c, <3>d DEF OtherMoves
    <3>2. CASE Quiet
      BY <1>2, <3>1, <3>2 DEF Quiet, Frame
    <3>3. CASE ~Quiet
      <4>1. \A k \in Op : handle'[k] \in {handle[k], "closed"}
        BY <1>0, <1>7, <2>5, <3>3, OtherKinds DEF BridgeCloses, CompleteCleanup, CompleteDrain,
           DrainStarts, Set
      <4>2. ASSUME down = "draining", Joined
            PROVE  \A k \in Ops : handle'[k] = "open" => Listed(k)'
        BY <1>0, <1>7, <3>3, <4>1, <4>2, ListKept, ShutParts
      <4> QED BY <1>0, <2>0, <3>1, <4>1, <4>2, ShutParts DEF ShutHolds, Listed, Joined,
              AllClosed
    <3> QED BY <3>2, <3>3
  <2> QED BY <2>1, <2>2, <2>3, <2>4, <2>5
<1> QED BY <1>5, <1>6, <1>7, MoveKinds

------------------------------------------------------------------------------
(* All of it                                                               *)

\* What is called in a behaviour is chosen at its start.
LEMMA MixKept ==
  ASSUME Next
  PROVE  mix' = mix
<1>1. ASSUME NEW d \in Device, Worker(d)
      PROVE  mix' = mix
  <2>1. CASE \/ Spawn(d) \/ LookStops(d) \/ Look(d) \/ LookNobody(d) \/ ReadDevice(d)
             \/ Preopen(d) \/ Open(d) \/ OpenFails(d) \/ Opened(d) \/ Discard(d) \/ Mark(d)
             \/ HandOff(d)
    BY <2>1 DEF Spawn, LookStops, Look, LookNobody, ReadDevice, Preopen, Open, OpenFails, Opened,
       Discard, Mark, HandOff
  <2>2. CASE \/ Start(d) \/ StartFails(d) \/ StartRefused(d) \/ Started(d) \/ ProbeEnds(d)
             \/ Publish(d) \/ Raised(d) \/ Failed(d) \/ LoginFails(d) \/ LoggedOut(d) \/ Exit(d)
    BY <2>2 DEF Start, StartFails, StartRefused, Started, ProbeEnds, Publish, Raised, Failed,
       LoginFails, LoggedOut, Exit
  <2> QED BY <1>1, <2>1, <2>2 DEF Worker
<1>2. ASSUME NEW d \in Device, \/ ShutFinish(d) \/ CompleteCleanup(d)
                               \/ \E p \in {0, plugs + 2} : Plug(d, p)
      PROVE  mix' = mix
  BY <1>2 DEF ShutFinish, CompleteCleanup, Plug
<1>3. ASSUME NEW s \in Session, RpcStep(s)
      PROVE  mix' = mix
  BY <1>3 DEF RpcStep, ReleaseFinish, ReleaseAnswered, AttachScanned, AttachOpen, AttachHeld,
     AttachOpenFails, AttachOpened, AttachDiscard, BindFirst, BindFinish, BindWaited,
     BindSecond, BindClose
<1>4. ASSUME NEW s \in Session, \/ CompleteDrain(s) \/ ReleaseTimeout(s) \/ BindTimeout(s)
                                \/ ReleaseOp(s) \/ ReleaseDrain(s) \/ ReleaseNow(s)
                                \/ AttachCall(s) \/ \E t \in Device : BindCall(s, t)
      PROVE  mix' = mix
  BY <1>4 DEF CompleteDrain, ReleaseTimeout, BindTimeout, ReleaseOp, ReleaseDrain, ReleaseNow,
     AttachCall, BindCall
<1>5. ASSUME NEW s \in Session, \/ Clear(s) \/ AttachSession(s) \/ BridgeDown(s) \/ FlashMark(s)
                                \/ FlashEnter(s) \/ FlashUnmark(s) \/ FlashExit(s)
      PROVE  mix' = mix
  BY <1>5 DEF Clear, AttachSession, BridgeDown, FlashMark, FlashEnter, FlashUnmark, FlashExit
<1>6. ASSUME \/ PlugFinish \/ PlugDetach \/ PlugSpawn \/ ShutBegin \/ ShutCancel \/ ShutJoin \/ ShutOps
             \/ ShutDrain \/ ShutEnd \/ \E k \in Op : BridgeCloses(k)
      PROVE  mix' = mix
  BY <1>6 DEF PlugFinish, PlugDetach, PlugSpawn, ShutBegin, ShutCancel, ShutJoin, ShutOps, ShutDrain, ShutEnd,
     BridgeCloses
<1> QED BY <1>1, <1>2, <1>3, <1>4, <1>5, <1>6 DEF Next, Drains, Watcher

\* The invariant holds initially,
LEMMA InitInv ==
  ASSUME OneEach, Init
  PROVE  Inv
<1>0. /\ Ops = {} /\ ops = 0 /\ 0 \in 0 .. ops /\ info = <<>>
      /\ Home \in [Session -> Device] /\ MaxOps \in Nat
  BY LifecycleAssumption DEF Init, Ops
<1>1. Shape
  <2>1. info \in Seq([s : Session, d : Device, path : Nat, gen : Nat]) /\ Len(info) = ops
    BY <1>0
  <2>2. /\ path \in [Device -> Nat] /\ gen \in [Session -> Nat] /\ plugs \in Nat
        /\ handle \in [Op -> {"none", "opening", "open", "closed", "lost"}]
        /\ done = {} /\ closing = {} /\ started = {} /\ relreq = {}
        /\ opening \in [Device -> 0 .. ops] /\ active \in [Device -> 0 .. ops]
        /\ attaching \in [Device -> 0 .. ops] /\ preopened = [d \in Device |-> 0]
        /\ wop \in [Device -> 0 .. ops] /\ br \in [Session -> 0 .. ops]
    BY <1>0 DEF Init
  <2>3. /\ drain \in [Device -> Jobs \cup ({"cleanup"} \X Ops)] /\ pend \in [Session -> Jobs]
        /\ dev = Home /\ st \in [Session -> States] /\ flag \in [Session -> BOOLEAN]
        /\ released \subseteq Device /\ inflight \subseteq Device
        /\ promised \subseteq Device /\ critical \subseteq Session
        /\ wpc \in [Device -> Stages] /\ ws \in [Device -> Session \cup {None}]
        /\ prev \in [Session -> {"DETACHED", "ATTACHING", "READY", "ATTACHED"}]
    BY DEF Init, Jobs, States, Stages
  <2>4. /\ apc = [s \in Session |-> <<"idle", None>>] /\ bw = [s \in Session |-> Unbound]
        /\ rw \in [Session -> {NoJob} \cup ({"op", "job"} \X Ops)]
        /\ watch = <<"idle", None, 0>> /\ sops \subseteq Ops
        /\ down = "no" /\ stalled \in BOOLEAN
    BY DEF Init, NoWatch
  <2> QED BY <1>0, <2>1, <2>2, <2>3, <2>4 DEF Shape
<1>2. WorkersHold
  BY <1>0 DEF Init, WorkersHold, WorkerPlaced, OpPlaced, AtWork, Bridging
<1>3. BridgesHold /\ DrainsHold
  BY <1>0 DEF Init, BridgesHold, BridgeOwned, AttachOwned, StageFits, DrainsHold, DrainOwned,
     Bridging, NoJob
<1>4. PortsHold /\ ReleasesHold /\ FlagsHold /\ FlashHolds
  BY <1>0 DEF Init, PortsHold, ReleasesHold, FlagsHold, FlashHolds, FlashBusy
<1>5. ShutHolds /\ CallsHold
  BY DEF Init, ShutHolds, AllClosed, CallsHold, NoJob
<1> QED BY <1>1, <1>2, <1>3, <1>4, <1>5 DEF Inv

\* when nothing happens,
LEMMA StutterInv ==
  ASSUME Inv, UNCHANGED vars
  PROVE  Inv'
<1>0. Ops' = Ops /\ Jobs' = Jobs
  BY DEF Ops, Jobs
<1>1. Shape'
  BY <1>0 DEF Inv, Shape
<1>2. WorkersHold'
  BY <1>0 DEF Inv, WorkersHold, WorkerPlaced, OpPlaced
<1>3. BridgesHold' /\ DrainsHold'
  BY DEF Inv, BridgesHold, BridgeOwned, AttachOwned, StageFits, DrainsHold, DrainOwned, Shutting
<1>4. PortsHold'
  BY <1>0 DEF Inv, PortsHold, PortOwned, Shutting
<1>5. ReleasesHold' /\ FlagsHold' /\ FlashHolds'
  BY <1>0 DEF Inv, ReleasesHold, FlagsHold, FlashHolds, FlashBusy, Shutting
<1>6. ShutHolds' /\ CallsHold'
  BY <1>0 DEF Inv, ShutHolds, AllClosed, CallsHold
<1> QED BY <1>1, <1>2, <1>3, <1>4, <1>5, <1>6 DEF Inv

\* and after each step of settled sessions.
LEMMA NextInv ==
  ASSUME OneEach, Settled, Inv, Next
  PROVE  Inv'
<1>1. Moves /\ Shape /\ Ports
  BY SettledMoves DEF Inv, Ports
<1> QED BY <1>1, PortsKept, CallsKept, ReleasesKept, FlagsKept, FlashKept, ShutKept DEF Inv, Ports

\* The invariant holds as long as nobody attaches or binds a device by hand.
THEOREM InvHolds ==
  ASSUME OneEach
  PROVE  Spec => [](Settled => Inv)
<1>1. Init => (Settled => Inv)
  BY InitInv
<1>2. (Settled => Inv) /\ [Next]_vars => (Settled => Inv)'
  <2> SUFFICES ASSUME Settled => Inv, [Next]_vars, Settled'
               PROVE  Inv'
    OBVIOUS
  <2>1. mix' = mix
    BY MixKept
  <2>2. Settled /\ Inv
    BY <2>1 DEF Settled
  <2> QED BY <2>2, NextInv, StutterInv
<1> QED BY <1>1, <1>2, PTL DEF Spec

\* A device that was released with ok is opened by nobody until it is asked
\* back, and the device of a RELEASED session stays blocked (release_device
\* against the attach workers, the drains and hotplug).  Two ports may still be
\* open: one that the worker has taken off the tables and is about to close,
\* and one that start() has left open ("lost").  device.attach and session.bind
\* are ruled out (Settled).
THEOREM ReleasedStaysUnused ==
  ASSUME OneEach
  PROVE  Spec => [](Settled => ReleasedMeansUnused)
<1>1. ASSUME Inv
      PROVE  ReleasedMeansUnused
  <2>1. ASSUME NEW d \in promised, NEW k \in On(d), handle[k] = "open"
        PROVE  Dropped(k)
    <3>1. d \in Device /\ wpc[d] = "discard" /\ wop[d] = k
      BY <1>1, <2>1 DEF Inv, Shape, ReleasesHold, On, Ops
    <3> QED BY <3>1 DEF Dropped
  <2>2. \A s \in Session : st[s] = "RELEASED" => dev[s] \in released
    BY <1>1 DEF Inv, Shape, ReleasesHold
  <2> QED BY <2>1, <2>2 DEF ReleasedMeansUnused
<1> QED BY <1>1, InvHolds, PTL

\* An open port is in a table or with a worker, a session or a drain, which
\* will close it, and a device has at most one (_finish_attach_op and the
\* hand-over of _attach_by_id).
THEOREM OpenPortsAreOwned ==
  ASSUME OneEach
  PROVE  Spec => [](Settled => HandlesAreOwned)
<1>1. ASSUME Inv
      PROVE  HandlesAreOwned
  <2>0. Shape /\ WorkersHold /\ PortsHold /\ Ops = 1 .. ops
    BY <1>1 DEF Inv, Ops
  <2>1. ASSUME NEW k \in 1 .. ops, handle[k] = "open"
        PROVE  \/ \E d \in Device : attaching[d] = k \/ (wop[d] = k /\ wpc[d] # "none")
               \/ \E s \in Session : br[s] = k
    <3>1. k \in Ops /\ info[k].d \in Device
      BY <2>0, InfoShape
    <3>2. CASE k \in done
      BY <2>0, <2>1, <3>1, <3>2 DEF PortsHold, PortOwned
    <3>3. CASE k \notin done
      BY <2>0, <3>1, <3>3 DEF WorkersHold, OpPlaced, AtWork
    <3> QED BY <3>2, <3>3
  <2>2. ASSUME NEW d \in Device
        PROVE  Cardinality({k \in On(d) : handle[k] \in {"opening", "open", "lost"}}) <= 1
    <3> DEFINE S == {k \in On(d) : handle[k] \in {"opening", "open", "lost"}}
    <3>1. \A j, k \in S : j = k
      BY <2>0 DEF On, PortsHold
    <3> HIDE DEF S
    <3>2. S = {} \/ \E k : S = {k}
      BY <3>1
    <3>3. Cardinality(S) \in {0, 1}
      BY <3>2, FS_EmptySet, FS_Singleton
    <3> QED BY <3>3 DEF S
  <2> QED BY <2>1, <2>2 DEF HandlesAreOwned
<1> QED BY <1>1, InvHolds, PTL

\* The gate's recovering flag always has a drain or a cancelled attach that
\* clears it: no session is refused for ever (release_device, _begin_drain_locked,
\* _complete_drain, _finish_attach_op).
THEOREM RefusalsEnd ==
  ASSUME OneEach
  PROVE  Spec => [](Settled => RecoveringHasOwner)
<1>1. Inv => RecoveringHasOwner
  BY DEF Inv, FlagsHold, RecoveringHasOwner
<1> QED BY <1>1, InvHolds, PTL

\* While a session flashes, or is probed for it, nobody drains or replaces its
\* bridge unless the daemon stops (_is_flash_busy_locked where drains begin).
THEOREM FlashesKeepBridges ==
  ASSUME OneEach
  PROVE  Spec => [](Settled => FlashKeepsBridge)
<1>1. Inv => FlashKeepsBridge
  BY DEF Inv, BridgesHold, BridgeOwned, FlashHolds, FlashKeepsBridge
<1> QED BY <1>1, InvHolds, PTL

\* When a shutdown reports graceful, no port is being opened and none is open to
\* an operation, a bridge or a drain (shutdown_drain).  With the calls that
\* Settled rules out, a port that start() has left open ("lost") is the only one
\* there can be.
THEOREM GracefulStopsClose ==
  ASSUME OneEach
  PROVE  Spec => [](Settled => GracefulMeansClosed)
<1>1. Inv => GracefulMeansClosed
  BY DEF Inv, ShutHolds, AllClosed, GracefulMeansClosed
<1> QED BY <1>1, InvHolds, PTL
==============================================================================
