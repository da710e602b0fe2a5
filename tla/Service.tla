------------------------------- MODULE Service -------------------------------
(***************************************************************************)
(* The daemon's service layer (sw_core/service.py, with the parts of       *)
(* daemon.py and session_manager.py it calls): RPC operations with their   *)
(* admission tickets, interactive leases that keep the ticket of the call  *)
(* that opened them, the handoff stop, and the ordered shutdown.           *)
(*                                                                         *)
(* Threads: the asyncio loop runs one RPC at a time (command.submit too)   *)
(* and stop(); blocking RPCs and handoff_stop run in the executor beside   *)
(* it, and console lines are submitted by the bridges' reader threads.     *)
(* handoff_stop holds the session manager's lock from its flags to its     *)
(* reply, so only threads that do not take that lock interleave with it.   *)
(***************************************************************************)
EXTENDS CommandArbiter

CONSTANTS
  OpenOp,      \* session.interactive_open calls; each names its own lease
  CloseOp,     \* session.interactive_close calls
  ExecOp,      \* side-effecting RPCs that run in the executor
  NoOp

Op == OpenOp \cup CloseOp \cup ExecOp

ASSUME ServiceAssumption ==
  /\ Op \cap Cmd = {}
  /\ NoOp \notin Op
  /\ OpenOp \cap CloseOp = {}                \* each call is of one method
  /\ ExecOp \cap (OpenOp \cup CloseOp) = {}
  /\ \A l \in Load :
       /\ l.ops \subseteq Op   \* the RPC operations of the load
       /\ l.handoffs \in Nat   \* bound: its calls of daemon.handoff_stop

VARIABLES
  opc,            \* where each RPC operation is
  loop,           \* the operation the asyncio loop is executing
  got,            \* the lease an interactive call opened or closed
  lease,          \* interactive_session_id of each session
  leaseTickets,   \* the keys of _interactive_admission_tickets
  snap,           \* the active leases read by the two reconcile callers
  unsettled,      \* sessions in RECOVERING or FLASHING, or flash-critical
  unseen,         \* those of them that became so without an admission ticket
  arming,         \* sessions whose attach is past the stopping gate and will
                  \* call on_ready
  handoffFrozen,  \* SessionManager._handoff_frozen
  shuttingDown,   \* SessionManager._shutting_down
  hpc,            \* where handoff_stop is
  htoken,         \* the token freeze_if_idle gave it
  was,            \* was_frozen and was_shutting_down of freeze_for_handoff
  created,        \* this handoff created the freeze
  calls,          \* handoff_stop calls so far
  handed,         \* a handoff was granted
  idleHanded,     \* ... and it was the one that found the daemon idle
  stopPc,         \* where stop() is
  todo,           \* the sessions stop() has still to visit
  graceful        \* the result of shutdown_drain

rpcVars == <<opc, loop, got>>
leaseVars == <<lease, leaseTickets, snap>>
mgrVars == <<unsettled, unseen, arming>>
handoffVars == <<handoffFrozen, hpc, htoken, was, created, calls, handed, idleHanded>>
stopVars == <<stopPc, todo, graceful>>
svcVars == <<rpcVars, leaseVars, mgrVars, handoffVars, shuttingDown, stopVars>>
allVars == <<vars, svcVars>>

SvcInit ==
  /\ Init
  /\ opc = [o \in Op |-> "idle"]
  /\ loop = NoOp
  /\ got = [o \in Op |-> NoOp]
  /\ lease = [s \in Session |-> NoOp]
  /\ leaseTickets = {}
  /\ snap = [t \in {"loop", "handoff"} |-> {}]
  /\ unsettled = {}
  /\ unseen = {}
  /\ arming = {}
  /\ handoffFrozen = FALSE
  /\ shuttingDown = FALSE
  /\ hpc = "idle"
  /\ htoken = 0
  /\ was = [frozen |-> FALSE, closing |-> FALSE]
  /\ created = FALSE
  /\ calls = 0
  /\ handed = FALSE
  /\ idleHanded = FALSE
  /\ stopPc = "up"
  /\ todo = {}
  /\ graceful = FALSE

\* Mutant: a handoff that was granted returns without releasing the lock.
MgrLockLeaks == hpc \notin {"flagged", "fencing"} /\ ~handed

\* The session manager's lock is not held by handoff_stop.
MgrFree == hpc \notin {"flagged", "fencing"}

\* The loop is between two requests: no RPC and no agent's submit().
LoopFree ==
  /\ loop = NoOp
  /\ \A c \in Cmd \ Human : spc[c] \notin {"admitted", "inserted"}

\* Who may take a step of submit(): the loop, between other requests and not
\* during stop(), and readers until a graceful drain has joined them.
Scheduled(c) ==
  IF c \in Human
  THEN stopPc \in {"unregister", "stopped"} => ~graceful
  ELSE stopPc = "up" /\ (spc[c] = "new" => LoopFree)

\* The leases that are the current lease of some session.
Active == {lease[s] : s \in Session} \ {NoOp}

\* What _reconcile_interactive_admission_tickets takes for active: it returns
\* at once, reclaiming nothing, when it holds no ticket.
Seen == IF leaseTickets = {} THEN OpenOp ELSE Active

------------------------------------------------------------------------------
(* rpc()                                                                   *)

\* A frozen gate refuses any operation with a side effect.
RpcFrozen(o) ==
  /\ opc[o] = "idle"
  /\ frozen
  /\ opc' = [opc EXCEPT ![o] = "returned"]
  /\ UNCHANGED <<vars, loop, got, leaseVars, mgrVars, handoffVars, shuttingDown, stopVars>>

ExecStart(o) ==
  /\ opc[o] = "idle"
  /\ Admit(o)
  /\ opc' = [opc EXCEPT ![o] = "dispatch"]
  /\ UNCHANGED <<arbVars, loop, got, leaseVars, mgrVars, handoffVars, shuttingDown, stopVars>>

ExecReturn(o) ==
  /\ opc[o] = "dispatch"
  /\ Done({o})
  /\ opc' = [opc EXCEPT ![o] = "returned"]
  /\ UNCHANGED <<arbVars, loop, got, leaseVars, mgrVars, handoffVars, shuttingDown, stopVars>>

\* The loop takes the next request; it executes nothing once stop() runs.
LoopStart(o) ==
  /\ opc[o] = "idle"
  /\ LoopFree
  /\ stopPc = "up"
  /\ Admit(o)
  /\ loop' = o
  /\ opc' = [opc EXCEPT ![o] = "dispatch"]
  /\ UNCHANGED <<arbVars, got, leaseVars, mgrVars, handoffVars, shuttingDown, stopVars>>

\* An interactive call that fails (not ready, busy, recovering, flashing).
DispatchFail(o) ==
  /\ opc[o] = "dispatch"
  /\ loop = o
  /\ opc' = [opc EXCEPT ![o] = "dispatched"]
  /\ UNCHANGED <<vars, loop, got, leaseVars, mgrVars, handoffVars, shuttingDown, stopVars>>

\* The flags the manager keeps in step with its sessions.
LeaseFlag(s) == {<<s, "lease">>}
UnsettledFlag(s) == {<<s, "unsettled">>}

\* interactive_open granted, under the manager's lock.
OpenDispatch(o, s) ==
  /\ opc[o] = "dispatch"
  /\ MgrFree
  /\ lease[s] = NoOp
  /\ s \notin unsettled
  /\ lease' = [lease EXCEPT ![s] = o]
  /\ SetFlags(flags \cup LeaseFlag(s))
  /\ got' = [got EXCEPT ![o] = o]
  /\ opc' = [opc EXCEPT ![o] = "dispatched"]
  /\ UNCHANGED <<arbVars, loop, leaseTickets, snap, mgrVars, handoffVars,
                 shuttingDown, stopVars>>

\* interactive_close of the current lease of s.
CloseDispatch(o, s) ==
  /\ opc[o] = "dispatch"
  /\ MgrFree
  /\ lease[s] # NoOp
  /\ lease' = [lease EXCEPT ![s] = NoOp]
  /\ SetFlags(flags \ LeaseFlag(s))
  /\ got' = [got EXCEPT ![o] = lease[s]]
  /\ opc' = [opc EXCEPT ![o] = "dispatched"]
  /\ UNCHANGED <<arbVars, loop, leaseTickets, snap, mgrVars, handoffVars,
                 shuttingDown, stopVars>>

\* Every interactive call then reconciles: first the active leases are read
\* under the manager's lock ...
LoopSnapshot(o) ==
  /\ opc[o] = "dispatched"
  /\ MgrFree
  /\ snap' = [snap EXCEPT !["loop"] = Seen]
  /\ opc' = [opc EXCEPT ![o] = "snapped"]
  /\ UNCHANGED <<vars, loop, got, lease, leaseTickets, mgrVars, handoffVars,
                 shuttingDown, stopVars>>

\* Mutant: only the tickets of leases are given back, not the call's own.
LoopReturnKeepsTicket(o) ==
  LET dead == leaseTickets \ snap["loop"]
      mine == IF o \in OpenOp THEN {got[o]} \ {NoOp} ELSE {}
      closed == IF o \in CloseOp THEN {got[o]} \cap leaseTickets ELSE {}
  IN /\ opc[o] = "snapped"
     /\ leaseTickets' = (leaseTickets \ (dead \cup closed)) \cup mine
     /\ Done((dead \cup closed) \ mine)
     /\ opc' = [opc EXCEPT ![o] = "returned"]
     /\ loop' = NoOp
     /\ UNCHANGED <<arbVars, got, lease, snap, mgrVars, handoffVars, shuttingDown, stopVars>>

\* ... then, without it, the tickets of the others are given back, the new
\* lease takes its call's ticket over or the closed one gives its own back,
\* and the ticket of this call goes back unless a lease took it.
LoopReturn(o) ==
  LET dead == leaseTickets \ snap["loop"]
      mine == IF o \in OpenOp THEN {got[o]} \ {NoOp} ELSE {}
      closed == IF o \in CloseOp THEN {got[o]} \cap leaseTickets ELSE {}
  IN /\ opc[o] = "snapped"
     /\ leaseTickets' = (leaseTickets \ (dead \cup closed)) \cup mine
     /\ Done((dead \cup closed \cup {o}) \ mine)
     /\ opc' = [opc EXCEPT ![o] = "returned"]
     /\ loop' = NoOp
     /\ UNCHANGED <<arbVars, got, lease, snap, mgrVars, handoffVars, shuttingDown, stopVars>>

------------------------------------------------------------------------------
(* The session manager, as far as the service depends on it                *)

\* A lease ends without an RPC: it expires, or its session is drained.
LeaseEnds(s) ==
  /\ MgrFree
  /\ lease[s] # NoOp
  /\ lease' = [lease EXCEPT ![s] = NoOp]
  /\ SetFlags(flags \ LeaseFlag(s))
  /\ UNCHANGED <<arbVars, rpcVars, leaseTickets, snap, mgrVars, handoffVars,
                 shuttingDown, stopVars>>

\* A worker of s is in send_cb with an agent's command.
Executing(s, c) == \E e \in Epoch : wpc[e] = "send" /\ item[e] = c /\ owner[e] = s /\ c \notin Human

\* An operation with a ticket makes a session RECOVERING, FLASHING or
\* flash-critical: a release, a clear, a flash endpoint, an agent's reboot.
Unsettle(s) ==
  /\ MgrFree
  /\ s \notin unsettled
  /\ \/ \E o \in ExecOp : opc[o] = "dispatch"
     \/ \E c \in tickets : Executing(s, c)
  /\ unsettled' = unsettled \cup {s}
  /\ SetFlags(flags \cup UnsettledFlag(s))
  /\ UNCHANGED <<arbVars, rpcVars, leaseVars, unseen, arming, handoffVars, shuttingDown, stopVars>>

\* Without a ticket, and whether or not a handoff froze the background: the
\* bridge dies, or its device goes, and its drain ends the lease ...
BridgeLost(s) ==
  /\ MgrFree
  /\ s \notin unsettled
  /\ unsettled' = unsettled \cup {s}
  /\ unseen' = unseen \cup {s}
  /\ lease' = [lease EXCEPT ![s] = NoOp]
  /\ SetFlags((flags \cup UnsettledFlag(s)) \ LeaseFlag(s))
  /\ UNCHANGED <<arbVars, rpcVars, leaseTickets, snap, arming, handoffVars, shuttingDown, stopVars>>

\* ... or an agent's reboot is under way that was canceled, and whose ticket a
\* late flush of the session gave back.
RebootUnseen(s) ==
  /\ MgrFree
  /\ s \notin unsettled
  /\ \E c \in Cmd \ tickets : Executing(s, c)
  /\ unsettled' = unsettled \cup {s}
  /\ unseen' = unseen \cup {s}
  /\ SetFlags(flags \cup UnsettledFlag(s))
  /\ UNCHANGED <<arbVars, rpcVars, leaseVars, arming, handoffVars, shuttingDown, stopVars>>

\* The drain completes, the recovery ends, the flash is over.
Settle(s) ==
  /\ MgrFree
  /\ s \in unsettled
  /\ unsettled' = unsettled \ {s}
  /\ unseen' = unseen \ {s}
  /\ SetFlags(flags \ UnsettledFlag(s))
  /\ UNCHANGED <<arbVars, rpcVars, leaseVars, arming, handoffVars, shuttingDown, stopVars>>

\* An attach passes the stopping gate under the manager's lock ...
Arm(s) ==
  /\ MgrFree
  /\ ~shuttingDown
  /\ queues[s] = 0
  /\ arming' = arming \cup {s}
  /\ UNCHANGED <<vars, rpcVars, leaseVars, unsettled, unseen, handoffVars, shuttingDown, stopVars>>

\* ... and calls on_ready after it.
OnReady(s) ==
  /\ s \in arming
  /\ Register(s)
  /\ arming' = arming \ {s}
  /\ UNCHANGED <<rpcVars, leaseVars, unsettled, unseen, handoffVars, shuttingDown, stopVars>>

------------------------------------------------------------------------------
(* handoff_stop()                                                          *)

HandoffSnapshot ==
  /\ hpc = "idle"
  /\ calls < load.handoffs
  /\ calls' = calls + 1
  /\ snap' = [snap EXCEPT !["handoff"] = Seen]
  /\ hpc' = "snapped"
  /\ UNCHANGED <<vars, rpcVars, lease, leaseTickets, mgrVars, handoffFrozen, htoken, was,
                 created, handed, idleHanded, shuttingDown, stopVars>>

HandoffReclaim ==
  /\ hpc = "snapped"
  /\ LET dead == leaseTickets \ snap["handoff"]
     IN /\ leaseTickets' = leaseTickets \ dead
        /\ Done(dead)
  /\ hpc' = "reclaimed"
  /\ UNCHANGED <<arbVars, rpcVars, lease, snap, mgrVars, handoffFrozen, htoken, was,
                 created, calls, handed, idleHanded, shuttingDown, stopVars>>

\* The manager's lock is taken and the flags are set from the sessions.
HandoffFlags ==
  /\ hpc = "reclaimed"
  /\ SetFlags(UNION ({UnsettledFlag(s) : s \in unsettled}
                     \cup {LeaseFlag(s) : s \in {t \in Session : lease[t] # NoOp}}))
  /\ hpc' = "flagged"
  /\ UNCHANGED <<arbVars, rpcVars, leaseVars, mgrVars, handoffFrozen, htoken, was,
                 created, calls, handed, idleHanded, shuttingDown, stopVars>>

HandoffBusy ==
  /\ hpc = "flagged"
  /\ Busy
  /\ hpc' = "idle"
  /\ UNCHANGED <<vars, rpcVars, leaseVars, mgrVars, handoffFrozen, htoken, was,
                 created, calls, handed, idleHanded, shuttingDown, stopVars>>

\* freeze_if_idle gives a token: freeze_for_handoff closes the background
\* sources and asks every bridge to fence its TX.
HandoffFreeze ==
  /\ hpc = "flagged"
  /\ \/ CreateFreeze /\ created' = TRUE
     \/ AdoptFreeze /\ created' = FALSE
  /\ htoken' = token'
  /\ was' = [frozen |-> handoffFrozen, closing |-> shuttingDown]
  /\ handoffFrozen' = TRUE
  /\ shuttingDown' = TRUE
  /\ hpc' = "fencing"
  /\ UNCHANGED <<arbVars, rpcVars, leaseVars, mgrVars, calls, handed, idleHanded, stopVars>>

\* Every TX fence converged in time.
HandoffGranted ==
  /\ hpc = "fencing"
  /\ handed' = TRUE
  /\ idleHanded' = (idleHanded \/ created)
  /\ hpc' = "idle"
  /\ UNCHANGED <<vars, rpcVars, leaseVars, mgrVars, handoffFrozen, htoken, was,
                 created, calls, shuttingDown, stopVars>>

\* Mutant: the rollback reopens the gate whoever closed it.
HandoffTimeoutReopens ==
  /\ hpc = "fencing"
  /\ Thaw(htoken)
  /\ handoffFrozen' = FALSE
  /\ shuttingDown' = FALSE
  /\ hpc' = "idle"
  /\ UNCHANGED <<arbVars, rpcVars, leaseVars, mgrVars, htoken, was,
                 created, calls, handed, idleHanded, stopVars>>

\* Some fence timed out: what this call froze is thawed again.
HandoffTimeout ==
  /\ hpc = "fencing"
  /\ Thaw(htoken)
  /\ IF was.frozen
     THEN UNCHANGED <<handoffFrozen, shuttingDown>>
     ELSE /\ handoffFrozen' = FALSE
          /\ shuttingDown' = was.closing
  /\ hpc' = "idle"
  /\ UNCHANGED <<arbVars, rpcVars, leaseVars, mgrVars, htoken, was,
                 created, calls, handed, idleHanded, stopVars>>

------------------------------------------------------------------------------
(* stop()                                                                  *)

StopStep(from, to) ==
  /\ stopPc = from
  /\ stopPc' = to
  /\ UNCHANGED <<rpcVars, leaseTickets, snap, mgrVars, handoffVars>>

\* A signal, daemon.stop, or the end of the handoff's grace period: the loop
\* leaves its requests and runs stop().
StopFreeze ==
  /\ StopStep("up", "frozen")
  /\ LoopFree
  /\ Freeze
  /\ UNCHANGED <<arbVars, lease, shuttingDown, todo, graceful>>

\* begin_shutdown() waits for the manager's lock.
StopGate ==
  /\ StopStep("frozen", "flush")
  /\ MgrFree
  /\ shuttingDown' = TRUE
  /\ todo' = Session
  /\ UNCHANGED <<vars, lease, graceful>>

StopFlush(s) ==
  /\ StopStep("flush", "flush")
  /\ s \in todo
  /\ FlushSession(s, "FLUSHED_BY_SHUTDOWN")
  /\ todo' = todo \ {s}
  /\ UNCHANGED <<lease, shuttingDown, graceful>>

\* shutdown_drain() joins the attach threads for a bounded time.
StopJoin ==
  /\ StopStep("flush", "drain")
  /\ todo = {}
  /\ MgrFree
  /\ shuttingDown' = TRUE
  /\ todo' = Session
  /\ UNCHANGED <<vars, lease, graceful>>

\* Then the drain of each session that has a bridge begins: it ends the lease
\* and flushes the queue (the flags it sets are of no use to a frozen gate).
StopDrain(s) ==
  /\ StopStep("drain", "drain")
  /\ s \in todo
  /\ MgrFree
  /\ \/ /\ lease' = [lease EXCEPT ![s] = NoOp]
        /\ FlushSession(s, "FLUSHED_BY_SHUTDOWN")
     \/ /\ lease[s] = NoOp /\ queues[s] = 0
        /\ UNCHANGED <<lease, vars>>
  /\ todo' = todo \ {s}
  /\ UNCHANGED <<shuttingDown, graceful>>

\* Every drain gave its receipt, so the readers are joined; or one did not in
\* time, and the stop is not graceful.
StopDrained ==
  /\ StopStep("drain", "unregister")
  /\ todo = {}
  /\ graceful' \in BOOLEAN
  /\ graceful' => \A c \in Human : spc[c] # "inserted"
  /\ todo' = Session
  /\ UNCHANGED <<vars, lease, shuttingDown>>

\* Mutant: the queue is dropped without a flush.
StopUnregisterOnly(s) ==
  /\ StopStep("unregister", "unregister")
  /\ s \in todo
  /\ queues' = [queues EXCEPT ![s] = 0]
  /\ todo' = todo \ {s}
  /\ UNCHANGED <<gateVars, clientVars, tableVars, owner, stop, workerVars, held, ghostVars,
                 lease, shuttingDown, graceful>>

StopUnregister(s) ==
  /\ StopStep("unregister", "unregister")
  /\ s \in todo
  /\ Unregister(s, "FLUSHED_BY_SHUTDOWN")
  /\ todo' = todo \ {s}
  /\ UNCHANGED <<lease, shuttingDown, graceful>>

StopDone ==
  /\ StopStep("unregister", "stopped")
  /\ todo = {}
  /\ UNCHANGED <<vars, lease, shuttingDown, todo, graceful>>

------------------------------------------------------------------------------
(* The specification                                                       *)

RpcNext ==
  \/ \E o \in load.ops : RpcFrozen(o)
  \/ \E o \in load.ops \cap ExecOp : ExecStart(o) \/ ExecReturn(o)
  \/ \E o \in load.ops \cap (OpenOp \cup CloseOp) :
       LoopStart(o) \/ DispatchFail(o) \/ LoopSnapshot(o) \/ LoopReturn(o)
  \/ \E o \in OpenOp, s \in Session : OpenDispatch(o, s)
  \/ \E o \in CloseOp, s \in Session : CloseDispatch(o, s)

ManagerNext ==
  \E s \in Session :
    \/ LeaseEnds(s)
    \/ Unsettle(s)
    \/ BridgeLost(s)
    \/ RebootUnseen(s)
    \/ Settle(s)
    \/ Arm(s)
    \/ OnReady(s)
    \/ ManagerLoses(s) /\ UNCHANGED svcVars

HandoffStep ==
  \/ HandoffReclaim
  \/ HandoffFlags
  \/ HandoffBusy
  \/ HandoffFreeze
  \/ HandoffGranted
  \/ HandoffTimeout

StopTail ==
  \/ StopGate
  \/ \E s \in Session : StopFlush(s) \/ StopDrain(s) \/ StopUnregister(s)
  \/ StopJoin
  \/ StopDrained
  \/ StopDone

SvcNext ==
  \/ /\ ArbNext
     /\ \A c \in Cmd : spc'[c] # spc[c] => Scheduled(c)
     /\ UNCHANGED svcVars
  \/ RpcNext
  \/ ManagerNext
  \/ HandoffSnapshot
  \/ HandoffStep
  \/ StopFreeze
  \/ StopTail

\* A granted handoff starts stop() after its grace period (daemon.py); the
\* threads in the middle of a call go on, the fence's wait has a timeout.
SvcFairness ==
  /\ WF_allVars(HandoffStep)
  /\ WF_allVars(handed /\ StopFreeze)
  /\ WF_allVars(StopTail)
  /\ \A c \in Cmd :
       WF_allVars(/\ spc[c] \in {"admitted", "inserted"}
                  /\ \E s \in Session : SubmitStep(c, s)
                  /\ UNCHANGED svcVars)
  /\ \A o \in OpenOp \cup CloseOp :
       WF_allVars(DispatchFail(o) \/ LoopSnapshot(o) \/ LoopReturn(o))

SvcSpec == SvcInit /\ [][SvcNext]_allVars /\ SvcFairness

------------------------------------------------------------------------------
(* Properties                                                              *)

\* Once a handoff was granted, or stop() froze the gate, nothing thaws it: not
\* a second handoff whose fence times out, and not one that was under way
\* when stop() took the freeze over (AdmissionGate.thaw, _idle_token).
\* The same for the session manager's stopping gate: the rollback of a failed
\* handoff never reopens it behind a granted handoff or a shutdown.
FreezeSticks ==
  /\ handed \/ stopPc # "up" => frozen
  /\ handed => handoffFrozen /\ shuttingDown
  /\ stopPc \notin {"up", "frozen"} => shuttingDown

\* A handoff that found the daemon idle leaves nothing for the shutdown to
\* cut off: no open agent command, no RPC operation between its admission and
\* its reply, no live lease of an RPC.  And no session is recovering or
\* flashing on behalf of an operation: only what needs no ticket, above all a
\* bridge that dies (_handle_bridge_down), unsettles one after the grant.
HandoffLeavesNothingOpen ==
  idleHanded =>
    /\ \A c \in recs \ Human : cmd[c].doneAt # 0
    /\ \A o \in Op : opc[o] \in {"idle", "returned"}
    /\ Active = {}
    /\ unsettled \subseteq unseen

\* Whatever keeps the gate busy is an operation under way or a lease ticket
\* the next reconcile can reclaim: no RPC ticket is lost.
RpcTicketsAreOwned ==
  \A o \in tickets \cap Op :
    opc[o] \in {"dispatch", "dispatched", "snapped"} \/ o \in leaseTickets

\* A graceful stop() leaves no command accepted and waiting for ever, though
\* console lines are admitted without a ticket and arrive between its flush,
\* the drain's and its unregister.
GracefulStopLeavesNothingQueued ==
  stopPc = "stopped" /\ graceful =>
    \A c \in recs : cmd[c].status # "accepted"

\* A granted handoff ends with the daemon stopped.
HandoffLeadsToStop == handed ~> stopPc = "stopped"
==============================================================================
