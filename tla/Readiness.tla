----------------------------- MODULE Readiness -----------------------------
(***************************************************************************)
(* When may the daemon believe that a board is up, and who may write to it *)
(* until then (sw_core/session_manager.py)?  One session of a profile that *)
(* takes commands.  A board that is about to reboot, or whose boot banner  *)
(* was seen, opens a quiet window in which the daemon writes nothing, and  *)
(* owes a confirmation: a probe that the board answers.  Everything that   *)
(* probes runs in a thread of its own: the reprobe worker, the RPCs        *)
(* session.recover and session.attach, the loops that a reboot command     *)
(* starts, the attach worker, self-test; a command that timed out presses  *)
(* keys.  A section under _lock is one step; what a probe writes passes    *)
(* the fence of the bridge (uart_io.py), which has its own copy of the     *)
(* window.                                                                 *)
(*                                                                         *)
(* The device stays plugged in.  Such a session is never flashed           *)
(* (collect_flash_candidates_and_mark), and the daemon is not handing      *)
(* over or stopping.                                                       *)
(***************************************************************************)
EXTENDS Naturals

CONSTANTS
  Loops,        \* bound: recovery loops that run at once
  ReprobeMax,   \* REPROBE_MAX_ATTEMPTS
  ReconfirmMax, \* READY_RECONFIRM_MAX_ATTEMPTS
  Setups        \* profiles, each with the calls that meet in one behaviour

Outside == {"banner", "run", "reboot", "human_reboot", "selftest", "recover", "attach",
            "clear", "release", "io_error"}
Fixed == {"worker", "manual", "attach", "selftest", "command"}
Threads == Fixed \cup Loops
Probers == {"worker", "manual", "attach"} \cup Loops

ASSUME ReadinessAssumption ==
  /\ Loops \cap (Fixed \cup {"none"}) = {}
  /\ ReprobeMax \in Nat \ {0} /\ ReconfirmMax \in Nat \ {0}
  /\ Setups \subseteq [unlock : BOOLEAN,        \* it has console_unlock_env
                       login : BOOLEAN,         \* the attach probe logs in (ensure_ready)
                       calls : SUBSET Outside]  \* bound: what comes from outside

VARIABLES
  setup,        \* the profile, and what comes from outside
  state,        \* session.state
  err,          \* last_error: "none", "prompt" (worth a reprobe) or "other"
  bridge,       \* "up": session.bridge; "open": session.attach_bridge; or "none"
  drain,        \* kind of the _pending_drain, or "none"
  autoLogin,    \* pending_auto_login
  boot,         \* the window and the confirmation that is owed
  login,        \* thread of the newest login generation
  gate,         \* what that bridge knows of boot and login
  reprobe,      \* attempts, exhausted, and whether next_reprobe_at has come
  lock,         \* holder of the probe lock
  fg,           \* the command owns _foreground_operation
  held,         \* session.recover --force keeps _lock while it waits
  pc,           \* where a thread is
  on            \* whether the bridge it took is still there

vars == <<setup, state, err, bridge, drain, autoLogin, boot, login, gate, reprobe, lock, fg,
          held, pc, on>>

NoBoot == [quiet |-> "off",     \* boot_quiet_until: "on", or "over" when it has passed
           pending |-> FALSE,   \* ready_reconfirm_pending
           late |-> FALSE,      \* ready_reconfirm_deadline has passed
           attempts |-> 0, failed |-> FALSE,
           evidence |-> FALSE]  \* boot_evidence_wait_until lies ahead
NoGate == [quiet |-> FALSE, tx |-> FALSE, login |-> "none"]
Fresh == [attempts |-> 0, exhausted |-> FALSE, due |-> TRUE]

Init ==
  /\ setup \in Setups
  /\ state = "READY" /\ err = "none"
  /\ bridge = "up" /\ drain = "none" /\ autoLogin = FALSE
  /\ boot = NoBoot /\ login = "none" /\ gate = NoGate
  /\ reprobe = Fresh /\ lock = "none" /\ fg = FALSE /\ held = FALSE
  /\ pc = [t \in Threads |-> "idle"] /\ on = [t \in Threads |-> FALSE]

-----------------------------------------------------------------------------
(* The session's window and confirmation, and the copies on its bridge.    *)

Unlock == setup.unlock
Login == setup.login
Quiet(b) == b.quiet = "on"
QuietBlocks(b) == Quiet(b) /\ ~Unlock
Gated(b) == Quiet(b) \/ b.pending
Failed(b) == [NoBoot EXCEPT !.quiet = b.quiet, !.failed = TRUE]
Expired(b) == IF b.pending /\ (b.late \/ b.attempts >= ReconfirmMax) THEN Failed(b) ELSE b

\* Mutant: every reboot that is seen begins the confirmation anew.
ArmedAnew(b) ==
  Expired([NoBoot EXCEPT !.quiet = "on", !.pending = TRUE, !.evidence = b.evidence])
\* A running confirmation keeps its deadline; publishing the gate looks at it.
Armed(b) ==
  Expired(IF b.pending THEN [b EXCEPT !.quiet = "on"]
          ELSE [NoBoot EXCEPT !.quiet = "on", !.pending = TRUE, !.evidence = b.evidence])
Cleared(b) == Expired([b EXCEPT !.quiet = "off"])
Confirmed == NoBoot

Pushed(b, l) ==
  IF bridge = "none" THEN gate ELSE [quiet |-> Quiet(b), tx |-> Gated(b), login |-> l]
TxPushed(b) ==
  IF bridge = "none" \/ b.pending = boot.pending THEN gate ELSE [gate EXCEPT !.tx = Gated(b)]

\* Mutant: the window is the session's, and the bridge is not told.
ArmUnfenced(b) ==
  boot' = Armed(b) /\ login' = (IF Unlock THEN login ELSE "none") /\ UNCHANGED gate
Arm(b) ==
  /\ boot' = Armed(b)
  /\ login' = IF Unlock THEN login ELSE "none"
  /\ gate' = Pushed(Armed(b), login')
SetBoot(b) == boot' = b /\ gate' = Pushed(b, login)
Expire(b) == boot' = b /\ gate' = TxPushed(b)

Resting == {"idle", "spawned", "loop"}
At(t, l) == pc[t] = l
Go(t, l) == pc' = [pc EXCEPT ![t] = l] /\ on' = [on EXCEPT ![t] = @ /\ l \notin Resting]
GoOn(t, l) == pc' = [pc EXCEPT ![t] = l] /\ on' = [on EXCEPT ![t] = TRUE]
Call(c) == c \in setup.calls

Up == bridge = "up"
Released == state = "RELEASED" \/ drain = "release"

\* Mutant: nobody looks whether the bridge is still the session's.
GoneNever(t) == FALSE
\* session.bridge is not the bridge that t took.
Gone(t) == ~on[t]

Live(t) == on[t] /\ drain = "none"

Recorded ==
  [attempts |-> reprobe.attempts + 1,
   exhausted |-> reprobe.exhausted \/ reprobe.attempts + 1 >= ReprobeMax, due |-> FALSE]

\* _attach_inflight admits one attach worker.
SpawnAttach(p) == pc' = IF p["attach"] = "idle" THEN [p EXCEPT !["attach"] = "spawned"] ELSE p

-----------------------------------------------------------------------------
(* What the board sends, and what time does.                               *)

RxBanner ==
  /\ Call("banner") /\ bridge # "none"
  /\ Arm([boot EXCEPT !.evidence = FALSE])
  /\ UNCHANGED <<setup, state, err, bridge, drain, autoLogin, reprobe, lock,
                fg, held, pc, on>>

RxPrompt ==
  /\ bridge # "none" /\ boot.quiet # "off"
  /\ SetBoot(Cleared(boot))
  /\ UNCHANGED <<setup, state, err, bridge, drain, autoLogin, login, reprobe,
                lock, fg, held, pc, on>>

QuietEnds ==
  /\ Quiet(boot)
  /\ boot' = [boot EXCEPT !.quiet = "over"]
  /\ gate' = [gate EXCEPT !.quiet = FALSE]
  /\ UNCHANGED <<setup, state, err, bridge, drain, autoLogin, login, reprobe,
                lock, fg, held, pc, on>>

DeadlinePasses ==
  /\ boot.pending /\ ~boot.late
  /\ boot' = [boot EXCEPT !.late = TRUE]
  /\ UNCHANGED <<setup, state, err, bridge, drain, autoLogin, login, gate,
                reprobe, lock, fg, held, pc, on>>

EvidenceEnds ==
  /\ boot.evidence
  /\ boot' = [boot EXCEPT !.evidence = FALSE]
  /\ UNCHANGED <<setup, state, err, bridge, drain, autoLogin, login, gate,
                reprobe, lock, fg, held, pc, on>>

BackoffEnds ==
  /\ ~reprobe.due
  /\ reprobe' = [reprobe EXCEPT !.due = TRUE]
  /\ UNCHANGED <<setup, state, err, bridge, drain, autoLogin, boot, login,
                gate, lock, fg, held, pc, on>>

-----------------------------------------------------------------------------
(* Writing a probe: each write passes the fence of the bridge.             *)

\* _begin_login_run_locked: older login runs lose the fence.
BeginRun(t) ==
  /\ login' = t
  /\ gate' = [gate EXCEPT !.quiet = Quiet(boot), !.login = t]
  /\ GoOn(t, "begun")

\* Mutant: any generation passes.
FenceOpenToAll(t) == Live(t) /\ (Unlock \/ ~gate.quiet)
FenceOpen(t) == Live(t) /\ (Unlock \/ ~gate.quiet) /\ gate.login = t

\* Logging in writes more than once; two writes stand for any number.
ProbeWrites(t) ==
  /\ pc[t] \in {"begun", "sent"} /\ FenceOpen(t)
  /\ Go(t, IF At(t, "begun") THEN "sent" ELSE "again")
  /\ UNCHANGED <<setup, state, err, bridge, drain, autoLogin, boot, login,
                gate, reprobe, lock, fg, held>>

ProbeRefused(t) ==
  /\ pc[t] \in {"begun", "sent"} /\ Live(t) /\ ~FenceOpen(t)
  /\ Go(t, "refused")
  /\ UNCHANGED <<setup, state, err, bridge, drain, autoLogin, boot, login,
                gate, reprobe, lock, fg, held>>

\* A draining bridge, a sick WAL, a serial port that fails.
ProbeRaises(t) ==
  /\ pc[t] \in {"begun", "sent"}
  /\ Go(t, "raised")
  /\ UNCHANGED <<setup, state, err, bridge, drain, autoLogin, boot, login,
                gate, reprobe, lock, fg, held>>

\* Unresolved credentials end a run before it writes.
ProbeAnswers(t) ==
  /\ \/ pc[t] \in {"sent", "again"} /\ Go(t, "ok")
     \/ /\ pc[t] \in {"begun", "sent", "again"}
        /\ Go(t, IF t = "attach" /\ Login THEN "logged_out" ELSE "failed")
     \/ At(t, "begun") /\ Go(t, "failed")
  /\ UNCHANGED <<setup, state, err, bridge, drain, autoLogin, boot, login,
                gate, reprobe, lock, fg, held>>

-----------------------------------------------------------------------------
(* _probe_existing_bridge, called by the reprobe worker and by the RPCs    *)
(* with the probe lock held.  "good", "bad" and "lost" are its results.    *)

ProbeStart(t) ==
  /\ At(t, "ready")
  /\ \/ /\ Gone(t)
        /\ Go(t, "lost")
        /\ UNCHANGED <<err, login, gate>>
     \/ /\ ~Gone(t) /\ (QuietBlocks(boot) \/ boot.evidence)
        /\ err' = IF state = "READY" THEN err ELSE "prompt"
        /\ Go(t, IF state = "READY" THEN "good" ELSE "bad")
        /\ UNCHANGED <<login, gate>>
     \/ /\ ~Gone(t) /\ ~QuietBlocks(boot) /\ ~boot.evidence
        /\ BeginRun(t)
        /\ UNCHANGED err
  /\ UNCHANGED <<setup, state, bridge, drain, autoLogin, boot, reprobe, lock,
                fg, held>>

ProbeEnds(t) ==
  /\ pc[t] \in {"ok", "failed", "refused"}
  /\ IF Gone(t)
     THEN Go(t, "lost") /\ UNCHANGED <<state, err, autoLogin, boot, gate, reprobe>>
     ELSE /\ autoLogin' = FALSE
          /\ \/ /\ At(t, "ok")
                /\ state' = "READY" /\ err' = "none"
                /\ SetBoot(Confirmed)
                /\ reprobe' = Fresh
                /\ Go(t, "good")
             \/ /\ At(t, "refused") /\ state = "READY"
                /\ Go(t, "good")
                /\ UNCHANGED <<state, err, boot, gate, reprobe>>
             \/ /\ ~At(t, "ok") /\ ~(At(t, "refused") /\ state = "READY")
                /\ state' = "ATTACHED"
                /\ err' \in IF At(t, "refused") THEN {"prompt"} ELSE {"prompt", "other"}
                /\ Go(t, "bad")
                /\ UNCHANGED <<boot, gate, reprobe>>
  /\ UNCHANGED <<setup, bridge, drain, login, lock, fg, held>>

-----------------------------------------------------------------------------
(* reconcile_readiness, every tick of the device watcher, and its worker.  *)
(* Received bytes and an active human hold a probe back for as long as     *)
(* they like.                                                              *)

Owes == boot.pending /\ ~QuietBlocks(boot)
Exhausted == reprobe.exhausted \/ reprobe.attempts >= ReprobeMax

\* _prepare_reprobe_locked looks at a READY session's confirmation first.
TickExpires ==
  /\ state = "READY" /\ ~Released /\ Expired(boot) # boot
  /\ Expire(Expired(boot))
  /\ UNCHANGED <<setup, state, err, bridge, drain, autoLogin, login, reprobe,
                lock, fg, held, pc, on>>

Considered ==
  /\ ~Released
  /\ \/ state = "READY" /\ Expired(boot) = boot /\ Owes
     \/ state \in {"ATTACHED", "DETACHED"}

TickExhausts ==
  /\ Considered /\ Exhausted
  /\ reprobe' = [reprobe EXCEPT !.exhausted = TRUE]
  /\ IF state = "READY" THEN Expire(Failed(boot)) ELSE UNCHANGED <<boot, gate>>
  /\ UNCHANGED <<setup, state, err, bridge, drain, autoLogin, login, lock,
                fg, held, pc, on>>

Due ==
  /\ Considered /\ ~Exhausted /\ reprobe.due
  /\ ~QuietBlocks(boot) /\ ~boot.evidence
  /\ state # "READY" => err = "prompt"

TickProbes ==
  /\ Due /\ state # "DETACHED" /\ Up /\ At("worker", "idle")
  /\ reprobe' = [reprobe EXCEPT !.due = FALSE]
  /\ GoOn("worker", "spawned")
  /\ UNCHANGED <<setup, state, err, bridge, drain, autoLogin, boot, login,
                gate, lock, fg, held>>

TickAttaches ==
  /\ Due /\ state = "DETACHED"
  /\ state' = "ATTACHING" /\ err' = "none"
  /\ reprobe' = Recorded
  /\ SpawnAttach(pc)
  /\ UNCHANGED <<setup, bridge, drain, autoLogin, boot, login, gate, lock,
                fg, held, on>>

\* The RPC holds the lock: the worker gives up.
WorkerYields ==
  /\ At("worker", "spawned") /\ lock # "none"
  /\ Go("worker", "idle")
  /\ UNCHANGED <<setup, state, err, bridge, drain, autoLogin, boot, login,
                gate, reprobe, lock, fg, held>>

\* _reprobe_target_still_valid_locked: the confirmation may have expired, or
\* the board sits at its boot loader's prompt (stuck).
StillValid(b) ==
  /\ ~Gone("worker") /\ ~Released
  /\ (state = "READY" /\ b.pending) \/ (state = "ATTACHED" /\ err = "prompt")
  /\ ~reprobe.exhausted /\ ~QuietBlocks(b) /\ ~b.evidence

WorkerStarts ==
  /\ At("worker", "spawned") /\ lock = "none"
  /\ lock' = "worker"
  /\ \E stuck \in BOOLEAN, human \in BOOLEAN :
       LET looks == state = "READY" /\ ~Gone("worker") /\ ~Released
           seen == IF looks THEN Expired(boot) ELSE boot
           b == IF looks /\ seen.pending /\ stuck THEN Failed(seen) ELSE seen
       IN /\ Expire(b)
          /\ Go("worker", IF StillValid(b) /\ ~human THEN "ready" ELSE "leaving")
  /\ UNCHANGED <<setup, state, err, bridge, drain, autoLogin, login, reprobe,
                fg, held>>

WorkerRaised ==
  /\ At("worker", "raised")
  /\ IF Gone("worker") THEN UNCHANGED <<state, err, reprobe>>
     ELSE state' = "ATTACHED" /\ err' = "other" /\ reprobe' = Recorded
  /\ Go("worker", "leaving")
  /\ UNCHANGED <<setup, bridge, drain, autoLogin, boot, login, gate, lock,
                fg, held>>

\* _finish_probe_reprobe
WorkerFinishes ==
  /\ pc["worker"] \in {"good", "bad", "lost"}
  /\ IF Gone("worker")
     THEN UNCHANGED <<err, boot, gate, reprobe>>
     ELSE \/ /\ state = "READY" \/ At("worker", "good")
             /\ reprobe' = Fresh
             /\ UNCHANGED <<err, boot, gate>>
          \/ /\ state # "READY" /\ ~At("worker", "good")
             /\ \E stuck \in BOOLEAN :
                  LET counted == IF boot.pending
                                 THEN Expired([boot EXCEPT !.attempts = @ + 1]) ELSE boot
                  IN /\ Expire(IF stuck /\ counted.pending THEN Failed(counted) ELSE counted)
                     /\ err' = IF stuck THEN "other" ELSE err
                     /\ reprobe' = IF stuck THEN [Recorded EXCEPT !.exhausted = TRUE]
                                   ELSE Recorded
  /\ Go("worker", "leaving")
  /\ UNCHANGED <<setup, state, bridge, drain, autoLogin, login, lock, fg,
                held>>

\* The probe lock is given back, then _reprobe_inflight.
WorkerLeaves ==
  /\ At("worker", "leaving")
  /\ lock' = "none"
  /\ Go("worker", "idle")
  /\ UNCHANGED <<setup, state, err, bridge, drain, autoLogin, boot, login,
                gate, reprobe, fg, held>>

-----------------------------------------------------------------------------
(* The RPCs session.recover and session.attach.                            *)

BeginDrain(kind) ==
  /\ drain' = kind /\ state' = "RECOVERING" /\ err' = "other" /\ fg' = FALSE

Reattach ==
  /\ state' = "ATTACHING" /\ err' = "none"
  /\ reprobe' = Fresh
  /\ SpawnAttach(pc)

Recover ==
  /\ Call("recover") /\ At("manual", "idle")
  /\ drain = "none" /\ ~Released
  /\ IF ~Up THEN Reattach /\ UNCHANGED on
     ELSE /\ reprobe' = Fresh
          /\ \/ state = "ATTACHED" /\ GoOn("manual", "waiting")
             \/ state = "READY" /\ GoOn("manual", "key_c")
             \/ state \notin {"ATTACHED", "READY"} /\ UNCHANGED <<pc, on>>
          /\ UNCHANGED <<state, err>>
  /\ UNCHANGED <<setup, bridge, drain, autoLogin, boot, login, gate, lock,
                fg, held>>

\* --force on a session that is not READY: _force_recover runs to its end in
\* the section that read the state.
RecoverForced ==
  /\ Call("recover") /\ At("manual", "idle")
  /\ drain = "none" /\ ~Released /\ Up /\ state # "READY"
  /\ reprobe' = Fresh
  /\ BeginDrain("clear")
  /\ held' = TRUE
  /\ Go("manual", "awaiting")
  /\ UNCHANGED <<setup, bridge, autoLogin, boot, login, gate, lock>>

\* Ten looks at the state.
AwaitEnds ==
  /\ At("manual", "awaiting")
  /\ held' = FALSE
  /\ Go("manual", "idle")
  /\ UNCHANGED <<setup, state, err, bridge, drain, autoLogin, boot, login,
                gate, reprobe, lock, fg>>

AttachSession ==
  /\ Call("attach") /\ At("manual", "idle")
  /\ drain = "none" /\ ~Released
  /\ IF ~Up THEN Reattach /\ UNCHANGED on
     ELSE /\ state = "ATTACHED"
          /\ GoOn("manual", "waiting")
          /\ UNCHANGED <<state, err, reprobe>>
  /\ UNCHANGED <<setup, bridge, drain, autoLogin, boot, login, gate, lock,
                fg, held>>

ManualLocks ==
  /\ At("manual", "waiting") /\ lock = "none"
  /\ lock' = "manual"
  /\ Go("manual", "ready")
  /\ UNCHANGED <<setup, state, err, bridge, drain, autoLogin, boot, login,
                gate, reprobe, fg, held>>

ManualAnswered ==
  /\ pc["manual"] \in {"good", "bad", "lost", "raised"}
  /\ lock' = "none"
  /\ Go("manual", "idle")
  /\ UNCHANGED <<setup, state, err, bridge, drain, autoLogin, boot, login,
                gate, reprobe, fg, held>>

-----------------------------------------------------------------------------
(* Drains and the calls that begin them.                                   *)

\* clear_session
Clearing(p) ==
  IF Up
  THEN BeginDrain("clear") /\ pc' = p /\ UNCHANGED <<boot, reprobe>>
  ELSE /\ state' = "ATTACHING" /\ err' = "none"
       /\ boot' = [boot EXCEPT !.evidence = FALSE]
       /\ reprobe' = Fresh /\ fg' = FALSE /\ UNCHANGED drain
       /\ SpawnAttach(p)

Clear ==
  /\ Call("clear") /\ drain = "none" /\ ~Released
  /\ Clearing(pc)
  /\ UNCHANGED <<setup, bridge, autoLogin, login, gate, lock, held, on>>

BridgeDies ==
  /\ Call("io_error") /\ Up /\ drain = "none"
  /\ BeginDrain("io_error")
  /\ UNCHANGED <<setup, bridge, autoLogin, boot, login, gate, reprobe, lock,
                held, pc, on>>

\* Releases that meet an open attach are SessionLifecycle's.
Release ==
  /\ Call("release") /\ drain = "none" /\ ~Released /\ bridge # "open"
  /\ IF Up
     THEN BeginDrain("release") /\ UNCHANGED <<boot, reprobe>>
     ELSE /\ state' = "RELEASED" /\ err' = "other" /\ fg' = FALSE
          /\ boot' = [boot EXCEPT !.evidence = FALSE]
          /\ reprobe' = Fresh /\ UNCHANGED drain
  /\ UNCHANGED <<setup, bridge, autoLogin, login, gate, lock, held, pc, on>>

\* device.attach
Reclaim ==
  /\ state = "RELEASED" /\ drain = "none"
  /\ Reattach
  /\ UNCHANGED <<setup, bridge, drain, autoLogin, boot, login, gate, lock,
                fg, held, on>>

\* _complete_drain
DrainEnds ==
  /\ drain # "none"
  /\ drain' = "none" /\ bridge' = "none" /\ on' = [t \in Threads |-> FALSE]
  /\ reprobe' = Fresh
  /\ \/ /\ drain = "release"
        /\ state' = "RELEASED"
        /\ UNCHANGED <<err, pc>>
     \/ /\ drain = "io_error" /\ autoLogin
        /\ state' = "RECOVERING" /\ err' = "none"
        /\ UNCHANGED pc
     \/ /\ drain = "clear" \/ (drain = "io_error" /\ ~autoLogin)
        /\ state' = "ATTACHING" /\ err' = "none"
        /\ SpawnAttach(pc)
  /\ UNCHANGED <<setup, autoLogin, boot, login, gate, lock, fg, held>>

-----------------------------------------------------------------------------
(* _recover_after_failure: CTRL-C, then CTRL-D, for a command that timed   *)
(* out and for session.recover of a READY session.                         *)

Keys == {"command", "manual"}

\* _foreground_operation_current_locked; session.recover has no operation.
Current(t) == Live(t) /\ (t = "command" => fg)

\* The command's finally: it gives the foreground back if it is still its own.
Leave(t) ==
  /\ Go(t, "idle")
  /\ fg' = (fg /\ ~(t = "command" /\ Current(t)))

KeyAllowed(t) ==
  /\ pc[t] \in {"key_c", "key_d"}
  /\ IF ~Current(t) THEN Leave(t)
     ELSE /\ Go(t, IF Quiet(boot) THEN "give_up"
                   ELSE IF At(t, "key_c") THEN "permit_c" ELSE "permit_d")
          /\ UNCHANGED fg
  /\ UNCHANGED <<setup, state, err, bridge, drain, autoLogin, boot, login,
                gate, reprobe, lock, held>>

KeyWrites(t) ==
  /\ pc[t] \in {"permit_c", "permit_d"} /\ Live(t) /\ ~gate.quiet
  /\ Go(t, IF At(t, "permit_c") THEN "pressed_c" ELSE "pressed_d")
  /\ UNCHANGED <<setup, state, err, bridge, drain, autoLogin, boot, login,
                gate, reprobe, lock, fg, held>>

KeyRefused(t) ==
  /\ pc[t] \in {"permit_c", "permit_d"}
  /\ \/ Live(t) /\ gate.quiet /\ Go(t, "give_up") /\ UNCHANGED fg
     \/ ~Live(t) /\ Leave(t)
  /\ UNCHANGED <<setup, state, err, bridge, drain, autoLogin, boot, login,
                gate, reprobe, lock, held>>

KeyAnswered(t) ==
  /\ pc[t] \in {"pressed_c", "pressed_d"}
  /\ reprobe' = IF Current(t) THEN Fresh ELSE reprobe
  /\ Leave(t)
  /\ UNCHANGED <<setup, state, err, bridge, drain, autoLogin, boot, login,
                gate, lock, held>>

KeyUnanswered(t) ==
  /\ pc[t] \in {"pressed_c", "pressed_d"}
  /\ Go(t, IF At(t, "pressed_c") THEN "key_d" ELSE "give_up")
  /\ UNCHANGED <<setup, state, err, bridge, drain, autoLogin, boot, login,
                gate, reprobe, lock, fg, held>>

GiveUp(t) ==
  /\ At(t, "give_up")
  /\ IF Current(t) THEN Go(t, "demote") /\ UNCHANGED fg ELSE Leave(t)
  /\ UNCHANGED <<setup, state, err, bridge, drain, autoLogin, boot, login,
                gate, reprobe, lock, held>>

\* _transition_to_attached looks at the drain, and no longer at the bridge.
Demote(t) ==
  /\ At(t, "demote")
  /\ IF drain # "none" \/ state = "RELEASED" THEN UNCHANGED <<state, err, autoLogin>>
     ELSE state' = "ATTACHED" /\ err' = "prompt" /\ autoLogin' = FALSE
  /\ IF t = "manual" THEN Go(t, "fall_back") /\ UNCHANGED fg ELSE Leave(t)
  /\ UNCHANGED <<setup, bridge, drain, boot, login, gate, reprobe, lock,
                held>>

FallBack ==
  /\ At("manual", "fall_back")
  /\ Go("manual", IF Current("manual") THEN "force" ELSE "idle")
  /\ UNCHANGED <<setup, state, err, bridge, drain, autoLogin, boot, login,
                gate, reprobe, lock, fg, held>>

\* _force_recover clears the session, and waits.
ForceRecover ==
  /\ At("manual", "force")
  /\ LET p == [pc EXCEPT !["manual"] = "awaiting"]
     IN IF drain # "none" \/ Released
        THEN pc' = p /\ UNCHANGED <<state, err, drain, fg, boot, reprobe>>
        ELSE Clearing(p)
  /\ UNCHANGED <<setup, bridge, autoLogin, login, gate, lock, held, on>>

-----------------------------------------------------------------------------
(* Commands.  execute_command admits an agent's command only if nothing is *)
(* owed; a human's skips that gate.  _handle_reboot_command writes and     *)
(* arms the window under the bridge's write lock.                          *)

Admits(b) == ~b.failed /\ ~Gated(b)

Execute(c) ==
  /\ Call(c) /\ At("command", "idle") /\ ~fg
  /\ state = "READY" /\ Up
  /\ IF c = "human_reboot" THEN UNCHANGED <<boot, gate>> ELSE Expire(Expired(boot))
  /\ IF c # "human_reboot" /\ ~Admits(Expired(boot)) THEN UNCHANGED <<fg, pc, on>>
     ELSE fg' = TRUE /\ GoOn("command", c)
  /\ UNCHANGED <<setup, state, err, bridge, drain, autoLogin, login, reprobe,
                lock, held>>

\* Mutant: the permit carries no generation.
RunWritesAnyway ==
  /\ At("command", "run")
  /\ IF Live("command") THEN Go("command", "waiting") /\ UNCHANGED fg ELSE Leave("command")
  /\ UNCHANGED <<setup, state, err, bridge, drain, autoLogin, boot, login,
                gate, reprobe, lock, held>>

RunWrites ==
  /\ At("command", "run")
  /\ IF Live("command") /\ ~gate.tx
     THEN Go("command", "waiting") /\ UNCHANGED fg
     ELSE Leave("command")
  /\ UNCHANGED <<setup, state, err, bridge, drain, autoLogin, boot, login,
                gate, reprobe, lock, held>>

RunEnds ==
  /\ At("command", "waiting")
  /\ \/ Leave("command")
     \/ Go("command", "key_c") /\ UNCHANGED fg
  /\ UNCHANGED <<setup, state, err, bridge, drain, autoLogin, boot, login,
                gate, reprobe, lock, held>>

RebootPrepares ==
  /\ pc["command"] \in {"reboot", "human_reboot"}
  /\ IF Current("command")
     THEN /\ boot' = [boot EXCEPT !.evidence = FALSE]
          /\ Go("command", IF At("command", "reboot") THEN "permit" ELSE "human_permit")
          /\ UNCHANGED fg
     ELSE Leave("command") /\ UNCHANGED boot
  /\ UNCHANGED <<setup, state, err, bridge, drain, autoLogin, login, gate,
                reprobe, lock, held>>

\* A write that fails half way arms the window too.
RebootWrites ==
  /\ pc["command"] \in {"permit", "human_permit"}
  /\ Live("command") /\ (At("command", "permit") => ~gate.tx)
  /\ Arm(boot)
  /\ \/ /\ Go("command", IF At("command", "permit") THEN "rebooted" ELSE "human_rebooted")
        /\ UNCHANGED fg
     \/ Leave("command")
  /\ UNCHANGED <<setup, state, err, bridge, drain, autoLogin, reprobe, lock,
                held>>

RebootRefused ==
  /\ pc["command"] \in {"permit", "human_permit"}
  /\ ~Live("command") \/ (At("command", "permit") /\ gate.tx)
  /\ Leave("command")
  /\ UNCHANGED <<setup, state, err, bridge, drain, autoLogin, boot, login,
                gate, reprobe, lock, held>>

\* The shell answers before it goes down: that proves nothing.
RebootPrompt ==
  /\ pc["command"] \in {"rebooted", "human_rebooted"}
  /\ IF Current("command") THEN SetBoot([Cleared(boot) EXCEPT !.evidence = TRUE])
     ELSE UNCHANGED <<boot, gate>>
  /\ Leave("command")
  /\ UNCHANGED <<setup, state, err, bridge, drain, autoLogin, login, reprobe,
                lock, held>>

\* A human gets the lease of the console; a lease that is just closing is busy.
RebootSilent ==
  /\ pc["command"] \in {"rebooted", "human_rebooted"}
  /\ IF ~Current("command") THEN Leave("command") /\ UNCHANGED <<state, err, autoLogin>>
     ELSE /\ fg' = FALSE
          /\ \/ /\ At("command", "human_rebooted")
                /\ Go("command", "idle")
                /\ UNCHANGED <<state, err, autoLogin>>
             \/ /\ At("command", "human_rebooted")
                /\ state' = "ATTACHED" /\ err' = "other" /\ autoLogin' = FALSE
                /\ Go("command", "idle")
             \/ /\ At("command", "rebooted")
                /\ state' = "RECOVERING" /\ err' = "none" /\ autoLogin' = TRUE
                /\ \E l \in Loops : /\ At(l, "idle")
                                    /\ pc' = [pc EXCEPT !["command"] = "idle", ![l] = "loop"]
                /\ on' = [on EXCEPT !["command"] = FALSE]
  /\ UNCHANGED <<setup, bridge, drain, boot, login, gate, reprobe, lock,
                held>>

-----------------------------------------------------------------------------
(* self_test of a READY session.                                           *)

SelfTest ==
  /\ Call("selftest") /\ At("selftest", "idle")
  /\ state = "READY" /\ Up /\ ~Quiet(boot) /\ ~boot.evidence
  /\ GoOn("selftest", "permit")
  /\ UNCHANGED <<setup, state, err, bridge, drain, autoLogin, boot, login,
                gate, reprobe, lock, fg, held>>

SelfTestWrites ==
  /\ At("selftest", "permit")
  /\ Go("selftest", IF Live("selftest") /\ ~gate.quiet THEN "sent" ELSE "idle")
  /\ UNCHANGED <<setup, state, err, bridge, drain, autoLogin, boot, login,
                gate, reprobe, lock, fg, held>>

SelfTestAnswered ==
  /\ At("selftest", "sent")
  /\ \E nonce \in BOOLEAN : Go("selftest", IF nonce THEN "answered" ELSE "idle")
  /\ UNCHANGED <<setup, state, err, bridge, drain, autoLogin, boot, login,
                gate, reprobe, lock, fg, held>>

SelfTestConfirms ==
  /\ At("selftest", "answered")
  /\ SetBoot(Confirmed)
  /\ Go("selftest", "idle")
  /\ UNCHANGED <<setup, state, err, bridge, drain, autoLogin, login, reprobe,
                lock, fg, held>>

-----------------------------------------------------------------------------
(* _spawn_reboot_recovery                                                  *)

LoopProbes(l) ==
  /\ At(l, "loop") /\ drain = "none" /\ ~QuietBlocks(boot) /\ Up
  /\ BeginRun(l)
  /\ UNCHANGED <<setup, state, err, bridge, drain, autoLogin, boot, reprobe,
                lock, fg, held>>

LoopAttaches(l) ==
  /\ At(l, "loop") /\ drain = "none" /\ ~QuietBlocks(boot) /\ ~Up /\ ~Released
  /\ SpawnAttach(pc)
  /\ UNCHANGED <<setup, state, err, bridge, drain, autoLogin, boot, login,
                gate, reprobe, lock, fg, held, on>>

LoopAnswered(l) ==
  /\ pc[l] \in {"ok", "failed", "refused", "raised"}
  /\ IF At(l, "refused") \/ ~Live(l)
     THEN Go(l, "loop") /\ UNCHANGED <<state, err, autoLogin, boot, gate, reprobe>>
     ELSE \/ /\ At(l, "ok")
             /\ state' = "READY" /\ err' = "none" /\ autoLogin' = FALSE
             /\ SetBoot(Confirmed)
             /\ reprobe' = Fresh
             /\ Go(l, "idle")
          \/ /\ ~At(l, "ok")
             /\ err' \in {"prompt", "other"}
             /\ Go(l, "loop")
             /\ UNCHANGED <<state, autoLogin, boot, gate, reprobe>>
  /\ UNCHANGED <<setup, bridge, drain, login, lock, fg, held>>

\* Mutant: the login it was to do stays pending.
LoopEndsOwing(l) ==
  /\ At(l, "loop")
  /\ Go(l, "idle")
  /\ IF state = "RELEASED" THEN UNCHANGED <<state, err>>
     ELSE IF ~Up THEN state' = "DETACHED" /\ err' = "other"
     ELSE state' = "ATTACHED" /\ err' = IF err = "none" THEN "other" ELSE err
  /\ UNCHANGED <<setup, bridge, drain, autoLogin, boot, login, gate, reprobe,
                lock, fg, held>>

\* The loop's deadline: it is as long as a window, never longer than its cap.
LoopEnds(l) ==
  /\ At(l, "loop")
  /\ Go(l, "idle")
  /\ IF state = "RELEASED" THEN UNCHANGED <<state, err, autoLogin>>
     ELSE /\ autoLogin' = FALSE
          /\ IF ~Up THEN state' = "DETACHED" /\ err' = "other"
             ELSE state' = "ATTACHED" /\ err' = IF err = "none" THEN "other" ELSE err
  /\ UNCHANGED <<setup, bridge, drain, boot, login, gate, reprobe, lock, fg,
                held>>

-----------------------------------------------------------------------------
(* _spawn_attach and _attach_by_id                                         *)

\* The worker's finally starts another one for a session left ATTACHING.
AttachExit(s, up) ==
  Go("attach", IF ~up /\ s = "ATTACHING" /\ drain = "none" THEN "spawned" ELSE "idle")

AttachStops ==
  /\ At("attach", "spawned")
  /\ drain # "none" \/ Up \/ Released
  /\ AttachExit(state, Up)
  /\ UNCHANGED <<setup, state, err, bridge, drain, autoLogin, boot, login,
                gate, reprobe, lock, fg, held>>

AttachOpens ==
  /\ At("attach", "spawned") /\ drain = "none" /\ ~Up /\ ~Released
  /\ bridge' = "open" /\ gate' = NoGate
  /\ state' = "ATTACHING" /\ err' = "none"
  /\ GoOn("attach", "opened")
  /\ UNCHANGED <<setup, drain, autoLogin, boot, login, reprobe, lock, fg,
                held>>

\* start() or a write raises.
AttachFails ==
  /\ pc["attach"] \in {"opened", "raised"}
  /\ bridge' = "none" /\ state' = "DETACHED" /\ err' = "other"
  /\ AttachExit("DETACHED", FALSE)
  /\ UNCHANGED <<setup, drain, autoLogin, boot, login, gate, reprobe, lock,
                fg, held>>

AttachProbes ==
  /\ At("attach", "opened")
  /\ IF QuietBlocks(boot) THEN Go("attach", "failed") /\ UNCHANGED <<login, gate>>
     ELSE BeginRun("attach")
  /\ UNCHANGED <<setup, state, err, bridge, drain, autoLogin, boot, reprobe,
                lock, fg, held>>

AttachLoggedOut ==
  /\ At("attach", "logged_out")
  /\ bridge' = "none" /\ state' = "DETACHED" /\ err' \in {"prompt", "other"}
  /\ AttachExit("DETACHED", FALSE)
  /\ UNCHANGED <<setup, drain, autoLogin, boot, login, gate, reprobe, lock,
                fg, held>>

Publish ==
  /\ pc["attach"] \in {"ok", "failed", "refused"}
  /\ IF state = "DETACHED"
     THEN /\ bridge' = "none" /\ err' = "other"
          /\ AttachExit("DETACHED", FALSE)
          /\ UNCHANGED <<state, autoLogin, boot, gate, reprobe>>
     ELSE /\ bridge' = "up"
          /\ Go("attach", "idle")
          /\ \/ /\ At("attach", "ok")
                /\ state' = "READY" /\ err' = "none" /\ autoLogin' = FALSE
                /\ SetBoot(Confirmed)
                /\ reprobe' = Fresh
             \/ /\ ~At("attach", "ok")
                /\ state' = "ATTACHED" /\ err' \in {"prompt", "other"}
                /\ SetBoot(Expired(boot))
                /\ UNCHANGED <<autoLogin, reprobe>>
  /\ UNCHANGED <<setup, drain, login, lock, fg, held>>

-----------------------------------------------------------------------------
(* What takes no _lock goes on while session.recover --force holds it.     *)

Unlocked ==
  \/ QuietEnds \/ DeadlinePasses \/ EvidenceEnds \/ BackoffEnds
  \/ \E t \in Probers : ProbeWrites(t) \/ ProbeRefused(t) \/ ProbeRaises(t) \/ ProbeAnswers(t)
  \/ \E t \in Keys : KeyWrites(t)
  \/ RunWrites \/ RebootWrites \/ SelfTestWrites \/ SelfTestAnswered
  \/ ManualLocks \/ ManualAnswered
  \/ AwaitEnds

Received == RxBanner \/ RxPrompt
Ticked == TickExpires \/ TickExhausts \/ TickProbes \/ TickAttaches
Worker == WorkerYields \/ WorkerStarts \/ WorkerRaised \/ WorkerFinishes \/ WorkerLeaves
Called == Recover \/ RecoverForced \/ AttachSession \/ Clear \/ Release \/ Reclaim
Pressing(t) == KeyAllowed(t) \/ KeyRefused(t) \/ KeyAnswered(t) \/ KeyUnanswered(t)
               \/ GiveUp(t) \/ Demote(t)
Command ==
  \/ \E c \in {"run", "reboot", "human_reboot"} : Execute(c)
  \/ RunEnds \/ RebootPrepares \/ RebootRefused \/ RebootPrompt \/ RebootSilent
Loop(l) == LoopProbes(l) \/ LoopAttaches(l) \/ LoopAnswered(l) \/ LoopEnds(l)
Attaching == AttachStops \/ AttachOpens \/ AttachFails \/ AttachProbes \/ AttachLoggedOut
             \/ Publish

Sections ==
  \/ Received \/ Ticked \/ Worker \/ Called
  \/ \E t \in {"worker", "manual"} : ProbeStart(t) \/ ProbeEnds(t)
  \/ BridgeDies
  \/ \E t \in Keys : Pressing(t)
  \/ FallBack \/ ForceRecover
  \/ Command
  \/ SelfTest \/ SelfTestConfirms
  \/ \E l \in Loops : Loop(l)
  \/ Attaching

\* Draining is what session.recover --force does itself.
Next == Unlocked \/ DrainEnds \/ (~held /\ Sections)

\* Deadlines come, the watcher ticks, a drain's thread completes it, and
\* session.recover --force waits for ten looks only.
Fairness ==
  /\ WF_vars(DeadlinePasses) /\ WF_vars(~held /\ TickExpires)
  /\ WF_vars(AwaitEnds) /\ WF_vars(DrainEnds)

Spec == Init /\ [][Next]_vars
FairSpec == Spec /\ Fairness

-----------------------------------------------------------------------------
(* Properties                                                              *)

Places ==
  {"idle", "spawned", "waiting", "ready", "begun", "sent", "again", "refused", "raised", "ok",
   "failed", "logged_out", "good", "bad", "lost", "leaving", "opened", "key_c", "key_d",
   "permit_c", "permit_d", "pressed_c", "pressed_d", "give_up", "demote", "fall_back",
   "force", "awaiting", "run", "reboot", "human_reboot", "permit", "human_permit",
   "rebooted", "human_rebooted", "answered", "loop"}

\* The types of what the sections share.  Attempts are counted up to their
\* maximum and no further: who finds the maximum reached stops, and a probe
\* that is on its way when it is reached does not count again.
TypeOK ==
  /\ setup \in Setups
  /\ state \in {"DETACHED", "ATTACHING", "ATTACHED", "READY", "RECOVERING", "RELEASED"}
  /\ err \in {"none", "prompt", "other"}
  /\ bridge \in {"none", "open", "up"}
  /\ drain \in {"none", "clear", "io_error", "release"}
  /\ autoLogin \in BOOLEAN /\ fg \in BOOLEAN /\ held \in BOOLEAN
  /\ boot \in [quiet : {"off", "on", "over"}, pending : BOOLEAN, late : BOOLEAN,
               attempts : 0..ReconfirmMax, failed : BOOLEAN, evidence : BOOLEAN]
  /\ login \in Probers \cup {"none"}
  /\ gate \in [quiet : BOOLEAN, tx : BOOLEAN, login : Probers \cup {"none"}]
  /\ reprobe \in [attempts : 0..ReprobeMax, exhausted : BOOLEAN, due : BOOLEAN]
  /\ lock \in {"none", "worker", "manual"}
  /\ pc \in [Threads -> Places] /\ on \in [Threads -> BOOLEAN]

\* What the bridge knows is what the session knows: the fence closes with the
\* window and with the confirmation, in the same step, and knows the newest
\* login run.  A confirmation that was given up leaves the fence as it was.
GateAgrees ==
  Up => /\ gate.quiet = Quiet(boot) /\ gate.login = login
        /\ Gated(boot) => gate.tx
        /\ gate.tx => Gated(boot) \/ boot.failed

ProbeWrote(t) == pc[t] \in {"begun", "sent"} /\ pc'[t] \in {"sent", "again"} /\ pc'[t] # pc[t]
KeyPressed(t) == pc[t] \in {"permit_c", "permit_d"} /\ pc'[t] \in {"pressed_c", "pressed_d"}
SelfTested == At("selftest", "permit") /\ pc'["selftest"] = "sent"

\* In a quiet window the daemon writes nothing of its own: no byte of a probe,
\* no key, no nonce, though each was decided on before the window opened.  A
\* console that has to be unlocked is probed by its own rules.
QuietSilence ==
  [][ /\ (\E t \in Probers : ProbeWrote(t)) => Unlock \/ ~Quiet(boot)
      /\ (\E t \in Keys : KeyPressed(t)) \/ SelfTested => ~Quiet(boot) ]_vars

\* A login probe that a newer one has replaced writes no further byte; nor does
\* one that began before a reboot was seen, unless the console has to be
\* unlocked: for such a profile a reboot makes no new login generation
\* (arm_boot_quiet).
NewestRunWrites == [][\A t \in Probers : ProbeWrote(t) => login = t]_vars

AgentWrote ==
  \/ At("command", "run") /\ pc'["command"] = "waiting"
  \/ At("command", "permit") /\ pc'["command"] = "rebooted"

\* An agent's command that was admitted before a reboot was seen, and is
\* written after, does not reach the board in the window, nor while the board
\* owes a confirmation.  The daemon may give the confirmation up (the deadline,
\* the attempts, a board stuck at its boot loader: expire_ready_reconfirm, which
\* lowers the fence too): then the command is written to a board that was not
\* confirmed, though a new one would still be refused until the state changes.
AgentHeldBack == [][AgentWrote => ~Gated(boot)]_vars

\* A board is called READY only over a bridge: what a probe learned over a
\* bridge that is gone makes nothing ready.
ReadyHasBridge == state = "READY" => Up

Recovering(l) == pc[l] # "idle"

\* A session in RECOVERING has somebody who will take it out: a drain that
\* completes, or a recovery loop.
RecoveringIsOwned ==
  state = "RECOVERING" => drain # "none" \/ \E l \in Loops : Recovering(l)

\* A confirmation that is owed does not stay owed on a READY session: banners
\* that keep coming do not put its deadline off.
PendingBounded == boot.pending ~> ~boot.pending \/ state # "READY"
=============================================================================
