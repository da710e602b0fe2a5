------------------------------ MODULE Consoles ------------------------------
(***************************************************************************)
(* Human consoles and agents sharing the line of one READY session         *)
(* (sw_core/uart_io.py and sw_core/session_manager.py).                    *)
(*                                                                         *)
(* Raw ownership of the line is kept twice: the bridge's interactive owner *)
(* says whose keys go straight to the UART, the manager's lease says who   *)
(* was promised it.  An agent's command blocks raw admission and suspends  *)
(* the human owner, an agent's interactive lease preempts an idle human    *)
(* and stashes the human's lease; meanwhile the keys go to a deferred      *)
(* buffer that is replayed when the agent is done.  Both layers are        *)
(* changed under their own locks and the replays run outside both.         *)
(*                                                                         *)
(* Threads: the bridge's reader, the arbiter's worker ("cmd"), the RPC     *)
(* event loop ("loop": interactive.* and console.detach), its executor     *)
(* ("exec": console.attach) and the readiness tick ("tick").               *)
(*                                                                         *)
(* The consoles are PTYs and their number is bounded; every client id is   *)
(* used once.  The bridge stays up: drains, flashing and the ATTACHED      *)
(* recovery branch are not part of this module, and the commit point of a  *)
(* write, with its own permit check, is module UartTx.                     *)
(***************************************************************************)
EXTENDS Naturals, FiniteSets, SequencesExt

CONSTANTS
  Client,    \* ids of the consoles that may attach
  Agent,     \* the owner name of an agent's interactive lease
  None,      \* no owner, no client, no lease
  MaxInput,  \* bound: chunks typed on the consoles
  BufMax,    \* DEFERRED_INPUT_MAX_BYTES, in chunks
  Loads      \* the budgets a behaviour may start with

Budget == {"attach", "cmd", "open", "send", "close", "detach", "input",
           "invalidate", "peer"}

ASSUME ClientAssumption == Agent \notin Client /\ None \notin Client /\ Agent # None
ASSUME BoundAssumption ==
  /\ MaxInput \in Nat /\ BufMax \in Nat
  /\ Loads \subseteq [Budget -> Nat] /\ \A l \in Loads : l["input"] <= MaxInput

VARIABLES
  br,      \* the bridge: clients, ownership, suspension, deferred buffers
  lease,   \* the session's current interactive lease, or None
  stash,   \* _stashed_human_lease, or None
  op,      \* a foreground operation's token is held
  post,    \* the session is in _interactive_post_close
  active,  \* the human typed within HUMAN_ACTIVE_WINDOW_S
  peer,    \* clients whose PTY slave some process holds
  unused,  \* ids no console has had yet
  young,   \* clients attached less than _STALE_CONSOLE_GRACE_S ago
  rd,      \* the reader: pc, client, chunk, captured owner_gen
  th,      \* the other threads: pc, replay in hand, what follows
  left,    \* what the environment may still do
  typed,   \* chunks typed so far
  took,    \* the owner_gen the reader had captured when it took a chunk
  count,   \* how often each chunk reached the UART
  sent     \* interactive sends that reached the UART

mgrVars == <<lease, stash, op, post>>
envVars == <<active, peer, unused, young, left>>
ghostVars == <<typed, took, count, sent>>
vars == <<br, mgrVars, envVars, rd, th, ghostVars>>

Chunk == 1..MaxInput
Thread == {"cmd", "loop", "exec", "tick"}

----------------------------------------------------------------------------
(* The bridge's operations, each one section of its state lock.            *)

\* A deferred buffer: chunks and the owner_gen they were captured under.
EmptyBuf == [gen |-> 0, q |-> <<>>]

\* Mutant: the entry takes the current generation, not the captured one.
AppendDeferredNow(b, c, n, gen) ==
  [b EXCEPT !.buf[c] = IF Len(b.buf[c].q) = BufMax THEN EmptyBuf
                       ELSE [gen |-> b.gen, q |-> Append(b.buf[c].q, n)]]

\* _append_deferred_locked: an entry of another generation is replaced, and
\* an entry that overflows is lost whole.
AppendDeferred(b, c, n, gen) ==
  LET old == IF b.buf[c].gen = gen THEN b.buf[c].q ELSE <<>>
      new == Append(old, n)
  IN  [b EXCEPT !.buf[c] = IF Len(new) > BufMax THEN EmptyBuf
                                                ELSE [gen |-> gen, q |-> new]]

\* _invalidate_deferred_locked: a new generation, and no deferred input.
Invalidate(b) ==
  [b EXCEPT !.gen = @ + 1, !.buf = [c \in Client |-> EmptyBuf]]

\* A client leaves the table; the oldest one left becomes the primary.
Unregister(b, c) ==
  LET rest == SelectSeq(b.clients, LAMBDA d : d # c)
  IN  [b EXCEPT !.clients = rest,
                !.primary = IF @ # c THEN @ ELSE IF rest = <<>> THEN None ELSE Head(rest),
                !.buf[c] = EmptyBuf]

Disown(o, c) == IF o = c THEN None ELSE o

\* detach_console: a suspended client that detaches takes the whole
\* suspension with it.
Detach(b, c) ==
  LET d == [Unregister(b, c) EXCEPT !.owner = Disown(@, c), !.pending = Disown(@, c)]
  IN  IF c \notin ToSet(b.clients) THEN b
      ELSE IF b.susp = c
           THEN [d EXCEPT !.susp = None, !.agent = FALSE, !.depth = 0]
           ELSE d

\* _prune_stale_consoles_locked, for the clients S: the pending and the
\* suspended owner are left as they are.
Prune(b, S) ==
  LET keep == SelectSeq(b.clients, LAMBDA d : d \notin S)
  IN  [b EXCEPT !.clients = keep,
                !.owner = IF @ \in S THEN None ELSE @,
                !.buf = [c \in Client |-> IF c \in S THEN EmptyBuf ELSE @[c]]]

\* The non-primary clients past their grace that no process holds.
Stale(b) == ToSet(b.clients) \ (peer \cup young \cup {b.primary})

\* attach_console of the bridge.
Register(b, c) ==
  LET p == Prune(b, Stale(b))
  IN  [p EXCEPT !.clients = Append(@, c), !.primary = IF @ = None THEN c ELSE @]

\* set_interactive_owner: while admission is blocked a human owner waits.
SetOwner(b, o) ==
  IF o \in Client /\ b.blocked THEN [b EXCEPT !.pending = o]
  ELSE [b EXCEPT !.owner = o, !.pending = IF o = None THEN None ELSE @]

\* _promote_pending_interactive_owner_locked
Promote(b) ==
  IF b.blocked \/ b.owner # None \/ b.depth > 0 \/ b.susp # None \/ b.pending = None
  THEN b
  ELSE [b EXCEPT !.pending = None,
                 !.owner = IF b.pending \in {Agent} \cup ToSet(b.clients)
                           THEN b.pending ELSE @]

\* suspend_interactive: the outermost suspension saves the owner.
Suspend(b) ==
  IF b.depth = 0
  THEN [b EXCEPT !.susp = b.owner, !.owner = None, !.agent = TRUE, !.depth = 1]
  ELSE [b EXCEPT !.depth = @ + 1]

\* The deferred input of the live clients and of this generation, taken out
\* of the buffers: what a replay sends.
Taken(b) ==
  {[c |-> c, gen |-> b.buf[c].gen, q |-> b.buf[c].q] :
     c \in {d \in Client : /\ d \in ToSet(b.clients)
                         /\ b.buf[d].q # <<>> /\ b.buf[d].gen = b.gen}}

\* Mutant: a replay leaves the buffers as they are.
KeptBufs(b) == b

\* The buffers after a replay took them.
NoBufs(b) == [b EXCEPT !.buf = [c \in Client |-> EmptyBuf]]

\* Mutant: the agent flag is not reset.
ResumedKeepsAgent(b) ==
  IF b.depth = 0 THEN b
  ELSE IF b.depth > 1 THEN [b EXCEPT !.depth = @ - 1]
  ELSE NoBufs(Promote([b EXCEPT !.depth = 0, !.owner = b.susp, !.susp = None]))

\* resume_interactive, up to the replay: the outermost resume restores the
\* owner and takes the deferred input; an unpaired one does nothing.
Resumed(b) ==
  IF b.depth = 0 THEN b
  ELSE IF b.depth > 1 THEN [b EXCEPT !.depth = @ - 1]
  ELSE NoBufs(Promote([b EXCEPT !.depth = 0, !.owner = b.susp, !.agent = FALSE,
                                !.susp = None]))
ResumeTakes(b) == IF b.depth = 1 THEN Taken(b) ELSE {}

\* _set_interactive_admission(True), up to the replay.
Admitted(b) ==
  LET p == Promote([b EXCEPT !.blocked = FALSE])
  IN  IF p.depth = 0 /\ p.susp = None THEN NoBufs(p) ELSE p
AdmitTakes(b) ==
  LET p == Promote([b EXCEPT !.blocked = FALSE])
  IN  IF p.depth = 0 /\ p.susp = None THEN Taken(p) ELSE {}

\* try_grant_interactive_if_idle
Idle(b) ==
  /\ b.owner = None /\ ~b.blocked /\ b.pending = None
  /\ b.susp = None /\ ~b.agent

\* console_has_external_peer
HasPeer(b, c) == c \in ToSet(b.clients) /\ c \in peer

----------------------------------------------------------------------------
(* The manager's lease operations.  Each yields the bridge, the lease and  *)
(* the stash it leaves, and the post-close action: whether the caller must *)
(* resume the bridge outside the lock and clear its owner afterwards.      *)

NoLease == [owner |-> None, susp |-> FALSE, old |-> FALSE, lost |-> FALSE]

NewLease(o, s) == [owner |-> o, susp |-> s, old |-> FALSE, lost |-> FALSE]

\* Mutant: the bridge is resumed only when the human's lease is given back.
CloseForgets(b, l, s, fresh) ==
  LET back == l.susp /\ s # NoLease /\ fresh /\ HasPeer(b, s.owner)
  IN  [b |-> SetOwner(b, IF back THEN s.owner ELSE None),
       l |-> IF back THEN s ELSE NoLease,
       s |-> IF l.susp THEN NoLease ELSE s,
       resume |-> back, clear |-> FALSE]

\* _close_interactive_locked of the current lease l.  A lease that had
\* suspended a human gives the stashed lease back when it is still fresh
\* and its console is there.
Close(b, l, s, fresh) ==
  LET back == l.susp /\ s # NoLease /\ fresh /\ HasPeer(b, s.owner)
  IN  [b |-> SetOwner(b, IF back THEN s.owner ELSE None),
       l |-> IF back THEN s ELSE NoLease,
       s |-> IF l.susp THEN NoLease ELSE s,
       resume |-> l.susp,
       clear |-> l.susp /\ ~back]

Kept(b, l, s) == [b |-> b, l |-> l, s |-> s, resume |-> FALSE, clear |-> FALSE]

\* _refresh_interactive_locked: an expired agent lease is closed; a human
\* lease survives the loss of its console for a grace period, and is closed
\* when the bridge has another owner.
Refresh(b, l, s, fresh, late) ==
  CASE l = NoLease -> Kept(b, l, s)
    [] l.owner = Agent -> IF l.old THEN Close(b, l, s, fresh) ELSE Kept(b, l, s)
    [] l.owner \in Client /\ ~HasPeer(b, l.owner) ->
         IF l.lost /\ late THEN Close(Detach(b, l.owner), l, s, fresh)
         ELSE Kept(b, [l EXCEPT !.lost = TRUE], s)
    [] OTHER ->
         IF b.owner # l.owner THEN Close(b, l, s, fresh)
         ELSE Kept(b, [l EXCEPT !.lost = FALSE], s)

----------------------------------------------------------------------------
(* Threads.                                                                *)

AtRest == [pc |-> "idle", flush |-> {}, clear |-> FALSE, next |-> "idle",
           susp |-> FALSE, want |-> None, held |-> {}]

\* Leaving the lock with the post-close action of r and then going on to pc.
Leave(r, pc) ==
  IF r.resume THEN [AtRest EXCEPT !.pc = "resume", !.clear = r.clear, !.next = pc]
  ELSE [AtRest EXCEPT !.pc = pc]

Spend(what) == left[what] > 0 /\ left' = [left EXCEPT ![what] = @ - 1]

Written(q) == [n \in Chunk |-> IF n \in ToSet(q) THEN count[n] + 1 ELSE count[n]]

\* _interactive_tick_action_is_current: only the tick guards its post-close
\* action, and only by the lease it left in place.
TickGuard(t) ==
  /\ th[t].pc \in {"guard", "guard2"}
  /\ th' = [th EXCEPT ![t].pc = IF lease.owner # th[t].want THEN "popped"
                                ELSE IF th[t].pc = "guard" THEN "resume" ELSE "clear"]
  /\ UNCHANGED <<br, mgrVars, envVars, rd, ghostVars>>

\* _PostCloseAction.execute and execute_command's own resume: the state
\* section of resume_interactive.
Resume(t) ==
  /\ th[t].pc = "resume"
  /\ br' = Resumed(br)
  /\ th' = [th EXCEPT ![t].pc = "flush", ![t].flush = ResumeTakes(br)]
  /\ UNCHANGED <<mgrVars, envVars, rd, ghostVars>>

\* One deferred entry of a replay goes out, unless its generation is over.
Flush(t) ==
  /\ th[t].pc = "flush"
  /\ \E e \in th[t].flush :
       /\ count' = IF e.gen = br.gen THEN Written(e.q) ELSE count
       /\ th' = [th EXCEPT ![t].flush = @ \ {e}]
  /\ UNCHANGED <<br, mgrVars, envVars, rd, typed, took, sent>>

\* The replay is over.
Flushed(t) ==
  /\ th[t].pc = "flush"
  /\ th[t].flush = {}
  /\ th' = [th EXCEPT ![t].pc = IF ~th[t].clear THEN th[t].next
                                ELSE IF t = "tick" THEN "guard2" ELSE "clear"]
  /\ UNCHANGED <<br, mgrVars, envVars, rd, ghostVars>>

\* clear_owner_after_resume
ClearOwner(t) ==
  /\ th[t].pc = "clear"
  /\ br' = SetOwner(br, None)
  /\ th' = [th EXCEPT ![t].pc = th[t].next, ![t].clear = FALSE]
  /\ UNCHANGED <<mgrVars, envVars, rd, ghostVars>>

PostClose(t) == TickGuard(t) \/ Resume(t) \/ Flush(t) \/ Flushed(t) \/ ClearOwner(t)

----------------------------------------------------------------------------
(* The reader: _loop and _handle_console_rx.                               *)

\* The top of _loop: the generation is captured before select.
ReaderTop ==
  /\ rd.pc = "sel"
  /\ rd.gen # br.gen
  /\ rd' = [rd EXCEPT !.gen = br.gen]
  /\ UNCHANGED <<br, mgrVars, envVars, th, ghostVars>>

\* A chunk typed on c is read.
Read(c) ==
  /\ rd.pc = "sel"
  /\ c \in ToSet(br.clients) \cap peer
  /\ Spend("input")
  /\ typed' = typed + 1
  /\ took' = [took EXCEPT ![typed + 1] = rd.gen]
  /\ rd' = [rd EXCEPT !.pc = "read", !.c = c]
  /\ UNCHANGED <<br, mgrVars, active, peer, unused, young, th, count, sent>>

Done == rd' = [rd EXCEPT !.pc = "sel", !.c = None]
Fresh == rd.gen = br.gen

\* Where the snapshot of the bridge sends the chunk when its client does not
\* own the line: a suspended owner's is deferred, any other goes to the line
\* editor, and its lines to the arbiter, which is the end of it here.
Route == IF br.agent /\ br.susp = rd.c THEN rd' = [rd EXCEPT !.pc = "defer"] ELSE Done

\* The first section: the owner and the suspension are snapshotted.
CheckOwner ==
  /\ rd.pc = "read"
  /\ IF ~Fresh THEN Done
     ELSE IF br.owner = rd.c THEN rd' = [rd EXCEPT !.pc = "owned"]
     ELSE Route
  /\ UNCHANGED <<br, mgrVars, envVars, th, ghostVars>>

\* The second section: the owner is checked again together with admission.
Recheck ==
  /\ rd.pc = "owned"
  /\ \/ ~Fresh /\ Done /\ UNCHANGED <<br, active>>
     \/ /\ Fresh /\ br.owner = rd.c /\ ~br.blocked
        /\ active' = TRUE
        /\ rd' = [rd EXCEPT !.pc = "raw"]
        /\ UNCHANGED br
     \/ /\ Fresh /\ br.owner = rd.c /\ br.blocked
        /\ br' = AppendDeferred(br, rd.c, typed, rd.gen)
        /\ Done /\ UNCHANGED active
     \/ /\ Fresh /\ br.owner # rd.c
        /\ Route
        /\ UNCHANGED <<br, active>>
  /\ UNCHANGED <<mgrVars, peer, unused, young, th, left, ghostVars>>

\* Mutant: admission is not checked a third time.
SendRawUnchecked ==
  /\ rd.pc = "raw"
  /\ count' = (IF Fresh THEN Written(<<typed>>) ELSE count)
  /\ Done
  /\ UNCHANGED <<br, mgrVars, envVars, th, typed, took, sent>>

\* _send_bytes_locked for a raw chunk: admission is checked a third time.
SendRaw ==
  /\ rd.pc = "raw"
  /\ IF br.blocked
     THEN br' = AppendDeferred(br, rd.c, typed, rd.gen) /\ UNCHANGED count
     ELSE count' = (IF Fresh THEN Written(<<typed>>) ELSE count) /\ UNCHANGED br
  /\ Done
  /\ UNCHANGED <<mgrVars, envVars, th, typed, took, sent>>

\* The chunk of a suspended owner is deferred.
Defer ==
  /\ rd.pc = "defer"
  /\ br' = IF Fresh THEN AppendDeferred(br, rd.c, typed, rd.gen) ELSE br
  /\ Done
  /\ UNCHANGED <<mgrVars, envVars, th, ghostVars>>

Reader == CheckOwner \/ Recheck \/ SendRaw \/ Defer

----------------------------------------------------------------------------
(* execute_command, in line mode.                                          *)

\* _begin_foreground_operation_locked: raw admission is blocked before the
\* token is published.
BeginOperation(b, busy) ==
  /\ br' = IF busy THEN b ELSE [b EXCEPT !.blocked = TRUE]
  /\ op' = ~busy

\* Admission: a human lease yields to an agent's command, any other lease
\* makes it busy.
BeginCommand(human, fresh, late) ==
  /\ th["cmd"].pc = "idle"
  /\ Spend("cmd")
  /\ LET r == Refresh(br, lease, stash, fresh, late)
         busy == r.l # NoLease /\ (human \/ r.l.owner = Agent)
     IN  /\ lease' = r.l /\ stash' = r.s
         /\ BeginOperation(r.b, busy)
         /\ th' = [th EXCEPT !["cmd"] =
                     [Leave(r, IF busy THEN "idle" ELSE IF r.l # NoLease THEN "suspend" ELSE "run")
                      EXCEPT !.susp = ~busy /\ r.l # NoLease]]
  /\ UNCHANGED <<post, active, peer, unused, young, rd, ghostVars>>

SuspendHuman ==
  /\ th["cmd"].pc = "suspend"
  /\ br' = Suspend(br)
  /\ th' = [th EXCEPT !["cmd"].pc = "run"]
  /\ UNCHANGED <<mgrVars, envVars, rd, ghostVars>>

\* The command ends, however it ends; a suspended human is resumed.
EndCommand ==
  /\ th["cmd"].pc = "run"
  /\ th' = [th EXCEPT !["cmd"].pc = IF th["cmd"].susp THEN "resume" ELSE "finish",
                      !["cmd"].next = "finish"]
  /\ UNCHANGED <<br, mgrVars, envVars, rd, ghostVars>>

\* _finish_foreground_operation: admission opens and the deferred input is
\* taken under the lock, replayed outside it, and then the token is given up.
FinishOperation ==
  /\ th["cmd"].pc = "finish"
  /\ br' = Admitted(br)
  /\ th' = [th EXCEPT !["cmd"].pc = "flush", !["cmd"].flush = AdmitTakes(br),
                      !["cmd"].next = "release"]
  /\ UNCHANGED <<mgrVars, envVars, rd, ghostVars>>

ReleaseToken ==
  /\ th["cmd"].pc = "release"
  /\ op' = FALSE
  /\ th' = [th EXCEPT !["cmd"] = AtRest]
  /\ UNCHANGED <<br, lease, stash, post, envVars, rd, ghostVars>>

Command == SuspendHuman \/ EndCommand \/ FinishOperation \/ ReleaseToken

----------------------------------------------------------------------------
(* The RPC loop: interactive_open, _send, _close and console detach.       *)

\* interactive_open.  An idle human's lease is stashed and the human
\* suspended; an expired lease whose close needs a resume is retried.
OpenLease(fresh, late) ==
  /\ \/ th["loop"].pc = "idle" /\ Spend("open")
     \/ th["loop"].pc = "open" /\ UNCHANGED left
  /\ IF op \/ post
     THEN /\ th' = [th EXCEPT !["loop"] = AtRest]
          /\ UNCHANGED <<br, lease, stash>>
     ELSE LET r == Refresh(br, lease, stash, fresh, late)
              preempt == r.l.owner \in Client /\ ~active
          IN  IF r.resume
              THEN /\ br' = r.b /\ lease' = r.l /\ stash' = r.s
                   /\ th' = [th EXCEPT !["loop"] = Leave(r, "open")]
              ELSE /\ th' = [th EXCEPT !["loop"] = AtRest]
                   /\ IF r.l = NoLease
                      THEN /\ lease' = NewLease(Agent, FALSE)
                           /\ br' = SetOwner(r.b, Agent)
                           /\ stash' = r.s
                      ELSE IF preempt
                      THEN /\ lease' = NewLease(Agent, TRUE)
                           /\ stash' = r.l
                           /\ br' = SetOwner(Suspend(r.b), Agent)
                      ELSE br' = r.b /\ lease' = r.l /\ stash' = r.s
  /\ UNCHANGED <<op, post, active, peer, unused, young, rd, ghostVars>>

\* interactive_send: the lease is checked under the lock, the bytes go out
\* after it under a permit that names the lease.
BeginSend(fresh) ==
  /\ th["loop"].pc = "idle"
  /\ lease.owner = Agent
  /\ Spend("send")
  /\ IF lease.old
     THEN LET r == Close(br, lease, stash, fresh)
          IN  /\ br' = r.b /\ lease' = r.l /\ stash' = r.s
              /\ th' = [th EXCEPT !["loop"] = Leave(r, "idle")]
     ELSE /\ th' = [th EXCEPT !["loop"].pc = IF op THEN "idle" ELSE "send",
                              !["loop"].want = br.gen]
          /\ UNCHANGED <<br, lease, stash>>
  /\ UNCHANGED <<op, post, active, peer, unused, young, rd, ghostVars>>

\* The permit is good while its lease is the session's and no invalidation
\* came between.
Send ==
  /\ th["loop"].pc = "send"
  /\ sent' = IF lease.owner = Agent /\ th["loop"].want = br.gen THEN sent + 1 ELSE sent
  /\ th' = [th EXCEPT !["loop"] = AtRest]
  /\ UNCHANGED <<br, mgrVars, envVars, rd, typed, took, count>>

\* interactive_close, of an agent's or of a human's lease.
CloseLease(fresh) ==
  /\ th["loop"].pc = "idle"
  /\ lease # NoLease
  /\ IF lease.owner = Agent THEN UNCHANGED left ELSE Spend("close")
  /\ LET r == Close(br, lease, stash, fresh)
     IN  /\ br' = r.b /\ lease' = r.l /\ stash' = r.s
         /\ th' = [th EXCEPT !["loop"] = Leave(r, "idle")]
  /\ UNCHANGED <<op, post, active, peer, unused, young, rd, ghostVars>>

\* detach_console of the manager.
DetachConsole(c, fresh, late) ==
  /\ th["loop"].pc = "idle"
  /\ Spend("detach")
  /\ c \in ToSet(br.clients)
  /\ LET r == Refresh(br, lease, stash, fresh, late)
         d == Detach(r.b, c)
         own == r.l.owner = c
     IN  /\ br' = IF own THEN SetOwner(d, None) ELSE d
         /\ lease' = IF own THEN NoLease ELSE r.l
         /\ stash' = r.s
         /\ th' = [th EXCEPT !["loop"] = Leave(r, "idle")]
  /\ UNCHANGED <<op, post, active, peer, unused, young, rd, ghostVars>>

----------------------------------------------------------------------------
(* The executor: console attach.                                           *)

AttachConsole(c, fresh, late) ==
  /\ th["exec"].pc = "idle"
  /\ Spend("attach")
  /\ c \in unused
  /\ ~post
  /\ LET r == Refresh(Register(br, c), lease, stash, fresh, late)
     IN  /\ br' = IF r.l = NoLease THEN SetOwner(r.b, c) ELSE r.b
         /\ lease' = IF r.l = NoLease THEN NewLease(c, FALSE) ELSE r.l
         /\ stash' = r.s
         /\ th' = [th EXCEPT !["exec"] = Leave(r, "idle")]
  /\ unused' = unused \ {c}
  /\ young' = young \cup {c}
  /\ UNCHANGED <<op, post, active, peer, rd, ghostVars>>

----------------------------------------------------------------------------
(* The readiness tick.                                                     *)

\* _expire_interactive_leases_tick: while its post-close action is pending
\* no lease is opened and no console attached.
ExpireLease(fresh) ==
  /\ th["tick"].pc = "idle"
  /\ lease.owner = Agent /\ lease.old
  /\ LET r == Close(br, lease, stash, fresh)
     IN  /\ br' = r.b /\ lease' = r.l /\ stash' = r.s
         /\ post' = r.resume
         /\ th' = [th EXCEPT !["tick"] =
                     IF r.resume
                     THEN [Leave(r, "popped") EXCEPT !.pc = "guard", !.want = r.l.owner]
                     ELSE AtRest]
  /\ UNCHANGED <<op, envVars, rd, ghostVars>>

\* _finish_interactive_tick_action
PopToken ==
  /\ th["tick"].pc = "popped"
  /\ post' = FALSE
  /\ th' = [th EXCEPT !["tick"] = AtRest]
  /\ UNCHANGED <<br, lease, stash, op, envVars, rd, ghostVars>>

\* The scan of /proc, outside every lock.
ScanPeers ==
  /\ th["tick"].pc = "idle"
  /\ ~(lease.owner = Agent /\ lease.old)
  /\ th' = [th EXCEPT !["tick"] = [AtRest EXCEPT !.pc = "reap", !.held = peer]]
  /\ UNCHANGED <<br, mgrVars, envVars, rd, ghostVars>>

\* reap_stale_consoles: neither the owner nor the suspended owner is reaped.
Reap ==
  /\ th["tick"].pc = "reap"
  /\ LET dead == ToSet(br.clients) \ (th["tick"].held \cup young \cup {br.owner, br.susp})
         keep == SelectSeq(br.clients, LAMBDA c : c \notin dead)
     IN  br' = [br EXCEPT !.clients = keep,
                          !.buf = [c \in Client |-> IF c \in dead THEN EmptyBuf ELSE @[c]],
                          !.primary = IF @ \notin dead THEN @
                                      ELSE IF keep = <<>> THEN None ELSE Head(keep)]
  /\ th' = [th EXCEPT !["tick"].pc = "snap"]
  /\ UNCHANGED <<mgrVars, envVars, rd, ghostVars>>

\* Self-heal, first half: the snapshot shows a live primary console and
\* nobody owning the line.
Snapshot ==
  /\ th["tick"].pc = "snap"
  /\ LET heal == /\ br.owner = None /\ br.susp = None /\ ~br.agent
                 /\ br.primary \in th["tick"].held
     IN  th' = [th EXCEPT !["tick"] =
                  IF heal THEN [AtRest EXCEPT !.pc = "grant", !.want = br.primary]
                  ELSE AtRest]
  /\ UNCHANGED <<br, mgrVars, envVars, rd, ghostVars>>

\* Self-heal, second half: granted if the session has no lease and the
\* bridge is still idle.
Grant ==
  /\ th["tick"].pc = "grant"
  /\ IF lease = NoLease /\ Idle(br)
     THEN /\ br' = [br EXCEPT !.owner = th["tick"].want]
          /\ lease' = NewLease(th["tick"].want, FALSE)
     ELSE UNCHANGED <<br, lease>>
  /\ th' = [th EXCEPT !["tick"] = AtRest]
  /\ UNCHANGED <<stash, op, post, envVars, rd, ghostVars>>

Tick == \/ \E fresh \in BOOLEAN : ExpireLease(fresh)
        \/ PopToken \/ ScanPeers \/ Reap \/ Snapshot \/ Grant

----------------------------------------------------------------------------
(* The environment.                                                        *)

\* A boot banner, a reboot command or a recovery ends the context typed
\* input belongs to.
InvalidateDeferred ==
  /\ Spend("invalidate")
  /\ br' = Invalidate(br)
  /\ UNCHANGED <<mgrVars, active, peer, unused, young, rd, th, ghostVars>>

\* A terminal opens the slave of c; it closes it (or dies).
PeerOpens(c) ==
  /\ c \in ToSet(br.clients) \ peer
  /\ peer' = peer \cup {c}
  /\ UNCHANGED <<br, mgrVars, active, unused, young, rd, th, left,
                ghostVars>>

PeerCloses(c) ==
  /\ c \in peer
  /\ Spend("peer")
  /\ peer' = peer \ {c}
  /\ UNCHANGED <<br, mgrVars, active, unused, young, rd, th, ghostVars>>

\* Time passes: a console's grace, the human's active window, a lease's
\* timeout.
ConsoleAges(c) ==
  /\ c \in young
  /\ young' = young \ {c}
  /\ UNCHANGED <<br, mgrVars, active, peer, unused, rd, th, left, ghostVars>>

HumanIdles ==
  /\ active
  /\ active' = FALSE
  /\ UNCHANGED <<br, mgrVars, peer, unused, young, rd, th, left, ghostVars>>

LeaseTimesOut ==
  /\ lease.owner = Agent /\ ~lease.old
  /\ lease' = [lease EXCEPT !.old = TRUE]
  /\ UNCHANGED <<br, stash, op, post, envVars, rd, th, ghostVars>>

Init ==
  /\ br = [clients |-> <<>>, primary |-> None, owner |-> None, pending |-> None,
           susp |-> None, depth |-> 0, agent |-> FALSE, blocked |-> FALSE,
           gen |-> 0, buf |-> [c \in Client |-> EmptyBuf]]
  /\ lease = NoLease /\ stash = NoLease
  /\ op = FALSE /\ post = FALSE /\ active = FALSE
  /\ peer = {} /\ unused = Client /\ young = {}
  /\ rd = [pc |-> "sel", c |-> None, gen |-> 0]
  /\ th = [t \in Thread |-> AtRest]
  /\ left \in Loads
  /\ typed = 0 /\ took = [n \in Chunk |-> 0]
  /\ count = [n \in Chunk |-> 0] /\ sent = 0

Next ==
  \/ \E t \in Thread : PostClose(t)
  \/ ReaderTop
  \/ \E c \in Client : Read(c)
  \/ Reader
  \/ \E human, fresh, late \in BOOLEAN : BeginCommand(human, fresh, late)
  \/ Command
  \/ \E fresh, late \in BOOLEAN : OpenLease(fresh, late)
  \/ \E fresh \in BOOLEAN : BeginSend(fresh) \/ CloseLease(fresh)
  \/ Send
  \/ \E c \in Client, fresh, late \in BOOLEAN :
       DetachConsole(c, fresh, late) \/ AttachConsole(c, fresh, late)
  \/ Tick
  \/ InvalidateDeferred
  \/ \E c \in Client : PeerOpens(c) \/ PeerCloses(c) \/ ConsoleAges(c)
  \/ HumanIdles
  \/ LeaseTimesOut

\* Every thread goes on while it has work; the tick runs for ever; a lease
\* nobody touches times out.
Fairness ==
  /\ \A t \in Thread : WF_vars(PostClose(t))
  /\ WF_vars(Reader)
  /\ WF_vars(Command)
  /\ WF_vars(Send)
  /\ WF_vars(Tick)
  /\ WF_vars(LeaseTimesOut)

Spec == Init /\ [][Next]_vars /\ Fairness

----------------------------------------------------------------------------
(* Properties.                                                             *)

\* What a human typed reaches the UART at most once: the raw path, the
\* deferred buffers and the replays of two threads never both send a chunk.
TypedOnce == \A n \in Chunk : count[n] <= 1

Wrote(n) == count'[n] > count[n]

\* Input the reader took under one owner_gen is never written after an
\* invalidation (boot banner, reboot, recovery), whichever of the three
\* places it waited in: the reader, a deferred buffer, a replay in hand.
NoStaleInput == [][\A n \in Chunk : Wrote(n) => took[n] = br.gen]_vars

\* From the admission of a command until it has ended the reader writes no
\* key straight to the UART, even one whose owner it checked before; and an
\* interactive send reaches the UART only while no command is in progress,
\* its replay of human input included.
LineIsTheCommands ==
  [][/\ (rd' # rd /\ \E n \in Chunk : Wrote(n))
          => th["cmd"].pc \notin {"suspend", "run"}
     /\ sent' > sent => ~op]_vars

\* "Because an interactive lease exists, the second and later minicom consoles
\* stay in line-buffer mode" (README.md:2407): attaching a console never takes
\* the lease of a human whose own console is alive.
SecondConsoleWaits ==
  [][\A c \in Client :
       (unused' # unused /\ lease.owner = c /\ HasPeer(br, c)) => lease'.owner = c]_vars

\* Someone who will still resume the bridge: a command that suspended the
\* human, a lease that did, or a post-close action.
Suspenders ==
  {t \in Thread : th[t].pc \in {"guard", "resume"}}
    \cup {t \in {"cmd"} : th[t].pc = "run" /\ th[t].susp}
    \cup {t \in {"lease"} : lease.susp}

\* A suspension never outlives those who must end it: otherwise the human's
\* keys stay deferred, and self-heal never regrants the line.
SuspensionEnds == br.depth > 0 => Suspenders # {}

\* Ownership heals (the tick's lease-backed regrant): the line is not left for
\* ever with neither owner nor lease while the primary console is alive.
OwnershipHeals ==
  []<>(br.owner # None \/ br.primary \notin peer \/ lease # NoLease)
=============================================================================
