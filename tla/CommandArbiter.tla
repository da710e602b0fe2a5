--------------------------- MODULE CommandArbiter ---------------------------
(***************************************************************************)
(* The command arbiter (sw_core/arbiter.py): per session a priority queue  *)
(* and a worker thread, one table of command records, and the admission    *)
(* tickets of the commands in flight.                                      *)
(*                                                                         *)
(* A registration of a session creates a queue, a stop event and a worker; *)
(* the three live and die together and are called an epoch here.           *)
(* unregister_session forgets the epoch but joins its worker for one       *)
(* second only, so a worker stuck in send_cb can outlive its epoch and run *)
(* beside the worker of the next one.                                      *)
(*                                                                         *)
(* The threads are: one submitting client per command, the epochs'         *)
(* workers, and callers of cancel, register_session, unregister_session    *)
(* and flush_session.  Each critical section of CommandArbiter._lock is    *)
(* one action.                                                             *)
(***************************************************************************)
EXTENDS AdmissionGate, Integers, FiniteSets, Sequences

CONSTANTS
  Session,     \* session ids
  Cmd,         \* the command ids that submit() will create
  NoCmd,       \* no command
  Human,       \* commands typed at a console: admission_exempt
  Prio,        \* Prio[c]: the priority of c; smaller is served first
  Load,        \* the loads to explore: which commands are submitted (cmds)
               \* and CMD_PENDING_MAX (pending)
  HistoryMax,  \* CMD_HISTORY_MAX
  MaxEpoch,    \* bound: registrations
  MaxClock     \* bound: cancels happen only while clock < MaxClock

ASSUME ArbiterAssumption ==
  /\ IsFiniteSet(Session)
  /\ IsFiniteSet(Cmd)
  /\ NoCmd \notin Cmd
  /\ Human \subseteq Cmd
  /\ Prio \in [Cmd -> Nat]
  /\ \A l \in Load :
       /\ l.cmds \subseteq Cmd
       /\ l.pending \in Nat \ {0}
  /\ HistoryMax \in Nat
  /\ MaxEpoch \in Nat
  /\ MaxClock \in Nat

VARIABLES
  load,     \* the load of this behaviour, chosen once
  spc,      \* where the submit() of each command is
  at,       \* the epoch whose queue submit() read under the lock, until put
  recs,     \* the keys of _commands
  cmd,      \* the command records
  counter,  \* _counter
  clock,    \* number of done_at time stamps taken
  queues,   \* _queues/_stops/_threads: the registered epoch, 0 if none
  owner,    \* the session of each epoch, in creation order
  pq,       \* the priority queue of each epoch
  stop,     \* the stop event of each epoch
  wpc,      \* where the worker of each epoch is
  item,     \* the command the worker took from its queue
  running,  \* _running
  held,     \* the keys of _admission_tickets
  sent,     \* how often send_cb was called for each command
  answer,   \* what send_cb answered while its record listened (Heard)
  preds     \* the submits that had returned when this one was accepted

clientVars == <<load, spc, at>>
tableVars  == <<recs, cmd, counter, clock>>
epochVars  == <<queues, owner, stop>>
workerVars == <<pq, wpc, item, running>>
ghostVars  == <<sent, answer, preds>>
arbVars == <<clientVars, tableVars, epochVars, workerVars, held, ghostVars>>
vars == <<gateVars, arbVars>>

Epoch == 1 .. MaxEpoch
PendingMax == load.pending
Terminal == {"done", "error", "interactive", "canceled"}
Flushed == {"FLUSHED_BY_RECOVERY", "FLUSHED_BY_SHUTDOWN"}
Record ==
  [session : Session \cup {"none"},
   status  : {"none", "accepted", "running"} \cup Terminal,
   error   : {"none", "SEND_FAILED", "COMMAND_FAILED"} \cup Flushed,
   doneAt  : Nat,     \* 0 is None
   seq     : Nat]     \* the counter half of the queue's sort key

NoRecord == [session |-> "none", status |-> "none", error |-> "none",
             doneAt |-> 0, seq |-> 0]

ArbInit ==
  /\ load \in Load
  /\ spc = [c \in Cmd |-> "new"]
  /\ at = [c \in Cmd |-> 0]
  /\ recs = {}
  /\ cmd = [c \in Cmd |-> NoRecord]
  /\ counter = 0
  /\ clock = 0
  /\ queues = [s \in Session |-> 0]
  /\ owner = << >>
  /\ pq = [e \in Epoch |-> {}]
  /\ stop = [e \in Epoch |-> FALSE]
  /\ wpc = [e \in Epoch |-> "none"]
  /\ item = [e \in Epoch |-> NoCmd]
  /\ running = [s \in Session |-> NoCmd]
  /\ held = {}
  /\ sent = [c \in Cmd |-> 0]
  /\ answer = [c \in Cmd |-> "none"]
  /\ preds = [c \in Cmd |-> {}]

Init == GateInit /\ ArbInit

------------------------------------------------------------------------------
(* Pending, eviction, tickets.                                             *)

\* Mutant: a running command that was canceled no longer counts.
PendingOpenOnly(s) ==
  Cardinality({c \in recs : cmd[c].session = s /\ cmd[c].doneAt = 0})

\* _count_pending_locked: the records of s without done_at, plus the
\* registered running command when it was canceled under its worker.
Pending(s) ==
  Cardinality({c \in recs : cmd[c].session = s /\ cmd[c].doneAt = 0})
  + IF /\ running[s] \in recs
       /\ cmd[running[s]].session = s
       /\ cmd[running[s]].status = "canceled"
    THEN 1 ELSE 0

\* The order of done.sort(key=done_at): stable, so ties go by insertion.
Older(C, b, c) ==
  \/ C[b].doneAt < C[c].doneAt
  \/ C[b].doneAt = C[c].doneAt /\ C[b].seq < C[c].seq

\* _evict_commands_locked on the table R with contents C: what remains.
Kept(R, C, run) ==
  LET done == {c \in R : C[c].doneAt # 0 /\ \A s \in Session : run[s] # c}
      excess == Cardinality(R) - HistoryMax
  IN R \ {c \in done : Cardinality({b \in done : Older(C, b, c)}) < excess}

\* Mutant: the arbiter forgets the ticket without returning it.
FinishAdmissionLocally(T) ==
  /\ UNCHANGED gateVars
  /\ held' = held \ T

\* _finish_admission_locked for the commands of T.
FinishAdmission(T) ==
  /\ Done(T \cap held)
  /\ held' = held \ T

\* Mutant: the sort key has no counter.
BeforeByPriority(b, c) == Prio[b] <= Prio[c]

\* sort_key: priority, then the order of acceptance.
Before(b, c) ==
  \/ Prio[b] < Prio[c]
  \/ Prio[b] = Prio[c] /\ cmd[b].seq < cmd[c].seq

------------------------------------------------------------------------------
(* submit()                                                                *)

\* Rejected before any lock: bad regex, bad expect_reboot, too long, newline.
SubmitInvalid(c) ==
  /\ spc[c] = "new"
  /\ spc' = [spc EXCEPT ![c] = "refused"]
  /\ UNCHANGED <<gateVars, load, at, tableVars, epochVars, workerVars, held, ghostVars>>

\* The admission ticket, taken before the arbiter's lock.
SubmitAdmit(c) ==
  /\ spc[c] = "new"
  /\ c \notin Human
  /\ Admit(c)
  /\ spc' = [spc EXCEPT ![c] = "admitted"]
  /\ UNCHANGED <<load, at, tableVars, epochVars, workerVars, held, ghostVars>>

\* A frozen gate gives no ticket.
SubmitFrozen(c) ==
  /\ spc[c] = "new"
  /\ c \notin Human
  /\ frozen
  /\ spc' = [spc EXCEPT ![c] = "refused"]
  /\ UNCHANGED <<gateVars, load, at, tableVars, epochVars, workerVars, held, ghostVars>>

AtLock(c) == spc[c] = "admitted" \/ (spc[c] = "new" /\ c \in Human)

\* No queue, or the session's pending limit: the ticket goes straight back.
SubmitRefuse(c, s) ==
  /\ AtLock(c)
  /\ queues[s] = 0 \/ Pending(s) >= PendingMax
  /\ spc' = [spc EXCEPT ![c] = "refused"]
  /\ Done({c})
  /\ UNCHANGED <<load, at, tableVars, epochVars, workerVars, held, ghostVars>>

\* Check, count and insert under one lock; the queue is only read here.
SubmitInsert(c, s) ==
  /\ AtLock(c)
  /\ queues[s] # 0
  /\ Pending(s) < PendingMax
  /\ LET C == [cmd EXCEPT ![c] = [session |-> s, status |-> "accepted",
                                  error |-> "none", doneAt |-> 0,
                                  seq |-> counter + 1]]
     IN /\ cmd' = C
        /\ recs' = Kept(recs \cup {c}, C, running)
  /\ counter' = counter + 1
  /\ held' = IF c \in Human THEN held ELSE held \cup {c}
  /\ at' = [at EXCEPT ![c] = queues[s]]
  /\ spc' = [spc EXCEPT ![c] = "inserted"]
  /\ preds' = [preds EXCEPT ![c] = {b \in Cmd : spc[b] = "accepted"}]
  /\ UNCHANGED <<load, gateVars, clock, epochVars, workerVars, sent, answer>>

\* pq.put() after the lock, on the queue read under it: the session may have
\* been unregistered, even registered again, in between.
SubmitPut(c) ==
  /\ spc[c] = "inserted"
  /\ pq' = [pq EXCEPT ![at[c]] = @ \cup {c}]
  /\ at' = [at EXCEPT ![c] = 0]
  /\ spc' = [spc EXCEPT ![c] = "accepted"]
  /\ UNCHANGED <<load, gateVars, tableVars, epochVars, wpc, item, running, held, ghostVars>>

------------------------------------------------------------------------------
(* cancel()                                                                *)

\* done and error records are not cancelable.  A running command keeps its
\* worker and its ticket; only the record says canceled.
Cancel(c) ==
  /\ clock < MaxClock
  /\ c \in recs
  /\ cmd[c].status \notin {"done", "error"}
  /\ clock' = clock + 1
  /\ LET C == [cmd EXCEPT ![c].status = "canceled", ![c].doneAt = clock + 1]
     IN /\ cmd' = C
        /\ recs' = Kept(recs, C, running)
  /\ IF cmd[c].status = "accepted"
     THEN FinishAdmission({c})
     ELSE UNCHANGED <<gateVars, held>>
  /\ UNCHANGED <<clientVars, counter, epochVars, workerVars, ghostVars>>

------------------------------------------------------------------------------
(* register_session(), unregister_session(), flush_session()               *)

\* Mutant: a new registration queues the open commands of the session again.
RegisterRequeues(s) ==
  /\ queues[s] = 0
  /\ Len(owner) < MaxEpoch
  /\ owner' = Append(owner, s)
  /\ queues' = [queues EXCEPT ![s] = Len(owner) + 1]
  /\ wpc' = [wpc EXCEPT ![Len(owner) + 1] = "loop"]
  /\ pq' = [pq EXCEPT ![Len(owner) + 1] =
              {c \in recs : cmd[c].session = s /\ cmd[c].doneAt = 0}]
  /\ UNCHANGED <<gateVars, clientVars, tableVars, stop, item, running, held, ghostVars>>

\* A queue, a stop event and a worker, unless the session has them.
Register(s) ==
  /\ queues[s] = 0
  /\ Len(owner) < MaxEpoch
  /\ owner' = Append(owner, s)
  /\ queues' = [queues EXCEPT ![s] = Len(owner) + 1]
  /\ wpc' = [wpc EXCEPT ![Len(owner) + 1] = "loop"]
  /\ UNCHANGED <<gateVars, clientVars, tableVars, stop, pq, item, running, held, ghostVars>>

\* Mutant: the flush takes nothing.
WaitingNone(s) == {}

\* The records of s that no worker has started.
Waiting(s) ==
  {c \in recs : /\ cmd[c].session = s
                /\ cmd[c].doneAt = 0
                /\ cmd[c].status = "accepted"}

\* The records of s with a done_at.
Ended(s) == {c \in recs : cmd[c].session = s /\ cmd[c].doneAt # 0}

\* _flush_session_locked: records that have ended give their ticket back, the
\* waiting ones end with code, the ones a worker is executing are left alone.
FlushLocked(s, code) ==
  /\ cmd' = [c \in Cmd |->
               IF c \in Waiting(s)
               THEN [cmd[c] EXCEPT !.status = "error", !.error = code,
                                   !.doneAt = clock + 1]
               ELSE cmd[c]]
  /\ clock' = IF Waiting(s) = {} THEN clock ELSE clock + 1
  /\ FinishAdmission(Waiting(s) \cup Ended(s))
  /\ UNCHANGED <<recs, counter>>

FlushSession(s, code) ==
  /\ FlushLocked(s, code)
  /\ UNCHANGED <<clientVars, epochVars, workerVars, ghostVars>>

\* Forget the epoch and flush under one lock.
Unregister(s, code) ==
  /\ FlushLocked(s, code)
  /\ queues' = [queues EXCEPT ![s] = 0]
  /\ UNCHANGED <<clientVars, owner, stop, workerVars, ghostVars>>

\* stop.set() and the wake-up sentinel, after the lock was released.
SetStop(e) ==
  /\ wpc[e] # "none"
  /\ queues[owner[e]] # e
  /\ ~stop[e]
  /\ stop' = [stop EXCEPT ![e] = TRUE]
  /\ UNCHANGED <<gateVars, clientVars, tableVars, queues, owner, workerVars, held, ghostVars>>

------------------------------------------------------------------------------
(* _worker()                                                               *)

\* pq.get(), then the second test of the stop event.
WorkerGet(e) ==
  /\ wpc[e] = "loop"
  /\ ~stop[e]
  /\ \E c \in pq[e] :
       /\ \A b \in pq[e] \ {c} : Before(c, b)
       /\ item' = [item EXCEPT ![e] = c]
       /\ pq' = [pq EXCEPT ![e] = @ \ {c}]
  /\ wpc' = [wpc EXCEPT ![e] = "got"]
  /\ UNCHANGED <<gateVars, clientVars, tableVars, epochVars, running, held, ghostVars>>

\* The stop event ends the loop, before or right after a get.
WorkerExit(e) ==
  /\ wpc[e] \in {"loop", "got"}
  /\ stop[e]
  /\ wpc' = [wpc EXCEPT ![e] = "exited"]
  /\ item' = [item EXCEPT ![e] = NoCmd]
  /\ UNCHANGED <<gateVars, clientVars, tableVars, epochVars, pq, running, held, ghostVars>>

\* Mutant: a flushed record is not told from a waiting one.
DeadIgnoresFlush(c) == c \notin recs \/ cmd[c].status = "canceled"

\* The record is gone, canceled or flushed: skip it.
Dead(c) == c \notin recs \/ cmd[c].status = "canceled" \/ cmd[c].doneAt # 0

WorkerSkip(e) ==
  /\ wpc[e] = "got"
  /\ Dead(item[e])
  /\ FinishAdmission({item[e]})
  /\ wpc' = [wpc EXCEPT ![e] = "loop"]
  /\ item' = [item EXCEPT ![e] = NoCmd]
  /\ UNCHANGED <<clientVars, tableVars, epochVars, pq, running, ghostVars>>

\* Mark it running and call send_cb.
WorkerStart(e) ==
  /\ wpc[e] = "got"
  /\ ~Dead(item[e])
  /\ cmd' = [cmd EXCEPT ![item[e]].status = "running"]
  /\ running' = [running EXCEPT ![owner[e]] = item[e]]
  /\ wpc' = [wpc EXCEPT ![e] = "send"]
  /\ sent' = [sent EXCEPT ![item[e]] = @ + 1]
  /\ UNCHANGED <<gateVars, clientVars, recs, counter, clock, epochVars, pq, item, held, answer, preds>>

\* What send_cb can answer.  "flushed" is execute_command's own answer
\* FLUSHED_BY_RECOVERY, "error" every other code (COMMAND_FAILED in the
\* record), "raise" an exception.
Outcome == {"done", "interactive", "error", "flushed", "raise"}

\* The record after send_cb answered: result's error_code is taken over, and
\* a canceled record keeps its state unless send_cb raised.
Settled(r, outcome, now) ==
  CASE outcome = "raise" ->
         [r EXCEPT !.status = "error", !.error = "SEND_FAILED", !.doneAt = now]
    [] outcome # "raise" /\ r.status = "canceled" -> r
    [] outcome = "error" /\ r.status # "canceled" ->
         [r EXCEPT !.status = "error", !.error = "COMMAND_FAILED", !.doneAt = now]
    [] outcome = "flushed" /\ r.status # "canceled" ->
         [r EXCEPT !.status = "error", !.error = "FLUSHED_BY_RECOVERY", !.doneAt = now]
    [] outcome \in {"done", "interactive"} /\ r.status # "canceled" ->
         [r EXCEPT !.status = outcome, !.doneAt = now]

\* cancel() has the last word on a command in send_cb, but for an exception.
Heard(c, outcome) == c \in recs /\ (cmd[c].status = "canceled" => outcome = "raise")

WorkerFinish(e, outcome) ==
  LET c == item[e]
      C == IF c \in recs
           THEN [cmd EXCEPT ![c] = Settled(@, outcome, clock + 1)]
           ELSE cmd
      run == IF running[owner[e]] = c
             THEN [running EXCEPT ![owner[e]] = NoCmd]
             ELSE running
  IN /\ wpc[e] = "send"
     /\ cmd' = C
     /\ clock' = IF C = cmd THEN clock ELSE clock + 1
     /\ running' = run
     /\ recs' = Kept(recs, C, run)
     /\ FinishAdmission({c})
     /\ wpc' = [wpc EXCEPT ![e] = "loop"]
     /\ item' = [item EXCEPT ![e] = NoCmd]
     /\ answer' = IF Heard(c, outcome) THEN [answer EXCEPT ![c] = outcome] ELSE answer
     /\ UNCHANGED <<clientVars, counter, epochVars, pq, sent, preds>>

WorkerStep(e) ==
  WorkerGet(e) \/ WorkerExit(e) \/ WorkerSkip(e) \/ WorkerStart(e)

------------------------------------------------------------------------------
(* The specification                                                       *)

SubmitStep(c, s) ==
  \/ SubmitInvalid(c)
  \/ SubmitAdmit(c)
  \/ SubmitFrozen(c)
  \/ SubmitRefuse(c, s)
  \/ SubmitInsert(c, s)
  \/ SubmitPut(c)

\* Clients and workers.
ArbNext ==
  \/ \E c \in load.cmds, s \in Session : SubmitStep(c, s)
  \/ \E c \in Cmd : Cancel(c)
  \/ \E e \in Epoch : SetStop(e)
  \/ \E e \in Epoch : WorkerStep(e)
  \/ \E e \in Epoch, outcome \in Outcome : WorkerFinish(e, outcome)

\* What the session manager calls: on_detached and on_command_flush.
ManagerLoses(s) ==
  \/ FlushSession(s, "FLUSHED_BY_RECOVERY")
  \/ Unregister(s, "FLUSHED_BY_RECOVERY")

\* Without the service around it, sessions come and go at any time, and
\* someone freezes the gate at some point.
FreezeGate == ~frozen /\ Freeze /\ UNCHANGED arbVars

Next ==
  \/ ArbNext
  \/ \E s \in Session : Register(s) \/ ManagerLoses(s)
  \/ FreezeGate

\* Every thread that has started keeps running: a client finishes its
\* submit(), unregister_session() reaches stop.set(), a worker serves its
\* queue, and send_cb returns because each of its waits has a timeout.
ArbFairness ==
  /\ \A c \in Cmd :
       WF_vars(spc[c] # "new" /\ \E s \in Session : SubmitStep(c, s))
  /\ \A e \in Epoch :
       /\ WF_vars(SetStop(e))
       /\ WF_vars(WorkerStep(e))
       /\ WF_vars(\E outcome \in Outcome : WorkerFinish(e, outcome))

Spec == Init /\ [][Next]_vars /\ ArbFairness

------------------------------------------------------------------------------
(* Properties                                                              *)

Step == {"new", "admitted", "inserted", "accepted", "refused"}

\* The shape of the arbiter's tables, queues and threads.
TypeOK ==
  /\ frozen \in BOOLEAN
  /\ spc \in [Cmd -> Step]
  /\ recs \subseteq Cmd
  /\ cmd \in [Cmd -> Record]
  /\ counter \in Nat
  /\ clock \in Nat
  /\ owner \in Seq(Session)
  /\ Len(owner) <= MaxEpoch
  /\ queues \in [Session -> 0 .. Len(owner)]
  /\ at \in [Cmd -> 0 .. Len(owner)]
  /\ pq \in [Epoch -> SUBSET Cmd]
  /\ stop \in [Epoch -> BOOLEAN]
  /\ wpc \in [Epoch -> {"none", "loop", "got", "send", "exited"}]
  /\ item \in [Epoch -> Cmd \cup {NoCmd}]
  /\ running \in [Session -> Cmd \cup {NoCmd}]
  /\ held \subseteq Cmd
  /\ sent \in [Cmd -> Nat]
  /\ answer \in [Cmd -> Outcome \cup {"none"}]
  /\ preds \in [Cmd -> SUBSET Cmd]

\* What the record of a command says when send_cb has answered.
Ending ==
  [done        |-> <<"done", "none">>,
   interactive |-> <<"interactive", "none">>,
   error       |-> <<"error", "COMMAND_FAILED">>,
   flushed     |-> <<"error", "FLUSHED_BY_RECOVERY">>,
   raise       |-> <<"error", "SEND_FAILED">>,
   none        |-> <<"running", "none">>]

\* A command that has ended and was not canceled tells its client the truth:
\* flushed by the arbiter if it was never given to send_cb, which the client
\* may safely send again, and otherwise what send_cb answered for it; an
\* answer that came after a cancel, which is not Heard, changes nothing
\* (_flush_session_locked and cancel() against a worker that has dequeued the
\* command, and against one that is in send_cb).
EndedRecordIsTrue ==
  \A c \in recs : cmd[c].doneAt # 0 /\ cmd[c].status # "canceled" =>
    IF sent[c] = 0
    THEN cmd[c].status = "error" /\ cmd[c].error \in Flushed
    ELSE <<cmd[c].status, cmd[c].error>> = Ending[answer[c]]

\* No command is given to send_cb twice, whatever cancel, flush and
\* re-registration do around its worker.
SentAtMostOnce == \A c \in Cmd : sent[c] <= 1

\* An agent's command keeps its admission ticket from acceptance until it
\* has ended, so freeze_if_idle cannot take the daemon for idle meanwhile;
\* and a ticket always has an owner that will give it back: a submit() on
\* its way to the lock, a record that has not ended, or a worker in send_cb.
TicketsMatchCommands ==
  /\ \A c \in recs \ Human : cmd[c].doneAt = 0 => c \in tickets
  /\ \A c \in tickets \cap Cmd :
       \/ spc[c] = "admitted"
       \/ c \in recs /\ cmd[c].doneAt = 0
       \/ \E e \in Epoch : wpc[e] = "send" /\ item[e] = c

\* submit() counts and inserts under one lock: the commands of a session
\* that wait, run, or were canceled under its worker never exceed
\* CMD_PENDING_MAX (a command canceled under a worker that outlived its
\* registration is no longer counted, here or in the code, once the next
\* worker of the session has a command).  And the command table never outgrows
\* both the history limit and what the sessions may have pending, although
\* flush_session never evicts.
LimitsHold ==
  /\ \A s \in Session :
       Cardinality({c \in recs : /\ cmd[c].session = s
                                 /\ cmd[c].doneAt = 0 \/ running[s] = c})
         <= PendingMax
  /\ \/ Cardinality(recs) <= HistoryMax
     \/ Cardinality(recs) <= Cardinality(Session) * PendingMax

\* A command is not overtaken by one of the same session that was submitted
\* after it was accepted and is not more urgent (sort_key, and pq.put after
\* the lock).
FifoPerPriority ==
  \A c \in Cmd : sent[c] > 0 =>
    \A b \in preds[c] \cap recs :
      cmd[b].session = cmd[c].session /\ Prio[b] <= Prio[c]
        => cmd[b].status # "accepted"

\* Every accepted command ends: executed, canceled or flushed, also when its
\* session is unregistered between the insert and pq.put; and every ticket is
\* given back, or no handoff could ever succeed again.
EveryCommandSettles ==
  \A c \in Cmd :
    /\ spc[c] = "inserted" ~> (c \notin recs \/ cmd[c].doneAt # 0)
    /\ c \in tickets ~> c \notin tickets
==============================================================================
