---------------------------- MODULE ArbiterProofs ----------------------------
(***************************************************************************)
(* What CommandArbiter guarantees for any number of sessions, commands,    *)
(* registrations and cancels.  Every invariant is proved of the steps      *)
(* themselves (ArbiterStep), so that the service, which takes the same     *)
(* steps under other guards, inherits it.                                  *)
(***************************************************************************)
EXTENDS CommandArbiter, FiniteSetTheorems, TLAPS

Accepted == {"inserted", "accepted"}

\* A worker runs for every epoch; it has a command exactly between its get
\* and the end of send_cb; a registered epoch is its session's and runs.
EpochsHold ==
  /\ \A e \in Epoch :
       /\ wpc[e] # "none" <=> e <= Len(owner)
       /\ wpc[e] \in {"got", "send"} <=> item[e] # NoCmd
       /\ stop[e] => e <= Len(owner)
  /\ \A s \in Session : queues[s] # 0 => owner[queues[s]] = s /\ ~stop[queues[s]]

\* A command is in one place of one epoch of its session: with its client on
\* the way to pq.put, in one queue, or with one worker.
PlacesHold ==
  /\ \A c \in Cmd : spc[c] = "inserted" =>
       at[c] \in 1 .. Len(owner) /\ owner[at[c]] = cmd[c].session
  /\ \A e \in Epoch : \A c \in pq[e] :
       /\ spc[c] = "accepted"
       /\ e <= Len(owner) /\ owner[e] = cmd[c].session
       /\ \A f \in Epoch : item[f] # c /\ (c \in pq[f] => f = e)
  /\ \A e \in Epoch : item[e] # NoCmd =>
       /\ spc[item[e]] = "accepted"
       /\ owner[e] = cmd[item[e]].session
       /\ \A f \in Epoch : item[f] = item[e] => f = e

\* What a record says: only accepted commands have one, an open one waits or
\* runs, and a waiting one is open and in the table.
RecordsHold ==
  \A c \in Cmd :
    /\ c \in recs => spc[c] \in Accepted
    /\ spc[c] \in Accepted => cmd[c].session \in Session /\ cmd[c].seq <= counter
    /\ cmd[c].status = "accepted" => c \in recs /\ cmd[c].doneAt = 0
    /\ cmd[c].status = "running" => cmd[c].doneAt = 0
    /\ c \in recs /\ cmd[c].doneAt = 0 => cmd[c].status \in {"accepted", "running"}

\* A waiting command is on its way through the registered epoch of its
\* session: unregister_session flushes under the lock that forgets the epoch.
WaitingHolds ==
  \A c \in Cmd : cmd[c].status = "accepted" =>
    LET e == queues[cmd[c].session]
    IN /\ e # 0
       /\ \/ spc[c] = "inserted" /\ at[c] = e
          \/ c \in pq[e]
          \/ item[e] = c /\ wpc[e] = "got"

\* send_cb is called for a command that waits.
SentHolds ==
  \A c \in Cmd :
    /\ sent[c] <= 1
    /\ sent[c] # 0 =>
         /\ spc[c] = "accepted"
         /\ cmd[c].status # "accepted"
         /\ \A e \in Epoch : c \notin pq[e] /\ (item[e] = c => wpc[e] = "send")

\* The record of c, if it has ended and was not canceled, says how.
TrueRecord(c) ==
  cmd[c].doneAt # 0 /\ cmd[c].status # "canceled" =>
    IF sent[c] = 0
    THEN cmd[c].status = "error" /\ cmd[c].error \in Flushed
    ELSE <<cmd[c].status, cmd[c].error>> = Ending[answer[c]]

\* Only the end of a command gives its record an error code, and a worker in
\* send_cb has given its command to it.
AnswersHold ==
  /\ \A c \in Cmd : cmd[c].error # "none" => cmd[c].status = "error"
  /\ \A c \in recs : TrueRecord(c)
  /\ \A e \in Epoch : wpc[e] = "send" => sent[item[e]] # 0

\* A record that says running, and an entry of _running, are of a command some
\* worker has in send_cb; such a worker's record says running or canceled.
SendersHold ==
  /\ \A c \in recs : cmd[c].status = "running" =>
       \E e \in Epoch : wpc[e] = "send" /\ item[e] = c
  /\ \A e \in Epoch : wpc[e] = "send" /\ item[e] \in recs =>
       cmd[item[e]].status \in {"running", "canceled"}
  /\ \A s \in Session : running[s] # NoCmd =>
       \E e \in Epoch : wpc[e] = "send" /\ item[e] = running[s] /\ owner[e] = s

\* The arbiter's own list of tickets against the gate's and against what the
\* commands are doing.
TicketsHold ==
  \A c \in Cmd :
    /\ c \in held => c \in tickets /\ spc[c] \in Accepted
    /\ c \in tickets => spc[c] = "admitted" \/ c \in held
    /\ spc[c] = "admitted" => c \in tickets \ Human
    /\ c \in recs \ Human /\ cmd[c].doneAt = 0 => c \in held
    /\ c \in held => \/ c \in recs /\ cmd[c].doneAt = 0
                     \/ \E e \in Epoch : wpc[e] = "send" /\ item[e] = c

\* The commands a submit() found accepted were accepted before it, and a worker
\* took what is Before the ones of them it left in the queue.
OrderHolds ==
  /\ \A c \in Cmd : \A b \in preds[c] :
       /\ spc[c] \in Accepted
       /\ spc[b] = "accepted"
       /\ cmd[b].seq < cmd[c].seq
  /\ \A e \in Epoch : wpc[e] = "got" =>
       \A b \in pq[e] \cap preds[item[e]] : Before(item[e], b)

\* The inductive invariant.
Inv ==
  /\ load \in Load
  /\ TypeOK
  /\ EpochsHold
  /\ PlacesHold
  /\ RecordsHold
  /\ WaitingHolds
  /\ SentHolds
  /\ AnswersHold
  /\ SendersHold
  /\ TicketsHold
  /\ OrderHolds
  /\ FifoPerPriority
  /\ LimitsHold

\* The steps of the arbiter's threads and callers, whoever schedules them; and
\* any step beside them that leaves the commands' tickets alone.
Beside ==
  /\ UNCHANGED arbVars
  /\ frozen' \in BOOLEAN
  /\ \A c \in Cmd : c \in tickets' <=> c \in tickets

ArbiterStep ==
  \/ \E c \in Cmd : SubmitInvalid(c) \/ SubmitAdmit(c) \/ SubmitFrozen(c) \/ SubmitPut(c)
  \/ \E c \in Cmd, s \in Session : SubmitRefuse(c, s) \/ SubmitInsert(c, s)
  \/ \E c \in Cmd : Cancel(c)
  \/ \E s \in Session : Register(s)
  \/ \E s \in Session, code \in Flushed : FlushSession(s, code) \/ Unregister(s, code)
  \/ \E e \in Epoch : SetStop(e) \/ WorkerStep(e)
  \/ \E e \in Epoch, outcome \in Outcome : WorkerFinish(e, outcome)
  \/ Beside

USE DEF gateVars, freezeVars, clientVars, tableVars, epochVars, workerVars, ghostVars, arbVars

------------------------------------------------------------------------------
(* Facts about constants and operators                                     *)

\* Epochs are numbered from one.
LEMMA EpochNat == Epoch \subseteq Nat /\ 0 \notin Epoch /\ MaxEpoch \in Nat
  BY ArbiterAssumption DEF Epoch

\* NoCmd is no command.
LEMMA NoCmdIsNoCmd == NoCmd \notin Cmd
  BY ArbiterAssumption

\* Eviction takes records away, and none that is open.
LEMMA KeptProperties ==
  ASSUME NEW R, NEW C, NEW run
  PROVE  /\ Kept(R, C, run) \subseteq R
         /\ \A c \in R : C[c].doneAt = 0 => c \in Kept(R, C, run)
  BY DEF Kept

\* What the end of send_cb makes of a record.
LEMMA SettledProperties ==
  ASSUME NEW r \in Record, NEW outcome \in Outcome, NEW now \in Nat \ {0}
  PROVE  LET q == Settled(r, outcome, now)
         IN /\ q \in Record
            /\ q.session = r.session /\ q.seq = r.seq
            /\ r.status = "canceled" => q.status \in {"canceled", "error"}
            /\ r.status # "canceled" => q.status \in {"done", "error", "interactive"}
            /\ r.doneAt # 0 \/ r.status # "canceled" => q.doneAt # 0
  BY DEF Settled, Record, Outcome, Terminal, Flushed

\* What it tells the client: nothing new after a cancel, and otherwise what
\* send_cb answered.
LEMMA SettledAnswer ==
  ASSUME NEW r \in Record, NEW outcome \in Outcome, NEW now \in Nat \ {0},
         r.error = "none"
  PROVE  LET q == Settled(r, outcome, now)
         IN /\ r.status = "canceled" /\ outcome # "raise" => q = r
            /\ (r.status = "canceled" => outcome = "raise") =>
                 <<q.status, q.error>> = Ending[outcome]
            /\ q.error # "none" => q.status = "error"
<1>1. CASE outcome = "raise"
  BY <1>1 DEF Settled, Record, Ending
<1>2. CASE outcome # "raise" /\ r.status = "canceled"
  BY <1>2 DEF Settled
<1>3. CASE outcome = "error" /\ r.status # "canceled"
  BY <1>3 DEF Settled, Record, Ending
<1>4. CASE outcome = "flushed" /\ r.status # "canceled"
  BY <1>4 DEF Settled, Record, Ending
<1>5. CASE outcome = "done" /\ r.status # "canceled"
  BY <1>5 DEF Settled, Record, Ending
<1>6. CASE outcome = "interactive" /\ r.status # "canceled"
  BY <1>6 DEF Settled, Record, Ending
<1> QED
  BY <1>1, <1>2, <1>3, <1>4, <1>5, <1>6 DEF Outcome

------------------------------------------------------------------------------
(* What the steps do to the records                                        *)

\* The fields of a record.
LEMMA RecordFields ==
  ASSUME NEW r \in Record
  PROVE  /\ r.session \in Session \cup {"none"}
         /\ r.status \in {"none", "accepted", "running"} \cup Terminal
         /\ r.error \in {"none", "SEND_FAILED", "COMMAND_FAILED"} \cup Flushed
         /\ r.doneAt \in Nat
         /\ r.seq \in Nat
  BY DEF Record

\* Updates of a record.
LEMMA CanceledRecord ==
  ASSUME NEW r \in Record, NEW now \in Nat
  PROVE  LET q == [r EXCEPT !.status = "canceled", !.doneAt = now]
         IN /\ q \in Record
            /\ q.session = r.session /\ q.seq = r.seq /\ q.error = r.error
            /\ q.status = "canceled" /\ q.doneAt = now
  BY DEF Record, Terminal

\* The record of a command a worker starts.
LEMMA StartedRecord ==
  ASSUME NEW r \in Record
  PROVE  LET q == [r EXCEPT !.status = "running"]
         IN /\ q \in Record
            /\ q.session = r.session /\ q.seq = r.seq /\ q.error = r.error
            /\ q.status = "running" /\ q.doneAt = r.doneAt
  BY DEF Record

\* submit() adds one waiting record, and evicts only records that have ended.
LEMMA InsertEffect ==
  ASSUME TypeOK, NEW c \in Cmd, NEW s \in Session, SubmitInsert(c, s)
  PROVE  /\ cmd' \in [Cmd -> Record]
         /\ \A b \in Cmd \ {c} : cmd'[b] = cmd[b]
         /\ cmd'[c].session = s /\ cmd'[c].status = "accepted" /\ cmd'[c].error = "none"
         /\ cmd'[c].doneAt = 0 /\ cmd'[c].seq = counter + 1
         /\ recs' \subseteq recs \cup {c} /\ c \in recs'
         /\ \A b \in recs : cmd'[b].doneAt = 0 => b \in recs'
<1>1. cmd' = [cmd EXCEPT ![c] = [session |-> s, status |-> "accepted", error |-> "none",
                                 doneAt |-> 0, seq |-> counter + 1]]
  BY DEF SubmitInsert
<1>2. recs' = Kept(recs \cup {c}, cmd', running)
  BY <1>1 DEF SubmitInsert
<1>3. /\ cmd' \in [Cmd -> Record]
      /\ \A b \in Cmd \ {c} : cmd'[b] = cmd[b]
  BY <1>1 DEF TypeOK, Record, Terminal, Flushed
<1>4. cmd'[c] = [session |-> s, status |-> "accepted", error |-> "none",
                 doneAt |-> 0, seq |-> counter + 1]
  BY <1>1 DEF TypeOK
<1> QED
  BY <1>2, <1>3, <1>4, KeptProperties

\* cancel() ends one record.
LEMMA CancelEffect ==
  ASSUME TypeOK, NEW c \in Cmd, Cancel(c)
  PROVE  /\ cmd' \in [Cmd -> Record]
         /\ \A b \in Cmd \ {c} : cmd'[b] = cmd[b]
         /\ cmd'[c].session = cmd[c].session /\ cmd'[c].seq = cmd[c].seq
         /\ cmd'[c].error = cmd[c].error
         /\ cmd'[c].status = "canceled" /\ cmd'[c].doneAt = clock + 1
         /\ recs' \subseteq recs
         /\ \A b \in recs : cmd'[b].doneAt = 0 => b \in recs'
<1> DEFINE q == [cmd[c] EXCEPT !.status = "canceled", !.doneAt = clock + 1]
<1>1. cmd' = [cmd EXCEPT ![c].status = "canceled", ![c].doneAt = clock + 1]
  BY DEF Cancel
<1>2. cmd' = [cmd EXCEPT ![c] = q]
  BY <1>1, Zenon
<1>3. recs' = Kept(recs, cmd', running)
  BY <1>1 DEF Cancel
<1>4. cmd \in [Cmd -> Record] /\ clock + 1 \in Nat
  BY DEF TypeOK
<1>5. /\ q \in Record
      /\ q.session = cmd[c].session /\ q.seq = cmd[c].seq /\ q.error = cmd[c].error
      /\ q.status = "canceled" /\ q.doneAt = clock + 1
  BY <1>4, CanceledRecord
<1> HIDE DEF q
<1>6. /\ cmd' \in [Cmd -> Record]
      /\ cmd'[c] = q
      /\ \A b \in Cmd \ {c} : cmd'[b] = cmd[b]
  BY <1>2, <1>4, <1>5
<1> QED
  BY <1>3, <1>5, <1>6, KeptProperties

\* A flush ends the records of its session that wait, and no other.
LEMMA FlushEffect ==
  ASSUME TypeOK, NEW s \in Session, NEW code \in Flushed, FlushLocked(s, code)
  PROVE  /\ cmd' \in [Cmd -> Record]
         /\ recs' = recs
         /\ \A b \in Cmd \ Waiting(s) : cmd'[b] = cmd[b]
         /\ \A b \in Waiting(s) :
              /\ b \in Cmd
              /\ cmd'[b].session = cmd[b].session /\ cmd'[b].seq = cmd[b].seq
              /\ cmd'[b].status = "error" /\ cmd'[b].error = code
              /\ cmd'[b].doneAt = clock + 1
<1>1. cmd' = [c \in Cmd |-> IF c \in Waiting(s)
                            THEN [cmd[c] EXCEPT !.status = "error", !.error = code,
                                                !.doneAt = clock + 1]
                            ELSE cmd[c]]
  BY DEF FlushLocked
<1>2. Waiting(s) \subseteq Cmd
  BY DEF Waiting, TypeOK
<1>3. clock + 1 \in Nat
  BY DEF TypeOK
<1>4. \A b \in Cmd : cmd[b] \in Record
  BY DEF TypeOK
<1>5. \A b \in Waiting(s) : cmd'[b] = [cmd[b] EXCEPT !.status = "error", !.error = code,
                                                    !.doneAt = clock + 1]
  BY <1>1, <1>2
<1>6. \A b \in Cmd \ Waiting(s) : cmd'[b] = cmd[b]
  BY <1>1
<1>7. \A b \in Waiting(s) :
         /\ cmd'[b] \in Record
         /\ cmd'[b].session = cmd[b].session /\ cmd'[b].seq = cmd[b].seq
         /\ cmd'[b].status = "error" /\ cmd'[b].error = code
         /\ cmd'[b].doneAt = clock + 1
  <2> SUFFICES ASSUME NEW b \in Waiting(s)
               PROVE  /\ cmd'[b] \in Record
                      /\ cmd'[b].session = cmd[b].session /\ cmd'[b].seq = cmd[b].seq
                      /\ cmd'[b].status = "error" /\ cmd'[b].error = code
                      /\ cmd'[b].doneAt = clock + 1
    OBVIOUS
  <2>1. PICK r \in Record : r = cmd[b]
    BY <1>2, <1>4
  <2>2. PICK now \in Nat : now = clock + 1
    BY <1>3
  <2> DEFINE q == [r EXCEPT !.status = "error", !.error = code, !.doneAt = now]
  <2>3. /\ q \in Record
        /\ q.session = r.session /\ q.seq = r.seq
        /\ q.status = "error" /\ q.error = code /\ q.doneAt = now
    BY DEF Record, Terminal
  <2>4. cmd'[b] = q
    BY <1>5, <2>1, <2>2
  <2> HIDE DEF q
  <2> QED
    BY <2>1, <2>2, <2>3, <2>4
<1>8. cmd' \in [Cmd -> Record]
  <2>1. \A b \in Cmd : cmd'[b] \in Record
    BY <1>4, <1>6, <1>7
  <2>2. cmd' = [c \in Cmd |-> cmd'[c]]
    BY <1>1
  <2> QED
    BY <2>1, <2>2
<1> QED
  BY <1>2, <1>6, <1>7, <1>8 DEF FlushLocked

\* A worker marks the record it starts.
LEMMA StartEffect ==
  ASSUME TypeOK, NEW e \in Epoch, WorkerStart(e)
  PROVE  /\ cmd' \in [Cmd -> Record]
         /\ item[e] \in recs /\ item[e] \in Cmd
         /\ \A b \in Cmd \ {item[e]} : cmd'[b] = cmd[b]
         /\ LET c == item[e]
            IN /\ cmd'[c].session = cmd[c].session /\ cmd'[c].seq = cmd[c].seq
               /\ cmd'[c].error = cmd[c].error /\ cmd'[c].doneAt = cmd[c].doneAt
               /\ cmd'[c].status = "running"
               /\ cmd[c].doneAt = 0
<1>1. item[e] \in recs /\ item[e] \in Cmd /\ cmd[item[e]].doneAt = 0
  BY DEF WorkerStart, Dead, TypeOK
<1> DEFINE c == item[e]
           q == [cmd[c] EXCEPT !.status = "running"]
<1>2. cmd' = [cmd EXCEPT ![c].status = "running"]
  BY DEF WorkerStart
<1>3. cmd' = [cmd EXCEPT ![c] = q]
  BY <1>2, Zenon
<1>4. cmd \in [Cmd -> Record] /\ c \in Cmd
  BY <1>1 DEF TypeOK
<1>5. /\ q \in Record
      /\ q.session = cmd[c].session /\ q.seq = cmd[c].seq /\ q.error = cmd[c].error
      /\ q.status = "running" /\ q.doneAt = cmd[c].doneAt
  BY <1>4, StartedRecord
<1> HIDE DEF q
<1>6. /\ cmd' \in [Cmd -> Record]
      /\ cmd'[c] = q
      /\ \A b \in Cmd \ {c} : cmd'[b] = cmd[b]
  BY <1>3, <1>4, <1>5
<1> QED
  BY <1>1, <1>5, <1>6

\* The end of send_cb settles the record of its command, if it is still there.
LEMMA FinishEffect ==
  ASSUME TypeOK, NEW e \in Epoch, NEW outcome \in Outcome, WorkerFinish(e, outcome)
  PROVE  /\ cmd' \in [Cmd -> Record]
         /\ clock' \in Nat
         /\ \A b \in Cmd : b # item[e] \/ b \notin recs => cmd'[b] = cmd[b]
         /\ item[e] \in recs =>
              LET r == cmd[item[e]]
                  q == cmd'[item[e]]
              IN /\ q.session = r.session /\ q.seq = r.seq
                 /\ r.status = "canceled" => q.status \in {"canceled", "error"}
                 /\ r.status # "canceled" => q.status \in {"done", "error", "interactive"}
                 /\ r.doneAt # 0 \/ r.status # "canceled" => q.doneAt # 0
         /\ recs' = Kept(recs, cmd', running')
         /\ recs' \subseteq recs
         /\ \A b \in recs : cmd'[b].doneAt = 0 => b \in recs'
<1>1. /\ cmd' = IF item[e] \in recs
                THEN [cmd EXCEPT ![item[e]] = Settled(cmd[item[e]], outcome, clock + 1)]
                ELSE cmd
      /\ clock' \in {clock, clock + 1}
      /\ recs' = Kept(recs, cmd', running')
  BY DEF WorkerFinish
<1>2. item[e] \in recs => item[e] \in Cmd /\ cmd[item[e]] \in Record
  BY DEF TypeOK
<1>3. clock + 1 \in Nat \ {0} /\ clock' \in Nat
  BY <1>1 DEF TypeOK
<1>4. CASE item[e] \in recs
  <2> DEFINE q == Settled(cmd[item[e]], outcome, clock + 1)
  <2>1. /\ q \in Record
        /\ q.session = cmd[item[e]].session /\ q.seq = cmd[item[e]].seq
        /\ cmd[item[e]].status = "canceled" => q.status \in {"canceled", "error"}
        /\ cmd[item[e]].status # "canceled" => q.status \in {"done", "error", "interactive"}
        /\ cmd[item[e]].doneAt # 0 \/ cmd[item[e]].status # "canceled" => q.doneAt # 0
    BY <1>2, <1>3, <1>4, SettledProperties
  <2> HIDE DEF q
  <2>2. cmd' = [cmd EXCEPT ![item[e]] = q]
    BY <1>1, <1>4 DEF q
  <2>3. /\ cmd' \in [Cmd -> Record]
        /\ cmd'[item[e]] = q
        /\ \A b \in Cmd : b # item[e] => cmd'[b] = cmd[b]
    BY <1>2, <1>4, <2>1, <2>2 DEF TypeOK
  <2>4. recs' = Kept(recs, cmd', running')
    BY <1>1
  <2>5. /\ recs' \subseteq recs
        /\ \A b \in recs : cmd'[b].doneAt = 0 => b \in recs'
    BY <2>4, KeptProperties
  <2> QED
    BY <1>3, <1>4, <2>1, <2>3, <2>4, <2>5
<1>5. CASE item[e] \notin recs
  BY <1>1, <1>3, <1>5, KeptProperties DEF TypeOK
<1> QED
  BY <1>4, <1>5

\* What the same steps do to everything else.
LEMMA InsertFrame ==
  ASSUME NEW c \in Cmd, NEW s \in Session, SubmitInsert(c, s)
  PROVE  /\ AtLock(c) /\ queues[s] # 0 /\ Pending(s) < PendingMax
         /\ recs' = Kept(recs \cup {c}, cmd', running)
         /\ counter' = counter + 1
         /\ held' = IF c \in Human THEN held ELSE held \cup {c}
         /\ at' = [at EXCEPT ![c] = queues[s]]
         /\ spc' = [spc EXCEPT ![c] = "inserted"]
         /\ preds' = [preds EXCEPT ![c] = {b \in Cmd : spc[b] = "accepted"}]
         /\ UNCHANGED <<load, gateVars, clock, epochVars, workerVars, sent, answer>>
  BY DEF SubmitInsert

\* cancel() gives the ticket of a waiting command back and leaves the rest alone.
LEMMA CancelFrame ==
  ASSUME NEW c \in Cmd, Cancel(c)
  PROVE  /\ c \in recs
         /\ cmd[c].status \notin {"done", "error"}
         /\ recs' = Kept(recs, cmd', running)
         /\ IF cmd[c].status = "accepted"
            THEN held' = held \ {c} /\ tickets' = tickets \ ({c} \cap held)
            ELSE UNCHANGED <<held, tickets>>
         /\ UNCHANGED <<freezeVars, clientVars, counter, epochVars, workerVars, ghostVars>>
  BY DEF Cancel, FinishAdmission, Done

\* A flush gives the tickets of what it ends, and of what had ended, back.
LEMMA FlushFrame ==
  ASSUME NEW s \in Session, NEW code \in Flushed, FlushSession(s, code) \/ Unregister(s, code)
  PROVE  /\ FlushLocked(s, code)
         /\ held' = held \ (Waiting(s) \cup Ended(s))
         /\ tickets' = tickets \ ((Waiting(s) \cup Ended(s)) \cap held)
         /\ queues' = queues \/ queues' = [queues EXCEPT ![s] = 0]
         /\ UNCHANGED <<freezeVars, clientVars, recs, counter, owner, stop, workerVars, ghostVars>>
<1>1. FlushLocked(s, code)
  BY DEF FlushSession, Unregister
<1>2. /\ held' = held \ (Waiting(s) \cup Ended(s))
      /\ tickets' = tickets \ ((Waiting(s) \cup Ended(s)) \cap held)
      /\ UNCHANGED <<freezeVars, recs, counter>>
  BY <1>1 DEF FlushLocked, FinishAdmission, Done
<1> QED
  BY <1>1, <1>2 DEF FlushSession, Unregister

\* A worker registers what it starts in _running and calls send_cb.
LEMMA StartFrame ==
  ASSUME NEW e \in Epoch, WorkerStart(e)
  PROVE  /\ wpc[e] = "got"
         /\ ~Dead(item[e])
         /\ running' = [running EXCEPT ![owner[e]] = item[e]]
         /\ wpc' = [wpc EXCEPT ![e] = "send"]
         /\ sent' = [sent EXCEPT ![item[e]] = @ + 1]
         /\ UNCHANGED <<gateVars, clientVars, recs, counter, clock, epochVars, pq, item, held, answer, preds>>
  BY DEF WorkerStart

\* The end of send_cb clears _running, unless a later worker took it over, and
\* gives the ticket back.
LEMMA FinishFrame ==
  ASSUME NEW e \in Epoch, NEW outcome \in Outcome, WorkerFinish(e, outcome)
  PROVE  /\ wpc[e] = "send"
         /\ running' = IF running[owner[e]] = item[e]
                       THEN [running EXCEPT ![owner[e]] = NoCmd] ELSE running
         /\ held' = held \ {item[e]}
         /\ tickets' = tickets \ ({item[e]} \cap held)
         /\ wpc' = [wpc EXCEPT ![e] = "loop"]
         /\ item' = [item EXCEPT ![e] = NoCmd]
         /\ answer' = IF Heard(item[e], outcome)
                      THEN [answer EXCEPT ![item[e]] = outcome] ELSE answer
         /\ UNCHANGED <<freezeVars, clientVars, counter, epochVars, pq, sent, preds>>
  BY DEF WorkerFinish, FinishAdmission, Done

------------------------------------------------------------------------------
(* Type correctness                                                        *)

\* The initial tables are well formed.
LEMMA TypeInit == Init => TypeOK
<1> SUFFICES ASSUME Init PROVE TypeOK
  OBVIOUS
<1> USE DEF Init, GateInit, ArbInit
<1>1. NoRecord \in Record
  BY DEF Record, NoRecord, Terminal, Flushed
<1>2. owner \in Seq(Session) /\ Len(owner) = 0
  OBVIOUS
<1>3. cmd \in [Cmd -> Record]
  BY <1>1
<1>4. queues \in [Session -> 0 .. Len(owner)] /\ at \in [Cmd -> 0 .. Len(owner)]
  BY <1>2
<1>5. /\ spc \in [Cmd -> Step]
      /\ pq \in [Epoch -> SUBSET Cmd]
      /\ stop \in [Epoch -> BOOLEAN]
      /\ wpc \in [Epoch -> {"none", "loop", "got", "send", "exited"}]
      /\ item \in [Epoch -> Cmd \cup {NoCmd}]
      /\ running \in [Session -> Cmd \cup {NoCmd}]
      /\ sent \in [Cmd -> Nat]
      /\ answer \in [Cmd -> Outcome \cup {"none"}]
      /\ preds \in [Cmd -> SUBSET Cmd]
  BY DEF Step
<1>6. /\ frozen \in BOOLEAN
      /\ recs \subseteq Cmd
      /\ held \subseteq Cmd
      /\ counter \in Nat
      /\ clock \in Nat
  OBVIOUS
<1>7. Len(owner) <= MaxEpoch
  BY <1>2, EpochNat
<1> HIDE DEF Init
<1> QED
  BY <1>2, <1>3, <1>4, <1>5, <1>6, <1>7 DEF TypeOK

\* Every step keeps the tables well formed.
LEMMA TypeStep ==
  ASSUME TypeOK, ArbiterStep
  PROVE  TypeOK'
<1> USE EpochNat DEF TypeOK, Step
<1>1. ASSUME NEW c \in Cmd, SubmitInvalid(c) \/ SubmitAdmit(c) \/ SubmitFrozen(c)
      PROVE  TypeOK'
  BY <1>1 DEF SubmitInvalid, SubmitAdmit, SubmitFrozen, Admit
<1>2. ASSUME NEW c \in Cmd, SubmitPut(c) PROVE TypeOK'
  <2>1. pq' \in [Epoch -> SUBSET Cmd]
    BY <1>2 DEF SubmitPut
  <2>2. at' \in [Cmd -> 0 .. Len(owner)] /\ spc' \in [Cmd -> Step]
    BY <1>2 DEF SubmitPut
  <2> QED
    BY <1>2, <2>1, <2>2 DEF SubmitPut
<1>3. ASSUME NEW c \in Cmd, NEW s \in Session, SubmitRefuse(c, s) PROVE TypeOK'
  BY <1>3 DEF SubmitRefuse, Done
<1>4. ASSUME NEW c \in Cmd, NEW s \in Session, SubmitInsert(c, s) PROVE TypeOK'
  <2>1. cmd' \in [Cmd -> Record] /\ recs' \subseteq Cmd
    BY SMTT(20), <1>4, InsertEffect
  <2>2. spc' \in [Cmd -> Step] /\ at' \in [Cmd -> 0 .. Len(owner)]
    BY <1>4 DEF SubmitInsert
  <2>3. counter' \in Nat /\ held' \subseteq Cmd /\ preds' \in [Cmd -> SUBSET Cmd]
    BY <1>4 DEF SubmitInsert
  <2>4. UNCHANGED <<gateVars, clock, epochVars, workerVars, sent, answer>>
    BY <1>4 DEF SubmitInsert
  <2> QED
    BY <2>1, <2>2, <2>3, <2>4
<1>5. ASSUME NEW c \in Cmd, Cancel(c) PROVE TypeOK'
  <2>1. cmd' \in [Cmd -> Record] /\ recs' \subseteq Cmd
    BY <1>5, CancelEffect
  <2>2. clock' \in Nat /\ held' \subseteq Cmd /\ frozen' = frozen
    BY <1>5 DEF Cancel, FinishAdmission, Done
  <2>3. UNCHANGED <<clientVars, counter, epochVars, workerVars, ghostVars>>
    BY <1>5 DEF Cancel
  <2> QED
    BY <2>1, <2>2, <2>3
<1>6. ASSUME NEW s \in Session, Register(s) PROVE TypeOK'
  <2>1. owner' \in Seq(Session) /\ Len(owner') = Len(owner) + 1 /\ Len(owner') <= MaxEpoch
    BY <1>6 DEF Register
  <2>2. queues' \in [Session -> 0 .. Len(owner')] /\ at' \in [Cmd -> 0 .. Len(owner')]
    BY <1>6, <2>1 DEF Register
  <2> QED
    BY <1>6, <2>1, <2>2 DEF Register
<1>7. ASSUME NEW s \in Session, NEW code \in Flushed, FlushSession(s, code) \/ Unregister(s, code)
      PROVE  TypeOK'
  <2>1. cmd' \in [Cmd -> Record] /\ recs' = recs
    BY <1>7, FlushEffect DEF FlushSession, Unregister
  <2>2. queues' \in [Session -> 0 .. Len(owner)]
    <3>1. queues' = queues \/ queues' = [queues EXCEPT ![s] = 0]
      BY <1>7, FlushFrame
    <3>2. 0 \in 0 .. Len(owner)
      OBVIOUS
    <3> QED
      BY <3>1, <3>2
  <2>3. clock' \in Nat /\ held' \subseteq Cmd /\ frozen' = frozen /\ counter' = counter
    <3>1. FlushLocked(s, code)
      BY <1>7 DEF FlushSession, Unregister
    <3>2. clock' \in {clock, clock + 1} /\ counter' = counter
      BY <3>1 DEF FlushLocked
    <3>3. held' \subseteq held /\ frozen' = frozen
      BY <3>1 DEF FlushLocked, FinishAdmission, Done
    <3> QED
      BY <3>2, <3>3
  <2>4. UNCHANGED <<clientVars, owner, stop, workerVars, ghostVars>>
    BY <1>7 DEF FlushSession, Unregister
  <2> QED
    BY <2>1, <2>2, <2>3, <2>4
<1>8. ASSUME NEW e \in Epoch, SetStop(e) PROVE TypeOK'
  BY <1>8 DEF SetStop
<1>9. ASSUME NEW e \in Epoch, WorkerGet(e) PROVE TypeOK'
  BY <1>9 DEF WorkerGet
<1>10. ASSUME NEW e \in Epoch, WorkerExit(e) PROVE TypeOK'
  BY <1>10 DEF WorkerExit
<1>11. ASSUME NEW e \in Epoch, WorkerSkip(e) PROVE TypeOK'
  BY <1>11 DEF WorkerSkip, FinishAdmission, Done
<1>12. ASSUME NEW e \in Epoch, WorkerStart(e) PROVE TypeOK'
  <2>1. cmd' \in [Cmd -> Record] /\ item[e] \in Cmd
    BY <1>12, StartEffect
  <2>2. /\ running' = [running EXCEPT ![owner[e]] = item[e]]
        /\ wpc' = [wpc EXCEPT ![e] = "send"]
        /\ sent' = [sent EXCEPT ![item[e]] = @ + 1]
    BY <1>12 DEF WorkerStart
  <2>3. UNCHANGED <<gateVars, clientVars, recs, counter, clock, epochVars, pq, item, held, answer, preds>>
    BY <1>12 DEF WorkerStart
  <2>4. /\ running' \in [Session -> Cmd \cup {NoCmd}]
        /\ wpc' \in [Epoch -> {"none", "loop", "got", "send", "exited"}]
    BY <2>1, <2>2
  <2>5. sent' \in [Cmd -> Nat]
    BY <2>1, <2>2
  <2> QED
    BY <2>1, <2>3, <2>4, <2>5
<1>13. ASSUME NEW e \in Epoch, NEW outcome \in Outcome, WorkerFinish(e, outcome) PROVE TypeOK'
  <2>1. cmd' \in [Cmd -> Record] /\ recs' \subseteq Cmd /\ clock' \in Nat
    BY <1>13, FinishEffect
  <2>2. running' \in [Session -> Cmd \cup {NoCmd}]
    BY <1>13 DEF WorkerFinish
  <2> QED
    BY <1>13, <2>1, <2>2 DEF WorkerFinish, FinishAdmission, Done
<1>14. ASSUME Beside PROVE TypeOK'
  BY <1>14 DEF Beside
<1> QED
  BY <1>1, <1>2, <1>3, <1>4, <1>5, <1>6, <1>7, <1>8, <1>9, <1>10, <1>11, <1>12, <1>13, <1>14
     DEF ArbiterStep, WorkerStep

------------------------------------------------------------------------------
(* Epochs and workers                                                      *)

\* register_session starts a worker for a fresh epoch, unregister_session only
\* forgets one: EpochsHold is kept.
LEMMA EpochsStep ==
  ASSUME TypeOK, EpochsHold, ArbiterStep
  PROVE  EpochsHold'
<1> DEFINE Same == UNCHANGED <<wpc, item, stop, owner, queues>>
<1>0. ASSUME Same PROVE EpochsHold'
  BY <1>0 DEF EpochsHold
<1> USE EpochNat, NoCmdIsNoCmd
<1>1. ASSUME NEW c \in Cmd, SubmitInvalid(c) \/ SubmitAdmit(c) \/ SubmitFrozen(c) \/ SubmitPut(c)
      PROVE  Same
  BY <1>1 DEF SubmitInvalid, SubmitAdmit, SubmitFrozen, SubmitPut
<1>2. ASSUME NEW c \in Cmd, NEW s \in Session, SubmitRefuse(c, s) \/ SubmitInsert(c, s)
      PROVE  Same
  BY <1>2, InsertFrame DEF SubmitRefuse
<1>3. ASSUME NEW c \in Cmd, Cancel(c) PROVE Same
  BY <1>3, CancelFrame
<1>4. ASSUME NEW s \in Session, Register(s) PROVE EpochsHold'
  <2> DEFINE n == Len(owner) + 1
  <2>1. /\ owner' = Append(owner, s) /\ owner \in Seq(Session)
        /\ queues' = [queues EXCEPT ![s] = n]
        /\ wpc' = [wpc EXCEPT ![n] = "loop"]
        /\ n \in Epoch /\ Len(owner) \in Nat
        /\ UNCHANGED <<item, stop>>
    BY <1>4 DEF Register, TypeOK, Epoch
  <2>2. Len(owner') = n /\ owner'[n] = s /\ \A i \in 1 .. Len(owner) : owner'[i] = owner[i]
    BY <2>1
  <2>3. \A e \in Epoch : e <= n <=> e <= Len(owner) \/ e = n
    BY <2>1
  <2>4. ~stop[n] /\ wpc[n] = "none" /\ item[n] = NoCmd
    <3>1. n \in Epoch /\ ~(n <= Len(owner))
      BY <2>1
    <3> HIDE DEF n
    <3> QED
      BY <3>1 DEF EpochsHold
  <2>5. \A e \in Epoch :
          /\ wpc'[e] # "none" <=> e <= Len(owner')
          /\ wpc'[e] \in {"got", "send"} <=> item'[e] # NoCmd
          /\ stop'[e] => e <= Len(owner')
    BY <2>1, <2>2, <2>3, <2>4 DEF EpochsHold, TypeOK
  <2>6. \A t \in Session : queues'[t] # 0 => owner'[queues'[t]] = t /\ ~stop'[queues'[t]]
    <3>1. \A t \in Session : queues[t] # 0 => queues[t] \in 1 .. Len(owner)
      BY DEF TypeOK
    <3> QED
      BY <2>1, <2>2, <2>4, <3>1 DEF EpochsHold, TypeOK
  <2> QED
    BY <2>5, <2>6 DEF EpochsHold
<1>5. ASSUME NEW s \in Session, NEW code \in Flushed, FlushSession(s, code) \/ Unregister(s, code)
      PROVE  EpochsHold'
  <2>1. /\ queues' = queues \/ queues' = [queues EXCEPT ![s] = 0]
        /\ UNCHANGED <<wpc, item, stop, owner>>
    BY <1>5, FlushFrame
  <2>2. \A t \in Session : queues'[t] # 0 => queues'[t] = queues[t]
    BY <2>1 DEF TypeOK
  <2> QED
    BY <2>1, <2>2 DEF EpochsHold
<1>6. ASSUME NEW e \in Epoch, SetStop(e) PROVE EpochsHold'
  <2>1. \A s \in Session : queues[s] # 0 => queues[s] # e
    BY <1>6 DEF SetStop, EpochsHold, TypeOK
  <2> QED
    BY <1>6, <2>1 DEF SetStop, EpochsHold, TypeOK
<1>7. ASSUME NEW e \in Epoch, WorkerGet(e) PROVE EpochsHold'
  BY <1>7 DEF WorkerGet, EpochsHold, TypeOK
<1>8. ASSUME NEW e \in Epoch, WorkerExit(e) PROVE EpochsHold'
  BY <1>8 DEF WorkerExit, EpochsHold, TypeOK
<1>9. ASSUME NEW e \in Epoch, WorkerSkip(e) PROVE EpochsHold'
  BY <1>9 DEF WorkerSkip, EpochsHold, TypeOK
<1>10. ASSUME NEW e \in Epoch, WorkerStart(e) PROVE EpochsHold'
  BY <1>10, StartFrame DEF EpochsHold, TypeOK
<1>11. ASSUME NEW e \in Epoch, NEW outcome \in Outcome, WorkerFinish(e, outcome) PROVE EpochsHold'
  <2>1. /\ wpc[e] = "send"
        /\ wpc' = [wpc EXCEPT ![e] = "loop"]
        /\ item' = [item EXCEPT ![e] = NoCmd]
        /\ UNCHANGED epochVars
    BY <1>11, FinishFrame
  <2> QED
    BY <2>1 DEF EpochsHold, TypeOK
<1>12. ASSUME Beside PROVE Same
  BY <1>12 DEF Beside
<1> QED
  BY <1>0, <1>1, <1>2, <1>3, <1>4, <1>5, <1>6, <1>7, <1>8, <1>9, <1>10, <1>11, <1>12
     DEF ArbiterStep, WorkerStep

------------------------------------------------------------------------------
(* Records and places                                                      *)

\* A record keeps its session and its place in the order, and is evicted only
\* after it has ended: RecordsHold is kept.
LEMMA RecordsStep ==
  ASSUME TypeOK, RecordsHold, ArbiterStep
  PROVE  RecordsHold'
<1> USE DEF Accepted
<1>0. \A c \in Cmd : cmd[c].doneAt \in Nat /\ cmd[c].seq \in Nat
  BY RecordFields DEF TypeOK
<1>1. ASSUME NEW c \in Cmd, SubmitInvalid(c) \/ SubmitAdmit(c) \/ SubmitFrozen(c)
      PROVE  RecordsHold'
  BY <1>1 DEF SubmitInvalid, SubmitAdmit, SubmitFrozen, RecordsHold, TypeOK
<1>2. ASSUME NEW c \in Cmd, SubmitPut(c) PROVE RecordsHold'
  BY <1>2 DEF SubmitPut, RecordsHold, TypeOK
<1>3. ASSUME NEW c \in Cmd, NEW s \in Session, SubmitRefuse(c, s) PROVE RecordsHold'
  BY <1>3 DEF SubmitRefuse, AtLock, RecordsHold, TypeOK
<1>4. ASSUME NEW c \in Cmd, NEW s \in Session, SubmitInsert(c, s) PROVE RecordsHold'
  <2>1. /\ \A b \in Cmd \ {c} : cmd'[b] = cmd[b]
        /\ cmd'[c].session = s /\ cmd'[c].status = "accepted" /\ cmd'[c].doneAt = 0
        /\ cmd'[c].seq = counter + 1
        /\ recs' \subseteq recs \cup {c} /\ c \in recs'
        /\ \A b \in recs : cmd'[b].doneAt = 0 => b \in recs'
    BY <1>4, InsertEffect
  <2>2. counter' = counter + 1 /\ spc' = [spc EXCEPT ![c] = "inserted"] /\ counter \in Nat
    BY <1>4, InsertFrame DEF TypeOK
  <2> QED
    BY SMTT(20), <1>0, <2>1, <2>2 DEF RecordsHold, TypeOK
<1>5. ASSUME NEW c \in Cmd, Cancel(c) PROVE RecordsHold'
  <2>1. /\ \A b \in Cmd \ {c} : cmd'[b] = cmd[b]
        /\ cmd'[c].session = cmd[c].session /\ cmd'[c].seq = cmd[c].seq
        /\ cmd'[c].status = "canceled" /\ cmd'[c].doneAt = clock + 1
        /\ recs' \subseteq recs
        /\ \A b \in recs : cmd'[b].doneAt = 0 => b \in recs'
    BY <1>5, CancelEffect
  <2>2. UNCHANGED <<spc, counter>> /\ clock \in Nat
    BY <1>5, CancelFrame DEF TypeOK
  <2> QED
    BY <2>1, <2>2 DEF RecordsHold
<1>6. ASSUME NEW s \in Session, Register(s) PROVE RecordsHold'
  BY <1>6 DEF Register, RecordsHold
<1>7. ASSUME NEW s \in Session, NEW code \in Flushed, FlushSession(s, code) \/ Unregister(s, code)
      PROVE  RecordsHold'
  <2>1. UNCHANGED <<spc, counter, recs>> /\ FlushLocked(s, code) /\ clock \in Nat
    BY <1>7, FlushFrame DEF TypeOK
  <2>2. /\ \A b \in Cmd \ Waiting(s) : cmd'[b] = cmd[b]
        /\ \A b \in Waiting(s) :
              /\ cmd'[b].session = cmd[b].session /\ cmd'[b].seq = cmd[b].seq
              /\ cmd'[b].status = "error" /\ cmd'[b].doneAt = clock + 1
    BY <2>1, FlushEffect
  <2> QED
    BY <2>1, <2>2 DEF RecordsHold
<1>8. ASSUME NEW e \in Epoch, SetStop(e) \/ WorkerGet(e) \/ WorkerExit(e) \/ WorkerSkip(e)
      PROVE  RecordsHold'
  BY <1>8 DEF SetStop, WorkerGet, WorkerExit, WorkerSkip, RecordsHold
<1>9. ASSUME NEW e \in Epoch, WorkerStart(e) PROVE RecordsHold'
  <2>1. /\ item[e] \in recs /\ item[e] \in Cmd
        /\ \A b \in Cmd \ {item[e]} : cmd'[b] = cmd[b]
        /\ cmd'[item[e]].session = cmd[item[e]].session /\ cmd'[item[e]].seq = cmd[item[e]].seq
        /\ cmd'[item[e]].status = "running" /\ cmd'[item[e]].doneAt = 0
    BY <1>9, StartEffect
  <2>2. UNCHANGED <<spc, counter, recs>>
    BY <1>9, StartFrame
  <2> QED
    BY <2>1, <2>2 DEF RecordsHold
<1>10. ASSUME NEW e \in Epoch, NEW outcome \in Outcome, WorkerFinish(e, outcome) PROVE RecordsHold'
  <2>1. /\ \A b \in Cmd : b # item[e] \/ b \notin recs => cmd'[b] = cmd[b]
        /\ item[e] \in recs =>
              LET r == cmd[item[e]]
                  q == cmd'[item[e]]
              IN /\ q.session = r.session /\ q.seq = r.seq
                 /\ q.status \in {"canceled", "done", "error", "interactive"}
                 /\ r.doneAt # 0 \/ r.status # "canceled" => q.doneAt # 0
        /\ recs' \subseteq recs
        /\ \A b \in recs : cmd'[b].doneAt = 0 => b \in recs'
    BY <1>10, FinishEffect
  <2>2. UNCHANGED <<spc, counter>>
    BY <1>10, FinishFrame
  <2> QED
    BY <2>1, <2>2 DEF RecordsHold
<1>11. ASSUME Beside PROVE RecordsHold'
  BY <1>11 DEF Beside, RecordsHold
<1> QED
  BY <1>1, <1>2, <1>3, <1>4, <1>5, <1>6, <1>7, <1>8, <1>9, <1>10, <1>11
     DEF ArbiterStep, WorkerStep

\* A command moves from its client to one queue to one worker: PlacesHold is kept.
LEMMA PlacesStep ==
  ASSUME TypeOK, EpochsHold, PlacesHold, RecordsHold, ArbiterStep
  PROVE  PlacesHold'
<1> DEFINE Same == /\ UNCHANGED <<spc, at, owner, pq, item>>
                   /\ \A c \in Cmd : cmd'[c].session = cmd[c].session
<1>0. ASSUME Same PROVE PlacesHold'
  BY <1>0 DEF PlacesHold, TypeOK
<1> USE EpochNat, NoCmdIsNoCmd
<1>a. /\ spc \in [Cmd -> Step] /\ at \in [Cmd -> 0 .. Len(owner)] /\ owner \in Seq(Session)
      /\ pq \in [Epoch -> SUBSET Cmd] /\ item \in [Epoch -> Cmd \cup {NoCmd}]
      /\ recs \subseteq Cmd
  BY DEF TypeOK
<1>1. ASSUME NEW c \in Cmd, SubmitInvalid(c) \/ SubmitAdmit(c) \/ SubmitFrozen(c)
      PROVE  PlacesHold'
  <2>1. PICK x \in {"admitted", "refused"} : spc[c] = "new" /\ spc' = [spc EXCEPT ![c] = x]
    BY <1>1 DEF SubmitInvalid, SubmitAdmit, SubmitFrozen
  <2>2. UNCHANGED <<at, owner, cmd, pq, item>>
    BY <1>1 DEF SubmitInvalid, SubmitAdmit, SubmitFrozen
  <2>3. \A e \in Epoch : c \notin pq[e] /\ item[e] # c
    <3>1. spc[c] # "accepted"
      BY <2>1
    <3>2. ASSUME NEW e \in Epoch, c \in pq[e] PROVE FALSE
      BY <3>1, <3>2 DEF PlacesHold
    <3>3. ASSUME NEW e \in Epoch, item[e] = c PROVE FALSE
      <4>1. item[e] # NoCmd
        BY <3>3
      <4>2. spc[item[e]] = "accepted"
        BY <4>1 DEF PlacesHold
      <4> QED
        BY <3>1, <3>3, <4>2
    <3> QED
      BY <3>2, <3>3
  <2> QED
    BY <1>a, <2>1, <2>2, <2>3 DEF PlacesHold
<1>2. ASSUME NEW c \in Cmd, SubmitPut(c) PROVE PlacesHold'
  <2>1. /\ spc[c] = "inserted"
        /\ pq' = [pq EXCEPT ![at[c]] = @ \cup {c}]
        /\ at' = [at EXCEPT ![c] = 0]
        /\ spc' = [spc EXCEPT ![c] = "accepted"]
        /\ UNCHANGED <<cmd, owner, item>>
    BY <1>2 DEF SubmitPut
  <2>2. at[c] \in 1 .. Len(owner) /\ owner[at[c]] = cmd[c].session /\ at[c] \in Epoch
    BY <2>1 DEF PlacesHold, TypeOK, Epoch
  <2>3. \A e \in Epoch : c \notin pq[e] /\ item[e] # c
    BY SMTT(20), <1>a, <2>1 DEF PlacesHold
  <2>4. \A e \in Epoch : pq'[e] = IF e = at[c] THEN pq[e] \cup {c} ELSE pq[e]
    BY <1>a, <2>1, <2>2
  <2>5. \A b \in Cmd : spc'[b] = "inserted" =>
          at'[b] \in 1 .. Len(owner') /\ owner'[at'[b]] = cmd'[b].session
    BY <1>a, <2>1 DEF PlacesHold
  <2>6. \A e \in Epoch : \A b \in pq'[e] :
          /\ spc'[b] = "accepted"
          /\ e <= Len(owner') /\ owner'[e] = cmd'[b].session
          /\ \A f \in Epoch : item'[f] # b /\ (b \in pq'[f] => f = e)
    BY <1>a, <2>1, <2>2, <2>3, <2>4 DEF PlacesHold
  <2>7. \A e \in Epoch : item'[e] # NoCmd =>
          /\ spc'[item'[e]] = "accepted"
          /\ owner'[e] = cmd'[item'[e]].session
          /\ \A f \in Epoch : item'[f] = item'[e] => f = e
    BY <1>a, <2>1 DEF PlacesHold
  <2> QED
    BY <2>5, <2>6, <2>7 DEF PlacesHold
<1>3. ASSUME NEW c \in Cmd, NEW s \in Session, SubmitRefuse(c, s) PROVE PlacesHold'
  BY <1>3, <1>a DEF SubmitRefuse, AtLock, PlacesHold
<1>4. ASSUME NEW c \in Cmd, NEW s \in Session, SubmitInsert(c, s) PROVE PlacesHold'
  <2>1. /\ \A b \in Cmd \ {c} : cmd'[b] = cmd[b]
        /\ cmd'[c].session = s
    BY <1>4, InsertEffect
  <2>2. /\ spc[c] # "inserted" /\ spc[c] # "accepted" /\ queues[s] # 0
        /\ at' = [at EXCEPT ![c] = queues[s]]
        /\ spc' = [spc EXCEPT ![c] = "inserted"]
        /\ UNCHANGED <<owner, pq, item>>
    BY <1>4, InsertFrame DEF AtLock
  <2>3. queues[s] \in 1 .. Len(owner) /\ owner[queues[s]] = s
    BY <2>2 DEF EpochsHold, TypeOK
  <2>4. \A e \in Epoch : c \notin pq[e] /\ item[e] # c
    BY <1>a, <2>2 DEF PlacesHold
  <2>5. \A b \in Cmd : spc'[b] = "inserted" =>
          at'[b] \in 1 .. Len(owner') /\ owner'[at'[b]] = cmd'[b].session
    BY <1>a, <2>1, <2>2, <2>3 DEF PlacesHold
  <2>6. \A e \in Epoch : \A b \in pq'[e] :
          /\ spc'[b] = "accepted"
          /\ e <= Len(owner') /\ owner'[e] = cmd'[b].session
          /\ \A f \in Epoch : item'[f] # b /\ (b \in pq'[f] => f = e)
    BY <1>a, <2>1, <2>2, <2>4 DEF PlacesHold
  <2>7. \A e \in Epoch : item'[e] # NoCmd =>
          /\ spc'[item'[e]] = "accepted"
          /\ owner'[e] = cmd'[item'[e]].session
          /\ \A f \in Epoch : item'[f] = item'[e] => f = e
    <3>1. \A e \in Epoch : item'[e] = item[e] /\ (item[e] # NoCmd => item[e] \in Cmd \ {c})
      BY <1>a, <2>2, <2>4
    <3>2. \A b \in Cmd \ {c} : spc'[b] = spc[b]
      BY <1>a, <2>2
    <3> QED
      BY <2>1, <2>2, <3>1, <3>2 DEF PlacesHold
  <2> QED
    BY <2>5, <2>6, <2>7 DEF PlacesHold
<1>5. ASSUME NEW c \in Cmd, Cancel(c) PROVE Same
  BY <1>5, CancelEffect, CancelFrame
<1>6. ASSUME NEW s \in Session, Register(s) PROVE PlacesHold'
  <2>1. owner' = Append(owner, s) /\ UNCHANGED <<spc, at, cmd, pq, item, recs>>
    BY <1>6 DEF Register
  <2>2. Len(owner') = Len(owner) + 1 /\ \A i \in 1 .. Len(owner) : owner'[i] = owner[i]
    BY <1>a, <2>1
  <2>3. \A e \in Epoch : e <= Len(owner) => e \in 1 .. Len(owner) /\ e <= Len(owner')
    BY <1>a, <2>2
  <2>4. \A e \in Epoch : item[e] # NoCmd => e <= Len(owner)
    BY DEF EpochsHold
  <2>5. \A b \in Cmd : spc'[b] = "inserted" =>
          at'[b] \in 1 .. Len(owner') /\ owner'[at'[b]] = cmd'[b].session
    BY <1>a, <2>1, <2>2 DEF PlacesHold
  <2>6. \A e \in Epoch : \A b \in pq'[e] :
          /\ spc'[b] = "accepted"
          /\ e <= Len(owner') /\ owner'[e] = cmd'[b].session
          /\ \A f \in Epoch : item'[f] # b /\ (b \in pq'[f] => f = e)
    BY <1>a, <2>1, <2>2, <2>3 DEF PlacesHold
  <2>7. \A e \in Epoch : item'[e] # NoCmd =>
          /\ spc'[item'[e]] = "accepted"
          /\ owner'[e] = cmd'[item'[e]].session
          /\ \A f \in Epoch : item'[f] = item'[e] => f = e
    BY <1>a, <2>1, <2>2, <2>3, <2>4 DEF PlacesHold
  <2> QED
    BY <2>5, <2>6, <2>7 DEF PlacesHold
<1>7. ASSUME NEW s \in Session, NEW code \in Flushed, FlushSession(s, code) \/ Unregister(s, code)
      PROVE  Same
  BY <1>7, FlushFrame, FlushEffect
<1>8. ASSUME NEW e \in Epoch, SetStop(e) PROVE Same
  BY <1>8 DEF SetStop
<1>9. ASSUME NEW e \in Epoch, WorkerGet(e) PROVE PlacesHold'
  <2>1. PICK c \in pq[e] : item' = [item EXCEPT ![e] = c] /\ pq' = [pq EXCEPT ![e] = @ \ {c}]
    BY <1>9 DEF WorkerGet
  <2>2. UNCHANGED <<spc, at, owner, cmd>> /\ item[e] = NoCmd
    BY <1>9 DEF WorkerGet, EpochsHold
  <2>3. \A f \in Epoch : /\ item'[f] = IF f = e THEN c ELSE item[f]
                         /\ pq'[f] = IF f = e THEN pq[e] \ {c} ELSE pq[f]
    BY <1>a, <2>1
  <2>4. c \in Cmd /\ c # NoCmd
    BY <1>a
  <2>5. /\ spc[c] = "accepted" /\ owner[e] = cmd[c].session
        /\ \A f \in Epoch : item[f] # c /\ (c \in pq[f] => f = e)
    BY DEF PlacesHold
  <2>6. \A b \in Cmd : spc'[b] = "inserted" =>
          at'[b] \in 1 .. Len(owner') /\ owner'[at'[b]] = cmd'[b].session
    BY <2>2 DEF PlacesHold
  <2>7. \A f \in Epoch : \A b \in pq'[f] :
          /\ spc'[b] = "accepted"
          /\ f <= Len(owner') /\ owner'[f] = cmd'[b].session
          /\ \A g \in Epoch : item'[g] # b /\ (b \in pq'[g] => g = f)
    BY <2>2, <2>3, <2>5 DEF PlacesHold
  <2>8. \A f \in Epoch : item'[f] # NoCmd =>
          /\ spc'[item'[f]] = "accepted"
          /\ owner'[f] = cmd'[item'[f]].session
          /\ \A g \in Epoch : item'[g] = item'[f] => g = f
    BY <2>2, <2>3, <2>4, <2>5 DEF PlacesHold
  <2> QED
    BY <2>6, <2>7, <2>8 DEF PlacesHold
<1>10. ASSUME NEW e \in Epoch, WorkerExit(e) \/ WorkerSkip(e) PROVE PlacesHold'
  <2>1. item' = [item EXCEPT ![e] = NoCmd] /\ UNCHANGED <<spc, at, owner, cmd, pq>>
    BY <1>10 DEF WorkerExit, WorkerSkip
  <2> QED
    BY <1>a, <2>1 DEF PlacesHold
<1>11. ASSUME NEW e \in Epoch, WorkerStart(e) PROVE Same
  BY <1>11, StartEffect, StartFrame
<1>12. ASSUME NEW e \in Epoch, NEW outcome \in Outcome, WorkerFinish(e, outcome) PROVE PlacesHold'
  <2>1. item' = [item EXCEPT ![e] = NoCmd] /\ UNCHANGED <<spc, at, owner, pq>>
    BY <1>12, FinishFrame
  <2>2. \A c \in Cmd : cmd'[c].session = cmd[c].session
    BY <1>12, FinishEffect
  <2> QED
    BY <1>a, <2>1, <2>2 DEF PlacesHold
<1>13. ASSUME Beside PROVE Same
  BY <1>13 DEF Beside
<1> QED
  BY <1>0, <1>1, <1>2, <1>3, <1>4, <1>5, <1>6, <1>7, <1>8, <1>9, <1>10, <1>11, <1>12, <1>13
     DEF ArbiterStep, WorkerStep

\* A waiting command keeps its way to the worker of the registered epoch.
LEMMA WaitingStep ==
  ASSUME TypeOK, EpochsHold, PlacesHold, RecordsHold, WaitingHolds, ArbiterStep
  PROVE  WaitingHolds'
<1> USE EpochNat, NoCmdIsNoCmd
<1>a. /\ spc \in [Cmd -> Step] /\ at \in [Cmd -> 0 .. Len(owner)] /\ owner \in Seq(Session)
      /\ pq \in [Epoch -> SUBSET Cmd] /\ item \in [Epoch -> Cmd \cup {NoCmd}]
      /\ wpc \in [Epoch -> {"none", "loop", "got", "send", "exited"}]
      /\ queues \in [Session -> 0 .. Len(owner)]
      /\ recs \subseteq Cmd
  BY DEF TypeOK
<1>b. ASSUME NEW c \in Cmd, cmd[c].status = "accepted"
      PROVE  /\ spc[c] \in Accepted /\ c \in recs /\ cmd[c].doneAt = 0
             /\ cmd[c].session \in Session
             /\ queues[cmd[c].session] \in Epoch
             /\ ~stop[queues[cmd[c].session]]
             /\ \A s \in Session : queues[s] = queues[cmd[c].session] => s = cmd[c].session
  <2>1. spc[c] \in Accepted /\ c \in recs /\ cmd[c].doneAt = 0 /\ cmd[c].session \in Session
    BY <1>b DEF RecordsHold
  <2>2. queues[cmd[c].session] \in 1 .. Len(owner) /\ Len(owner) <= MaxEpoch
    BY <1>a, <1>b, <2>1 DEF WaitingHolds, TypeOK
  <2>3. queues[cmd[c].session] \in Epoch
    BY <1>a, <2>2 DEF Epoch
  <2> QED
    BY <1>a, <2>1, <2>2, <2>3 DEF EpochsHold
\* A step that gives no record the status accepted, and moves no command.
<1> DEFINE Fewer == \A c \in Cmd : cmd'[c].status = "accepted" => cmd'[c] = cmd[c]
<1>0. ASSUME Fewer, UNCHANGED <<spc, at, queues, pq, item, wpc>> PROVE WaitingHolds'
  BY <1>0 DEF WaitingHolds
<1>1. ASSUME NEW c \in Cmd, SubmitInvalid(c) \/ SubmitAdmit(c) \/ SubmitFrozen(c)
      PROVE  WaitingHolds'
  <2>1. /\ spc[c] = "new" /\ \A b \in Cmd \ {c} : spc'[b] = spc[b]
        /\ UNCHANGED <<at, queues, cmd, pq, item, wpc>>
    BY <1>1, <1>a DEF SubmitInvalid, SubmitAdmit, SubmitFrozen
  <2>2. cmd[c].status # "accepted"
    BY <1>b, <2>1 DEF Accepted
  <2> QED
    BY <2>1, <2>2 DEF WaitingHolds
<1>2. ASSUME NEW c \in Cmd, SubmitPut(c) PROVE WaitingHolds'
  <2>1. /\ spc[c] = "inserted"
        /\ pq' = [pq EXCEPT ![at[c]] = @ \cup {c}]
        /\ at' = [at EXCEPT ![c] = 0]
        /\ spc' = [spc EXCEPT ![c] = "accepted"]
        /\ UNCHANGED <<cmd, queues, item, wpc>>
    BY <1>2 DEF SubmitPut
  <2>2. SUFFICES ASSUME NEW b \in Cmd, cmd[b].status = "accepted"
                 PROVE  LET e == queues[cmd[b].session]
                        IN /\ e # 0
                           /\ \/ spc'[b] = "inserted" /\ at'[b] = e
                              \/ b \in pq'[e]
                              \/ item[e] = b /\ wpc[e] = "got"
    BY <2>1 DEF WaitingHolds
  <2>3. \A e \in Epoch : c \notin pq[e] /\ item[e] # c
    BY <1>a, <2>1 DEF PlacesHold
  <2> DEFINE e == queues[cmd[b].session]
  <2>4. e \in Epoch /\ e # 0
    BY <1>b, <2>2
  <2>5. \/ spc[b] = "inserted" /\ at[b] = e
        \/ b \in pq[e]
        \/ item[e] = b /\ wpc[e] = "got"
    BY <2>2 DEF WaitingHolds
  <2>6. pq[e] \subseteq pq'[e] /\ (at[c] = e => c \in pq'[e])
    BY <1>a, <2>1, <2>4
  <2> QED
    BY <1>a, <2>1, <2>3, <2>4, <2>5, <2>6
<1>3. ASSUME NEW c \in Cmd, NEW s \in Session, SubmitRefuse(c, s) PROVE WaitingHolds'
  <2>1. /\ AtLock(c) /\ \A b \in Cmd \ {c} : spc'[b] = spc[b]
        /\ UNCHANGED <<at, queues, cmd, pq, item, wpc>>
    BY <1>3, <1>a DEF SubmitRefuse
  <2>2. cmd[c].status # "accepted"
    BY <1>b, <2>1 DEF AtLock, Accepted
  <2> QED
    BY <2>1, <2>2 DEF WaitingHolds
<1>4. ASSUME NEW c \in Cmd, NEW s \in Session, SubmitInsert(c, s) PROVE WaitingHolds'
  <2>1. /\ \A b \in Cmd \ {c} : cmd'[b] = cmd[b]
        /\ cmd'[c].session = s
    BY <1>4, InsertEffect
  <2>2. /\ queues[s] # 0
        /\ at'[c] = queues[s] /\ spc'[c] = "inserted"
        /\ \A b \in Cmd \ {c} : at'[b] = at[b] /\ spc'[b] = spc[b]
        /\ UNCHANGED <<queues, pq, item, wpc>>
    <3>1. /\ queues[s] # 0
          /\ at' = [at EXCEPT ![c] = queues[s]] /\ spc' = [spc EXCEPT ![c] = "inserted"]
          /\ UNCHANGED <<queues, pq, item, wpc>>
      BY <1>4, InsertFrame
    <3> QED
      BY <1>a, <3>1
  <2> QED
    BY <2>1, <2>2 DEF WaitingHolds
<1>5. ASSUME NEW c \in Cmd, Cancel(c) PROVE WaitingHolds'
  <2>1. Fewer
    BY <1>5, CancelEffect
  <2>2. UNCHANGED <<spc, at, queues, pq, item, wpc>>
    BY <1>5, CancelFrame
  <2> QED
    BY <1>0, <2>1, <2>2
<1>6. ASSUME NEW s \in Session, Register(s) PROVE WaitingHolds'
  <2>1. /\ queues[s] = 0
        /\ \A t \in Session \ {s} : queues'[t] = queues[t]
        /\ \A e \in Epoch : wpc[e] = "got" => wpc'[e] = "got"
        /\ UNCHANGED <<spc, at, cmd, pq, item>>
    <3>1. queues[s] = 0 /\ UNCHANGED <<spc, at, cmd, pq, item>>
      BY <1>6 DEF Register
    <3>2. \A t \in Session \ {s} : queues'[t] = queues[t]
      BY <1>6, <1>a DEF Register
    <3>3. wpc[Len(owner) + 1] = "none" /\ Len(owner) + 1 \in Epoch
      <4>1. Len(owner) + 1 \in Epoch /\ ~(Len(owner) + 1 <= Len(owner))
        BY <1>6, <1>a DEF Register, Epoch
      <4> QED
        BY <4>1 DEF EpochsHold
    <3>4. \A e \in Epoch : wpc[e] = "got" => wpc'[e] = "got"
      BY <1>6, <1>a, <3>3 DEF Register
    <3> QED
      BY <3>1, <3>2, <3>4
  <2>2. \A c \in Cmd : cmd[c].status = "accepted" =>
          cmd[c].session # s /\ cmd[c].session \in Session /\ queues[cmd[c].session] \in Epoch
    BY <1>b, <2>1
  <2> QED
    BY ZenonT(40), <2>1, <2>2 DEF WaitingHolds
<1>7. ASSUME NEW s \in Session, NEW code \in Flushed, FlushSession(s, code) \/ Unregister(s, code)
      PROVE  WaitingHolds'
  <2>1. /\ queues' = queues \/ queues' = [queues EXCEPT ![s] = 0]
        /\ UNCHANGED <<spc, at, pq, item, wpc>>
        /\ FlushLocked(s, code)
    BY <1>7, FlushFrame
  <2>2. /\ \A b \in Cmd \ Waiting(s) : cmd'[b] = cmd[b]
        /\ \A b \in Waiting(s) : cmd'[b].status = "error"
    BY <2>1, FlushEffect
  <2>3. \A c \in Cmd : cmd'[c].status = "accepted" =>
          cmd'[c] = cmd[c] /\ cmd[c].session \in Session /\ cmd[c].session # s
    BY <1>b, <2>2 DEF Waiting
  <2>4. \A t \in Session : t # s => queues'[t] = queues[t]
    BY <1>a, <2>1
  <2> QED
    BY <2>1, <2>3, <2>4 DEF WaitingHolds
<1>8. ASSUME NEW e \in Epoch, SetStop(e) PROVE WaitingHolds'
  BY <1>8, <1>0 DEF SetStop
<1>9. ASSUME NEW e \in Epoch, WorkerGet(e) PROVE WaitingHolds'
  <2>1. PICK c \in pq[e] : item' = [item EXCEPT ![e] = c] /\ pq' = [pq EXCEPT ![e] = @ \ {c}]
    BY <1>9 DEF WorkerGet
  <2>2. /\ UNCHANGED <<spc, at, queues, cmd>> /\ item[e] = NoCmd
        /\ wpc' = [wpc EXCEPT ![e] = "got"]
    BY <1>9 DEF WorkerGet, EpochsHold
  <2>3. \A f \in Epoch : /\ item'[f] = IF f = e THEN c ELSE item[f]
                         /\ pq'[f] = IF f = e THEN pq[e] \ {c} ELSE pq[f]
                         /\ wpc'[f] = IF f = e THEN "got" ELSE wpc[f]
    BY <1>a, <2>1, <2>2
  <2> SUFFICES ASSUME NEW b \in Cmd, cmd[b].status = "accepted"
               PROVE  LET f == queues[cmd[b].session]
                      IN /\ f # 0
                         /\ \/ spc[b] = "inserted" /\ at[b] = f
                            \/ b \in pq'[f]
                            \/ item'[f] = b /\ wpc'[f] = "got"
    BY <2>2 DEF WaitingHolds
  <2> DEFINE f == queues[cmd[b].session]
  <2>4. f \in Epoch /\ f # 0
    BY <1>b
  <2>5. \/ spc[b] = "inserted" /\ at[b] = f
        \/ b \in pq[f]
        \/ item[f] = b /\ wpc[f] = "got"
    BY DEF WaitingHolds
  <2> HIDE DEF f
  <2>6. \/ spc[b] = "inserted" /\ at[b] = f
        \/ b \in pq'[f]
        \/ item'[f] = b /\ wpc'[f] = "got"
    BY <2>2, <2>3, <2>4, <2>5
  <2> QED
    BY <2>4, <2>6 DEF f
<1>10. ASSUME NEW e \in Epoch, WorkerExit(e) \/ WorkerSkip(e) PROVE WaitingHolds'
  <2>1. /\ stop[e] \/ Dead(item[e])
        /\ UNCHANGED <<spc, at, queues, cmd, pq>>
        /\ \A f \in Epoch \ {e} : item'[f] = item[f] /\ wpc'[f] = wpc[f]
    BY <1>10, <1>a DEF WorkerExit, WorkerSkip
  <2>2. \A c \in Cmd : cmd[c].status = "accepted" =>
          queues[cmd[c].session] \in Epoch /\ (item[e] = c => queues[cmd[c].session] # e)
    <3> SUFFICES ASSUME NEW c \in Cmd, cmd[c].status = "accepted", item[e] = c
                 PROVE  queues[cmd[c].session] # e
      BY <1>b
    <3>1. ~Dead(c)
      BY <1>b DEF Dead
    <3> QED
      BY <1>b, <2>1, <3>1
  <2> QED
    BY ZenonT(40), <2>1, <2>2 DEF WaitingHolds
<1>11. ASSUME NEW e \in Epoch, WorkerStart(e) PROVE WaitingHolds'
  <2>1. /\ \A b \in Cmd \ {item[e]} : cmd'[b] = cmd[b]
        /\ cmd'[item[e]].status = "running"
    BY <1>11, StartEffect
  <2>2. /\ UNCHANGED <<spc, at, queues, pq, item>>
        /\ wpc' = [wpc EXCEPT ![e] = "send"]
    BY <1>11, StartFrame
  <2>3. \A b \in Cmd : cmd'[b].status = "accepted" =>
          cmd'[b] = cmd[b] /\ queues[cmd[b].session] \in Epoch /\ item[e] # b
    BY <1>b, <2>1
  <2> QED
    BY <1>a, <2>2, <2>3 DEF WaitingHolds
<1>12. ASSUME NEW e \in Epoch, NEW outcome \in Outcome, WorkerFinish(e, outcome) PROVE WaitingHolds'
  <2>1. \A b \in Cmd : cmd'[b].status = "accepted" => cmd'[b] = cmd[b]
    BY <1>12, FinishEffect
  <2>2. /\ UNCHANGED <<spc, at, queues, pq>> /\ wpc[e] = "send"
        /\ \A f \in Epoch \ {e} : item'[f] = item[f] /\ wpc'[f] = wpc[f]
    BY <1>12, <1>a, FinishFrame
  <2> SUFFICES ASSUME NEW b \in Cmd, cmd'[b].status = "accepted"
               PROVE  LET f == queues[cmd[b].session]
                      IN /\ f # 0
                         /\ \/ spc[b] = "inserted" /\ at[b] = f
                            \/ b \in pq[f]
                            \/ item'[f] = b /\ wpc'[f] = "got"
    BY <2>1, <2>2 DEF WaitingHolds
  <2> DEFINE f == queues[cmd[b].session]
  <2>3. cmd[b].status = "accepted" /\ f \in Epoch /\ f # 0
    BY <1>b, <2>1
  <2>4. \/ spc[b] = "inserted" /\ at[b] = f
        \/ b \in pq[f]
        \/ item[f] = b /\ wpc[f] = "got"
    BY <2>3 DEF WaitingHolds
  <2> HIDE DEF f
  <2>5. wpc[f] = "got" => item'[f] = item[f] /\ wpc'[f] = wpc[f]
    BY <2>2, <2>3
  <2> QED
    BY <2>3, <2>4, <2>5 DEF f
<1>13. ASSUME Beside PROVE WaitingHolds'
  BY <1>13, <1>0 DEF Beside
<1> QED
  BY <1>1, <1>2, <1>3, <1>4, <1>5, <1>6, <1>7, <1>8, <1>9, <1>10, <1>11, <1>12, <1>13
     DEF ArbiterStep, WorkerStep

------------------------------------------------------------------------------
(* What is sent                                                            *)

\* send_cb is called only by the worker that took a waiting command, and that
\* command waits no longer: SentHolds is kept.
LEMMA SentStep ==
  ASSUME TypeOK, EpochsHold, PlacesHold, RecordsHold, SentHolds, ArbiterStep
  PROVE  SentHolds'
<1> USE EpochNat, NoCmdIsNoCmd
<1>a. /\ spc \in [Cmd -> Step]
      /\ pq \in [Epoch -> SUBSET Cmd] /\ item \in [Epoch -> Cmd \cup {NoCmd}]
      /\ wpc \in [Epoch -> {"none", "loop", "got", "send", "exited"}]
      /\ sent \in [Cmd -> Nat] /\ clock \in Nat
      /\ recs \subseteq Cmd
  BY DEF TypeOK
<1>1. ASSUME NEW c \in Cmd, SubmitInvalid(c) \/ SubmitAdmit(c) \/ SubmitFrozen(c)
      PROVE  SentHolds'
  <2>1. /\ spc[c] = "new" /\ \A b \in Cmd \ {c} : spc'[b] = spc[b]
        /\ UNCHANGED <<cmd, pq, item, wpc, sent>>
    BY <1>1, <1>a DEF SubmitInvalid, SubmitAdmit, SubmitFrozen
  <2>2. sent[c] = 0
    BY <2>1 DEF SentHolds
  <2> QED
    BY <2>1, <2>2 DEF SentHolds
<1>2. ASSUME NEW c \in Cmd, SubmitPut(c) PROVE SentHolds'
  <2>1. /\ spc[c] = "inserted"
        /\ pq' = [pq EXCEPT ![at[c]] = @ \cup {c}]
        /\ spc' = [spc EXCEPT ![c] = "accepted"]
        /\ UNCHANGED <<cmd, item, wpc, sent>>
    BY <1>2 DEF SubmitPut
  <2>2. sent[c] = 0
    BY <2>1 DEF SentHolds
  <2>3. /\ \A b \in Cmd \ {c} : spc'[b] = spc[b]
        /\ \A e \in Epoch : pq'[e] \subseteq pq[e] \cup {c}
    BY <1>a, <2>1
  <2> QED
    BY <2>1, <2>2, <2>3 DEF SentHolds
<1>3. ASSUME NEW c \in Cmd, NEW s \in Session, SubmitRefuse(c, s) PROVE SentHolds'
  <2>1. /\ AtLock(c) /\ \A b \in Cmd \ {c} : spc'[b] = spc[b]
        /\ UNCHANGED <<cmd, pq, item, wpc, sent>>
    BY <1>3, <1>a DEF SubmitRefuse
  <2>2. sent[c] = 0
    BY <2>1 DEF AtLock, SentHolds
  <2> QED
    BY <2>1, <2>2 DEF SentHolds
<1>4. ASSUME NEW c \in Cmd, NEW s \in Session, SubmitInsert(c, s) PROVE SentHolds'
  <2>1. \A b \in Cmd \ {c} : cmd'[b] = cmd[b]
    BY <1>4, InsertEffect
  <2>2. /\ AtLock(c) /\ spc' = [spc EXCEPT ![c] = "inserted"]
        /\ UNCHANGED <<pq, item, wpc, sent>>
    BY <1>4, InsertFrame
  <2>3. sent[c] = 0
    BY <2>2 DEF AtLock, SentHolds
  <2>4. \A b \in Cmd \ {c} : spc'[b] = spc[b]
    BY <1>a, <2>2
  <2> QED
    BY <2>1, <2>2, <2>3, <2>4 DEF SentHolds
<1>5. ASSUME NEW c \in Cmd, Cancel(c) PROVE SentHolds'
  <2>1. /\ \A b \in Cmd \ {c} : cmd'[b] = cmd[b]
        /\ cmd'[c].status = "canceled"
    BY <1>5, CancelEffect
  <2>2. UNCHANGED <<spc, pq, item, wpc, sent>>
    BY <1>5, CancelFrame
  <2> QED
    BY <1>a, <2>1, <2>2 DEF SentHolds
<1>6. ASSUME NEW s \in Session, Register(s) PROVE SentHolds'
  <2>1. UNCHANGED <<spc, cmd, pq, item, sent>> /\ wpc' = [wpc EXCEPT ![Len(owner) + 1] = "loop"]
    BY <1>6 DEF Register
  <2>2. wpc[Len(owner) + 1] # "send"
    <3>1. Len(owner) + 1 \in Epoch /\ ~(Len(owner) + 1 <= Len(owner))
      BY <1>6 DEF Register, Epoch, TypeOK
    <3> QED
      BY <3>1 DEF EpochsHold
  <2>3. \A e \in Epoch : wpc[e] = "send" => wpc'[e] = "send"
    BY <1>a, <2>1, <2>2
  <2> QED
    BY <2>1, <2>3 DEF SentHolds
<1>7. ASSUME NEW s \in Session, NEW code \in Flushed, FlushSession(s, code) \/ Unregister(s, code)
      PROVE  SentHolds'
  <2>1. UNCHANGED <<spc, pq, item, wpc, sent>> /\ FlushLocked(s, code)
    BY <1>7, FlushFrame
  <2>2. /\ \A b \in Cmd \ Waiting(s) : cmd'[b] = cmd[b]
        /\ \A b \in Waiting(s) : cmd'[b].status = "error"
    BY <2>1, FlushEffect
  <2>3. \A b \in Waiting(s) : b \in Cmd
    BY <1>a DEF Waiting
  <2> QED
    BY <1>a, <2>1, <2>2, <2>3 DEF SentHolds
<1>8. ASSUME NEW e \in Epoch, SetStop(e) PROVE SentHolds'
  BY <1>8 DEF SetStop, SentHolds
<1>9. ASSUME NEW e \in Epoch, WorkerGet(e) PROVE SentHolds'
  <2>1. PICK c \in pq[e] : item' = [item EXCEPT ![e] = c] /\ pq' = [pq EXCEPT ![e] = @ \ {c}]
    BY <1>9 DEF WorkerGet
  <2>2. /\ UNCHANGED <<spc, cmd, sent>> /\ item[e] = NoCmd
        /\ wpc' = [wpc EXCEPT ![e] = "got"]
    BY <1>9 DEF WorkerGet, EpochsHold
  <2>3. c \in Cmd /\ sent[c] = 0
    BY <1>a DEF SentHolds
  <2>4. \A f \in Epoch : /\ item'[f] = IF f = e THEN c ELSE item[f]
                         /\ pq'[f] \subseteq pq[f]
                         /\ wpc'[f] = IF f = e THEN "got" ELSE wpc[f]
    BY <1>a, <2>1, <2>2
  <2> QED
    BY <2>2, <2>3, <2>4 DEF SentHolds
<1>10. ASSUME NEW e \in Epoch, WorkerExit(e) \/ WorkerSkip(e) PROVE SentHolds'
  <2>1. /\ UNCHANGED <<spc, cmd, sent, pq>>
        /\ \A f \in Epoch \ {e} : item'[f] = item[f] /\ wpc'[f] = wpc[f]
        /\ item'[e] = NoCmd
    BY <1>10, <1>a DEF WorkerExit, WorkerSkip
  <2>2. \A f \in Epoch, b \in Cmd : item'[f] = b => item[f] = b /\ wpc'[f] = wpc[f]
    BY <2>1
  <2> QED
    BY <2>1, <2>2 DEF SentHolds
<1>11. ASSUME NEW e \in Epoch, WorkerStart(e) PROVE SentHolds'
  <2> DEFINE c == item[e]
  <2>1. /\ \A b \in Cmd \ {c} : cmd'[b] = cmd[b]
        /\ c \in Cmd
        /\ cmd'[c].status = "running" /\ cmd[c].doneAt = 0
    BY <1>11, StartEffect
  <2>2. /\ UNCHANGED <<spc, pq, item>> /\ wpc[e] = "got"
        /\ wpc' = [wpc EXCEPT ![e] = "send"]
        /\ sent' = [sent EXCEPT ![c] = @ + 1]
    BY <1>11, StartFrame
  <2>3. sent[c] = 0
    BY <1>a, <2>1, <2>2 DEF SentHolds
  <2>4. spc[c] = "accepted" /\ \A f \in Epoch : c \notin pq[f] /\ (item[f] = c => f = e)
    BY <2>1 DEF PlacesHold
  <2>5. /\ \A f \in Epoch : wpc'[f] = IF f = e THEN "send" ELSE wpc[f]
        /\ \A b \in Cmd : sent'[b] = IF b = c THEN 1 ELSE sent[b]
    BY <1>a, <2>1, <2>2, <2>3
  <2> HIDE DEF c
  <2>6. ASSUME NEW b \in Cmd \ {c}
        PROVE  /\ sent'[b] <= 1
               /\ sent'[b] # 0 =>
                    /\ spc'[b] = "accepted"
                    /\ cmd'[b].status # "accepted"
                    /\ \A f \in Epoch : b \notin pq'[f] /\ (item'[f] = b => wpc'[f] = "send")
    BY <2>1, <2>2, <2>5 DEF SentHolds
  <2>7. /\ sent'[c] <= 1
        /\ sent'[c] # 0 =>
             /\ spc'[c] = "accepted"
             /\ cmd'[c].status # "accepted"
             /\ \A f \in Epoch : c \notin pq'[f] /\ (item'[f] = c => wpc'[f] = "send")
    BY <2>1, <2>2, <2>4, <2>5 DEF SentHolds
  <2> QED
    BY <2>1, <2>6, <2>7 DEF SentHolds
<1>12. ASSUME NEW e \in Epoch, NEW outcome \in Outcome, WorkerFinish(e, outcome) PROVE SentHolds'
  <2>1. \A b \in Cmd : cmd'[b].status = "accepted" => cmd'[b] = cmd[b]
    BY <1>12, FinishEffect
  <2>2. /\ UNCHANGED <<spc, pq, sent>>
        /\ wpc' = [wpc EXCEPT ![e] = "loop"]
        /\ item' = [item EXCEPT ![e] = NoCmd]
    BY <1>12, FinishFrame
  <2>3. /\ \A f \in Epoch \ {e} : item'[f] = item[f] /\ wpc'[f] = wpc[f]
        /\ item'[e] = NoCmd
    BY <1>a, <2>2
  <2> QED
    BY <2>1, <2>2, <2>3 DEF SentHolds
<1>13. ASSUME Beside PROVE SentHolds'
  BY <1>13 DEF Beside, SentHolds
<1> QED
  BY <1>1, <1>2, <1>3, <1>4, <1>5, <1>6, <1>7, <1>8, <1>9, <1>10, <1>11, <1>12, <1>13
     DEF ArbiterStep, WorkerStep

\* The record of a command that ends says how it went: AnswersHold is kept.
LEMMA AnswersStep ==
  ASSUME TypeOK, EpochsHold, RecordsHold, SentHolds, AnswersHold, SendersHold, ArbiterStep
  PROVE  AnswersHold'
<1> USE EpochNat, NoCmdIsNoCmd
<1>a. /\ item \in [Epoch -> Cmd \cup {NoCmd}]
      /\ wpc \in [Epoch -> {"none", "loop", "got", "send", "exited"}]
      /\ sent \in [Cmd -> Nat] /\ answer \in [Cmd -> Outcome \cup {"none"}]
      /\ clock \in Nat /\ cmd \in [Cmd -> Record] /\ recs \subseteq Cmd
  BY DEF TypeOK
\* A step that ends no command and starts none.
<1>0. ASSUME UNCHANGED <<cmd, sent, answer>>, recs' \subseteq recs,
             \A e \in Epoch : wpc'[e] = "send" => wpc[e] = "send" /\ item'[e] = item[e]
      PROVE  AnswersHold'
  BY <1>0 DEF AnswersHold, TrueRecord
<1>1. ASSUME NEW c \in Cmd,
             \/ SubmitInvalid(c) \/ SubmitAdmit(c) \/ SubmitFrozen(c) \/ SubmitPut(c)
             \/ \E s \in Session : SubmitRefuse(c, s)
      PROVE  UNCHANGED <<cmd, sent, answer, recs, wpc, item>>
  BY <1>1 DEF SubmitInvalid, SubmitAdmit, SubmitFrozen, SubmitPut, SubmitRefuse
<1>2. ASSUME NEW c \in Cmd, NEW s \in Session, SubmitInsert(c, s) PROVE AnswersHold'
  <2>1. /\ \A b \in Cmd \ {c} : cmd'[b] = cmd[b]
        /\ cmd'[c].error = "none" /\ cmd'[c].doneAt = 0
        /\ recs' \subseteq recs \cup {c}
    BY <1>2, InsertEffect
  <2>2. UNCHANGED <<sent, answer, wpc, item>>
    BY <1>2, InsertFrame
  <2> QED
    BY <1>a, <2>1, <2>2 DEF AnswersHold, TrueRecord
<1>3. ASSUME NEW c \in Cmd, Cancel(c) PROVE AnswersHold'
  <2>1. /\ \A b \in Cmd \ {c} : cmd'[b] = cmd[b]
        /\ cmd'[c].error = cmd[c].error
        /\ cmd'[c].status = "canceled"
        /\ recs' \subseteq recs
    BY <1>3, CancelEffect
  <2>2. cmd[c].status # "error" /\ UNCHANGED <<sent, answer, wpc, item>>
    BY <1>3, CancelFrame
  <2>3. cmd[c].error = "none"
    BY <2>2 DEF AnswersHold
  <2> QED
    BY <1>a, <2>1, <2>2, <2>3 DEF AnswersHold, TrueRecord
<1>4. ASSUME NEW s \in Session, Register(s) PROVE AnswersHold'
  <2>1. /\ UNCHANGED <<cmd, sent, answer, recs, item>>
        /\ wpc' = [wpc EXCEPT ![Len(owner) + 1] = "loop"]
    BY <1>4 DEF Register
  <2>2. \A e \in Epoch : wpc'[e] = "send" => wpc[e] = "send"
    BY <1>a, <2>1
  <2> QED
    BY <1>0, <2>1, <2>2
<1>5. ASSUME NEW s \in Session, NEW code \in Flushed, FlushSession(s, code) \/ Unregister(s, code)
      PROVE  AnswersHold'
  <2>1. UNCHANGED <<item, wpc, sent, answer, recs>> /\ FlushLocked(s, code)
    BY <1>5, FlushFrame
  <2>2. /\ \A b \in Cmd \ Waiting(s) : cmd'[b] = cmd[b]
        /\ \A b \in Waiting(s) : cmd'[b].status = "error" /\ cmd'[b].error = code
    BY <2>1, FlushEffect
  <2>3. \A b \in Waiting(s) : b \in Cmd /\ sent[b] = 0
    BY <1>a DEF Waiting, SentHolds
  <2>4. ASSUME NEW b \in recs PROVE TrueRecord(b)'
    <3>1. CASE b \in Waiting(s)
      BY <2>1, <2>2, <2>3, <3>1 DEF TrueRecord
    <3>2. CASE b \notin Waiting(s)
      BY <1>a, <2>1, <2>2, <3>2 DEF AnswersHold, TrueRecord
    <3> QED
      BY <3>1, <3>2
  <2> QED
    BY <1>a, <2>1, <2>2, <2>4 DEF AnswersHold
<1>6. ASSUME NEW e \in Epoch, SetStop(e) PROVE AnswersHold'
  <2>1. UNCHANGED <<cmd, sent, answer, recs, wpc, item>>
    BY <1>6 DEF SetStop
  <2> QED
    BY <1>0, <2>1
<1>7. ASSUME NEW e \in Epoch, WorkerGet(e) \/ WorkerExit(e) \/ WorkerSkip(e) PROVE AnswersHold'
  <2>1. /\ UNCHANGED <<cmd, sent, answer, recs>>
        /\ wpc'[e] # "send"
        /\ \A f \in Epoch \ {e} : item'[f] = item[f] /\ wpc'[f] = wpc[f]
    BY <1>7, <1>a DEF WorkerGet, WorkerExit, WorkerSkip
  <2> QED
    BY <1>0, <2>1
<1>8. ASSUME NEW e \in Epoch, WorkerStart(e) PROVE AnswersHold'
  <2>0. PICK c \in Cmd : c = item[e]
    BY <1>8, StartEffect
  <2>1. /\ \A b \in Cmd \ {c} : cmd'[b] = cmd[b]
        /\ c \in recs
        /\ cmd'[c].error = cmd[c].error /\ cmd'[c].doneAt = 0
    BY <1>8, <2>0, StartEffect
  <2>2. /\ UNCHANGED <<item, answer, recs>>
        /\ wpc' = [wpc EXCEPT ![e] = "send"]
        /\ sent' = [sent EXCEPT ![c] = @ + 1]
    BY <1>8, <2>0, StartFrame
  <2>3. cmd[c].error = "none"
    <3>1. cmd[c].status \in {"accepted", "running"}
      BY <1>8, <2>0, <2>1, StartEffect DEF RecordsHold
    <3> QED
      BY <2>1, <3>1 DEF AnswersHold
  <2>4. /\ \A b \in Cmd \ {c} : sent'[b] = sent[b]
        /\ sent'[c] # 0
        /\ \A f \in Epoch \ {e} : wpc'[f] = wpc[f]
    BY <1>a, <2>1, <2>2
  <2>5. ASSUME NEW f \in Epoch, wpc'[f] = "send" PROVE sent'[item'[f]] # 0
    <3>1. CASE item[f] = c
      BY <2>2, <2>4, <3>1
    <3>2. CASE item[f] # c
      <4>1. wpc[f] = "send"
        BY <2>0, <2>4, <2>5, <3>2
      <4>2. item[f] \in Cmd
        <5>1. item[f] # NoCmd
          BY <4>1 DEF EpochsHold
        <5> QED
          BY <1>a, <5>1
      <4> QED
        BY <2>2, <2>4, <3>2, <4>1, <4>2 DEF AnswersHold
    <3> QED
      BY <3>1, <3>2
  <2>6. ASSUME NEW b \in recs' PROVE TrueRecord(b)'
    <3>1. CASE b = c
      BY <2>1, <3>1 DEF TrueRecord
    <3>2. CASE b # c
      BY <1>a, <2>1, <2>2, <2>4, <2>6, <3>2 DEF AnswersHold, TrueRecord
    <3> QED
      BY <3>1, <3>2
  <2> QED
    BY <2>1, <2>3, <2>5, <2>6 DEF AnswersHold
<1>9. ASSUME NEW e \in Epoch, NEW outcome \in Outcome, WorkerFinish(e, outcome) PROVE AnswersHold'
  <2>0. PICK c \in Cmd : c = item[e]
    <3>1. item[e] # NoCmd
      BY <1>9, FinishFrame DEF EpochsHold
    <3> QED
      BY <1>a, <3>1
  <2>1. /\ wpc[e] = "send" /\ UNCHANGED sent
        /\ wpc' = [wpc EXCEPT ![e] = "loop"]
        /\ item' = [item EXCEPT ![e] = NoCmd]
        /\ answer' = IF Heard(c, outcome) THEN [answer EXCEPT ![c] = outcome] ELSE answer
    BY <1>9, <2>0, FinishFrame
  <2>3. recs' \subseteq recs /\ \A b \in Cmd : b # c \/ b \notin recs => cmd'[b] = cmd[b]
    BY <1>9, <2>0, FinishEffect
  <2>4. \A f \in Epoch : wpc'[f] = "send" => wpc[f] = "send" /\ item'[f] = item[f]
    BY <1>a, <2>1
  <2>5. \A b \in Cmd \ {c} : answer'[b] = answer[b]
    BY <1>a, <2>1
  <2>6. ASSUME c \in recs
        PROVE  /\ cmd'[c].error # "none" => cmd'[c].status = "error"
               /\ TrueRecord(c)'
    <3>1. cmd[c].status \in {"running", "canceled"} /\ sent[c] # 0
      BY <2>0, <2>1, <2>6 DEF SendersHold, AnswersHold
    <3>2. cmd[c].error = "none" /\ cmd[c] \in Record
      BY <1>a, <3>1 DEF AnswersHold
    <3>3. cmd'[c] = Settled(cmd[c], outcome, clock + 1)
      BY <1>9, <1>a, <2>0, <2>6 DEF WorkerFinish
    <3>4. /\ cmd[c].status = "canceled" /\ outcome # "raise" => cmd'[c] = cmd[c]
          /\ (cmd[c].status = "canceled" => outcome = "raise") =>
               <<cmd'[c].status, cmd'[c].error>> = Ending[outcome]
          /\ cmd'[c].error # "none" => cmd'[c].status = "error"
      <4>1. clock + 1 \in Nat \ {0}
        BY <1>a
      <4> QED
        BY <3>2, <3>3, <4>1, SettledAnswer
    <3>5. CASE Heard(c, outcome)
      <4>1. answer'[c] = outcome
        BY <1>a, <2>1, <3>5
      <4>2. <<cmd'[c].status, cmd'[c].error>> = Ending[outcome]
        BY <3>4, <3>5 DEF Heard
      <4> QED
        BY <2>1, <3>1, <3>4, <4>1, <4>2 DEF TrueRecord
    <3>6. CASE ~Heard(c, outcome)
      <4>1. cmd[c].status = "canceled" /\ outcome # "raise"
        BY <2>6, <3>6 DEF Heard
      <4> QED
        BY <3>4, <4>1 DEF TrueRecord
    <3> QED
      BY <3>5, <3>6
  <2>7. ASSUME NEW b \in recs' PROVE TrueRecord(b)'
    <3>1. CASE b = c
      BY <2>3, <2>6, <2>7, <3>1
    <3>2. CASE b # c
      BY <1>a, <2>1, <2>3, <2>5, <2>7, <3>2 DEF AnswersHold, TrueRecord
    <3> QED
      BY <3>1, <3>2
  <2>8. ASSUME NEW b \in Cmd PROVE cmd'[b].error # "none" => cmd'[b].status = "error"
    BY <2>3, <2>6, <2>8 DEF AnswersHold
  <2>9. ASSUME NEW f \in Epoch, wpc'[f] = "send" PROVE sent'[item'[f]] # 0
    BY <2>1, <2>4, <2>9 DEF AnswersHold
  <2> QED
    BY <2>7, <2>8, <2>9 DEF AnswersHold
<1>10. ASSUME Beside PROVE AnswersHold'
  BY <1>10 DEF Beside, AnswersHold, TrueRecord
<1> QED
  BY <1>0, <1>1, <1>2, <1>3, <1>4, <1>5, <1>6, <1>7, <1>8, <1>9, <1>10
     DEF ArbiterStep, WorkerStep

\* The start of an epoch's worker disturbs no other worker.
LEMMA RegisterWorker ==
  ASSUME TypeOK, EpochsHold, NEW s \in Session, Register(s)
  PROVE  /\ \A e \in Epoch : wpc[e] # "none" => wpc'[e] = wpc[e] /\ owner'[e] = owner[e]
         /\ \A e \in Epoch : wpc'[e] \in {"got", "send"} => wpc[e] = wpc'[e]
<1> DEFINE n == Len(owner) + 1
<1>1. owner' = Append(owner, s) /\ wpc' = [wpc EXCEPT ![n] = "loop"]
  BY DEF Register
<1>2. n \in Epoch /\ ~(n <= Len(owner)) /\ owner \in Seq(Session) /\ Len(owner) \in Nat
      /\ wpc \in [Epoch -> {"none", "loop", "got", "send", "exited"}]
  BY EpochNat DEF Register, Epoch, TypeOK
<1>3. \A i \in 1 .. Len(owner) : owner'[i] = owner[i]
  BY <1>1, <1>2
<1> HIDE DEF n
<1>4. wpc[n] = "none"
  BY <1>2 DEF EpochsHold
<1>5. \A e \in Epoch : wpc[e] # "none" => e \in 1 .. Len(owner)
  BY <1>2, EpochNat DEF EpochsHold, Epoch
<1> QED
  BY <1>1, <1>2, <1>3, <1>4, <1>5

\* A record stays running, and an entry of _running stays, exactly as long as its
\* worker is in send_cb: SendersHold is kept.
LEMMA SendersStep ==
  ASSUME TypeOK, EpochsHold, PlacesHold, RecordsHold, SendersHold, ArbiterStep
  PROVE  SendersHold'
<1> USE EpochNat, NoCmdIsNoCmd
<1>a. /\ spc \in [Cmd -> Step]
      /\ item \in [Epoch -> Cmd \cup {NoCmd}]
      /\ wpc \in [Epoch -> {"none", "loop", "got", "send", "exited"}]
      /\ running \in [Session -> Cmd \cup {NoCmd}]
      /\ recs \subseteq Cmd
  BY DEF TypeOK
<1>b. \A e \in Epoch : wpc[e] # "none" => owner[e] \in Session
  BY DEF EpochsHold, TypeOK, Epoch
<1> DEFINE Same == UNCHANGED <<recs, cmd, wpc, item, running, owner>>
<1>0. ASSUME Same PROVE SendersHold'
  <2>1. \A c \in recs' : cmd'[c].status = "running" =>
          \E e \in Epoch : wpc'[e] = "send" /\ item'[e] = c
    BY <1>0 DEF SendersHold
  <2>2. \A e \in Epoch : wpc'[e] = "send" /\ item'[e] \in recs' =>
          cmd'[item'[e]].status \in {"running", "canceled"}
    BY <1>0 DEF SendersHold
  <2>3. \A s \in Session : running'[s] # NoCmd =>
          \E e \in Epoch : wpc'[e] = "send" /\ item'[e] = running'[s] /\ owner'[e] = s
    BY <1>0 DEF SendersHold
  <2> QED
    BY <2>1, <2>2, <2>3 DEF SendersHold
<1>1. ASSUME NEW c \in Cmd, SubmitInvalid(c) \/ SubmitAdmit(c) \/ SubmitFrozen(c) \/ SubmitPut(c)
      PROVE  Same
  BY <1>1 DEF SubmitInvalid, SubmitAdmit, SubmitFrozen, SubmitPut
<1>2. ASSUME NEW c \in Cmd, NEW s \in Session, SubmitRefuse(c, s) PROVE Same
  BY <1>2 DEF SubmitRefuse
<1>3. ASSUME NEW c \in Cmd, NEW s \in Session, SubmitInsert(c, s) PROVE SendersHold'
  <2>1. /\ \A b \in Cmd \ {c} : cmd'[b] = cmd[b]
        /\ cmd'[c].status = "accepted"
        /\ recs' \subseteq recs \cup {c}
    BY <1>3, InsertEffect
  <2>2. AtLock(c) /\ UNCHANGED <<wpc, item, running, owner>>
    BY <1>3, InsertFrame
  <2>3. \A e \in Epoch : item[e] # c
    BY <2>2 DEF AtLock, PlacesHold
  <2>4. \A b \in recs' : cmd'[b].status = "running" =>
          \E e \in Epoch : wpc'[e] = "send" /\ item'[e] = b
    BY <1>a, <2>1, <2>2 DEF SendersHold
  <2>5. \A e \in Epoch : wpc'[e] = "send" /\ item'[e] \in recs' =>
          cmd'[item'[e]].status \in {"running", "canceled"}
    <3> SUFFICES ASSUME NEW e \in Epoch, wpc[e] = "send", item[e] \in recs'
                 PROVE  cmd'[item[e]].status \in {"running", "canceled"}
      BY <2>2
    <3>1. item[e] \in recs /\ item[e] \in Cmd \ {c}
      BY <1>a, <2>1, <2>3
    <3> QED
      BY <2>1, <3>1 DEF SendersHold
  <2> QED
    BY <2>2, <2>4, <2>5 DEF SendersHold
<1>4. ASSUME NEW c \in Cmd, Cancel(c) PROVE SendersHold'
  <2>1. /\ \A b \in Cmd \ {c} : cmd'[b] = cmd[b]
        /\ cmd'[c].status = "canceled"
        /\ recs' \subseteq recs
    BY <1>4, CancelEffect
  <2>2. UNCHANGED <<wpc, item, running, owner>>
    BY <1>4, CancelFrame
  <2> QED
    BY <1>a, <2>1, <2>2 DEF SendersHold
<1>5. ASSUME NEW s \in Session, Register(s) PROVE SendersHold'
  <2>1. UNCHANGED <<recs, cmd, item, running>>
    BY <1>5 DEF Register
  <2> QED
    BY <1>5, <2>1, RegisterWorker DEF SendersHold
<1>6. ASSUME NEW s \in Session, NEW code \in Flushed, FlushSession(s, code) \/ Unregister(s, code)
      PROVE  SendersHold'
  <2>1. UNCHANGED <<recs, wpc, item, running, owner>> /\ FlushLocked(s, code)
    BY <1>6, FlushFrame
  <2>2. /\ \A b \in Cmd \ Waiting(s) : cmd'[b] = cmd[b]
        /\ \A b \in Waiting(s) : cmd'[b].status = "error" /\ cmd[b].status = "accepted"
    BY <2>1, FlushEffect DEF Waiting
  <2> QED
    BY <1>a, <2>1, <2>2 DEF SendersHold
<1>7. ASSUME NEW e \in Epoch, SetStop(e) PROVE SendersHold'
  BY <1>0, <1>7 DEF SetStop
<1>8. ASSUME NEW e \in Epoch, WorkerGet(e) \/ WorkerExit(e) \/ WorkerSkip(e) PROVE SendersHold'
  <2>1. /\ wpc[e] # "send" /\ wpc'[e] # "send"
        /\ \A f \in Epoch \ {e} : item'[f] = item[f] /\ wpc'[f] = wpc[f]
        /\ UNCHANGED <<recs, cmd, running, owner>>
    BY <1>8, <1>a DEF WorkerGet, WorkerExit, WorkerSkip
  <2> QED
    BY <2>1 DEF SendersHold
<1>9. ASSUME NEW e \in Epoch, WorkerStart(e) PROVE SendersHold'
  <2>1. /\ \A b \in Cmd \ {item[e]} : cmd'[b] = cmd[b]
        /\ cmd'[item[e]].status = "running"
    BY <1>9, StartEffect
  <2>2. /\ wpc[e] = "got"
        /\ running' = [running EXCEPT ![owner[e]] = item[e]]
        /\ wpc' = [wpc EXCEPT ![e] = "send"]
        /\ UNCHANGED <<recs, item, owner>>
    BY <1>9, StartFrame
  <2>3. /\ \A f \in Epoch : wpc'[f] = IF f = e THEN "send" ELSE wpc[f]
        /\ \A s \in Session : running'[s] = IF s = owner[e] THEN item[e] ELSE running[s]
    BY <1>a, <2>2
  <2>4. \A c \in recs' : cmd'[c].status = "running" =>
          \E f \in Epoch : wpc'[f] = "send" /\ item'[f] = c
    BY <1>a, <2>1, <2>2, <2>3 DEF SendersHold
  <2>5. \A f \in Epoch : wpc'[f] = "send" /\ item'[f] \in recs' =>
          cmd'[item'[f]].status \in {"running", "canceled"}
    BY <1>a, <2>1, <2>2, <2>3 DEF SendersHold
  <2>6. \A s \in Session : running'[s] # NoCmd =>
          \E f \in Epoch : wpc'[f] = "send" /\ item'[f] = running'[s] /\ owner'[f] = s
    <3>1. \A f \in Epoch : wpc[f] = "send" => wpc'[f] = "send"
      BY <2>3
    <3>2. \A s \in Session \ {owner[e]} : running'[s] = running[s]
      BY <2>3
    <3>3. wpc'[e] = "send" /\ (owner[e] \in Session => running'[owner[e]] = item'[e])
      BY <2>2, <2>3
    <3>4. ASSUME NEW s \in Session, running'[s] # NoCmd
          PROVE  \E f \in Epoch : wpc'[f] = "send" /\ item'[f] = running'[s] /\ owner'[f] = s
      <4>1. CASE s = owner[e]
        BY <2>2, <3>3, <4>1
      <4>2. CASE s # owner[e]
        <5>1. running'[s] = running[s] /\ running[s] # NoCmd
          BY <3>2, <3>4, <4>2
        <5>2. PICK f \in Epoch : wpc[f] = "send" /\ item[f] = running[s] /\ owner[f] = s
          BY <5>1 DEF SendersHold
        <5> QED
          BY <2>2, <3>1, <5>1, <5>2
      <4> QED
        BY <4>1, <4>2
    <3> QED
      BY <3>4
  <2> QED
    BY <2>4, <2>5, <2>6 DEF SendersHold
<1>10. ASSUME NEW e \in Epoch, NEW outcome \in Outcome, WorkerFinish(e, outcome) PROVE SendersHold'
  <2>1. /\ \A b \in Cmd : b # item[e] => cmd'[b] = cmd[b]
        /\ recs' \subseteq recs
        /\ item[e] \in recs => cmd'[item[e]].status # "running"
    BY <1>10, FinishEffect
  <2>2. /\ wpc[e] = "send"
        /\ running' = IF running[owner[e]] = item[e]
                      THEN [running EXCEPT ![owner[e]] = NoCmd] ELSE running
        /\ wpc' = [wpc EXCEPT ![e] = "loop"]
        /\ item' = [item EXCEPT ![e] = NoCmd]
        /\ UNCHANGED owner
    BY <1>10, FinishFrame
  <2>3. /\ \A f \in Epoch \ {e} : item'[f] = item[f] /\ wpc'[f] = wpc[f]
        /\ wpc'[e] = "loop"
        /\ \A s \in Session : running'[s] # NoCmd =>
             running'[s] = running[s] /\ ~(s = owner[e] /\ running[s] = item[e])
    BY <1>a, <1>b, <2>2
  <2>4. \A f \in Epoch : f # e => item[f] # item[e]
    BY <1>a, <2>2 DEF PlacesHold, EpochsHold
  <2>5. \A c \in recs' : cmd'[c].status = "running" =>
          \E f \in Epoch : wpc'[f] = "send" /\ item'[f] = c
    BY <1>a, <2>1, <2>3 DEF SendersHold
  <2>6. \A f \in Epoch : wpc'[f] = "send" /\ item'[f] \in recs' =>
          cmd'[item'[f]].status \in {"running", "canceled"}
    BY <1>a, <2>1, <2>3, <2>4 DEF SendersHold
  <2>7. \A s \in Session : running'[s] # NoCmd =>
          \E f \in Epoch : wpc'[f] = "send" /\ item'[f] = running'[s] /\ owner'[f] = s
    BY <2>2, <2>3 DEF SendersHold
  <2> QED
    BY <2>5, <2>6, <2>7 DEF SendersHold
<1>11. ASSUME Beside PROVE Same
  BY <1>11 DEF Beside
<1> QED
  BY <1>0, <1>1, <1>2, <1>3, <1>4, <1>5, <1>6, <1>7, <1>8, <1>9, <1>10, <1>11
     DEF ArbiterStep, WorkerStep

------------------------------------------------------------------------------
(* Tickets                                                                 *)

\* A ticket is taken before the insert and given back by whoever ends the
\* command: TicketsHold is kept.
LEMMA TicketsStep ==
  ASSUME TypeOK, EpochsHold, PlacesHold, RecordsHold, SendersHold, TicketsHold, ArbiterStep
  PROVE  TicketsHold'
<1> USE EpochNat, NoCmdIsNoCmd DEF Accepted
<1>a. /\ spc \in [Cmd -> Step]
      /\ item \in [Epoch -> Cmd \cup {NoCmd}]
      /\ wpc \in [Epoch -> {"none", "loop", "got", "send", "exited"}]
      /\ recs \subseteq Cmd /\ clock \in Nat
  BY DEF TypeOK
<1> DEFINE Sending(c) == \E e \in Epoch : wpc[e] = "send" /\ item[e] = c
\* A step that lets every worker stay in send_cb and changes neither records nor clients.
<1>0. ASSUME UNCHANGED <<recs, cmd, spc>>,
             \A c \in Cmd : Sending(c) => Sending(c)',
             \A c \in Cmd : (c \in held' <=> c \in held) /\ (c \in tickets' <=> c \in tickets)
      PROVE  TicketsHold'
  BY <1>0 DEF TicketsHold
<1>1. ASSUME NEW c \in Cmd, SubmitInvalid(c) \/ SubmitFrozen(c) PROVE TicketsHold'
  <2>1. /\ spc[c] = "new" /\ spc' = [spc EXCEPT ![c] = "refused"]
        /\ UNCHANGED <<recs, cmd, wpc, item, held, tickets>>
    BY <1>1 DEF SubmitInvalid, SubmitFrozen
  <2> QED
    BY <1>a, <2>1 DEF TicketsHold
<1>2. ASSUME NEW c \in Cmd, SubmitAdmit(c) PROVE TicketsHold'
  <2>1. /\ spc[c] = "new" /\ spc' = [spc EXCEPT ![c] = "admitted"] /\ c \notin Human
        /\ tickets' = tickets \cup {c}
        /\ UNCHANGED <<recs, cmd, wpc, item, held>>
    BY <1>2 DEF SubmitAdmit, Admit
  <2> QED
    BY <1>a, <2>1 DEF TicketsHold
<1>3. ASSUME NEW c \in Cmd, SubmitPut(c) PROVE TicketsHold'
  <2>1. /\ spc[c] = "inserted" /\ spc' = [spc EXCEPT ![c] = "accepted"]
        /\ UNCHANGED <<recs, cmd, wpc, item, held, tickets>>
    BY <1>3 DEF SubmitPut
  <2> QED
    BY <1>a, <2>1 DEF TicketsHold
<1>4. ASSUME NEW c \in Cmd, NEW s \in Session, SubmitRefuse(c, s) PROVE TicketsHold'
  <2>1. /\ AtLock(c) /\ spc' = [spc EXCEPT ![c] = "refused"]
        /\ tickets' = tickets \ {c}
        /\ UNCHANGED <<recs, cmd, wpc, item, held>>
    BY <1>4 DEF SubmitRefuse, Done
  <2>2. c \notin held
    BY <2>1 DEF AtLock, TicketsHold
  <2> QED
    BY <1>a, <2>1, <2>2 DEF TicketsHold
<1>5. ASSUME NEW c \in Cmd, NEW s \in Session, SubmitInsert(c, s) PROVE TicketsHold'
  <2>1. /\ \A b \in Cmd \ {c} : cmd'[b] = cmd[b]
        /\ cmd'[c].doneAt = 0
        /\ recs' \subseteq recs \cup {c} /\ c \in recs'
        /\ \A b \in recs : cmd'[b].doneAt = 0 => b \in recs'
    BY <1>5, InsertEffect
  <2>2. /\ AtLock(c)
        /\ held' = IF c \in Human THEN held ELSE held \cup {c}
        /\ spc' = [spc EXCEPT ![c] = "inserted"]
        /\ UNCHANGED <<tickets, wpc, item>>
    BY <1>5, InsertFrame
  <2>3. c \notin held /\ (c \in tickets <=> c \notin Human)
    BY <2>2 DEF AtLock, TicketsHold
  <2>4. spc'[c] = "inserted" /\ \A b \in Cmd \ {c} : spc'[b] = spc[b]
    BY <1>a, <2>2
  <2> QED
    BY <1>a, <2>1, <2>2, <2>3, <2>4 DEF TicketsHold
<1>6. ASSUME NEW c \in Cmd, Cancel(c) PROVE TicketsHold'
  <2>1. /\ \A b \in Cmd \ {c} : cmd'[b] = cmd[b]
        /\ cmd'[c].doneAt # 0
        /\ recs' \subseteq recs
        /\ \A b \in recs : cmd'[b].doneAt = 0 => b \in recs'
    BY <1>6, <1>a, CancelEffect
  <2>2. /\ c \in recs
        /\ IF cmd[c].status = "accepted"
           THEN held' = held \ {c} /\ tickets' = tickets \ ({c} \cap held)
           ELSE UNCHANGED <<held, tickets>>
        /\ UNCHANGED <<spc, wpc, item>>
    BY <1>6, CancelFrame
  <2>3. cmd[c].status # "accepted" /\ cmd[c].doneAt = 0 => Sending(c)
    BY <2>2 DEF RecordsHold, SendersHold
  <2>4. \A b \in Cmd : Sending(b) => Sending(b)'
    BY <2>2
  <2> HIDE DEF Sending
  <2> DEFINE Ok(b) == /\ b \in held => b \in tickets /\ spc[b] \in Accepted
                      /\ b \in tickets => spc[b] = "admitted" \/ b \in held
                      /\ spc[b] = "admitted" => b \in tickets \ Human
                      /\ b \in recs \ Human /\ cmd[b].doneAt = 0 => b \in held
                      /\ b \in held => \/ b \in recs /\ cmd[b].doneAt = 0
                                       \/ Sending(b)
  <2>5. \A b \in Cmd : Ok(b)
    BY DEF TicketsHold, Sending
  <2>6. ASSUME NEW b \in Cmd \ {c} PROVE Ok(b)'
    BY <2>1, <2>2, <2>4, <2>5
  <2>7. Ok(c)'
    BY <2>1, <2>2, <2>3, <2>4, <2>5
  <2>8. \A b \in Cmd : Ok(b)'
    BY <2>6, <2>7
  <2> QED
    BY <2>8 DEF TicketsHold, Sending
<1>7. ASSUME NEW s \in Session, Register(s) PROVE TicketsHold'
  <2>1. UNCHANGED <<recs, cmd, spc, item, held, tickets>>
    BY <1>7 DEF Register
  <2>2. \A c \in Cmd : Sending(c) => Sending(c)'
    BY <1>7, <2>1, RegisterWorker
  <2> QED
    BY <1>0, <2>1, <2>2
<1>8. ASSUME NEW s \in Session, NEW code \in Flushed, FlushSession(s, code) \/ Unregister(s, code)
      PROVE  TicketsHold'
  <2>1. /\ held' = held \ (Waiting(s) \cup Ended(s))
        /\ tickets' = tickets \ ((Waiting(s) \cup Ended(s)) \cap held)
        /\ UNCHANGED <<recs, spc, wpc, item>> /\ FlushLocked(s, code)
    BY <1>8, FlushFrame
  <2>2. /\ \A b \in Cmd \ Waiting(s) : cmd'[b] = cmd[b]
        /\ \A b \in Waiting(s) : cmd'[b].doneAt # 0
    BY <1>a, <2>1, FlushEffect
  <2>3. \A b \in recs : b \in Ended(s) => cmd[b].doneAt # 0
    BY DEF Ended
  <2> QED
    BY <1>a, <2>1, <2>2, <2>3 DEF TicketsHold
<1>9. ASSUME NEW e \in Epoch, SetStop(e) PROVE TicketsHold'
  BY <1>0, <1>9 DEF SetStop
<1>10. ASSUME NEW e \in Epoch, WorkerGet(e) \/ WorkerExit(e) PROVE TicketsHold'
  <2>1. /\ wpc[e] # "send"
        /\ \A f \in Epoch \ {e} : item'[f] = item[f] /\ wpc'[f] = wpc[f]
        /\ UNCHANGED <<recs, cmd, spc, held, tickets>>
    BY <1>10, <1>a DEF WorkerGet, WorkerExit
  <2>2. \A c \in Cmd : Sending(c) => Sending(c)'
    BY <2>1
  <2> QED
    BY <1>0, <2>1, <2>2
<1>11. ASSUME NEW e \in Epoch, WorkerSkip(e) PROVE TicketsHold'
  <2>1. /\ wpc[e] # "send" /\ Dead(item[e])
        /\ \A f \in Epoch \ {e} : item'[f] = item[f] /\ wpc'[f] = wpc[f]
        /\ held' = held \ {item[e]}
        /\ tickets' = tickets \ ({item[e]} \cap held)
        /\ UNCHANGED <<recs, cmd, spc>>
    BY <1>11, <1>a DEF WorkerSkip, FinishAdmission, Done
  <2>2. \A c \in Cmd : Sending(c) => Sending(c)'
    BY <2>1
  <2>3. item[e] \in recs => cmd[item[e]].doneAt # 0
    BY <1>a, <2>1 DEF Dead, RecordsHold
  <2> HIDE DEF Sending
  <2> QED
    BY <1>a, <2>1, <2>2, <2>3 DEF TicketsHold, Sending
<1>12. ASSUME NEW e \in Epoch, WorkerStart(e) PROVE TicketsHold'
  <2>1. /\ \A b \in Cmd \ {item[e]} : cmd'[b] = cmd[b]
        /\ cmd'[item[e]].doneAt = cmd[item[e]].doneAt
    BY <1>12, StartEffect
  <2>2. /\ wpc' = [wpc EXCEPT ![e] = "send"]
        /\ UNCHANGED <<recs, spc, item, held, tickets>>
    BY <1>12, StartFrame
  <2>3. \A c \in Cmd : Sending(c) => Sending(c)'
    BY <1>a, <2>2
  <2>4. \A c \in Cmd : cmd'[c].doneAt = cmd[c].doneAt
    BY <2>1
  <2> HIDE DEF Sending
  <2> QED
    BY <2>2, <2>3, <2>4 DEF TicketsHold, Sending
<1>13. ASSUME NEW e \in Epoch, NEW outcome \in Outcome, WorkerFinish(e, outcome) PROVE TicketsHold'
  <2>1. /\ \A b \in Cmd : b # item[e] => cmd'[b] = cmd[b]
        /\ recs' \subseteq recs
        /\ \A b \in recs : cmd'[b].doneAt = 0 => b \in recs'
        /\ item[e] \in recs =>
             (cmd[item[e]].doneAt # 0 \/ cmd[item[e]].status # "canceled"
                => cmd'[item[e]].doneAt # 0)
    BY <1>13, FinishEffect
  <2>2. /\ wpc[e] = "send"
        /\ held' = held \ {item[e]}
        /\ tickets' = tickets \ ({item[e]} \cap held)
        /\ \A f \in Epoch \ {e} : item'[f] = item[f] /\ wpc'[f] = wpc[f]
        /\ UNCHANGED spc
    <3>1. /\ wpc[e] = "send"
          /\ held' = held \ {item[e]}
          /\ tickets' = tickets \ ({item[e]} \cap held)
          /\ wpc' = [wpc EXCEPT ![e] = "loop"]
          /\ item' = [item EXCEPT ![e] = NoCmd]
          /\ UNCHANGED spc
      BY <1>13, FinishFrame
    <3> QED
      BY <1>a, <3>1
  <2>3. item[e] \in recs => cmd'[item[e]].doneAt # 0
    BY <1>a, <2>1 DEF RecordsHold
  <2>4. \A c \in Cmd \ {item[e]} : Sending(c) => Sending(c)'
    BY <2>2
  <2> HIDE DEF Sending
  <2> QED
    BY <1>a, <2>1, <2>2, <2>3, <2>4 DEF TicketsHold, Sending
<1>14. ASSUME Beside PROVE TicketsHold'
  <2>1. \A c \in Cmd : Sending(c) => Sending(c)'
    BY <1>14 DEF Beside
  <2> QED
    BY <1>0, <1>14, <2>1 DEF Beside
<1> QED
  BY <1>1, <1>2, <1>3, <1>4, <1>5, <1>6, <1>7, <1>8, <1>9, <1>10, <1>11, <1>12, <1>13, <1>14
     DEF ArbiterStep, WorkerStep

------------------------------------------------------------------------------
(* The order of service                                                    *)

\* A worker takes the least command of its queue, and what arrives after that was
\* accepted later: OrderHolds is kept.
LEMMA OrderStep ==
  ASSUME TypeOK, EpochsHold, PlacesHold, RecordsHold, OrderHolds, ArbiterStep
  PROVE  OrderHolds'
<1> USE EpochNat, NoCmdIsNoCmd DEF Accepted, Before
<1>a. /\ spc \in [Cmd -> Step]
      /\ pq \in [Epoch -> SUBSET Cmd] /\ item \in [Epoch -> Cmd \cup {NoCmd}]
      /\ wpc \in [Epoch -> {"none", "loop", "got", "send", "exited"}]
      /\ preds \in [Cmd -> SUBSET Cmd] /\ counter \in Nat
      /\ \A c \in Cmd : cmd[c].seq \in Nat
  BY RecordFields DEF TypeOK
<1>b. \A e \in Epoch : wpc[e] = "got" => item[e] \in Cmd
  BY <1>a DEF EpochsHold
\* A step that keeps the sort keys and the clients, and in which no worker gets a command.
<1>0. ASSUME UNCHANGED <<spc, preds>>,
             \A c \in Cmd : cmd'[c].seq = cmd[c].seq,
             \A e \in Epoch : wpc'[e] = "got" =>
               wpc[e] = "got" /\ item'[e] = item[e] /\ pq'[e] = pq[e]
      PROVE  OrderHolds'
  BY <1>0, <1>a, <1>b DEF OrderHolds
<1>1. ASSUME NEW c \in Cmd,
             \/ SubmitInvalid(c) \/ SubmitAdmit(c) \/ SubmitFrozen(c)
             \/ \E s \in Session : SubmitRefuse(c, s)
      PROVE  OrderHolds'
  <2>1. /\ spc[c] \notin Accepted /\ \A b \in Cmd \ {c} : spc'[b] = spc[b]
        /\ UNCHANGED <<cmd, pq, item, wpc, preds>>
    BY <1>1, <1>a DEF SubmitInvalid, SubmitAdmit, SubmitFrozen, SubmitRefuse, AtLock
  <2> QED
    BY ZenonT(40), <1>a, <2>1 DEF OrderHolds
<1>2. ASSUME NEW c \in Cmd, SubmitPut(c) PROVE OrderHolds'
  <2>1. /\ spc[c] = "inserted"
        /\ pq' = [pq EXCEPT ![at[c]] = @ \cup {c}]
        /\ spc' = [spc EXCEPT ![c] = "accepted"]
        /\ UNCHANGED <<cmd, item, wpc, preds>>
    BY <1>2 DEF SubmitPut
  <2>2. /\ \A b \in Cmd : spc'[b] = IF b = c THEN "accepted" ELSE spc[b]
        /\ \A e \in Epoch : pq'[e] \subseteq pq[e] \cup {c}
    BY <1>a, <2>1
  <2>3. \A b \in Cmd : c \notin preds[b]
    BY <2>1 DEF OrderHolds
  <2> QED
    BY <1>a, <1>b, <2>1, <2>2, <2>3 DEF OrderHolds
<1>3. ASSUME NEW c \in Cmd, NEW s \in Session, SubmitInsert(c, s) PROVE OrderHolds'
  <2>1. /\ \A b \in Cmd \ {c} : cmd'[b] = cmd[b]
        /\ cmd'[c].seq = counter + 1
    BY <1>3, InsertEffect
  <2>2. /\ AtLock(c)
        /\ spc' = [spc EXCEPT ![c] = "inserted"]
        /\ preds' = [preds EXCEPT ![c] = {b \in Cmd : spc[b] = "accepted"}]
        /\ UNCHANGED <<pq, item, wpc>>
    BY <1>3, InsertFrame
  <2>3. spc[c] \notin Accepted
    BY <2>2 DEF AtLock
  <2>4. /\ spc'[c] = "inserted" /\ \A b \in Cmd \ {c} : spc'[b] = spc[b]
        /\ preds'[c] = {b \in Cmd : spc[b] = "accepted"}
        /\ \A b \in Cmd \ {c} : preds'[b] = preds[b]
    BY <1>a, <2>2
  <2>5. \A b \in preds'[c] : b \in Cmd \ {c} /\ spc'[b] = "accepted" /\ cmd'[b].seq < cmd'[c].seq
    BY <1>a, <2>1, <2>3, <2>4 DEF RecordsHold
  <2>6. \A d \in Cmd \ {c} : \A b \in preds'[d] :
          /\ spc'[d] \in Accepted
          /\ b \in Cmd \ {c}
          /\ spc'[b] = "accepted"
          /\ cmd'[b].seq < cmd'[d].seq
    BY <1>a, <2>1, <2>3, <2>4 DEF OrderHolds
  <2>7. \A e \in Epoch : wpc[e] = "got" => item[e] \in Cmd \ {c}
    BY <1>b, <2>3 DEF PlacesHold
  <2>8. ASSUME NEW e \in Epoch, wpc'[e] = "got", NEW b \in pq'[e] \cap preds'[item'[e]]
        PROVE  Before(item[e], b)'
    <3>1. wpc[e] = "got" /\ item[e] \in Cmd \ {c} /\ item'[e] = item[e] /\ pq'[e] = pq[e]
      BY <2>2, <2>7, <2>8
    <3>2. preds'[item[e]] = preds[item[e]]
      BY <2>4, <3>1
    <3>3. b \in Cmd \ {c}
      BY <2>6, <2>8, <3>1
    <3>4. Before(item[e], b)
      BY <2>8, <3>1, <3>2 DEF OrderHolds
    <3>5. cmd'[item[e]] = cmd[item[e]] /\ cmd'[b] = cmd[b]
      BY <2>1, <3>1, <3>3
    <3> QED
      BY <3>1, <3>4, <3>5 DEF Before
  <2>9. spc'[c] \in Accepted
    BY <2>4 DEF Accepted
  <2> QED
    BY <2>4, <2>5, <2>6, <2>8, <2>9 DEF OrderHolds
<1>4. ASSUME NEW c \in Cmd, Cancel(c) PROVE OrderHolds'
  <2>1. \A b \in Cmd : cmd'[b].seq = cmd[b].seq
    BY <1>4, CancelEffect
  <2>2. UNCHANGED <<spc, preds, wpc, item, pq>>
    BY <1>4, CancelFrame
  <2> QED
    BY <1>0, <2>1, <2>2
<1>5. ASSUME NEW s \in Session, Register(s) PROVE OrderHolds'
  <2>1. UNCHANGED <<spc, cmd, preds, item, pq>>
    BY <1>5 DEF Register
  <2> QED
    BY <1>0, <1>5, <2>1, RegisterWorker
<1>6. ASSUME NEW s \in Session, NEW code \in Flushed, FlushSession(s, code) \/ Unregister(s, code)
      PROVE  OrderHolds'
  <2>1. UNCHANGED <<spc, preds, wpc, item, pq>> /\ FlushLocked(s, code)
    BY <1>6, FlushFrame
  <2>2. \A b \in Cmd : cmd'[b].seq = cmd[b].seq
    BY <2>1, FlushEffect
  <2> QED
    BY <1>0, <2>1, <2>2
<1>7. ASSUME NEW e \in Epoch, SetStop(e) PROVE OrderHolds'
  BY <1>0, <1>7 DEF SetStop
<1>8. ASSUME NEW e \in Epoch, WorkerGet(e) PROVE OrderHolds'
  <2>1. PICK c \in pq[e] : /\ \A b \in pq[e] \ {c} : Before(c, b)
                           /\ item' = [item EXCEPT ![e] = c]
                           /\ pq' = [pq EXCEPT ![e] = @ \ {c}]
    BY <1>8 DEF WorkerGet
  <2>2. UNCHANGED <<spc, cmd, preds>> /\ wpc' = [wpc EXCEPT ![e] = "got"]
    BY <1>8 DEF WorkerGet
  <2>3. /\ item'[e] = c /\ pq'[e] = pq[e] \ {c}
        /\ \A f \in Epoch \ {e} : item'[f] = item[f] /\ pq'[f] = pq[f] /\ wpc'[f] = wpc[f]
    BY <1>a, <2>1, <2>2
  <2> QED
    BY <2>1, <2>2, <2>3 DEF OrderHolds
<1>9. ASSUME NEW e \in Epoch, WorkerExit(e) \/ WorkerSkip(e) PROVE OrderHolds'
  <2>1. /\ wpc'[e] # "got"
        /\ \A f \in Epoch \ {e} : item'[f] = item[f] /\ wpc'[f] = wpc[f]
        /\ UNCHANGED <<spc, cmd, preds, pq>>
    BY <1>9, <1>a DEF WorkerExit, WorkerSkip
  <2> QED
    BY <1>0, <2>1
<1>10. ASSUME NEW e \in Epoch, WorkerStart(e) PROVE OrderHolds'
  <2>1. \A b \in Cmd : cmd'[b].seq = cmd[b].seq
    BY <1>10, StartEffect
  <2>2. UNCHANGED <<spc, preds, item, pq>> /\ wpc' = [wpc EXCEPT ![e] = "send"]
    BY <1>10, StartFrame
  <2>3. \A f \in Epoch : wpc'[f] = "got" => wpc[f] = "got"
    BY <1>a, <2>2
  <2> QED
    BY <1>0, <2>1, <2>2, <2>3
<1>11. ASSUME NEW e \in Epoch, NEW outcome \in Outcome, WorkerFinish(e, outcome) PROVE OrderHolds'
  <2>1. \A b \in Cmd : cmd'[b].seq = cmd[b].seq
    BY <1>11, FinishEffect
  <2>2. /\ UNCHANGED <<spc, preds, pq>>
        /\ wpc' = [wpc EXCEPT ![e] = "loop"] /\ item' = [item EXCEPT ![e] = NoCmd]
    BY <1>11, FinishFrame
  <2>3. \A f \in Epoch : wpc'[f] = "got" => wpc[f] = "got" /\ item'[f] = item[f]
    BY <1>a, <2>2
  <2> QED
    BY <1>0, <2>1, <2>2, <2>3
<1>12. ASSUME Beside PROVE OrderHolds'
  BY <1>0, <1>12 DEF Beside
<1> QED
  BY <1>1, <1>2, <1>3, <1>4, <1>5, <1>6, <1>7, <1>8, <1>9, <1>10, <1>11, <1>12
     DEF ArbiterStep, WorkerStep

\* When a worker starts a command, none of the commands that were to be served
\* before it is waiting: it would be in the same queue, and would have been taken.
LEMMA StartInOrder ==
  ASSUME TypeOK, EpochsHold, PlacesHold, RecordsHold, WaitingHolds, SentHolds, OrderHolds,
         SendersHold,
         NEW e \in Epoch, WorkerStart(e),
         NEW b \in preds[item[e]] \cap recs,
         cmd[b].session = cmd[item[e]].session,
         Prio[b] <= Prio[item[e]]
  PROVE  cmd[b].status # "accepted"
<1> DEFINE c == item[e]
<1> SUFFICES ASSUME cmd[b].status = "accepted" PROVE FALSE
  OBVIOUS
<1> USE EpochNat, NoCmdIsNoCmd
<1>1. /\ c \in Cmd /\ c \in recs /\ cmd[c].doneAt = 0 /\ wpc[e] = "got"
      /\ b \in Cmd /\ b \in preds[c]
  BY StartEffect, StartFrame DEF TypeOK
<1>2. /\ spc[b] = "accepted" /\ spc[c] \in Accepted /\ cmd[b].seq < cmd[c].seq
      /\ cmd[b].seq \in Nat /\ cmd[c].seq \in Nat
      /\ Prio[b] \in Nat /\ Prio[c] \in Nat
  BY <1>1, RecordFields, ArbiterAssumption DEF OrderHolds, TypeOK
<1>3. spc[c] = "accepted" /\ \A f \in Epoch : c \notin pq[f] /\ (item[f] = c => f = e)
  BY <1>1 DEF PlacesHold
<1>4. cmd[c].status = "accepted"
  <2>1. cmd[c].status \in {"accepted", "running"}
    BY <1>1 DEF RecordsHold
  <2>2. cmd[c].status # "running"
    BY <1>1, <1>3 DEF SendersHold
  <2> QED
    BY <2>1, <2>2
<1>5. queues[cmd[c].session] \in Epoch
  <2>1. queues[cmd[c].session] # 0 /\ cmd[c].session \in Session
    BY <1>1, <1>2, <1>4 DEF WaitingHolds, RecordsHold
  <2> QED
    BY <2>1 DEF TypeOK, Epoch
<1>6. queues[cmd[c].session] = e
  BY <1>1, <1>3, <1>4, <1>5 DEF WaitingHolds
<1>7. b \in pq[e]
  <2>1. \/ spc[b] = "inserted"
        \/ b \in pq[e]
        \/ item[e] = b
    BY <1>1, <1>6 DEF WaitingHolds
  <2> QED
    BY <1>2, <2>1
<1>8. Before(c, b)
  BY <1>1, <1>7 DEF OrderHolds
<1> QED
  BY <1>2, <1>8 DEF Before

\* The start of a command overtakes none that it should wait for: FifoPerPriority
\* is kept.
LEMMA FifoStep ==
  ASSUME TypeOK, EpochsHold, PlacesHold, RecordsHold, WaitingHolds, SentHolds, SendersHold,
         OrderHolds, FifoPerPriority, ArbiterStep
  PROVE  FifoPerPriority'
<1>a. /\ spc \in [Cmd -> Step] /\ sent \in [Cmd -> Nat]
      /\ preds \in [Cmd -> SUBSET Cmd] /\ recs \subseteq Cmd
  BY DEF TypeOK
\* A step that sends nothing and lets no further record wait.
<1>0. ASSUME UNCHANGED <<sent, preds>>, recs' \subseteq recs,
             \A c \in Cmd : /\ cmd'[c].session = cmd[c].session
                            /\ cmd'[c].status = "accepted" => cmd[c].status = "accepted"
      PROVE  FifoPerPriority'
  BY <1>0, <1>a DEF FifoPerPriority
<1>1. ASSUME NEW c \in Cmd,
             \/ SubmitInvalid(c) \/ SubmitAdmit(c) \/ SubmitFrozen(c) \/ SubmitPut(c)
             \/ \E s \in Session : SubmitRefuse(c, s)
      PROVE  UNCHANGED <<sent, preds, recs, cmd>>
  BY <1>1 DEF SubmitInvalid, SubmitAdmit, SubmitFrozen, SubmitPut, SubmitRefuse
<1>2. ASSUME NEW c \in Cmd, NEW s \in Session, SubmitInsert(c, s) PROVE FifoPerPriority'
  <2>1. /\ \A b \in Cmd \ {c} : cmd'[b] = cmd[b]
        /\ recs' \subseteq recs \cup {c}
    BY <1>2, InsertEffect
  <2>2. /\ AtLock(c) /\ UNCHANGED sent
        /\ preds' = [preds EXCEPT ![c] = {b \in Cmd : spc[b] = "accepted"}]
    BY <1>2, InsertFrame
  <2>3. sent[c] = 0 /\ spc[c] # "accepted"
    BY <2>2 DEF AtLock, SentHolds
  <2>4. \A d \in Cmd \ {c} : preds'[d] = preds[d] /\ c \notin preds[d]
    BY <1>a, <2>2, <2>3 DEF OrderHolds
  <2> QED
    BY <1>a, <2>1, <2>2, <2>3, <2>4 DEF FifoPerPriority
<1>3. ASSUME NEW c \in Cmd, Cancel(c) PROVE FifoPerPriority'
  <2>1. \A b \in Cmd : /\ cmd'[b].session = cmd[b].session
                       /\ cmd'[b].status = "accepted" => cmd[b].status = "accepted"
    BY <1>3, CancelEffect
  <2>2. UNCHANGED <<sent, preds>> /\ recs' \subseteq recs
    BY <1>3, CancelFrame, CancelEffect
  <2> QED
    BY <1>0, <2>1, <2>2
<1>4. ASSUME NEW s \in Session, Register(s) PROVE UNCHANGED <<sent, preds, recs, cmd>>
  BY <1>4 DEF Register
<1>5. ASSUME NEW s \in Session, NEW code \in Flushed, FlushSession(s, code) \/ Unregister(s, code)
      PROVE  FifoPerPriority'
  <2>1. UNCHANGED <<sent, preds, recs>> /\ FlushLocked(s, code)
    BY <1>5, FlushFrame
  <2>2. \A b \in Cmd : /\ cmd'[b].session = cmd[b].session
                       /\ cmd'[b].status = "accepted" => cmd[b].status = "accepted"
    BY <2>1, FlushEffect
  <2> QED
    BY <1>0, <2>1, <2>2
<1>6. ASSUME NEW e \in Epoch, SetStop(e) \/ WorkerGet(e) \/ WorkerExit(e) \/ WorkerSkip(e)
      PROVE  UNCHANGED <<sent, preds, recs, cmd>>
  BY <1>6 DEF SetStop, WorkerGet, WorkerExit, WorkerSkip
<1>7. ASSUME NEW e \in Epoch, WorkerStart(e) PROVE FifoPerPriority'
  <2> DEFINE c == item[e]
  <2>1. /\ c \in Cmd
        /\ \A b \in Cmd : /\ cmd'[b].session = cmd[b].session
                          /\ cmd'[b].status = "accepted" => cmd[b].status = "accepted"
    BY <1>7, StartEffect
  <2>2. UNCHANGED <<recs, preds>> /\ sent' = [sent EXCEPT ![c] = @ + 1]
    BY <1>7, StartFrame
  <2>3. \A d \in Cmd \ {c} : sent'[d] = sent[d]
    BY <1>a, <2>2
  <2>4. ASSUME NEW d \in Cmd, sent'[d] > 0, NEW b \in preds[d] \cap recs,
               cmd'[b].session = cmd'[d].session, Prio[b] <= Prio[d]
        PROVE  cmd'[b].status # "accepted"
    <3>1. b \in Cmd /\ cmd[b].session = cmd[d].session
      BY <1>a, <2>1, <2>4
    <3>2. CASE d = c
      BY <1>7, <2>1, <2>4, <3>1, <3>2, StartInOrder
    <3>3. CASE d # c
      BY <2>1, <2>3, <2>4, <3>1, <3>3 DEF FifoPerPriority
    <3> QED
      BY <3>2, <3>3
  <2> QED
    BY <2>2, <2>4 DEF FifoPerPriority
<1>8. ASSUME NEW e \in Epoch, NEW outcome \in Outcome, WorkerFinish(e, outcome)
      PROVE  FifoPerPriority'
  <2>1. /\ \A b \in Cmd : /\ cmd'[b].session = cmd[b].session
                          /\ cmd'[b].status = "accepted" => cmd[b].status = "accepted"
        /\ recs' \subseteq recs
    BY <1>8, FinishEffect
  <2>2. UNCHANGED <<sent, preds>>
    BY <1>8, FinishFrame
  <2> QED
    BY <1>0, <2>1, <2>2
<1>9. ASSUME Beside PROVE UNCHANGED <<sent, preds, recs, cmd>>
  BY <1>9 DEF Beside
<1> QED
  BY <1>0, <1>1, <1>2, <1>3, <1>4, <1>5, <1>6, <1>7, <1>8, <1>9 DEF ArbiterStep, WorkerStep

------------------------------------------------------------------------------
(* The limits                                                              *)

\* Counting by owner: n members at most for each owner.
LEMMA CountByOwner ==
  ASSUME NEW R, IsFiniteSet(R), NEW S, IsFiniteSet(S), NEW own \in [R -> S], NEW n \in Nat,
         \A s \in S : Cardinality({c \in R : own[c] = s}) <= n
  PROVE  Cardinality(R) <= Cardinality(S) * n
<1> DEFINE F(s) == {c \in R : own[c] = s}
           g(s) == CHOOSE f : f \in Injection(F(s), 1 .. n)
           h == [c \in R |-> <<own[c], g(own[c])[c]>>]
<1>1. ASSUME NEW s \in S PROVE \E f : f \in Injection(F(s), 1 .. n)
  <2> DEFINE k == Cardinality(F(s))
  <2>1. IsFiniteSet(F(s)) /\ k \in Nat
    BY FS_Subset, FS_CardinalityType
  <2>2. k <= n
    OBVIOUS
  <2> HIDE DEF k
  <2>3. IsFiniteSet(1 .. k) /\ Cardinality(1 .. k) = k
    BY <2>1, FS_Interval
  <2>4. ExistsBijection(F(s), 1 .. k)
    BY <2>1, <2>3, FS_SameCardinalityBij DEF k
  <2>5. PICK f : f \in Injection(F(s), 1 .. k)
    BY <2>4 DEF ExistsBijection, Bijection
  <2>6. f \in [F(s) -> 1 .. n]
    BY <2>1, <2>2, <2>5 DEF Injection
  <2> QED
    BY <2>5, <2>6 DEF Injection
<1>2. \A s \in S : g(s) \in Injection(F(s), 1 .. n)
  BY <1>1
<1> HIDE DEF g
<1>3. ASSUME NEW c \in R PROVE g(own[c])[c] \in 1 .. n
  <2>1. own[c] \in S /\ c \in F(own[c])
    OBVIOUS
  <2> QED
    BY <1>2, <2>1 DEF Injection
<1>4. h \in [R -> S \X (1 .. n)]
  BY <1>3
<1>5. ASSUME NEW b \in R, NEW c \in R, h[b] = h[c] PROVE b = c
  <2>1. own[b] = own[c] /\ g(own[c])[b] = g(own[c])[c]
    BY <1>5
  <2>2. b \in F(own[c]) /\ c \in F(own[c]) /\ own[c] \in S
    BY <2>1
  <2>3. g(own[c]) \in Injection(F(own[c]), 1 .. n)
    BY <1>2, <2>2
  <2> HIDE DEF F
  <2> QED
    BY <2>1, <2>2, <2>3 DEF Injection, IsInjective
<1>6. h \in Injection(R, S \X (1 .. n))
  BY <1>4, <1>5 DEF Injection, IsInjective
<1> HIDE DEF h
<1>7. IsFiniteSet(1 .. n) /\ Cardinality(1 .. n) = n
  BY FS_Interval
<1>8. IsFiniteSet(S \X (1 .. n)) /\ Cardinality(S \X (1 .. n)) = Cardinality(S) * n
  BY <1>7, FS_Product
<1> QED
  BY <1>6, <1>8, FS_Injection

\* Eviction brings the table down to the history limit, or takes every record that has ended.
LEMMA KeptLimit ==
  ASSUME NEW R, IsFiniteSet(R), NEW C, NEW run,
         \A c \in R : C[c].doneAt \in Nat /\ C[c].seq \in Nat
  PROVE  \/ Cardinality(Kept(R, C, run)) <= HistoryMax
         \/ \A c \in Kept(R, C, run) : C[c].doneAt = 0 \/ \E s \in Session : run[s] = c
<1> DEFINE done == {c \in R : C[c].doneAt # 0 /\ \A s \in Session : run[s] # c}
           excess == Cardinality(R) - HistoryMax
           older(c) == {b \in done : Older(C, b, c)}
           evicted == {c \in done : Cardinality(older(c)) < excess}
           left == done \ evicted
           all == {older(c) : c \in left}
<1>1. Kept(R, C, run) = R \ evicted
  BY DEF Kept
<1>2. Cardinality(R) \in Nat /\ HistoryMax \in Nat
  BY FS_CardinalityType, ArbiterAssumption
<1>3. IsFiniteSet(done)
  BY FS_Subset
<1>4. CASE left = {}
  BY <1>1, <1>4
<1>5. CASE left # {}
  <2>1. \A c \in left : older(c) \in SUBSET done /\ IsFiniteSet(older(c))
    BY <1>3, FS_Subset
  <2>2. all \subseteq FiniteSubsetsOf(done) /\ all # {}
    BY <1>5, <2>1 DEF FiniteSubsetsOf
  <2>3. IsWellFoundedOn(StrictSubsetOrdering(done), FiniteSubsetsOf(done))
    BY FS_StrictSubsetOrderingWellFounded
  <2>4. \E x \in all : \A y \in all : <<y, x>> \notin StrictSubsetOrdering(done)
    <3> HIDE DEF all, done
    <3> QED
      BY <2>2, <2>3, WFMin
  <2>5. PICK d \in left : \A c \in left : <<older(c), older(d)>> \notin StrictSubsetOrdering(done)
    BY <2>4
  <2>6. ASSUME NEW b \in older(d), b \notin evicted PROVE FALSE
    <3>1. b \in left /\ Older(C, b, d)
      BY <2>6
    <3>2. b \notin older(b) /\ b \in older(d)
      BY DEF Older
    <3>3. ASSUME NEW c \in older(b) PROVE c \in older(d)
      <4>1. /\ C[b].doneAt \in Nat /\ C[b].seq \in Nat
            /\ C[c].doneAt \in Nat /\ C[c].seq \in Nat
            /\ C[d].doneAt \in Nat /\ C[d].seq \in Nat
        OBVIOUS
      <4>2. Older(C, c, b) /\ Older(C, b, d)
        OBVIOUS
      <4>3. Older(C, c, d)
        BY <4>1, <4>2 DEF Older
      <4> QED
        BY <4>3
    <3>4. <<older(b), older(d)>> \in StrictSubsetOrdering(done)
      <4>1. older(b) \subseteq older(d) /\ older(b) # older(d)
        BY <3>2, <3>3
      <4>2. older(b) \in SUBSET done /\ older(d) \in SUBSET done
        OBVIOUS
      <4> HIDE DEF older, done
      <4> QED
        BY <4>1, <4>2 DEF StrictSubsetOrdering
    <3> QED
      BY <2>5, <3>1, <3>4
  <2>7. older(d) \subseteq evicted
    BY <2>6
  <2>8. evicted \subseteq R /\ IsFiniteSet(evicted) /\ R \cap evicted = evicted
    BY FS_Subset
  <2>9. ~(Cardinality(older(d)) < excess) /\ Cardinality(older(d)) \in Nat
    BY <2>1, FS_CardinalityType
  <2>10. Cardinality(older(d)) <= Cardinality(evicted) /\ Cardinality(evicted) \in Nat
    BY <2>7, <2>8, FS_Subset, FS_CardinalityType
  <2>11. Cardinality(R \ evicted) = Cardinality(R) - Cardinality(evicted)
    BY <2>8, FS_Difference
  <2> HIDE DEF older, evicted, done
  <2> QED
    BY <1>1, <1>2, <2>9, <2>10, <2>11
<1> QED
  BY <1>4, <1>5

\* The commands of a session that count against its pending limit.
PendingSet(s) ==
  {c \in recs : cmd[c].session = s /\ (cmd[c].doneAt = 0 \/ running[s] = c)}

PendingHolds == \A s \in Session : Cardinality(PendingSet(s)) <= PendingMax

TableHolds ==
  \/ Cardinality(recs) <= HistoryMax
  \/ Cardinality(recs) <= Cardinality(Session) * PendingMax

\* The two halves of LimitsHold.
LEMMA LimitsParts == LimitsHold <=> PendingHolds /\ TableHolds
  BY DEF LimitsHold, PendingHolds, TableHolds, PendingSet

\* The load is chosen once.
LEMMA LoadStep ==
  ASSUME ArbiterStep
  PROVE  load' = load
<1>1. ASSUME NEW c \in Cmd, NEW s \in Session,
             \/ SubmitInvalid(c) \/ SubmitAdmit(c) \/ SubmitFrozen(c) \/ SubmitPut(c)
             \/ SubmitRefuse(c, s) \/ SubmitInsert(c, s)
      PROVE  load' = load
  BY <1>1 DEF SubmitInvalid, SubmitAdmit, SubmitFrozen, SubmitPut, SubmitRefuse, SubmitInsert
<1>2. ASSUME NEW c \in Cmd, SubmitInvalid(c) \/ SubmitAdmit(c) \/ SubmitFrozen(c) \/ SubmitPut(c)
      PROVE  load' = load
  BY <1>2 DEF SubmitInvalid, SubmitAdmit, SubmitFrozen, SubmitPut
<1>3. ASSUME NEW c \in Cmd, Cancel(c) PROVE load' = load
  BY <1>3, CancelFrame
<1>4. ASSUME NEW s \in Session, Register(s) PROVE load' = load
  BY <1>4 DEF Register
<1>5. ASSUME NEW s \in Session, NEW code \in Flushed, FlushSession(s, code) \/ Unregister(s, code)
      PROVE  load' = load
  BY <1>5, FlushFrame
<1>6. ASSUME NEW e \in Epoch, SetStop(e) \/ WorkerStep(e) PROVE load' = load
  BY <1>6 DEF SetStop, WorkerStep, WorkerGet, WorkerExit, WorkerSkip, WorkerStart
<1>7. ASSUME NEW e \in Epoch, NEW outcome \in Outcome, WorkerFinish(e, outcome) PROVE load' = load
  BY <1>7, FinishFrame
<1>8. ASSUME Beside PROVE load' = load
  BY <1>8 DEF Beside
<1> QED
  BY <1>1, <1>2, <1>3, <1>4, <1>5, <1>6, <1>7, <1>8 DEF ArbiterStep

\* What _count_pending_locked counts is what keeps the session busy: the open
\* records, and the running one that was canceled.
LEMMA PendingCounts ==
  ASSUME TypeOK, RecordsHold, SendersHold, NEW s \in Session
  PROVE  IsFiniteSet(PendingSet(s)) /\ Pending(s) = Cardinality(PendingSet(s))
<1> DEFINE open == {c \in recs : cmd[c].session = s /\ cmd[c].doneAt = 0}
           c == running[s]
           extra == c \in recs /\ cmd[c].session = s /\ cmd[c].status = "canceled"
<1>1. recs \subseteq Cmd /\ IsFiniteSet(recs)
  BY ArbiterAssumption, FS_Subset DEF TypeOK
<1>2. IsFiniteSet(open) /\ IsFiniteSet(PendingSet(s)) /\ Cardinality(open) \in Nat
  BY <1>1, FS_Subset, FS_CardinalityType DEF PendingSet
<1>3. c \in recs => cmd[c].status \in {"running", "canceled"}
  BY <1>1, NoCmdIsNoCmd DEF SendersHold
<1>4. \A b \in recs : cmd[b].doneAt = 0 => cmd[b].status \in {"accepted", "running"}
  BY <1>1 DEF RecordsHold
<1>5. CASE extra
  <2>1. c \notin open /\ PendingSet(s) = open \cup {c}
    BY <1>4, <1>5 DEF PendingSet
  <2> QED
    BY <1>2, <1>5, <2>1, FS_AddElement DEF Pending
<1>6. CASE ~extra
  <2>1. c \in recs /\ cmd[c].session = s => cmd[c].status = "running"
    BY <1>3, <1>6
  <2>2. c \in recs /\ cmd[c].session = s => cmd[c].doneAt = 0
    BY <1>1, <2>1 DEF RecordsHold
  <2>3. PendingSet(s) = open
    BY <2>2 DEF PendingSet
  <2> QED
    BY <1>2, <1>6, <2>3 DEF Pending
<1> QED
  BY <1>5, <1>6

\* A session is never busier than CMD_PENDING_MAX: submit() counts before it
\* inserts, and no other step adds to what it counted.
LEMMA PendingStep ==
  ASSUME load \in Load, TypeOK, RecordsHold, SendersHold, PendingHolds, ArbiterStep
  PROVE  PendingHolds'
<1>a. /\ recs \subseteq Cmd /\ NoCmd \notin recs
      /\ running \in [Session -> Cmd \cup {NoCmd}]
      /\ PendingMax \in Nat /\ PendingMax' = PendingMax
  BY ArbiterAssumption, NoCmdIsNoCmd, LoadStep DEF TypeOK, PendingMax
<1>b. \A s \in Session : IsFiniteSet(PendingSet(s)) /\ Cardinality(PendingSet(s)) \in Nat
  BY PendingCounts, FS_CardinalityType
<1>0. ASSUME \A s \in Session : PendingSet(s)' \subseteq PendingSet(s) PROVE PendingHolds'
  <2> SUFFICES ASSUME NEW s \in Session PROVE Cardinality(PendingSet(s)') <= PendingMax
    BY <1>a DEF PendingHolds
  <2>1. Cardinality(PendingSet(s)') <= Cardinality(PendingSet(s)) /\ Cardinality(PendingSet(s)') \in Nat
    BY <1>0, <1>b, FS_Subset, FS_CardinalityType
  <2> QED
    BY <1>a, <1>b, <2>1 DEF PendingHolds
<1>1. ASSUME UNCHANGED <<recs, cmd, running>> PROVE PendingHolds'
  BY <1>0, <1>1 DEF PendingSet
<1>2. ASSUME NEW c \in Cmd, NEW s \in Session, SubmitInsert(c, s) PROVE PendingHolds'
  <2>1. /\ Pending(s) < PendingMax /\ UNCHANGED running
    BY <1>2, InsertFrame
  <2>2. /\ \A b \in Cmd \ {c} : cmd'[b] = cmd[b]
        /\ cmd'[c].session = s
        /\ recs' \subseteq recs \cup {c}
    BY <1>2, InsertEffect
  <2>3. \A r \in Session : r # s => PendingSet(r)' \subseteq PendingSet(r)
    BY <1>a, <2>1, <2>2 DEF PendingSet
  <2>4. PendingSet(s)' \subseteq PendingSet(s) \cup {c}
    BY <1>a, <2>1, <2>2 DEF PendingSet
  <2>5. Cardinality(PendingSet(s)) < PendingMax
    BY <2>1, PendingCounts
  <2>6. Cardinality(PendingSet(s)') <= PendingMax
    <3>1. /\ IsFiniteSet(PendingSet(s) \cup {c})
          /\ Cardinality(PendingSet(s) \cup {c}) <= Cardinality(PendingSet(s)) + 1
          /\ Cardinality(PendingSet(s) \cup {c}) \in Nat
      <4>1. IsFiniteSet(PendingSet(s)) /\ Cardinality(PendingSet(s)) \in Nat
        BY <1>b
      <4>2. /\ IsFiniteSet(PendingSet(s) \cup {c})
            /\ Cardinality(PendingSet(s) \cup {c}) =
                 IF c \in PendingSet(s) THEN Cardinality(PendingSet(s)) ELSE Cardinality(PendingSet(s)) + 1
        BY <4>1, FS_AddElement
      <4> QED
        BY <4>1, <4>2
    <3>2. Cardinality(PendingSet(s)') <= Cardinality(PendingSet(s) \cup {c}) /\ Cardinality(PendingSet(s)') \in Nat
      BY <2>4, <3>1, FS_Subset, FS_CardinalityType
    <3> QED
      BY <1>a, <1>b, <2>5, <3>1, <3>2
  <2>7. ASSUME NEW r \in Session, r # s PROVE Cardinality(PendingSet(r)') <= PendingMax
    <3>1. Cardinality(PendingSet(r)') <= Cardinality(PendingSet(r)) /\ Cardinality(PendingSet(r)') \in Nat
      BY <1>b, <2>3, <2>7, FS_Subset, FS_CardinalityType
    <3> QED
      BY <1>a, <1>b, <3>1 DEF PendingHolds
  <2> QED
    BY <1>a, <2>6, <2>7 DEF PendingHolds
<1>3. ASSUME NEW c \in Cmd, Cancel(c) PROVE PendingHolds'
  <2>1. /\ \A b \in Cmd \ {c} : cmd'[b] = cmd[b]
        /\ cmd'[c].session = cmd[c].session /\ cmd'[c].doneAt = clock + 1
        /\ recs' \subseteq recs
    BY <1>3, CancelEffect
  <2>2. UNCHANGED running /\ clock + 1 # 0
    BY <1>3, CancelFrame DEF TypeOK
  <2> QED
    BY <1>0, <1>a, <2>1, <2>2 DEF PendingSet
<1>4. ASSUME NEW s \in Session, NEW code \in Flushed, FlushSession(s, code) \/ Unregister(s, code)
      PROVE  PendingHolds'
  <2>1. UNCHANGED <<running, recs>> /\ FlushLocked(s, code) /\ clock + 1 # 0
    BY <1>4, FlushFrame DEF TypeOK
  <2>2. /\ \A b \in Cmd \ Waiting(s) : cmd'[b] = cmd[b]
        /\ \A b \in Waiting(s) : cmd'[b].session = cmd[b].session /\ cmd'[b].doneAt = clock + 1
    BY <2>1, FlushEffect
  <2> QED
    BY <1>0, <1>a, <2>1, <2>2 DEF PendingSet
<1>5. ASSUME NEW e \in Epoch, WorkerStart(e) PROVE PendingHolds'
  <2>1. /\ item[e] \in recs /\ item[e] \in Cmd /\ cmd[item[e]].doneAt = 0
        /\ \A b \in Cmd \ {item[e]} : cmd'[b] = cmd[b]
        /\ cmd'[item[e]].session = cmd[item[e]].session
    BY <1>5, StartEffect
  <2>2. UNCHANGED recs /\ running' = [running EXCEPT ![owner[e]] = item[e]]
    BY <1>5, StartFrame
  <2>3. \A s \in Session : running'[s] = running[s] \/ running'[s] = item[e]
    BY <1>a, <2>2
  <2> QED
    BY <1>0, <1>a, <2>1, <2>2, <2>3 DEF PendingSet
<1>6. ASSUME NEW e \in Epoch, NEW outcome \in Outcome, WorkerFinish(e, outcome)
      PROVE  PendingHolds'
  <2>1. /\ \A b \in Cmd : b # item[e] \/ b \notin recs => cmd'[b] = cmd[b]
        /\ item[e] \in recs =>
             /\ cmd'[item[e]].session = cmd[item[e]].session
             /\ cmd[item[e]].doneAt # 0 => cmd'[item[e]].doneAt # 0
        /\ recs' \subseteq recs
    BY <1>6, FinishEffect
  <2>2. \A s \in Session : running'[s] = running[s] \/ running'[s] = NoCmd
    BY <1>6, <1>a, FinishFrame
  <2> QED
    BY <1>0, <1>a, <2>1, <2>2 DEF PendingSet
<1>7. ASSUME NEW c \in Cmd, NEW s \in Session,
             \/ SubmitInvalid(c) \/ SubmitAdmit(c) \/ SubmitFrozen(c) \/ SubmitPut(c)
             \/ SubmitRefuse(c, s)
      PROVE  UNCHANGED <<recs, cmd, running>>
  BY <1>7 DEF SubmitInvalid, SubmitAdmit, SubmitFrozen, SubmitPut, SubmitRefuse
<1>8. ASSUME NEW c \in Cmd, SubmitInvalid(c) \/ SubmitAdmit(c) \/ SubmitFrozen(c) \/ SubmitPut(c)
      PROVE  UNCHANGED <<recs, cmd, running>>
  BY <1>8 DEF SubmitInvalid, SubmitAdmit, SubmitFrozen, SubmitPut
<1>9. ASSUME NEW s \in Session, Register(s) PROVE UNCHANGED <<recs, cmd, running>>
  BY <1>9 DEF Register
<1>10. ASSUME NEW e \in Epoch, SetStop(e) \/ WorkerGet(e) \/ WorkerExit(e) \/ WorkerSkip(e)
       PROVE  UNCHANGED <<recs, cmd, running>>
  BY <1>10 DEF SetStop, WorkerGet, WorkerExit, WorkerSkip
<1>11. ASSUME Beside PROVE UNCHANGED <<recs, cmd, running>>
  BY <1>11 DEF Beside
<1> QED
  BY <1>1, <1>2, <1>3, <1>4, <1>5, <1>6, <1>7, <1>8, <1>9, <1>10, <1>11 DEF ArbiterStep, WorkerStep

\* What eviction could not take is busy, so the table holds no more of it than
\* the sessions may have pending.
LEMMA TableAfterEviction ==
  ASSUME NEW R \in SUBSET Cmd, NEW C \in [Cmd -> Record], NEW run, NEW n \in Nat,
         NEW K, K = Kept(R, C, run),
         \A c \in K : C[c].doneAt = 0 => C[c].session \in Session,
         \A c \in K : \A s \in Session : run[s] = c => C[c].session = s,
         \A s \in Session :
           Cardinality({c \in K : C[c].session = s /\ (C[c].doneAt = 0 \/ run[s] = c)}) <= n
  PROVE  Cardinality(K) <= HistoryMax \/ Cardinality(K) <= Cardinality(Session) * n
<1>1. IsFiniteSet(R) /\ K \subseteq R /\ IsFiniteSet(K) /\ IsFiniteSet(Session)
  <2>1. IsFiniteSet(R)
    BY ArbiterAssumption, FS_Subset
  <2> QED
    BY <2>1, ArbiterAssumption, KeptProperties, FS_Subset
<1>2. \A c \in R : C[c].doneAt \in Nat /\ C[c].seq \in Nat
  BY RecordFields
<1>3. \/ Cardinality(K) <= HistoryMax
      \/ \A c \in K : C[c].doneAt = 0 \/ \E s \in Session : run[s] = c
  BY <1>1, <1>2, KeptLimit
<1>4. ASSUME \A c \in K : C[c].doneAt = 0 \/ \E s \in Session : run[s] = c
      PROVE  Cardinality(K) <= Cardinality(Session) * n
  <2> DEFINE own == [c \in K |-> C[c].session]
  <2>1. own \in [K -> Session]
    BY <1>4
  <2>2. ASSUME NEW s \in Session PROVE Cardinality({c \in K : own[c] = s}) <= n
    <3>1. {c \in K : own[c] = s} = {c \in K : C[c].session = s /\ (C[c].doneAt = 0 \/ run[s] = c)}
      BY <1>4
    <3> QED
      BY <3>1
  <2> HIDE DEF own
  <2> QED
    BY <1>1, <2>1, <2>2, CountByOwner
<1> QED
  BY <1>3, <1>4

\* The table outgrows the history limit only by what is pending: each step that
\* adds or ends a record evicts under the same lock, except a flush, which adds
\* none.
LEMMA TableStep ==
  ASSUME load \in Load, TypeOK, ArbiterStep, TableHolds,
         TypeOK', PlacesHold', RecordsHold', SendersHold', PendingHolds'
  PROVE  TableHolds'
<1>a. PendingMax \in Nat /\ PendingMax' = PendingMax
  BY ArbiterAssumption, LoadStep DEF PendingMax
<1>b. /\ recs' \subseteq Cmd /\ NoCmd \notin recs'
      /\ \A c \in recs' : cmd'[c].session \in Session
  BY NoCmdIsNoCmd DEF TypeOK, RecordsHold
<1>c. \A c \in recs' : \A s \in Session : running'[s] = c => cmd'[c].session = s
  BY <1>b, NoCmdIsNoCmd DEF SendersHold, PlacesHold
<1>d. \A s \in Session :
        Cardinality({c \in recs' : cmd'[c].session = s /\ (cmd'[c].doneAt = 0 \/ running'[s] = c)})
          <= PendingMax
  BY <1>a DEF PendingHolds, PendingSet
<1>0. ASSUME UNCHANGED recs PROVE TableHolds'
  BY <1>0, <1>a DEF TableHolds
<1>1. ASSUME NEW R \in SUBSET Cmd, recs' = Kept(R, cmd', running') PROVE TableHolds'
  <2>1. cmd' \in [Cmd -> Record]
    BY DEF TypeOK
  <2>2. \/ Cardinality(recs') <= HistoryMax
        \/ Cardinality(recs') <= Cardinality(Session) * PendingMax
    BY <1>1, <1>a, <1>b, <1>c, <1>d, <2>1, TableAfterEviction
  <2> QED
    BY <1>a, <2>2 DEF TableHolds
<1>2. ASSUME NEW c \in Cmd, NEW s \in Session, SubmitInsert(c, s) PROVE TableHolds'
  <2>1. recs' = Kept(recs \cup {c}, cmd', running') /\ recs \cup {c} \in SUBSET Cmd
    BY <1>2, InsertFrame DEF TypeOK
  <2> QED
    BY <1>1, <2>1
<1>3. ASSUME NEW c \in Cmd, Cancel(c) PROVE TableHolds'
  <2>1. recs' = Kept(recs, cmd', running') /\ recs \in SUBSET Cmd
    BY <1>3, CancelFrame DEF TypeOK
  <2> QED
    BY <1>1, <2>1
<1>4. ASSUME NEW e \in Epoch, NEW outcome \in Outcome, WorkerFinish(e, outcome) PROVE TableHolds'
  <2>1. recs' = Kept(recs, cmd', running') /\ recs \in SUBSET Cmd
    BY <1>4, FinishEffect DEF TypeOK
  <2> QED
    BY <1>1, <2>1
<1>5. ASSUME NEW c \in Cmd, NEW s \in Session,
             \/ SubmitInvalid(c) \/ SubmitAdmit(c) \/ SubmitFrozen(c) \/ SubmitPut(c)
             \/ SubmitRefuse(c, s)
      PROVE  UNCHANGED recs
  BY <1>5 DEF SubmitInvalid, SubmitAdmit, SubmitFrozen, SubmitPut, SubmitRefuse
<1>6. ASSUME NEW c \in Cmd, SubmitInvalid(c) \/ SubmitAdmit(c) \/ SubmitFrozen(c) \/ SubmitPut(c)
      PROVE  UNCHANGED recs
  BY <1>6 DEF SubmitInvalid, SubmitAdmit, SubmitFrozen, SubmitPut
<1>7. ASSUME NEW s \in Session, Register(s) PROVE UNCHANGED recs
  BY <1>7 DEF Register
<1>8. ASSUME NEW s \in Session, NEW code \in Flushed, FlushSession(s, code) \/ Unregister(s, code)
      PROVE  UNCHANGED recs
  BY <1>8, FlushFrame
<1>9. ASSUME NEW e \in Epoch, SetStop(e) \/ WorkerStep(e) PROVE UNCHANGED recs
  BY <1>9 DEF SetStop, WorkerStep, WorkerGet, WorkerExit, WorkerSkip, WorkerStart
<1>10. ASSUME Beside PROVE UNCHANGED recs
  BY <1>10 DEF Beside
<1> QED
  BY <1>0, <1>2, <1>3, <1>4, <1>5, <1>6, <1>7, <1>8, <1>9, <1>10 DEF ArbiterStep

------------------------------------------------------------------------------
(* The invariant and what it gives                                         *)

\* Initially there is no command, no worker and no ticket.
LEMMA InvInit == Init => Inv
<1> SUFFICES ASSUME Init PROVE Inv
  OBVIOUS
<1>1. TypeOK
  BY TypeInit
<1>2. /\ load \in Load /\ recs = {} /\ held = {} /\ owner = << >> /\ counter = 0 /\ tickets = {}
      /\ \A c \in Cmd : spc[c] = "new" /\ cmd[c] = NoRecord /\ sent[c] = 0 /\ preds[c] = {}
      /\ \A s \in Session : queues[s] = 0 /\ running[s] = NoCmd
      /\ \A e \in Epoch : pq[e] = {} /\ ~stop[e] /\ wpc[e] = "none" /\ item[e] = NoCmd
  BY DEF Init, GateInit, ArbInit
<1>3. Len(owner) = 0
  BY <1>2
<1>4. \A c \in Cmd : cmd[c].status = "none" /\ cmd[c].error = "none"
  BY <1>2 DEF NoRecord
<1>5. EpochsHold
  <2>1. \A e \in Epoch : ~(e <= Len(owner))
    BY <1>3, EpochNat
  <2> QED
    BY <1>2, <2>1 DEF EpochsHold
<1>6. PlacesHold /\ SendersHold
  BY <1>2, <1>4 DEF PlacesHold, SendersHold
<1>7. RecordsHold /\ WaitingHolds
  BY <1>2, <1>4 DEF RecordsHold, WaitingHolds, Accepted
<1>8. SentHolds /\ AnswersHold
  BY <1>2, <1>4 DEF SentHolds, AnswersHold
<1>9. TicketsHold /\ OrderHolds /\ FifoPerPriority
  BY <1>2 DEF TicketsHold, OrderHolds, FifoPerPriority
<1>10. LimitsHold
  <2>1. Cardinality({}) = 0 /\ PendingMax \in Nat /\ HistoryMax \in Nat
    BY <1>2, FS_EmptySet, ArbiterAssumption DEF PendingMax
  <2>2. \A s \in Session : PendingSet(s) = {}
    BY <1>2 DEF PendingSet
  <2>3. PendingHolds
    BY <2>1, <2>2 DEF PendingHolds
  <2>4. TableHolds
    BY <1>2, <2>1 DEF TableHolds
  <2> QED
    BY <2>3, <2>4, LimitsParts
<1> QED
  BY <1>1, <1>2, <1>5, <1>6, <1>7, <1>8, <1>9, <1>10 DEF Inv

\* Every step keeps the invariant, whoever schedules it.
LEMMA InvStep ==
  ASSUME Inv, ArbiterStep
  PROVE  Inv'
<1> USE DEF Inv
<1>1. load' \in Load
  BY LoadStep
<1>2. TypeOK'
  BY TypeStep
<1>3. EpochsHold'
  BY EpochsStep
<1>4. RecordsHold'
  BY RecordsStep
<1>5. PlacesHold'
  BY PlacesStep
<1>6. WaitingHolds'
  BY WaitingStep
<1>7. SentHolds' /\ AnswersHold'
  BY SentStep, AnswersStep
<1>8. SendersHold'
  BY SendersStep
<1>9. TicketsHold'
  BY TicketsStep
<1>10. OrderHolds'
  BY OrderStep
<1>11. FifoPerPriority'
  BY FifoStep
<1>12. PendingHolds /\ TableHolds
  BY LimitsParts
<1>13. PendingHolds'
  BY <1>12, PendingStep
<1>14. TableHolds'
  BY <1>2, <1>4, <1>5, <1>8, <1>12, <1>13, TableStep
<1>15. LimitsHold'
  BY <1>13, <1>14 DEF LimitsHold, PendingHolds, TableHolds, PendingSet
<1> QED
  BY <1>1, <1>2, <1>3, <1>4, <1>5, <1>6, <1>7, <1>8, <1>9, <1>10, <1>11, <1>15

\* The steps of the arbiter on its own are such steps.
LEMMA NextIsArbiterStep ==
  ASSUME Inv, [Next]_vars
  PROVE  ArbiterStep
<1>1. load.cmds \subseteq Cmd /\ frozen \in BOOLEAN
  BY ArbiterAssumption DEF Inv, TypeOK
<1>2. CASE ArbNext
  BY <1>1, <1>2 DEF ArbNext, ArbiterStep, SubmitStep
<1>3. CASE \E s \in Session : Register(s) \/ ManagerLoses(s)
  BY <1>3 DEF ManagerLoses, ArbiterStep, Flushed
<1>4. CASE FreezeGate
  BY <1>4 DEF FreezeGate, Freeze, ArbiterStep, Beside
<1>5. CASE UNCHANGED vars
  BY <1>1, <1>5 DEF vars, ArbiterStep, Beside
<1> QED
  BY <1>2, <1>3, <1>4, <1>5 DEF Next

\* The invariant holds in every behaviour of the arbiter.
THEOREM ArbiterInvariant == Spec => []Inv
<1>1. Inv /\ [Next]_vars => Inv'
  BY InvStep, NextIsArbiterStep
<1> QED
  BY <1>1, InvInit, PTL DEF Spec

\* The arbiter's tables, queues and threads keep their shape, for any number
\* of sessions, commands, registrations and cancels.
THEOREM TypeCorrect == Spec => []TypeOK
<1>1. Inv => TypeOK
  BY DEF Inv
<1> QED
  BY <1>1, ArbiterInvariant, PTL

\* No command is given to send_cb twice, whatever cancel, flush and
\* re-registration do while a worker of an earlier epoch is still running.
THEOREM NeverSentTwice == Spec => []SentAtMostOnce
<1>1. Inv => SentAtMostOnce
  BY DEF Inv, SentHolds, SentAtMostOnce
<1> QED
  BY <1>1, ArbiterInvariant, PTL

\* A command that has ended and was not canceled says so truly: flushed by the
\* arbiter if it was never given to send_cb, also when a worker had already
\* taken it from the queue, and otherwise what send_cb answered.
THEOREM EndedRecordsAreTrue == Spec => []EndedRecordIsTrue
<1>1. Inv => EndedRecordIsTrue
  BY DEF Inv, AnswersHold, TrueRecord, EndedRecordIsTrue
<1> QED
  BY <1>1, ArbiterInvariant, PTL

\* Every open command of an agent holds an admission ticket, and every ticket
\* has an owner that gives it back.
THEOREM TicketsMatch == Spec => []TicketsMatchCommands
<1>1. Inv => TicketsMatchCommands
  BY DEF Inv, TypeOK, TicketsHold, TicketsMatchCommands
<1> QED
  BY <1>1, ArbiterInvariant, PTL

\* CMD_PENDING_MAX bounds what a session has waiting or running, and the
\* command table never outgrows both CMD_HISTORY_MAX and what the sessions may
\* have pending.
THEOREM LimitsKept == Spec => []LimitsHold
<1>1. Inv => LimitsHold
  BY DEF Inv
<1> QED
  BY <1>1, ArbiterInvariant, PTL

\* A command is not overtaken by one of its session that was submitted after
\* it was accepted and is not more urgent.
THEOREM ServedInOrder == Spec => []FifoPerPriority
<1>1. Inv => FifoPerPriority
  BY DEF Inv
<1> QED
  BY <1>1, ArbiterInvariant, PTL
==============================================================================
