---------------------------- MODULE ServiceProofs ----------------------------
(***************************************************************************)
(* What the service layer guarantees around the arbiter: the freeze of the *)
(* admission gate, what a granted handoff leaves behind, who owns the RPC  *)
(* tickets and what a graceful stop leaves in the queues; and that the     *)
(* arbiter's own invariant survives everything the service does with it.   *)
(***************************************************************************)
EXTENDS Service, ArbiterProofs

InProgress == {"dispatch", "dispatched", "snapped"}

\* The steps that make a session unsettled, or settle it.
Unsettles(s) == Unsettle(s) \/ BridgeLost(s) \/ RebootUnseen(s) \/ Settle(s)

\* The shape of the service's state.
SvcTypeOK ==
  /\ opc \in [Op -> {"idle", "returned"} \cup InProgress]
  /\ got \in [Op -> OpenOp \cup {NoOp}]
  /\ lease \in [Session -> OpenOp \cup {NoOp}]
  /\ leaseTickets \subseteq OpenOp
  /\ unsettled \subseteq Session
  /\ token \in Nat
  /\ idleToken \in Nat
  /\ minted \in Nat
  /\ handoffFrozen \in BOOLEAN
  /\ shuttingDown \in BOOLEAN
  /\ was \in [frozen : BOOLEAN, closing : BOOLEAN]
  /\ created \in BOOLEAN
  /\ handed \in BOOLEAN
  /\ idleHanded \in BOOLEAN
  /\ stopPc \in {"up", "frozen", "flush", "drain", "unregister", "stopped"}

\* The freeze and its token go together; a handoff waits for its fences under
\* the freeze it made or adopted, and remembers what it has to restore; once
\* stop() or a granted handoff depends on the freeze, no token can thaw it.
FreezeHolds ==
  /\ frozen <=> token # 0
  /\ idleToken \in {0, token}
  /\ hpc = "fencing" => frozen /\ handoffFrozen /\ shuttingDown /\ htoken = token
  /\ stopPc # "up" => frozen /\ idleToken = 0
  /\ handed => frozen /\ handoffFrozen /\ shuttingDown
  /\ handed /\ hpc = "fencing" => idleToken = 0 /\ was.frozen
  /\ stopPc \notin {"up", "frozen"} =>
       shuttingDown /\ (hpc = "fencing" => was.closing)

\* Who holds an RPC ticket: an operation until it returns, then only the lease
\* it opened.
RpcHolds ==
  /\ \A o \in OpenOp : got[o] \in {o, NoOp}
  /\ \A o \in leaseTickets : opc[o] = "returned"
  /\ \A o \in Op : opc[o] \in InProgress => o \in tickets
  /\ \A o \in tickets \cap Op : opc[o] \in InProgress \/ o \in leaseTickets

\* The flags are exact from HandoffFlags to the freeze; a handoff that created
\* its freeze found nothing open, and nothing that needs a ticket opens or
\* unsettles a session under the freeze.
QuietHolds ==
  /\ idleHanded => handed
  /\ hpc = "flagged" =>
       /\ \A s \in unsettled : <<s, "unsettled">> \in flags
       /\ \A s \in Session : lease[s] # NoOp => <<s, "lease">> \in flags
  /\ (hpc = "fencing" /\ created) \/ idleHanded =>
       /\ tickets = {}
       /\ unsettled \subseteq unseen
       /\ \A s \in Session : lease[s] = NoOp

\* After a graceful drain only sessions that stop() has still to unregister
\* have commands waiting.
StopHolds ==
  /\ stopPc = "stopped" => todo = {}
  /\ graceful /\ stopPc \in {"unregister", "stopped"} =>
       \A c \in recs : cmd[c].status = "accepted" => cmd[c].session \in todo

\* The inductive invariant of the service.
SvcInv ==
  /\ Inv
  /\ SvcTypeOK
  /\ FreezeHolds
  /\ RpcHolds
  /\ QuietHolds
  /\ StopHolds

\* What the service lets the arbiter do.
ArbiterMoves ==
  \/ ArbNext
  \/ \E s \in Session : Register(s)
  \/ \E s \in Session, code \in Flushed : FlushSession(s, code) \/ Unregister(s, code)

USE DEF gateVars, freezeVars, clientVars, tableVars, epochVars, workerVars, ghostVars, arbVars,
        vars, rpcVars, leaseVars, mgrVars, handoffVars, stopVars, svcVars, allVars

------------------------------------------------------------------------------
(* The arbiter inside the service                                          *)

\* RPC operations are not commands.
LEMMA OpFacts ==
  /\ OpenOp \subseteq Op /\ CloseOp \subseteq Op /\ ExecOp \subseteq Op
  /\ \A o \in Op : o \notin Cmd /\ o # NoOp
  /\ \A o \in OpenOp : o \notin CloseOp /\ o \notin ExecOp
  /\ \A o \in CloseOp : o \notin ExecOp
  BY ServiceAssumption DEF Op

\* The arbiter's steps leave the freeze and the tickets of the RPC operations
\* alone, and get no ticket from a frozen gate.
LEMMA ArbiterGate ==
  ASSUME Inv, ArbiterMoves
  PROVE  /\ UNCHANGED <<flags, frozen, token, idleToken, minted>>
         /\ \A o \in Op : o \in tickets' <=> o \in tickets
         /\ frozen => tickets' \subseteq tickets
<1> DEFINE Goal == /\ UNCHANGED <<flags, frozen, token, idleToken, minted>>
                   /\ \A o \in Op : o \in tickets' <=> o \in tickets
                   /\ frozen => tickets' \subseteq tickets
<1>a. held \subseteq Cmd /\ load.cmds \subseteq Cmd
  BY ArbiterAssumption DEF Inv, TypeOK
<1>1. ASSUME UNCHANGED gateVars PROVE Goal
  BY <1>1
<1>2. ASSUME NEW T, T \subseteq Cmd, Done(T) PROVE Goal
  BY <1>2, OpFacts DEF Done
<1>3. ASSUME NEW c \in Cmd, NEW s \in Session, SubmitStep(c, s) PROVE Goal
  <2>1. CASE SubmitAdmit(c)
    BY <2>1, OpFacts DEF SubmitAdmit, Admit
  <2>2. CASE SubmitRefuse(c, s)
    <3>1. Done({c}) /\ {c} \subseteq Cmd
      BY <2>2 DEF SubmitRefuse
    <3> QED
      BY <1>2, <3>1
  <2> QED
    BY <1>1, <1>3, <2>1, <2>2
       DEF SubmitStep, SubmitInvalid, SubmitFrozen, SubmitInsert, SubmitPut
<1>4. ASSUME NEW T, FinishAdmission(T) PROVE Goal
  <2>1. Done(T \cap held) /\ T \cap held \subseteq Cmd
    BY <1>4, <1>a DEF FinishAdmission
  <2> QED
    BY <1>2, <2>1
<1>5. ASSUME NEW c \in Cmd, Cancel(c) PROVE Goal
  BY <1>1, <1>4, <1>5 DEF Cancel
<1>6. ASSUME NEW e \in Epoch, SetStop(e) \/ WorkerStep(e) PROVE Goal
  BY <1>1, <1>4, <1>6 DEF SetStop, WorkerStep, WorkerGet, WorkerExit, WorkerSkip, WorkerStart
<1>7. ASSUME NEW e \in Epoch, NEW outcome \in Outcome, WorkerFinish(e, outcome) PROVE Goal
  <2>1. FinishAdmission({item[e]})
    BY <1>7 DEF WorkerFinish
  <2> QED
    BY <1>4, <2>1
<1>8. ASSUME NEW s \in Session, Register(s) PROVE Goal
  BY <1>1, <1>8 DEF Register
<1>9. ASSUME NEW s \in Session, NEW code \in Flushed, FlushSession(s, code) \/ Unregister(s, code)
      PROVE  Goal
  <2>1. FinishAdmission(Waiting(s) \cup Ended(s))
    BY <1>9 DEF FlushSession, Unregister, FlushLocked
  <2> QED
    BY <1>4, <2>1
<1> HIDE DEF Goal
<1>10. Goal
  BY <1>3, <1>5, <1>6, <1>7, <1>8, <1>9, <1>a DEF ArbiterMoves, ArbNext
<1> QED
  BY <1>10 DEF Goal

\* Every step of the service is one of the arbiter's steps, or leaves the
\* arbiter and the tickets of its commands alone.
LEMMA SvcStepIsArbiterStep ==
  ASSUME Inv, SvcTypeOK, [SvcNext]_allVars
  PROVE  ArbiterStep
<1>a. frozen \in BOOLEAN /\ load.cmds \subseteq Cmd /\ leaseTickets \subseteq Op
  BY ArbiterAssumption, OpFacts DEF Inv, TypeOK, SvcTypeOK
<1>b. load.ops \subseteq Op
  BY ServiceAssumption DEF Inv
<1>0. ASSUME Beside PROVE ArbiterStep
  BY <1>0 DEF ArbiterStep
<1>1. ASSUME UNCHANGED vars PROVE ArbiterStep
  BY <1>0, <1>1, <1>a DEF Beside
<1>2. ASSUME UNCHANGED arbVars, frozen' \in BOOLEAN, UNCHANGED tickets PROVE ArbiterStep
  BY <1>0, <1>2 DEF Beside
<1>3. ASSUME UNCHANGED arbVars, NEW T, T \subseteq Op, Done(T) PROVE ArbiterStep
  BY <1>0, <1>3, <1>a, OpFacts DEF Beside, Done
<1>4. ASSUME UNCHANGED arbVars, NEW o \in Op, Admit(o) PROVE ArbiterStep
  BY <1>0, <1>4, <1>a, OpFacts DEF Beside, Admit
<1>5. ASSUME ArbNext \/ \E s \in Session : ManagerLoses(s) PROVE ArbiterStep
  BY <1>5, <1>a DEF ArbNext, ArbiterStep, SubmitStep, ManagerLoses, Flushed
<1>6. ASSUME NEW s \in Session, OnReady(s) PROVE ArbiterStep
  BY <1>6 DEF OnReady, ArbiterStep
<1>7. ASSUME NEW s \in Session, StopFlush(s) \/ StopDrain(s) \/ StopUnregister(s) PROVE ArbiterStep
  <2>1. \/ FlushSession(s, "FLUSHED_BY_SHUTDOWN") \/ Unregister(s, "FLUSHED_BY_SHUTDOWN")
        \/ UNCHANGED vars
    BY <1>7 DEF StopFlush, StopDrain, StopUnregister
  <2>2. "FLUSHED_BY_SHUTDOWN" \in Flushed
    BY DEF Flushed
  <2> QED
    BY <1>1, <2>1, <2>2 DEF ArbiterStep
<1>8. ASSUME RpcNext PROVE ArbiterStep
  <2>1. ASSUME NEW o \in load.ops, RpcFrozen(o) PROVE ArbiterStep
    BY <1>1, <2>1 DEF RpcFrozen
  <2>2. ASSUME NEW o \in load.ops, ExecStart(o) \/ LoopStart(o) PROVE ArbiterStep
    BY <1>4, <1>b, <2>2 DEF ExecStart, LoopStart
  <2>3. ASSUME NEW o \in load.ops, ExecReturn(o) PROVE ArbiterStep
    <3>1. UNCHANGED arbVars /\ Done({o}) /\ {o} \subseteq Op
      BY <1>b, <2>3 DEF ExecReturn
    <3> QED
      BY <1>3, <3>1
  <2>4. ASSUME NEW o \in load.ops, DispatchFail(o) \/ LoopSnapshot(o) PROVE ArbiterStep
    BY <1>1, <2>4 DEF DispatchFail, LoopSnapshot
  <2>5. ASSUME NEW o \in load.ops, LoopReturn(o) PROVE ArbiterStep
    <3>1. PICK T : UNCHANGED arbVars /\ Done(T) /\ T \subseteq leaseTickets \cup {o}
      BY <2>5 DEF LoopReturn
    <3> QED
      BY <1>3, <1>a, <1>b, <3>1
  <2>6. ASSUME NEW o \in OpenOp \cup CloseOp, NEW s \in Session, OpenDispatch(o, s) \/ CloseDispatch(o, s)
        PROVE  ArbiterStep
    BY <1>2, <1>a, <2>6 DEF OpenDispatch, CloseDispatch, SetFlags
  <2> QED
    BY <1>8, <2>1, <2>2, <2>3, <2>4, <2>5, <2>6 DEF RpcNext
<1>9. ASSUME NEW s \in Session, LeaseEnds(s) \/ Arm(s) \/ Unsettles(s) PROVE ArbiterStep
  BY <1>1, <1>2, <1>9, <1>a DEF LeaseEnds, Arm, Unsettles, Unsettle, BridgeLost, RebootUnseen,
                                Settle, SetFlags
<1>10. ASSUME HandoffReclaim PROVE ArbiterStep
  BY <1>3, <1>10, <1>a DEF HandoffReclaim
<1>11. ASSUME HandoffFlags \/ HandoffFreeze \/ HandoffTimeout \/ StopFreeze PROVE ArbiterStep
  BY <1>2, <1>11, <1>a DEF HandoffFlags, HandoffFreeze, HandoffTimeout, StopFreeze, SetFlags,
                           CreateFreeze, AdoptFreeze, Thaw, Freeze
<1>12. ASSUME \/ HandoffSnapshot \/ HandoffBusy \/ HandoffGranted
              \/ StopGate \/ StopJoin \/ StopDrained \/ StopDone
              \/ UNCHANGED allVars
       PROVE  ArbiterStep
  BY <1>1, <1>12 DEF HandoffSnapshot, HandoffBusy, HandoffGranted, StopGate, StopJoin,
                     StopDrained, StopDone
<1> QED
  BY <1>5, <1>6, <1>7, <1>8, <1>9, <1>10, <1>11, <1>12
     DEF SvcNext, ManagerNext, Unsettles, HandoffStep, StopTail

\* The steps of the service in which the arbiter moves: the service's own
\* variables are as they were, except for what the session manager arms and
\* what stop() has still to visit.
LEMMA ArbiterMovesInService ==
  ASSUME Inv,
         \/ ArbNext /\ UNCHANGED svcVars
         \/ \E s \in Session :
              \/ OnReady(s)
              \/ ManagerLoses(s) /\ UNCHANGED svcVars
              \/ StopFlush(s) \/ StopUnregister(s)
  PROVE  /\ ArbiterMoves
         /\ UNCHANGED <<rpcVars, leaseVars, unsettled, unseen, handoffVars, shuttingDown, stopPc,
                        graceful>>
  BY DEF ArbiterMoves, OnReady, ManagerLoses, StopFlush, StopUnregister, StopStep, Flushed

------------------------------------------------------------------------------
(* Type correctness                                                        *)

\* Every step keeps the service's state well formed.
LEMMA SvcTypeStep ==
  ASSUME Inv, SvcTypeOK, [SvcNext]_allVars
  PROVE  SvcTypeOK'
<1> USE OpFacts DEF SvcTypeOK, InProgress
<1>b. load.ops \subseteq Op
  BY ServiceAssumption DEF Inv
<1>1. ASSUME \/ ArbNext /\ UNCHANGED svcVars
             \/ \E s \in Session :
                  \/ OnReady(s)
                  \/ ManagerLoses(s) /\ UNCHANGED svcVars
                  \/ StopFlush(s) \/ StopUnregister(s)
      PROVE  SvcTypeOK'
  BY <1>1, ArbiterMovesInService, ArbiterGate
<1>2. ASSUME NEW o \in load.ops, RpcFrozen(o) \/ DispatchFail(o) \/ LoopSnapshot(o) PROVE SvcTypeOK'
  BY <1>2, <1>b DEF RpcFrozen, DispatchFail, LoopSnapshot
<1>3. ASSUME NEW o \in load.ops, ExecStart(o) \/ ExecReturn(o) \/ LoopStart(o) PROVE SvcTypeOK'
  BY <1>3, <1>b DEF ExecStart, ExecReturn, LoopStart, Admit, Done
<1>4. ASSUME NEW o \in load.ops, LoopReturn(o) PROVE SvcTypeOK'
  <2>1. /\ opc' = [opc EXCEPT ![o] = "returned"]
        /\ leaseTickets' \subseteq leaseTickets \cup ({got[o]} \ {NoOp})
        /\ UNCHANGED <<got, lease, unsettled, token, idleToken, minted, handoffVars, shuttingDown,
                       stopVars>>
    BY <1>4 DEF LoopReturn, Done
  <2>2. got[o] \in OpenOp \cup {NoOp}
    BY <1>b
  <2> QED
    BY ZenonT(40), <2>1, <2>2
<1>5. ASSUME NEW o \in OpenOp, NEW s \in Session, OpenDispatch(o, s) PROVE SvcTypeOK'
  BY <1>5 DEF OpenDispatch, SetFlags
<1>6. ASSUME NEW o \in CloseOp, NEW s \in Session, CloseDispatch(o, s) PROVE SvcTypeOK'
  BY <1>6 DEF CloseDispatch, SetFlags
<1>7. ASSUME NEW s \in Session, LeaseEnds(s) PROVE SvcTypeOK'
  BY <1>7 DEF LeaseEnds, SetFlags
<1>8. ASSUME NEW s \in Session, Arm(s) \/ Unsettles(s) PROVE SvcTypeOK'
  BY <1>8 DEF Arm, Unsettles, Unsettle, BridgeLost, RebootUnseen, Settle, SetFlags
<1>9. ASSUME HandoffSnapshot \/ HandoffReclaim \/ HandoffFlags \/ HandoffBusy \/ HandoffGranted
      PROVE  SvcTypeOK'
  <2>1. idleHanded' \in BOOLEAN /\ handed' \in BOOLEAN
    BY <1>9 DEF HandoffSnapshot, HandoffReclaim, HandoffFlags, HandoffBusy, HandoffGranted
  <2>2. /\ leaseTickets' \subseteq leaseTickets
        /\ UNCHANGED <<rpcVars, lease, unsettled, token, idleToken, minted, handoffFrozen, was,
                       created, shuttingDown, stopPc>>
    BY <1>9 DEF HandoffSnapshot, HandoffReclaim, HandoffFlags, HandoffBusy, HandoffGranted,
                Done, SetFlags
  <2> QED
    BY <2>1, <2>2
<1>10. ASSUME HandoffFreeze PROVE SvcTypeOK'
  <2>1. was' \in [frozen : BOOLEAN, closing : BOOLEAN]
    BY <1>10 DEF HandoffFreeze
  <2>2. created' \in BOOLEAN /\ handoffFrozen' \in BOOLEAN /\ shuttingDown' \in BOOLEAN
    BY <1>10 DEF HandoffFreeze
  <2>3. token' \in Nat /\ idleToken' \in Nat /\ minted' \in Nat
    BY <1>10 DEF HandoffFreeze, CreateFreeze, AdoptFreeze
  <2>4. UNCHANGED <<rpcVars, leaseVars, unsettled, handed, idleHanded, stopPc>>
    BY <1>10 DEF HandoffFreeze
  <2> QED
    BY <2>1, <2>2, <2>3, <2>4
<1>11. ASSUME HandoffTimeout PROVE SvcTypeOK'
  <2>1. was.closing \in BOOLEAN
    OBVIOUS
  <2>2. handoffFrozen' \in BOOLEAN /\ shuttingDown' \in BOOLEAN
    BY <1>11, <2>1 DEF HandoffTimeout
  <2>3. token' \in Nat /\ idleToken' \in Nat /\ minted' \in Nat
    BY <1>11 DEF HandoffTimeout, Thaw
  <2>4. UNCHANGED <<rpcVars, leaseVars, unsettled, was, created, handed, idleHanded, stopPc>>
    BY <1>11 DEF HandoffTimeout
  <2> QED
    BY <2>2, <2>3, <2>4
<1>12. ASSUME StopFreeze \/ StopGate \/ StopJoin \/ StopDrained \/ StopDone PROVE SvcTypeOK'
  <2>1. stopPc' \in {"up", "frozen", "flush", "drain", "unregister", "stopped"}
    BY <1>12 DEF StopFreeze, StopGate, StopJoin, StopDrained, StopDone, StopStep
  <2>2. shuttingDown' \in BOOLEAN
    BY <1>12 DEF StopFreeze, StopGate, StopJoin, StopDrained, StopDone, StopStep
  <2>3. token' \in Nat /\ idleToken' \in Nat /\ minted' \in Nat
    BY <1>12 DEF StopFreeze, StopGate, StopJoin, StopDrained, StopDone, Freeze
  <2>4. UNCHANGED <<rpcVars, leaseVars, unsettled, handoffVars>>
    BY <1>12 DEF StopFreeze, StopGate, StopJoin, StopDrained, StopDone, StopStep
  <2> QED
    BY <2>1, <2>2, <2>3, <2>4
<1>13. ASSUME NEW s \in Session, StopDrain(s) PROVE SvcTypeOK'
  <2>1. /\ lease' \in {lease, [lease EXCEPT ![s] = NoOp]}
        /\ UNCHANGED <<rpcVars, leaseTickets, unsettled, handoffVars, shuttingDown, stopPc>>
    BY <1>13 DEF StopDrain, StopStep
  <2>2. UNCHANGED <<token, idleToken, minted>>
    BY <1>13, ArbiterGate DEF StopDrain, ArbiterMoves, Flushed
  <2> QED
    BY <2>1, <2>2
<1>14. CASE UNCHANGED allVars
  BY <1>14
<1> QED
  BY <1>1, <1>2, <1>3, <1>4, <1>5, <1>6, <1>7, <1>8, <1>9, <1>10, <1>11, <1>12, <1>13, <1>14
     DEF SvcNext, RpcNext, ManagerNext, Unsettles, HandoffStep, StopTail

------------------------------------------------------------------------------
(* The freeze                                                              *)

\* Nothing thaws a freeze that a granted handoff or stop() depends on.
LEMMA FreezeStep ==
  ASSUME Inv, SvcTypeOK, FreezeHolds, [SvcNext]_allVars
  PROVE  FreezeHolds'
<1>a. /\ frozen \in BOOLEAN /\ token \in Nat /\ idleToken \in Nat /\ minted \in Nat
      /\ handoffFrozen \in BOOLEAN /\ shuttingDown \in BOOLEAN /\ handed \in BOOLEAN
  BY DEF Inv, TypeOK, SvcTypeOK
<1>0. ASSUME UNCHANGED <<frozen, token, idleToken, hpc, htoken, handoffFrozen, shuttingDown,
                         was, handed, stopPc>>
      PROVE  FreezeHolds'
  BY <1>0 DEF FreezeHolds
<1>1. ASSUME \/ ArbNext /\ UNCHANGED svcVars
             \/ \E s \in Session :
                  \/ OnReady(s)
                  \/ ManagerLoses(s) /\ UNCHANGED svcVars
                  \/ StopFlush(s) \/ StopUnregister(s)
      PROVE  FreezeHolds'
  BY <1>0, <1>1, ArbiterMovesInService, ArbiterGate
<1>2. ASSUME RpcNext PROVE FreezeHolds'
  BY <1>0, <1>2 DEF RpcNext, RpcFrozen, ExecStart, ExecReturn, LoopStart, DispatchFail,
                    LoopSnapshot, LoopReturn, OpenDispatch, CloseDispatch, Admit, Done, SetFlags
<1>3. ASSUME NEW s \in Session, LeaseEnds(s) \/ Arm(s) \/ Unsettles(s) PROVE FreezeHolds'
  BY <1>0, <1>3 DEF LeaseEnds, Arm, Unsettles, Unsettle, BridgeLost, RebootUnseen, Settle, SetFlags
<1>4. ASSUME HandoffSnapshot \/ HandoffReclaim \/ HandoffFlags \/ HandoffBusy PROVE FreezeHolds'
  BY <1>4 DEF FreezeHolds, HandoffSnapshot, HandoffReclaim, HandoffFlags, HandoffBusy, Done, SetFlags
<1>5. ASSUME HandoffFreeze PROVE FreezeHolds'
  <2>1. was'.frozen = handoffFrozen /\ was'.closing = shuttingDown
    BY <1>5 DEF HandoffFreeze
  <2>2. /\ hpc' = "fencing" /\ handoffFrozen' = TRUE /\ shuttingDown' = TRUE /\ htoken' = token'
        /\ UNCHANGED <<handed, stopPc>>
    BY <1>5 DEF HandoffFreeze
  <2>3. CASE CreateFreeze
    BY <1>a, <2>1, <2>2, <2>3 DEF CreateFreeze, FreezeHolds
  <2>4. CASE AdoptFreeze
    BY <1>a, <2>1, <2>2, <2>4 DEF AdoptFreeze, FreezeHolds
  <2> QED
    BY <1>5, <2>3, <2>4 DEF HandoffFreeze
<1>6. ASSUME HandoffGranted PROVE FreezeHolds'
  BY <1>6 DEF HandoffGranted, FreezeHolds
<1>7. ASSUME HandoffTimeout PROVE FreezeHolds'
  <2>1. /\ hpc = "fencing" /\ hpc' = "idle" /\ Thaw(htoken)
        /\ (handed' <=> handed) /\ stopPc' = stopPc
        /\ was.frozen => (handoffFrozen' <=> handoffFrozen) /\ (shuttingDown' <=> shuttingDown)
        /\ ~was.frozen => (shuttingDown' <=> was.closing)
    BY <1>7, <1>a DEF HandoffTimeout
  <2>2. /\ frozen' <=> token' # 0
        /\ idleToken' \in {0, token'}
        /\ handed \/ stopPc # "up" => (frozen' <=> frozen) /\ idleToken' = idleToken
    BY <1>a, <2>1 DEF Thaw, FreezeHolds
  <2>3. handed => was.frozen
    BY <2>1 DEF FreezeHolds
  <2>4. stopPc \notin {"up", "frozen"} => shuttingDown'
    <3>1. stopPc \notin {"up", "frozen"} => shuttingDown /\ was.closing
      BY <2>1 DEF FreezeHolds
    <3> QED
      BY <2>1, <3>1, Zenon
  <2>5. /\ stopPc' # "up" => frozen' /\ idleToken' = 0
        /\ handed' => frozen' /\ handoffFrozen' /\ shuttingDown'
    BY <2>1, <2>2, <2>3, Zenon DEF FreezeHolds
  <2>6. hpc' # "fencing" /\ (stopPc' \notin {"up", "frozen"} => shuttingDown')
    BY <2>1, <2>4
  <2> QED
    BY <2>2, <2>5, <2>6, Zenon DEF FreezeHolds
<1>8. ASSUME StopFreeze PROVE FreezeHolds'
  BY <1>8, <1>a DEF StopFreeze, StopStep, Freeze, FreezeHolds
<1>9. ASSUME StopGate \/ StopJoin \/ StopDrained \/ StopDone PROVE FreezeHolds'
  BY <1>9 DEF StopGate, StopJoin, StopDrained, StopDone, StopStep, MgrFree, FreezeHolds
<1>10. ASSUME NEW s \in Session, StopDrain(s) PROVE FreezeHolds'
  <2>1. UNCHANGED <<frozen, token, idleToken>>
    BY <1>10, ArbiterGate DEF StopDrain, ArbiterMoves, Flushed
  <2> QED
    BY <1>0, <1>10, <2>1 DEF StopDrain, StopStep
<1>11. CASE UNCHANGED allVars
  BY <1>0, <1>11
<1> QED
  BY <1>1, <1>2, <1>3, <1>4, <1>5, <1>6, <1>7, <1>8, <1>9, <1>10, <1>11
     DEF SvcNext, ManagerNext, Unsettles, HandoffStep, StopTail

------------------------------------------------------------------------------
(* The tickets of the RPC operations                                       *)

\* An operation keeps its ticket until it returns; then its lease has it or
\* nobody: RpcHolds is kept.
LEMMA RpcStep ==
  ASSUME Inv, SvcTypeOK, RpcHolds, [SvcNext]_allVars
  PROVE  RpcHolds'
<1>a. /\ opc \in [Op -> {"idle", "returned"} \cup InProgress]
      /\ got \in [Op -> OpenOp \cup {NoOp}]
      /\ lease \in [Session -> OpenOp \cup {NoOp}]
      /\ leaseTickets \subseteq OpenOp
      /\ "idle" \notin InProgress /\ "returned" \notin InProgress
  BY DEF SvcTypeOK, InProgress
<1>b. load.ops \subseteq Op
  BY ServiceAssumption DEF Inv
<1>0. ASSUME UNCHANGED <<opc, got, leaseTickets>>, \A o \in Op : o \in tickets' <=> o \in tickets
      PROVE  RpcHolds'
  BY <1>0, <1>a, OpFacts DEF RpcHolds
<1>1. ASSUME \/ ArbNext /\ UNCHANGED svcVars
             \/ \E s \in Session :
                  \/ OnReady(s)
                  \/ ManagerLoses(s) /\ UNCHANGED svcVars
                  \/ StopFlush(s) \/ StopUnregister(s)
      PROVE  RpcHolds'
  BY <1>0, <1>1, ArbiterMovesInService, ArbiterGate
<1>2. ASSUME NEW o \in load.ops, RpcFrozen(o) PROVE RpcHolds'
  <2>1. /\ opc[o] = "idle" /\ opc' = [opc EXCEPT ![o] = "returned"]
        /\ UNCHANGED <<got, leaseTickets, tickets>>
    BY <1>2 DEF RpcFrozen
  <2>2. opc'[o] = "returned" /\ \A p \in Op : p # o => opc'[p] = opc[p]
    BY <1>a, <1>b, <2>1
  <2>3. o \notin tickets
    BY <1>a, <1>b, <2>1 DEF RpcHolds
  <2> QED
    BY <1>a, <2>1, <2>2, <2>3, OpFacts DEF RpcHolds
<1>3. ASSUME NEW o \in load.ops, ExecStart(o) \/ LoopStart(o) PROVE RpcHolds'
  <2>1. /\ opc[o] = "idle" /\ opc' = [opc EXCEPT ![o] = "dispatch"]
        /\ tickets' = tickets \cup {o}
        /\ UNCHANGED <<got, leaseTickets>>
    BY <1>3 DEF ExecStart, LoopStart, Admit
  <2>2. opc'[o] \in InProgress /\ \A p \in Op : p # o => opc'[p] = opc[p]
    BY <1>a, <1>b, <2>1 DEF InProgress
  <2> QED
    BY <1>a, <2>1, <2>2, OpFacts DEF RpcHolds
<1>4. ASSUME NEW o \in load.ops, ExecReturn(o) PROVE RpcHolds'
  <2>1. /\ opc[o] = "dispatch" /\ opc' = [opc EXCEPT ![o] = "returned"]
        /\ tickets' = tickets \ {o}
        /\ UNCHANGED <<got, leaseTickets>>
    BY <1>4 DEF ExecReturn, Done
  <2>2. opc'[o] = "returned" /\ \A p \in Op : p # o => opc'[p] = opc[p]
    BY <1>a, <1>b, <2>1
  <2> QED
    BY <1>a, <2>1, <2>2, OpFacts DEF RpcHolds
<1>5. ASSUME NEW o \in Op, opc[o] \in InProgress, opc' = [opc EXCEPT ![o] = "dispatched"]
                                                  \/ opc' = [opc EXCEPT ![o] = "snapped"],
             UNCHANGED <<leaseTickets, tickets>>,
             \A p \in OpenOp : got'[p] \in {p, NoOp}
      PROVE  RpcHolds'
  <2>1. opc'[o] \in InProgress /\ \A p \in Op : p # o => opc'[p] = opc[p]
    BY <1>a, <1>5 DEF InProgress
  <2> QED
    BY <1>a, <1>5, <2>1, OpFacts DEF RpcHolds
<1>6. ASSUME NEW o \in load.ops, DispatchFail(o) \/ LoopSnapshot(o) PROVE RpcHolds'
  <2>1. /\ opc[o] \in InProgress /\ UNCHANGED <<got, leaseTickets, tickets>>
        /\ opc' = [opc EXCEPT ![o] = "dispatched"] \/ opc' = [opc EXCEPT ![o] = "snapped"]
    BY <1>6 DEF DispatchFail, LoopSnapshot, InProgress
  <2>2. \A p \in OpenOp : got'[p] \in {p, NoOp}
    BY <2>1 DEF RpcHolds
  <2> QED
    BY <1>5, <1>b, <2>1, <2>2
<1>7. ASSUME NEW o \in OpenOp, NEW s \in Session, OpenDispatch(o, s) PROVE RpcHolds'
  <2>1. /\ opc[o] \in InProgress /\ UNCHANGED <<leaseTickets, tickets>>
        /\ opc' = [opc EXCEPT ![o] = "dispatched"] /\ got' = [got EXCEPT ![o] = o]
    BY <1>7 DEF OpenDispatch, SetFlags, InProgress
  <2>2. \A p \in OpenOp : got'[p] \in {p, NoOp}
    BY <1>a, <2>1, OpFacts DEF RpcHolds
  <2> QED
    BY <1>5, <2>1, <2>2, OpFacts
<1>8. ASSUME NEW o \in CloseOp, NEW s \in Session, CloseDispatch(o, s) PROVE RpcHolds'
  <2>1. /\ opc[o] \in InProgress /\ UNCHANGED <<leaseTickets, tickets>>
        /\ opc' = [opc EXCEPT ![o] = "dispatched"] /\ got' = [got EXCEPT ![o] = lease[s]]
    BY <1>8 DEF CloseDispatch, SetFlags, InProgress
  <2>2. \A p \in OpenOp : got'[p] = got[p]
    BY <1>a, <2>1, OpFacts
  <2>3. \A p \in OpenOp : got'[p] \in {p, NoOp}
    BY <2>2 DEF RpcHolds
  <2> QED
    BY <1>5, <2>1, <2>3, OpFacts
<1>9. ASSUME NEW o \in load.ops, LoopReturn(o) PROVE RpcHolds'
  <2> DEFINE mine == IF o \in OpenOp THEN {got[o]} \ {NoOp} ELSE {}
             gone == (leaseTickets \ snap["loop"])
                     \cup (IF o \in CloseOp THEN {got[o]} \cap leaseTickets ELSE {})
  <2>1. /\ opc[o] = "snapped" /\ opc' = [opc EXCEPT ![o] = "returned"]
        /\ leaseTickets' = (leaseTickets \ gone) \cup mine
        /\ tickets' = tickets \ ((gone \cup {o}) \ mine)
        /\ got' = got
    BY <1>9 DEF LoopReturn, Done
  <2>2. mine \subseteq {o} /\ (mine # {} => o \in OpenOp)
    BY DEF RpcHolds
  <2>3. gone \subseteq leaseTickets
    OBVIOUS
  <2> HIDE DEF mine, gone
  <2>4. opc'[o] = "returned" /\ \A p \in Op : p # o => opc'[p] = opc[p]
    BY <1>a, <1>b, <2>1
  <2>5. \A p \in OpenOp : got'[p] \in {p, NoOp}
    BY <2>1 DEF RpcHolds
  <2>6. \A p \in leaseTickets' : opc'[p] = "returned"
    BY <1>a, <2>1, <2>2, <2>4, OpFacts DEF RpcHolds
  <2>7. \A p \in Op : opc'[p] \in InProgress => p \in tickets'
    BY <1>a, <2>1, <2>3, <2>4 DEF RpcHolds
  <2>8. \A p \in tickets' \cap Op : opc'[p] \in InProgress \/ p \in leaseTickets'
    BY <1>a, <2>1, <2>2, <2>4 DEF RpcHolds
  <2> QED
    BY <2>5, <2>6, <2>7, <2>8 DEF RpcHolds
<1>10. ASSUME NEW s \in Session, LeaseEnds(s) \/ Arm(s) \/ Unsettles(s) PROVE RpcHolds'
  BY <1>0, <1>10 DEF LeaseEnds, Arm, Unsettles, Unsettle, BridgeLost, RebootUnseen, Settle, SetFlags
<1>11. ASSUME HandoffReclaim PROVE RpcHolds'
  <2>1. PICK dead : /\ dead \subseteq leaseTickets
                    /\ leaseTickets' = leaseTickets \ dead /\ tickets' = tickets \ dead
                    /\ opc' = opc /\ got' = got
    BY <1>11 DEF HandoffReclaim, Done
  <2> QED
    BY <1>a, <2>1, OpFacts DEF RpcHolds
<1>12. ASSUME HandoffFlags \/ HandoffFreeze \/ HandoffTimeout \/ StopFreeze PROVE RpcHolds'
  BY <1>0, <1>12 DEF HandoffFlags, HandoffFreeze, HandoffTimeout, StopFreeze, StopStep, SetFlags,
                     CreateFreeze, AdoptFreeze, Thaw, Freeze
<1>13. ASSUME \/ HandoffSnapshot \/ HandoffBusy \/ HandoffGranted
              \/ StopGate \/ StopJoin \/ StopDrained \/ StopDone
              \/ UNCHANGED allVars
       PROVE  RpcHolds'
  BY <1>0, <1>13 DEF HandoffSnapshot, HandoffBusy, HandoffGranted, StopGate, StopJoin,
                     StopDrained, StopDone, StopStep
<1>14. ASSUME NEW s \in Session, StopDrain(s) PROVE RpcHolds'
  <2>1. \A o \in Op : o \in tickets' <=> o \in tickets
    BY <1>14, ArbiterGate DEF StopDrain, ArbiterMoves, Flushed
  <2> QED
    BY <1>0, <1>14, <2>1 DEF StopDrain, StopStep
<1> QED
  BY <1>1, <1>2, <1>3, <1>4, <1>6, <1>7, <1>8, <1>9, <1>10, <1>11, <1>12, <1>13, <1>14
     DEF SvcNext, RpcNext, ManagerNext, Unsettles, HandoffStep, StopTail

------------------------------------------------------------------------------
(* The handoff                                                             *)

\* What a handoff found closed stays closed under its freeze: QuietHolds is kept.
LEMMA QuietStep ==
  ASSUME Inv, SvcTypeOK, FreezeHolds, RpcHolds, QuietHolds, [SvcNext]_allVars
  PROVE  QuietHolds'
<1> DEFINE Quiet == (hpc = "fencing" /\ created) \/ idleHanded
<1>a. /\ lease \in [Session -> OpenOp \cup {NoOp}] /\ unsettled \subseteq Session
      /\ handed \in BOOLEAN /\ created \in BOOLEAN /\ idleHanded \in BOOLEAN
  BY DEF SvcTypeOK
<1>b. Quiet => frozen /\ handoffFrozen /\ tickets = {}
  BY DEF QuietHolds, FreezeHolds
<1>c. Quiet => \A o \in Op : opc[o] \notin InProgress
  BY <1>b DEF RpcHolds
\* The manager's lock is held while the flags must be exact.
<1>0. ASSUME UNCHANGED <<hpc, created, handed, idleHanded>>,
             Quiet => /\ tickets' \subseteq tickets
                      /\ unsettled' \ unseen' \subseteq unsettled \ unseen,
             hpc = "flagged" => unsettled' \subseteq unsettled /\ flags' = flags,
             Quiet \/ hpc = "flagged" => \A s \in Session : lease'[s] \in {lease[s], NoOp}
      PROVE  QuietHolds'
  <2>1. Quiet' <=> Quiet
    BY <1>0
  <2>2. Quiet => tickets' = {} /\ unsettled' \subseteq unseen' /\ \A s \in Session : lease'[s] = NoOp
    BY <1>0 DEF QuietHolds
  <2>3. hpc' = "flagged" => /\ \A s \in unsettled' : <<s, "unsettled">> \in flags'
                            /\ \A s \in Session : lease'[s] # NoOp => <<s, "lease">> \in flags'
    BY <1>0 DEF QuietHolds
  <2>4. idleHanded' => handed'
    BY <1>0 DEF QuietHolds
  <2> QED
    BY <2>1, <2>2, <2>3, <2>4 DEF QuietHolds
<1>1. ASSUME \/ ArbNext /\ UNCHANGED svcVars
             \/ \E s \in Session :
                  \/ OnReady(s)
                  \/ ManagerLoses(s) /\ UNCHANGED svcVars
                  \/ StopFlush(s) \/ StopUnregister(s)
      PROVE  QuietHolds'
  <2>1. /\ UNCHANGED <<hpc, created, handed, idleHanded, unsettled, unseen, lease>>
        /\ flags' = flags /\ (frozen => tickets' \subseteq tickets)
    BY <1>1, ArbiterMovesInService, ArbiterGate
  <2> QED
    BY <1>0, <1>b, <2>1
<1>2. ASSUME NEW o \in Op, ExecStart(o) \/ LoopStart(o) PROVE QuietHolds'
  <2>1. /\ ~frozen /\ UNCHANGED <<hpc, created, handed, idleHanded, unsettled, unseen, lease, flags>>
    BY <1>2 DEF ExecStart, LoopStart, Admit
  <2> QED
    BY <1>0, <1>b, <2>1
<1>3. ASSUME NEW o \in Op,
             RpcFrozen(o) \/ ExecReturn(o) \/ DispatchFail(o) \/ LoopSnapshot(o) \/ LoopReturn(o)
      PROVE  QuietHolds'
  <2>1. /\ tickets' \subseteq tickets
        /\ UNCHANGED <<hpc, created, handed, idleHanded, unsettled, unseen, lease, flags>>
    BY <1>3 DEF RpcFrozen, ExecReturn, DispatchFail, LoopSnapshot, LoopReturn, Done
  <2> QED
    BY <1>0, <2>1
<1>4. ASSUME NEW o \in Op, NEW s \in Session, OpenDispatch(o, s) \/ CloseDispatch(o, s)
      PROVE  QuietHolds'
  <2>1. /\ opc[o] \in InProgress /\ hpc # "flagged"
        /\ UNCHANGED <<hpc, created, handed, idleHanded>>
    BY <1>4 DEF OpenDispatch, CloseDispatch, MgrFree, InProgress
  <2> QED
    BY <1>0, <1>c, <2>1
<1>5. ASSUME NEW s \in Session, LeaseEnds(s) PROVE QuietHolds'
  <2>1. /\ hpc # "flagged" /\ lease' = [lease EXCEPT ![s] = NoOp]
        /\ UNCHANGED <<hpc, created, handed, idleHanded, unsettled, unseen, tickets>>
    BY <1>5 DEF LeaseEnds, MgrFree, SetFlags
  <2> QED
    BY <1>0, <1>a, <2>1
<1>6. ASSUME NEW s \in Session, Unsettle(s) PROVE QuietHolds'
  <2>1. /\ hpc # "flagged"
        /\ UNCHANGED <<hpc, created, handed, idleHanded>>
    BY <1>6 DEF Unsettle, MgrFree
  <2>2. tickets # {}
    BY <1>6, OpFacts DEF Unsettle, RpcHolds, InProgress
  <2> QED
    BY <1>0, <1>b, <2>1, <2>2
<1>16. ASSUME NEW s \in Session, BridgeLost(s) PROVE QuietHolds'
  <2>1. /\ hpc # "flagged" /\ lease' = [lease EXCEPT ![s] = NoOp]
        /\ unsettled' = unsettled \cup {s} /\ unseen' = unseen \cup {s}
        /\ UNCHANGED <<hpc, created, handed, idleHanded, tickets>>
    BY <1>16 DEF BridgeLost, MgrFree, SetFlags
  <2> QED
    BY <1>0, <1>a, <2>1
<1>17. ASSUME NEW s \in Session, RebootUnseen(s) PROVE QuietHolds'
  <2>1. /\ hpc # "flagged"
        /\ unsettled' = unsettled \cup {s} /\ unseen' = unseen \cup {s}
        /\ UNCHANGED <<hpc, created, handed, idleHanded, lease, tickets>>
    BY <1>17 DEF RebootUnseen, MgrFree, SetFlags
  <2> QED
    BY <1>0, <2>1
<1>18. ASSUME NEW s \in Session, Settle(s) PROVE QuietHolds'
  <2>1. /\ hpc # "flagged"
        /\ unsettled' = unsettled \ {s} /\ unseen' = unseen \ {s}
        /\ UNCHANGED <<hpc, created, handed, idleHanded, lease, tickets>>
    BY <1>18 DEF Settle, MgrFree, SetFlags
  <2> QED
    BY <1>0, <2>1
<1>7. ASSUME NEW s \in Session, Arm(s) PROVE QuietHolds'
  BY <1>0, <1>7 DEF Arm
<1>8. ASSUME HandoffSnapshot \/ HandoffReclaim \/ HandoffBusy PROVE QuietHolds'
  <2>1. /\ hpc # "fencing" /\ hpc' \notin {"flagged", "fencing"} /\ tickets' \subseteq tickets
        /\ UNCHANGED <<created, handed, idleHanded, unsettled, unseen, lease>>
    BY <1>8 DEF HandoffSnapshot, HandoffReclaim, HandoffBusy, Done
  <2> QED
    BY <2>1 DEF QuietHolds
<1>9. ASSUME HandoffFlags PROVE QuietHolds'
  <2>1. /\ hpc # "fencing" /\ hpc' = "flagged"
        /\ UNCHANGED <<created, handed, idleHanded, unsettled, unseen, lease, tickets>>
    BY <1>9 DEF HandoffFlags, SetFlags
  <2>2. \A s \in unsettled : <<s, "unsettled">> \in flags'
    BY <1>9 DEF HandoffFlags, SetFlags, UnsettledFlag
  <2>3. \A s \in Session : lease[s] # NoOp => <<s, "lease">> \in flags'
    BY <1>9 DEF HandoffFlags, SetFlags, LeaseFlag
  <2> QED
    BY <2>1, <2>2, <2>3 DEF QuietHolds
<1>10. ASSUME HandoffFreeze PROVE QuietHolds'
  <2>1. /\ hpc = "flagged" /\ hpc' = "fencing"
        /\ UNCHANGED <<handed, idleHanded, unsettled, unseen, lease>>
    BY <1>10 DEF HandoffFreeze
  <2>2. UNCHANGED tickets
    BY <1>10 DEF HandoffFreeze, CreateFreeze, AdoptFreeze
  <2>3. CASE CreateFreeze
    <3>1. tickets = {} /\ flags = {}
      BY <2>3 DEF CreateFreeze, Busy
    <3>2. unsettled = {} /\ \A s \in Session : lease[s] = NoOp
      BY <2>1, <3>1 DEF QuietHolds
    <3> QED
      BY <2>1, <2>2, <3>1, <3>2 DEF QuietHolds
  <2>4. CASE created' = FALSE
    BY <2>1, <2>2, <2>4 DEF QuietHolds
  <2> QED
    BY <1>10, <2>3, <2>4 DEF HandoffFreeze
<1>11. ASSUME HandoffGranted PROVE QuietHolds'
  <2>1. /\ hpc = "fencing" /\ hpc' = "idle" /\ handed'
        /\ idleHanded' => idleHanded \/ created
        /\ UNCHANGED <<unsettled, unseen, lease, tickets>>
    BY <1>11 DEF HandoffGranted
  <2> QED
    BY <2>1 DEF QuietHolds
<1>12. ASSUME HandoffTimeout PROVE QuietHolds'
  <2>1. /\ hpc' = "idle"
        /\ UNCHANGED <<handed, idleHanded, unsettled, unseen, lease, tickets>>
    BY <1>12 DEF HandoffTimeout, Thaw
  <2> QED
    BY <2>1 DEF QuietHolds
<1>13. ASSUME StopFreeze \/ StopGate \/ StopJoin \/ StopDrained \/ StopDone PROVE QuietHolds'
  <2>1. UNCHANGED <<hpc, created, handed, idleHanded, unsettled, unseen, lease, tickets, flags>>
    BY <1>13 DEF StopFreeze, StopGate, StopJoin, StopDrained, StopDone, StopStep, Freeze
  <2> QED
    BY <1>0, <2>1
<1>14. ASSUME NEW s \in Session, StopDrain(s) PROVE QuietHolds'
  <2>1. /\ UNCHANGED <<hpc, created, handed, idleHanded, unsettled, unseen>>
        /\ lease' \in {lease, [lease EXCEPT ![s] = NoOp]}
    BY <1>14 DEF StopDrain, StopStep
  <2>2. flags' = flags /\ (frozen => tickets' \subseteq tickets)
    BY <1>14, ArbiterGate DEF StopDrain, ArbiterMoves, Flushed
  <2>3. \A r \in Session : lease'[r] \in {lease[r], NoOp}
    BY <1>a, <2>1
  <2> QED
    BY <1>0, <1>b, <2>1, <2>2, <2>3
<1>15. CASE UNCHANGED allVars
  BY <1>0, <1>15
<1>d. load.ops \subseteq Op
  BY ServiceAssumption DEF Inv
<1> QED
  BY <1>1, <1>2, <1>3, <1>4, <1>5, <1>6, <1>7, <1>8, <1>9, <1>10, <1>11, <1>12, <1>13, <1>14, <1>15,
     <1>16, <1>17, <1>18, <1>d, OpFacts
     DEF SvcNext, RpcNext, ManagerNext, Unsettles, HandoffStep, StopTail

------------------------------------------------------------------------------
(* The shutdown                                                            *)

\* Only submit() makes a command wait.
LEMMA OnlySubmitWaits ==
  ASSUME Inv, ArbiterStep, \A c \in Cmd : spc'[c] = spc[c]
  PROVE  \A c \in recs' : cmd'[c].status = "accepted" =>
           c \in recs /\ cmd[c].status = "accepted" /\ cmd'[c].session = cmd[c].session
<1> DEFINE Goal == \A c \in recs' : cmd'[c].status = "accepted" =>
                     c \in recs /\ cmd[c].status = "accepted" /\ cmd'[c].session = cmd[c].session
<1>a. TypeOK /\ recs \subseteq Cmd
  BY DEF Inv, TypeOK
<1>0. ASSUME UNCHANGED <<recs, cmd>> PROVE Goal
  BY <1>0
<1>1. ASSUME NEW c \in Cmd, SubmitInvalid(c) \/ SubmitAdmit(c) \/ SubmitFrozen(c) \/ SubmitPut(c)
      PROVE  UNCHANGED <<recs, cmd>>
  BY <1>1 DEF SubmitInvalid, SubmitAdmit, SubmitFrozen, SubmitPut
<1>2. ASSUME NEW c \in Cmd, NEW s \in Session, SubmitRefuse(c, s) PROVE UNCHANGED <<recs, cmd>>
  BY <1>2 DEF SubmitRefuse
<1>3. ASSUME NEW c \in Cmd, NEW s \in Session, SubmitInsert(c, s) PROVE FALSE
  <2>1. spc' = [spc EXCEPT ![c] = "inserted"] /\ AtLock(c)
    BY <1>3, InsertFrame
  <2>2. spc'[c] = "inserted" /\ spc[c] # "inserted"
    BY <1>a, <2>1 DEF TypeOK, AtLock
  <2> QED
    BY <2>2
<1>4. ASSUME NEW c \in Cmd, Cancel(c) PROVE Goal
  BY <1>4, <1>a, CancelEffect
<1>5. ASSUME NEW s \in Session, Register(s) PROVE UNCHANGED <<recs, cmd>>
  BY <1>5 DEF Register
<1>6. ASSUME NEW s \in Session, NEW code \in Flushed, FlushSession(s, code) \/ Unregister(s, code)
      PROVE  Goal
  <2>1. FlushLocked(s, code)
    BY <1>6, FlushFrame
  <2> QED
    BY <1>a, <2>1, FlushEffect
<1>7. ASSUME NEW e \in Epoch, SetStop(e) \/ WorkerGet(e) \/ WorkerExit(e) \/ WorkerSkip(e)
      PROVE  UNCHANGED <<recs, cmd>>
  BY <1>7 DEF SetStop, WorkerGet, WorkerExit, WorkerSkip
<1>8. ASSUME NEW e \in Epoch, WorkerStart(e) PROVE Goal
  BY <1>8, <1>a, StartEffect, StartFrame
<1>9. ASSUME NEW e \in Epoch, NEW outcome \in Outcome, WorkerFinish(e, outcome) PROVE Goal
  BY <1>9, <1>a, FinishEffect
<1>10. ASSUME Beside PROVE UNCHANGED <<recs, cmd>>
  BY <1>10 DEF Beside
<1> HIDE DEF Goal
<1>11. Goal
  BY <1>0, <1>1, <1>2, <1>3, <1>4, <1>5, <1>6, <1>7, <1>8, <1>9, <1>10 DEF ArbiterStep, WorkerStep
<1> QED
  BY <1>11 DEF Goal

\* After a graceful drain no client is left to submit, and each session that
\* stop() unregisters is flushed with it: StopHolds is kept.
LEMMA DrainStep ==
  ASSUME Inv, SvcTypeOK, StopHolds, [SvcNext]_allVars
  PROVE  StopHolds'
<1> DEFINE Closed == graceful /\ stopPc \in {"unregister", "stopped"}
<1>a. /\ spc \in [Cmd -> Step] /\ recs \subseteq Cmd /\ ArbiterStep
      /\ load.ops \subseteq Op
  BY SvcStepIsArbiterStep, ServiceAssumption DEF Inv, TypeOK
<1>0. ASSUME UNCHANGED <<stopPc, todo, graceful>>,
             Closed => \A c \in Cmd : spc'[c] = spc[c]
      PROVE  StopHolds'
  BY <1>0, <1>a, OnlySubmitWaits DEF StopHolds
<1>1. ASSUME UNCHANGED <<stopPc, todo, graceful, spc>> PROVE StopHolds'
  BY <1>0, <1>1
<1>2. ASSUME ArbNext, \A c \in Cmd : spc'[c] # spc[c] => Scheduled(c), UNCHANGED svcVars
      PROVE  StopHolds'
  <2>1. Closed => \A c \in Cmd : ~Scheduled(c)
    BY DEF Scheduled
  <2> QED
    BY <1>0, <1>2, <2>1
<1>3. ASSUME RpcNext PROVE StopHolds'
  BY <1>1, <1>3 DEF RpcNext, RpcFrozen, ExecStart, ExecReturn, LoopStart, DispatchFail,
                    LoopSnapshot, LoopReturn, OpenDispatch, CloseDispatch
<1>4. ASSUME ManagerNext PROVE StopHolds'
  <2>1. ASSUME NEW s \in Session, LeaseEnds(s) \/ Arm(s) \/ OnReady(s) \/ Unsettles(s)
        PROVE  StopHolds'
    BY <1>1, <2>1 DEF LeaseEnds, Arm, OnReady, Register, Unsettles, Unsettle, BridgeLost,
                      RebootUnseen, Settle
  <2>2. ASSUME NEW s \in Session, ManagerLoses(s), UNCHANGED svcVars PROVE StopHolds'
    BY <1>1, <2>2 DEF ManagerLoses, FlushSession, Unregister
  <2> QED
    BY <1>4, <2>1, <2>2 DEF ManagerNext, Unsettles
<1>5. ASSUME HandoffSnapshot \/ HandoffStep PROVE StopHolds'
  BY <1>1, <1>5 DEF HandoffSnapshot, HandoffStep, HandoffReclaim, HandoffFlags, HandoffBusy,
                    HandoffFreeze, HandoffGranted, HandoffTimeout
<1>6. ASSUME \/ StopFreeze \/ StopGate \/ StopJoin
             \/ \E s \in Session : StopFlush(s) \/ StopDrain(s)
      PROVE  StopHolds'
  <2>1. stopPc' \notin {"unregister", "stopped"}
    BY <1>6 DEF StopFreeze, StopGate, StopJoin, StopFlush, StopDrain, StopStep
  <2> QED
    BY <2>1 DEF StopHolds
<1>7. ASSUME StopDrained PROVE StopHolds'
  <2>1. stopPc' = "unregister" /\ todo' = Session /\ UNCHANGED <<recs, cmd>>
    BY <1>7 DEF StopDrained, StopStep
  <2>2. \A c \in recs : cmd[c].session \in Session
    BY <1>a DEF Inv, RecordsHold
  <2> QED
    BY <2>1, <2>2 DEF StopHolds
<1>8. ASSUME NEW s \in Session, StopUnregister(s) PROVE StopHolds'
  <2>1. /\ stopPc = "unregister" /\ stopPc' = "unregister"
        /\ todo' = todo \ {s} /\ graceful' = graceful
        /\ FlushLocked(s, "FLUSHED_BY_SHUTDOWN") /\ spc' = spc
    BY <1>8 DEF StopUnregister, StopStep, Unregister
  <2>2. \A c \in recs' : cmd'[c].status = "accepted" =>
          c \in recs /\ cmd[c].status = "accepted" /\ cmd'[c].session = cmd[c].session
    BY <1>a, <2>1, OnlySubmitWaits
  <2>3. \A c \in Waiting(s) : cmd'[c].status = "error"
    BY <2>1, FlushEffect DEF Inv, Flushed
  <2>4. ASSUME NEW c \in recs', cmd'[c].status = "accepted" PROVE cmd'[c].session # s
    <3>1. c \in recs /\ cmd[c].status = "accepted" /\ cmd'[c].session = cmd[c].session
      BY <2>2, <2>4
    <3>2. cmd[c].doneAt = 0
      BY <1>a, <3>1 DEF Inv, RecordsHold
    <3>3. c \notin Waiting(s)
      BY <2>3, <2>4
    <3> QED
      BY <3>1, <3>2, <3>3 DEF Waiting
  <2> QED
    BY <2>1, <2>2, <2>4 DEF StopHolds
<1>9. ASSUME StopDone PROVE StopHolds'
  BY <1>9 DEF StopDone, StopStep, StopHolds
<1>10. CASE UNCHANGED allVars
  BY <1>1, <1>10
<1> QED
  BY <1>2, <1>3, <1>4, <1>5, <1>6, <1>7, <1>8, <1>9, <1>10 DEF SvcNext, StopTail

------------------------------------------------------------------------------
(* The invariant and what it gives                                         *)

\* The service starts idle and thawed.
LEMMA SvcInvInit == SvcInit => SvcInv
<1> SUFFICES ASSUME SvcInit PROVE SvcInv
  OBVIOUS
<1>1. Inv
  BY InvInit DEF SvcInit
<1>2. /\ tickets = {} /\ flags = {} /\ frozen = FALSE /\ token = 0 /\ idleToken = 0 /\ minted = 0
  BY DEF SvcInit, Init, GateInit
<1>3. SvcTypeOK
  <2>1. was \in [frozen : BOOLEAN, closing : BOOLEAN]
    BY DEF SvcInit
  <2> QED
    BY <1>2, <2>1, OpFacts DEF SvcInit, SvcTypeOK
<1>4. FreezeHolds
  BY <1>2 DEF SvcInit, FreezeHolds
<1>5. RpcHolds
  BY <1>2, OpFacts DEF SvcInit, RpcHolds, InProgress
<1>6. QuietHolds /\ StopHolds
  BY DEF SvcInit, QuietHolds, StopHolds
<1> QED
  BY <1>1, <1>3, <1>4, <1>5, <1>6 DEF SvcInv

\* The invariant holds in every behaviour of the service.
THEOREM ServiceInvariant == SvcSpec => []SvcInv
<1>1. SvcInv /\ [SvcNext]_allVars => SvcInv'
  <2> SUFFICES ASSUME SvcInv, [SvcNext]_allVars PROVE SvcInv'
    OBVIOUS
  <2>1. Inv'
    BY SvcStepIsArbiterStep, InvStep DEF SvcInv
  <2>2. SvcTypeOK' /\ FreezeHolds'
    BY SvcTypeStep, FreezeStep DEF SvcInv
  <2>3. RpcHolds'
    BY RpcStep DEF SvcInv
  <2>4. QuietHolds'
    BY QuietStep DEF SvcInv
  <2>5. StopHolds'
    BY DrainStep DEF SvcInv
  <2> QED
    BY <2>1, <2>2, <2>3, <2>4, <2>5 DEF SvcInv
<1> QED
  BY <1>1, SvcInvInit, PTL DEF SvcSpec

\* Everything the arbiter guarantees on its own holds of the arbiter inside the
\* service, whatever handoffs, leases and the shutdown do around it.
THEOREM ArbiterInService ==
  SvcSpec => [](/\ SentAtMostOnce
                /\ EndedRecordIsTrue
                /\ TicketsMatchCommands
                /\ LimitsHold
                /\ FifoPerPriority)
<1>1. SvcInv => /\ SentAtMostOnce
                /\ EndedRecordIsTrue
                /\ TicketsMatchCommands
                /\ LimitsHold
                /\ FifoPerPriority
  <2> SUFFICES ASSUME Inv PROVE /\ SentAtMostOnce /\ EndedRecordIsTrue
                                /\ TicketsMatchCommands /\ LimitsHold /\ FifoPerPriority
    BY DEF SvcInv
  <2>1. SentAtMostOnce /\ EndedRecordIsTrue
    BY DEF Inv, TypeOK, SentHolds, AnswersHold, TrueRecord, SentAtMostOnce, EndedRecordIsTrue
  <2>2. TicketsMatchCommands
    BY DEF Inv, TypeOK, TicketsHold, TicketsMatchCommands
  <2> QED
    BY <2>1, <2>2 DEF Inv
<1> QED
  BY <1>1, ServiceInvariant, PTL

\* Nothing thaws the gate, and nothing reopens the session manager's stopping
\* gate, behind a granted handoff or a shutdown (AdmissionGate.thaw,
\* freeze_for_handoff), for any number of handoffs.
THEOREM FreezeStays == SvcSpec => []FreezeSticks
<1>1. SvcInv => FreezeSticks
  BY DEF SvcInv, FreezeHolds, FreezeSticks
<1> QED
  BY <1>1, ServiceInvariant, PTL

\* A handoff that found the daemon idle leaves no agent command, no RPC
\* operation and no lease of an RPC for the shutdown to cut off, and no session
\* unsettled on behalf of an operation: after the grant only what needs no
\* ticket, above all a bridge that dies, can unsettle one.
THEOREM HandoffIsClean == SvcSpec => []HandoffLeavesNothingOpen
<1>1. SvcInv => HandoffLeavesNothingOpen
  <2> SUFFICES ASSUME SvcInv, idleHanded
               PROVE  /\ \A c \in recs \ Human : cmd[c].doneAt # 0
                      /\ \A o \in Op : opc[o] \in {"idle", "returned"}
                      /\ Active = {}
                      /\ unsettled \subseteq unseen
    BY DEF HandoffLeavesNothingOpen
  <2>1. tickets = {} /\ unsettled \subseteq unseen /\ \A s \in Session : lease[s] = NoOp
    BY DEF SvcInv, QuietHolds
  <2>2. \A c \in recs \ Human : cmd[c].doneAt # 0
    BY <2>1 DEF SvcInv, Inv, TypeOK, TicketsHold
  <2>3. \A o \in Op : opc[o] \notin InProgress
    BY <2>1 DEF SvcInv, RpcHolds
  <2>4. \A o \in Op : opc[o] \in {"idle", "returned"}
    BY <2>3 DEF SvcInv, SvcTypeOK
  <2> QED
    BY <2>1, <2>2, <2>4 DEF Active
<1> QED
  BY <1>1, ServiceInvariant, PTL

\* No RPC ticket is lost: it belongs to an operation under way or to a lease
\* ticket the next reconcile can reclaim.
THEOREM TicketsOwned == SvcSpec => []RpcTicketsAreOwned
<1>1. SvcInv => RpcTicketsAreOwned
  BY DEF SvcInv, RpcHolds, RpcTicketsAreOwned, InProgress
<1> QED
  BY <1>1, ServiceInvariant, PTL

\* A graceful stop() leaves no command accepted and waiting for ever.
THEOREM GracefulStopIsClean == SvcSpec => []GracefulStopLeavesNothingQueued
<1>1. SvcInv => GracefulStopLeavesNothingQueued
  BY DEF SvcInv, StopHolds, GracefulStopLeavesNothingQueued
<1> QED
  BY <1>1, ServiceInvariant, PTL
==============================================================================
