---------------------------- MODULE UartTxProofs ----------------------------
(***************************************************************************)
(* What UartTx guarantees for any number of writers, any payload length    *)
(* and any bounds.                                                         *)
(***************************************************************************)
EXTENDS UartTx, SequenceTheorems, TLAPS

InPayload == {"auth", "write", "record", "release"}

\* _write_lock is held by exactly the writer that is inside send_bytes, and
\* _tx_fence_lock by exactly the one inside an OS write.
LocksHeld ==
  \A w \in Writer :
    /\ pc[w] \in InPayload <=> wlock = w
    /\ pc[w] = "write" <=> fence = w

\* The gate still allows the write that is under way.
HolderAuthorised == \A w \in Writer : pc[w] = "write" => Authorised(w)

\* A freeze that returned True found the fence free after it had set the flag.
FreezeHolds ==
  /\ frz # "off" => frozen
  /\ frz = "ok" => fence = None

\* A drain keeps the bridge frozen; its receipt came when nobody was writing.
DrainHolds ==
  /\ draining => frozen
  /\ receipt.made => draining /\ wlock = None

\* The result the drain keeps is final once its writer has left send_bytes,
\* and the receipt repeats it.
ResultHolds ==
  /\ token # None => draining
  /\ token = None => result = NoResult
  /\ \A w \in Writer : token = w /\ wlock # w =>
       result = [outcome |-> outcome[w], conf |-> conf[w]]
  /\ receipt.made => receipt.inFlight = result

\* What the WAL lacks of a writer's bytes is the payload it is in, unless the
\* WAL says that the outcome is unknown or one of its records was lost.
WalHolds ==
  \A w \in Writer :
    \/ w \in unsure
    \/ w \in lost
    \/ pc[w] \in {"idle", "permitted", "release"} /\ wire[w] = logged[w]
    \/ pc[w] \in {"auth", "write", "record"} /\ wire[w] = logged[w] + conf[w]
    \/ pc[w] = "record" /\ outcome[w] = "unknown"

\* The inductive invariant.
Inv ==
  /\ TypeOK
  /\ LocksHeld
  /\ HolderAuthorised
  /\ FreezeHolds
  /\ DrainHolds
  /\ ResultHolds
  /\ FlashNeverSplitsPayload
  /\ WalHolds

------------------------------------------------------------------------------
(* Facts about constants and operators                                     *)

\* The ledger of revoked operations is a sequence of writers.
LEMMA PushedType ==
  ASSUME NEW ledger \in Seq(Writer), NEW w \in Writer
  PROVE  Pushed(ledger, w) \in Seq(Writer)
<1> DEFINE rest == Without(ledger, w)
           all == Append(rest, w)
<1>1. rest \in Seq(Writer)
  <2>1. CASE \E i \in 1 .. Len(ledger) : ledger[i] = w
    <3> DEFINE i == CHOOSE k \in 1 .. Len(ledger) : ledger[k] = w
    <3>1. i \in 1 .. Len(ledger)
      BY <2>1
    <3> HIDE DEF i
    <3>2. i - 1 \in Int /\ i + 1 \in Int /\ Len(ledger) \in Int
      BY <3>1
    <3>3. /\ \A j \in 1 .. (i - 1) : ledger[j] \in Writer
          /\ \A j \in (i + 1) .. Len(ledger) : ledger[j] \in Writer
      BY <3>1
    <3>4. SubSeq(ledger, 1, i - 1) \in Seq(Writer)
      BY <3>2, <3>3, SubSeqProperties
    <3>5. SubSeq(ledger, i + 1, Len(ledger)) \in Seq(Writer)
      BY <3>2, <3>3, SubSeqProperties
    <3>6. SubSeq(ledger, 1, i - 1) \o SubSeq(ledger, i + 1, Len(ledger)) \in Seq(Writer)
      BY <3>4, <3>5, ConcatProperties
    <3> QED
      BY <2>1, <3>6 DEF Without, i
  <2>2. CASE ~ \E i \in 1 .. Len(ledger) : ledger[i] = w
    BY <2>2 DEF Without
  <2> QED
    BY <2>1, <2>2
<1> HIDE DEF rest
<1>2. all \in Seq(Writer) /\ all # << >>
  BY <1>1, AppendProperties
<1>3. Tail(all) \in Seq(Writer)
  BY <1>2, HeadTailProperties
<1> QED
  BY <1>2, <1>3 DEF Pushed, rest

\* A payload has a natural number of bytes.
LEMMA PayloadNat == PayloadLen \in Nat
  BY TxAssumption

\* None is no writer.
LEMMA NoneIsNoWriter == None \notin Writer
  BY TxAssumption

USE DEF sendVars, lockVars, gateOnly, gateVars, drainOnly, drainVars, lineVars

------------------------------------------------------------------------------
(* Which steps change what                                                 *)

\* Only a writer moves itself, the two locks and the bytes.
LEMMA WriterFrame ==
  [Next]_vars =>
    \/ \E w \in Writer : Issue(w) \/ SendBegin(w) \/ SendReject(w) \/ WriterStep(w)
    \/ UNCHANGED <<sendVars, lockVars, lineVars>>
  BY DEF Next, vars, GateStep, SetTxGate, SetProbeGate, QuietExpires, SetFlashMode, Revoke,
         InvalidateDeferred, WalFlips, FreezeBegin, FreezeDone, Thaw, BeginDrain, CompleteDrain

\* Only the updates of the gate, and the start of a drain, change the gate.
LEMMA GateFrame ==
  [Next]_vars =>
    \/ \E gen \in Nat, quiet \in BOOLEAN, owner \in Writer \cup {None} :
         SetTxGate(gen, quiet, owner)
    \/ \E quiet \in BOOLEAN, floor \in Nat : SetProbeGate(quiet, floor)
    \/ QuietExpires
    \/ \E on \in BOOLEAN : SetFlashMode(on)
    \/ \E w \in Writer : Revoke(w)
    \/ InvalidateDeferred
    \/ BeginDrain
    \/ UNCHANGED gateVars
<1>1. 0 .. MaxGen \subseteq Nat
  BY TxAssumption
<1>2. ASSUME NEW classes PROVE Of(classes) \subseteq Writer /\ Switch(classes) \subseteq BOOLEAN
  BY DEF Of, Switch
<1>3. [Next]_vars => GateStep \/ BeginDrain \/ UNCHANGED gateVars
  BY DEF Next, vars, Issue, SendBegin, SendReject, WriterStep, SubmitEnter, SubmitEnd, Write,
         WriteUnknown, WriteError, Record, RecordLost, Release, FreezeBegin, FreezeDone, Thaw,
         CompleteDrain
<1>4. WalFlips => UNCHANGED gateVars
  BY DEF WalFlips
<1> QED
  BY <1>1, <1>2, <1>3, <1>4, Zenon DEF GateStep

\* Only these steps change what belongs to a freeze or a drain.
LEMMA DrainFrame ==
  [Next]_vars =>
    \/ FreezeBegin \/ FreezeDone \/ Thaw \/ BeginDrain
    \/ \E closed \in BOOLEAN : CompleteDrain(closed)
    \/ \E w \in Writer : RecordLost(w) \/ Release(w)
    \/ UNCHANGED drainVars
  BY DEF Next, vars, Issue, SendBegin, SendReject, WriterStep, SubmitEnter, SubmitEnd, Write,
         WriteUnknown, WriteError, Record, GateStep, SetTxGate, SetProbeGate, QuietExpires,
         SetFlashMode, Revoke, InvalidateDeferred, WalFlips

------------------------------------------------------------------------------
(* Types                                                                   *)

\* The bridge starts with values of these types.
LEMMA InitType == Init => TypeOK
<1> SUFFICES ASSUME Init PROVE TypeOK
  OBVIOUS
<1>1. SendTypes
  BY PayloadNat DEF Init, SendTypes
<1>2. LockTypes /\ LineTypes /\ walBad \in BOOLEAN
  BY DEF Init, LockTypes, LineTypes
<1>3. GateTypes
  BY EmptySeq DEF Init, GateTypes
<1>4. NoResult \in Result
  BY PayloadNat DEF NoResult, Result
<1>5. NoReceipt \in Receipt
  BY <1>4 DEF NoReceipt, Receipt
<1>6. DrainTypes
  BY <1>4, <1>5 DEF Init, DrainTypes
<1> QED
  BY <1>1, <1>2, <1>3, <1>6 DEF TypeOK

\* A writer's steps keep the types of its own state.
LEMMA SendTypesStep == SendTypes /\ GateTypes /\ [Next]_vars => SendTypes'
<1>1. ASSUME SendTypes, GateTypes, NEW w \in Writer, Issue(w) PROVE SendTypes'
  BY <1>1 DEF Issue, SendTypes, GateTypes
<1>2. ASSUME SendTypes, GateTypes, NEW w \in Writer, SendBegin(w) PROVE SendTypes'
  BY <1>2, PayloadNat DEF SendBegin, SendTypes
<1>3. ASSUME SendTypes, GateTypes, NEW w \in Writer, SendReject(w) PROVE SendTypes'
  BY <1>3 DEF SendReject, SendTypes
<1>4. ASSUME SendTypes, GateTypes, NEW w \in Writer, SubmitEnter(w) PROVE SendTypes'
  BY <1>4 DEF SubmitEnter, SendTypes
<1>5. ASSUME SendTypes, GateTypes, NEW w \in Writer, SubmitEnd(w) PROVE SendTypes'
  BY <1>5 DEF SubmitEnd, Ended, SendTypes
<1>6. ASSUME SendTypes, GateTypes,
             NEW w \in Writer, NEW n \in 0 .. PayloadLen, Write(w, n)
      PROVE  SendTypes'
  BY <1>6, PayloadNat DEF Write, SendTypes
<1>7. ASSUME SendTypes, GateTypes,
             NEW w \in Writer, NEW n \in 0 .. PayloadLen, WriteUnknown(w, n)
      PROVE  SendTypes'
  BY <1>7 DEF WriteUnknown, Ended, SendTypes
<1>8. ASSUME SendTypes, GateTypes, NEW w \in Writer, WriteError(w) PROVE SendTypes'
  BY <1>8 DEF WriteError, Ended, SendTypes
<1>9. ASSUME SendTypes, GateTypes, NEW w \in Writer, Record(w) PROVE SendTypes'
  BY <1>9 DEF Record, SendTypes
<1>10. ASSUME SendTypes, GateTypes, NEW w \in Writer, RecordLost(w) PROVE SendTypes'
  BY <1>10 DEF RecordLost, SendTypes
<1>11. ASSUME SendTypes, GateTypes, NEW w \in Writer, Release(w) PROVE SendTypes'
  BY <1>11 DEF Release, SendTypes
<1>12. ASSUME SendTypes, GateTypes, UNCHANGED sendVars PROVE SendTypes'
  BY <1>12 DEF SendTypes
<1> QED
  BY <1>1, <1>2, <1>3, <1>4, <1>5, <1>6, <1>7, <1>8, <1>9, <1>10, <1>11, <1>12,
     WriterFrame DEF WriterStep

\* ... of the locks ...
LEMMA LockTypesStep == LockTypes /\ [Next]_vars => LockTypes'
  BY WriterFrame
     DEF LockTypes, Issue, SendBegin, SendReject, WriterStep, SubmitEnter, SubmitEnd, Ended,
         Write, WriteUnknown, WriteError, Record, RecordLost, Release

\* ... and of what is on the line and in the WAL.
LEMMA LineTypesStep == LineTypes /\ SendTypes /\ [Next]_vars => LineTypes'
<1>1. ASSUME LineTypes, SendTypes, NEW w \in Writer, Issue(w) PROVE LineTypes'
  BY <1>1 DEF Issue, LineTypes
<1>2. ASSUME LineTypes, SendTypes, NEW w \in Writer, SendBegin(w) PROVE LineTypes'
  BY <1>2 DEF SendBegin, LineTypes
<1>3. ASSUME LineTypes, SendTypes, NEW w \in Writer, SendReject(w) PROVE LineTypes'
  BY <1>3 DEF SendReject, LineTypes
<1>4. ASSUME LineTypes, SendTypes, NEW w \in Writer, SubmitEnter(w) PROVE LineTypes'
  BY <1>4 DEF SubmitEnter, LineTypes
<1>5. ASSUME LineTypes, SendTypes, NEW w \in Writer, SubmitEnd(w) PROVE LineTypes'
  BY <1>5 DEF SubmitEnd, Ended, LineTypes
<1>6. ASSUME LineTypes, SendTypes,
             NEW w \in Writer, NEW n \in 0 .. PayloadLen, Write(w, n)
      PROVE  LineTypes'
  BY <1>6, PayloadNat DEF Write, LineTypes
<1>7. ASSUME LineTypes, SendTypes,
             NEW w \in Writer, NEW n \in 0 .. PayloadLen, WriteUnknown(w, n)
      PROVE  LineTypes'
  BY <1>7, PayloadNat DEF WriteUnknown, Ended, LineTypes
<1>8. ASSUME LineTypes, SendTypes, NEW w \in Writer, WriteError(w) PROVE LineTypes'
  BY <1>8 DEF WriteError, Ended, LineTypes
<1>9. ASSUME LineTypes, SendTypes, NEW w \in Writer, Record(w) PROVE LineTypes'
  BY <1>9, PayloadNat DEF Record, LineTypes, SendTypes
<1>10. ASSUME LineTypes, SendTypes, NEW w \in Writer, RecordLost(w) PROVE LineTypes'
  BY <1>10 DEF RecordLost, LineTypes
<1>11. ASSUME LineTypes, SendTypes, NEW w \in Writer, Release(w) PROVE LineTypes'
  BY <1>11 DEF Release, LineTypes
<1>12. ASSUME LineTypes, SendTypes, UNCHANGED lineVars PROVE LineTypes'
  BY <1>12 DEF LineTypes
<1> QED
  BY <1>1, <1>2, <1>3, <1>4, <1>5, <1>6, <1>7, <1>8, <1>9, <1>10, <1>11, <1>12,
     WriterFrame DEF WriterStep

\* Gate updates keep the types of the gate.
LEMMA GateTypesStep == GateTypes /\ [Next]_vars => GateTypes'
<1>1. ASSUME GateTypes,
             NEW gen \in Nat, NEW quiet \in BOOLEAN,
             NEW owner \in Writer \cup {None}, SetTxGate(gen, quiet, owner)
      PROVE  GateTypes'
  BY <1>1 DEF SetTxGate, GateTypes
<1>2. ASSUME GateTypes,
             NEW quiet \in BOOLEAN, NEW floor \in Nat, SetProbeGate(quiet, floor)
      PROVE  GateTypes'
  BY <1>2 DEF SetProbeGate, GateTypes
<1>3. ASSUME GateTypes, QuietExpires PROVE GateTypes'
  BY <1>3 DEF QuietExpires, GateTypes
<1>4. ASSUME GateTypes, NEW on \in BOOLEAN, SetFlashMode(on) PROVE GateTypes'
  BY <1>4 DEF SetFlashMode, GateTypes
<1>5. ASSUME GateTypes, NEW w \in Writer, Revoke(w) PROVE GateTypes'
  <2>1. Pushed(revoked, w) \in Seq(Writer)
    BY <1>5, PushedType DEF GateTypes
  <2> QED
    BY <1>5, <2>1 DEF Revoke, GateTypes
<1>6. ASSUME GateTypes, InvalidateDeferred PROVE GateTypes'
  BY <1>6 DEF InvalidateDeferred, GateTypes
<1>7. ASSUME GateTypes, BeginDrain PROVE GateTypes'
  BY <1>7 DEF BeginDrain, GateTypes
<1>8. ASSUME GateTypes, UNCHANGED gateVars PROVE GateTypes'
  BY <1>8 DEF GateTypes
<1> QED
  BY <1>1, <1>2, <1>3, <1>4, <1>5, <1>6, <1>7, <1>8, GateFrame

\* Freezing, draining and the steps that report to a drain keep its types.
LEMMA DrainTypesStep == DrainTypes /\ SendTypes /\ LockTypes /\ [Next]_vars => DrainTypes'
<1>1. ASSUME DrainTypes, SendTypes, LockTypes, FreezeBegin PROVE DrainTypes'
  BY <1>1 DEF FreezeBegin, DrainTypes
<1>2. ASSUME DrainTypes, SendTypes, LockTypes, FreezeDone PROVE DrainTypes'
  BY <1>2 DEF FreezeDone, DrainTypes
<1>3. ASSUME DrainTypes, SendTypes, LockTypes, Thaw PROVE DrainTypes'
  BY <1>3 DEF Thaw, DrainTypes
<1>4. ASSUME DrainTypes, SendTypes, LockTypes, BeginDrain PROVE DrainTypes'
  BY <1>4, PayloadNat DEF BeginDrain, DrainTypes, LockTypes, Result, NoResult, InFlight
<1>5. ASSUME DrainTypes, SendTypes, LockTypes,
             NEW closed \in BOOLEAN, CompleteDrain(closed)
      PROVE  DrainTypes'
  BY <1>5 DEF CompleteDrain, DrainTypes, Receipt
<1>6. ASSUME DrainTypes, SendTypes, LockTypes,
             NEW w \in Writer, RecordLost(w)
      PROVE  DrainTypes'
  BY <1>6 DEF RecordLost, DrainTypes
<1>7. ASSUME DrainTypes, SendTypes, LockTypes,
             NEW w \in Writer, Release(w)
      PROVE  DrainTypes'
  BY <1>7 DEF Release, DrainTypes, SendTypes, Result
<1>8. ASSUME DrainTypes, SendTypes, LockTypes, UNCHANGED drainVars PROVE DrainTypes'
  BY <1>8 DEF DrainTypes
<1> QED
  BY <1>1, <1>2, <1>3, <1>4, <1>5, <1>6, <1>7, <1>8, DrainFrame

\* Each step keeps the types of the bridge's state.
LEMMA NextType == TypeOK /\ [Next]_vars => TypeOK'
<1> SUFFICES ASSUME TypeOK, [Next]_vars PROVE TypeOK'
  OBVIOUS
<1>1. (walBad \in BOOLEAN)'
  BY ZenonT(40) DEF TypeOK, Next, vars, Issue, SendBegin, SendReject, WriterStep, SubmitEnter, SubmitEnd,
         Write, WriteUnknown, WriteError, Record, RecordLost, Release, GateStep, SetTxGate,
         SetProbeGate, QuietExpires, SetFlashMode, Revoke, InvalidateDeferred, WalFlips,
         FreezeBegin, FreezeDone, Thaw, BeginDrain, CompleteDrain
<1> QED
  BY <1>1, SendTypesStep, LockTypesStep, GateTypesStep, DrainTypesStep, LineTypesStep DEF TypeOK

\* The state of the bridge keeps its types, however many writers there are.
THEOREM TypeCorrect == Spec => []TypeOK
<1>1. TypeOK /\ [Next]_vars => TypeOK'
  BY NextType
<1> QED
  BY InitType, <1>1, PTL DEF Spec

------------------------------------------------------------------------------
(* The inductive invariant                                                 *)

\* The invariant holds when the bridge starts.
LEMMA InitInv == Init => Inv
<1> SUFFICES ASSUME Init PROVE Inv
  OBVIOUS
<1>1. LocksHeld
  BY TxAssumption DEF Init, LocksHeld, InPayload
<1>2. HolderAuthorised /\ FlashNeverSplitsPayload /\ WalHolds
  BY DEF Init, HolderAuthorised, FlashNeverSplitsPayload, WalHolds
<1>3. FreezeHolds /\ DrainHolds
  BY DEF Init, FreezeHolds, DrainHolds, NoReceipt
<1>4. ResultHolds
  BY TxAssumption DEF Init, ResultHolds, NoReceipt
<1> QED
  BY <1>1, <1>2, <1>3, <1>4, InitType DEF Inv

\* The two locks are taken and given back by the writer that is inside.
LEMMA LocksStep == SendTypes /\ LocksHeld /\ [Next]_vars => LocksHeld'
<1>1. ASSUME SendTypes, LocksHeld, NEW w \in Writer, Issue(w) PROVE LocksHeld'
  BY <1>1 DEF Issue, SendTypes, LocksHeld, InPayload
<1>2. ASSUME SendTypes, LocksHeld, NEW w \in Writer, SendBegin(w) PROVE LocksHeld'
  BY <1>2, NoneIsNoWriter DEF SendBegin, SendTypes, LocksHeld, InPayload
<1>3. ASSUME SendTypes, LocksHeld, NEW w \in Writer, SendReject(w) PROVE LocksHeld'
  BY <1>3 DEF SendReject, SendTypes, LocksHeld, InPayload
<1>4. ASSUME SendTypes, LocksHeld, NEW w \in Writer, SubmitEnter(w) PROVE LocksHeld'
  BY <1>4, NoneIsNoWriter DEF SubmitEnter, SendTypes, LocksHeld, InPayload
<1>5. ASSUME SendTypes, LocksHeld, NEW w \in Writer, SubmitEnd(w) PROVE LocksHeld'
  BY <1>5 DEF SubmitEnd, Ended, SendTypes, LocksHeld, InPayload
<1>6. ASSUME SendTypes, LocksHeld,
             NEW w \in Writer, NEW n \in 0 .. PayloadLen, Write(w, n)
      PROVE  LocksHeld'
  BY <1>6, NoneIsNoWriter DEF Write, SendTypes, LocksHeld, InPayload
<1>7. ASSUME SendTypes, LocksHeld,
             NEW w \in Writer, NEW n \in 0 .. PayloadLen, WriteUnknown(w, n)
      PROVE  LocksHeld'
  BY <1>7, NoneIsNoWriter DEF WriteUnknown, Ended, SendTypes, LocksHeld, InPayload
<1>8. ASSUME SendTypes, LocksHeld, NEW w \in Writer, WriteError(w) PROVE LocksHeld'
  BY <1>8, NoneIsNoWriter DEF WriteError, Ended, SendTypes, LocksHeld, InPayload
<1>9. ASSUME SendTypes, LocksHeld, NEW w \in Writer, Record(w) PROVE LocksHeld'
  BY <1>9 DEF Record, SendTypes, LocksHeld, InPayload
<1>10. ASSUME SendTypes, LocksHeld, NEW w \in Writer, RecordLost(w) PROVE LocksHeld'
  BY <1>10 DEF RecordLost, SendTypes, LocksHeld, InPayload
<1>11. ASSUME SendTypes, LocksHeld, NEW w \in Writer, Release(w) PROVE LocksHeld'
  BY <1>11, NoneIsNoWriter DEF Release, SendTypes, LocksHeld, InPayload
<1>12. ASSUME SendTypes, LocksHeld, UNCHANGED <<sendVars, lockVars>> PROVE LocksHeld'
  BY <1>12 DEF SendTypes, LocksHeld, InPayload
<1> QED
  BY <1>1, <1>2, <1>3, <1>4, <1>5, <1>6, <1>7, <1>8, <1>9, <1>10, <1>11, <1>12,
     WriterFrame DEF WriterStep

\* What the gate says of a permit does not change unless the permit or the
\* gate does.
LEMMA AuthorisedStable ==
  ASSUME NEW w \in Writer, Authorised(w), permit'[w] = permit[w], UNCHANGED gateVars
  PROVE  Authorised(w)'
  BY DEF Authorised, Revoked

\* Who is inside an OS write stays authorised: SubmitEnter checks it, and the
\* gate is tightened only while nobody holds the fence.
LEMMA AuthStep ==
  SendTypes /\ LocksHeld /\ HolderAuthorised /\ [Next]_vars => HolderAuthorised'
<1> SUFFICES ASSUME SendTypes, LocksHeld, HolderAuthorised, [Next]_vars
             PROVE  HolderAuthorised'
  OBVIOUS
<1>1. ASSUME NEW w \in Writer, Issue(w) \/ SendBegin(w) \/ SendReject(w) \/ WriterStep(w)
      PROVE  HolderAuthorised'
  <2>1. UNCHANGED gateVars
    BY <1>1 DEF Issue, SendBegin, SendReject, WriterStep, SubmitEnter, SubmitEnd, Write,
                WriteUnknown, WriteError, Record, RecordLost, Release
  <2>2. ASSUME NEW v \in Writer, pc'[v] = "write"
        PROVE  Authorised(v) /\ permit'[v] = permit[v]
    <3>1. CASE SubmitEnter(w)
      BY <2>2, <3>1 DEF SubmitEnter, HolderAuthorised, SendTypes
    <3>2. CASE ~SubmitEnter(w)
      BY <1>1, <2>2, <3>2 DEF Issue, SendBegin, SendReject, WriterStep, SubmitEnd, Ended, Write,
         WriteUnknown, WriteError, Record, RecordLost, Release, HolderAuthorised, SendTypes
    <3> QED
      BY <3>1, <3>2
  <2> QED
    BY <2>1, <2>2, AuthorisedStable DEF HolderAuthorised
<1>2. ASSUME fence = None, pc' = pc PROVE HolderAuthorised'
  BY <1>2, NoneIsNoWriter DEF LocksHeld, HolderAuthorised
<1>3. CASE QuietExpires
  BY <1>3 DEF QuietExpires, HolderAuthorised, Authorised, Revoked
<1>4. ASSUME UNCHANGED <<pc, permit, gateVars>> PROVE HolderAuthorised'
  BY <1>4, AuthorisedStable DEF HolderAuthorised
<1>5. CASE BeginDrain
  BY <1>2, <1>4, <1>5 DEF BeginDrain
<1> QED
  BY <1>1, <1>2, <1>3, <1>4, <1>5, WriterFrame, GateFrame
     DEF SetTxGate, SetProbeGate, SetFlashMode, Revoke, InvalidateDeferred

\* A payload of which bytes are on the line ends in the mode it began in: the
\* mode changes only while nobody holds the write lock.
LEMMA FlashStep ==
  /\ SendTypes /\ LocksHeld /\ HolderAuthorised /\ FlashNeverSplitsPayload
  /\ [Next]_vars
  => FlashNeverSplitsPayload'
<1> SUFFICES ASSUME SendTypes, LocksHeld, HolderAuthorised, FlashNeverSplitsPayload, [Next]_vars
             PROVE  FlashNeverSplitsPayload'
  OBVIOUS
<1>1. ASSUME NEW w \in Writer, Issue(w) \/ SendBegin(w) \/ SendReject(w) \/ WriterStep(w)
      PROVE  FlashNeverSplitsPayload'
  <2>1. UNCHANGED flash
    BY <1>1 DEF Issue, SendBegin, SendReject, WriterStep, SubmitEnter, SubmitEnd, Write,
                WriteUnknown, WriteError, Record, RecordLost, Release
  <2>2. ASSUME NEW n \in 0 .. PayloadLen, Write(w, n) PROVE FlashNeverSplitsPayload'
    <3>1. flash <=> Class[w] = "flash"
      BY <2>2 DEF Write, HolderAuthorised, Authorised
    <3> QED
      BY <2>1, <2>2, <3>1 DEF Write, SendTypes, FlashNeverSplitsPayload
  <2>3. ASSUME \A n \in 0 .. PayloadLen : ~Write(w, n) PROVE FlashNeverSplitsPayload'
    BY <1>1, <2>1, <2>3 DEF Issue, SendBegin, SendReject, WriterStep, SubmitEnter, SubmitEnd,
       Ended, WriteUnknown, WriteError, Record, RecordLost, Release, SendTypes,
       FlashNeverSplitsPayload
  <2> QED
    BY <2>2, <2>3
<1>2. ASSUME NEW on \in BOOLEAN, SetFlashMode(on) PROVE FlashNeverSplitsPayload'
  BY <1>2, NoneIsNoWriter DEF SetFlashMode, LocksHeld, InPayload, FlashNeverSplitsPayload
<1>3. ASSUME UNCHANGED <<pc, conf, flash>> PROVE FlashNeverSplitsPayload'
  BY <1>3 DEF FlashNeverSplitsPayload
<1> QED
  BY <1>1, <1>2, <1>3, WriterFrame, GateFrame
     DEF SetTxGate, SetProbeGate, QuietExpires, Revoke, InvalidateDeferred, BeginDrain

\* A freeze that returned True stays in force: no write enters while frozen.
LEMMA FreezeStep == FreezeHolds /\ DrainHolds /\ [Next]_vars => FreezeHolds'
<1> SUFFICES ASSUME FreezeHolds, DrainHolds, [Next]_vars PROVE FreezeHolds'
  OBVIOUS
<1>1. fence' = fence \/ fence' = None \/ ~frozen
  BY WriterFrame DEF Issue, SendBegin, SendReject, WriterStep, SubmitEnter, SubmitEnd, Write,
                     WriteUnknown, WriteError, Record, RecordLost, Release
<1>2. CASE FreezeBegin \/ FreezeDone \/ Thaw \/ BeginDrain
  BY <1>2 DEF FreezeBegin, FreezeDone, Thaw, BeginDrain, FreezeHolds
<1>3. ASSUME UNCHANGED <<frozen, frz>> PROVE FreezeHolds'
  BY <1>1, <1>3 DEF FreezeHolds
<1> QED
  BY <1>2, <1>3, DrainFrame DEF CompleteDrain, RecordLost, Release

\* A drain is not undone, and nobody takes the write lock after its receipt.
LEMMA DrainStep == DrainHolds /\ [Next]_vars => DrainHolds'
<1> SUFFICES ASSUME DrainHolds, [Next]_vars PROVE DrainHolds'
  OBVIOUS
<1>1. wlock' = wlock \/ wlock' = None \/ ~frozen
  BY WriterFrame DEF Issue, SendBegin, SendReject, PreCheck, WriterStep, SubmitEnter, SubmitEnd,
                     Write, WriteUnknown, WriteError, Record, RecordLost, Release
<1>2. CASE FreezeBegin \/ FreezeDone \/ Thaw \/ BeginDrain
  BY <1>2 DEF FreezeBegin, FreezeDone, Thaw, BeginDrain, DrainHolds
<1>3. ASSUME NEW closed \in BOOLEAN, CompleteDrain(closed) PROVE DrainHolds'
  BY <1>3 DEF CompleteDrain, DrainHolds
<1>4. ASSUME UNCHANGED <<frozen, draining, receipt>> PROVE DrainHolds'
  BY <1>1, <1>4 DEF DrainHolds
<1> QED
  BY <1>2, <1>3, <1>4, DrainFrame DEF RecordLost, Release

\* The drain's result becomes final when its writer leaves send_bytes; no
\* payload begins after the drain, so it stays what it is.
LEMMA ResultStep ==
  /\ SendTypes /\ LockTypes /\ LocksHeld /\ DrainHolds /\ ResultHolds
  /\ [Next]_vars
  => ResultHolds'
<1> SUFFICES ASSUME SendTypes, LockTypes, LocksHeld, DrainHolds, ResultHolds, [Next]_vars
             PROVE  ResultHolds'
  OBVIOUS
<1>1. ASSUME NEW w \in Writer, Release(w) PROVE ResultHolds'
  BY <1>1, NoneIsNoWriter
     DEF Release, SendTypes, LocksHeld, InPayload, DrainHolds, ResultHolds
<1>2. ASSUME NEW w \in Writer, SendBegin(w) PROVE ResultHolds'
  BY <1>2, NoneIsNoWriter DEF SendBegin, PreCheck, SendTypes, DrainHolds, ResultHolds
<1>3. ASSUME NEW w \in Writer, \/ Issue(w) \/ SendReject(w) \/ SubmitEnter(w) \/ Record(w)
                               \/ RecordLost(w)
      PROVE  ResultHolds'
  BY <1>3 DEF Issue, SendReject, SubmitEnter, Record, RecordLost, ResultHolds
<1>4. ASSUME NEW w \in Writer, NEW n \in 0 .. PayloadLen,
             SubmitEnd(w) \/ Write(w, n) \/ WriteUnknown(w, n) \/ WriteError(w)
      PROVE  ResultHolds'
  <2>1. wlock = w /\ UNCHANGED <<wlock, token, result, draining, receipt>>
    BY <1>4 DEF SubmitEnd, Write, WriteUnknown, WriteError, LocksHeld, InPayload
  <2>2. \A v \in Writer : v # w => outcome'[v] = outcome[v] /\ conf'[v] = conf[v]
    BY <1>4 DEF SubmitEnd, Ended, Write, WriteUnknown, WriteError, SendTypes
  <2> QED
    BY <2>1, <2>2 DEF ResultHolds
<1>5. CASE BeginDrain
  BY <1>5, NoneIsNoWriter DEF BeginDrain, LockTypes, DrainHolds, ResultHolds
<1>6. ASSUME NEW closed \in BOOLEAN, CompleteDrain(closed) PROVE ResultHolds'
  BY <1>6 DEF CompleteDrain, ResultHolds
<1>7. ASSUME UNCHANGED <<sendVars, lockVars, drainOnly, receipt>> PROVE ResultHolds'
  BY <1>7 DEF ResultHolds
<1>8. 0 \in 0 .. PayloadLen
  BY PayloadNat
<1> QED
  BY <1>1, <1>2, <1>3, <1>4, <1>5, <1>6, <1>7, <1>8, WriterFrame, DrainFrame
     DEF WriterStep, FreezeBegin, FreezeDone, Thaw

\* The WAL keeps up with the line.
LEMMA WalStep == SendTypes /\ LineTypes /\ WalHolds /\ [Next]_vars => WalHolds'
<1>1. ASSUME SendTypes, LineTypes, WalHolds, NEW w \in Writer, Issue(w) PROVE WalHolds'
  BY <1>1 DEF Issue, SendTypes, LineTypes, WalHolds
<1>2. ASSUME SendTypes, LineTypes, WalHolds, NEW w \in Writer, SendBegin(w) PROVE WalHolds'
  BY <1>2, PayloadNat DEF SendBegin, SendTypes, LineTypes, WalHolds
<1>3. ASSUME SendTypes, LineTypes, WalHolds, NEW w \in Writer, SendReject(w) PROVE WalHolds'
  BY <1>3 DEF SendReject, SendTypes, LineTypes, WalHolds
<1>4. ASSUME SendTypes, LineTypes, WalHolds,
             NEW w \in Writer, SubmitEnter(w)
      PROVE  WalHolds'
  BY <1>4 DEF SubmitEnter, SendTypes, LineTypes, WalHolds
<1>5. ASSUME SendTypes, LineTypes, WalHolds, NEW w \in Writer, SubmitEnd(w) PROVE WalHolds'
  BY <1>5 DEF SubmitEnd, Ended, SendTypes, LineTypes, WalHolds
<1>6. ASSUME SendTypes, LineTypes, WalHolds,
             NEW w \in Writer, NEW n \in 0 .. PayloadLen, Write(w, n)
      PROVE  WalHolds'
  BY <1>6, PayloadNat DEF Write, SendTypes, LineTypes, WalHolds
<1>7. ASSUME SendTypes, LineTypes, WalHolds,
             NEW w \in Writer, NEW n \in 0 .. PayloadLen, WriteUnknown(w, n)
      PROVE  WalHolds'
  BY <1>7, PayloadNat DEF WriteUnknown, Ended, SendTypes, LineTypes, WalHolds
<1>8. ASSUME SendTypes, LineTypes, WalHolds, NEW w \in Writer, WriteError(w) PROVE WalHolds'
  BY <1>8 DEF WriteError, Ended, SendTypes, LineTypes, WalHolds
<1>9. ASSUME SendTypes, LineTypes, WalHolds, NEW w \in Writer, Record(w) PROVE WalHolds'
  BY <1>9, PayloadNat DEF Record, SendTypes, LineTypes, WalHolds
<1>10. ASSUME SendTypes, LineTypes, WalHolds,
             NEW w \in Writer, RecordLost(w)
      PROVE  WalHolds'
  BY <1>10 DEF RecordLost, SendTypes, LineTypes, WalHolds
<1>11. ASSUME SendTypes, LineTypes, WalHolds, NEW w \in Writer, Release(w) PROVE WalHolds'
  BY <1>11 DEF Release, SendTypes, LineTypes, WalHolds
<1>12. ASSUME SendTypes, LineTypes, WalHolds, UNCHANGED <<sendVars, lineVars>> PROVE WalHolds'
  BY <1>12 DEF SendTypes, LineTypes, WalHolds
<1> QED
  BY <1>1, <1>2, <1>3, <1>4, <1>5, <1>6, <1>7, <1>8, <1>9, <1>10, <1>11, <1>12,
     WriterFrame DEF WriterStep

\* Every step preserves the invariant.
LEMMA NextInv == Inv /\ [Next]_vars => Inv'
  BY NextType, LocksStep, AuthStep, FlashStep, FreezeStep, DrainStep, ResultStep, WalStep
     DEF Inv, TypeOK

\* The invariant holds in every reachable state.
THEOREM Invariance == Spec => []Inv
  BY InitInv, NextInv, PTL DEF Spec

------------------------------------------------------------------------------
(* What the bridge guarantees                                              *)

\* The bytes of two operations never mix on the line: _write_lock has one
\* holder, and everyone inside send_bytes holds it.
THEOREM PayloadsSafe == Spec => []PayloadsDoNotInterleave
<1>1. Inv => PayloadsDoNotInterleave
  BY DEF Inv, TypeOK, SendTypes, LocksHeld, InPayload, PayloadsDoNotInterleave
<1> QED
  BY <1>1, Invariance, PTL

\* Flash mode never changes inside a payload of which bytes are on the line.
THEOREM FlashSafe == Spec => []FlashNeverSplitsPayload
<1>1. Inv => FlashNeverSplitsPayload
  BY DEF Inv
<1> QED
  BY <1>1, Invariance, PTL

\* The drain's receipt has the final result of the payload in flight.
THEOREM ReceiptSafe == Spec => []ReceiptIsFinal
<1>1. Inv => ReceiptIsFinal
  <2> SUFFICES ASSUME Inv, receipt.made
               PROVE  /\ receipt.inFlight.outcome # "in_flight"
                      /\ token # None => receipt.inFlight.conf = conf[token]
    BY DEF ReceiptIsFinal
  <2>1. receipt.inFlight = result /\ wlock = None
    BY DEF Inv, DrainHolds, ResultHolds
  <2>2. CASE token = None
    BY <2>1, <2>2 DEF Inv, ResultHolds, NoResult
  <2>3. CASE token # None
    <3>1. token \in Writer /\ wlock # token
      BY <2>1, <2>3 DEF Inv, TypeOK, DrainTypes
    <3>2. result = [outcome |-> outcome[token], conf |-> conf[token]]
      BY <3>1 DEF Inv, ResultHolds
    <3>3. outcome[token] # "in_flight"
      BY <3>1 DEF Inv, TypeOK, SendTypes
    <3> QED
      BY <2>1, <2>3, <3>2, <3>3
  <2> QED
    BY <2>2, <2>3
<1> QED
  BY <1>1, Invariance, PTL

\* Between payloads the WAL accounts for every byte on the line.
THEOREM WalSafe == Spec => []WalAccountsForLine
<1>1. Inv => WalAccountsForLine
  BY DEF Inv, WalHolds, WalAccountsForLine
<1> QED
  BY <1>1, Invariance, PTL

\* Only a writer inside an OS write puts bytes on the line.
LEMMA OnlyHolderWrites ==
  ASSUME LineTypes, [Next]_vars, NEW w \in Writer, wire'[w] # wire[w]
  PROVE  pc[w] = "write"
  BY WriterFrame
     DEF LineTypes, Issue, SendBegin, SendReject, WriterStep, SubmitEnter, SubmitEnd, Write,
         WriteUnknown, WriteError, Record, RecordLost, Release

\* With the fence free no byte reaches the line.
LEMMA SilentWithoutFence ==
  ASSUME Inv, [Next]_vars, fence = None
  PROVE  wire' = wire
<1>1. \A w \in Writer : wire'[w] = wire[w]
  BY OnlyHolderWrites, NoneIsNoWriter DEF Inv, TypeOK, LocksHeld
<1>2. wire \in [Writer -> Nat] /\ wire' \in [Writer -> Nat]
  BY NextType DEF Inv, TypeOK, LineTypes
<1> QED
  BY <1>1, <1>2

\* No byte reaches the line while the gate forbids it.
THEOREM AuthorisedWrites == Spec => WritesAreAuthorised
<1>1. Inv /\ [Next]_vars => [\A w \in Writer : wire'[w] # wire[w] => Authorised(w)]_vars
  BY OnlyHolderWrites DEF Inv, TypeOK, HolderAuthorised
<1> QED
  BY <1>1, Invariance, PTL DEF Spec, WritesAreAuthorised

\* After freeze_tx returned True the line is silent.
THEOREM FreezeSafe == Spec => FreezeMeansSilence
<1>1. Inv /\ [Next]_vars => [frz = "ok" => wire' = wire]_vars
  BY SilentWithoutFence DEF Inv, FreezeHolds
<1> QED
  BY <1>1, Invariance, PTL DEF Spec, FreezeMeansSilence

\* After the drain's receipt the line is silent for ever.
THEOREM DrainSafe == Spec => ReceiptMeansSilence
<1>1. Inv /\ [Next]_vars => [receipt.made => wire' = wire]_vars
  <2> SUFFICES ASSUME Inv, [Next]_vars, receipt.made PROVE wire' = wire
    OBVIOUS
  <2>1. \A w \in Writer : fence # w
    BY NoneIsNoWriter DEF Inv, DrainHolds, LocksHeld, InPayload
  <2>2. fence = None
    BY <2>1 DEF Inv, TypeOK, LockTypes
  <2> QED
    BY <2>2, SilentWithoutFence
<1> QED
  BY <1>1, Invariance, PTL DEF Spec, ReceiptMeansSilence
==============================================================================
