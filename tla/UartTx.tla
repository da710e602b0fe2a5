------------------------------- MODULE UartTx -------------------------------
(***************************************************************************)
(* The transmit side of one UART bridge (sw_core/uart_io.py, with the      *)
(* write loops of sw_core/serial_port.py): every write takes the write     *)
(* lock for its whole payload and, for each single OS write, the TX fence, *)
(* inside which its permit is checked again.  The session manager moves    *)
(* the gate, revokes operations, turns flash mode on, freezes the bridge   *)
(* for a handoff, and drains it, while writers are at work.                *)
(*                                                                         *)
(* Sections under _state_lock alone are atomic.  Whoever updates the gate  *)
(* holds _state_lock and waits for the fence, so such an update is one     *)
(* step that needs the fence to be free.                                   *)
(***************************************************************************)
EXTENDS Naturals, Sequences, FiniteSets

CONSTANTS
  Writer,      \* operations that transmit; an operation is its own op_id
  None,
  Class,       \* Class[w]: the tx_class of its permit, or "flash"
  PayloadLen,  \* bytes in one payload
  LedgerMax,   \* _TX_ACCOUNT_MAX
  MaxGen,      \* bound: changes of the gate and of the owner generation
  MaxSends     \* bound: payloads of one writer

ASSUME TxAssumption ==
  /\ None \notin Writer
  /\ Class \in [Writer -> {"agent", "interactive", "human_raw", "human_line",
                           "system_probe", "self_test_probe", "flash"}]
  /\ PayloadLen \in Nat \ {0}
  /\ LedgerMax \in Nat \ {0}
  /\ MaxGen \in Nat
  /\ MaxSends \in Nat

VARIABLES
  pc,        \* where each writer is
  permit,    \* its TxPermit: bridge_generation, owner_gen and login_gen
  conf,      \* bytes of its payload the OS confirmed
  outcome,   \* outcome of its payload
  sends,     \* payloads it has begun
  wlock,     \* holder of _write_lock
  fence,     \* holder of _tx_fence_lock
  gateGen,   \* _gate_generation
  gateQuiet, \* _gate_quiet
  gateLease, \* _gate_lease_owner
  probeQuiet,\* the probes' quiet deadlines are ahead
  loginFloor,\* _gate_login_gen_floor
  ownerGen,  \* _owner_gen
  revoked,   \* _revoked_ops, oldest first
  flash,     \* _flash_mode
  frozen,    \* _tx_frozen
  frz,       \* freeze_tx: "off", waiting for the fence, or returned True
  draining,  \* _drain_started
  pending,   \* _drain_pending
  token,     \* _drain_tx_token: the writer whose payload was in flight
  result,    \* _drain_tx_in_flight
  unrecorded,\* _drain_unrecorded
  receipt,   \* _drain_receipt
  port,      \* the serial port is open
  walBad,    \* WalWriter.unhealthy
  wire,      \* bytes of each writer that reached the line
  logged,    \* bytes of each writer in TX records of the WAL
  lost,      \* writers one of whose WAL records was lost
  unsure     \* writers with a tx_outcome_unknown record

sendVars == <<pc, permit, conf, outcome, sends>>
lockVars == <<wlock, fence>>
gateOnly == <<gateGen, gateQuiet, gateLease, probeQuiet, loginFloor, ownerGen>>
gateVars == <<gateOnly, revoked, flash>>
drainOnly == <<draining, pending, token, result, unrecorded>>
drainVars == <<frozen, frz, drainOnly, receipt, port>>
lineVars == <<wire, logged, lost, unsure>>
vars == <<sendVars, lockVars, gateVars, drainVars, walBad, lineVars>>

NoResult == [outcome |-> "none", conf |-> 0]
InFlight == [outcome |-> "in_flight", conf |-> 0]
NoReceipt == [made |-> FALSE, handleClosed |-> FALSE, inFlight |-> NoResult,
              unrecorded |-> {}]

Init ==
  /\ pc = [w \in Writer |-> "idle"]
  /\ permit = [w \in Writer |-> [gen |-> 0, owner |-> 0, login |-> 0]]
  /\ conf = [w \in Writer |-> 0]
  /\ outcome = [w \in Writer |-> "none"]
  /\ sends = [w \in Writer |-> 0]
  /\ wlock = None
  /\ fence = None
  /\ gateGen = 0
  /\ gateQuiet = FALSE
  /\ gateLease = None
  /\ probeQuiet = FALSE
  /\ loginFloor = 0
  /\ ownerGen = 0
  /\ revoked = << >>
  /\ flash = FALSE
  /\ frozen = FALSE
  /\ frz = "off"
  /\ draining = FALSE
  /\ pending = FALSE
  /\ token = None
  /\ result = NoResult
  /\ unrecorded = {}
  /\ receipt = NoReceipt
  /\ port = TRUE
  /\ walBad = FALSE
  /\ wire = [w \in Writer |-> 0]
  /\ logged = [w \in Writer |-> 0]
  /\ lost = {}
  /\ unsure = {}

------------------------------------------------------------------------------
(* The permit check                                                        *)

Revoked(w) == \E i \in 1 .. Len(revoked) : revoked[i] = w

\* _tx_reject_reason and _submit_reject_reason after their first test: what
\* the gate says of w's permit, apart from the freeze.
Authorised(w) ==
  IF Class[w] = "flash"
  THEN flash
  ELSE /\ ~flash
       /\ Class[w] # "system_probe" => permit[w].gen = gateGen
       /\ ~Revoked(w)
       /\ Class[w] = "agent" => ~gateQuiet
       /\ Class[w] = "interactive" => gateLease = w /\ permit[w].owner = ownerGen
       /\ Class[w] = "human_raw" => permit[w].owner = ownerGen
       /\ Class[w] \in {"system_probe", "self_test_probe"} => ~probeQuiet
       /\ Class[w] = "system_probe" => permit[w].login >= loginFloor

Probe(w) == Class[w] \in {"system_probe", "self_test_probe"}

------------------------------------------------------------------------------
(* send_bytes()                                                            *)

\* The operation takes its permit; it may send much later.
Issue(w) ==
  /\ pc[w] = "idle"
  /\ pc' = [pc EXCEPT ![w] = "permitted"]
  /\ permit' = [permit EXCEPT ![w] = [gen |-> gateGen, owner |-> ownerGen,
                                           login |-> loginFloor]]
  /\ UNCHANGED <<conf, outcome, sends, lockVars, gateVars, drainVars, walBad, lineVars>>

\* The checks under _write_lock and _state_lock: a flash writer is only
\* stopped by the freeze, another one by any reason.
PreCheck(w) ==
  /\ port
  /\ ~frozen
  /\ Class[w] = "flash" \/ Authorised(w)
  /\ ~(Probe(w) /\ walBad)

\* Take the write lock; the payload is in flight from here on.
SendBegin(w) ==
  /\ pc[w] = "permitted"
  /\ sends[w] < MaxSends
  /\ wlock = None
  /\ PreCheck(w)
  /\ wlock' = w
  /\ pc' = [pc EXCEPT ![w] = "auth"]
  /\ sends' = [sends EXCEPT ![w] = @ + 1]
  /\ conf' = [conf EXCEPT ![w] = 0]
  /\ outcome' = [outcome EXCEPT ![w] = "none"]
  /\ UNCHANGED <<permit, fence, gateVars, drainVars, walBad, lineVars>>

\* Rejected before anything was submitted: the caller gets an error.
SendReject(w) ==
  /\ pc[w] = "permitted"
  /\ wlock = None
  /\ ~PreCheck(w)
  /\ pc' = [pc EXCEPT ![w] = "idle"]
  /\ UNCHANGED <<permit, conf, outcome, sends, lockVars, gateVars, drainVars, walBad, lineVars>>

\* _submit_guard: the fence is taken and the permit holds inside it.
SubmitEnter(w) ==
  /\ pc[w] = "auth"
  /\ fence = None
  /\ conf[w] < PayloadLen
  /\ ~frozen
  /\ Authorised(w)
  /\ ~(Probe(w) /\ walBad)
  /\ fence' = w
  /\ pc' = [pc EXCEPT ![w] = "write"]
  /\ UNCHANGED <<permit, conf, outcome, sends, wlock, gateVars, drainVars, walBad, lineVars>>

Ended(w, how) ==
  /\ pc' = [pc EXCEPT ![w] = "record"]
  /\ outcome' = [outcome EXCEPT ![w] = how]

\* Everything was written, the drain cancelled the loop between two OS writes,
\* or the guard refused the next one.
SubmitEnd(w) ==
  /\ pc[w] = "auth"
  /\ \/ /\ conf[w] = PayloadLen \/ draining
        /\ Ended(w, "completed")
     \/ /\ conf[w] < PayloadLen
        /\ fence = None
        /\ frozen \/ ~Authorised(w) \/ (Probe(w) /\ walBad)
        /\ Ended(w, IF conf[w] = 0 THEN "not_submitted" ELSE "completed")
  /\ UNCHANGED <<permit, conf, sends, lockVars, gateVars, drainVars, walBad, lineVars>>

\* The OS takes n bytes (none: EAGAIN) and the fence is released.
Write(w, n) ==
  /\ pc[w] = "write"
  /\ conf[w] + n <= PayloadLen
  /\ conf' = [conf EXCEPT ![w] = @ + n]
  /\ wire' = [wire EXCEPT ![w] = @ + n]
  /\ fence' = None
  /\ pc' = [pc EXCEPT ![w] = "auth"]
  /\ UNCHANGED <<permit, outcome, sends, wlock, gateVars, drainVars, walBad,
                 logged, lost, unsure>>

\* POSIX: an error ends the payload with what was confirmed before.
WriteError(w) ==
  /\ pc[w] = "write"
  /\ Ended(w, "completed")
  /\ fence' = None
  /\ UNCHANGED <<permit, conf, sends, wlock, gateVars, drainVars, walBad, lineVars>>

\* pyserial: after a timeout or an error nobody knows how much was sent.
WriteUnknown(w, n) ==
  /\ pc[w] = "write"
  /\ conf[w] + n <= PayloadLen
  /\ wire' = [wire EXCEPT ![w] = @ + n]
  /\ Ended(w, "unknown")
  /\ fence' = None
  /\ UNCHANGED <<permit, conf, sends, wlock, gateVars, drainVars, walBad,
                 logged, lost, unsure>>

\* Mutant: only complete payloads are recorded.
RecordWhole(w) ==
  /\ pc[w] = "record"
  /\ logged' = [logged EXCEPT ![w] = IF conf[w] = PayloadLen THEN @ + conf[w] ELSE @]
  /\ unsure' = IF outcome[w] = "unknown" THEN unsure \cup {w} ELSE unsure
  /\ pc' = [pc EXCEPT ![w] = "release"]
  /\ UNCHANGED <<permit, conf, outcome, sends, lockVars, gateVars, drainVars,
                 walBad, wire, lost>>

\* The WAL gets a TX record of the confirmed bytes and a META record when the
\* outcome is unknown; a record that was lost is noted for the receipt while
\* a drain is pending.
Record(w) ==
  /\ pc[w] = "record"
  /\ logged' = [logged EXCEPT ![w] = @ + conf[w]]
  /\ unsure' = IF outcome[w] = "unknown" THEN unsure \cup {w} ELSE unsure
  /\ pc' = [pc EXCEPT ![w] = "release"]
  /\ UNCHANGED <<permit, conf, outcome, sends, lockVars, gateVars, drainVars,
                 walBad, wire, lost>>

RecordLost(w) ==
  /\ pc[w] = "record"
  /\ conf[w] > 0 \/ outcome[w] = "unknown"
  /\ lost' = lost \cup {w}
  /\ unrecorded' = IF pending THEN unrecorded \cup {w} ELSE unrecorded
  /\ pc' = [pc EXCEPT ![w] = "release"]
  /\ UNCHANGED <<permit, conf, outcome, sends, lockVars, gateVars, frozen, frz,
                 draining, pending, token, result, receipt, port, walBad, wire, logged, unsure>>

\* The drain that began meanwhile learns the final result; the write lock is
\* released.
Release(w) ==
  /\ pc[w] = "release"
  /\ result' = IF token = w THEN [outcome |-> outcome[w], conf |-> conf[w]] ELSE result
  /\ wlock' = None
  /\ pc' = [pc EXCEPT ![w] = "permitted"]
  /\ UNCHANGED <<permit, conf, outcome, sends, fence, gateVars, frozen, frz,
                 draining, pending, token, unrecorded, receipt, port, walBad, lineVars>>

------------------------------------------------------------------------------
(* The gate, revocation, flash mode                                        *)

\* set_tx_gate: a new bridge generation, quiet, and the interactive owner.
SetTxGate(gen, quiet, owner) ==
  /\ fence = None
  /\ gen \in {gateGen, gateGen + 1}
  /\ gen <= MaxGen
  /\ gateGen' = gen
  /\ gateQuiet' = quiet
  /\ gateLease' = owner
  /\ UNCHANGED <<sendVars, lockVars, probeQuiet, loginFloor, ownerGen, revoked, flash,
                 drainVars, walBad, lineVars>>

\* set_probe_gate: a quiet deadline for probes, and a floor for the login
\* generation of their permits that only ever rises.
SetProbeGate(quiet, floor) ==
  /\ fence = None
  /\ probeQuiet' = quiet
  /\ loginFloor' = IF floor > loginFloor THEN floor ELSE loginFloor
  /\ UNCHANGED <<sendVars, lockVars, gateGen, gateQuiet, gateLease, ownerGen, revoked,
                 flash, drainVars, walBad, lineVars>>

\* The quiet deadline passes.
QuietExpires ==
  /\ probeQuiet
  /\ probeQuiet' = FALSE
  /\ UNCHANGED <<sendVars, lockVars, gateGen, gateQuiet, gateLease, loginFloor, ownerGen,
                 revoked, flash, drainVars, walBad, lineVars>>

\* Mutant: the owner generation moves under an OS write.
InvalidateDeferredUnfenced ==
  /\ ownerGen < MaxGen
  /\ ownerGen' = ownerGen + 1
  /\ UNCHANGED <<sendVars, lockVars, gateGen, gateQuiet, gateLease, probeQuiet,
                 loginFloor, revoked, flash, drainVars, walBad, lineVars>>

\* invalidate_deferred: a new owner generation.
InvalidateDeferred ==
  /\ fence = None
  /\ ownerGen < MaxGen
  /\ ownerGen' = ownerGen + 1
  /\ UNCHANGED <<sendVars, lockVars, gateGen, gateQuiet, gateLease, probeQuiet,
                 loginFloor, revoked, flash, drainVars, walBad, lineVars>>

\* The ledger without w, which occurs in it at most once.
Without(ledger, w) ==
  IF \E i \in 1 .. Len(ledger) : ledger[i] = w
  THEN LET i == CHOOSE k \in 1 .. Len(ledger) : ledger[k] = w
       IN SubSeq(ledger, 1, i - 1) \o SubSeq(ledger, i + 1, Len(ledger))
  ELSE ledger

\* w becomes the most recent; the ledger keeps the LedgerMax most recent ops.
Pushed(ledger, w) ==
  LET all == Append(Without(ledger, w), w)
  IN IF Len(all) > LedgerMax THEN Tail(all) ELSE all

\* revoke_ops, called when the command of w is canceled.
Revoke(w) ==
  /\ fence = None
  /\ revoked' = Pushed(revoked, w)
  /\ UNCHANGED <<sendVars, lockVars, gateOnly, flash, drainVars, walBad, lineVars>>

\* Mutant: flash mode changes in the middle of a payload.
SetFlashModeAnywhere(on) ==
  /\ fence = None
  /\ flash' = on
  /\ UNCHANGED <<sendVars, lockVars, gateOnly, revoked, drainVars, walBad, lineVars>>

\* set_flash_mode waits for the write lock too: never inside a payload.
SetFlashMode(on) ==
  /\ wlock = None
  /\ fence = None
  /\ flash' = on
  /\ UNCHANGED <<sendVars, lockVars, gateOnly, revoked, drainVars, walBad, lineVars>>

------------------------------------------------------------------------------
(* freeze_tx(), thaw_tx(), begin_drain(), finish_drain()                   *)

FreezeBegin ==
  /\ frz # "wait"
  /\ frozen' = TRUE
  /\ frz' = "wait"
  /\ UNCHANGED <<sendVars, lockVars, gateVars, drainOnly, receipt, port, walBad, lineVars>>

\* Mutant: freeze_tx returns True without having had the fence.
FreezeDoneAtOnce ==
  /\ frz = "wait"
  /\ frz' = "ok"
  /\ UNCHANGED <<sendVars, lockVars, gateVars, frozen, drainOnly, receipt, port, walBad,
                 lineVars>>

\* The fence was acquired once: freeze_tx returns True.
FreezeDone ==
  /\ frz = "wait"
  /\ fence = None
  /\ frz' = "ok"
  /\ UNCHANGED <<sendVars, lockVars, gateVars, frozen, drainOnly, receipt, port, walBad,
                 lineVars>>

\* freeze_tx returned False because an OS write held the fence, or another
\* bridge did: the manager thaws what it froze.
Thaw ==
  /\ frz # "off"
  /\ frz' = "off"
  /\ frozen' = draining
  /\ UNCHANGED <<sendVars, lockVars, gateVars, drainOnly, receipt, port, walBad, lineVars>>

\* begin_drain waits for the fence only so long; either way it freezes the
\* bridge, cancels the write loop and notes the payload in flight.  Without
\* the fence the owner generation is left to a thread that waits for it.
BeginDrain ==
  /\ ~draining
  /\ frozen' = TRUE
  /\ draining' = TRUE
  /\ pending' = TRUE
  /\ token' = wlock
  /\ result' = IF wlock = None THEN NoResult ELSE InFlight
  /\ unrecorded' = {}
  /\ ownerGen' = IF fence = None THEN ownerGen + 1 ELSE ownerGen
  /\ UNCHANGED <<sendVars, lockVars, gateGen, gateQuiet, gateLease, probeQuiet, loginFloor,
                 revoked, flash, frz, receipt, port, walBad, lineVars>>

\* Mutant: the receipt does not wait for the writer.
CompleteDrainEarly(closed) ==
  /\ draining
  /\ ~receipt.made
  /\ port' = FALSE
  /\ receipt' = [made |-> TRUE, handleClosed |-> closed,
                 inFlight |-> result, unrecorded |-> unrecorded]
  /\ pending' = ~closed
  /\ UNCHANGED <<sendVars, lockVars, gateVars, frozen, frz, draining, token, result,
                 unrecorded, walBad, lineVars>>

\* _complete_drain, in finish_drain or in the background thread: the write
\* lock is free, the port is closed and the receipt published.
CompleteDrain(closed) ==
  /\ draining
  /\ ~receipt.made
  /\ wlock = None
  /\ port' = FALSE
  /\ receipt' = [made |-> TRUE, handleClosed |-> closed,
                 inFlight |-> result, unrecorded |-> unrecorded]
  /\ pending' = ~closed
  /\ UNCHANGED <<sendVars, lockVars, gateVars, frozen, frz, draining, token, result,
                 unrecorded, walBad, lineVars>>

\* The WAL becomes unwritable, or writable again.
WalFlips ==
  /\ walBad' = ~walBad
  /\ UNCHANGED <<sendVars, lockVars, gateVars, drainVars, lineVars>>

------------------------------------------------------------------------------
(* The specification                                                       *)

WriterStep(w) ==
  \/ SubmitEnter(w)
  \/ SubmitEnd(w)
  \/ \E n \in 0 .. PayloadLen : Write(w, n) \/ WriteUnknown(w, n)
  \/ WriteError(w)
  \/ Record(w)
  \/ RecordLost(w)
  \/ Release(w)

\* The writers of some classes: what concerns a class none of them has is
\* left alone.
Of(classes) == {w \in Writer : Class[w] \in classes}
Switch(classes) == IF Of(classes) = {} THEN {FALSE} ELSE BOOLEAN

GateStep ==
  \/ \E gen \in 0 .. MaxGen, quiet \in Switch({"agent"}),
        owner \in Of({"interactive"}) \cup {None} :
       SetTxGate(gen, quiet, owner)
  \/ \E quiet \in BOOLEAN, floor \in 0 .. MaxGen :
       Of({"system_probe", "self_test_probe"}) # {} /\ SetProbeGate(quiet, floor)
  \/ QuietExpires
  \/ \E on \in BOOLEAN : Of({"flash"}) # {} /\ SetFlashMode(on)
  \/ \E w \in Writer \ Of({"flash"}) : Revoke(w)
  \/ Of({"interactive", "human_raw"}) # {} /\ InvalidateDeferred
  \/ Of({"system_probe", "self_test_probe"}) # {} /\ WalFlips

Next ==
  \/ \E w \in Writer : Issue(w) \/ SendBegin(w) \/ SendReject(w) \/ WriterStep(w)
  \/ GateStep
  \/ FreezeBegin
  \/ FreezeDone
  \/ Thaw
  \/ BeginDrain
  \/ \E closed \in BOOLEAN : CompleteDrain(closed)

Spec == Init /\ [][Next]_vars

------------------------------------------------------------------------------
(* Properties                                                              *)

Result == [outcome : {"none", "in_flight", "not_submitted", "completed", "unknown"},
           conf : 0 .. PayloadLen]
Receipt == [made : BOOLEAN, handleClosed : BOOLEAN, inFlight : Result,
            unrecorded : SUBSET Writer]

SendTypes ==
  /\ pc \in [Writer -> {"idle", "permitted", "auth", "write", "record", "release"}]
  /\ permit \in [Writer -> [gen : Nat, owner : Nat, login : Nat]]
  /\ conf \in [Writer -> 0 .. PayloadLen]
  /\ outcome \in [Writer -> {"none", "not_submitted", "completed", "unknown"}]
  /\ sends \in [Writer -> Nat]

LockTypes ==
  /\ wlock \in Writer \cup {None}
  /\ fence \in Writer \cup {None}

GateTypes ==
  /\ gateGen \in Nat
  /\ gateQuiet \in BOOLEAN
  /\ gateLease \in Writer \cup {None}
  /\ probeQuiet \in BOOLEAN
  /\ loginFloor \in Nat
  /\ ownerGen \in Nat
  /\ revoked \in Seq(Writer)
  /\ flash \in BOOLEAN

DrainTypes ==
  /\ frozen \in BOOLEAN
  /\ frz \in {"off", "wait", "ok"}
  /\ draining \in BOOLEAN
  /\ pending \in BOOLEAN
  /\ token \in Writer \cup {None}
  /\ result \in Result
  /\ unrecorded \subseteq Writer
  /\ receipt \in Receipt
  /\ port \in BOOLEAN

LineTypes ==
  /\ wire \in [Writer -> Nat]
  /\ logged \in [Writer -> Nat]
  /\ lost \subseteq Writer
  /\ unsure \subseteq Writer

\* The types of the bridge's state; in particular no payload confirms more
\* bytes than it has.
TypeOK ==
  /\ SendTypes
  /\ LockTypes
  /\ GateTypes
  /\ DrainTypes
  /\ walBad \in BOOLEAN
  /\ LineTypes

\* No byte reaches the line at an instant at which the gate forbids it: once
\* revoke_ops, set_tx_gate, set_probe_gate, invalidate_deferred or
\* set_flash_mode has returned, what it forbids is over, also for a payload
\* that was half written.
WritesAreAuthorised ==
  [][\A w \in Writer : wire'[w] # wire[w] => Authorised(w)]_vars

\* After freeze_tx returned True the line is silent, whoever was writing when
\* it was called, until the freeze is thawed.
FreezeMeansSilence == [][frz = "ok" => wire' = wire]_vars

\* After the drain's receipt the line is silent for ever.
ReceiptMeansSilence == [][receipt.made => wire' = wire]_vars

\* The receipt gives the final result of the payload that was in flight when
\* the drain began, never the placeholder.
ReceiptIsFinal ==
  receipt.made =>
    /\ receipt.inFlight.outcome # "in_flight"
    /\ token # None =>
         receipt.inFlight.conf = conf[token]

\* Flash mode changes only between payloads: a flasher's byte stream and a
\* command never cut into each other.
FlashNeverSplitsPayload ==
  \A w \in Writer :
    pc[w] \in {"auth", "write"} /\ conf[w] > 0 => (flash <=> Class[w] = "flash")

\* One payload at a time: the bytes of two operations never mix on the line
\* (_write_lock is held from the permit check to the WAL record).
PayloadsDoNotInterleave ==
  \A v, w \in Writer :
    pc[v] \notin {"idle", "permitted"} /\ pc[w] \notin {"idle", "permitted"} => v = w

\* Between payloads the WAL accounts for every byte on the line: it is in a TX
\* record, or the WAL says the outcome is unknown, or a record was lost.
WalAccountsForLine ==
  \A w \in Writer :
    pc[w] \in {"idle", "permitted"} =>
      wire[w] = logged[w] \/ w \in unsure \/ w \in lost
==============================================================================
