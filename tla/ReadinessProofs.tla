--------------------------- MODULE ReadinessProofs ---------------------------
(***************************************************************************)
(* Why the fence of the bridge closes with the session's quiet window, why *)
(* nothing passes it then, why only the newest login run writes and an     *)
(* agent waits while a board owes a confirmation, and who takes a session  *)
(* out of RECOVERING, for any number of recovery loops and         *)
(* attempts.                                                               *)
(***************************************************************************)
EXTENDS Readiness, TLAPS

\* The attach worker has a bridge; it probes over it and the fence is its own;
\* a worker that has nothing to probe.
Opened == {"opened", "begun", "sent", "again", "refused", "raised", "ok", "failed", "logged_out"}
Fenced == {"begun", "sent", "again"}
Aside == {"idle", "leaving"}

\* What the state is made of.
Boots == [quiet : {"off", "on", "over"}, pending : BOOLEAN, late : BOOLEAN,
          attempts : 0..ReconfirmMax, failed : BOOLEAN, evidence : BOOLEAN]
Gates == [quiet : BOOLEAN, tx : BOOLEAN, login : Probers \cup {"none"}]
Reprobes == [attempts : 0..ReprobeMax, exhausted : BOOLEAN, due : BOOLEAN]
States == {"DETACHED", "ATTACHING", "ATTACHED", "READY", "RECOVERING", "RELEASED"}

KindsTyped ==
  /\ setup \in Setups
  /\ state \in States
  /\ err \in {"none", "prompt", "other"}
  /\ bridge \in {"none", "open", "up"}
  /\ drain \in {"none", "clear", "io_error", "release"}
  /\ lock \in {"none", "worker", "manual"}
FlagsTyped == autoLogin \in BOOLEAN /\ fg \in BOOLEAN /\ held \in BOOLEAN
FenceTyped == login \in Probers \cup {"none"} /\ gate \in Gates
ReprobeTyped == reprobe \in Reprobes
ThreadsTyped == pc \in [Threads -> Places] /\ on \in [Threads -> BOOLEAN]

\* Where the threads, the bridge and the drain are.
PlacesHold ==
  /\ \A t \in Threads : on[t] /\ t # "attach" => Up
  /\ pc["attach"] \in Opened => bridge = "open"
  /\ drain # "none" => Up
  /\ state = "DETACHED" => ~Up

\* A confirmation has attempts left; a window without one has given it up.
BootOK(b) ==
  /\ b \in Boots
  /\ b.pending => b.attempts < ReconfirmMax
  /\ Quiet(b) => b.pending \/ b.failed
BootHolds == BootOK(boot)

\* The fence of the bridge is the session's, also while the attach worker
\* probes over a bridge that is not the session's yet.
GateHolds ==
  /\ Up \/ pc["attach"] \in Fenced => gate.quiet = Quiet(boot) /\ gate.login = login
  /\ Up => (Gated(boot) => gate.tx) /\ (gate.tx => Gated(boot) \/ boot.failed)

\* Only a worker that has attempts left probes.
CountHolds == on["worker"] /\ pc["worker"] \notin Aside => reprobe.attempts < ReprobeMax

Inv ==
  /\ KindsTyped /\ FlagsTyped /\ FenceTyped /\ ReprobeTyped /\ ThreadsTyped
  /\ PlacesHold /\ BootHolds /\ GateHolds /\ CountHolds /\ ReadyHasBridge

-----------------------------------------------------------------------------
\* The parts of the invariant give the state its types.
LEMMA Types ==
  Inv => TypeOK
BY Zenon DEF Inv, TypeOK, KindsTyped, FlagsTyped, BootHolds, BootOK, Boots, FenceTyped, Gates,
   ReprobeTyped, Reprobes, ThreadsTyped, States

\* What the operations on a confirmation leave.
LEMMA BootOps ==
  ASSUME NEW b, BootOK(b)
  PROVE  /\ BootOK(Failed(b)) /\ BootOK(Expired(b)) /\ BootOK(Armed(b)) /\ BootOK(Cleared(b))
         /\ BootOK([b EXCEPT !.evidence = FALSE]) /\ BootOK([b EXCEPT !.evidence = TRUE])
         /\ BootOK([b EXCEPT !.late = TRUE]) /\ BootOK([b EXCEPT !.quiet = "over"])
         /\ b.pending => BootOK(Expired([b EXCEPT !.attempts = @ + 1]))
         /\ BootOK(NoBoot)
<1>1. NoBoot \in Boots /\ ~NoBoot.pending /\ NoBoot.quiet = "off" /\ NoBoot.attempts = 0
  BY ReadinessAssumption DEF Boots, NoBoot
<1>2. ASSUME NEW q \in {"off", "on", "over"}, NEW p \in BOOLEAN
      PROVE  /\ BootOK([NoBoot EXCEPT !.quiet = q, !.failed = TRUE])
             /\ [NoBoot EXCEPT !.quiet = q, !.pending = TRUE, !.evidence = p] \in Boots
             /\ [NoBoot EXCEPT !.quiet = q, !.pending = TRUE, !.evidence = p].pending
             /\ [NoBoot EXCEPT !.quiet = q, !.pending = TRUE, !.evidence = p].attempts = 0
  <2> DEFINE f == [NoBoot EXCEPT !.quiet = q, !.failed = TRUE]
             c == [NoBoot EXCEPT !.quiet = q, !.pending = TRUE, !.evidence = p]
  <2>1. f \in Boots /\ ~f.pending /\ f.failed
    BY <1>1 DEF Boots
  <2>2. c \in Boots /\ c.pending /\ c.attempts = 0
    BY <1>1 DEF Boots
  <2> HIDE DEF f, c
  <2>3. BootOK(f)
    BY <2>1 DEF BootOK
  <2> QED BY <2>2, <2>3 DEF f, c
<1>3. ASSUME NEW c \in Boots, c.pending => c.attempts <= ReconfirmMax,
             Quiet(c) => c.pending \/ c.failed
      PROVE  BootOK(Failed(c)) /\ BootOK(Expired(c))
  <2>1. BootOK(Failed(c))
    BY <1>2 DEF Failed, Boots
  <2>2. CASE Expired(c) = Failed(c)
    BY <2>1, <2>2
  <2>3. CASE Expired(c) = c /\ ~(c.pending /\ c.attempts >= ReconfirmMax)
    <3>1. BootOK(c)
      BY <1>3, <2>3, ReadinessAssumption DEF BootOK, Boots
    <3> QED BY <2>1, <2>3, <3>1
  <2> QED BY <2>1, <2>2, <2>3 DEF Expired
<1>4. BootOK(Armed(b))
  <2>1. CASE b.pending
    <3> DEFINE c == [b EXCEPT !.quiet = "on"]
    <3>1. c \in Boots /\ c.pending /\ c.attempts = b.attempts
      BY <2>1 DEF BootOK, Boots
    <3>2. b.attempts <= ReconfirmMax
      BY <2>1, ReadinessAssumption DEF BootOK, Boots
    <3>3. BootOK(Expired(c))
      BY <1>3, <3>1, <3>2
    <3> QED BY <2>1, <3>3 DEF Armed
  <2>2. CASE ~b.pending
    <3>1. 0 <= ReconfirmMax /\ b.evidence \in BOOLEAN
      BY ReadinessAssumption DEF BootOK, Boots
    <3>2. BootOK(Expired([NoBoot EXCEPT !.quiet = "on", !.pending = TRUE, !.evidence = b.evidence]))
      BY <1>2, <1>3, <3>1
    <3> QED BY <2>2, <3>2 DEF Armed
  <2> QED BY <2>1, <2>2
<1>5. BootOK(Failed(b)) /\ BootOK(Expired(b)) /\ BootOK(Cleared(b))
  BY <1>3, ReadinessAssumption DEF Cleared, BootOK, Boots, Quiet
<1>6. BootOK([b EXCEPT !.evidence = FALSE]) /\ BootOK([b EXCEPT !.evidence = TRUE])
  BY DEF BootOK, Boots, Quiet
<1>7. BootOK([b EXCEPT !.late = TRUE]) /\ BootOK([b EXCEPT !.quiet = "over"])
  BY DEF BootOK, Boots, Quiet
<1>8. b.pending => BootOK(Expired([b EXCEPT !.attempts = @ + 1]))
  BY <1>3, ReadinessAssumption DEF BootOK, Boots, Quiet
<1> QED BY <1>1, <1>4, <1>5, <1>6, <1>7, <1>8 DEF BootOK, Quiet

\* A confirmation that is looked at goes on or is given up; the window stays.
GivenUp(b, c) ==
  /\ Quiet(c) = Quiet(b)
  /\ c.pending = b.pending \/ (~c.pending /\ c.failed)
  /\ b.failed => c.failed
LEMMA LookedAt ==
  ASSUME NEW b, BootOK(b)
  PROVE  GivenUp(b, Failed(b)) /\ GivenUp(b, Expired(b)) /\ GivenUp(b, b)
BY DEF GivenUp, BootOK, Boots, Quiet, Failed, Expired, NoBoot

\* What is pushed to the bridge is what the session knows.
LEMMA PushedTyped ==
  ASSUME FenceTyped, NEW b, BootOK(b), NEW l \in Probers \cup {"none"}
  PROVE  /\ Pushed(b, l) \in Gates /\ TxPushed(b) \in Gates
         /\ [gate EXCEPT !.quiet = Quiet(b), !.login = l] \in Gates
         /\ [gate EXCEPT !.quiet = FALSE] \in Gates
         /\ NoGate \in Gates
<1>1. b.pending \in BOOLEAN
  BY DEF BootOK, Boots
<1>2. Gated(b) \in BOOLEAN /\ Quiet(b) \in BOOLEAN
  BY Zenon, <1>1 DEF Gated, Quiet
<1>3. NoGate \in Gates
  BY DEF NoGate, Gates
<1>4. \A q, x \in BOOLEAN : [quiet |-> q, tx |-> x, login |-> l] \in Gates
  BY DEF Gates
<1>5. \A q \in BOOLEAN : /\ [gate EXCEPT !.quiet = q, !.login = l] \in Gates
                         /\ [gate EXCEPT !.quiet = q] \in Gates /\ [gate EXCEPT !.tx = q] \in Gates
  BY DEF FenceTyped, Gates
<1>6. Pushed(b, l) \in Gates /\ TxPushed(b) \in Gates
  BY <1>2, <1>4, <1>5 DEF Pushed, TxPushed, FenceTyped
<1> QED BY <1>2, <1>3, <1>5, <1>6

\* The fence is told the session's window: it agrees.
LEMMA Told ==
  ASSUME NEW b, BootOK(b), FenceTyped, boot' = b, gate' = Pushed(b, login'),
         login' \in Probers \cup {"none"},
         Up' \/ pc'["attach"] \in Fenced => bridge # "none"
  PROVE  BootHolds' /\ FenceTyped' /\ GateHolds'
<1>1. BootHolds' /\ FenceTyped'
  BY PushedTyped DEF BootHolds, FenceTyped, BootOK, Quiet
<1>2. GateHolds'
  BY DEF GateHolds, Pushed, Gated, Quiet
<1> QED BY <1>1, <1>2

\* It is told only whether agents are held back, when that changed.
LEMMA Looked ==
  ASSUME NEW b, BootOK(b), GivenUp(boot, b), FenceTyped, BootHolds, GateHolds, Expire(b),
         login' = login, Up' => Up, pc'["attach"] \in Fenced => Up \/ pc["attach"] \in Fenced
  PROVE  BootHolds' /\ FenceTyped' /\ GateHolds'
<1>1. boot' = b /\ gate' = TxPushed(b)
  BY DEF Expire
<1>2. BootHolds' /\ FenceTyped'
  BY <1>1, PushedTyped DEF BootHolds, FenceTyped, BootOK, Quiet
<1>3. gate'.quiet = gate.quiet /\ gate'.login = gate.login /\ Quiet(b) = Quiet(boot)
  BY <1>1 DEF TxPushed, FenceTyped, Gates, GivenUp
<1>4. Up => gate'.tx = (IF b.pending = boot.pending THEN gate.tx ELSE Gated(b))
  BY <1>1 DEF TxPushed, FenceTyped, Gates, Up
<1>5. Up => (Gated(b) => gate'.tx) /\ (gate'.tx => Gated(b) \/ b.failed)
  BY <1>3, <1>4 DEF GateHolds, Gated, GivenUp
<1> QED BY <1>1, <1>2, <1>3, <1>5 DEF GateHolds, Quiet, Gated

\* The window, its copy and who wrote last stay as they are.
Hushed == UNCHANGED <<boot, login, gate>>
LEMMA Hush ==
  ASSUME FenceTyped, BootHolds, GateHolds, Hushed, Up' => Up,
         pc'["attach"] \in Fenced => Up \/ pc["attach"] \in Fenced
  PROVE  BootHolds' /\ FenceTyped' /\ GateHolds'
BY DEF Hushed, FenceTyped, BootHolds, BootOK, GateHolds, Up, Quiet, Gated

\* What the operations on the count of probes leave.
LEMMA ReprobeOps ==
  ASSUME ReprobeTyped
  PROVE  /\ Fresh \in Reprobes /\ Fresh.attempts = 0
         /\ \A x \in BOOLEAN : /\ [reprobe EXCEPT !.due = x] \in Reprobes
                               /\ [reprobe EXCEPT !.due = x].attempts = reprobe.attempts
                               /\ [reprobe EXCEPT !.exhausted = x] \in Reprobes
                               /\ [reprobe EXCEPT !.exhausted = x].attempts = reprobe.attempts
         /\ reprobe.attempts < ReprobeMax =>
              Recorded \in Reprobes /\ [Recorded EXCEPT !.exhausted = TRUE] \in Reprobes
<1>1. /\ reprobe.attempts \in 0..ReprobeMax /\ ReprobeMax \in Nat \ {0}
      /\ reprobe.exhausted \in BOOLEAN
  BY ReadinessAssumption DEF ReprobeTyped, Reprobes
<1>2. Fresh \in Reprobes /\ Fresh.attempts = 0
  BY <1>1 DEF Fresh, Reprobes
<1>3. ASSUME NEW x \in BOOLEAN
      PROVE  /\ [reprobe EXCEPT !.due = x] \in Reprobes
             /\ [reprobe EXCEPT !.due = x].attempts = reprobe.attempts
             /\ [reprobe EXCEPT !.exhausted = x] \in Reprobes
             /\ [reprobe EXCEPT !.exhausted = x].attempts = reprobe.attempts
  BY DEF ReprobeTyped, Reprobes
<1>4. ASSUME reprobe.attempts < ReprobeMax
      PROVE  Recorded \in Reprobes /\ [Recorded EXCEPT !.exhausted = TRUE] \in Reprobes
  <2>1. reprobe.attempts + 1 \in 0..ReprobeMax
    BY <1>1, <1>4
  <2>2. (reprobe.exhausted \/ reprobe.attempts + 1 >= ReprobeMax) \in BOOLEAN
    OBVIOUS
  <2>3. Recorded \in Reprobes
    BY <2>1, <2>2 DEF Recorded, Reprobes
  <2> QED BY <2>3 DEF Reprobes
<1> QED BY <1>2, <1>3, <1>4

\* A thread goes on.
LEMMA GoTyped ==
  ASSUME ThreadsTyped, NEW t \in Threads, NEW l \in Places, Go(t, l) \/ GoOn(t, l)
  PROVE  ThreadsTyped'
<1>1. (on[t] /\ l \notin Resting) \in BOOLEAN
  OBVIOUS
<1>2. pc' \in [Threads -> Places] /\ on' \in [Threads -> BOOLEAN]
  BY <1>1 DEF ThreadsTyped, Go, GoOn
<1> QED BY <1>2 DEF ThreadsTyped

\* A step that only moves a thread: nobody goes on over a bridge that is gone,
\* and nobody gets further than he was.
Moved ==
  /\ ThreadsTyped'
  /\ \A t \in Threads : on'[t] /\ t # "attach" => Up
  /\ pc'["attach"] \in Opened => pc["attach"] \in Opened
  /\ pc'["attach"] \in Fenced => pc["attach"] \in Fenced
  /\ on'["worker"] /\ pc'["worker"] \notin Aside => on["worker"] /\ pc["worker"] \notin Aside
\* Threads that move over a bridge that stays keep their places.
LEMMA Walk ==
  ASSUME Inv, Moved, UNCHANGED <<bridge, drain>>, state' = "DETACHED" => ~Up,
         ReprobeTyped', reprobe'.attempts <= reprobe.attempts
  PROVE  ThreadsTyped' /\ PlacesHold' /\ CountHolds'
<1>1. /\ reprobe.attempts \in 0..ReprobeMax /\ reprobe'.attempts \in 0..ReprobeMax
      /\ ReprobeMax \in Nat
  BY ReadinessAssumption DEF Inv, ReprobeTyped, Reprobes
<1> QED BY <1>1 DEF Inv, Moved, PlacesHold, CountHolds, Up

\* Steps that move a thread, and may take or give a lock, and do nothing else.
LEMMA OnlyMoved ==
  ASSUME Inv, Moved, lock' \in {"none", "worker", "manual"}, fg' \in BOOLEAN, held' \in BOOLEAN,
         UNCHANGED <<setup, state, err, bridge, drain, autoLogin, boot, login, gate, reprobe>>
  PROVE  Inv'
<1>1. BootHolds' /\ FenceTyped' /\ GateHolds'
  BY Hush DEF Inv, Hushed, Up, Moved
<1>2. ReprobeTyped' /\ reprobe'.attempts <= reprobe.attempts
  BY ReadinessAssumption DEF Inv, ReprobeTyped, Reprobes
<1>3. ThreadsTyped' /\ PlacesHold' /\ CountHolds'
  BY <1>2, Walk DEF Inv, PlacesHold
<1>4. KindsTyped' /\ ReadyHasBridge'
  BY DEF Inv, KindsTyped, ReadyHasBridge, Up
<1>5. FlagsTyped'
  BY Zenon DEF Inv, FlagsTyped
<1> QED BY <1>1, <1>2, <1>3, <1>4, <1>5 DEF Inv

\* The window stays, and so does its copy; what the board still has to show
\* may change.
LEMMA Still ==
  ASSUME FenceTyped, GateHolds, NEW b, BootOK(b), boot' = b, b.quiet = boot.quiet,
         b.pending = boot.pending, b.failed = boot.failed, UNCHANGED <<login, gate>>,
         Up' => Up, pc'["attach"] \in Fenced => Up \/ pc["attach"] \in Fenced
  PROVE  BootHolds' /\ FenceTyped' /\ GateHolds'
<1>1. BootHolds' /\ FenceTyped'
  BY DEF BootHolds, FenceTyped, BootOK, Quiet
<1>2. Quiet(b) = Quiet(boot) /\ (Gated(b) <=> Gated(boot))
  BY DEF Quiet, Gated
<1> QED BY <1>1, <1>2 DEF GateHolds, Quiet, Gated

\* What the board showed is noted or forgotten, or a deadline is late.
LEMMA Noted ==
  ASSUME FenceTyped, BootHolds, GateHolds, NEW b, boot' = b,
         b \in {boot, [boot EXCEPT !.evidence = FALSE], [boot EXCEPT !.late = TRUE]},
         UNCHANGED <<login, gate>>,
         Up' => Up, pc'["attach"] \in Fenced => Up \/ pc["attach"] \in Fenced
  PROVE  BootHolds' /\ FenceTyped' /\ GateHolds'
<1>1. BootOK(b)
  BY BootOps DEF BootHolds
<1>2. b.quiet = boot.quiet /\ b.pending = boot.pending /\ b.failed = boot.failed
  BY DEF BootHolds, BootOK, Boots
<1> QED BY <1>1, <1>2, Still

\* A login run takes the fence.
LEMMA Begun ==
  ASSUME FenceTyped, BootHolds, GateHolds, NEW t \in Probers, BeginRun(t), UNCHANGED boot, Up' => Up
  PROVE  BootHolds' /\ FenceTyped' /\ GateHolds'
<1>1. login' = t /\ gate' = [gate EXCEPT !.quiet = Quiet(boot), !.login = t]
  BY DEF BeginRun
<1>2. BootHolds' /\ FenceTyped'
  BY <1>1, PushedTyped DEF BootHolds, FenceTyped, BootOK, Quiet
<1>3. gate'.quiet = Quiet(boot) /\ gate'.login = t /\ gate'.tx = gate.tx
  BY <1>1 DEF FenceTyped, Gates
<1> QED BY <1>1, <1>2, <1>3 DEF GateHolds, Up, Quiet, Gated

\* An attach worker is started, or there is one.
LEMMA SpawnTyped ==
  ASSUME NEW p \in [Threads -> Places], SpawnAttach(p)
  PROVE  pc' \in [Threads -> Places]
BY DEF SpawnAttach, Threads, Fixed, Places

-----------------------------------------------------------------------------
(* Every step keeps the invariant: one lemma for each group of actions.    *)

\* What the board sends.
LEMMA ReceivedKeeps ==
  ASSUME Inv, Received
  PROVE  Inv'
<1>1. CASE RxBanner
  <2>1. BootHolds' /\ FenceTyped' /\ GateHolds'
    BY <1>1, Told, BootOps DEF Inv, BootHolds, Hushed, FenceTyped, KindsTyped, Confirmed,
       RxBanner, Arm, Up, Fenced, Opened, ThreadsTyped, PlacesHold, Threads, Fixed, Probers,
       Keys
  <2>2. /\ KindsTyped' /\ FlagsTyped' /\ ReprobeTyped' /\ ThreadsTyped' /\ PlacesHold'
        /\ CountHolds' /\ ReadyHasBridge'
    BY <1>1 DEF Inv, RxBanner, KindsTyped, FlagsTyped, ReprobeTyped, ThreadsTyped, PlacesHold,
       Up, CountHolds, ReadyHasBridge
  <2> QED
    BY <2>1, <2>2 DEF Inv
<1>2. CASE RxPrompt
  <2>1. BootHolds' /\ FenceTyped' /\ GateHolds'
    BY <1>2, Told, BootOps DEF Inv, BootHolds, Hushed, FenceTyped, KindsTyped, Confirmed,
       RxPrompt, SetBoot, Up, Fenced, Opened, ThreadsTyped, PlacesHold, Threads, Fixed, Probers,
       Keys
  <2>2. /\ KindsTyped' /\ FlagsTyped' /\ ReprobeTyped' /\ ThreadsTyped' /\ PlacesHold'
        /\ CountHolds' /\ ReadyHasBridge'
    BY <1>2 DEF Inv, RxPrompt, KindsTyped, FlagsTyped, ReprobeTyped, ThreadsTyped, PlacesHold,
       Up, CountHolds, ReadyHasBridge
  <2> QED
    BY <2>1, <2>2 DEF Inv
<1> QED
  BY <1>1, <1>2 DEF Received

\* What time does.
LEMMA TimeKeeps ==
  ASSUME Inv, QuietEnds \/ DeadlinePasses \/ EvidenceEnds \/ BackoffEnds
  PROVE  Inv'
<1>1. CASE QuietEnds
  <2>1. BootHolds' /\ FenceTyped' /\ GateHolds'
    <3>1. BootOK(boot')
      BY <1>1, BootOps DEF Inv, BootHolds, QuietEnds
    <3>2. /\ boot'.quiet = "over" /\ boot'.pending = boot.pending
          /\ boot.failed' = boot.failed /\ (Quiet(boot) => boot.pending \/ boot.failed)
      BY <1>1 DEF Inv, BootHolds, BootOK, Boots, QuietEnds
    <3>3. gate' \in Gates /\ gate'.quiet = FALSE /\ gate'.login = gate.login /\ gate'.tx = gate.tx
      BY <1>1 DEF Inv, FenceTyped, Gates, QuietEnds
    <3> QED BY <1>1, <3>1, <3>2, <3>3 DEF Inv, BootHolds, BootOK, FenceTyped, GateHolds,
           Up, Quiet, Gated, QuietEnds
  <2>2. /\ KindsTyped' /\ FlagsTyped' /\ ReprobeTyped' /\ ThreadsTyped' /\ PlacesHold'
        /\ CountHolds' /\ ReadyHasBridge'
    BY <1>1 DEF Inv, QuietEnds, KindsTyped, FlagsTyped, ReprobeTyped, ThreadsTyped, PlacesHold,
       Up, CountHolds, ReadyHasBridge
  <2> QED
    BY <2>1, <2>2 DEF Inv
<1>2. CASE DeadlinePasses
  <2>1. BootHolds' /\ FenceTyped' /\ GateHolds'
    BY <1>2, Noted DEF Inv, DeadlinePasses, Up, Fenced, Opened, ThreadsTyped, PlacesHold,
       Threads, Fixed, Probers, Keys
  <2>2. /\ KindsTyped' /\ FlagsTyped' /\ ReprobeTyped' /\ ThreadsTyped' /\ PlacesHold'
        /\ CountHolds' /\ ReadyHasBridge'
    BY <1>2 DEF Inv, DeadlinePasses, KindsTyped, FlagsTyped, ReprobeTyped, ThreadsTyped,
       PlacesHold, Up, CountHolds, ReadyHasBridge
  <2> QED
    BY <2>1, <2>2 DEF Inv
<1>3. CASE EvidenceEnds
  <2>1. BootHolds' /\ FenceTyped' /\ GateHolds'
    BY <1>3, Noted DEF Inv, EvidenceEnds, Up, Fenced, Opened, ThreadsTyped, PlacesHold, Threads,
       Fixed, Probers, Keys
  <2>2. /\ KindsTyped' /\ FlagsTyped' /\ ReprobeTyped' /\ ThreadsTyped' /\ PlacesHold'
        /\ CountHolds' /\ ReadyHasBridge'
    BY <1>3 DEF Inv, EvidenceEnds, KindsTyped, FlagsTyped, ReprobeTyped, ThreadsTyped,
       PlacesHold, Up, CountHolds, ReadyHasBridge
  <2> QED
    BY <2>1, <2>2 DEF Inv
<1>4. CASE BackoffEnds
  <2>1. ReprobeTyped'
    BY <1>4, ReprobeOps DEF Inv, ReprobeTyped, CountHolds, PlacesHold, BackoffEnds, Up
  <2>2. CountHolds'
    BY <1>4, ReprobeOps, ReadinessAssumption DEF Inv, CountHolds, PlacesHold, ThreadsTyped,
       Aside, BackoffEnds, Up, Threads, Fixed, Probers, Keys
  <2>3. /\ KindsTyped' /\ FlagsTyped' /\ BootHolds' /\ FenceTyped' /\ GateHolds'
        /\ ThreadsTyped' /\ PlacesHold' /\ ReadyHasBridge'
    BY <1>4 DEF Inv, BackoffEnds, KindsTyped, FlagsTyped, BootHolds, BootOK, Quiet, FenceTyped,
       GateHolds, Up, Gated, ThreadsTyped, PlacesHold, ReadyHasBridge
  <2> QED
    BY <2>1, <2>2, <2>3 DEF Inv
<1> QED
  BY <1>1, <1>2, <1>3, <1>4

\* A probe writes, is refused, fails or is answered.
LEMMA WritingKeeps ==
  ASSUME Inv, NEW t \in Probers,
         ProbeWrites(t) \/ ProbeRefused(t) \/ ProbeRaises(t) \/ ProbeAnswers(t)
  PROVE  Inv'
<1>1. CASE ProbeWrites(t)
  <2>1. ThreadsTyped'
    BY <1>1, GoTyped DEF Inv, ProbeWrites, FenceOpen, Live, At, Threads, Fixed, Probers, Keys,
       Places
  <2>2. Moved
    BY <1>1, <2>1 DEF Inv, Moved, PlacesHold, ThreadsTyped, Opened, Fenced, Aside, ProbeWrites,
       FenceOpen, Live, Go, Resting, At, Up, Threads, Fixed, Probers, Keys
  <2>3. lock' \in {"none", "worker", "manual"} /\ fg' \in BOOLEAN /\ held' \in BOOLEAN
    BY Zenon, <1>1 DEF Inv, KindsTyped, FlagsTyped, ProbeWrites, FenceOpen, Live, At
  <2> QED
    BY <1>1, <2>2, <2>3, OnlyMoved DEF ProbeWrites
<1>2. CASE ProbeRefused(t)
  <2>1. ThreadsTyped'
    BY <1>2, GoTyped DEF Inv, ProbeRefused, Live, FenceOpen, Threads, Fixed, Probers, Keys,
       Places
  <2>2. Moved
    BY <1>2, <2>1 DEF Inv, Moved, PlacesHold, ThreadsTyped, Opened, Fenced, Aside, ProbeRefused,
       Live, FenceOpen, Go, Resting, Up, Threads, Fixed, Probers, Keys
  <2>3. lock' \in {"none", "worker", "manual"} /\ fg' \in BOOLEAN /\ held' \in BOOLEAN
    BY Zenon, <1>2 DEF Inv, KindsTyped, FlagsTyped, ProbeRefused, Live, FenceOpen
  <2> QED
    BY <1>2, <2>2, <2>3, OnlyMoved DEF ProbeRefused
<1>3. CASE ProbeRaises(t)
  <2>1. ThreadsTyped'
    BY <1>3, GoTyped DEF Inv, ProbeRaises, Threads, Fixed, Probers, Keys, Places
  <2>2. Moved
    BY <1>3, <2>1 DEF Inv, Moved, PlacesHold, ThreadsTyped, Opened, Fenced, Aside, ProbeRaises,
       Go, Resting, Up, Threads, Fixed, Probers, Keys
  <2>3. lock' \in {"none", "worker", "manual"} /\ fg' \in BOOLEAN /\ held' \in BOOLEAN
    BY Zenon, <1>3 DEF Inv, KindsTyped, FlagsTyped, ProbeRaises
  <2> QED
    BY <1>3, <2>2, <2>3, OnlyMoved DEF ProbeRaises
<1>4. CASE ProbeAnswers(t)
  <2>1. ThreadsTyped'
    BY <1>4, GoTyped DEF Inv, ProbeAnswers, At, Threads, Fixed, Probers, Keys, Places
  <2>2. Moved
    BY <1>4, <2>1 DEF Inv, Moved, PlacesHold, ThreadsTyped, Opened, Fenced, Aside, ProbeAnswers,
       Go, Resting, At, Up, Threads, Fixed, Probers, Keys
  <2>3. lock' \in {"none", "worker", "manual"} /\ fg' \in BOOLEAN /\ held' \in BOOLEAN
    BY Zenon, <1>4 DEF Inv, KindsTyped, FlagsTyped, ProbeAnswers, At
  <2> QED
    BY <1>4, <2>2, <2>3, OnlyMoved DEF ProbeAnswers
<1> QED
  BY <1>1, <1>2, <1>3, <1>4

\* _probe_existing_bridge.
LEMMA ProbingKeeps ==
  ASSUME Inv, NEW t \in {"worker", "manual"}, ProbeStart(t) \/ ProbeEnds(t)
  PROVE  Inv'
<1>1. CASE ProbeStart(t)
  <2>1. ThreadsTyped'
    BY <1>1, GoTyped DEF Inv, ProbeStart, At, Gone, BeginRun, Threads, Fixed, Probers, Keys,
       Places
  <2>2. KindsTyped'
    BY <1>1 DEF Inv, KindsTyped, States, ProbeStart, At, Gone, BeginRun
  <2>3. PlacesHold'
    BY <1>1 DEF Inv, PlacesHold, ThreadsTyped, KindsTyped, Opened, ProbeStart, At, Gone, Go,
       Resting, BeginRun, GoOn, Up, Threads, Fixed, Probers, Keys
  <2>4. CountHolds'
    BY <1>1, ReprobeOps, ReadinessAssumption DEF Inv, CountHolds, PlacesHold, ThreadsTyped,
       Aside, ProbeStart, At, Gone, Go, Resting, BeginRun, GoOn, Up, Threads, Fixed, Probers,
       Keys
  <2>5. BootHolds' /\ FenceTyped' /\ GateHolds'
    BY <1>1, Begun, Hush DEF Inv, Hushed, KindsTyped, ProbeStart, At, Gone, Go, Resting,
       BeginRun, GoOn, Up, Fenced, Opened, ThreadsTyped, PlacesHold, Threads, Fixed, Probers,
       Keys
  <2>6. FlagsTyped' /\ ReprobeTyped' /\ ReadyHasBridge'
    BY <1>1 DEF Inv, ProbeStart, FlagsTyped, ReprobeTyped, ReadyHasBridge, Up
  <2> QED
    BY <2>1, <2>2, <2>3, <2>4, <2>5, <2>6 DEF Inv
<1>2. CASE ProbeEnds(t)
  <2>1. ThreadsTyped'
    BY <1>2, GoTyped DEF Inv, ProbeEnds, Gone, At, SetBoot, Threads, Fixed, Probers, Keys,
       Places
  <2>2. KindsTyped'
    BY <1>2 DEF Inv, KindsTyped, States, ProbeEnds, Gone, At, SetBoot
  <2>3. FlagsTyped'
    BY Zenon, <1>2 DEF Inv, FlagsTyped, ProbeEnds, Gone, At, SetBoot
  <2>4. ReprobeTyped'
    BY <1>2, ReprobeOps DEF Inv, ReprobeTyped, CountHolds, PlacesHold, ProbeEnds, Gone, At,
       SetBoot, Up
  <2>5. PlacesHold'
    BY <1>2 DEF Inv, PlacesHold, ThreadsTyped, KindsTyped, Opened, ProbeEnds, Gone, Go, Resting,
       At, SetBoot, Up, Threads, Fixed, Probers, Keys
  <2>6. CountHolds'
    BY <1>2, ReprobeOps, ReadinessAssumption DEF Inv, CountHolds, PlacesHold, ThreadsTyped,
       Aside, ProbeEnds, Gone, Go, Resting, At, SetBoot, Up, Threads, Fixed, Probers, Keys
  <2>7. ReadyHasBridge'
    BY <1>2 DEF Inv, ReadyHasBridge, PlacesHold, ProbeEnds, Gone, At, SetBoot, Up, Threads,
       Fixed, Probers, Keys
  <2>8. BootHolds' /\ FenceTyped' /\ GateHolds'
    <3>0. /\ UNCHANGED <<bridge, login>> /\ pc'["attach"] = pc["attach"]
          /\ pc["attach"] \in Fenced => bridge # "none"
          /\ FenceTyped /\ BootHolds /\ GateHolds
      BY <1>2 DEF Inv, PlacesHold, Opened, Fenced, ThreadsTyped, Threads, Fixed, Go, ProbeEnds
    <3>1. CASE UNCHANGED <<boot, gate>>
      BY <3>0, <3>1, Hush DEF Hushed, Up
    <3>2. CASE ~UNCHANGED <<boot, gate>>
      <4>1. SetBoot(Confirmed)
        BY <1>2, <3>2 DEF ProbeEnds
      <4> QED BY <3>0, <4>1, Told, BootOps DEF SetBoot, Confirmed, FenceTyped, BootHolds, Up
    <3> QED BY <3>1, <3>2
  <2> QED
    BY <2>1, <2>2, <2>3, <2>4, <2>5, <2>6, <2>7, <2>8 DEF Inv
<1> QED
  BY <1>1, <1>2

\* The tick of the watcher.
LEMMA TickedKeeps ==
  ASSUME Inv, Ticked
  PROVE  Inv'
<1>1. CASE TickExpires
  <2>1. BootHolds' /\ FenceTyped' /\ GateHolds'
    BY <1>1, Looked, LookedAt, BootOps DEF Inv, BootHolds, TickExpires, Released, Expire, Up,
       Fenced, Opened, ThreadsTyped, PlacesHold, Threads, Fixed, Probers, Keys
  <2>2. /\ KindsTyped' /\ FlagsTyped' /\ ReprobeTyped' /\ ThreadsTyped' /\ PlacesHold'
        /\ CountHolds' /\ ReadyHasBridge'
    BY <1>1 DEF Inv, TickExpires, KindsTyped, FlagsTyped, ReprobeTyped, ThreadsTyped,
       PlacesHold, Up, CountHolds, ReadyHasBridge
  <2> QED
    BY <2>1, <2>2 DEF Inv
<1>2. CASE TickExhausts
  <2>1. ReprobeTyped'
    BY <1>2, ReprobeOps DEF Inv, ReprobeTyped, CountHolds, PlacesHold, TickExhausts, Considered,
       Released, Owes, Exhausted, Expire, Up
  <2>2. CountHolds'
    BY <1>2, ReprobeOps, ReadinessAssumption DEF Inv, CountHolds, PlacesHold, ThreadsTyped,
       Aside, TickExhausts, Considered, Released, Owes, Exhausted, Expire, Up, Threads, Fixed,
       Probers, Keys
  <2>3. BootHolds' /\ FenceTyped' /\ GateHolds'
    <3>1. CASE state = "READY"
      BY <1>2, <3>1, Looked, LookedAt, BootOps DEF Inv, BootHolds, TickExhausts, Up
    <3>2. CASE state # "READY"
      BY <1>2, <3>2, Hush DEF Inv, TickExhausts, Hushed, Up
    <3> QED BY <3>1, <3>2
  <2>4. KindsTyped' /\ FlagsTyped' /\ ThreadsTyped' /\ PlacesHold' /\ ReadyHasBridge'
    BY <1>2 DEF Inv, TickExhausts, KindsTyped, FlagsTyped, ThreadsTyped, PlacesHold, Up,
       ReadyHasBridge
  <2> QED
    BY <2>1, <2>2, <2>3, <2>4 DEF Inv
<1>3. CASE TickProbes
  <2>1. ThreadsTyped'
    BY <1>3, GoTyped DEF Inv, TickProbes, Due, Considered, Released, Owes, Exhausted, Up, At,
       Threads, Fixed, Probers, Keys, Places
  <2>2. ReprobeTyped'
    BY <1>3, ReprobeOps DEF Inv, ReprobeTyped, CountHolds, PlacesHold, TickProbes, Due,
       Considered, Released, Owes, Exhausted, Up, At
  <2>3. PlacesHold'
    BY <1>3 DEF Inv, PlacesHold, ThreadsTyped, KindsTyped, Opened, TickProbes, Due, Considered,
       Released, Owes, Exhausted, Up, At, GoOn, Threads, Fixed, Probers, Keys
  <2>4. CountHolds'
    <3>1. reprobe.attempts < ReprobeMax
      BY <1>3, ReadinessAssumption DEF Inv, ReprobeTyped, Reprobes, TickProbes, Due, Exhausted
    <3>2. reprobe'.attempts = reprobe.attempts
      BY <1>3, ReprobeOps DEF Inv, TickProbes
    <3> QED BY <3>1, <3>2 DEF CountHolds
  <2>5. BootHolds' /\ FenceTyped' /\ GateHolds'
    BY <1>3, Hush DEF Inv, Hushed, TickProbes, Due, Considered, Released, Owes, Exhausted, Up,
       At, GoOn, Fenced, PlacesHold, Opened, ThreadsTyped, Threads, Fixed, Probers, Keys
  <2>6. KindsTyped' /\ FlagsTyped' /\ ReadyHasBridge'
    BY <1>3 DEF Inv, TickProbes, KindsTyped, FlagsTyped, ReadyHasBridge, Up
  <2> QED
    BY <2>1, <2>2, <2>3, <2>4, <2>5, <2>6 DEF Inv
<1>4. CASE TickAttaches
  <2>1. ThreadsTyped'
    BY <1>4, SpawnTyped DEF Inv, ThreadsTyped, TickAttaches
  <2>2. KindsTyped'
    BY <1>4 DEF Inv, KindsTyped, States, TickAttaches, Due, Considered, Released, Owes,
       Exhausted, SpawnAttach
  <2>3. ReprobeTyped'
    <3>1. reprobe.attempts < ReprobeMax
      BY <1>4, ReadinessAssumption DEF Inv, ReprobeTyped, Reprobes, TickAttaches, Due, Exhausted
    <3> QED BY <1>4, <3>1, ReprobeOps DEF Inv, ReprobeTyped, TickAttaches
  <2>4. PlacesHold'
    BY <1>4 DEF Inv, PlacesHold, ThreadsTyped, KindsTyped, Opened, TickAttaches, Due,
       Considered, Released, Owes, Exhausted, SpawnAttach, Up, Threads, Fixed, Probers, Keys
  <2>5. CountHolds'
    BY <1>4, ReprobeOps, ReadinessAssumption DEF Inv, CountHolds, PlacesHold, ThreadsTyped,
       Aside, TickAttaches, Due, Considered, Released, Owes, Exhausted, SpawnAttach, Up,
       Threads, Fixed, Probers, Keys
  <2>6. ReadyHasBridge'
    BY <1>4 DEF Inv, ReadyHasBridge, PlacesHold, TickAttaches, Due, Considered, Released, Owes,
       Exhausted, SpawnAttach, Up, Threads, Fixed, Probers, Keys
  <2>7. BootHolds' /\ FenceTyped' /\ GateHolds'
    BY <1>4, Hush DEF Inv, Hushed, TickAttaches, Due, Considered, Released, Owes, Exhausted,
       SpawnAttach, Up, Fenced, PlacesHold, Opened, ThreadsTyped, Threads, Fixed, Probers, Keys
  <2>8. FlagsTyped'
    BY <1>4 DEF Inv, TickAttaches, FlagsTyped
  <2> QED
    BY <2>1, <2>2, <2>3, <2>4, <2>5, <2>6, <2>7, <2>8 DEF Inv
<1> QED
  BY <1>1, <1>2, <1>3, <1>4 DEF Ticked

\* The readiness worker.
LEMMA WorkerKeeps ==
  ASSUME Inv, Worker
  PROVE  Inv'
<1>1. CASE WorkerYields
  <2>1. ThreadsTyped'
    BY <1>1, GoTyped DEF Inv, WorkerYields, At, Threads, Fixed, Probers, Keys, Places
  <2>2. Moved
    BY <1>1, <2>1 DEF Inv, Moved, PlacesHold, ThreadsTyped, Opened, Fenced, Aside, WorkerYields,
       At, Go, Resting, Up, Threads, Fixed, Probers, Keys
  <2>3. lock' \in {"none", "worker", "manual"} /\ fg' \in BOOLEAN /\ held' \in BOOLEAN
    BY Zenon, <1>1 DEF Inv, KindsTyped, FlagsTyped, WorkerYields, At
  <2> QED
    BY <1>1, <2>2, <2>3, OnlyMoved DEF WorkerYields
<1>2. CASE WorkerStarts
  <2>1. ThreadsTyped'
    BY <1>2, GoTyped DEF Inv, WorkerStarts, At, Gone, Released, Expire, StillValid, Threads,
       Fixed, Probers, Keys, Places
  <2>2. KindsTyped'
    BY <1>2 DEF Inv, KindsTyped, States, WorkerStarts, At, Gone, Released, Expire, StillValid
  <2>3. PlacesHold'
    BY <1>2 DEF Inv, PlacesHold, ThreadsTyped, KindsTyped, Opened, WorkerStarts, At, Gone,
       Released, Expire, Go, Resting, StillValid, Up, Threads, Fixed, Probers, Keys
  <2>4. CountHolds'
    BY <1>2, ReprobeOps, ReadinessAssumption DEF Inv, CountHolds, PlacesHold, ThreadsTyped,
       Aside, WorkerStarts, At, Gone, Released, Expire, Go, Resting, StillValid, Up, Threads,
       Fixed, Probers, Keys
  <2>5. BootHolds' /\ FenceTyped' /\ GateHolds'
    <3>0. PICK stuck \in BOOLEAN, human \in BOOLEAN :
            LET looks == state = "READY" /\ ~Gone("worker") /\ ~Released
                seen == IF looks THEN Expired(boot) ELSE boot
                b == IF looks /\ seen.pending /\ stuck THEN Failed(seen) ELSE seen
            IN Expire(b) /\ Go("worker", IF StillValid(b) /\ ~human THEN "ready" ELSE "leaving")
      BY <1>2 DEF WorkerStarts
    <3> DEFINE looks == state = "READY" /\ ~Gone("worker") /\ ~Released
               seen == IF looks THEN Expired(boot) ELSE boot
               b == IF looks /\ seen.pending /\ stuck THEN Failed(seen) ELSE seen
    <3>1. BootOK(seen) /\ GivenUp(boot, seen)
      BY BootOps, LookedAt DEF Inv, BootHolds
    <3>2. BootOK(b) /\ GivenUp(seen, b)
      <4> HIDE DEF seen
      <4> QED BY <3>1, BootOps, LookedAt
    <3>3. GivenUp(boot, b)
      BY <3>1, <3>2 DEF GivenUp
    <3>4. Expire(b) /\ pc'["attach"] = pc["attach"]
      BY <3>0 DEF Inv, ThreadsTyped, Threads, Fixed, Go
    <3> HIDE DEF b
    <3> QED BY <1>2, <3>2, <3>3, <3>4, Looked DEF Inv, WorkerStarts, Up
  <2>6. FlagsTyped' /\ ReprobeTyped' /\ ReadyHasBridge'
    BY <1>2 DEF Inv, WorkerStarts, FlagsTyped, ReprobeTyped, ReadyHasBridge, Up
  <2> QED
    BY <2>1, <2>2, <2>3, <2>4, <2>5, <2>6 DEF Inv
<1>3. CASE WorkerRaised
  <2>1. ThreadsTyped'
    BY <1>3, GoTyped DEF Inv, WorkerRaised, At, Gone, Threads, Fixed, Probers, Keys, Places
  <2>2. KindsTyped'
    BY <1>3 DEF Inv, KindsTyped, States, WorkerRaised, At, Gone
  <2>3. ReprobeTyped'
    <3>1. ~Gone("worker") => reprobe.attempts < ReprobeMax
      BY <1>3 DEF Inv, CountHolds, WorkerRaised, Gone, At, Aside
    <3> QED BY <1>3, <3>1, ReprobeOps DEF Inv, ReprobeTyped, WorkerRaised
  <2>4. PlacesHold'
    BY <1>3 DEF Inv, PlacesHold, ThreadsTyped, KindsTyped, Opened, WorkerRaised, At, Gone, Go,
       Resting, Up, Threads, Fixed, Probers, Keys
  <2>5. CountHolds'
    BY <1>3, ReprobeOps, ReadinessAssumption DEF Inv, CountHolds, PlacesHold, ThreadsTyped,
       Aside, WorkerRaised, At, Gone, Go, Resting, Up, Threads, Fixed, Probers, Keys
  <2>6. ReadyHasBridge'
    BY <1>3 DEF Inv, ReadyHasBridge, PlacesHold, WorkerRaised, At, Gone, Up, Threads, Fixed,
       Probers, Keys
  <2>7. BootHolds' /\ FenceTyped' /\ GateHolds'
    BY <1>3, Hush DEF Inv, Hushed, WorkerRaised, At, Gone, Go, Resting, Up, Fenced, PlacesHold,
       Opened, ThreadsTyped, Threads, Fixed, Probers, Keys
  <2>8. FlagsTyped'
    BY <1>3 DEF Inv, WorkerRaised, FlagsTyped
  <2> QED
    BY <2>1, <2>2, <2>3, <2>4, <2>5, <2>6, <2>7, <2>8 DEF Inv
<1>4. CASE WorkerFinishes
  <2>1. ThreadsTyped'
    BY <1>4, GoTyped DEF Inv, WorkerFinishes, Gone, At, Expire, Threads, Fixed, Probers, Keys,
       Places
  <2>2. KindsTyped'
    BY <1>4 DEF Inv, KindsTyped, States, WorkerFinishes, Gone, At, Expire
  <2>3. ReprobeTyped'
    <3>1. ~Gone("worker") => reprobe.attempts < ReprobeMax
      BY <1>4 DEF Inv, CountHolds, WorkerFinishes, Gone, At, Aside
    <3>2. reprobe' \in {reprobe, Fresh, Recorded, [Recorded EXCEPT !.exhausted = TRUE]}
          /\ (reprobe' \in {reprobe, Fresh} \/ ~Gone("worker"))
      BY <1>4 DEF WorkerFinishes
    <3> QED BY <3>1, <3>2, ReprobeOps DEF Inv, ReprobeTyped
  <2>4. PlacesHold'
    BY <1>4 DEF Inv, PlacesHold, ThreadsTyped, KindsTyped, Opened, WorkerFinishes, Gone, At,
       Expire, Go, Resting, Up, Threads, Fixed, Probers, Keys
  <2>5. CountHolds'
    BY <1>4, ReprobeOps, ReadinessAssumption DEF Inv, CountHolds, PlacesHold, ThreadsTyped,
       Aside, WorkerFinishes, Gone, At, Expire, Go, Resting, Up, Threads, Fixed, Probers, Keys
  <2>6. BootHolds' /\ FenceTyped' /\ GateHolds'
    <3>0. pc'["attach"] = pc["attach"]
      BY <1>4 DEF Inv, ThreadsTyped, Threads, Fixed, Go, WorkerFinishes
    <3>1. CASE UNCHANGED <<boot, gate>>
      BY <1>4, <3>0, <3>1, Hush DEF Inv, Hushed, WorkerFinishes, Up
    <3>2. CASE ~UNCHANGED <<boot, gate>>
      <4> DEFINE counted == IF boot.pending
                            THEN Expired([boot EXCEPT !.attempts = boot.attempts + 1])
                            ELSE boot
      <4>1. PICK stuck \in BOOLEAN :
              Expire(IF stuck /\ counted.pending THEN Failed(counted) ELSE counted)
        BY <1>4, <3>2 DEF WorkerFinishes
      <4> DEFINE b == IF stuck /\ counted.pending THEN Failed(counted) ELSE counted
      <4>2. BootOK(counted)
        BY BootOps DEF Inv, BootHolds
      <4>3. GivenUp(boot, counted)
        BY LookedAt DEF Inv, BootHolds, BootOK, Boots, GivenUp, Quiet, Failed, Expired, NoBoot
      <4> HIDE DEF counted
      <4>4. BootOK(b) /\ GivenUp(counted, b)
        BY <4>2, BootOps, LookedAt
      <4>5. GivenUp(boot, b)
        BY <4>3, <4>4 DEF GivenUp
      <4> QED BY <1>4, <3>0, <4>1, <4>4, <4>5, Looked DEF Inv, WorkerFinishes, Up
    <3> QED BY <3>1, <3>2
  <2>7. FlagsTyped' /\ ReadyHasBridge'
    BY <1>4 DEF Inv, WorkerFinishes, FlagsTyped, ReadyHasBridge, Up
  <2> QED
    BY <2>1, <2>2, <2>3, <2>4, <2>5, <2>6, <2>7 DEF Inv
<1>5. CASE WorkerLeaves
  <2>1. ThreadsTyped'
    BY <1>5, GoTyped DEF Inv, WorkerLeaves, At, Threads, Fixed, Probers, Keys, Places
  <2>2. Moved
    BY <1>5, <2>1 DEF Inv, Moved, PlacesHold, ThreadsTyped, Opened, Fenced, Aside, WorkerLeaves,
       At, Go, Resting, Up, Threads, Fixed, Probers, Keys
  <2>3. lock' \in {"none", "worker", "manual"} /\ fg' \in BOOLEAN /\ held' \in BOOLEAN
    BY Zenon, <1>5 DEF Inv, KindsTyped, FlagsTyped, WorkerLeaves, At
  <2> QED
    BY <1>5, <2>2, <2>3, OnlyMoved DEF WorkerLeaves
<1> QED
  BY <1>1, <1>2, <1>3, <1>4, <1>5 DEF Worker

\* RPCs that change the session.
LEMMA CalledKeeps ==
  ASSUME Inv, Called
  PROVE  Inv'
<1>1. CASE Recover
  <2>1. ThreadsTyped'
    <3>1. CASE Up
      <4>1. /\ \/ GoOn("manual", "waiting") \/ GoOn("manual", "key_c")
               \/ UNCHANGED <<pc, on>>
            /\ "manual" \in Threads /\ {"waiting", "key_c"} \subseteq Places
        BY <1>1, <3>1 DEF Recover, Threads, Fixed, Places
      <4> QED BY <4>1, GoTyped DEF Inv, ThreadsTyped
    <3>2. CASE ~Up
      BY <1>1, <3>2, SpawnTyped DEF Inv, ThreadsTyped, Recover, Reattach
    <3> QED BY <3>1, <3>2
  <2>2. KindsTyped'
    BY <1>1 DEF Inv, KindsTyped, States, Recover, At, Released, Up, Reattach, SpawnAttach
  <2>3. ReprobeTyped'
    BY <1>1, ReprobeOps DEF Inv, ReprobeTyped, CountHolds, PlacesHold, Recover, At, Released,
       Up, Reattach, SpawnAttach
  <2>4. PlacesHold'
    BY <1>1 DEF Inv, PlacesHold, ThreadsTyped, KindsTyped, Opened, Recover, At, Released, Up,
       Reattach, SpawnAttach, GoOn, Threads, Fixed, Probers, Keys
  <2>5. CountHolds'
    BY <1>1, ReprobeOps, ReadinessAssumption DEF Inv, CountHolds, PlacesHold, ThreadsTyped,
       Aside, Recover, At, Released, Up, Reattach, SpawnAttach, GoOn, Threads, Fixed, Probers,
       Keys
  <2>6. ReadyHasBridge'
    BY <1>1 DEF Inv, ReadyHasBridge, PlacesHold, Recover, At, Released, Up, Reattach,
       SpawnAttach, Threads, Fixed, Probers, Keys
  <2>7. BootHolds' /\ FenceTyped' /\ GateHolds'
    BY <1>1, Hush DEF Inv, Hushed, Recover, At, Released, Up, Reattach, SpawnAttach, GoOn,
       Fenced, PlacesHold, Opened, ThreadsTyped, Threads, Fixed, Probers, Keys
  <2>8. FlagsTyped'
    BY <1>1 DEF Inv, Recover, FlagsTyped
  <2> QED
    BY <2>1, <2>2, <2>3, <2>4, <2>5, <2>6, <2>7, <2>8 DEF Inv
<1>2. CASE RecoverForced
  <2>1. ThreadsTyped'
    BY <1>2, GoTyped DEF Inv, RecoverForced, At, Released, Up, BeginDrain, Threads, Fixed,
       Probers, Keys, Places
  <2>2. KindsTyped'
    BY <1>2 DEF Inv, KindsTyped, States, RecoverForced, At, Released, Up, BeginDrain
  <2>3. FlagsTyped'
    BY Zenon, <1>2 DEF Inv, FlagsTyped, RecoverForced, At, Released, Up, BeginDrain
  <2>4. ReprobeTyped'
    BY <1>2, ReprobeOps DEF Inv, ReprobeTyped, CountHolds, PlacesHold, RecoverForced, At,
       Released, Up, BeginDrain
  <2>5. PlacesHold'
    BY <1>2 DEF Inv, PlacesHold, ThreadsTyped, KindsTyped, Opened, RecoverForced, At, Released,
       Up, BeginDrain, Go, Resting, Threads, Fixed, Probers, Keys
  <2>6. CountHolds'
    BY <1>2, ReprobeOps, ReadinessAssumption DEF Inv, CountHolds, PlacesHold, ThreadsTyped,
       Aside, RecoverForced, At, Released, Up, BeginDrain, Go, Resting, Threads, Fixed, Probers,
       Keys
  <2>7. ReadyHasBridge'
    BY <1>2 DEF Inv, ReadyHasBridge, PlacesHold, RecoverForced, At, Released, Up, BeginDrain,
       Threads, Fixed, Probers, Keys
  <2>8. BootHolds' /\ FenceTyped' /\ GateHolds'
    BY <1>2, Hush DEF Inv, Hushed, RecoverForced, At, Released, Up, BeginDrain, Go, Resting,
       Fenced, PlacesHold, Opened, ThreadsTyped, Threads, Fixed, Probers, Keys
  <2> QED
    BY <2>1, <2>2, <2>3, <2>4, <2>5, <2>6, <2>7, <2>8 DEF Inv
<1>3. CASE AttachSession
  <2>1. ThreadsTyped'
    <3>1. CASE Up
      <4>1. /\ \/ GoOn("manual", "waiting") \/ GoOn("manual", "key_c")
               \/ UNCHANGED <<pc, on>>
            /\ "manual" \in Threads /\ {"waiting", "key_c"} \subseteq Places
        BY <1>3, <3>1 DEF AttachSession, Threads, Fixed, Places
      <4> QED BY <4>1, GoTyped DEF Inv, ThreadsTyped
    <3>2. CASE ~Up
      BY <1>3, <3>2, SpawnTyped DEF Inv, ThreadsTyped, AttachSession, Reattach
    <3> QED BY <3>1, <3>2
  <2>2. KindsTyped'
    BY <1>3 DEF Inv, KindsTyped, States, AttachSession, At, Released, Up, Reattach, SpawnAttach
  <2>3. ReprobeTyped'
    BY <1>3, ReprobeOps DEF Inv, ReprobeTyped, CountHolds, PlacesHold, AttachSession, At,
       Released, Up, Reattach, SpawnAttach
  <2>4. PlacesHold'
    BY <1>3 DEF Inv, PlacesHold, ThreadsTyped, KindsTyped, Opened, AttachSession, At, Released,
       Up, Reattach, SpawnAttach, GoOn, Threads, Fixed, Probers, Keys
  <2>5. CountHolds'
    BY <1>3, ReprobeOps, ReadinessAssumption DEF Inv, CountHolds, PlacesHold, ThreadsTyped,
       Aside, AttachSession, At, Released, Up, Reattach, SpawnAttach, GoOn, Threads, Fixed,
       Probers, Keys
  <2>6. ReadyHasBridge'
    BY <1>3 DEF Inv, ReadyHasBridge, PlacesHold, AttachSession, At, Released, Up, Reattach,
       SpawnAttach, Threads, Fixed, Probers, Keys
  <2>7. BootHolds' /\ FenceTyped' /\ GateHolds'
    BY <1>3, Hush DEF Inv, Hushed, AttachSession, At, Released, Up, Reattach, SpawnAttach, GoOn,
       Fenced, PlacesHold, Opened, ThreadsTyped, Threads, Fixed, Probers, Keys
  <2>8. FlagsTyped'
    BY <1>3 DEF Inv, AttachSession, FlagsTyped
  <2> QED
    BY <2>1, <2>2, <2>3, <2>4, <2>5, <2>6, <2>7, <2>8 DEF Inv
<1>4. CASE Clear
  <2>1. ThreadsTyped'
    BY <1>4, SpawnTyped DEF Inv, ThreadsTyped, Clear, Clearing, BeginDrain
  <2>2. KindsTyped'
    BY <1>4 DEF Inv, KindsTyped, States, Clear, Released, Clearing, Up, BeginDrain, SpawnAttach
  <2>3. FlagsTyped'
    BY Zenon, <1>4 DEF Inv, FlagsTyped, Clear, Released, Clearing, Up, BeginDrain, SpawnAttach
  <2>4. ReprobeTyped'
    BY <1>4, ReprobeOps DEF Inv, ReprobeTyped, CountHolds, PlacesHold, Clear, Released,
       Clearing, Up, BeginDrain, SpawnAttach
  <2>5. PlacesHold'
    BY <1>4 DEF Inv, PlacesHold, ThreadsTyped, KindsTyped, Opened, Clear, Released, Clearing,
       Up, BeginDrain, SpawnAttach, Threads, Fixed, Probers, Keys
  <2>6. CountHolds'
    BY <1>4, ReprobeOps, ReadinessAssumption DEF Inv, CountHolds, PlacesHold, ThreadsTyped,
       Aside, Clear, Released, Clearing, Up, BeginDrain, SpawnAttach, Threads, Fixed, Probers,
       Keys
  <2>7. ReadyHasBridge'
    BY <1>4 DEF Inv, ReadyHasBridge, PlacesHold, Clear, Released, Clearing, Up, BeginDrain,
       SpawnAttach, Threads, Fixed, Probers, Keys
  <2>8. BootHolds' /\ FenceTyped' /\ GateHolds'
    BY <1>4, Noted DEF Inv, Clear, Released, Clearing, Up, BeginDrain, SpawnAttach, Fenced,
       Opened, ThreadsTyped, PlacesHold, Threads, Fixed, Probers, Keys
  <2> QED
    BY <2>1, <2>2, <2>3, <2>4, <2>5, <2>6, <2>7, <2>8 DEF Inv
<1>5. CASE Release
  <2>1. KindsTyped'
    BY <1>5 DEF Inv, KindsTyped, States, Release, Released, Up, BeginDrain
  <2>2. FlagsTyped'
    BY Zenon, <1>5 DEF Inv, FlagsTyped, Release, Released, Up, BeginDrain
  <2>3. ReprobeTyped'
    BY <1>5, ReprobeOps DEF Inv, ReprobeTyped, CountHolds, PlacesHold, Release, Released, Up,
       BeginDrain
  <2>4. PlacesHold'
    BY <1>5 DEF Inv, PlacesHold, ThreadsTyped, KindsTyped, Opened, Release, Released, Up,
       BeginDrain, Threads, Fixed, Probers, Keys
  <2>5. CountHolds'
    BY <1>5, ReprobeOps, ReadinessAssumption DEF Inv, CountHolds, PlacesHold, ThreadsTyped,
       Aside, Release, Released, Up, BeginDrain, Threads, Fixed, Probers, Keys
  <2>6. ReadyHasBridge'
    BY <1>5 DEF Inv, ReadyHasBridge, PlacesHold, Release, Released, Up, BeginDrain, Threads,
       Fixed, Probers, Keys
  <2>7. BootHolds' /\ FenceTyped' /\ GateHolds'
    BY <1>5, Noted DEF Inv, Release, Released, Up, BeginDrain, Fenced, Opened, ThreadsTyped,
       PlacesHold, Threads, Fixed, Probers, Keys
  <2>8. ThreadsTyped'
    BY <1>5 DEF Inv, Release, ThreadsTyped
  <2> QED
    BY <2>1, <2>2, <2>3, <2>4, <2>5, <2>6, <2>7, <2>8 DEF Inv
<1>6. CASE Reclaim
  <2>1. ThreadsTyped'
    BY <1>6, SpawnTyped DEF Inv, ThreadsTyped, Reclaim, Reattach
  <2>2. KindsTyped'
    BY <1>6 DEF Inv, KindsTyped, States, Reclaim, Reattach, SpawnAttach
  <2>3. ReprobeTyped'
    BY <1>6, ReprobeOps DEF Inv, ReprobeTyped, CountHolds, PlacesHold, Reclaim, Reattach,
       SpawnAttach, Up
  <2>4. PlacesHold'
    BY <1>6 DEF Inv, PlacesHold, ThreadsTyped, KindsTyped, Opened, Reclaim, Reattach,
       SpawnAttach, Up, Threads, Fixed, Probers, Keys
  <2>5. CountHolds'
    BY <1>6, ReprobeOps, ReadinessAssumption DEF Inv, CountHolds, PlacesHold, ThreadsTyped,
       Aside, Reclaim, Reattach, SpawnAttach, Up, Threads, Fixed, Probers, Keys
  <2>6. ReadyHasBridge'
    BY <1>6 DEF Inv, ReadyHasBridge, PlacesHold, Reclaim, Reattach, SpawnAttach, Up, Threads,
       Fixed, Probers, Keys
  <2>7. BootHolds' /\ FenceTyped' /\ GateHolds'
    BY <1>6, Hush DEF Inv, Hushed, Reclaim, Reattach, SpawnAttach, Up, Fenced, PlacesHold,
       Opened, ThreadsTyped, Threads, Fixed, Probers, Keys
  <2>8. FlagsTyped'
    BY <1>6 DEF Inv, Reclaim, FlagsTyped
  <2> QED
    BY <2>1, <2>2, <2>3, <2>4, <2>5, <2>6, <2>7, <2>8 DEF Inv
<1> QED
  BY <1>1, <1>2, <1>3, <1>4, <1>5, <1>6 DEF Called

\* What an RPC does before and after its probe.
LEMMA ManualKeeps ==
  ASSUME Inv, AwaitEnds \/ ManualLocks \/ ManualAnswered
  PROVE  Inv'
<1>1. CASE AwaitEnds
  <2>1. ThreadsTyped'
    BY <1>1, GoTyped DEF Inv, AwaitEnds, At, Threads, Fixed, Probers, Keys, Places
  <2>2. Moved
    BY <1>1, <2>1 DEF Inv, Moved, PlacesHold, ThreadsTyped, Opened, Fenced, Aside, AwaitEnds,
       At, Go, Resting, Up, Threads, Fixed, Probers, Keys
  <2>3. lock' \in {"none", "worker", "manual"} /\ fg' \in BOOLEAN /\ held' \in BOOLEAN
    BY Zenon, <1>1 DEF Inv, KindsTyped, FlagsTyped, AwaitEnds, At
  <2> QED
    BY <1>1, <2>2, <2>3, OnlyMoved DEF AwaitEnds
<1>2. CASE ManualLocks
  <2>1. ThreadsTyped'
    BY <1>2, GoTyped DEF Inv, ManualLocks, At, Threads, Fixed, Probers, Keys, Places
  <2>2. Moved
    BY <1>2, <2>1 DEF Inv, Moved, PlacesHold, ThreadsTyped, Opened, Fenced, Aside, ManualLocks,
       At, Go, Resting, Up, Threads, Fixed, Probers, Keys
  <2>3. lock' \in {"none", "worker", "manual"} /\ fg' \in BOOLEAN /\ held' \in BOOLEAN
    BY Zenon, <1>2 DEF Inv, KindsTyped, FlagsTyped, ManualLocks, At
  <2> QED
    BY <1>2, <2>2, <2>3, OnlyMoved DEF ManualLocks
<1>3. CASE ManualAnswered
  <2>1. ThreadsTyped'
    BY <1>3, GoTyped DEF Inv, ManualAnswered, Threads, Fixed, Probers, Keys, Places
  <2>2. Moved
    BY <1>3, <2>1 DEF Inv, Moved, PlacesHold, ThreadsTyped, Opened, Fenced, Aside,
       ManualAnswered, Go, Resting, Up, Threads, Fixed, Probers, Keys
  <2>3. lock' \in {"none", "worker", "manual"} /\ fg' \in BOOLEAN /\ held' \in BOOLEAN
    BY Zenon, <1>3 DEF Inv, KindsTyped, FlagsTyped, ManualAnswered
  <2> QED
    BY <1>3, <2>2, <2>3, OnlyMoved DEF ManualAnswered
<1> QED
  BY <1>1, <1>2, <1>3

\* A bridge drains and is gone.
LEMMA DrainKeeps ==
  ASSUME Inv, BridgeDies \/ DrainEnds
  PROVE  Inv'
<1>1. CASE BridgeDies
  <2>1. KindsTyped'
    BY <1>1 DEF Inv, KindsTyped, States, BridgeDies, Up, BeginDrain
  <2>2. FlagsTyped'
    BY Zenon, <1>1 DEF Inv, FlagsTyped, BridgeDies, Up, BeginDrain
  <2>3. PlacesHold'
    BY <1>1 DEF Inv, PlacesHold, ThreadsTyped, KindsTyped, Opened, BridgeDies, Up, BeginDrain,
       Threads, Fixed, Probers, Keys
  <2>4. ReadyHasBridge'
    BY <1>1 DEF Inv, ReadyHasBridge, PlacesHold, BridgeDies, Up, BeginDrain, Threads, Fixed,
       Probers, Keys
  <2>5. /\ BootHolds' /\ FenceTyped' /\ GateHolds' /\ ReprobeTyped' /\ ThreadsTyped'
        /\ CountHolds'
    BY <1>1 DEF Inv, BridgeDies, BootHolds, BootOK, Quiet, FenceTyped, GateHolds, Up, Gated,
       ReprobeTyped, ThreadsTyped, CountHolds
  <2> QED
    BY <2>1, <2>2, <2>3, <2>4, <2>5 DEF Inv
<1>2. CASE DrainEnds
  <2>1. ThreadsTyped'
    <3>1. on' = [t \in Threads |-> FALSE] /\ (pc' = pc \/ SpawnAttach(pc))
      BY <1>2 DEF DrainEnds
    <3> QED BY <3>1, SpawnTyped DEF Inv, ThreadsTyped
  <2>2. KindsTyped'
    BY <1>2 DEF Inv, KindsTyped, States, DrainEnds, Threads, Fixed, SpawnAttach
  <2>3. ReprobeTyped'
    BY <1>2, ReprobeOps DEF Inv, ReprobeTyped, CountHolds, PlacesHold, DrainEnds, Threads,
       Fixed, SpawnAttach, Up
  <2>4. PlacesHold'
    BY <1>2 DEF Inv, PlacesHold, ThreadsTyped, KindsTyped, Opened, DrainEnds, Threads, Fixed,
       SpawnAttach, Up, Probers, Keys
  <2>5. CountHolds'
    BY <1>2, ReprobeOps, ReadinessAssumption DEF Inv, CountHolds, PlacesHold, ThreadsTyped,
       Aside, DrainEnds, Threads, Fixed, SpawnAttach, Up, Probers, Keys
  <2>6. ReadyHasBridge'
    BY <1>2 DEF Inv, ReadyHasBridge, PlacesHold, DrainEnds, Threads, Fixed, SpawnAttach, Up,
       Probers, Keys
  <2>7. BootHolds' /\ FenceTyped' /\ GateHolds'
    BY <1>2, Hush DEF Inv, Hushed, DrainEnds, Threads, Fixed, SpawnAttach, Up, Fenced,
       PlacesHold, Opened, ThreadsTyped, Probers, Keys
  <2>8. FlagsTyped'
    BY <1>2 DEF Inv, DrainEnds, FlagsTyped
  <2> QED
    BY <2>1, <2>2, <2>3, <2>4, <2>5, <2>6, <2>7, <2>8 DEF Inv
<1> QED
  BY <1>1, <1>2

\* The keys that recover a command.
LEMMA PressingKeeps ==
  ASSUME Inv, NEW t \in Keys, Pressing(t) \/ KeyWrites(t)
  PROVE  Inv'
<1>1. CASE KeyAllowed(t)
  <2>1. ThreadsTyped'
    BY <1>1, GoTyped DEF Inv, KeyAllowed, Current, Live, Leave, At, Threads, Fixed, Probers,
       Keys, Places
  <2>2. Moved
    BY <1>1, <2>1 DEF Inv, Moved, PlacesHold, ThreadsTyped, Opened, Fenced, Aside, KeyAllowed,
       Current, Live, Leave, Go, Resting, At, Up, Threads, Fixed, Probers, Keys
  <2>3. lock' \in {"none", "worker", "manual"} /\ fg' \in BOOLEAN /\ held' \in BOOLEAN
    BY Zenon, <1>1 DEF Inv, KindsTyped, FlagsTyped, KeyAllowed, Current, Live, Leave, At
  <2> QED
    BY <1>1, <2>2, <2>3, OnlyMoved DEF KeyAllowed
<1>2. CASE KeyRefused(t)
  <2>1. ThreadsTyped'
    BY <1>2, GoTyped DEF Inv, KeyRefused, Live, Leave, Current, Threads, Fixed, Probers, Keys,
       Places
  <2>2. Moved
    BY <1>2, <2>1 DEF Inv, Moved, PlacesHold, ThreadsTyped, Opened, Fenced, Aside, KeyRefused,
       Live, Go, Resting, Leave, Current, Up, Threads, Fixed, Probers, Keys
  <2>3. lock' \in {"none", "worker", "manual"} /\ fg' \in BOOLEAN /\ held' \in BOOLEAN
    BY Zenon, <1>2 DEF Inv, KindsTyped, FlagsTyped, KeyRefused, Live, Leave, Current
  <2> QED
    BY <1>2, <2>2, <2>3, OnlyMoved DEF KeyRefused
<1>3. CASE KeyAnswered(t)
  <2>1. ThreadsTyped'
    BY <1>3, GoTyped DEF Inv, KeyAnswered, Current, Live, Leave, Threads, Fixed, Probers, Keys,
       Places
  <2>2. FlagsTyped'
    BY Zenon, <1>3 DEF Inv, FlagsTyped, KeyAnswered, Current, Live, Leave
  <2>3. ReprobeTyped'
    BY <1>3, ReprobeOps DEF Inv, ReprobeTyped, CountHolds, PlacesHold, KeyAnswered, Current,
       Live, Leave, Up
  <2>4. PlacesHold'
    BY <1>3 DEF Inv, PlacesHold, ThreadsTyped, KindsTyped, Opened, KeyAnswered, Current, Live,
       Leave, Go, Resting, Up, Threads, Fixed, Probers, Keys
  <2>5. CountHolds'
    BY <1>3, ReprobeOps, ReadinessAssumption DEF Inv, CountHolds, PlacesHold, ThreadsTyped,
       Aside, KeyAnswered, Current, Live, Leave, Go, Resting, Up, Threads, Fixed, Probers, Keys
  <2>6. BootHolds' /\ FenceTyped' /\ GateHolds'
    BY <1>3, Hush DEF Inv, Hushed, KeyAnswered, Current, Live, Leave, Go, Resting, Up, Fenced,
       PlacesHold, Opened, ThreadsTyped, Threads, Fixed, Probers, Keys
  <2>7. KindsTyped' /\ ReadyHasBridge'
    BY <1>3 DEF Inv, KeyAnswered, KindsTyped, ReadyHasBridge, Up
  <2> QED
    BY <2>1, <2>2, <2>3, <2>4, <2>5, <2>6, <2>7 DEF Inv
<1>4. CASE KeyUnanswered(t)
  <2>1. ThreadsTyped'
    BY <1>4, GoTyped DEF Inv, KeyUnanswered, At, Threads, Fixed, Probers, Keys, Places
  <2>2. Moved
    BY <1>4, <2>1 DEF Inv, Moved, PlacesHold, ThreadsTyped, Opened, Fenced, Aside,
       KeyUnanswered, Go, Resting, At, Up, Threads, Fixed, Probers, Keys
  <2>3. lock' \in {"none", "worker", "manual"} /\ fg' \in BOOLEAN /\ held' \in BOOLEAN
    BY Zenon, <1>4 DEF Inv, KindsTyped, FlagsTyped, KeyUnanswered, At
  <2> QED
    BY <1>4, <2>2, <2>3, OnlyMoved DEF KeyUnanswered
<1>5. CASE GiveUp(t)
  <2>1. ThreadsTyped'
    BY <1>5, GoTyped DEF Inv, GiveUp, At, Current, Live, Leave, Threads, Fixed, Probers, Keys,
       Places
  <2>2. Moved
    BY <1>5, <2>1 DEF Inv, Moved, PlacesHold, ThreadsTyped, Opened, Fenced, Aside, GiveUp, At,
       Current, Live, Go, Resting, Leave, Up, Threads, Fixed, Probers, Keys
  <2>3. lock' \in {"none", "worker", "manual"} /\ fg' \in BOOLEAN /\ held' \in BOOLEAN
    BY Zenon, <1>5 DEF Inv, KindsTyped, FlagsTyped, GiveUp, At, Current, Live, Leave
  <2> QED
    BY <1>5, <2>2, <2>3, OnlyMoved DEF GiveUp
<1>6. CASE Demote(t)
  <2>1. ThreadsTyped'
    BY <1>6, GoTyped DEF Inv, Demote, At, Leave, Current, Live, Threads, Fixed, Probers, Keys,
       Places
  <2>2. KindsTyped'
    BY <1>6 DEF Inv, KindsTyped, States, Demote, At, Leave, Current, Live
  <2>3. FlagsTyped'
    BY Zenon, <1>6 DEF Inv, FlagsTyped, Demote, At, Leave, Current, Live
  <2>4. PlacesHold'
    BY <1>6 DEF Inv, PlacesHold, ThreadsTyped, KindsTyped, Opened, Demote, At, Go, Resting,
       Leave, Current, Live, Up, Threads, Fixed, Probers, Keys
  <2>5. CountHolds'
    BY <1>6, ReprobeOps, ReadinessAssumption DEF Inv, CountHolds, PlacesHold, ThreadsTyped,
       Aside, Demote, At, Go, Resting, Leave, Current, Live, Up, Threads, Fixed, Probers, Keys
  <2>6. ReadyHasBridge'
    BY <1>6 DEF Inv, ReadyHasBridge, PlacesHold, Demote, At, Leave, Current, Live, Up, Threads,
       Fixed, Probers, Keys
  <2>7. BootHolds' /\ FenceTyped' /\ GateHolds'
    BY <1>6, Hush DEF Inv, Hushed, Demote, At, Go, Resting, Leave, Current, Live, Up, Fenced,
       PlacesHold, Opened, ThreadsTyped, Threads, Fixed, Probers, Keys
  <2>8. ReprobeTyped'
    BY <1>6 DEF Inv, Demote, ReprobeTyped
  <2> QED
    BY <2>1, <2>2, <2>3, <2>4, <2>5, <2>6, <2>7, <2>8 DEF Inv
<1>7. CASE KeyWrites(t)
  <2>1. ThreadsTyped'
    BY <1>7, GoTyped DEF Inv, KeyWrites, Live, At, Threads, Fixed, Probers, Keys, Places
  <2>2. Moved
    BY <1>7, <2>1 DEF Inv, Moved, PlacesHold, ThreadsTyped, Opened, Fenced, Aside, KeyWrites,
       Live, Go, Resting, At, Up, Threads, Fixed, Probers, Keys
  <2>3. lock' \in {"none", "worker", "manual"} /\ fg' \in BOOLEAN /\ held' \in BOOLEAN
    BY Zenon, <1>7 DEF Inv, KindsTyped, FlagsTyped, KeyWrites, Live, At
  <2> QED
    BY <1>7, <2>2, <2>3, OnlyMoved DEF KeyWrites
<1> QED
  BY <1>1, <1>2, <1>3, <1>4, <1>5, <1>6, <1>7 DEF Pressing

\* When the keys did not help.
LEMMA FallingKeeps ==
  ASSUME Inv, FallBack \/ ForceRecover
  PROVE  Inv'
<1>1. CASE FallBack
  <2>1. ThreadsTyped'
    BY <1>1, GoTyped DEF Inv, FallBack, At, Current, Live, Threads, Fixed, Probers, Keys, Places
  <2>2. Moved
    BY <1>1, <2>1 DEF Inv, Moved, PlacesHold, ThreadsTyped, Opened, Fenced, Aside, FallBack, At,
       Go, Resting, Current, Live, Up, Threads, Fixed, Probers, Keys
  <2>3. lock' \in {"none", "worker", "manual"} /\ fg' \in BOOLEAN /\ held' \in BOOLEAN
    BY Zenon, <1>1 DEF Inv, KindsTyped, FlagsTyped, FallBack, At, Current, Live
  <2> QED
    BY <1>1, <2>2, <2>3, OnlyMoved DEF FallBack
<1>2. CASE ForceRecover
  <2>1. ThreadsTyped'
    <3> DEFINE p == [pc EXCEPT !["manual"] = "awaiting"]
    <3>1. p \in [Threads -> Places]
      BY DEF Inv, ThreadsTyped, Places
    <3>2. UNCHANGED on /\ (pc' = p \/ SpawnAttach(p))
      BY <1>2 DEF ForceRecover, Clearing
    <3> QED BY <3>1, <3>2, SpawnTyped DEF Inv, ThreadsTyped
  <2>2. KindsTyped'
    BY <1>2 DEF Inv, KindsTyped, States, ForceRecover, At, Released, Clearing, Up, BeginDrain,
       SpawnAttach
  <2>3. FlagsTyped'
    BY Zenon, <1>2 DEF Inv, FlagsTyped, ForceRecover, At, Released, Clearing, Up, BeginDrain,
       SpawnAttach
  <2>4. ReprobeTyped'
    BY <1>2, ReprobeOps DEF Inv, ReprobeTyped, CountHolds, PlacesHold, ForceRecover, At,
       Released, Clearing, Up, BeginDrain, SpawnAttach
  <2>5. PlacesHold'
    BY <1>2 DEF Inv, PlacesHold, ThreadsTyped, KindsTyped, Opened, ForceRecover, At, Released,
       Clearing, Up, BeginDrain, SpawnAttach, Threads, Fixed, Probers, Keys
  <2>6. CountHolds'
    BY <1>2, ReprobeOps, ReadinessAssumption DEF Inv, CountHolds, PlacesHold, ThreadsTyped,
       Aside, ForceRecover, At, Released, Clearing, Up, BeginDrain, SpawnAttach, Threads, Fixed,
       Probers, Keys
  <2>7. ReadyHasBridge'
    BY <1>2 DEF Inv, ReadyHasBridge, PlacesHold, ForceRecover, At, Released, Clearing, Up,
       BeginDrain, SpawnAttach, Threads, Fixed, Probers, Keys
  <2>8. BootHolds' /\ FenceTyped' /\ GateHolds'
    BY <1>2, Noted DEF Inv, ForceRecover, At, Released, Clearing, Up, BeginDrain, SpawnAttach,
       Fenced, Opened, ThreadsTyped, PlacesHold, Threads, Fixed, Probers, Keys
  <2> QED
    BY <2>1, <2>2, <2>3, <2>4, <2>5, <2>6, <2>7, <2>8 DEF Inv
<1> QED
  BY <1>1, <1>2

\* Commands.
LEMMA CommandKeeps ==
  ASSUME Inv, Command
  PROVE  Inv'
<1>1. ASSUME NEW c \in {"run", "reboot", "human_reboot"}, Execute(c)
      PROVE  Inv'
  <2>1. ThreadsTyped'
    <3>1. UNCHANGED <<pc, on>> \/ (GoOn("command", c) /\ "command" \in Threads /\ c \in Places)
      BY <1>1 DEF Execute, Threads, Fixed, Places
    <3> QED BY <3>1, GoTyped DEF Inv, ThreadsTyped
  <2>2. FlagsTyped'
    BY Zenon, <1>1 DEF Inv, FlagsTyped, Execute, At, Up, Expire, Admits
  <2>3. PlacesHold'
    BY <1>1 DEF Inv, PlacesHold, ThreadsTyped, KindsTyped, Opened, Execute, At, Up, Expire,
       Admits, GoOn, Threads, Fixed, Probers, Keys
  <2>4. CountHolds'
    BY <1>1, ReprobeOps, ReadinessAssumption DEF Inv, CountHolds, PlacesHold, ThreadsTyped,
       Aside, Execute, At, Up, Expire, Admits, GoOn, Threads, Fixed, Probers, Keys
  <2>5. BootHolds' /\ FenceTyped' /\ GateHolds'
    <3>0. UNCHANGED <<bridge, login>> /\ pc'["attach"] = pc["attach"]
      BY <1>1 DEF Inv, ThreadsTyped, Threads, Fixed, GoOn, Execute
    <3>1. CASE UNCHANGED <<boot, gate>>
      BY <3>0, <3>1, Hush DEF Inv, Hushed, Up
    <3>2. CASE Expire(Expired(boot))
      BY <3>0, <3>2, Looked, LookedAt, BootOps DEF Inv, BootHolds, Up
    <3> QED BY <1>1, <3>1, <3>2 DEF Execute
  <2>6. KindsTyped' /\ ReprobeTyped' /\ ReadyHasBridge'
    BY <1>1 DEF Inv, Execute, KindsTyped, ReprobeTyped, ReadyHasBridge, Up
  <2> QED
    BY <2>1, <2>2, <2>3, <2>4, <2>5, <2>6 DEF Inv
<1>2. CASE RunEnds
  <2>1. ThreadsTyped'
    BY <1>2, GoTyped DEF Inv, RunEnds, At, Leave, Current, Live, Threads, Fixed, Probers, Keys,
       Places
  <2>2. Moved
    BY <1>2, <2>1 DEF Inv, Moved, PlacesHold, ThreadsTyped, Opened, Fenced, Aside, RunEnds, At,
       Leave, Go, Resting, Current, Live, Up, Threads, Fixed, Probers, Keys
  <2>3. lock' \in {"none", "worker", "manual"} /\ fg' \in BOOLEAN /\ held' \in BOOLEAN
    BY Zenon, <1>2 DEF Inv, KindsTyped, FlagsTyped, RunEnds, At, Leave, Current, Live
  <2> QED
    BY <1>2, <2>2, <2>3, OnlyMoved DEF RunEnds
<1>3. CASE RebootPrepares
  <2>1. ThreadsTyped'
    BY <1>3, GoTyped DEF Inv, RebootPrepares, Current, Live, At, Leave, Threads, Fixed, Probers,
       Keys, Places
  <2>2. FlagsTyped'
    BY Zenon, <1>3 DEF Inv, FlagsTyped, RebootPrepares, Current, Live, At, Leave
  <2>3. PlacesHold'
    BY <1>3 DEF Inv, PlacesHold, ThreadsTyped, KindsTyped, Opened, RebootPrepares, Current,
       Live, Go, Resting, At, Leave, Up, Threads, Fixed, Probers, Keys
  <2>4. CountHolds'
    BY <1>3, ReprobeOps, ReadinessAssumption DEF Inv, CountHolds, PlacesHold, ThreadsTyped,
       Aside, RebootPrepares, Current, Live, Go, Resting, At, Leave, Up, Threads, Fixed,
       Probers, Keys
  <2>5. BootHolds' /\ FenceTyped' /\ GateHolds'
    BY <1>3, Noted DEF Inv, RebootPrepares, Current, Live, Go, Resting, At, Leave, Up, Fenced,
       Opened, ThreadsTyped, PlacesHold, Threads, Fixed, Probers, Keys
  <2>6. KindsTyped' /\ ReprobeTyped' /\ ReadyHasBridge'
    BY <1>3 DEF Inv, RebootPrepares, KindsTyped, ReprobeTyped, ReadyHasBridge, Up
  <2> QED
    BY <2>1, <2>2, <2>3, <2>4, <2>5, <2>6 DEF Inv
<1>4. CASE RebootRefused
  <2>1. ThreadsTyped'
    BY <1>4, GoTyped DEF Inv, RebootRefused, Live, At, Leave, Current, Threads, Fixed, Probers,
       Keys, Places
  <2>2. Moved
    BY <1>4, <2>1 DEF Inv, Moved, PlacesHold, ThreadsTyped, Opened, Fenced, Aside,
       RebootRefused, Live, At, Leave, Go, Resting, Current, Up, Threads, Fixed, Probers, Keys
  <2>3. lock' \in {"none", "worker", "manual"} /\ fg' \in BOOLEAN /\ held' \in BOOLEAN
    BY Zenon, <1>4 DEF Inv, KindsTyped, FlagsTyped, RebootRefused, Live, At, Leave, Current
  <2> QED
    BY <1>4, <2>2, <2>3, OnlyMoved DEF RebootRefused
<1>5. CASE RebootPrompt
  <2>1. ThreadsTyped'
    BY <1>5, GoTyped DEF Inv, RebootPrompt, Current, Live, SetBoot, Leave, Threads, Fixed,
       Probers, Keys, Places
  <2>2. FlagsTyped'
    BY Zenon, <1>5 DEF Inv, FlagsTyped, RebootPrompt, Current, Live, SetBoot, Leave
  <2>3. PlacesHold'
    BY <1>5 DEF Inv, PlacesHold, ThreadsTyped, KindsTyped, Opened, RebootPrompt, Current, Live,
       SetBoot, Leave, Go, Resting, Up, Threads, Fixed, Probers, Keys
  <2>4. CountHolds'
    BY <1>5, ReprobeOps, ReadinessAssumption DEF Inv, CountHolds, PlacesHold, ThreadsTyped,
       Aside, RebootPrompt, Current, Live, SetBoot, Leave, Go, Resting, Up, Threads, Fixed,
       Probers, Keys
  <2>5. BootHolds' /\ FenceTyped' /\ GateHolds'
    <3>0. /\ UNCHANGED <<bridge, login>> /\ pc'["attach"] = pc["attach"]
          /\ pc["attach"] \in Fenced => bridge # "none"
          /\ FenceTyped /\ BootHolds /\ GateHolds
      BY <1>5 DEF Inv, PlacesHold, Opened, Fenced, ThreadsTyped, Threads, Fixed, Go, Leave,
         RebootPrompt
    <3>1. CASE UNCHANGED <<boot, gate>>
      BY <3>0, <3>1, Hush DEF Hushed, Up
    <3>2. CASE ~UNCHANGED <<boot, gate>>
      <4> DEFINE b == [Cleared(boot) EXCEPT !.evidence = TRUE]
      <4>1. SetBoot(b)
        BY <1>5, <3>2 DEF RebootPrompt
      <4>2. BootOK(b)
        BY <3>0, BootOps DEF BootHolds
      <4> HIDE DEF b
      <4> QED BY <3>0, <4>1, <4>2, Told DEF SetBoot, FenceTyped, Up
    <3> QED BY <3>1, <3>2
  <2>6. KindsTyped' /\ ReprobeTyped' /\ ReadyHasBridge'
    BY <1>5 DEF Inv, RebootPrompt, KindsTyped, ReprobeTyped, ReadyHasBridge, Up
  <2> QED
    BY <2>1, <2>2, <2>3, <2>4, <2>5, <2>6 DEF Inv
<1>6. CASE RebootSilent
  <2>1. ThreadsTyped'
    <3>1. \/ Go("command", "idle")
          \/ \E l \in Loops : /\ pc' = [pc EXCEPT !["command"] = "idle", ![l] = "loop"]
                              /\ on' = [on EXCEPT !["command"] = FALSE]
      BY <1>6 DEF RebootSilent, Leave
    <3>2. "command" \in Threads /\ Loops \subseteq Threads /\ {"idle", "loop"} \subseteq Places
      BY DEF Threads, Fixed, Places
    <3>3. CASE Go("command", "idle")
      BY <3>2, <3>3, GoTyped DEF Inv
    <3>4. CASE ~Go("command", "idle")
      <4>1. PICK l \in Loops : pc' = [[pc EXCEPT !["command"] = "idle"] EXCEPT ![l] = "loop"]
        BY <3>1, <3>4
      <4>2. [pc EXCEPT !["command"] = "idle"] \in [Threads -> Places]
        BY <3>2 DEF Inv, ThreadsTyped
      <4>3. pc' \in [Threads -> Places]
        BY <3>2, <4>1, <4>2
      <4>4. on' \in [Threads -> BOOLEAN]
        BY <3>1, <3>4 DEF Inv, ThreadsTyped
      <4> QED BY <4>3, <4>4 DEF ThreadsTyped
    <3> QED BY <3>3, <3>4
  <2>2. KindsTyped'
    BY <1>6 DEF Inv, KindsTyped, States, RebootSilent, Current, Live, Leave, At
  <2>3. FlagsTyped'
    BY Zenon, <1>6 DEF Inv, FlagsTyped, RebootSilent, Current, Live, Leave, At
  <2>4. PlacesHold'
    BY <1>6, ReadinessAssumption DEF Inv, PlacesHold, ThreadsTyped, KindsTyped, Opened,
       RebootSilent, Current, Live, Leave, Go, Resting, At, Up, Threads, Fixed, Probers, Keys
  <2>5. CountHolds'
    BY <1>6, ReprobeOps, ReadinessAssumption DEF Inv, CountHolds, PlacesHold, ThreadsTyped,
       Aside, RebootSilent, Current, Live, Leave, Go, Resting, At, Up, Threads, Fixed, Probers,
       Keys
  <2>6. ReadyHasBridge'
    BY <1>6 DEF Inv, ReadyHasBridge, PlacesHold, RebootSilent, Current, Live, Leave, At, Up,
       Threads, Fixed, Probers, Keys
  <2>7. BootHolds' /\ FenceTyped' /\ GateHolds'
    BY <1>6, Hush, ReadinessAssumption DEF Inv, Hushed, RebootSilent, Current, Live, Leave, Go,
       Resting, At, Up, Fenced, PlacesHold, Opened, ThreadsTyped, Threads, Fixed, Probers, Keys
  <2>8. ReprobeTyped'
    BY <1>6 DEF Inv, RebootSilent, ReprobeTyped
  <2> QED
    BY <2>1, <2>2, <2>3, <2>4, <2>5, <2>6, <2>7, <2>8 DEF Inv
<1> QED
  BY <1>1, <1>2, <1>3, <1>4, <1>5, <1>6 DEF Command

\* A command reaches the board.
LEMMA CommandWrites ==
  ASSUME Inv, RunWrites \/ RebootWrites
  PROVE  Inv'
<1>1. CASE RunWrites
  <2>1. ThreadsTyped'
    BY <1>1, GoTyped DEF Inv, RunWrites, At, Live, Leave, Current, Threads, Fixed, Probers,
       Keys, Places
  <2>2. Moved
    BY <1>1, <2>1 DEF Inv, Moved, PlacesHold, ThreadsTyped, Opened, Fenced, Aside, RunWrites,
       At, Live, Go, Resting, Leave, Current, Up, Threads, Fixed, Probers, Keys
  <2>3. lock' \in {"none", "worker", "manual"} /\ fg' \in BOOLEAN /\ held' \in BOOLEAN
    BY Zenon, <1>1 DEF Inv, KindsTyped, FlagsTyped, RunWrites, At, Live, Leave, Current
  <2> QED
    BY <1>1, <2>2, <2>3, OnlyMoved DEF RunWrites
<1>2. CASE RebootWrites
  <2>1. ThreadsTyped'
    BY <1>2, GoTyped DEF Inv, RebootWrites, Live, At, Arm, Leave, Current, Threads, Fixed,
       Probers, Keys, Places
  <2>2. FlagsTyped'
    BY Zenon, <1>2 DEF Inv, FlagsTyped, RebootWrites, Live, At, Arm, Leave, Current
  <2>3. PlacesHold'
    BY <1>2 DEF Inv, PlacesHold, ThreadsTyped, KindsTyped, Opened, RebootWrites, Live, At, Arm,
       Go, Resting, Leave, Current, Up, Threads, Fixed, Probers, Keys
  <2>4. CountHolds'
    BY <1>2, ReprobeOps, ReadinessAssumption DEF Inv, CountHolds, PlacesHold, ThreadsTyped,
       Aside, RebootWrites, Live, At, Arm, Go, Resting, Leave, Current, Up, Threads, Fixed,
       Probers, Keys
  <2>5. BootHolds' /\ FenceTyped' /\ GateHolds'
    BY <1>2, Told, BootOps DEF Inv, BootHolds, Hushed, FenceTyped, KindsTyped, Confirmed,
       RebootWrites, Live, At, Arm, Go, Resting, Leave, Current, Up, Fenced, Opened,
       ThreadsTyped, PlacesHold, Threads, Fixed, Probers, Keys
  <2>6. KindsTyped' /\ ReprobeTyped' /\ ReadyHasBridge'
    BY <1>2 DEF Inv, RebootWrites, KindsTyped, ReprobeTyped, ReadyHasBridge, Up
  <2> QED
    BY <2>1, <2>2, <2>3, <2>4, <2>5, <2>6 DEF Inv
<1> QED
  BY <1>1, <1>2

\* self_test.
LEMMA SelfTestKeeps ==
  ASSUME Inv, SelfTest \/ SelfTestWrites \/ SelfTestAnswered \/ SelfTestConfirms
  PROVE  Inv'
<1>1. CASE SelfTest
  <2>1. ThreadsTyped'
    BY <1>1, GoTyped DEF Inv, SelfTest, At, Up, Threads, Fixed, Probers, Keys, Places
  <2>2. Moved
    BY <1>1, <2>1 DEF Inv, Moved, PlacesHold, ThreadsTyped, Opened, Fenced, Aside, SelfTest, At,
       Up, GoOn, Threads, Fixed, Probers, Keys
  <2>3. lock' \in {"none", "worker", "manual"} /\ fg' \in BOOLEAN /\ held' \in BOOLEAN
    BY Zenon, <1>1 DEF Inv, KindsTyped, FlagsTyped, SelfTest, At, Up
  <2> QED
    BY <1>1, <2>2, <2>3, OnlyMoved DEF SelfTest
<1>2. CASE SelfTestWrites
  <2>1. ThreadsTyped'
    BY <1>2, GoTyped DEF Inv, SelfTestWrites, At, Live, Threads, Fixed, Probers, Keys, Places
  <2>2. Moved
    BY <1>2, <2>1 DEF Inv, Moved, PlacesHold, ThreadsTyped, Opened, Fenced, Aside,
       SelfTestWrites, At, Go, Resting, Live, Up, Threads, Fixed, Probers, Keys
  <2>3. lock' \in {"none", "worker", "manual"} /\ fg' \in BOOLEAN /\ held' \in BOOLEAN
    BY Zenon, <1>2 DEF Inv, KindsTyped, FlagsTyped, SelfTestWrites, At, Live
  <2> QED
    BY <1>2, <2>2, <2>3, OnlyMoved DEF SelfTestWrites
<1>3. CASE SelfTestAnswered
  <2>1. ThreadsTyped'
    BY <1>3, GoTyped DEF Inv, SelfTestAnswered, At, Threads, Fixed, Probers, Keys, Places
  <2>2. Moved
    BY <1>3, <2>1 DEF Inv, Moved, PlacesHold, ThreadsTyped, Opened, Fenced, Aside,
       SelfTestAnswered, At, Go, Resting, Up, Threads, Fixed, Probers, Keys
  <2>3. lock' \in {"none", "worker", "manual"} /\ fg' \in BOOLEAN /\ held' \in BOOLEAN
    BY Zenon, <1>3 DEF Inv, KindsTyped, FlagsTyped, SelfTestAnswered, At
  <2> QED
    BY <1>3, <2>2, <2>3, OnlyMoved DEF SelfTestAnswered
<1>4. CASE SelfTestConfirms
  <2>1. ThreadsTyped'
    BY <1>4, GoTyped DEF Inv, SelfTestConfirms, At, SetBoot, Threads, Fixed, Probers, Keys,
       Places
  <2>2. PlacesHold'
    BY <1>4 DEF Inv, PlacesHold, ThreadsTyped, KindsTyped, Opened, SelfTestConfirms, At,
       SetBoot, Go, Resting, Up, Threads, Fixed, Probers, Keys
  <2>3. CountHolds'
    BY <1>4, ReprobeOps, ReadinessAssumption DEF Inv, CountHolds, PlacesHold, ThreadsTyped,
       Aside, SelfTestConfirms, At, SetBoot, Go, Resting, Up, Threads, Fixed, Probers, Keys
  <2>4. BootHolds' /\ FenceTyped' /\ GateHolds'
    BY <1>4, Told, BootOps DEF Inv, BootHolds, Hushed, FenceTyped, KindsTyped, Confirmed,
       SelfTestConfirms, At, SetBoot, Go, Resting, Up, Fenced, Opened, ThreadsTyped, PlacesHold,
       Threads, Fixed, Probers, Keys
  <2>5. KindsTyped' /\ FlagsTyped' /\ ReprobeTyped' /\ ReadyHasBridge'
    BY <1>4 DEF Inv, SelfTestConfirms, KindsTyped, FlagsTyped, ReprobeTyped, ReadyHasBridge, Up
  <2> QED
    BY <2>1, <2>2, <2>3, <2>4, <2>5 DEF Inv
<1> QED
  BY <1>1, <1>2, <1>3, <1>4

\* A recovery loop.
LEMMA LoopKeeps ==
  ASSUME Inv, NEW l \in Loops, Loop(l)
  PROVE  Inv'
<1>1. CASE LoopProbes(l)
  <2>1. ThreadsTyped'
    BY <1>1, GoTyped DEF Inv, LoopProbes, At, Up, BeginRun, Threads, Fixed, Probers, Keys,
       Places
  <2>2. PlacesHold'
    BY <1>1, ReadinessAssumption DEF Inv, PlacesHold, ThreadsTyped, KindsTyped, Opened,
       LoopProbes, At, Up, BeginRun, GoOn, Threads, Fixed, Probers, Keys
  <2>3. CountHolds'
    BY <1>1, ReprobeOps, ReadinessAssumption DEF Inv, CountHolds, PlacesHold, ThreadsTyped,
       Aside, LoopProbes, At, Up, BeginRun, GoOn, Threads, Fixed, Probers, Keys
  <2>4. BootHolds' /\ FenceTyped' /\ GateHolds'
    BY <1>1, Begun, Hush, ReadinessAssumption DEF Inv, Hushed, KindsTyped, LoopProbes, At, Up,
       BeginRun, GoOn, Fenced, Opened, ThreadsTyped, PlacesHold, Threads, Fixed, Probers, Keys
  <2>5. KindsTyped' /\ FlagsTyped' /\ ReprobeTyped' /\ ReadyHasBridge'
    BY <1>1 DEF Inv, LoopProbes, KindsTyped, FlagsTyped, ReprobeTyped, ReadyHasBridge, Up
  <2> QED
    BY <2>1, <2>2, <2>3, <2>4, <2>5 DEF Inv
<1>2. CASE LoopAttaches(l)
  <2>1. ThreadsTyped'
    BY <1>2, SpawnTyped DEF Inv, ThreadsTyped, LoopAttaches
  <2>2. Moved
    BY <1>2, <2>1, ReadinessAssumption DEF Inv, Moved, PlacesHold, ThreadsTyped, Opened, Fenced,
       Aside, LoopAttaches, At, Up, Released, SpawnAttach, Threads, Fixed, Probers, Keys
  <2>3. lock' \in {"none", "worker", "manual"} /\ fg' \in BOOLEAN /\ held' \in BOOLEAN
    BY Zenon, <1>2 DEF Inv, KindsTyped, FlagsTyped, LoopAttaches, At, Up, Released, SpawnAttach
  <2> QED
    BY <1>2, <2>2, <2>3, OnlyMoved DEF LoopAttaches
<1>3. CASE LoopAnswered(l)
  <2>1. ThreadsTyped'
    BY <1>3, GoTyped DEF Inv, LoopAnswered, At, Live, SetBoot, Threads, Fixed, Probers, Keys,
       Places
  <2>2. KindsTyped'
    BY <1>3 DEF Inv, KindsTyped, States, LoopAnswered, At, Live, SetBoot
  <2>3. FlagsTyped'
    BY Zenon, <1>3 DEF Inv, FlagsTyped, LoopAnswered, At, Live, SetBoot
  <2>4. ReprobeTyped'
    BY <1>3, ReprobeOps DEF Inv, ReprobeTyped, CountHolds, PlacesHold, LoopAnswered, At, Live,
       SetBoot, Up
  <2>5. PlacesHold'
    BY <1>3, ReadinessAssumption DEF Inv, PlacesHold, ThreadsTyped, KindsTyped, Opened,
       LoopAnswered, At, Live, Go, Resting, SetBoot, Up, Threads, Fixed, Probers, Keys
  <2>6. CountHolds'
    BY <1>3, ReprobeOps, ReadinessAssumption DEF Inv, CountHolds, PlacesHold, ThreadsTyped,
       Aside, LoopAnswered, At, Live, Go, Resting, SetBoot, Up, Threads, Fixed, Probers, Keys
  <2>7. ReadyHasBridge'
    <3>1. l \in Threads /\ l # "attach"
      BY ReadinessAssumption DEF Threads, Fixed
    <3>2. Live(l) => Up
      BY <3>1 DEF Inv, PlacesHold, Live
    <3>3. state' = state \/ (state' = "READY" /\ Live(l))
      BY <1>3 DEF LoopAnswered
    <3> QED BY <1>3, <3>2, <3>3 DEF Inv, ReadyHasBridge, LoopAnswered, Up
  <2>8. BootHolds' /\ FenceTyped' /\ GateHolds'
    <3>0. /\ UNCHANGED <<bridge, login>> /\ pc'["attach"] = pc["attach"]
          /\ pc["attach"] \in Fenced => bridge # "none"
          /\ FenceTyped /\ BootHolds /\ GateHolds
      BY <1>3, ReadinessAssumption DEF Inv, PlacesHold, Opened, Fenced, ThreadsTyped,
         Threads, Fixed, Go, LoopAnswered
    <3>1. CASE UNCHANGED <<boot, gate>>
      BY <3>0, <3>1, Hush DEF Hushed, Up
    <3>2. CASE ~UNCHANGED <<boot, gate>>
      <4>1. SetBoot(Confirmed)
        BY <1>3, <3>2 DEF LoopAnswered
      <4> QED BY <3>0, <4>1, Told, BootOps DEF SetBoot, Confirmed, FenceTyped, BootHolds, Up
    <3> QED BY <3>1, <3>2
  <2> QED
    BY <2>1, <2>2, <2>3, <2>4, <2>5, <2>6, <2>7, <2>8 DEF Inv
<1>4. CASE LoopEnds(l)
  <2>1. ThreadsTyped'
    BY <1>4, GoTyped DEF Inv, LoopEnds, At, Up, Threads, Fixed, Probers, Keys, Places
  <2>2. KindsTyped'
    BY <1>4 DEF Inv, KindsTyped, States, LoopEnds, At, Up
  <2>3. FlagsTyped'
    BY Zenon, <1>4 DEF Inv, FlagsTyped, LoopEnds, At, Up
  <2>4. PlacesHold'
    BY <1>4, ReadinessAssumption DEF Inv, PlacesHold, ThreadsTyped, KindsTyped, Opened,
       LoopEnds, At, Go, Resting, Up, Threads, Fixed, Probers, Keys
  <2>5. CountHolds'
    BY <1>4, ReprobeOps, ReadinessAssumption DEF Inv, CountHolds, PlacesHold, ThreadsTyped,
       Aside, LoopEnds, At, Go, Resting, Up, Threads, Fixed, Probers, Keys
  <2>6. ReadyHasBridge'
    BY <1>4 DEF Inv, ReadyHasBridge, PlacesHold, LoopEnds, At, Up, Threads, Fixed, Probers, Keys
  <2>7. BootHolds' /\ FenceTyped' /\ GateHolds'
    BY <1>4, Hush, ReadinessAssumption DEF Inv, Hushed, LoopEnds, At, Go, Resting, Up, Fenced,
       PlacesHold, Opened, ThreadsTyped, Threads, Fixed, Probers, Keys
  <2>8. ReprobeTyped'
    BY <1>4 DEF Inv, LoopEnds, ReprobeTyped
  <2> QED
    BY <2>1, <2>2, <2>3, <2>4, <2>5, <2>6, <2>7, <2>8 DEF Inv
<1> QED
  BY <1>1, <1>2, <1>3, <1>4 DEF Loop

\* The attach worker.
LEMMA AttachingKeeps ==
  ASSUME Inv, Attaching
  PROVE  Inv'
<1>1. CASE AttachStops
  <2>1. ThreadsTyped'
    BY <1>1, GoTyped DEF Inv, AttachStops, At, Up, Released, AttachExit, Threads, Fixed,
       Probers, Keys, Places
  <2>2. Moved
    BY <1>1, <2>1 DEF Inv, Moved, PlacesHold, ThreadsTyped, Opened, Fenced, Aside, AttachStops,
       At, Up, Released, AttachExit, Go, Resting, Threads, Fixed, Probers, Keys
  <2>3. lock' \in {"none", "worker", "manual"} /\ fg' \in BOOLEAN /\ held' \in BOOLEAN
    BY Zenon, <1>1 DEF Inv, KindsTyped, FlagsTyped, AttachStops, At, Up, Released, AttachExit
  <2> QED
    BY <1>1, <2>2, <2>3, OnlyMoved DEF AttachStops
<1>2. CASE AttachOpens
  <2>1. ThreadsTyped'
    BY <1>2, GoTyped DEF Inv, AttachOpens, At, Up, Released, Threads, Fixed, Probers, Keys,
       Places
  <2>2. KindsTyped'
    BY <1>2 DEF Inv, KindsTyped, States, AttachOpens, At, Up, Released
  <2>3. PlacesHold'
    BY <1>2 DEF Inv, PlacesHold, ThreadsTyped, KindsTyped, Opened, AttachOpens, At, Up,
       Released, GoOn, Threads, Fixed, Probers, Keys
  <2>4. CountHolds'
    BY <1>2, ReprobeOps, ReadinessAssumption DEF Inv, CountHolds, PlacesHold, ThreadsTyped,
       Aside, AttachOpens, At, Up, Released, GoOn, Threads, Fixed, Probers, Keys
  <2>5. ReadyHasBridge'
    BY <1>2 DEF Inv, ReadyHasBridge, PlacesHold, AttachOpens, At, Up, Released, Threads, Fixed,
       Probers, Keys
  <2>6. BootHolds' /\ FenceTyped' /\ GateHolds'
    BY <1>2, BootOps, PushedTyped DEF Inv, GateHolds, BootHolds, BootOK, Boots, FenceTyped,
       Gates, Quiet, Gated, NoGate, KindsTyped, AttachOpens, At, Up, Released, GoOn, Fenced,
       Opened, ThreadsTyped, PlacesHold, Threads, Fixed, Probers, Keys
  <2>7. FlagsTyped' /\ ReprobeTyped'
    BY <1>2 DEF Inv, AttachOpens, FlagsTyped, ReprobeTyped
  <2> QED
    BY <2>1, <2>2, <2>3, <2>4, <2>5, <2>6, <2>7 DEF Inv
<1>3. CASE AttachFails
  <2>1. ThreadsTyped'
    BY <1>3, GoTyped DEF Inv, AttachFails, AttachExit, Threads, Fixed, Probers, Keys, Places
  <2>2. KindsTyped'
    BY <1>3 DEF Inv, KindsTyped, States, AttachFails, AttachExit
  <2>3. PlacesHold'
    BY <1>3 DEF Inv, PlacesHold, ThreadsTyped, KindsTyped, Opened, AttachFails, AttachExit, Go,
       Resting, Up, Threads, Fixed, Probers, Keys
  <2>4. CountHolds'
    BY <1>3, ReprobeOps, ReadinessAssumption DEF Inv, CountHolds, PlacesHold, ThreadsTyped,
       Aside, AttachFails, AttachExit, Go, Resting, Up, Threads, Fixed, Probers, Keys
  <2>5. ReadyHasBridge'
    BY <1>3 DEF Inv, ReadyHasBridge, PlacesHold, AttachFails, AttachExit, Up, Threads, Fixed,
       Probers, Keys
  <2>6. BootHolds' /\ FenceTyped' /\ GateHolds'
    BY <1>3, Hush DEF Inv, Hushed, AttachFails, AttachExit, Go, Resting, Up, Fenced, PlacesHold,
       Opened, ThreadsTyped, Threads, Fixed, Probers, Keys
  <2>7. FlagsTyped' /\ ReprobeTyped'
    BY <1>3 DEF Inv, AttachFails, FlagsTyped, ReprobeTyped
  <2> QED
    BY <2>1, <2>2, <2>3, <2>4, <2>5, <2>6, <2>7 DEF Inv
<1>4. CASE AttachProbes
  <2>1. ThreadsTyped'
    BY <1>4, GoTyped DEF Inv, AttachProbes, At, BeginRun, Threads, Fixed, Probers, Keys, Places
  <2>2. PlacesHold'
    BY <1>4 DEF Inv, PlacesHold, ThreadsTyped, KindsTyped, Opened, AttachProbes, At, Go,
       Resting, BeginRun, GoOn, Up, Threads, Fixed, Probers, Keys
  <2>3. CountHolds'
    BY <1>4, ReprobeOps, ReadinessAssumption DEF Inv, CountHolds, PlacesHold, ThreadsTyped,
       Aside, AttachProbes, At, Go, Resting, BeginRun, GoOn, Up, Threads, Fixed, Probers, Keys
  <2>4. BootHolds' /\ FenceTyped' /\ GateHolds'
    BY <1>4, Begun, Hush DEF Inv, Hushed, KindsTyped, AttachProbes, At, Go, Resting, BeginRun,
       GoOn, Up, Fenced, Opened, ThreadsTyped, PlacesHold, Threads, Fixed, Probers, Keys
  <2>5. KindsTyped' /\ FlagsTyped' /\ ReprobeTyped' /\ ReadyHasBridge'
    BY <1>4 DEF Inv, AttachProbes, KindsTyped, FlagsTyped, ReprobeTyped, ReadyHasBridge, Up
  <2> QED
    BY <2>1, <2>2, <2>3, <2>4, <2>5 DEF Inv
<1>5. CASE AttachLoggedOut
  <2>1. ThreadsTyped'
    BY <1>5, GoTyped DEF Inv, AttachLoggedOut, At, AttachExit, Threads, Fixed, Probers, Keys,
       Places
  <2>2. KindsTyped'
    BY <1>5 DEF Inv, KindsTyped, States, AttachLoggedOut, At, AttachExit
  <2>3. PlacesHold'
    BY <1>5 DEF Inv, PlacesHold, ThreadsTyped, KindsTyped, Opened, AttachLoggedOut, At,
       AttachExit, Go, Resting, Up, Threads, Fixed, Probers, Keys
  <2>4. CountHolds'
    BY <1>5, ReprobeOps, ReadinessAssumption DEF Inv, CountHolds, PlacesHold, ThreadsTyped,
       Aside, AttachLoggedOut, At, AttachExit, Go, Resting, Up, Threads, Fixed, Probers, Keys
  <2>5. ReadyHasBridge'
    BY <1>5 DEF Inv, ReadyHasBridge, PlacesHold, AttachLoggedOut, At, AttachExit, Up, Threads,
       Fixed, Probers, Keys
  <2>6. BootHolds' /\ FenceTyped' /\ GateHolds'
    BY <1>5, Hush DEF Inv, Hushed, AttachLoggedOut, At, AttachExit, Go, Resting, Up, Fenced,
       PlacesHold, Opened, ThreadsTyped, Threads, Fixed, Probers, Keys
  <2>7. FlagsTyped' /\ ReprobeTyped'
    BY <1>5 DEF Inv, AttachLoggedOut, FlagsTyped, ReprobeTyped
  <2> QED
    BY <2>1, <2>2, <2>3, <2>4, <2>5, <2>6, <2>7 DEF Inv
<1>6. CASE Publish
  <2>1. ThreadsTyped'
    BY <1>6, GoTyped DEF Inv, Publish, AttachExit, At, SetBoot, Threads, Fixed, Probers, Keys,
       Places
  <2>2. KindsTyped'
    BY <1>6 DEF Inv, KindsTyped, States, Publish, AttachExit, At, SetBoot
  <2>3. FlagsTyped'
    BY Zenon, <1>6 DEF Inv, FlagsTyped, Publish, AttachExit, At, SetBoot
  <2>4. ReprobeTyped'
    BY <1>6, ReprobeOps DEF Inv, ReprobeTyped, CountHolds, PlacesHold, Publish, AttachExit, At,
       SetBoot, Up
  <2>5. PlacesHold'
    BY <1>6 DEF Inv, PlacesHold, ThreadsTyped, KindsTyped, Opened, Publish, AttachExit, Go,
       Resting, At, SetBoot, Up, Threads, Fixed, Probers, Keys
  <2>6. CountHolds'
    BY <1>6, ReprobeOps, ReadinessAssumption DEF Inv, CountHolds, PlacesHold, ThreadsTyped,
       Aside, Publish, AttachExit, Go, Resting, At, SetBoot, Up, Threads, Fixed, Probers, Keys
  <2>7. ReadyHasBridge'
    BY <1>6 DEF Inv, ReadyHasBridge, PlacesHold, Publish, AttachExit, At, SetBoot, Up, Threads,
       Fixed, Probers, Keys
  <2>8. BootHolds' /\ FenceTyped' /\ GateHolds'
    <3>0. /\ UNCHANGED login /\ pc'["attach"] \notin Fenced /\ bridge # "none"
          /\ FenceTyped /\ BootHolds /\ GateHolds
      BY <1>6 DEF Inv, PlacesHold, Opened, Fenced, ThreadsTyped, Threads, Fixed, Go, AttachExit,
         Publish
    <3>1. CASE UNCHANGED <<boot, gate>> /\ bridge' = "none"
      BY <3>0, <3>1, Hush DEF Hushed, Up
    <3>2. CASE SetBoot(Confirmed) \/ SetBoot(Expired(boot))
      BY <3>0, <3>2, Told, BootOps DEF SetBoot, Confirmed, FenceTyped, BootHolds
    <3> QED BY <1>6, <3>1, <3>2 DEF Publish
  <2> QED
    BY <2>1, <2>2, <2>3, <2>4, <2>5, <2>6, <2>7, <2>8 DEF Inv
<1> QED
  BY <1>1, <1>2, <1>3, <1>4, <1>5, <1>6 DEF Attaching

-----------------------------------------------------------------------------
(* The invariant of the specification.                                     *)

\* It holds when the daemon starts.
LEMMA InitInv ==
  Init => Inv
<1> SUFFICES ASSUME Init
             PROVE  Inv
  OBVIOUS
<1>1. BootOK(NoBoot)
  <2>1. NoBoot \in Boots /\ ~NoBoot.pending /\ NoBoot.quiet = "off"
    BY ReadinessAssumption DEF Boots, NoBoot
  <2> QED BY <2>1 DEF BootOK, Quiet
<1>2. FenceTyped /\ ReprobeTyped
  BY ReadinessAssumption DEF Init, FenceTyped, Gates, NoGate, ReprobeTyped, Reprobes, Fresh
<1>3. ThreadsTyped /\ \A t \in Threads : pc[t] = "idle" /\ on[t] = FALSE
  BY DEF Init, ThreadsTyped, Places
<1>4. KindsTyped /\ ReadyHasBridge
  BY DEF Init, KindsTyped, States, ReadyHasBridge, Up
<1>5. FlagsTyped
  BY Zenon DEF Init, FlagsTyped
<1>6. PlacesHold /\ CountHolds
  BY <1>3 DEF Init, PlacesHold, CountHolds, Threads, Fixed, Opened, Up
<1>7. GateHolds
  BY <1>3 DEF Init, GateHolds, NoGate, NoBoot, Quiet, Gated, Threads, Fixed, Fenced
<1> QED BY <1>1, <1>2, <1>3, <1>4, <1>5, <1>6, <1>7 DEF Init, Inv, BootHolds

\* It is about the variables.
LEMMA StutterInv ==
  Inv /\ UNCHANGED vars => Inv'
BY DEF Inv, vars, KindsTyped, FlagsTyped, FenceTyped, ReprobeTyped, ThreadsTyped, PlacesHold,
   BootHolds, BootOK, GateHolds, CountHolds, ReadyHasBridge, Up, Quiet, Gated

\* Every step keeps it.
LEMMA NextInv ==
  ASSUME Inv, [Next]_vars
  PROVE  Inv'
<1>1. CASE Unlocked
  BY <1>1, TimeKeeps, WritingKeeps, PressingKeeps, CommandWrites, SelfTestKeeps, ManualKeeps
     DEF Unlocked
<1>2. CASE DrainEnds
  BY <1>2, DrainKeeps
<1>3. CASE Sections
  <2>1. CASE Received \/ Ticked \/ Worker \/ Called \/ BridgeDies \/ Command \/ Attaching
    BY <2>1, ReceivedKeeps, TickedKeeps, WorkerKeeps, CalledKeeps, DrainKeeps, CommandKeeps,
       AttachingKeeps
  <2>2. CASE \E t \in {"worker", "manual"} : ProbeStart(t) \/ ProbeEnds(t)
    BY <2>2, ProbingKeeps
  <2>3. CASE (\E t \in Keys : Pressing(t)) \/ FallBack \/ ForceRecover
    BY <2>3, PressingKeeps, FallingKeeps
  <2>4. CASE SelfTest \/ SelfTestConfirms \/ \E l \in Loops : Loop(l)
    BY <2>4, SelfTestKeeps, LoopKeeps
  <2> QED BY <1>3, <2>1, <2>2, <2>3, <2>4 DEF Sections
<1>4. CASE UNCHANGED vars
  BY <1>4, StutterInv
<1> QED BY <1>1, <1>2, <1>3, <1>4 DEF Next

\* The invariant: the fence of the bridge agrees with the session's window, for
\* the session's bridge and for the one the attach worker probes; threads go on
\* over a bridge that is there; a confirmation and a probe have attempts left.
THEOREM ReadinessInvariant ==
  Spec => []Inv
<1>1. Inv /\ [Next]_vars => Inv'
  BY NextInv
<1> QED BY <1>1, InitInv, PTL DEF Spec

\* The state of the session keeps its types, and attempts stop at their maximum
\* (record_reprobe_attempt, expire_ready_reconfirm).
THEOREM TypeCorrect ==
  Spec => []TypeOK
BY ReadinessInvariant, Types, PTL

\* The fence of the bridge closes with the session's window and confirmation
\* (_push_probe_gate, _push_tx_gate), over every change of bridge.
THEOREM FenceAgrees ==
  Spec => []GateAgrees
<1>1. Inv => GateAgrees
  BY DEF Inv, GateHolds, GateAgrees
<1> QED BY <1>1, ReadinessInvariant, PTL

\* READY means a bridge, whatever answer comes late (_probe_existing_bridge,
\* _spawn_reboot_recovery, _attach_by_id).
THEOREM ReadyOverBridge ==
  Spec => []ReadyHasBridge
<1>1. Inv => ReadyHasBridge
  BY DEF Inv
<1> QED BY <1>1, ReadinessInvariant, PTL

-----------------------------------------------------------------------------
(* What reaches the board.                                                 *)

\* Nobody writes in the step.
Silent ==
  /\ \A t \in Probers : ~ProbeWrote(t)
  /\ \A t \in Keys : ~KeyPressed(t)
  /\ ~SelfTested /\ ~AgentWrote

\* Only the five steps that pass the fence write.
LEMMA OthersSilent ==
  ASSUME Inv, [Next]_vars, ~Silent
  PROVE  \/ \E t \in Probers : ProbeWrites(t)
         \/ \E t \in Keys : KeyWrites(t)
         \/ SelfTestWrites \/ RunWrites \/ RebootWrites
<1>1. CASE RxBanner \/ RxPrompt
  BY <1>1, ReadinessAssumption DEF Inv, ThreadsTyped, Silent, ProbeWrote, KeyPressed,
     SelfTested, AgentWrote, RxBanner, Arm, Threads, Fixed, Probers, Keys, At, RxPrompt, SetBoot
<1>2. CASE QuietEnds \/ DeadlinePasses \/ EvidenceEnds \/ BackoffEnds
  BY <1>2, ReadinessAssumption DEF Inv, ThreadsTyped, Silent, ProbeWrote, KeyPressed,
     SelfTested, AgentWrote, QuietEnds, Threads, Fixed, Probers, Keys, At, DeadlinePasses,
     EvidenceEnds, BackoffEnds
<1>3. ASSUME NEW t \in Probers, ProbeRefused(t) \/ ProbeRaises(t) \/ ProbeAnswers(t)
      PROVE  Silent
  BY <1>3, ReadinessAssumption DEF Inv, ThreadsTyped, Silent, ProbeWrote, KeyPressed,
     SelfTested, AgentWrote, ProbeRefused, Live, FenceOpen, Go, Resting, Threads, Fixed,
     Probers, Keys, At, ProbeRaises, ProbeAnswers
<1>4. ASSUME NEW t \in {"worker", "manual"}, ProbeStart(t) \/ ProbeEnds(t)
      PROVE  Silent
  BY <1>4, ReadinessAssumption DEF Inv, ThreadsTyped, Silent, ProbeWrote, KeyPressed,
     SelfTested, AgentWrote, ProbeStart, At, Gone, Go, Resting, BeginRun, GoOn, Threads, Fixed,
     Probers, Keys, ProbeEnds, SetBoot
<1>5. CASE TickExpires \/ TickExhausts \/ TickProbes \/ TickAttaches
  BY <1>5, ReadinessAssumption DEF Inv, ThreadsTyped, Silent, ProbeWrote, KeyPressed,
     SelfTested, AgentWrote, TickExpires, Released, Expire, Threads, Fixed, Probers, Keys, At,
     TickExhausts, Considered, Owes, Exhausted, TickProbes, Due, Up, GoOn, TickAttaches,
     SpawnAttach
<1>6. CASE WorkerYields \/ WorkerStarts \/ WorkerRaised \/ WorkerFinishes \/ WorkerLeaves
  BY <1>6, ReadinessAssumption DEF Inv, ThreadsTyped, Silent, ProbeWrote, KeyPressed,
     SelfTested, AgentWrote, WorkerYields, At, Go, Resting, Threads, Fixed, Probers, Keys,
     WorkerStarts, Gone, Released, Expire, StillValid, WorkerRaised, WorkerFinishes,
     WorkerLeaves
<1>7. CASE Recover \/ RecoverForced \/ AttachSession \/ Clear \/ Release \/ Reclaim
  BY <1>7, ReadinessAssumption DEF Inv, ThreadsTyped, Silent, ProbeWrote, KeyPressed,
     SelfTested, AgentWrote, Recover, At, Released, Up, Reattach, SpawnAttach, GoOn, Threads,
     Fixed, Probers, Keys, RecoverForced, BeginDrain, Go, Resting, AttachSession, Clear,
     Clearing, Release, Reclaim
<1>8. CASE AwaitEnds \/ ManualLocks \/ ManualAnswered
  BY <1>8, ReadinessAssumption DEF Inv, ThreadsTyped, Silent, ProbeWrote, KeyPressed,
     SelfTested, AgentWrote, AwaitEnds, At, Go, Resting, Threads, Fixed, Probers, Keys,
     ManualLocks, ManualAnswered
<1>9. CASE BridgeDies \/ DrainEnds
  BY <1>9, ReadinessAssumption DEF Inv, ThreadsTyped, Silent, ProbeWrote, KeyPressed,
     SelfTested, AgentWrote, BridgeDies, Up, BeginDrain, Threads, Fixed, Probers, Keys, At,
     DrainEnds, SpawnAttach
<1>10. ASSUME NEW t \in Keys, \/ KeyAllowed(t) \/ KeyRefused(t) \/ KeyAnswered(t)
                              \/ KeyUnanswered(t) \/ GiveUp(t) \/ Demote(t)
       PROVE  Silent
  BY <1>10, ReadinessAssumption DEF Inv, ThreadsTyped, Silent, ProbeWrote, KeyPressed,
     SelfTested, AgentWrote, KeyAllowed, Current, Live, Leave, Go, Resting, At, Threads, Fixed,
     Probers, Keys, KeyRefused, KeyAnswered, KeyUnanswered, GiveUp, Demote
<1>11. CASE FallBack \/ ForceRecover
  BY <1>11, ReadinessAssumption DEF Inv, ThreadsTyped, Silent, ProbeWrote, KeyPressed,
     SelfTested, AgentWrote, FallBack, At, Go, Resting, Current, Live, Threads, Fixed, Probers,
     Keys, ForceRecover, Released, Clearing, Up, BeginDrain, SpawnAttach
<1>12. CASE \/ (\E c \in {"run", "reboot", "human_reboot"} : Execute(c)) \/ RunEnds
            \/ RebootPrepares \/ RebootRefused \/ RebootPrompt \/ RebootSilent
  BY <1>12, ReadinessAssumption DEF Inv, ThreadsTyped, Silent, ProbeWrote, KeyPressed,
     SelfTested, AgentWrote, Execute, At, Up, Expire, Admits, GoOn, Threads, Fixed, Probers,
     Keys, RunEnds, Leave, Go, Resting, Current, Live, RebootPrepares, RebootRefused,
     RebootPrompt, SetBoot, RebootSilent
<1>13. CASE SelfTest \/ SelfTestAnswered \/ SelfTestConfirms
  BY <1>13, ReadinessAssumption DEF Inv, ThreadsTyped, Silent, ProbeWrote, KeyPressed,
     SelfTested, AgentWrote, SelfTest, At, Up, GoOn, Threads, Fixed, Probers, Keys,
     SelfTestAnswered, Go, Resting, SelfTestConfirms, SetBoot
<1>14. ASSUME NEW l \in Loops, \/ LoopProbes(l) \/ LoopAttaches(l) \/ LoopAnswered(l)
                               \/ LoopEnds(l)
       PROVE  Silent
  BY <1>14, ReadinessAssumption DEF Inv, ThreadsTyped, Silent, ProbeWrote, KeyPressed,
     SelfTested, AgentWrote, LoopProbes, At, Up, BeginRun, GoOn, Threads, Fixed, Probers, Keys,
     LoopAttaches, Released, SpawnAttach, LoopAnswered, Live, Go, Resting, SetBoot, LoopEnds
<1>15. CASE \/ AttachStops \/ AttachOpens \/ AttachFails \/ AttachProbes \/ AttachLoggedOut
            \/ Publish
  BY <1>15, ReadinessAssumption DEF Inv, ThreadsTyped, Silent, ProbeWrote, KeyPressed,
     SelfTested, AgentWrote, AttachStops, At, Up, Released, AttachExit, Go, Resting, Threads,
     Fixed, Probers, Keys, AttachOpens, GoOn, AttachFails, AttachProbes, BeginRun,
     AttachLoggedOut, Publish, SetBoot
<1>16. CASE UNCHANGED vars
  BY <1>16 DEF Silent, vars, ProbeWrote, KeyPressed, SelfTested, AgentWrote, At
<1> QED
  BY <1>1, <1>2, <1>3, <1>4, <1>5, <1>6, <1>7, <1>8, <1>9, <1>10, <1>11, <1>12, <1>13, <1>14,
     <1>15, <1>16 DEF Next, Unlocked, Sections, Received, Ticked, Worker, Called, Pressing,
     Command, Loop, Attaching

\* Who passes the fence over a bridge that is still there finds what the session
\* knows: a key and an agent's command go over the session's bridge.
LEMMA OverBridge ==
  ASSUME Inv, NEW t \in Threads, t # "attach", Live(t)
  PROVE  gate.quiet = Quiet(boot) /\ gate.login = login /\ (Gated(boot) => gate.tx)
BY DEF Inv, Live, PlacesHold, GateHolds

\* What a step of the specification may never do, as the runs check it.
QuietStep ==
  /\ (\E t \in Probers : ProbeWrote(t)) => Unlock \/ ~Quiet(boot)
  /\ (\E t \in Keys : KeyPressed(t)) \/ SelfTested => ~Quiet(boot)
NewestStep == \A t \in Probers : ProbeWrote(t) => login = t
HeldStep == AgentWrote => ~Gated(boot)

\* No step does it.
LEMMA StepsAllowed ==
  ASSUME Inv, [Next]_vars
  PROVE  QuietStep /\ NewestStep /\ HeldStep
<1>1. CASE Silent
  BY <1>1 DEF Silent, QuietStep, NewestStep, HeldStep
<1>2. ASSUME NEW t \in Probers, ProbeWrites(t)
      PROVE  QuietStep /\ NewestStep /\ HeldStep
  <2>1. gate.quiet = Quiet(boot) /\ gate.login = login
    <3>1. CASE t = "attach"
      BY <1>2, <3>1 DEF Inv, ProbeWrites, GateHolds, Fenced
    <3>2. CASE t # "attach"
      BY <1>2, <3>2, OverBridge DEF ProbeWrites, FenceOpen, Threads, Fixed, Probers
    <3> QED BY <3>1, <3>2
  <2>2. login = t /\ (Unlock \/ ~Quiet(boot))
    BY <1>2, <2>1 DEF ProbeWrites, FenceOpen
  <2>3. \A u \in Probers : ProbeWrote(u) => u = t
    BY <1>2 DEF Inv, ThreadsTyped, ProbeWrites, ProbeWrote, Go, Threads, Fixed, Probers
  <2>4. (\A k \in Keys : ~KeyPressed(k)) /\ ~SelfTested /\ ~AgentWrote
    BY <1>2, ReadinessAssumption DEF Inv, ThreadsTyped, ProbeWrites, KeyPressed, SelfTested,
       AgentWrote, At, Go, Threads, Fixed, Probers, Keys
  <2> QED BY <2>2, <2>3, <2>4 DEF QuietStep, NewestStep, HeldStep
<1>3. ASSUME NEW t \in Keys, KeyWrites(t)
      PROVE  QuietStep /\ NewestStep /\ HeldStep
  <2>1. ~Quiet(boot)
    BY <1>3, OverBridge DEF KeyWrites, Threads, Fixed, Keys
  <2>2. (\A u \in Probers : ~ProbeWrote(u)) /\ ~AgentWrote
    BY <1>3, ReadinessAssumption DEF Inv, ThreadsTyped, KeyWrites, ProbeWrote, AgentWrote, At, Go,
       Threads, Fixed, Probers, Keys
  <2> QED BY <2>1, <2>2 DEF QuietStep, NewestStep, HeldStep
<1>4. CASE SelfTestWrites
  <2>1. SelfTested => ~Quiet(boot)
    BY <1>4, OverBridge DEF Inv, ThreadsTyped, SelfTestWrites, SelfTested, Go, Threads, Fixed
  <2>2. /\ \A u \in Probers : ~ProbeWrote(u)
        /\ (\A k \in Keys : ~KeyPressed(k)) /\ ~AgentWrote
    BY <1>4, ReadinessAssumption DEF Inv, ThreadsTyped, SelfTestWrites, ProbeWrote, KeyPressed,
       AgentWrote, At, Go, Threads, Fixed, Probers, Keys
  <2> QED BY <2>1, <2>2 DEF QuietStep, NewestStep, HeldStep
<1>5. CASE RunWrites
  <2>1. AgentWrote => ~Gated(boot)
    BY <1>5, OverBridge DEF Inv, ThreadsTyped, RunWrites, Leave, AgentWrote, At, Go, Threads, Fixed
  <2>2. /\ \A u \in Probers : ~ProbeWrote(u)
        /\ (\A k \in Keys : ~KeyPressed(k)) /\ ~SelfTested
    BY <1>5, ReadinessAssumption DEF Inv, ThreadsTyped, RunWrites, Leave, ProbeWrote, KeyPressed,
       SelfTested, At, Go, Threads, Fixed, Probers, Keys
  <2> QED BY <2>1, <2>2 DEF QuietStep, NewestStep, HeldStep
<1>6. CASE RebootWrites
  <2>1. AgentWrote => ~Gated(boot)
    BY <1>6, OverBridge DEF Inv, ThreadsTyped, RebootWrites, Leave, AgentWrote, At, Go,
       Threads, Fixed
  <2>2. /\ \A u \in Probers : ~ProbeWrote(u)
        /\ (\A k \in Keys : ~KeyPressed(k)) /\ ~SelfTested
    BY <1>6, ReadinessAssumption DEF Inv, ThreadsTyped, RebootWrites, Leave, ProbeWrote, KeyPressed,
       SelfTested, At, Go, Threads, Fixed, Probers, Keys
  <2> QED BY <2>1, <2>2 DEF QuietStep, NewestStep, HeldStep
<1> QED BY <1>1, <1>2, <1>3, <1>4, <1>5, <1>6, OthersSilent

\* In a quiet window nothing that was decided on before it opened is written:
\* no byte of a probe, no key, no nonce (_submit_guard against
\* _update_boot_quiet_locked and _handle_reboot_command).
THEOREM WindowIsQuiet ==
  Spec => QuietSilence
<1>1. Inv /\ [Next]_vars => [QuietStep]_vars
  BY StepsAllowed
<1> QED BY <1>1, ReadinessInvariant, PTL DEF Spec, QuietSilence, QuietStep

\* Of any number of login runs only the newest writes (_begin_login_run_locked).
THEOREM OlderRunsStop ==
  Spec => NewestRunWrites
<1>1. Inv /\ [Next]_vars => [NewestStep]_vars
  BY StepsAllowed
<1> QED BY <1>1, ReadinessInvariant, PTL DEF Spec, NewestRunWrites, NewestStep

\* No agent's command reaches a board in its quiet window or while it owes a
\* confirmation; one that was given up is owed no more
\* (_agent_gate_reject_locked and the permit of the bridge).
THEOREM AgentsWait ==
  Spec => AgentHeldBack
<1>1. Inv /\ [Next]_vars => [HeldStep]_vars
  BY StepsAllowed
<1> QED BY <1>1, ReadinessInvariant, PTL DEF Spec, AgentHeldBack, HeldStep

-----------------------------------------------------------------------------
(* Who takes a session out of RECOVERING.                                  *)

\* Without releases a session is not RELEASED and does not drain for that;
\* without an agent's reboot there is no login pending and no loop; and what a
\* reboot leaves pending has a loop.
Rebooting == {"reboot", "permit", "rebooted"}
NotReleased == ~Call("release") => state # "RELEASED" /\ drain # "release"
NotRebooted ==
  ~Call("reboot") =>
    /\ autoLogin = FALSE /\ pc["command"] \notin Rebooting
    /\ \A l \in Loops : pc[l] = "idle"
    /\ state = "RECOVERING" => drain # "none"
LoopOwns ==
  ~Call("release") /\ (autoLogin = TRUE \/ (state = "RECOVERING" /\ drain = "none"))
    => \E l \in Loops : pc[l] # "idle"
OwnedHolds == NotReleased /\ NotRebooted /\ LoopOwns

\* A step that has no part in it.
Aloof ==
  /\ UNCHANGED <<setup, state, drain, autoLogin>>
  /\ pc'["command"] \in Rebooting => pc["command"] \in Rebooting
  /\ \A l \in Loops : pc'[l] = "idle" <=> pc[l] = "idle"
\* Such a step changes nobody's part.
LEMMA AloofKeeps ==
  ASSUME OwnedHolds, Aloof
  PROVE  OwnedHolds'
BY DEF OwnedHolds, Aloof, NotReleased, NotRebooted, LoopOwns, Call

\* What the board sends, probes, keys and time have no part in it.
LEMMA MostAreAloof ==
  ASSUME Inv, [Next]_vars, ~Aloof
  PROVE  \/ \E t \in {"worker", "manual"} : ProbeEnds(t)
         \/ TickAttaches \/ WorkerRaised \/ Called \/ BridgeDies \/ DrainEnds
         \/ \E t \in Keys : Demote(t)
         \/ ForceRecover \/ RebootSilent \/ \E c \in {"run", "reboot", "human_reboot"} : Execute(c)
         \/ \E l \in Loops : LoopAnswered(l) \/ LoopEnds(l)
         \/ AttachOpens \/ AttachFails \/ AttachLoggedOut \/ Publish
<1>1. CASE RxBanner \/ RxPrompt
  BY <1>1, ReadinessAssumption DEF Inv, ThreadsTyped, Rebooting, Aloof, RxBanner, Arm, Threads,
     Fixed, Probers, Keys, At, RxPrompt, SetBoot
<1>2. CASE QuietEnds \/ DeadlinePasses \/ EvidenceEnds \/ BackoffEnds
  BY <1>2, ReadinessAssumption DEF Inv, ThreadsTyped, Rebooting, Aloof, QuietEnds, Threads,
     Fixed, Probers, Keys, At, DeadlinePasses, EvidenceEnds, BackoffEnds
<1>3. ASSUME NEW t \in Probers, \/ ProbeWrites(t) \/ ProbeRefused(t) \/ ProbeRaises(t)
                                \/ ProbeAnswers(t)
      PROVE  Aloof
  BY <1>3, ReadinessAssumption DEF Inv, ThreadsTyped, Rebooting, Aloof, ProbeWrites, FenceOpen,
     Live, Go, Resting, At, Threads, Fixed, Probers, Keys, ProbeRefused, ProbeRaises,
     ProbeAnswers
<1>4. ASSUME NEW t \in {"worker", "manual"}, ProbeStart(t)
      PROVE  Aloof
  BY <1>4, ReadinessAssumption DEF Inv, ThreadsTyped, Rebooting, Aloof, ProbeStart, At, Gone,
     Go, Resting, BeginRun, GoOn, Threads, Fixed, Probers, Keys
<1>5. CASE TickExpires \/ TickExhausts \/ TickProbes
  BY <1>5, ReadinessAssumption DEF Inv, ThreadsTyped, Rebooting, Aloof, TickExpires, Released,
     Expire, Threads, Fixed, Probers, Keys, At, TickExhausts, Considered, Owes, Exhausted,
     TickProbes, Due, Up, GoOn
<1>6. CASE WorkerYields \/ WorkerStarts \/ WorkerFinishes \/ WorkerLeaves
  BY <1>6, ReadinessAssumption DEF Inv, ThreadsTyped, Rebooting, Aloof, WorkerYields, At, Go,
     Resting, Threads, Fixed, Probers, Keys, WorkerStarts, Gone, Released, Expire, StillValid,
     WorkerFinishes, WorkerLeaves
<1>7. CASE AwaitEnds \/ ManualLocks \/ ManualAnswered
  BY <1>7, ReadinessAssumption DEF Inv, ThreadsTyped, Rebooting, Aloof, AwaitEnds, At, Go,
     Resting, Threads, Fixed, Probers, Keys, ManualLocks, ManualAnswered
<1>8. ASSUME NEW t \in Keys, KeyAllowed(t) \/ KeyRefused(t) \/ KeyAnswered(t)
      PROVE  Aloof
  BY <1>8, ReadinessAssumption DEF Inv, ThreadsTyped, Rebooting, Aloof, KeyAllowed, Current,
     Live, Leave, Go, Resting, At, Threads, Fixed, Probers, Keys, KeyRefused, KeyAnswered
<1>9. ASSUME NEW t \in Keys, KeyUnanswered(t) \/ GiveUp(t) \/ KeyWrites(t)
      PROVE  Aloof
  BY <1>9, ReadinessAssumption DEF Inv, ThreadsTyped, Rebooting, Aloof, KeyUnanswered, Go,
     Resting, At, Threads, Fixed, Probers, Keys, GiveUp, Current, Live, Leave, KeyWrites
<1>10. CASE FallBack
  BY <1>10, ReadinessAssumption DEF Inv, ThreadsTyped, Rebooting, Aloof, FallBack, At, Go,
     Resting, Current, Live, Threads, Fixed, Probers, Keys
<1>11. CASE RunEnds \/ RebootPrepares \/ RebootRefused \/ RebootPrompt
  BY <1>11, ReadinessAssumption DEF Inv, ThreadsTyped, Rebooting, Aloof, RunEnds, At, Leave, Go,
     Resting, Current, Live, Threads, Fixed, Probers, Keys, RebootPrepares, RebootRefused,
     RebootPrompt, SetBoot
<1>12. CASE RunWrites \/ RebootWrites
  BY <1>12, ReadinessAssumption DEF Inv, ThreadsTyped, Rebooting, Aloof, RunWrites, At, Live,
     Go, Resting, Leave, Current, Threads, Fixed, Probers, Keys, RebootWrites, Arm
<1>13. CASE SelfTest \/ SelfTestWrites \/ SelfTestAnswered \/ SelfTestConfirms
  BY <1>13, ReadinessAssumption DEF Inv, ThreadsTyped, Rebooting, Aloof, SelfTest, At, Up, GoOn,
     Threads, Fixed, Probers, Keys, SelfTestWrites, Go, Resting, Live, SelfTestAnswered,
     SelfTestConfirms, SetBoot
<1>14. ASSUME NEW l \in Loops, LoopProbes(l) \/ LoopAttaches(l)
       PROVE  Aloof
  BY <1>14, ReadinessAssumption DEF Inv, ThreadsTyped, Rebooting, Aloof, LoopProbes, At, Up,
     BeginRun, GoOn, Threads, Fixed, Probers, Keys, LoopAttaches, Released, SpawnAttach
<1>15. CASE AttachStops \/ AttachProbes
  BY <1>15, ReadinessAssumption DEF Inv, ThreadsTyped, Rebooting, Aloof, AttachStops, At, Up,
     Released, AttachExit, Go, Resting, Threads, Fixed, Probers, Keys, AttachProbes, BeginRun,
     GoOn
<1>16. CASE UNCHANGED vars
  BY <1>16 DEF Aloof, vars
<1> QED
  BY <1>1, <1>2, <1>3, <1>4, <1>5, <1>6, <1>7, <1>8, <1>9, <1>10, <1>11, <1>12, <1>13, <1>14,
     <1>15, <1>16 DEF Next, Unlocked, Sections, Received, Ticked, Worker, Pressing, Command,
     Loop, Attaching

\* Every step keeps it.
LEMMA OwnedKept ==
  ASSUME Inv, OwnedHolds, [Next]_vars
  PROVE  OwnedHolds'
<1> USE DEF OwnedHolds, NotReleased, NotRebooted, LoopOwns, Rebooting, Call
<1>1. CASE Aloof
  BY <1>1, AloofKeeps
<1>2. ASSUME NEW t \in {"worker", "manual"}, ProbeEnds(t)
      PROVE  OwnedHolds'
  <2>1. /\ UNCHANGED <<setup, drain>>
        /\ UNCHANGED <<state, autoLogin>>
           \/ (state' \in {"READY", "ATTACHED"} /\ autoLogin' = FALSE)
    BY <1>2 DEF ProbeEnds
  <2>2. pc'["command"] = pc["command"] /\ \A l \in Loops : pc'[l] = pc[l]
    BY <1>2, ReadinessAssumption DEF Inv, ThreadsTyped, ProbeEnds, Go, Threads, Fixed
  <2> QED BY <2>1, <2>2
<1>3. CASE TickAttaches
  BY <1>3, ReadinessAssumption DEF Inv, ThreadsTyped, PlacesHold, KindsTyped, FlagsTyped,
     TickAttaches, Due, Considered, Released, Owes, Exhausted, SpawnAttach, Threads, Fixed,
     Probers, Keys, At
<1>4. CASE WorkerRaised
  BY <1>4, ReadinessAssumption DEF Inv, ThreadsTyped, PlacesHold, KindsTyped, FlagsTyped,
     WorkerRaised, At, Gone, Go, Resting, Threads, Fixed, Probers, Keys
<1>5. CASE Recover
  BY <1>5, ReadinessAssumption DEF Inv, ThreadsTyped, PlacesHold, KindsTyped, FlagsTyped,
     Recover, At, Released, Up, Reattach, SpawnAttach, GoOn, Threads, Fixed, Probers, Keys
<1>6. CASE RecoverForced
  BY <1>6, ReadinessAssumption DEF Inv, ThreadsTyped, PlacesHold, KindsTyped, FlagsTyped,
     RecoverForced, At, Released, Up, BeginDrain, Go, Resting, Threads, Fixed, Probers, Keys
<1>7. CASE AttachSession
  BY <1>7, ReadinessAssumption DEF Inv, ThreadsTyped, PlacesHold, KindsTyped, FlagsTyped,
     AttachSession, At, Released, Up, Reattach, SpawnAttach, GoOn, Threads, Fixed, Probers, Keys
<1>8. CASE Clear
  BY <1>8, ReadinessAssumption DEF Inv, ThreadsTyped, PlacesHold, KindsTyped, FlagsTyped, Clear,
     Released, Clearing, Up, BeginDrain, SpawnAttach, Threads, Fixed, Probers, Keys, At
<1>9. CASE Release
  BY <1>9, ReadinessAssumption DEF Inv, ThreadsTyped, PlacesHold, KindsTyped, FlagsTyped,
     Release, Released, Up, BeginDrain, Threads, Fixed, Probers, Keys, At
<1>10. CASE Reclaim
  BY <1>10, ReadinessAssumption DEF Inv, ThreadsTyped, PlacesHold, KindsTyped, FlagsTyped,
     Reclaim, Reattach, SpawnAttach, Threads, Fixed, Probers, Keys, At
<1>11. CASE BridgeDies
  BY <1>11, ReadinessAssumption DEF Inv, ThreadsTyped, PlacesHold, KindsTyped, FlagsTyped,
     BridgeDies, Up, BeginDrain, Threads, Fixed, Probers, Keys, At
<1>12. CASE DrainEnds
  BY <1>12, ReadinessAssumption DEF Inv, ThreadsTyped, PlacesHold, KindsTyped, FlagsTyped,
     DrainEnds, Threads, Fixed, SpawnAttach, Probers, Keys, At
<1>13. ASSUME NEW t \in Keys, Demote(t)
      PROVE  OwnedHolds'
  BY <1>13, ReadinessAssumption DEF Inv, ThreadsTyped, PlacesHold, KindsTyped, FlagsTyped,
     Demote, At, Go, Resting, Leave, Current, Live, Threads, Fixed, Probers, Keys
<1>14. CASE ForceRecover
  BY <1>14, ReadinessAssumption DEF Inv, ThreadsTyped, PlacesHold, KindsTyped, FlagsTyped,
     ForceRecover, At, Released, Clearing, Up, BeginDrain, SpawnAttach, Threads, Fixed, Probers,
     Keys
<1>15. ASSUME NEW c \in {"run", "reboot", "human_reboot"}, Execute(c)
      PROVE  OwnedHolds'
  <2>1. UNCHANGED <<setup, state, drain, autoLogin>> /\ \A l \in Loops : pc'[l] = pc[l]
    BY <1>15, ReadinessAssumption DEF Inv, ThreadsTyped, Execute, GoOn, Threads, Fixed
  <2>2. pc'["command"] = pc["command"] \/ (pc'["command"] = c /\ Call(c))
    BY <1>15 DEF Inv, ThreadsTyped, Execute, GoOn, Threads, Fixed
  <2> QED BY <2>1, <2>2
<1>16. CASE RebootSilent
  <2>1. UNCHANGED <<setup, drain>> /\ "command" \in Threads /\ pc \in [Threads -> Places]
    BY <1>16 DEF Inv, ThreadsTyped, RebootSilent, Threads, Fixed
  <2>2. CASE Go("command", "idle")
    <3>1. pc'["command"] = "idle" /\ \A l \in Loops : pc'[l] = pc[l]
      BY <2>1, <2>2, ReadinessAssumption DEF Go, Threads, Fixed
    <3>2. CASE UNCHANGED <<state, autoLogin>>
      BY <2>1, <3>1, <3>2
    <3>3. CASE state' = "ATTACHED" /\ autoLogin' = FALSE
      BY <2>1, <3>1, <3>3
    <3>4. ~(\E l \in Loops : /\ pc[l] = "idle"
                            /\ pc' = [pc EXCEPT !["command"] = "idle", ![l] = "loop"])
      BY <2>1, <3>1, ReadinessAssumption DEF Threads, Fixed
    <3> QED BY <1>16, <3>2, <3>3, <3>4 DEF RebootSilent, At
  <2>3. CASE ~Go("command", "idle")
    <3>1. /\ At("command", "rebooted") /\ state' = "RECOVERING"
          /\ \E l \in Loops : pc' = [[pc EXCEPT !["command"] = "idle"] EXCEPT ![l] = "loop"]
      BY <1>16, <2>3 DEF RebootSilent, Leave
    <3>2. Call("reboot") /\ state' # "RELEASED"
      BY <3>1 DEF At
    <3>3. \E l \in Loops : pc'[l] # "idle"
      BY <2>1, <3>1, ReadinessAssumption DEF Threads, Fixed
    <3> QED BY <2>1, <3>2, <3>3
  <2> QED BY <2>2, <2>3
<1>17. ASSUME NEW l \in Loops, LoopAnswered(l)
      PROVE  OwnedHolds'
  BY <1>17, ReadinessAssumption DEF Inv, ThreadsTyped, PlacesHold, KindsTyped, FlagsTyped,
     LoopAnswered, At, Live, Go, Resting, SetBoot, Threads, Fixed, Probers, Keys
<1>18. ASSUME NEW l \in Loops, LoopEnds(l)
      PROVE  OwnedHolds'
  BY <1>18, ReadinessAssumption DEF Inv, ThreadsTyped, PlacesHold, KindsTyped, FlagsTyped,
     LoopEnds, At, Go, Resting, Up, Threads, Fixed, Probers, Keys
<1>19. CASE AttachOpens
  BY <1>19, ReadinessAssumption DEF Inv, ThreadsTyped, PlacesHold, KindsTyped, FlagsTyped,
     AttachOpens, At, Up, Released, GoOn, Threads, Fixed, Probers, Keys
<1>20. CASE AttachFails
  BY <1>20, ReadinessAssumption DEF Inv, ThreadsTyped, PlacesHold, KindsTyped, FlagsTyped,
     AttachFails, AttachExit, Go, Resting, Threads, Fixed, Probers, Keys, At
<1>21. CASE AttachLoggedOut
  BY <1>21, ReadinessAssumption DEF Inv, ThreadsTyped, PlacesHold, KindsTyped, FlagsTyped,
     AttachLoggedOut, At, AttachExit, Go, Resting, Threads, Fixed, Probers, Keys
<1>22. CASE Publish
  BY <1>22, ReadinessAssumption DEF Inv, ThreadsTyped, PlacesHold, KindsTyped, FlagsTyped,
     Publish, AttachExit, Go, Resting, At, SetBoot, Threads, Fixed, Probers, Keys
<1> QED
  BY <1>1, <1>2, <1>3, <1>4, <1>5, <1>6, <1>7, <1>8, <1>9, <1>10, <1>11, <1>12, <1>13, <1>14,
     <1>15, <1>16, <1>17, <1>18, <1>19, <1>20, <1>21, <1>22, MostAreAloof DEF Called

\* A session in RECOVERING has a drain or a loop that takes it out
\* (_begin_drain_locked, _complete_drain, _spawn_reboot_recovery), unless releases
\* meet an agent's reboot commands: a loop that finds RELEASED ends without
\* clearing the login that is pending.
THEOREM RecoveryHasOwner ==
  Spec => [](~(Call("release") /\ Call("reboot")) => RecoveringIsOwned)
<1>1. Init => OwnedHolds
  BY DEF Init, OwnedHolds, NotReleased, NotRebooted, LoopOwns, Rebooting, Threads, Fixed
<1>2. Inv /\ OwnedHolds /\ [Next]_vars => OwnedHolds'
  BY OwnedKept
<1>3. OwnedHolds /\ ~(Call("release") /\ Call("reboot")) => RecoveringIsOwned
  BY DEF OwnedHolds, NotRebooted, LoopOwns, RecoveringIsOwned, Recovering
<1> QED BY <1>1, <1>2, <1>3, ReadinessInvariant, PTL DEF Spec
=============================================================================
