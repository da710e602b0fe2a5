---------------------------- MODULE ConsoleProofs ----------------------------
(***************************************************************************)
(* Why what is typed on a console is written at most once, in the context  *)
(* it was typed in, and never into a command, for any number of consoles   *)
(* and chunks and any mix of commands, leases and attachments; and why a   *)
(* human who was suspended is resumed.                                     *)
(***************************************************************************)
EXTENDS Consoles, TLAPS

Buf == [gen : Nat, q : Seq(Nat)]

\* A record with the bridge's fields; the console table, the owners and the
\* suspension may be anything.
IsBridge(b) ==
  b \in [clients : {b.clients}, primary : {b.primary}, owner : {b.owner}, pending : {b.pending},
         susp : {b.susp}, depth : {b.depth}, agent : {b.agent}, blocked : BOOLEAN,
         gen : Nat, buf : [Client -> Buf]]

\* No deferred input.
Cleared(b) == \A d \in Client : b.buf[d] = EmptyBuf

\* Nothing is added to the deferred input, and neither the generation nor the
\* admission of raw keys changes.
Tame(b, x) ==
  /\ IsBridge(x)
  /\ x.gen = b.gen
  /\ x.blocked = b.blocked
  /\ \A d \in Client : x.buf[d] = b.buf[d] \/ x.buf[d] = EmptyBuf

Lease == [owner : Client \cup {Agent, None}, susp : BOOLEAN, old : BOOLEAN, lost : BOOLEAN]

\* A lease no agent holds.
HumanLease(l) == l \in Lease /\ l.owner # Agent

\* What a replay has taken out of a buffer.
Entry == [c : Client, gen : Nat, q : Seq(Nat)]

\* Where a thread is, and where it goes after a post-close action.
After == {"idle", "suspend", "run", "finish", "release", "open", "popped"}
Pc == After \cup {"guard", "guard2", "resume", "flush", "clear", "send", "reap", "snap", "grant"}

\* What a thread remembers.
Local == [pc : Pc, flush : SUBSET Entry, clear : BOOLEAN, next : After,
          susp : BOOLEAN, want : Client \cup {Agent, None} \cup Nat, held : SUBSET Client]

------------------------------------------------------------------------------
(* The inductive invariant                                                 *)

\* The shape of the state.
TypeOK ==
  /\ IsBridge(br)
  /\ lease \in Lease /\ HumanLease(stash)
  /\ op \in BOOLEAN
  /\ peer \subseteq Client
  /\ rd \in [pc : {"sel", "read", "owned", "raw", "defer"}, c : Client \cup {None}, gen : Nat]
  /\ rd.pc # "sel" => rd.c \in Client
  /\ th \in [Thread -> Local]
  /\ th["tick"].pc = "grant" => th["tick"].want \in Client
  /\ typed \in Nat /\ sent \in Nat
  /\ took \in [Chunk -> Nat] /\ count \in [Chunk -> Nat]

\* Where chunk n may wait to be written: the reader has it in hand, a deferred
\* buffer holds it, or a replay took it out of one.
Reading(n)      == rd.pc # "sel" /\ n = typed
Deferred(n, c)  == n \in ToSet(br.buf[c].q)

\* A chunk that waits was typed and not written, and it waits in one place.
PlacesHold ==
  \A n \in Chunk :
    /\ count[n] \in {0, 1}
    /\ count[n] = 1 => n <= typed
    /\ Reading(n) => count[n] = 0
    /\ \A c \in Client : Deferred(n, c) =>
         /\ count[n] = 0 /\ n <= typed /\ ~Reading(n)
         /\ \A d \in Client : Deferred(n, d) => d = c
    /\ \A t \in Thread : \A e \in th[t].flush : n \in ToSet(e.q) =>
         /\ count[n] = 0 /\ n <= typed /\ ~Reading(n)
         /\ \A c \in Client : ~Deferred(n, c)
         /\ \A u \in Thread : \A f \in th[u].flush : n \in ToSet(f.q) => u = t /\ f = e

\* Wherever it waits, the generation it was typed under is known.
ContextHolds ==
  \A n \in Chunk :
    /\ Reading(n) => took[n] = rd.gen
    /\ \A c \in Client : Deferred(n, c) => took[n] = br.buf[c].gen
    /\ \A t \in Thread : \A e \in th[t].flush : n \in ToSet(e.q) => took[n] = e.gen

\* A command that is on its way, or will go on after a replay, blocks raw keys,
\* and no agent has the lease.
InCommand ==
  LET own == {"suspend", "run", "finish"}
  IN  \/ th["cmd"].pc \in own
      \/ th["cmd"].pc \in {"guard", "guard2", "resume", "flush", "clear"} /\ th["cmd"].next \in own
CommandHolds ==
  /\ InCommand => br.blocked
  /\ op => lease.owner # Agent

Inv == TypeOK /\ PlacesHold /\ ContextHolds /\ CommandHolds


------------------------------------------------------------------------------
(* The bridge's operations                                                 *)

\* Tame changes add up.
LEMMA TameTrans ==
  ASSUME NEW b, NEW x, NEW y, Tame(b, x), Tame(x, y)
  PROVE  Tame(b, y)
  BY DEF Tame

\* No change is tame.
LEMMA TameRefl ==
  ASSUME NEW b, IsBridge(b)
  PROVE  Tame(b, b)
  BY DEF Tame

\* The empty buffer.
LEMMA EmptyFacts == EmptyBuf \in Buf /\ EmptyBuf.q = <<>> /\ ToSet(EmptyBuf.q) = {}
  BY DEF EmptyBuf, Buf, ToSet

\* set_interactive_owner changes owners only.
LEMMA TameSetOwner ==
  ASSUME NEW b, IsBridge(b), NEW o
  PROVE  Tame(b, SetOwner(b, o))
<1>1. CASE o \in Client /\ b.blocked
  BY <1>1 DEF Tame, IsBridge, SetOwner
<1>2. CASE ~(o \in Client /\ b.blocked)
  <2> DEFINE x == [b EXCEPT !.owner = o, !.pending = IF o = None THEN None ELSE @]
  <2>1. SetOwner(b, o) = x
    BY <1>2 DEF SetOwner
  <2>2. Tame(b, x)
    BY DEF Tame, IsBridge
  <2> QED
    BY <2>1, <2>2
<1> QED
  BY <1>1, <1>2

\* A client that leaves takes its own buffer with it.
LEMMA TameUnregister ==
  ASSUME NEW b, IsBridge(b), NEW c \in Client
  PROVE  Tame(b, Unregister(b, c))
  BY EmptyFacts DEF Tame, IsBridge, Unregister

\* detach_console drops the client's buffer.
LEMMA TameDetach ==
  ASSUME NEW b, IsBridge(b), NEW c \in Client
  PROVE  Tame(b, Detach(b, c))
<1> DEFINE u == Unregister(b, c)
           d == [u EXCEPT !.owner = Disown(@, c), !.pending = Disown(@, c)]
           e == [d EXCEPT !.susp = None, !.agent = FALSE, !.depth = 0]
<1>1. IsBridge(u) /\ Tame(b, u)
  BY TameUnregister DEF Tame
<1>2. Tame(u, d)
  <2> HIDE DEF u
  <2> QED
    BY <1>1 DEF Tame, IsBridge
<1>3. Tame(d, e)
  <2> HIDE DEF d
  <2> QED
    BY <1>2 DEF Tame, IsBridge
<1>4. Detach(b, c) \in {b, d, e}
  BY DEF Detach
<1> HIDE DEF u, d, e
<1> QED
  BY <1>1, <1>2, <1>3, <1>4, TameTrans, TameRefl

\* attach_console drops the buffers of those it prunes.
LEMMA TameRegister ==
  ASSUME NEW b, IsBridge(b), NEW c
  PROVE  Tame(b, Register(b, c))
<1> DEFINE p == Prune(b, Stale(b))
           r == [p EXCEPT !.clients = Append(@, c), !.primary = IF @ = None THEN c ELSE @]
<1>1. IsBridge(p) /\ Tame(b, p)
  BY EmptyFacts DEF Tame, IsBridge, Prune
<1>2. Tame(p, r)
  <2> HIDE DEF p
  <2> QED
    BY <1>1 DEF Tame, IsBridge
<1>3. Register(b, c) = r
  BY DEF Register
<1> HIDE DEF p, r
<1> QED
  BY <1>1, <1>2, <1>3, TameTrans

\* Promoting the pending owner changes owners only.
LEMMA TamePromote ==
  ASSUME NEW b, IsBridge(b)
  PROVE  Tame(b, Promote(b))
<1> DEFINE x == [b EXCEPT !.pending = None,
                          !.owner = IF b.pending \in {Agent} \cup ToSet(b.clients)
                                    THEN b.pending ELSE @]
<1>1. Tame(b, x)
  BY DEF Tame, IsBridge
<1>2. Promote(b) \in {b, x}
  BY DEF Promote
<1> HIDE DEF x
<1> QED
  BY <1>1, <1>2, TameRefl

\* suspend_interactive changes owners only.
LEMMA TameSuspend ==
  ASSUME NEW b, IsBridge(b)
  PROVE  Tame(b, Suspend(b))
<1>1. CASE b.depth = 0
  BY <1>1 DEF Tame, IsBridge, Suspend
<1>2. CASE b.depth # 0
  BY <1>2 DEF Tame, IsBridge, Suspend
<1> QED
  BY <1>1, <1>2

\* An invalidation drops all deferred input.
LEMMA InvalidateFacts ==
  ASSUME NEW b, IsBridge(b)
  PROVE  LET x == Invalidate(b)
         IN  IsBridge(x) /\ x.blocked = b.blocked /\ Cleared(x)
<1>1. b.gen + 1 \in Nat
  BY DEF IsBridge
<1> QED
  BY <1>1, EmptyFacts DEF IsBridge, Invalidate, Cleared

\* Emptying the buffers is tame.
LEMMA NoBufsFacts ==
  ASSUME NEW b, IsBridge(b)
  PROVE  Tame(b, NoBufs(b)) /\ Cleared(NoBufs(b))
  BY EmptyFacts DEF IsBridge, NoBufs, Tame, Cleared

\* The members of a sequence that grows.
LEMMA ToSetAppend ==
  ASSUME NEW s \in Seq(Nat), NEW n \in Nat
  PROVE  /\ Append(s, n) \in Seq(Nat)
         /\ ToSet(Append(s, n)) = ToSet(s) \cup {n}
<1> DEFINE a == Append(s, n)
<1>1. /\ a \in Seq(Nat) /\ Len(a) = Len(s) + 1 /\ a[Len(s) + 1] = n
      /\ \A i \in 1 .. Len(s) : a[i] = s[i]
  OBVIOUS
<1>2. DOMAIN a = 1 .. Len(s) + 1 /\ DOMAIN s = 1 .. Len(s) /\ Len(s) \in Nat
  BY <1>1
<1> HIDE DEF a
<1>3. ToSet(a) \subseteq ToSet(s) \cup {n}
  BY SMTT(20), <1>1, <1>2 DEF ToSet
<1>4. \A i \in DOMAIN s : s[i] \in ToSet(a)
  BY <1>1, <1>2 DEF ToSet
<1>5. n \in ToSet(a)
  BY <1>1, <1>2 DEF ToSet
<1>6. ToSet(a) = ToSet(s) \cup {n}
  BY <1>3, <1>4, <1>5 DEF ToSet
<1> QED
  BY <1>1, <1>6 DEF a

\* Chunk n, typed under g, goes to the end of c's buffer, which holds input of
\* one generation, or the whole buffer is lost.
Appended(b, x, c, n, g) ==
  /\ IsBridge(x)
  /\ x.gen = b.gen /\ x.blocked = b.blocked
  /\ \A d \in Client \ {c} : x.buf[d] = b.buf[d]
  /\ \/ x.buf[c] = EmptyBuf
     \/ /\ x.buf[c].gen = g
        /\ \A m \in ToSet(x.buf[c].q) :
             m = n \/ (b.buf[c].gen = g /\ m \in ToSet(b.buf[c].q))

\* _append_deferred_locked does that.
LEMMA AppendFacts ==
  ASSUME NEW b, IsBridge(b), NEW c \in Client, NEW n \in Nat, NEW g \in Nat
  PROVE  Appended(b, AppendDeferred(b, c, n, g), c, n, g)
<1> DEFINE old == IF b.buf[c].gen = g THEN b.buf[c].q ELSE <<>>
           new == Append(old, n)
           e   == IF Len(new) > BufMax THEN EmptyBuf ELSE [gen |-> g, q |-> new]
<1>1. b.buf[c] \in Buf
  BY DEF IsBridge
<1>2. old \in Seq(Nat) /\ \A m \in ToSet(old) : b.buf[c].gen = g /\ m \in ToSet(b.buf[c].q)
  BY <1>1 DEF Buf, ToSet
<1>3. new \in Seq(Nat) /\ ToSet(new) = ToSet(old) \cup {n}
  BY <1>2, ToSetAppend
<1>4. e \in Buf
  BY <1>3, EmptyFacts DEF Buf
<1>5. \/ e = EmptyBuf
      \/ /\ e.gen = g
         /\ \A m \in ToSet(e.q) : m = n \/ (b.buf[c].gen = g /\ m \in ToSet(b.buf[c].q))
  BY <1>2, <1>3
<1>6. AppendDeferred(b, c, n, g) = [b EXCEPT !.buf[c] = e]
  BY DEF AppendDeferred
<1> HIDE DEF e
<1> QED
  BY <1>4, <1>5, <1>6 DEF IsBridge, Appended

------------------------------------------------------------------------------
(* Replays                                                                 *)

\* What a replay takes is what the buffers hold.
LEMMA TakenFacts ==
  ASSUME NEW b, IsBridge(b), NEW e \in Taken(b)
  PROVE  /\ e \in Entry
         /\ \E c \in Client : e = [c |-> c, gen |-> b.buf[c].gen, q |-> b.buf[c].q]
  BY DEF Taken, Entry, IsBridge, Buf

\* A replay takes nothing, or all of what the buffers hold, and empties them.
Takes(b, x, T) ==
  /\ \A d \in Client : x.buf[d] = b.buf[d] \/ x.buf[d] = EmptyBuf
  /\ T \subseteq Entry
  /\ T # {} => Cleared(x)
  /\ \A e \in T : \E c \in Client : e = [c |-> c, gen |-> b.buf[c].gen, q |-> b.buf[c].q]

\* resume_interactive.
LEMMA ResumeFacts ==
  ASSUME NEW b, IsBridge(b)
  PROVE  Tame(b, Resumed(b)) /\ Takes(b, Resumed(b), ResumeTakes(b))
<1> DEFINE x == [b EXCEPT !.depth = 0, !.owner = b.susp, !.agent = FALSE, !.susp = None]
           y == [b EXCEPT !.depth = @ - 1]
<1>1. Tame(b, x)
  BY DEF Tame, IsBridge
<1>2. Tame(b, y)
  BY DEF Tame, IsBridge
<1>3. Tame(b, NoBufs(Promote(x))) /\ Cleared(NoBufs(Promote(x)))
  <2>1. IsBridge(x)
    BY <1>1 DEF Tame
  <2> HIDE DEF x
  <2>2. Tame(x, Promote(x)) /\ IsBridge(Promote(x))
    BY <2>1, TamePromote DEF Tame
  <2> QED
    BY <1>1, <2>2, NoBufsFacts, TameTrans
<1>4. \/ Resumed(b) \in {b, y} /\ ResumeTakes(b) = {}
      \/ Resumed(b) = NoBufs(Promote(x)) /\ ResumeTakes(b) \in {{}, Taken(b)}
  BY DEF Resumed, ResumeTakes
<1> HIDE DEF x, y
<1>5. Tame(b, Resumed(b))
  BY <1>2, <1>3, <1>4, TameRefl
<1>6. ResumeTakes(b) \subseteq Taken(b) /\ (ResumeTakes(b) # {} => Cleared(Resumed(b)))
  BY <1>3, <1>4
<1> QED
  BY <1>5, <1>6, TakenFacts DEF Takes, Tame

\* _set_interactive_admission(True).
LEMMA AdmitFacts ==
  ASSUME NEW b, IsBridge(b)
  PROVE  /\ IsBridge(Admitted(b)) /\ Admitted(b).gen = b.gen
         /\ Takes(b, Admitted(b), AdmitTakes(b))
<1> DEFINE u == [b EXCEPT !.blocked = FALSE]
           p == Promote(u)
<1>1. IsBridge(u) /\ u.gen = b.gen /\ u.buf = b.buf
  BY DEF IsBridge
<1>2. Tame(u, p) /\ IsBridge(p)
  <2> HIDE DEF u
  <2> QED
    BY <1>1, TamePromote DEF Tame
<1>3. \/ Admitted(b) = p /\ AdmitTakes(b) = {}
      \/ Admitted(b) = NoBufs(p) /\ AdmitTakes(b) = Taken(p)
  BY DEF Admitted, AdmitTakes
<1> HIDE DEF u, p
<1>4. Tame(u, Admitted(b))
  BY <1>2, <1>3, NoBufsFacts, TameTrans
<1>5. AdmitTakes(b) # {} => Cleared(Admitted(b))
  BY <1>2, <1>3, NoBufsFacts
<1>6. ASSUME NEW e \in AdmitTakes(b)
      PROVE  e \in Entry /\ \E c \in Client : e = [c |-> c, gen |-> b.buf[c].gen, q |-> b.buf[c].q]
  <2>1. e \in Taken(p)
    BY <1>3
  <2>2. PICK c \in Client : p.buf[c].q # <<>> /\ e = [c |-> c, gen |-> p.buf[c].gen, q |-> p.buf[c].q]
    BY <2>1 DEF Taken
  <2>3. p.buf[c] = b.buf[c]
    BY <1>1, <1>2, <2>2, EmptyFacts DEF Tame
  <2> QED
    BY <1>2, <2>1, <2>2, <2>3, TakenFacts
<1> QED
  BY <1>1, <1>4, <1>5, <1>6 DEF Takes, Tame

------------------------------------------------------------------------------
(* The manager's lease operations                                          *)

\* The lease of nobody, and a new one.
LEMMA LeaseFacts ==
  /\ HumanLease(NoLease)
  /\ \A o \in Client \cup {Agent, None}, s \in BOOLEAN :
       NewLease(o, s) \in Lease /\ NewLease(o, s).owner = o
  BY ClientAssumption DEF NoLease, NewLease, HumanLease, Lease

\* Closing a lease leaves none, or a human's.
LEMMA CloseFacts ==
  ASSUME NEW b, IsBridge(b), NEW l \in Lease, NEW s, HumanLease(s), NEW f \in BOOLEAN
  PROVE  LET r == Close(b, l, s, f)
         IN  /\ Tame(b, r.b)
             /\ HumanLease(r.l) /\ HumanLease(r.s)
             /\ r.resume \in BOOLEAN /\ r.clear \in BOOLEAN
<1> DEFINE back == l.susp /\ s # NoLease /\ f /\ HasPeer(b, s.owner)
           o == IF back THEN s.owner ELSE None
<1>1. Tame(b, SetOwner(b, o))
  BY TameSetOwner
<1>2. Close(b, l, s, f) = [b |-> SetOwner(b, o), l |-> IF back THEN s ELSE NoLease,
                           s |-> IF l.susp THEN NoLease ELSE s,
                           resume |-> l.susp, clear |-> l.susp /\ ~back]
  BY DEF Close
<1>3. l.susp \in BOOLEAN /\ (l.susp /\ ~back) \in BOOLEAN
  BY DEF Lease
<1> HIDE DEF back, o
<1> QED
  BY <1>1, <1>2, <1>3, LeaseFacts

\* _refresh_interactive_locked never makes an agent's lease.
LEMMA RefreshFacts ==
  ASSUME NEW b, IsBridge(b), NEW l \in Lease, NEW s, HumanLease(s),
         NEW f \in BOOLEAN, NEW late \in BOOLEAN
  PROVE  LET r == Refresh(b, l, s, f, late)
         IN  /\ Tame(b, r.b)
             /\ r.l \in Lease /\ HumanLease(r.s)
             /\ r.l.owner = Agent => l.owner = Agent
             /\ r.resume \in BOOLEAN /\ r.clear \in BOOLEAN
<1> DEFINE Good(r) == /\ Tame(b, r.b)
                      /\ r.l \in Lease /\ HumanLease(r.s)
                      /\ r.l.owner = Agent => l.owner = Agent
                      /\ r.resume \in BOOLEAN /\ r.clear \in BOOLEAN
           lost(v) == [l EXCEPT !.lost = v]
<1>1. Good(Kept(b, l, s))
  BY TameRefl DEF Kept
<1>2. Good(Close(b, l, s, f))
  BY CloseFacts DEF HumanLease
<1>3. \A v \in BOOLEAN : lost(v) \in Lease /\ lost(v).owner = l.owner
  BY DEF Lease
<1>4. \A v \in BOOLEAN : Good(Kept(b, lost(v), s))
  <2> HIDE DEF lost
  <2> QED
    BY <1>3, TameRefl DEF Kept
<1>5. ASSUME l.owner \in Client PROVE Good(Close(Detach(b, l.owner), l, s, f))
  <2> DEFINE d == Detach(b, l.owner)
             r == Close(d, l, s, f)
  <2>1. Tame(b, d) /\ IsBridge(d)
    BY <1>5, TameDetach DEF Tame
  <2> HIDE DEF d
  <2>2. /\ Tame(d, r.b) /\ HumanLease(r.l) /\ HumanLease(r.s)
        /\ r.resume \in BOOLEAN /\ r.clear \in BOOLEAN
    BY <2>1, CloseFacts
  <2> HIDE DEF r
  <2>3. Good(r)
    BY <2>1, <2>2, TameTrans DEF HumanLease
  <2> QED
    BY <2>3 DEF r, d
<1>6. \/ Refresh(b, l, s, f, late) \in {Kept(b, l, s), Close(b, l, s, f), Kept(b, lost(TRUE), s), Kept(b, lost(FALSE), s)}
      \/ l.owner \in Client /\ Refresh(b, l, s, f, late) = Close(Detach(b, l.owner), l, s, f)
  BY DEF Refresh
<1> HIDE DEF Good, lost
<1>7. Good(Refresh(b, l, s, f, late))
  BY <1>1, <1>2, <1>4, <1>5, <1>6
<1> QED
  BY <1>7 DEF Good

------------------------------------------------------------------------------
(* Where a chunk is                                                        *)

\* Nothing moves to another place, nothing is written.
LEMMA PlacesQuiet ==
  ASSUME PlacesHold, ContextHolds,
         UNCHANGED <<typed, took, count>>,
         rd'.pc # "sel" => rd.pc # "sel" /\ rd'.gen = rd.gen,
         \A c \in Client : br'.buf[c] = br.buf[c] \/ br'.buf[c] = EmptyBuf,
         \A t \in Thread : th'[t].flush \subseteq th[t].flush
  PROVE  PlacesHold' /\ ContextHolds'
<1>1. \A n \in Chunk, c \in Client : Deferred(n, c)' => Deferred(n, c) /\ br'.buf[c] = br.buf[c]
  BY EmptyFacts DEF Deferred
<1>2. \A n \in Chunk : Reading(n)' => Reading(n) /\ rd'.gen = rd.gen
  BY DEF Reading
<1>3. PlacesHold'
  <2> SUFFICES ASSUME NEW n \in Chunk
               PROVE  /\ count[n] \in {0, 1}
                      /\ count[n] = 1 => n <= typed
                      /\ Reading(n)' => count[n] = 0
                      /\ \A c \in Client : Deferred(n, c)' =>
                           /\ count[n] = 0 /\ n <= typed /\ ~Reading(n)'
                           /\ \A d \in Client : Deferred(n, d)' => d = c
                      /\ \A t \in Thread : \A e \in th'[t].flush : n \in ToSet(e.q) =>
                           /\ count[n] = 0 /\ n <= typed /\ ~Reading(n)'
                           /\ \A c \in Client : ~Deferred(n, c)'
                           /\ \A u \in Thread : \A f \in th'[u].flush : n \in ToSet(f.q) => u = t /\ f = e
    BY DEF PlacesHold
  <2> QED
    BY <1>1, <1>2 DEF PlacesHold
<1>4. ContextHolds'
  BY <1>1, <1>2 DEF ContextHolds
<1> QED
  BY <1>3, <1>4

\* A chunk is read.
LEMMA PlacesRead ==
  ASSUME TypeOK, PlacesHold, ContextHolds,
         rd.pc = "sel", typed' = typed + 1, took' = [took EXCEPT ![typed + 1] = rd.gen],
         rd'.gen = rd.gen, UNCHANGED <<br, th, count>>
  PROVE  PlacesHold' /\ ContextHolds'
<1>1. \A n \in Chunk, c \in Client : Deferred(n, c)' <=> Deferred(n, c)
  BY DEF Deferred
<1>2. typed \in Nat /\ count \in [Chunk -> Nat] /\ took \in [Chunk -> Nat]
  BY DEF TypeOK
<1>3. ASSUME NEW n \in Chunk
      PROVE  /\ n \in Nat
             /\ n <= typed => n <= typed' /\ ~Reading(n)' /\ took'[n] = took[n]
             /\ count[n] = 1 => n <= typed'
             /\ Reading(n)' => count[n] = 0 /\ took'[n] = rd.gen
  <2>1. n \in Nat
    BY <1>2 DEF Chunk
  <2>2. count[n] \in {0, 1} /\ (count[n] = 1 => n <= typed)
    BY DEF PlacesHold
  <2> QED
    BY <1>2, <2>1, <2>2 DEF Reading
<1>4. PlacesHold'
  <2> SUFFICES ASSUME NEW n \in Chunk
               PROVE  /\ count[n] \in {0, 1}
                      /\ count[n] = 1 => n <= typed'
                      /\ Reading(n)' => count[n] = 0
                      /\ \A c \in Client : Deferred(n, c) =>
                           /\ count[n] = 0 /\ n <= typed' /\ ~Reading(n)'
                           /\ \A d \in Client : Deferred(n, d) => d = c
                      /\ \A t \in Thread : \A e \in th[t].flush : n \in ToSet(e.q) =>
                           /\ count[n] = 0 /\ n <= typed' /\ ~Reading(n)'
                           /\ \A c \in Client : ~Deferred(n, c)
                           /\ \A u \in Thread : \A f \in th[u].flush : n \in ToSet(f.q) => u = t /\ f = e
    BY <1>1 DEF PlacesHold
  <2> QED
    BY <1>3 DEF PlacesHold
<1>5. ContextHolds'
  <2> SUFFICES ASSUME NEW n \in Chunk
               PROVE  /\ Reading(n)' => took'[n] = rd'.gen
                      /\ \A c \in Client : Deferred(n, c) => took'[n] = br.buf[c].gen
                      /\ \A t \in Thread : \A e \in th[t].flush : n \in ToSet(e.q) => took'[n] = e.gen
    BY <1>1 DEF ContextHolds
  <2>1. \A c \in Client : Deferred(n, c) => n <= typed /\ took[n] = br.buf[c].gen
    BY DEF PlacesHold, ContextHolds
  <2>2. \A t \in Thread : \A e \in th[t].flush : n \in ToSet(e.q) => n <= typed /\ took[n] = e.gen
    BY DEF PlacesHold, ContextHolds
  <2> QED
    BY <1>3, <2>1, <2>2
<1> QED
  BY <1>4, <1>5

\* The reader gives its chunk to its client's buffer.
LEMMA PlacesAppend ==
  ASSUME TypeOK, PlacesHold, ContextHolds,
         rd.pc # "sel", rd'.pc = "sel", br' = AppendDeferred(br, rd.c, typed, rd.gen),
         UNCHANGED <<typed, took, count, th>>
  PROVE  PlacesHold' /\ ContextHolds'
<1>1. /\ rd.c \in Client /\ rd.gen \in Nat /\ typed \in Nat /\ IsBridge(br)
  BY DEF TypeOK
<1>2. Appended(br, br', rd.c, typed, rd.gen)
  BY <1>1, AppendFacts
<1>3. ASSUME NEW n \in Chunk, NEW c \in Client, Deferred(n, c)'
      PROVE  \/ Deferred(n, c) /\ br'.buf[c].gen = br.buf[c].gen
             \/ c = rd.c /\ Reading(n) /\ br'.buf[c].gen = rd.gen
  BY <1>2, <1>3, EmptyFacts DEF Appended, Deferred, Reading
<1>4. \A n \in Chunk : ~Reading(n)'
  BY DEF Reading
<1>5. PlacesHold'
  <2> SUFFICES ASSUME NEW n \in Chunk
               PROVE  /\ count[n] \in {0, 1}
                      /\ count[n] = 1 => n <= typed
                      /\ \A c \in Client : Deferred(n, c)' =>
                           /\ count[n] = 0 /\ n <= typed
                           /\ \A d \in Client : Deferred(n, d)' => d = c
                      /\ \A t \in Thread : \A e \in th[t].flush : n \in ToSet(e.q) =>
                           /\ count[n] = 0 /\ n <= typed
                           /\ \A c \in Client : ~Deferred(n, c)'
                           /\ \A u \in Thread : \A f \in th[u].flush : n \in ToSet(f.q) => u = t /\ f = e
    BY <1>4 DEF PlacesHold
  <2>1. Reading(n) => n <= typed /\ count[n] = 0 /\ \A c \in Client : ~Deferred(n, c)
    BY <1>1 DEF Reading, PlacesHold
  <2> QED
    BY <1>3, <2>1 DEF PlacesHold
<1>6. ContextHolds'
  BY <1>3, <1>4 DEF ContextHolds
<1> QED
  BY <1>5, <1>6

\* The reader writes its chunk.
LEMMA PlacesRaw ==
  ASSUME TypeOK, PlacesHold, ContextHolds,
         rd.pc # "sel", rd'.pc = "sel", count' = Written(<<typed>>),
         UNCHANGED <<typed, took, br, th>>
  PROVE  PlacesHold' /\ ContextHolds'
<1>1. \A n \in Chunk : /\ n # typed => count'[n] = count[n]
                       /\ n = typed => count'[n] = count[n] + 1
  BY DEF Written, ToSet
<1>2. \A n \in Chunk : ~Reading(n)' /\ (n = typed => Reading(n))
  BY DEF Reading
<1>3. \A n \in Chunk, c \in Client : Deferred(n, c)' <=> Deferred(n, c)
  BY DEF Deferred
<1>4. typed \in Nat
  BY DEF TypeOK
<1>5. PlacesHold'
  <2> SUFFICES ASSUME NEW n \in Chunk
               PROVE  /\ count'[n] \in {0, 1}
                      /\ count'[n] = 1 => n <= typed
                      /\ \A c \in Client : Deferred(n, c) =>
                           /\ count'[n] = 0 /\ n <= typed
                           /\ \A d \in Client : Deferred(n, d) => d = c
                      /\ \A t \in Thread : \A e \in th[t].flush : n \in ToSet(e.q) =>
                           /\ count'[n] = 0 /\ n <= typed
                           /\ \A c \in Client : ~Deferred(n, c)
                           /\ \A u \in Thread : \A f \in th[u].flush : n \in ToSet(f.q) => u = t /\ f = e
    BY <1>2, <1>3 DEF PlacesHold
  <2>1. CASE n = typed
    BY <1>1, <1>2, <1>4, <2>1 DEF PlacesHold
  <2>2. CASE n # typed
    BY <1>1, <2>2 DEF PlacesHold
  <2> QED
    BY <2>1, <2>2
<1>6. ContextHolds'
  BY <1>2, <1>3 DEF ContextHolds
<1> QED
  BY <1>5, <1>6

\* One entry of a replay is written, or dropped.
LEMMA PlacesFlush ==
  ASSUME TypeOK, PlacesHold, ContextHolds, NEW t \in Thread, NEW e \in th[t].flush,
         count' = count \/ count' = Written(e.q),
         th'[t].flush = th[t].flush \ {e},
         \A u \in Thread \ {t} : th'[u] = th[u],
         UNCHANGED <<typed, took, br, rd>>
  PROVE  PlacesHold' /\ ContextHolds'
<1>1. \A n \in Chunk : \/ count'[n] = count[n]
                       \/ count'[n] = count[n] + 1 /\ n \in ToSet(e.q)
  BY DEF Written
<1>2. \A n \in Chunk, c \in Client : /\ Deferred(n, c)' <=> Deferred(n, c)
                                     /\ Reading(n)' <=> Reading(n)
  BY DEF Deferred, Reading
<1>3. \A u \in Thread : th'[u].flush \subseteq th[u].flush
  OBVIOUS
<1>4. \A n \in Chunk : n \in ToSet(e.q) =>
        /\ count[n] = 0 /\ n <= typed /\ ~Reading(n)
        /\ \A c \in Client : ~Deferred(n, c)
        /\ \A u \in Thread : \A f \in th'[u].flush : n \notin ToSet(f.q)
  BY <1>3 DEF PlacesHold
<1>5. PlacesHold'
  <2> SUFFICES ASSUME NEW n \in Chunk
               PROVE  /\ count'[n] \in {0, 1}
                      /\ count'[n] = 1 => n <= typed
                      /\ Reading(n) => count'[n] = 0
                      /\ \A c \in Client : Deferred(n, c) =>
                           /\ count'[n] = 0 /\ n <= typed /\ ~Reading(n)
                           /\ \A d \in Client : Deferred(n, d) => d = c
                      /\ \A v \in Thread : \A g \in th'[v].flush : n \in ToSet(g.q) =>
                           /\ count'[n] = 0 /\ n <= typed /\ ~Reading(n)
                           /\ \A c \in Client : ~Deferred(n, c)
                           /\ \A u \in Thread : \A f \in th'[u].flush : n \in ToSet(f.q) => u = v /\ f = g
    BY DEF PlacesHold, Reading, Deferred
  <2>1. CASE n \in ToSet(e.q)
    BY <1>1, <1>4, <2>1
  <2>2. CASE n \notin ToSet(e.q)
    BY <1>1, <1>3, <2>2 DEF PlacesHold
  <2> QED
    BY <2>1, <2>2
<1>6. ContextHolds'
  BY <1>2, <1>3 DEF ContextHolds, Reading
<1> QED
  BY <1>5, <1>6

\* A replay takes the deferred input.
LEMMA PlacesTake ==
  ASSUME TypeOK, PlacesHold, ContextHolds, NEW t \in Thread, Takes(br, br', th'[t].flush),
         \A u \in Thread \ {t} : th'[u] = th[u],
         UNCHANGED <<typed, took, rd, count>>
  PROVE  PlacesHold' /\ ContextHolds'
<1>1. CASE th'[t].flush = {}
  BY <1>1, PlacesQuiet DEF Takes
<1>2. CASE th'[t].flush # {}
  <2>1. \A n \in Chunk, c \in Client : ~Deferred(n, c)'
    BY <1>2, EmptyFacts DEF Takes, Cleared, Deferred
  <2>2. \A n \in Chunk : Reading(n)' <=> Reading(n)
    BY DEF Reading
  <2>3. ASSUME NEW n \in Chunk, NEW e \in th'[t].flush, n \in ToSet(e.q)
        PROVE  \E c \in Client : /\ Deferred(n, c)
                                 /\ e = [c |-> c, gen |-> br.buf[c].gen, q |-> br.buf[c].q]
    <3>1. PICK c \in Client : e = [c |-> c, gen |-> br.buf[c].gen, q |-> br.buf[c].q]
      BY DEF Takes
    <3> QED
      BY <2>3, <3>1 DEF Deferred
  <2>4. PlacesHold'
    <3> SUFFICES ASSUME NEW n \in Chunk
                 PROVE  /\ count[n] \in {0, 1}
                        /\ count[n] = 1 => n <= typed
                        /\ Reading(n) => count[n] = 0
                        /\ \A v \in Thread : \A g \in th'[v].flush : n \in ToSet(g.q) =>
                             /\ count[n] = 0 /\ n <= typed /\ ~Reading(n)
                             /\ \A u \in Thread : \A f \in th'[u].flush : n \in ToSet(f.q) => u = v /\ f = g
      BY <2>1, <2>2 DEF PlacesHold
    <3>1. ASSUME NEW v \in Thread, NEW g \in th'[v].flush, n \in ToSet(g.q)
          PROVE  /\ count[n] = 0 /\ n <= typed /\ ~Reading(n)
                 /\ v = t => \E c \in Client : /\ Deferred(n, c)
                                               /\ g = [c |-> c, gen |-> br.buf[c].gen, q |-> br.buf[c].q]
                 /\ v # t => g \in th[v].flush
      <4>1. CASE v = t
        BY <2>3, <3>1, <4>1 DEF PlacesHold
      <4>2. CASE v # t
        BY <3>1, <4>2 DEF PlacesHold
      <4> QED
        BY <4>1, <4>2
    <3>2. ASSUME NEW v \in Thread, NEW g \in th'[v].flush, n \in ToSet(g.q),
                 NEW u \in Thread, NEW f \in th'[u].flush, n \in ToSet(f.q)
          PROVE  u = v /\ f = g
      <4>1. CASE u = t /\ v = t
        BY <3>1, <3>2, <4>1 DEF PlacesHold
      <4>2. CASE u # t /\ v # t
        BY <3>2, <4>2 DEF PlacesHold
      <4>3. CASE u = t /\ v # t
        BY <3>1, <3>2, <4>3 DEF PlacesHold
      <4>4. CASE u # t /\ v = t
        BY <3>1, <3>2, <4>4 DEF PlacesHold
      <4> QED
        BY <4>1, <4>2, <4>3, <4>4
    <3> QED
      BY <3>1, <3>2 DEF PlacesHold
  <2>5. ContextHolds'
    <3> SUFFICES ASSUME NEW n \in Chunk
                 PROVE  /\ Reading(n) => took[n] = rd.gen
                        /\ \A v \in Thread : \A g \in th'[v].flush : n \in ToSet(g.q) => took[n] = g.gen
      BY <2>1, <2>2 DEF ContextHolds
    <3>1. ASSUME NEW v \in Thread, NEW g \in th'[v].flush, n \in ToSet(g.q) PROVE took[n] = g.gen
      BY <2>3, <3>1 DEF ContextHolds
    <3> QED
      BY <3>1 DEF ContextHolds
  <2> QED
    BY <2>4, <2>5
<1> QED
  BY <1>1, <1>2

------------------------------------------------------------------------------
(* What a thread does to what it remembers                                 *)

\* A thread at rest.
LEMMA RestFacts ==
  AtRest \in Local /\ AtRest.pc = "idle" /\ AtRest.flush = {} /\ AtRest.next = "idle"
  BY DEF AtRest, Local, Pc, After

\* Leaving the lock: no replay is in hand yet.
LEMMA LeaveFacts ==
  ASSUME NEW r, r.resume \in BOOLEAN, r.clear \in BOOLEAN, NEW pc \in After
  PROVE  LET l == Leave(r, pc)
         IN  /\ l \in Local /\ l.flush = {}
             /\ l.pc = pc \/ (l.pc = "resume" /\ l.next = pc)
<1> DEFINE x == AtRest
<1>1. x \in Local /\ x.flush = {}
  BY RestFacts
<1>2. Leave(r, pc) = IF r.resume THEN [x EXCEPT !.pc = "resume", !.clear = r.clear, !.next = pc]
                     ELSE [x EXCEPT !.pc = pc]
  BY DEF Leave
<1> HIDE DEF x
<1>3. ASSUME NEW v \in BOOLEAN
      PROVE  LET l == [x EXCEPT !.pc = "resume", !.clear = v, !.next = pc]
             IN  l \in Local /\ l.flush = {} /\ l.pc = "resume" /\ l.next = pc
  BY <1>1 DEF Local, Pc
<1>4. LET l == [x EXCEPT !.pc = pc] IN l \in Local /\ l.flush = {} /\ l.pc = pc
  BY <1>1 DEF Local, Pc
<1> QED
  BY <1>2, <1>3, <1>4

\* Thread t goes on with v, the others are where they were.
Goes(t, v) ==
  /\ th' \in [Thread -> Local]
  /\ th'[t] = v
  /\ \A u \in Thread \ {t} : th'[u] = th[u]

\* A new record for a thread.
LEMMA GoesTo ==
  ASSUME TypeOK, NEW t \in Thread, NEW v \in Local, th' = [th EXCEPT ![t] = v]
  PROVE  Goes(t, v)
  BY DEF TypeOK, Goes

\* A thread goes on to pc.
LEMMA GoesOn ==
  ASSUME TypeOK, NEW t \in Thread, NEW pc \in Pc, th' = [th EXCEPT ![t].pc = pc]
  PROVE  /\ Goes(t, th'[t])
         /\ th'[t].pc = pc /\ th'[t].flush = th[t].flush /\ th'[t].next = th[t].next
  BY ZenonT(40) DEF TypeOK, Goes, Local

------------------------------------------------------------------------------
(* Every step keeps the invariant                                          *)

\* A step that moves no chunk: thread t goes on with v.
LEMMA QuietStep ==
  ASSUME Inv, NEW t \in Thread, NEW v \in Local, Goes(t, v),
         v.flush \subseteq th[t].flush,
         t = "tick" /\ v.pc = "grant" => v.want \in Client,
         t = "cmd" /\ InCommand' => InCommand,
         Tame(br, br'),
         lease' \in Lease, lease'.owner = Agent => lease.owner = Agent \/ ~op,
         HumanLease(stash'), op' \in BOOLEAN, op' => op, sent' \in Nat,
         UNCHANGED <<peer, rd, typed, took, count>>
  PROVE  Inv'
<1>1. TypeOK'
  <2>1. TypeOK
    BY DEF Inv
  <2>2. th'["tick"].pc = "grant" => th'["tick"].want \in Client
    BY <2>1 DEF TypeOK, Goes, Thread
  <2>3. IsBridge(br')
    BY DEF Tame
  <2> QED
    BY <2>1, <2>2, <2>3 DEF TypeOK, Goes
<1>2. PlacesHold' /\ ContextHolds'
  <2>1. \A u \in Thread : th'[u].flush \subseteq th[u].flush
    BY DEF Goes
  <2> QED
    BY <2>1, PlacesQuiet DEF Inv, Tame
<1>3. CommandHolds'
  <2>1. InCommand' => InCommand
    BY DEF InCommand, Goes, Thread
  <2> QED
    BY <2>1 DEF Inv, CommandHolds, Tame
<1> QED
  BY <1>1, <1>2, <1>3 DEF Inv

\* A step of the environment that the bridge does not see.
LEMMA EnvStep ==
  ASSUME Inv, lease' \in Lease, lease'.owner = lease.owner, peer' \subseteq Client,
         UNCHANGED <<br, stash, op, rd, th, ghostVars>>
  PROVE  Inv'
<1>1. TypeOK'
  BY DEF Inv, TypeOK, ghostVars
<1>2. PlacesHold' /\ ContextHolds'
  BY PlacesQuiet DEF Inv, ghostVars
<1>3. CommandHolds'
  BY DEF Inv, CommandHolds, InCommand
<1> QED
  BY <1>1, <1>2, <1>3 DEF Inv

\* A step of the reader that moves its chunk to a place, or writes it.
LEMMA ReaderStep ==
  ASSUME Inv, UNCHANGED <<mgrVars, peer, th, sent>>,
         rd' \in [pc : {"sel", "read", "owned", "raw", "defer"}, c : Client \cup {None}, gen : Nat],
         rd'.pc # "sel" => rd'.c \in Client,
         IsBridge(br'), br'.blocked = br.blocked,
         typed' \in Nat, took' \in [Chunk -> Nat], count' \in [Chunk -> Nat],
         PlacesHold', ContextHolds'
  PROVE  Inv'
<1>1. TypeOK'
  BY DEF Inv, TypeOK, mgrVars
<1>2. CommandHolds'
  BY DEF Inv, CommandHolds, InCommand, mgrVars
<1> QED
  BY <1>1, <1>2 DEF Inv

\* A step of thread t that goes on to pc and leaves the rest to the bridge.
LEMMA GoesOnStep ==
  ASSUME Inv, NEW t \in Thread, NEW pc \in Pc \ {"grant"}, th' = [th EXCEPT ![t].pc = pc],
         t = "cmd" => \/ pc \notin After \cup {"guard", "guard2", "resume", "flush", "clear"}
                      \/ th["cmd"].pc \in {"guard", "guard2", "resume", "flush", "clear"}
                         /\ pc \in {th["cmd"].next, "popped", "guard", "guard2", "resume", "flush", "clear"}
                      \/ th["cmd"].pc = "suspend" /\ pc = "run",
         Tame(br, br'),
         UNCHANGED <<mgrVars, peer, rd, ghostVars>>
  PROVE  Inv'
<1> DEFINE v == th'[t]
<1>1. TypeOK
  BY DEF Inv
<1>2. Goes(t, v) /\ v.pc = pc /\ v.flush = th[t].flush /\ v.next = th[t].next
  BY <1>1, GoesOn
<1>3. v \in Local
  BY <1>2 DEF Goes
<1>4. t = "cmd" /\ InCommand' => InCommand
  BY <1>2 DEF InCommand, After
<1>5. /\ lease' \in Lease /\ HumanLease(stash') /\ op' \in BOOLEAN /\ sent' \in Nat
      /\ UNCHANGED <<lease, op, peer, rd, typed, took, count>>
  BY <1>1 DEF TypeOK, mgrVars, ghostVars
<1> QED
  BY <1>2, <1>3, <1>4, <1>5, QuietStep

\* The tick's guard.
LEMMA TickGuardStep ==
  ASSUME Inv, NEW t \in Thread, TickGuard(t)
  PROVE  Inv'
<1>1. Tame(br, br')
  BY TameRefl DEF Inv, TypeOK, TickGuard
<1>2. PICK pc \in {"popped", "resume", "clear"} : th' = [th EXCEPT ![t].pc = pc]
  BY DEF TickGuard
<1>3. pc \in Pc \ {"grant"}
  BY DEF Pc, After
<1> QED
  BY <1>1, <1>2, <1>3, GoesOnStep DEF TickGuard, envVars

\* resume_interactive.
LEMMA ResumeStep ==
  ASSUME Inv, NEW t \in Thread, Resume(t)
  PROVE  Inv'
<1> DEFINE T == ResumeTakes(br)
           v == [th[t] EXCEPT !.pc = "flush", !.flush = T]
<1>1. TypeOK
  BY DEF Inv
<1>2. Tame(br, br') /\ Takes(br, br', T)
  BY <1>1, ResumeFacts DEF TypeOK, Resume
<1>3. th[t] \in Local /\ T \in SUBSET Entry
  BY <1>1, <1>2 DEF TypeOK, Takes
<1>4. th' = [th EXCEPT ![t] = v]
  BY <1>1 DEF Resume, TypeOK, Local
<1>5. v \in Local /\ v.pc = "flush" /\ v.flush = T /\ v.next = th[t].next
  <2>1. \A l \in Local, S \in SUBSET Entry :
          LET w == [l EXCEPT !.pc = "flush", !.flush = S]
          IN  w \in Local /\ w.pc = "flush" /\ w.flush = S /\ w.next = l.next
    BY DEF Local, Pc
  <2> QED
    BY <1>3, <2>1
<1>6. Goes(t, v)
  BY <1>1, <1>4, <1>5, GoesTo
<1> HIDE DEF v, T
<1>7. PlacesHold' /\ ContextHolds'
  BY <1>2, <1>5, <1>6, PlacesTake DEF Inv, Resume, Goes, ghostVars
<1>8. TypeOK'
  <2>1. th'["tick"].pc = "grant" => th'["tick"].want \in Client
    BY <1>1, <1>5, <1>6 DEF TypeOK, Goes, Thread
  <2> QED
    BY <1>1, <1>2, <1>6, <2>1 DEF TypeOK, Goes, Tame, Resume, mgrVars, envVars, ghostVars
<1>9. CommandHolds'
  <2>1. InCommand' => InCommand
    BY <1>5, <1>6 DEF InCommand, Goes, Resume, Thread
  <2> QED
    BY <1>2, <2>1 DEF Inv, CommandHolds, Tame, Resume, mgrVars
<1> QED
  BY <1>7, <1>8, <1>9 DEF Inv

\* One entry of a replay goes out.
LEMMA FlushStep ==
  ASSUME Inv, NEW t \in Thread, Flush(t)
  PROVE  Inv'
<1>1. TypeOK
  BY DEF Inv
<1>2. PICK e \in th[t].flush : /\ count' = IF e.gen = br.gen THEN Written(e.q) ELSE count
                               /\ th' = [th EXCEPT ![t].flush = @ \ {e}]
  BY DEF Flush
<1>3. /\ th' \in [Thread -> Local]
      /\ th'[t].flush = th[t].flush \ {e} /\ th'[t].pc = th[t].pc /\ th'[t].next = th[t].next
      /\ th'[t].want = th[t].want
      /\ \A u \in Thread \ {t} : th'[u] = th[u]
  BY <1>1, <1>2 DEF TypeOK, Local
<1>4. count' \in [Chunk -> Nat]
  BY <1>1, <1>2 DEF TypeOK, Written
<1>5. PlacesHold' /\ ContextHolds'
  BY <1>2, <1>3, PlacesFlush DEF Inv, Flush
<1>6. TypeOK'
  <2>1. th'["tick"].pc = "grant" => th'["tick"].want \in Client
    BY <1>1, <1>3 DEF TypeOK, Thread
  <2> QED
    BY <1>1, <1>3, <1>4, <2>1 DEF TypeOK, Flush, mgrVars, envVars
<1>7. CommandHolds'
  <2>1. InCommand' => InCommand
    BY <1>3 DEF InCommand, Thread
  <2> QED
    BY <2>1 DEF Inv, CommandHolds, Flush, mgrVars
<1> QED
  BY <1>5, <1>6, <1>7 DEF Inv

\* The end of a replay.
LEMMA FlushedStep ==
  ASSUME Inv, NEW t \in Thread, Flushed(t)
  PROVE  Inv'
<1>1. Tame(br, br')
  BY TameRefl DEF Inv, TypeOK, Flushed
<1>2. th[t].next \in After
  BY DEF Inv, TypeOK, Local
<1>3. PICK pc \in {th[t].next, "guard2", "clear"} : th' = [th EXCEPT ![t].pc = pc]
  BY DEF Flushed
<1>4. pc \in Pc \ {"grant"}
  BY <1>2 DEF Pc, After
<1> QED
  BY <1>1, <1>3, <1>4, GoesOnStep DEF Flushed, envVars

\* clear_owner_after_resume.
LEMMA ClearOwnerStep ==
  ASSUME Inv, NEW t \in Thread, ClearOwner(t)
  PROVE  Inv'
<1> DEFINE v == [th[t] EXCEPT !.pc = th[t].next, !.clear = FALSE]
<1>1. TypeOK
  BY DEF Inv
<1>2. Tame(br, br')
  BY <1>1, TameSetOwner DEF TypeOK, ClearOwner
<1>3. th[t] \in Local /\ th[t].next \in After /\ th[t].pc = "clear"
  BY <1>1 DEF TypeOK, Local, ClearOwner
<1>4. th' = [th EXCEPT ![t] = v]
  BY <1>1 DEF ClearOwner, TypeOK, Local
<1>5. v \in Local /\ v.pc = th[t].next /\ v.flush = th[t].flush /\ v.next = th[t].next
  <2>1. \A l \in Local : LET w == [l EXCEPT !.pc = l.next, !.clear = FALSE]
                         IN  w \in Local /\ w.pc = l.next /\ w.flush = l.flush /\ w.next = l.next
    BY DEF Local, Pc
  <2> QED
    BY <1>3, <2>1
<1>6. Goes(t, v)
  BY <1>1, <1>4, <1>5, GoesTo
<1> HIDE DEF v
<1>7. t = "cmd" /\ InCommand' => InCommand
  BY <1>3, <1>5, <1>6 DEF InCommand, After, Goes
<1>8. v.pc # "grant"
  BY <1>3, <1>5 DEF After
<1>9. /\ lease' \in Lease /\ HumanLease(stash') /\ op' \in BOOLEAN /\ sent' \in Nat
      /\ UNCHANGED <<lease, op, peer, rd, typed, took, count>>
  BY <1>1 DEF TypeOK, ClearOwner, mgrVars, envVars, ghostVars
<1> QED
  BY <1>2, <1>5, <1>6, <1>7, <1>8, <1>9, QuietStep

\* The reader captures the generation.
LEMMA ReaderTopStep ==
  ASSUME Inv, ReaderTop
  PROVE  Inv'
<1>1. TypeOK
  BY DEF Inv
<1>2. br.gen \in Nat /\ IsBridge(br)
  BY <1>1 DEF TypeOK, IsBridge
<1>3. /\ rd' \in [pc : {"sel", "read", "owned", "raw", "defer"}, c : Client \cup {None}, gen : Nat]
      /\ rd'.pc = "sel"
  BY <1>1, <1>2 DEF TypeOK, ReaderTop
<1>4. UNCHANGED <<br, mgrVars, peer, th, typed, took, count, sent>>
  BY DEF ReaderTop, envVars, ghostVars
<1>5. PlacesHold' /\ ContextHolds'
  BY <1>3, <1>4, PlacesQuiet DEF Inv
<1>6. typed' \in Nat /\ took' \in [Chunk -> Nat] /\ count' \in [Chunk -> Nat]
  BY <1>1, <1>4 DEF TypeOK
<1>7. IsBridge(br') /\ br'.blocked = br.blocked
  BY <1>2, <1>4
<1> QED
  BY <1>3, <1>4, <1>5, <1>6, <1>7, ReaderStep

\* A chunk is read.
LEMMA ReadStep ==
  ASSUME Inv, NEW c \in Client, Read(c)
  PROVE  Inv'
<1>1. TypeOK
  BY DEF Inv
<1>2. /\ rd' \in [pc : {"sel", "read", "owned", "raw", "defer"}, c : Client \cup {None}, gen : Nat]
      /\ rd'.gen = rd.gen /\ rd'.c = c
  BY <1>1 DEF TypeOK, Read
<1>3. typed' \in Nat /\ took' \in [Chunk -> Nat] /\ count' \in [Chunk -> Nat]
  <2>1. typed \in Nat /\ took \in [Chunk -> Nat] /\ rd.gen \in Nat /\ count' \in [Chunk -> Nat]
    BY <1>1 DEF TypeOK, Read
  <2>2. typed' = typed + 1 /\ took' = [took EXCEPT ![typed + 1] = rd.gen]
    BY DEF Read
  <2>3. \A f \in [Chunk -> Nat], k, g \in Nat : [f EXCEPT ![k] = g] \in [Chunk -> Nat]
    OBVIOUS
  <2>4. typed + 1 \in Nat
    BY <2>1
  <2> QED
    BY <2>1, <2>2, <2>3, <2>4
<1>4. PlacesHold' /\ ContextHolds' /\ IsBridge(br)
  BY <1>1, <1>2, PlacesRead DEF Inv, Read, TypeOK
<1> QED
  BY <1>2, <1>3, <1>4, ReaderStep DEF Read

\* A step of the reader in its own locals.
LEMMA LookStep ==
  ASSUME Inv, rd.pc # "sel", rd'.gen = rd.gen, UNCHANGED <<br, mgrVars, peer, th, ghostVars>>,
         rd' \in [pc : {"sel", "read", "owned", "raw", "defer"}, c : Client \cup {None}, gen : Nat],
         rd'.pc # "sel" => rd'.c \in Client
  PROVE  Inv'
<1>1. PlacesHold' /\ ContextHolds'
  BY PlacesQuiet DEF Inv, ghostVars
<1>2. IsBridge(br') /\ br'.blocked = br.blocked
  BY DEF Inv, TypeOK
<1>3. /\ typed' \in Nat /\ took' \in [Chunk -> Nat] /\ count' \in [Chunk -> Nat]
      /\ UNCHANGED <<mgrVars, peer, th, sent>>
  BY DEF Inv, TypeOK, ghostVars
<1> QED
  BY <1>1, <1>2, <1>3, ReaderStep

\* Where the reader may be after one of its sections.
LEMMA ReaderGoes ==
  ASSUME TypeOK, rd.pc # "sel",
         Done \/ Route \/ \E pc \in {"owned", "raw"} : rd' = [rd EXCEPT !.pc = pc]
  PROVE  /\ rd' \in [pc : {"sel", "read", "owned", "raw", "defer"}, c : Client \cup {None}, gen : Nat]
         /\ rd'.pc # "sel" => rd'.c \in Client
         /\ rd'.gen = rd.gen
         /\ Done => rd'.pc = "sel"
  BY DEF TypeOK, Done, Route

\* The chunk goes to its client's buffer.
LEMMA AppendStep ==
  ASSUME Inv, rd.pc # "sel", Done, br' = AppendDeferred(br, rd.c, typed, rd.gen),
         UNCHANGED <<mgrVars, peer, th, ghostVars>>
  PROVE  Inv'
<1>1. TypeOK
  BY DEF Inv
<1>2. /\ rd' \in [pc : {"sel", "read", "owned", "raw", "defer"}, c : Client \cup {None}, gen : Nat]
      /\ rd'.pc = "sel"
  BY <1>1, ReaderGoes
<1>3. IsBridge(br') /\ br'.blocked = br.blocked
  BY <1>1, AppendFacts DEF TypeOK, Appended
<1>4. PlacesHold' /\ ContextHolds'
  BY <1>2, PlacesAppend DEF Inv, ghostVars
<1>5. typed' \in Nat /\ took' \in [Chunk -> Nat] /\ count' \in [Chunk -> Nat] /\ UNCHANGED sent
  BY <1>1 DEF TypeOK, ghostVars
<1> QED
  BY <1>2, <1>3, <1>4, <1>5, ReaderStep

\* The reader's sections.
LEMMA ReaderSteps ==
  ASSUME Inv, Reader
  PROVE  Inv'
<1>1. TypeOK
  BY DEF Inv
<1>2. CASE CheckOwner
  <2>1. rd.pc # "sel" /\ (Done \/ Route \/ rd' = [rd EXCEPT !.pc = "owned"])
    BY <1>2 DEF CheckOwner
  <2> QED
    BY <1>1, <1>2, <2>1, ReaderGoes, LookStep DEF CheckOwner, envVars
<1>3. CASE Recheck
  <2>1. CASE Done /\ br' = AppendDeferred(br, rd.c, typed, rd.gen)
    BY <1>3, <2>1, AppendStep DEF Recheck
  <2>2. CASE UNCHANGED br
    <3>1. rd.pc # "sel" /\ (Done \/ Route \/ rd' = [rd EXCEPT !.pc = "raw"])
      BY <1>3 DEF Recheck
    <3> QED
      BY <1>1, <1>3, <2>2, <3>1, ReaderGoes, LookStep DEF Recheck
  <2> QED
    BY <1>3, <2>1, <2>2 DEF Recheck
<1>4. CASE SendRaw
  <2>1. CASE br' = AppendDeferred(br, rd.c, typed, rd.gen) /\ UNCHANGED count
    BY <1>4, <2>1, AppendStep DEF SendRaw, envVars, ghostVars
  <2>2. CASE UNCHANGED <<br, count>>
    BY <1>1, <1>4, <2>2, ReaderGoes, LookStep DEF SendRaw, envVars, ghostVars
  <2>3. CASE UNCHANGED br /\ count' = Written(<<typed>>)
    <3>1. /\ rd' \in [pc : {"sel", "read", "owned", "raw", "defer"}, c : Client \cup {None}, gen : Nat]
          /\ rd'.pc = "sel"
      BY <1>1, <1>4, ReaderGoes DEF SendRaw
    <3>2. PlacesHold' /\ ContextHolds'
      BY <1>4, <2>3, <3>1, PlacesRaw DEF Inv, SendRaw
    <3>3. typed' \in Nat /\ took' \in [Chunk -> Nat] /\ count' \in [Chunk -> Nat]
      BY <1>1, <1>4, <2>3 DEF TypeOK, SendRaw, Written
    <3>4. IsBridge(br') /\ br'.blocked = br.blocked /\ UNCHANGED <<mgrVars, peer, th, sent>>
      BY <1>1, <1>4, <2>3 DEF TypeOK, SendRaw, envVars
    <3> QED
      BY <3>1, <3>2, <3>3, <3>4, ReaderStep
  <2> QED
    BY <1>4, <2>1, <2>2, <2>3 DEF SendRaw
<1>5. CASE Defer
  <2>1. CASE br' = AppendDeferred(br, rd.c, typed, rd.gen)
    BY <1>5, <2>1, AppendStep DEF Defer, envVars
  <2>2. CASE UNCHANGED br
    BY <1>1, <1>5, <2>2, ReaderGoes, LookStep DEF Defer, envVars
  <2> QED
    BY <1>5, <2>1, <2>2 DEF Defer
<1> QED
  BY <1>2, <1>3, <1>4, <1>5 DEF Reader

\* The admission of a command.
LEMMA BeginCommandStep ==
  ASSUME Inv, NEW human \in BOOLEAN, NEW fresh \in BOOLEAN, NEW late \in BOOLEAN,
         BeginCommand(human, fresh, late)
  PROVE  Inv'
<1> DEFINE r == Refresh(br, lease, stash, fresh, late)
           busy == r.l # NoLease /\ (human \/ r.l.owner = Agent)
           pc == IF busy THEN "idle" ELSE IF r.l # NoLease THEN "suspend" ELSE "run"
           u == Leave(r, pc)
           w == ~busy /\ r.l # NoLease
           v == [u EXCEPT !.susp = w]
<1>1. TypeOK
  BY DEF Inv
<1>2. /\ Tame(br, r.b)
      /\ r.l \in Lease /\ HumanLease(r.s)
      /\ r.l.owner = Agent => lease.owner = Agent
      /\ r.resume \in BOOLEAN /\ r.clear \in BOOLEAN
  BY <1>1, RefreshFacts DEF TypeOK
<1>3. /\ lease' = r.l /\ stash' = r.s
      /\ br' = IF busy THEN r.b ELSE [r.b EXCEPT !.blocked = TRUE]
      /\ op' = ~busy
      /\ th' = [th EXCEPT !["cmd"] = v]
      /\ UNCHANGED <<peer, rd, typed, took, count, sent>>
  BY DEF BeginCommand, BeginOperation, ghostVars
<1>4. r.l.owner = Agent => busy
  BY LeaseFacts DEF HumanLease
<1>5. pc \in After
  BY DEF After
<1> HIDE DEF r
<1>6. /\ u \in Local /\ u.flush = {}
      /\ u.pc = pc \/ (u.pc = "resume" /\ u.next = pc)
  <2> HIDE DEF pc
  <2> QED
    BY <1>2, <1>5, LeaveFacts
<1>7. v \in Local /\ v.flush = {} /\ v.pc = u.pc /\ v.next = u.next
  <2>1. \A l \in Local, x \in BOOLEAN : LET y == [l EXCEPT !.susp = x]
                                        IN  y \in Local /\ y.flush = l.flush /\ y.pc = l.pc /\ y.next = l.next
    BY DEF Local
  <2>2. w \in BOOLEAN
    OBVIOUS
  <2> HIDE DEF u, w
  <2> QED
    BY <1>6, <2>1, <2>2
<1> HIDE DEF u, w
<1>8. Goes("cmd", v)
  <2> HIDE DEF v
  <2> QED
    BY <1>1, <1>3, <1>7, GoesTo DEF Thread
<1> HIDE DEF v
<1>9. Tame(br, r.b) /\ IsBridge(r.b)
  BY <1>2 DEF Tame
<1>10. /\ IsBridge(br') /\ br'.gen = br.gen
       /\ \A d \in Client : br'.buf[d] = br.buf[d] \/ br'.buf[d] = EmptyBuf
       /\ ~busy => br'.blocked
  <2>1. CASE busy
    BY <1>3, <1>9, <2>1 DEF Tame
  <2>2. CASE ~busy
    <3> DEFINE b == r.b
    <3>1. br' = [b EXCEPT !.blocked = TRUE]
      BY <1>3, <2>2
    <3>2. IsBridge(b) /\ Tame(br, b)
      BY <1>9
    <3> HIDE DEF b
    <3> QED
      BY <2>2, <3>1, <3>2 DEF Tame, IsBridge
  <2> QED
    BY <2>1, <2>2
<1>11. PlacesHold' /\ ContextHolds'
  <2>1. \A t \in Thread : th'[t].flush \subseteq th[t].flush
    BY <1>7, <1>8 DEF Goes
  <2> QED
    BY <1>3, <1>10, <2>1, PlacesQuiet DEF Inv
<1>12. TypeOK'
  <2>1. th'["tick"].pc = "grant" => th'["tick"].want \in Client
    BY <1>1, <1>8 DEF TypeOK, Goes, Thread
  <2>2. busy \in BOOLEAN /\ (~busy) \in BOOLEAN
    OBVIOUS
  <2> HIDE DEF busy
  <2>3. op' \in BOOLEAN
    BY <1>3, <2>2
  <2> QED
    BY <1>1, <1>2, <1>3, <1>8, <1>10, <2>1, <2>3 DEF TypeOK, Goes
<1>13. CommandHolds'
  <2>1. InCommand' => ~busy
    BY <1>6, <1>7, <1>8 DEF InCommand, Goes
  <2> QED
    BY <1>3, <1>4, <1>10, <2>1 DEF CommandHolds
<1> QED
  BY <1>11, <1>12, <1>13 DEF Inv

\* The command's own steps.
LEMMA CommandSteps ==
  ASSUME Inv, Command
  PROVE  Inv'
<1>1. TypeOK
  BY DEF Inv
<1>2. CASE SuspendHuman
  <2>1. Tame(br, br')
    BY <1>1, <1>2, TameSuspend DEF TypeOK, SuspendHuman
  <2>2. "cmd" \in Thread /\ "run" \in Pc \ {"grant"}
    BY DEF Thread, Pc, After
  <2> QED
    BY <1>2, <2>1, <2>2, GoesOnStep DEF SuspendHuman, envVars
<1>3. CASE EndCommand
  <2> DEFINE v == th'["cmd"]
  <2>1. /\ th' \in [Thread -> Local]
        /\ v.flush = th["cmd"].flush
        /\ \A u \in Thread \ {"cmd"} : th'[u] = th[u]
    <3> DEFINE p == IF th["cmd"].susp THEN "resume" ELSE "finish"
               x == [th["cmd"] EXCEPT !.pc = p, !.next = "finish"]
    <3>1. th' = [th EXCEPT !["cmd"] = x]
      BY <1>1, <1>3 DEF TypeOK, Local, EndCommand, Thread
    <3>2. \A l \in Local, q \in {"resume", "finish"} :
            LET y == [l EXCEPT !.pc = q, !.next = "finish"] IN y \in Local /\ y.flush = l.flush
      BY DEF Local, Pc, After
    <3>3. th["cmd"] \in Local /\ p \in {"resume", "finish"} /\ "cmd" \in Thread
      BY <1>1 DEF TypeOK, Thread
    <3> HIDE DEF p
    <3>4. x \in Local /\ x.flush = th["cmd"].flush
      BY <3>2, <3>3
    <3> HIDE DEF x
    <3> QED
      BY <1>1, <3>1, <3>3, <3>4 DEF TypeOK
  <2>2. InCommand
    BY <1>3 DEF EndCommand, InCommand
  <2>3. /\ Goes("cmd", v) /\ v \in Local /\ "cmd" \in Thread
    BY <2>1 DEF Goes, Thread
  <2>4. Tame(br, br')
    BY <1>1, <1>3, TameRefl DEF TypeOK, EndCommand
  <2>5. /\ lease' \in Lease /\ HumanLease(stash') /\ op' \in BOOLEAN /\ sent' \in Nat
        /\ UNCHANGED <<lease, op, peer, rd, typed, took, count>>
    BY <1>1, <1>3 DEF TypeOK, EndCommand, mgrVars, envVars, ghostVars
  <2> QED
    BY <2>1, <2>2, <2>3, <2>4, <2>5, QuietStep
<1>4. CASE FinishOperation
  <2> DEFINE T == AdmitTakes(br)
             v == [th["cmd"] EXCEPT !.pc = "flush", !.flush = T, !.next = "release"]
  <2>1. IsBridge(br') /\ Takes(br, br', T)
    BY <1>1, <1>4, AdmitFacts DEF TypeOK, FinishOperation
  <2>2. th["cmd"] \in Local /\ T \in SUBSET Entry /\ "cmd" \in Thread
    BY <1>1, <2>1 DEF TypeOK, Takes, Thread
  <2>3. th' = [th EXCEPT !["cmd"] = v]
    BY <1>1, <1>4, <2>2 DEF FinishOperation, TypeOK, Local
  <2>4. v \in Local /\ v.pc = "flush" /\ v.flush = T /\ v.next = "release"
    <3>1. \A l \in Local, S \in SUBSET Entry :
            LET w == [l EXCEPT !.pc = "flush", !.flush = S, !.next = "release"]
            IN  w \in Local /\ w.pc = "flush" /\ w.flush = S /\ w.next = "release"
      BY DEF Local, Pc, After
    <3> QED
      BY <2>2, <3>1
  <2>5. Goes("cmd", v)
    BY <1>1, <2>2, <2>3, <2>4, GoesTo
  <2> HIDE DEF v, T
  <2>6. PlacesHold' /\ ContextHolds'
    BY <1>4, <2>1, <2>2, <2>4, <2>5, PlacesTake DEF Inv, FinishOperation, Goes, ghostVars
  <2>7. TypeOK'
    <3>1. th'["tick"].pc = "grant" => th'["tick"].want \in Client
      BY <1>1, <2>5 DEF TypeOK, Goes, Thread
    <3> QED
      BY <1>1, <1>4, <2>1, <2>5, <3>1 DEF TypeOK, Goes, FinishOperation, mgrVars, envVars, ghostVars
  <2>8. CommandHolds'
    <3>1. ~InCommand'
      BY <2>4, <2>5 DEF InCommand, Goes
    <3> QED
      BY <1>4, <3>1 DEF Inv, CommandHolds, FinishOperation, mgrVars
  <2> QED
    BY <2>6, <2>7, <2>8 DEF Inv
<1>5. CASE ReleaseToken
  <2>1. "cmd" \in Thread /\ Goes("cmd", AtRest)
    BY <1>1, <1>5, RestFacts, GoesTo DEF ReleaseToken, Thread
  <2>2. ~InCommand'
    BY <2>1, RestFacts DEF InCommand, Goes
  <2>3. Tame(br, br')
    BY <1>1, <1>5, TameRefl DEF TypeOK, ReleaseToken
  <2>4. /\ lease' \in Lease /\ HumanLease(stash') /\ op' \in BOOLEAN /\ sent' \in Nat /\ ~op'
        /\ UNCHANGED <<lease, peer, rd, typed, took, count>>
    BY <1>1, <1>5 DEF TypeOK, ReleaseToken, envVars, ghostVars
  <2> QED
    BY <2>1, <2>2, <2>3, <2>4, RestFacts, QuietStep
<1> QED
  BY <1>2, <1>3, <1>4, <1>5 DEF Command

\* A step of another thread than the command's that leaves with nothing in hand.
LEMMA LeavingStep ==
  ASSUME Inv, NEW t \in Thread \ {"cmd"}, NEW v \in Local,
         v.flush = {}, v.pc # "grant", th' = [th EXCEPT ![t] = v],
         Tame(br, br'),
         lease' \in Lease, lease'.owner = Agent => lease.owner = Agent \/ ~op,
         HumanLease(stash'), UNCHANGED <<op, peer, rd, ghostVars>>
  PROVE  Inv'
<1>1. Goes(t, v)
  BY GoesTo DEF Inv
<1>2. op' \in BOOLEAN /\ op' = op /\ sent' \in Nat /\ UNCHANGED <<peer, rd, typed, took, count>>
  BY DEF Inv, TypeOK, ghostVars
<1> QED
  BY <1>1, <1>2, QuietStep

\* interactive_open.
LEMMA OpenLeaseStep ==
  ASSUME Inv, NEW fresh \in BOOLEAN, NEW late \in BOOLEAN, OpenLease(fresh, late)
  PROVE  Inv'
<1> DEFINE r == Refresh(br, lease, stash, fresh, late)
           preempt == r.l.owner \in Client /\ ~active
<1>1. TypeOK
  BY DEF Inv
<1>2. /\ Tame(br, r.b)
      /\ r.l \in Lease /\ HumanLease(r.s)
      /\ r.l.owner = Agent => lease.owner = Agent
      /\ r.resume \in BOOLEAN /\ r.clear \in BOOLEAN
  BY <1>1, RefreshFacts DEF TypeOK
<1>3. UNCHANGED <<op, peer, rd, ghostVars>> /\ "loop" \in Thread \ {"cmd"}
  BY DEF OpenLease, Thread
<1>4. CASE op \/ post
  <2>1. Tame(br, br') /\ lease' = lease /\ lease' \in Lease /\ HumanLease(stash')
    BY <1>1, <1>4, TameRefl DEF TypeOK, OpenLease
  <2>2. th' = [th EXCEPT !["loop"] = AtRest]
    BY <1>4 DEF OpenLease
  <2> QED
    BY <1>3, <2>1, <2>2, RestFacts, LeavingStep
<1>5. CASE ~(op \/ post)
  <2>1. \/ /\ br' = r.b /\ lease' = r.l /\ stash' = r.s
           /\ th' = [th EXCEPT !["loop"] = Leave(r, "open")]
        \/ /\ th' = [th EXCEPT !["loop"] = AtRest]
           /\ \/ lease' = NewLease(Agent, FALSE) /\ br' = SetOwner(r.b, Agent) /\ stash' = r.s
              \/ /\ preempt
                 /\ lease' = NewLease(Agent, TRUE) /\ stash' = r.l
                 /\ br' = SetOwner(Suspend(r.b), Agent)
              \/ br' = r.b /\ lease' = r.l /\ stash' = r.s
    BY <1>5 DEF OpenLease
  <2>2. Tame(br, SetOwner(r.b, Agent)) /\ Tame(br, SetOwner(Suspend(r.b), Agent))
    <3> DEFINE b == r.b
               s == Suspend(b)
    <3>1. IsBridge(b) /\ Tame(br, b)
      BY <1>2 DEF Tame
    <3> HIDE DEF b
    <3>2. IsBridge(s) /\ Tame(br, s)
      BY <3>1, TameSuspend, TameTrans DEF Tame
    <3> HIDE DEF s
    <3>3. Tame(br, SetOwner(b, Agent)) /\ Tame(br, SetOwner(s, Agent))
      BY <3>1, <3>2, TameSetOwner, TameTrans
    <3> QED
      BY <3>3 DEF b, s
  <2>3. preempt => HumanLease(r.l)
    BY <1>2, ClientAssumption DEF HumanLease
  <2>4. "open" \in After
    BY DEF After
  <2> HIDE DEF r
  <2>5. /\ Leave(r, "open") \in Local /\ Leave(r, "open").flush = {}
        /\ Leave(r, "open").pc # "grant"
    BY <1>2, <2>4, LeaveFacts
  <2>6. PICK v \in {AtRest, Leave(r, "open")} : th' = [th EXCEPT !["loop"] = v]
    BY <2>1
  <2>7. v \in Local /\ v.flush = {} /\ v.pc # "grant"
    BY <2>5, RestFacts
  <2>8. Tame(br, br') /\ lease' \in Lease /\ HumanLease(stash')
    BY <1>2, <2>1, <2>2, <2>3, LeaseFacts
  <2> QED
    BY <1>3, <1>5, <2>6, <2>7, <2>8, LeavingStep
<1> QED
  BY <1>4, <1>5

\* A thread that closes the current lease and leaves.
LEMMA CloseStep ==
  ASSUME Inv, NEW fresh \in BOOLEAN, NEW pc \in After, NEW t \in Thread \ {"cmd"},
         LET r == Close(br, lease, stash, fresh)
         IN  /\ br' = r.b /\ lease' = r.l /\ stash' = r.s
             /\ th' = [th EXCEPT ![t] = Leave(r, pc)],
         UNCHANGED <<op, peer, rd, ghostVars>>
  PROVE  Inv'
<1> DEFINE r == Close(br, lease, stash, fresh)
<1>1. /\ Tame(br, r.b)
      /\ HumanLease(r.l) /\ HumanLease(r.s)
      /\ r.resume \in BOOLEAN /\ r.clear \in BOOLEAN
  BY CloseFacts DEF Inv, TypeOK
<1>2. /\ br' = r.b /\ lease' = r.l /\ stash' = r.s
      /\ th' = [th EXCEPT ![t] = Leave(r, pc)]
  OBVIOUS
<1> HIDE DEF r
<1>3. Leave(r, pc) \in Local /\ Leave(r, pc).flush = {} /\ Leave(r, pc).pc # "grant"
  BY <1>1, LeaveFacts DEF After
<1>4. HumanLease(lease') /\ HumanLease(stash') /\ Tame(br, br')
  BY <1>1, <1>2
<1>5. lease' \in Lease /\ lease'.owner # Agent
  BY <1>4 DEF HumanLease
<1> QED
  BY <1>2, <1>3, <1>4, <1>5, LeavingStep

\* interactive_send, up to the write.
LEMMA BeginSendStep ==
  ASSUME Inv, NEW fresh \in BOOLEAN, BeginSend(fresh)
  PROVE  Inv'
<1>1. TypeOK
  BY DEF Inv
<1>2. UNCHANGED <<op, peer, rd, ghostVars>> /\ "loop" \in Thread \ {"cmd"} /\ "idle" \in After
  BY DEF BeginSend, Thread, After
<1>3. CASE lease.old
  <2>1. LET r == Close(br, lease, stash, fresh)
        IN  /\ br' = r.b /\ lease' = r.l /\ stash' = r.s
            /\ th' = [th EXCEPT !["loop"] = Leave(r, "idle")]
    BY <1>3 DEF BeginSend
  <2> QED
    BY <1>2, <2>1, CloseStep
<1>4. CASE ~lease.old
  <2> DEFINE p == IF op THEN "idle" ELSE "send"
             g == br.gen
             l == th["loop"]
             v == [l EXCEPT !.pc = p, !.want = g]
  <2>1. UNCHANGED <<br, lease, stash>>
    BY <1>4 DEF BeginSend
  <2>2. Tame(br, br') /\ lease' \in Lease /\ HumanLease(stash')
    BY <1>1, <2>1, TameRefl DEF TypeOK
  <2>3. l \in Local /\ g \in Nat /\ p \in Pc /\ p \in Pc \ {"grant"}
    BY <1>1, <1>2 DEF TypeOK, IsBridge, Pc, After
  <2>4. th' = [th EXCEPT !["loop"] = v]
    BY <1>1, <1>4 DEF BeginSend, TypeOK, Local, Thread
  <2> HIDE DEF p, g, l
  <2>6. v \in Local /\ v.flush = l.flush /\ v.pc # "grant"
    BY <2>3 DEF Local
  <2> HIDE DEF v
  <2>7. Goes("loop", v)
    BY <1>1, <1>2, <2>4, <2>6, GoesTo
  <2>8. op' \in BOOLEAN /\ op' = op /\ sent' \in Nat /\ UNCHANGED <<peer, rd, typed, took, count>>
    BY <1>1, <1>2 DEF TypeOK, ghostVars
  <2> QED
    BY <1>2, <2>1, <2>2, <2>6, <2>7, <2>8, QuietStep DEF l
<1> QED
  BY <1>3, <1>4

\* interactive_send, the write.
LEMMA SendStep ==
  ASSUME Inv, Send
  PROVE  Inv'
<1>1. TypeOK
  BY DEF Inv
<1>2. "loop" \in Thread /\ Goes("loop", AtRest)
  BY <1>1, RestFacts, GoesTo DEF Send, Thread
<1>3. Tame(br, br') /\ lease' \in Lease /\ HumanLease(stash') /\ op' \in BOOLEAN /\ op' = op
  BY <1>1, TameRefl DEF TypeOK, Send, mgrVars
<1>4. sent' \in Nat
  BY <1>1 DEF TypeOK, Send
<1>5. UNCHANGED <<lease, peer, rd, typed, took, count>>
  BY DEF Send, mgrVars, envVars
<1> QED
  BY <1>2, <1>3, <1>4, <1>5, RestFacts, QuietStep

\* interactive_close.
LEMMA CloseLeaseStep ==
  ASSUME Inv, NEW fresh \in BOOLEAN, CloseLease(fresh)
  PROVE  Inv'
<1>1. UNCHANGED <<op, peer, rd, ghostVars>> /\ "loop" \in Thread \ {"cmd"} /\ "idle" \in After
  BY DEF CloseLease, Thread, After
<1>2. LET r == Close(br, lease, stash, fresh)
      IN  /\ br' = r.b /\ lease' = r.l /\ stash' = r.s
          /\ th' = [th EXCEPT !["loop"] = Leave(r, "idle")]
  BY DEF CloseLease
<1> QED
  BY <1>1, <1>2, CloseStep

\* detach_console.
LEMMA DetachConsoleStep ==
  ASSUME Inv, NEW c \in Client, NEW fresh \in BOOLEAN, NEW late \in BOOLEAN,
         DetachConsole(c, fresh, late)
  PROVE  Inv'
<1> DEFINE r == Refresh(br, lease, stash, fresh, late)
           b == r.b
           d == Detach(b, c)
           own == r.l.owner = c
<1>1. TypeOK
  BY DEF Inv
<1>2. /\ Tame(br, b)
      /\ r.l \in Lease /\ HumanLease(r.s)
      /\ r.l.owner = Agent => lease.owner = Agent
      /\ r.resume \in BOOLEAN /\ r.clear \in BOOLEAN
  BY <1>1, RefreshFacts DEF TypeOK
<1>3. /\ UNCHANGED <<op, peer, rd, ghostVars>> /\ "loop" \in Thread \ {"cmd"} /\ "idle" \in After
  BY DEF DetachConsole, Thread, After
<1>4. /\ br' = (IF own THEN SetOwner(d, None) ELSE d)
      /\ lease' = (IF own THEN NoLease ELSE r.l)
      /\ stash' = r.s
      /\ th' = [th EXCEPT !["loop"] = Leave(r, "idle")]
  BY DEF DetachConsole
<1> HIDE DEF r
<1>5. Leave(r, "idle") \in Local /\ Leave(r, "idle").flush = {} /\ Leave(r, "idle").pc # "grant"
  BY <1>2, <1>3, LeaveFacts
<1> HIDE DEF b
<1>6. Tame(br, d) /\ IsBridge(d)
  BY <1>2, TameDetach, TameTrans DEF Tame
<1> HIDE DEF d
<1>7. Tame(br, SetOwner(d, None))
  BY <1>6, TameSetOwner, TameTrans
<1>8. Tame(br, br') /\ HumanLease(stash')
  BY <1>2, <1>4, <1>6, <1>7
<1>9. lease' \in Lease /\ (lease'.owner = Agent => lease.owner = Agent)
  <2>1. NoLease \in Lease /\ NoLease.owner # Agent
    BY LeaseFacts DEF HumanLease
  <2> QED
    BY <1>2, <1>4, <2>1
<1> QED
  BY <1>3, <1>4, <1>5, <1>8, <1>9, LeavingStep

\* attach_console.
LEMMA AttachConsoleStep ==
  ASSUME Inv, NEW c \in Client, NEW fresh \in BOOLEAN, NEW late \in BOOLEAN,
         AttachConsole(c, fresh, late)
  PROVE  Inv'
<1> DEFINE g == Register(br, c)
           r == Refresh(g, lease, stash, fresh, late)
           b == r.b
<1>1. TypeOK
  BY DEF Inv
<1>2. Tame(br, g) /\ IsBridge(g)
  BY <1>1, TameRegister DEF TypeOK, Tame
<1>3. /\ br' = (IF r.l = NoLease THEN SetOwner(b, c) ELSE b)
      /\ lease' = (IF r.l = NoLease THEN NewLease(c, FALSE) ELSE r.l)
      /\ stash' = r.s
      /\ th' = [th EXCEPT !["exec"] = Leave(r, "idle")]
  BY DEF AttachConsole
<1>4. UNCHANGED <<op, peer, rd, ghostVars>> /\ "exec" \in Thread \ {"cmd"} /\ "idle" \in After
  BY DEF AttachConsole, Thread, After
<1> HIDE DEF g
<1>5. /\ Tame(g, b)
      /\ r.l \in Lease /\ HumanLease(r.s)
      /\ r.l.owner = Agent => lease.owner = Agent
      /\ r.resume \in BOOLEAN /\ r.clear \in BOOLEAN
  BY <1>1, <1>2, RefreshFacts DEF TypeOK
<1> HIDE DEF r
<1>6. Leave(r, "idle") \in Local /\ Leave(r, "idle").flush = {} /\ Leave(r, "idle").pc # "grant"
  BY <1>4, <1>5, LeaveFacts
<1> HIDE DEF b
<1>7. Tame(br, b) /\ IsBridge(b)
  BY <1>2, <1>5, TameTrans DEF Tame
<1>8. Tame(br, SetOwner(b, c))
  BY <1>7, TameSetOwner, TameTrans
<1>9. Tame(br, br') /\ HumanLease(stash')
  BY <1>3, <1>5, <1>7, <1>8
<1>10. lease' \in Lease /\ (lease'.owner = Agent => lease.owner = Agent)
  <2>1. NewLease(c, FALSE) \in Lease /\ NewLease(c, FALSE).owner # Agent
    BY LeaseFacts, ClientAssumption
  <2> QED
    BY <1>3, <1>5, <2>1
<1> QED
  BY <1>3, <1>4, <1>6, <1>9, <1>10, LeavingStep

\* _expire_interactive_leases_tick.
LEMMA ExpireLeaseStep ==
  ASSUME Inv, NEW fresh \in BOOLEAN, ExpireLease(fresh)
  PROVE  Inv'
<1> DEFINE r == Close(br, lease, stash, fresh)
           l == Leave(r, "popped")
           o == r.l.owner
           w == [l EXCEPT !.pc = "guard", !.want = o]
<1>1. TypeOK
  BY DEF Inv
<1>2. /\ Tame(br, r.b)
      /\ HumanLease(r.l) /\ HumanLease(r.s)
      /\ r.resume \in BOOLEAN /\ r.clear \in BOOLEAN
  BY <1>1, CloseFacts DEF TypeOK
<1>3. /\ br' = r.b /\ lease' = r.l /\ stash' = r.s
      /\ th' = [th EXCEPT !["tick"] = IF r.resume THEN w ELSE AtRest]
      /\ UNCHANGED <<op, peer, rd, ghostVars>> /\ "tick" \in Thread \ {"cmd"} /\ "popped" \in After
  BY DEF ExpireLease, Thread, After, envVars
<1> HIDE DEF r
<1>4. l \in Local /\ l.flush = {} /\ o \in Client \cup {Agent, None}
  BY <1>2, <1>3, LeaveFacts DEF HumanLease, Lease
<1> HIDE DEF l, o
<1>5. w \in Local /\ w.flush = {} /\ w.pc # "grant"
  BY <1>4 DEF Local, Pc
<1> HIDE DEF w
<1>6. PICK v \in {w, AtRest} : th' = [th EXCEPT !["tick"] = v]
  BY <1>3
<1>7. v \in Local /\ v.flush = {} /\ v.pc # "grant"
  BY <1>5, RestFacts
<1>8. HumanLease(lease') /\ HumanLease(stash') /\ Tame(br, br')
  BY <1>2, <1>3
<1>9. lease' \in Lease /\ lease'.owner # Agent
  BY <1>8 DEF HumanLease
<1> QED
  BY <1>3, <1>6, <1>7, <1>8, <1>9, LeavingStep

\* reap_stale_consoles and the self-heal grant.
LEMMA TickSteps ==
  ASSUME Inv, Tick
  PROVE  Inv'
<1>1. TypeOK
  BY DEF Inv
<1>2. "tick" \in Thread \ {"cmd"} /\ "tick" \in Thread
  BY DEF Thread
<1>3. CASE \E fresh \in BOOLEAN : ExpireLease(fresh)
  BY <1>3, ExpireLeaseStep
<1>4. CASE PopToken
  <2>1. Tame(br, br') /\ lease' = lease /\ lease' \in Lease /\ HumanLease(stash')
    BY <1>1, <1>4, TameRefl DEF TypeOK, PopToken
  <2> QED
    BY <1>2, <1>4, <2>1, RestFacts, LeavingStep DEF PopToken, envVars
<1>5. CASE ScanPeers
  <2> DEFINE a == AtRest
             v == [a EXCEPT !.pc = "reap", !.held = peer]
  <2>1. Tame(br, br') /\ lease' = lease /\ lease' \in Lease /\ HumanLease(stash')
    BY <1>1, <1>5, TameRefl DEF TypeOK, ScanPeers, mgrVars
  <2>2. peer \subseteq Client /\ a \in Local /\ a.flush = {}
    BY <1>1, RestFacts DEF TypeOK
  <2>3. th' = [th EXCEPT !["tick"] = v] /\ UNCHANGED <<op, peer, rd, ghostVars>>
    BY <1>5 DEF ScanPeers, mgrVars, envVars
  <2> HIDE DEF a
  <2>4. v \in Local /\ v.flush = {} /\ v.pc # "grant"
    BY <2>2 DEF Local, Pc
  <2> QED
    BY <1>2, <2>1, <2>3, <2>4, LeavingStep
<1>6. CASE Reap
  <2>1. Tame(br, br')
    BY <1>1, <1>6, EmptyFacts DEF TypeOK, Reap, Tame, IsBridge
  <2>2. "snap" \in Pc \ {"grant"}
    BY DEF Pc
  <2> QED
    BY <1>2, <1>6, <2>1, <2>2, GoesOnStep DEF Reap, envVars
<1>7. CASE Snapshot
  <2> DEFINE a == AtRest
             p == br.primary
             v == [a EXCEPT !.pc = "grant", !.want = p]
  <2>1. Tame(br, br') /\ lease' = lease /\ lease' \in Lease /\ HumanLease(stash') /\ op' \in BOOLEAN
    BY <1>1, <1>7, TameRefl DEF TypeOK, Snapshot, mgrVars
  <2>2. UNCHANGED <<lease, op, peer, rd, typed, took, count, sent>> /\ sent' \in Nat
    BY <1>1, <1>7 DEF TypeOK, Snapshot, mgrVars, envVars, ghostVars
  <2>3. a \in Local /\ a.flush = {} /\ a.pc # "grant"
    BY RestFacts
  <2>4. th["tick"].held \subseteq Client
    BY <1>1, <1>2 DEF TypeOK, Local
  <2>5. \/ th' = [th EXCEPT !["tick"] = a]
        \/ th' = [th EXCEPT !["tick"] = v] /\ p \in Client
    BY <1>7, <2>4 DEF Snapshot
  <2> HIDE DEF a, p
  <2>6. p \in Client => v \in Local /\ v.flush = {} /\ v.want \in Client
    BY <2>3 DEF Local, Pc
  <2> HIDE DEF v
  <2>7. PICK x \in {a, v} : /\ th' = [th EXCEPT !["tick"] = x]
                            /\ x \in Local /\ x.flush = {} /\ (x.pc = "grant" => x.want \in Client)
    BY <2>3, <2>5, <2>6
  <2>8. Goes("tick", x)
    BY <1>1, <1>2, <2>7, GoesTo
  <2> QED
    BY <1>2, <2>1, <2>2, <2>7, <2>8, QuietStep
<1>8. CASE Grant
  <2>1. th["tick"].want \in Client
    BY <1>1, <1>8 DEF TypeOK, Grant
  <2>2. Tame(br, br')
    <3> DEFINE o == th["tick"].want
               x == [br EXCEPT !.owner = o]
    <3>1. IsBridge(br)
      BY <1>1 DEF TypeOK
    <3>2. br' \in {br, x}
      BY <1>8 DEF Grant
    <3> HIDE DEF o
    <3>3. Tame(br, x)
      BY <3>1 DEF Tame, IsBridge
    <3> HIDE DEF x
    <3> QED
      BY <3>1, <3>2, <3>3, TameRefl
  <2>3. lease' \in Lease /\ (lease'.owner = Agent => lease.owner = Agent)
    <3> DEFINE l == NewLease(th["tick"].want, FALSE)
    <3>1. l \in Lease /\ l.owner # Agent
      BY <2>1, LeaseFacts, ClientAssumption
    <3>2. lease' \in {lease, l} /\ lease \in Lease
      BY <1>1, <1>8 DEF TypeOK, Grant
    <3> HIDE DEF l
    <3> QED
      BY <3>1, <3>2
  <2>4. HumanLease(stash') /\ UNCHANGED <<op, peer, rd, ghostVars>>
    BY <1>1, <1>8 DEF TypeOK, Grant, envVars
  <2>5. th' = [th EXCEPT !["tick"] = AtRest]
    BY <1>8 DEF Grant
  <2> QED
    BY <1>2, <2>2, <2>3, <2>4, <2>5, RestFacts, LeavingStep
<1> QED
  BY <1>3, <1>4, <1>5, <1>6, <1>7, <1>8 DEF Tick

\* An invalidation empties the buffers.
LEMMA InvalidateStep ==
  ASSUME Inv, InvalidateDeferred
  PROVE  Inv'
<1>1. TypeOK
  BY DEF Inv
<1>2. IsBridge(br') /\ br'.blocked = br.blocked /\ Cleared(br')
  BY <1>1, InvalidateFacts DEF TypeOK, InvalidateDeferred
<1>3. UNCHANGED <<mgrVars, peer, rd, th, ghostVars>>
  BY DEF InvalidateDeferred
<1>4. PlacesHold' /\ ContextHolds'
  BY <1>2, <1>3, PlacesQuiet DEF Inv, Cleared, ghostVars
<1>5. TypeOK'
  BY <1>1, <1>2, <1>3 DEF TypeOK, mgrVars, ghostVars
<1>6. CommandHolds'
  BY <1>2, <1>3 DEF Inv, CommandHolds, InCommand, mgrVars
<1> QED
  BY <1>4, <1>5, <1>6 DEF Inv

\* Terminals and time.
LEMMA EnvSteps ==
  ASSUME Inv,
         \/ \E c \in Client : PeerOpens(c) \/ PeerCloses(c) \/ ConsoleAges(c)
         \/ HumanIdles
         \/ LeaseTimesOut
  PROVE  Inv'
<1>1. TypeOK
  BY DEF Inv
<1>2. lease \in Lease /\ peer \subseteq Client
  BY <1>1 DEF TypeOK
<1>3. CASE LeaseTimesOut
  <2>1. lease' \in Lease /\ lease'.owner = lease.owner
    BY <1>2, <1>3 DEF LeaseTimesOut, Lease
  <2> QED
    BY <1>2, <1>3, <2>1, EnvStep DEF LeaseTimesOut, envVars
<1>4. CASE HumanIdles
  BY <1>2, <1>4, EnvStep DEF HumanIdles, mgrVars
<1>5. ASSUME NEW c \in Client, PeerOpens(c) \/ PeerCloses(c) \/ ConsoleAges(c) PROVE Inv'
  <2>1. peer' \subseteq Client
    BY <1>2, <1>5 DEF PeerOpens, PeerCloses, ConsoleAges
  <2>2. UNCHANGED <<br, mgrVars, rd, th, ghostVars>>
    BY <1>5 DEF PeerOpens, PeerCloses, ConsoleAges
  <2> QED
    BY <1>2, <2>1, <2>2, EnvStep DEF mgrVars
<1> QED
  BY <1>3, <1>4, <1>5

\* The invariant holds at first.
LEMMA InitInv == Init => Inv
<1> SUFFICES ASSUME Init PROVE Inv
  OBVIOUS
<1>1. IsBridge(br) /\ Cleared(br)
  BY EmptyFacts DEF Init, IsBridge, Cleared
<1>2. \A t \in Thread : th[t] = AtRest
  BY DEF Init
<1>3. th \in [Thread -> Local]
  BY RestFacts DEF Init
<1>4. rd.pc = "sel" /\ \A n \in Chunk : count[n] = 0
  BY DEF Init
<1>5. TypeOK
  <2>1. th["tick"].pc # "grant"
    BY <1>2, RestFacts DEF Thread
  <2>2. lease \in Lease /\ HumanLease(stash) /\ lease.owner # Agent
    BY LeaseFacts DEF Init, HumanLease
  <2> QED
    BY <1>1, <1>3, <2>1, <2>2 DEF TypeOK, Init
<1>6. PlacesHold
  BY <1>1, <1>2, <1>4, EmptyFacts, RestFacts DEF PlacesHold, Reading, Deferred, Cleared
<1>7. ContextHolds
  BY <1>1, <1>2, <1>4, EmptyFacts, RestFacts DEF ContextHolds, Reading, Deferred, Cleared
<1>8. CommandHolds
  <2>1. ~InCommand
    BY <1>2, RestFacts DEF InCommand, Thread
  <2> QED
    BY <2>1 DEF CommandHolds, Init
<1> QED
  BY <1>5, <1>6, <1>7, <1>8 DEF Inv

\* Every step keeps the invariant.
LEMMA NextInv ==
  ASSUME Inv, [Next]_vars
  PROVE  Inv'
<1>1. CASE UNCHANGED vars
  <2>1. lease' \in Lease /\ peer' \subseteq Client
    BY <1>1 DEF Inv, TypeOK, vars, mgrVars, envVars
  <2>2. UNCHANGED <<br, lease, stash, op, rd, th, ghostVars>>
    BY <1>1 DEF vars, mgrVars
  <2> QED
    BY <2>1, <2>2, EnvStep
<1>2. ASSUME NEW t \in Thread, PostClose(t) PROVE Inv'
  BY <1>2, TickGuardStep, ResumeStep, FlushStep, FlushedStep, ClearOwnerStep DEF PostClose
<1>3. CASE ReaderTop
  BY <1>3, ReaderTopStep
<1>4. CASE Reader
  BY <1>4, ReaderSteps
<1>5. CASE \E c \in Client : Read(c)
  BY <1>5, ReadStep
<1>6. CASE \E human, fresh, late \in BOOLEAN : BeginCommand(human, fresh, late)
  BY <1>6, BeginCommandStep
<1>7. CASE Command
  BY <1>7, CommandSteps
<1>8. CASE \E fresh, late \in BOOLEAN : OpenLease(fresh, late)
  BY <1>8, OpenLeaseStep
<1>9. CASE \E fresh \in BOOLEAN : BeginSend(fresh) \/ CloseLease(fresh)
  BY <1>9, BeginSendStep, CloseLeaseStep
<1>10. CASE Send
  BY <1>10, SendStep
<1>11. CASE \E c \in Client, fresh, late \in BOOLEAN :
              DetachConsole(c, fresh, late) \/ AttachConsole(c, fresh, late)
  BY <1>11, DetachConsoleStep, AttachConsoleStep
<1>12. CASE Tick
  BY <1>12, TickSteps
<1>13. CASE InvalidateDeferred
  BY <1>13, InvalidateStep
<1>14. CASE \/ \E c \in Client : PeerOpens(c) \/ PeerCloses(c) \/ ConsoleAges(c)
            \/ HumanIdles
            \/ LeaseTimesOut
  BY <1>14, EnvSteps
<1> QED
  BY <1>1, <1>2, <1>3, <1>4, <1>5, <1>6, <1>7, <1>8, <1>9, <1>10, <1>11, <1>12, <1>13, <1>14 DEF Next

\* Along every behaviour of the code each chunk waits in at most one place, in
\* the context it was typed in, and a command in progress has blocked raw keys.
THEOREM ConsoleInvariant == Spec => []Inv
  BY InitInv, NextInv, PTL DEF Spec

\* What a human typed reaches the UART at most once: _handle_console_rx, the
\* deferred buffers and the replays never both send a chunk.
THEOREM KeysTypedOnce == Spec => []TypedOnce
<1>1. Inv => TypedOnce
  BY DEF Inv, PlacesHold, TypedOnce
<1> QED
  BY <1>1, ConsoleInvariant, PTL

------------------------------------------------------------------------------
(* Who writes                                                              *)

\* Only the reader's raw path and a replay write what was typed.
LEMMA Writers ==
  ASSUME Next
  PROVE  SendRaw \/ (\E t \in Thread : Flush(t)) \/ UNCHANGED count
<1>1. ASSUME NEW t \in Thread, PostClose(t) PROVE Flush(t) \/ UNCHANGED count
  BY <1>1 DEF PostClose, TickGuard, Resume, Flushed, ClearOwner, ghostVars
<1>2. CASE ReaderTop \/ Reader \/ \E c \in Client : Read(c)
  BY <1>2 DEF ReaderTop, Reader, CheckOwner, Recheck, Defer, Read, ghostVars
<1>3. CASE Command \/ \E human, fresh, late \in BOOLEAN : BeginCommand(human, fresh, late)
  BY <1>3 DEF Command, BeginCommand, SuspendHuman, EndCommand, FinishOperation, ReleaseToken, ghostVars
<1>4. CASE \E fresh, late \in BOOLEAN : OpenLease(fresh, late)
  BY <1>4 DEF OpenLease, ghostVars
<1>5. CASE Send \/ \E fresh \in BOOLEAN : BeginSend(fresh) \/ CloseLease(fresh)
  BY <1>5 DEF Send, BeginSend, CloseLease, ghostVars
<1>6. ASSUME NEW c \in Client, NEW fresh \in BOOLEAN, NEW late \in BOOLEAN,
             DetachConsole(c, fresh, late) \/ AttachConsole(c, fresh, late)
      PROVE  UNCHANGED count
  <2>1. CASE DetachConsole(c, fresh, late)
    BY <2>1 DEF DetachConsole, ghostVars
  <2>2. CASE AttachConsole(c, fresh, late)
    BY <2>2 DEF AttachConsole, ghostVars
  <2> QED
    BY <1>6, <2>1, <2>2
<1>7. CASE Tick
  BY <1>7 DEF Tick, ExpireLease, PopToken, ScanPeers, Reap, Snapshot, Grant, ghostVars
<1>8. CASE InvalidateDeferred \/ HumanIdles \/ LeaseTimesOut
           \/ \E c \in Client : PeerOpens(c) \/ PeerCloses(c) \/ ConsoleAges(c)
  BY <1>8 DEF InvalidateDeferred, HumanIdles, LeaseTimesOut, PeerOpens, PeerCloses, ConsoleAges, ghostVars
<1> QED
  BY <1>1, <1>2, <1>3, <1>4, <1>5, <1>6, <1>7, <1>8 DEF Next

\* Only the write of an interactive send counts as one.
LEMMA Senders ==
  ASSUME Next
  PROVE  Send \/ UNCHANGED sent
<1>1. ASSUME NEW t \in Thread, PostClose(t) PROVE UNCHANGED sent
  BY <1>1 DEF PostClose, TickGuard, Resume, Flush, Flushed, ClearOwner, ghostVars
<1>2. CASE ReaderTop \/ Reader \/ \E c \in Client : Read(c)
  BY <1>2 DEF ReaderTop, Reader, CheckOwner, Recheck, SendRaw, Defer, Read, ghostVars
<1>3. CASE Command \/ \E human, fresh, late \in BOOLEAN : BeginCommand(human, fresh, late)
  BY <1>3 DEF Command, BeginCommand, SuspendHuman, EndCommand, FinishOperation, ReleaseToken, ghostVars
<1>4. CASE \E fresh, late \in BOOLEAN : OpenLease(fresh, late)
  BY <1>4 DEF OpenLease, ghostVars
<1>5. CASE \E fresh \in BOOLEAN : BeginSend(fresh) \/ CloseLease(fresh)
  BY <1>5 DEF BeginSend, CloseLease, ghostVars
<1>6. ASSUME NEW c \in Client, NEW fresh \in BOOLEAN, NEW late \in BOOLEAN,
             DetachConsole(c, fresh, late) \/ AttachConsole(c, fresh, late)
      PROVE  UNCHANGED sent
  <2>1. CASE DetachConsole(c, fresh, late)
    BY <2>1 DEF DetachConsole, ghostVars
  <2>2. CASE AttachConsole(c, fresh, late)
    BY <2>2 DEF AttachConsole, ghostVars
  <2> QED
    BY <1>6, <2>1, <2>2
<1>7. CASE Tick
  BY <1>7 DEF Tick, ExpireLease, PopToken, ScanPeers, Reap, Snapshot, Grant, ghostVars
<1>8. CASE InvalidateDeferred \/ HumanIdles \/ LeaseTimesOut
           \/ \E c \in Client : PeerOpens(c) \/ PeerCloses(c) \/ ConsoleAges(c)
  BY <1>8 DEF InvalidateDeferred, HumanIdles, LeaseTimesOut, PeerOpens, PeerCloses, ConsoleAges, ghostVars
<1> QED
  BY <1>1, <1>2, <1>3, <1>4, <1>5, <1>6, <1>7, <1>8 DEF Next

\* What is written was typed in the context that is current.
LEMMA WrittenInContext ==
  ASSUME Inv, Next, NEW n \in Chunk, Wrote(n)
  PROVE  took[n] = br.gen
<1>1. count[n] \in Nat
  BY DEF Inv, TypeOK
<1>2. CASE SendRaw
  <2>1. Fresh /\ n \in ToSet(<<typed>>) /\ rd.pc # "sel"
    BY <1>1, <1>2 DEF SendRaw, Wrote, Written
  <2>2. Reading(n)
    BY <2>1 DEF Reading, ToSet
  <2> QED
    BY <2>1, <2>2 DEF Inv, ContextHolds, Fresh
<1>3. ASSUME NEW t \in Thread, Flush(t) PROVE took[n] = br.gen
  <2>1. PICK e \in th[t].flush : count' = IF e.gen = br.gen THEN Written(e.q) ELSE count
    BY <1>3 DEF Flush
  <2>2. e.gen = br.gen /\ n \in ToSet(e.q)
    BY <1>1, <2>1 DEF Wrote, Written
  <2> QED
    BY <2>1, <2>2 DEF Inv, ContextHolds
<1>4. CASE UNCHANGED count
  BY <1>1, <1>4 DEF Wrote
<1> QED
  BY <1>2, <1>3, <1>4, Writers

\* A boot banner, a reboot or a recovery ends the context of all input that
\* waits, in the reader, in _append_deferred_locked's buffers or in a replay:
\* none of it is written afterwards.
THEOREM InputInContext == Spec => NoStaleInput
<1>1. Inv /\ [Next]_vars => [\A n \in Chunk : Wrote(n) => took[n] = br.gen]_vars
  BY WrittenInContext
<1> QED
  BY <1>1, ConsoleInvariant, PTL DEF Spec, NoStaleInput

\* While execute_command has the line no key is written into it by the reader,
\* and no interactive send until its deferred input has been replayed.
THEOREM LineKept == Spec => LineIsTheCommands
<1> DEFINE Keys == (rd' # rd /\ \E n \in Chunk : Wrote(n)) => th["cmd"].pc \notin {"suspend", "run"}
           Sends == sent' > sent => ~op
<1>1. ASSUME Inv, Next PROVE Keys
  <2>1. SUFFICES ASSUME rd' # rd, NEW n \in Chunk, Wrote(n)
                 PROVE  th["cmd"].pc \notin {"suspend", "run"}
    OBVIOUS
  <2>2. count[n] \in Nat
    BY <1>1 DEF Inv, TypeOK
  <2>3. SendRaw
    BY <1>1, <2>1, <2>2, Writers DEF Flush, Wrote
  <2>4. ~br.blocked
    BY <2>1, <2>2, <2>3 DEF SendRaw, Wrote
  <2> QED
    BY <1>1, <2>4 DEF Inv, CommandHolds, InCommand
<1>2. ASSUME Inv, Next PROVE Sends
  <2>1. sent \in Nat
    BY <1>2 DEF Inv, TypeOK
  <2>2. sent' > sent => lease.owner = Agent
    BY <1>2, <2>1, Senders DEF Send
  <2> QED
    BY <1>2, <2>2 DEF Inv, CommandHolds
<1>3. Inv /\ [Next]_vars => [Keys /\ Sends]_vars
  BY <1>1, <1>2
<1> QED
  BY <1>3, ConsoleInvariant, PTL DEF Spec, LineIsTheCommands

------------------------------------------------------------------------------
(* Suspensions                                                             *)

\* Thread t will call resume_interactive.
Resumes(t) ==
  \/ th[t].pc \in {"guard", "resume"}
  \/ t = "cmd" /\ th[t].pc = "run" /\ th[t].susp

One(p) == IF p THEN 1 ELSE 0

\* How many calls of resume_interactive are still to come.
Awaited ==
  One(Resumes("cmd")) + One(Resumes("loop")) + One(Resumes("exec")) + One(Resumes("tick"))
    + One(lease.susp)

\* Only an agent's lease suspends, only the command goes on to suspend the human, and
\* it knows that it does; only the tick guards its resume.
RolesHold ==
  /\ lease.susp => lease.owner = Agent
  /\ ~stash.susp
  /\ th["cmd"].pc = "suspend" \/ th["cmd"].next = "suspend" => th["cmd"].susp
  /\ \A t \in Thread \ {"tick"} : th[t].pc # "guard"

\* The nesting depth counts no more than the resumes to come.
DepthHolds == br.depth \in Nat /\ br.depth <= Awaited

SuspInv == Inv /\ RolesHold /\ DepthHolds

\* _interactive_tick_action_is_current finds another lease in the place of the one the
\* tick left there, and the tick leaves the bridge suspended.
ResumeSkipped == th["tick"].pc = "guard" /\ th'["tick"].pc = "popped"

\* A resume to come is one of the suspenders.
LEMMA AwaitedFacts ==
  ASSUME SuspInv
  PROVE  SuspensionEnds
<1>1. SUFFICES ASSUME br.depth > 0 PROVE Suspenders # {}
  BY DEF SuspensionEnds
<1>2. Awaited # 0
  BY <1>1 DEF SuspInv, DepthHolds
<1>3. lease.susp \/ \E t \in Thread : Resumes(t)
  BY <1>2 DEF Awaited, One, Thread
<1> QED
  BY <1>3 DEF Suspenders, Resumes

\* The operations that leave the depth as it is, or end the whole suspension.
Calm(b, x) == x.depth \in {b.depth, 0}

\* Two such operations in a row are one.
LEMMA CalmTrans ==
  ASSUME NEW b, NEW x, NEW y, Calm(b, x), Calm(x, y)
  PROVE  Calm(b, y)
  BY DEF Calm

\* Naming the human who holds the bridge leaves the depth.
LEMMA CalmSetOwner ==
  ASSUME NEW b, IsBridge(b), NEW o
  PROVE  SetOwner(b, o).depth = b.depth
<1>1. CASE o \in Client /\ b.blocked
  BY <1>1 DEF IsBridge, SetOwner
<1>2. CASE ~(o \in Client /\ b.blocked)
  BY <1>2 DEF IsBridge, SetOwner
<1> QED
  BY <1>1, <1>2

\* A detach leaves it, or ends the suspension of the console that leaves.
LEMMA CalmDetach ==
  ASSUME NEW b, IsBridge(b), NEW c \in Client
  PROVE  Calm(b, Detach(b, c))
<1> DEFINE u == Unregister(b, c)
           d == [u EXCEPT !.owner = Disown(@, c), !.pending = Disown(@, c)]
           e == [d EXCEPT !.susp = None, !.agent = FALSE, !.depth = 0]
<1>1. IsBridge(u) /\ u.depth = b.depth
  <2>1. IsBridge(u)
    BY TameUnregister DEF Tame
  <2>2. u.depth = b.depth
    BY DEF IsBridge, Unregister
  <2> QED
    BY <2>1, <2>2
<1>2. IsBridge(d) /\ d.depth = b.depth
  <2> HIDE DEF u
  <2> QED
    BY <1>1 DEF IsBridge
<1>3. e.depth = 0
  <2> HIDE DEF d
  <2> QED
    BY <1>2 DEF IsBridge
<1>4. Detach(b, c) \in {b, d, e}
  BY DEF Detach
<1> HIDE DEF u, d, e
<1> QED
  BY <1>2, <1>3, <1>4 DEF Calm

\* A console that arrives, with the stale ones it prunes, leaves it.
LEMMA CalmRegister ==
  ASSUME NEW b, IsBridge(b), NEW c
  PROVE  Register(b, c).depth = b.depth
<1> DEFINE p == Prune(b, Stale(b))
<1>1. IsBridge(p) /\ p.depth = b.depth
  BY EmptyFacts DEF IsBridge, Prune
<1>2. Register(b, c) = [p EXCEPT !.clients = Append(@, c), !.primary = IF @ = None THEN c ELSE @]
  BY DEF Register
<1> HIDE DEF p
<1> QED
  BY <1>1, <1>2 DEF IsBridge

\* Passing the ownership to the pending console leaves it.
LEMMA CalmPromote ==
  ASSUME NEW b, IsBridge(b)
  PROVE  IsBridge(Promote(b)) /\ Promote(b).depth = b.depth
<1> DEFINE x == [b EXCEPT !.pending = None,
                          !.owner = IF b.pending \in {Agent} \cup ToSet(b.clients)
                                    THEN b.pending ELSE @]
<1>1. x.depth = b.depth
  BY DEF IsBridge
<1>2. Promote(b) \in {b, x}
  BY DEF Promote
<1> HIDE DEF x
<1> QED
  BY <1>1, <1>2, TamePromote DEF Tame

\* Dropping the deferred input leaves it.
LEMMA CalmNoBufs ==
  ASSUME NEW b, IsBridge(b)
  PROVE  NoBufs(b).depth = b.depth
  BY DEF IsBridge, NoBufs

\* suspend_interactive adds one.
LEMMA SuspendDepth ==
  ASSUME NEW b, IsBridge(b)
  PROVE  Suspend(b).depth = IF b.depth = 0 THEN 1 ELSE b.depth + 1
<1>1. CASE b.depth = 0
  BY <1>1 DEF IsBridge, Suspend
<1>2. CASE b.depth # 0
  BY <1>2 DEF IsBridge, Suspend
<1> QED
  BY <1>1, <1>2

\* resume_interactive takes one away, and never goes below zero.
LEMMA ResumeDepth ==
  ASSUME NEW b, IsBridge(b), b.depth \in Nat
  PROVE  Resumed(b).depth = IF b.depth = 0 THEN 0 ELSE b.depth - 1
<1> DEFINE x == [b EXCEPT !.depth = 0, !.owner = b.susp, !.agent = FALSE, !.susp = None]
           y == [b EXCEPT !.depth = @ - 1]
<1>1. y.depth = b.depth - 1
  BY DEF IsBridge
<1>2. NoBufs(Promote(x)).depth = 0
  <2>1. IsBridge(x) /\ x.depth = 0
    BY DEF IsBridge
  <2> HIDE DEF x
  <2> QED
    BY <2>1, CalmPromote, CalmNoBufs
<1>3. Resumed(b) = IF b.depth = 0 THEN b ELSE IF b.depth > 1 THEN y ELSE NoBufs(Promote(x))
  BY DEF Resumed
<1> HIDE DEF x, y
<1> QED
  BY <1>1, <1>2, <1>3

\* _set_interactive_admission(True) leaves it.
LEMMA AdmitDepth ==
  ASSUME NEW b, IsBridge(b)
  PROVE  Admitted(b).depth = b.depth
<1> DEFINE x == [b EXCEPT !.blocked = FALSE]
           p == Promote(x)
<1>1. IsBridge(x) /\ x.depth = b.depth
  BY DEF IsBridge
<1>2. IsBridge(p) /\ p.depth = b.depth
  <2> HIDE DEF x
  <2> QED
    BY <1>1, CalmPromote
<1>3. Admitted(b) \in {p, NoBufs(p)}
  BY DEF Admitted
<1> HIDE DEF p
<1> QED
  BY <1>2, <1>3, CalmNoBufs

\* What a lease operation leaves: the duty to resume stays with the lease or passes
\* to the caller, and no human's lease suspends.
Hands(b, l, r) ==
  /\ Calm(b, r.b)
  /\ IsBridge(r.b)
  /\ l.susp => r.l.susp \/ r.resume
  /\ r.l.susp => r.l.owner = Agent /\ ~r.resume
  /\ ~r.s.susp

\* _close_interactive_locked.
LEMMA CloseHands ==
  ASSUME NEW b, IsBridge(b), NEW l \in Lease, NEW s, HumanLease(s), ~s.susp,
         l.susp => l.owner = Agent, NEW f \in BOOLEAN
  PROVE  LET r == Close(b, l, s, f)
         IN  /\ Hands(b, l, r) /\ ~r.l.susp
             /\ r.resume = l.susp
<1> DEFINE back == l.susp /\ s # NoLease /\ f /\ HasPeer(b, s.owner)
           o == IF back THEN s.owner ELSE None
           r == Close(b, l, s, f)
<1>1. /\ r.b = SetOwner(b, o) /\ r.l = (IF back THEN s ELSE NoLease)
      /\ r.s = (IF l.susp THEN NoLease ELSE s) /\ r.resume = l.susp
  BY DEF Close
<1>2. ~NoLease.susp
  BY DEF NoLease
<1>3. Calm(b, r.b) /\ IsBridge(r.b)
  BY <1>1, CalmSetOwner, TameSetOwner DEF Calm, Tame
<1> HIDE DEF r
<1>4. l.susp \in BOOLEAN
  BY DEF Lease
<1>5. ~r.l.susp /\ ~r.s.susp
  BY <1>1, <1>2
<1>6. Hands(b, l, r)
  BY <1>1, <1>3, <1>5 DEF Hands
<1> QED
  BY <1>1, <1>5, <1>6 DEF r

\* _refresh_interactive_locked.
LEMMA RefreshHands ==
  ASSUME NEW b, IsBridge(b), NEW l \in Lease, NEW s, HumanLease(s), ~s.susp,
         l.susp => l.owner = Agent, NEW f \in BOOLEAN, NEW late \in BOOLEAN
  PROVE  Hands(b, l, Refresh(b, l, s, f, late))
<1> DEFINE lost(v) == [l EXCEPT !.lost = v]
<1>1. \A m \in Lease : m.susp = l.susp /\ m.owner = l.owner => Hands(b, l, Kept(b, m, s))
  BY DEF Kept, Hands, Calm
<1>2. Hands(b, l, Close(b, l, s, f))
  BY CloseHands
<1>3. \A v \in BOOLEAN : lost(v) \in Lease /\ lost(v).owner = l.owner /\ lost(v).susp = l.susp
  BY DEF Lease
<1>4. ASSUME l.owner \in Client PROVE Hands(b, l, Close(Detach(b, l.owner), l, s, f))
  <2> DEFINE d == Detach(b, l.owner)
  <2>1. Calm(b, d) /\ IsBridge(d)
    BY <1>4, TameDetach, CalmDetach DEF Tame
  <2> HIDE DEF d
  <2>2. Hands(d, l, Close(d, l, s, f))
    BY <2>1, CloseHands
  <2>3. Hands(b, l, Close(d, l, s, f))
    BY <2>1, <2>2, CalmTrans DEF Hands
  <2> QED
    BY <2>3 DEF d
<1>5. \/ Refresh(b, l, s, f, late) \in {Kept(b, l, s), Close(b, l, s, f), Kept(b, lost(TRUE), s), Kept(b, lost(FALSE), s)}
      \/ l.owner \in Client /\ Refresh(b, l, s, f, late) = Close(Detach(b, l.owner), l, s, f)
  BY DEF Refresh
<1> HIDE DEF lost
<1> QED
  BY <1>1, <1>2, <1>3, <1>4, <1>5

\* Leaving the lock: whoever has to resume is on its way to do so.
LEMMA LeaveHands ==
  ASSUME NEW r, NEW pc
  PROVE  LET l == Leave(r, pc)
         IN  /\ r.resume => l.pc = "resume"
             /\ ~r.resume => l.pc = pc
             /\ l.pc \in {"resume", pc} /\ l.next \in {"idle", pc}
  BY DEF Leave, AtRest

\* Thread u moves; whoever had to resume still has to, and the duty of a lease that
\* ends passes to u.
LEMMA ThreadKeeps ==
  ASSUME SuspInv, Inv', NEW u \in Thread, \A t \in Thread \ {u} : th'[t] = th[t],
         Calm(br, br'),
         lease'.susp => lease'.owner = Agent, ~stash'.susp,
         u # "tick" => th'[u].pc # "guard",
         u = "cmd" /\ (th'[u].pc = "suspend" \/ th'[u].next = "suspend") => th'[u].susp,
         Resumes(u) => Resumes(u)',
         lease.susp => lease'.susp \/ (~Resumes(u) /\ th'[u].pc \in {"guard", "resume"})
  PROVE  SuspInv'
<1>1. RolesHold'
  <2>1. th'["cmd"].pc = "suspend" \/ th'["cmd"].next = "suspend" => th'["cmd"].susp
    BY DEF SuspInv, RolesHold, Thread
  <2>2. \A t \in Thread \ {"tick"} : th'[t].pc # "guard"
    BY DEF SuspInv, RolesHold
  <2> QED
    BY <2>1, <2>2 DEF RolesHold
<1>2. \A t \in Thread \ {u} : Resumes(t)' <=> Resumes(t)
  BY DEF Resumes
<1>3. Awaited' >= Awaited
  <2>1. lease.susp => lease'.susp \/ (~Resumes(u) /\ Resumes(u)')
    BY DEF Resumes
  <2> QED
    BY <1>2, <2>1 DEF Awaited, One, Thread
<1>4. DepthHolds'
  <2>1. Awaited \in Nat /\ Awaited' \in Nat
    BY DEF Awaited, One
  <2> QED
    BY <1>3, <2>1 DEF SuspInv, DepthHolds, Calm
<1> QED
  BY <1>1, <1>4 DEF SuspInv

\* Nobody moves.
LEMMA NobodyMoves ==
  ASSUME SuspInv, Inv', UNCHANGED <<th, stash>>, lease'.susp = lease.susp, lease'.owner = lease.owner,
         Calm(br, br')
  PROVE  SuspInv'
<1>1. "loop" \in Thread /\ th'["loop"].pc # "guard"
  BY DEF Thread, SuspInv, RolesHold
<1>2. Resumes("loop") => Resumes("loop")'
  BY DEF Resumes
<1> QED
  BY <1>1, <1>2, ThreadKeeps DEF SuspInv, RolesHold

\* Where a thread's new record leaves the others.
LEMMA Moved ==
  ASSUME TypeOK, NEW t \in Thread, NEW x, th' = [th EXCEPT ![t] = x]
  PROVE  th'[t] = x /\ \A u \in Thread \ {t} : th'[u] = th[u]
  BY DEF TypeOK

\* Where a thread that only moves on leaves its record and the others.
LEMMA MovedOn ==
  ASSUME TypeOK, NEW t \in Thread, NEW pc, th' = [th EXCEPT ![t].pc = pc]
  PROVE  /\ th'[t].pc = pc /\ th'[t].next = th[t].next /\ th'[t].susp = th[t].susp
         /\ \A u \in Thread \ {t} : th'[u] = th[u]
<1>1. th[t] \in Local /\ th' = [th EXCEPT ![t] = [th[t] EXCEPT !.pc = pc]]
  BY DEF TypeOK
<1>2. th'[t] = [th[t] EXCEPT !.pc = pc] /\ \A u \in Thread \ {t} : th'[u] = th[u]
  BY <1>1, Moved
<1> QED
  BY <1>1, <1>2 DEF Local

\* A thread that neither has nor gets a resume to do.
LEMMA BystanderMoves ==
  ASSUME SuspInv, Inv', NEW t \in Thread, \A u \in Thread \ {t} : th'[u] = th[u],
         UNCHANGED <<lease, stash>>, Calm(br, br'),
         ~Resumes(t), th'[t].pc # "guard",
         t = "cmd" /\ (th'[t].pc = "suspend" \/ th'[t].next = "suspend") => th'[t].susp
  PROVE  SuspInv'
  BY ThreadKeeps DEF SuspInv, RolesHold

\* A lease operation of thread t, which goes on to pc.
LEMMA HandsOn ==
  ASSUME SuspInv, Inv', NEW t \in Thread, NEW r, NEW pc \in After \ {"suspend", "run"},
         Hands(br, lease, r), th[t].pc \in {"idle", "open"},
         th' = [th EXCEPT ![t] = Leave(r, pc)],
         lease.susp => lease'.susp \/ r.resume,
         lease'.susp => lease'.owner = Agent,
         ~stash'.susp, Calm(br, br')
  PROVE  SuspInv'
<1>1. th'[t] = Leave(r, pc) /\ \A u \in Thread \ {t} : th'[u] = th[u]
  BY Moved DEF SuspInv, Inv
<1>2. /\ r.resume => th'[t].pc = "resume"
      /\ th'[t].pc \in {"resume", pc} /\ th'[t].next \in {"idle", pc}
  BY <1>1, LeaveHands
<1>3. ~Resumes(t)
  BY DEF Resumes
<1>4. th'[t].pc # "guard" /\ th'[t].pc # "suspend" /\ th'[t].next # "suspend"
  BY <1>2 DEF After
<1> QED
  BY <1>1, <1>2, <1>3, <1>4, ThreadKeeps

\* What the lease operations are given.
LEMMA SuspFacts ==
  ASSUME SuspInv
  PROVE  /\ TypeOK /\ IsBridge(br) /\ br.depth \in Nat
         /\ lease \in Lease /\ HumanLease(stash) /\ ~stash.susp
         /\ lease.susp => lease.owner = Agent
         /\ \A f, late \in BOOLEAN : Hands(br, lease, Refresh(br, lease, stash, f, late))
         /\ \A f \in BOOLEAN : /\ Hands(br, lease, Close(br, lease, stash, f))
                               /\ ~Close(br, lease, stash, f).l.susp
                               /\ Close(br, lease, stash, f).resume = lease.susp
<1>1. /\ TypeOK /\ IsBridge(br) /\ br.depth \in Nat
      /\ lease \in Lease /\ HumanLease(stash) /\ ~stash.susp
      /\ lease.susp => lease.owner = Agent
  BY DEF SuspInv, Inv, TypeOK, RolesHold, DepthHolds
<1> QED
  BY <1>1, RefreshHands, CloseHands

\* The post-close action: the tick resumes what its lease suspended, unless its guard
\* stops it.
LEMMA PostCloseSusp ==
  ASSUME SuspInv, Inv', NEW t \in Thread, PostClose(t), ~ResumeSkipped
  PROVE  SuspInv'
<1>1. TypeOK /\ IsBridge(br) /\ br.depth \in Nat
  BY SuspFacts
<1>a. ~th[t].susp \/ th[t].susp
  OBVIOUS
<1>2. CASE TickGuard(t)
  <2>1. PICK pc \in {"popped", "resume", "clear"} :
          /\ th' = [th EXCEPT ![t].pc = pc]
          /\ th[t].pc = "guard" => pc \in {"popped", "resume"}
          /\ th[t].pc # "guard" => pc # "resume"
    BY <1>2 DEF TickGuard
  <2>2. th'[t].pc = pc /\ th'[t].next = th[t].next /\ th'[t].susp = th[t].susp
        /\ \A u \in Thread \ {t} : th'[u] = th[u]
    BY <1>1, <2>1, MovedOn
  <2>3. th[t].pc = "guard" => t = "tick" /\ pc = "resume"
    BY <2>1, <2>2 DEF SuspInv, RolesHold, ResumeSkipped
  <2>4. Resumes(t) => Resumes(t)'
    BY <1>2, <2>2, <2>3 DEF Resumes, TickGuard
  <2>5. t = "cmd" /\ (th'[t].pc = "suspend" \/ th'[t].next = "suspend") => th'[t].susp
    BY <2>1, <2>2 DEF SuspInv, RolesHold
  <2>6. br' = br /\ lease' = lease /\ stash' = stash
    BY <1>2 DEF TickGuard, mgrVars
  <2> QED
    BY <2>1, <2>2, <2>4, <2>5, <2>6, ThreadKeeps DEF SuspInv, RolesHold, Calm
<1>3. CASE Resume(t)
  <2> DEFINE x == [th[t] EXCEPT !.pc = "flush", !.flush = ResumeTakes(br)]
  <2>1. th[t] \in Local /\ th' = [th EXCEPT ![t] = x]
    BY <1>1, <1>3 DEF Resume, TypeOK, Local
  <2>2. th'[t] = x /\ \A u \in Thread \ {t} : th'[u] = th[u]
    BY <1>1, <2>1, Moved
  <2>3. th'[t].pc = "flush" /\ th'[t].next = th[t].next /\ th'[t].susp = th[t].susp
    <3>1. x.pc = "flush" /\ x.next = th[t].next /\ x.susp = th[t].susp
      BY <2>1 DEF Local
    <3> HIDE DEF x
    <3> QED
      BY <2>2, <3>1
  <2>4. Resumes(t) /\ ~Resumes(t)' /\ \A u \in Thread \ {t} : Resumes(u)' <=> Resumes(u)
    BY <1>3, <2>2, <2>3 DEF Resume, Resumes
  <2>5. br'.depth = IF br.depth = 0 THEN 0 ELSE br.depth - 1
    BY <1>1, <1>3, ResumeDepth DEF Resume
  <2>6. lease' = lease /\ stash' = stash
    BY <1>3 DEF Resume, mgrVars
  <2>7. Awaited' = Awaited - 1 /\ Awaited \in Nat /\ Awaited > 0
    BY <2>4, <2>6 DEF Awaited, One, Thread
  <2>8. DepthHolds'
    BY <1>1, <2>5, <2>7 DEF SuspInv, DepthHolds
  <2>9. RolesHold'
    BY <2>2, <2>3, <2>6 DEF SuspInv, RolesHold, Thread
  <2> QED
    BY <2>8, <2>9 DEF SuspInv
<1>4. CASE Flush(t)
  <2>1. PICK e \in th[t].flush : th' = [th EXCEPT ![t].flush = @ \ {e}]
    BY <1>4 DEF Flush
  <2> DEFINE x == [th[t] EXCEPT !.flush = @ \ {e}]
  <2>2. th[t] \in Local /\ th' = [th EXCEPT ![t] = x]
    BY <1>1, <2>1 DEF TypeOK, Local
  <2>3. th'[t] = x /\ \A u \in Thread \ {t} : th'[u] = th[u]
    BY <1>1, <2>2, Moved
  <2>4. th'[t].pc = "flush" /\ th'[t].next = th[t].next /\ th'[t].susp = th[t].susp
    BY <1>4, <2>2, <2>3 DEF Local, Flush
  <2>5. t = "cmd" /\ (th'[t].pc = "suspend" \/ th'[t].next = "suspend") => th'[t].susp
    BY <2>4 DEF SuspInv, RolesHold
  <2>6. ~Resumes(t) /\ UNCHANGED <<br, lease, stash>>
    BY <1>4 DEF Flush, Resumes, mgrVars
  <2> QED
    BY <2>3, <2>4, <2>5, <2>6, BystanderMoves DEF Calm
<1>5. CASE Flushed(t)
  <2>1. th[t].next \in After
    BY <1>1 DEF TypeOK, Local
  <2>2. PICK pc \in {th[t].next, "guard2", "clear"} : th' = [th EXCEPT ![t].pc = pc]
    BY <1>5 DEF Flushed
  <2>3. th'[t].pc = pc /\ th'[t].next = th[t].next /\ th'[t].susp = th[t].susp
        /\ \A u \in Thread \ {t} : th'[u] = th[u]
    BY <1>1, <2>2, MovedOn
  <2>4. th'[t].pc # "guard"
    BY <2>1, <2>2, <2>3 DEF After
  <2>5. t = "cmd" /\ (th'[t].pc = "suspend" \/ th'[t].next = "suspend") => th'[t].susp
    BY <2>2, <2>3 DEF SuspInv, RolesHold
  <2>6. ~Resumes(t) /\ UNCHANGED <<br, lease, stash>>
    BY <1>5 DEF Flushed, Resumes, mgrVars
  <2> QED
    BY <2>3, <2>4, <2>5, <2>6, BystanderMoves DEF Calm
<1>6. CASE ClearOwner(t)
  <2> DEFINE x == [th[t] EXCEPT !.pc = th[t].next, !.clear = FALSE]
  <2>1. th[t] \in Local /\ th[t].next \in After /\ th' = [th EXCEPT ![t] = x]
    BY <1>1, <1>6 DEF ClearOwner, TypeOK, Local
  <2>2. th'[t] = x /\ \A u \in Thread \ {t} : th'[u] = th[u]
    BY <1>1, <2>1, Moved
  <2>3. th'[t].pc = th[t].next /\ th'[t].next = th[t].next /\ th'[t].susp = th[t].susp
    <3>1. \A l \in Local : LET w == [l EXCEPT !.pc = l.next, !.clear = FALSE]
                           IN  w.pc = l.next /\ w.next = l.next /\ w.susp = l.susp
      BY DEF Local
    <3> QED
      BY <2>1, <2>2, <3>1
  <2>4. th'[t].pc # "guard"
    BY <2>1, <2>3 DEF After
  <2>5. t = "cmd" /\ (th'[t].pc = "suspend" \/ th'[t].next = "suspend") => th'[t].susp
    BY <2>3 DEF SuspInv, RolesHold
  <2>6. ~Resumes(t) /\ UNCHANGED <<lease, stash>> /\ Calm(br, br')
    BY <1>1, <1>6, CalmSetOwner DEF ClearOwner, Resumes, mgrVars, Calm
  <2> QED
    BY <2>2, <2>4, <2>5, <2>6, BystanderMoves
<1> QED
  BY <1>2, <1>3, <1>4, <1>5, <1>6 DEF PostClose

\* The reader and the environment.
LEMMA OutsideSusp ==
  ASSUME SuspInv, Inv',
         \/ ReaderTop \/ Reader \/ \E c \in Client : Read(c)
         \/ InvalidateDeferred \/ HumanIdles \/ LeaseTimesOut
         \/ \E c \in Client : PeerOpens(c) \/ PeerCloses(c) \/ ConsoleAges(c)
  PROVE  SuspInv'
<1>1. IsBridge(br) /\ lease \in Lease /\ typed \in Nat /\ TypeOK
  BY SuspFacts DEF TypeOK
<1>2. \A c \in Client, n, g \in Nat : AppendDeferred(br, c, n, g).depth = br.depth
  <2> TAKE c \in Client, n, g \in Nat
  <2> DEFINE e == IF Len(Append(IF br.buf[c].gen = g THEN br.buf[c].q ELSE <<>>, n)) > BufMax
                  THEN EmptyBuf
                  ELSE [gen |-> g, q |-> Append(IF br.buf[c].gen = g THEN br.buf[c].q ELSE <<>>, n)]
  <2>1. AppendDeferred(br, c, n, g) = [br EXCEPT !.buf[c] = e]
    BY DEF AppendDeferred
  <2> HIDE DEF e
  <2> QED
    BY <1>1, <2>1 DEF IsBridge
<1>3. Invalidate(br).depth = br.depth
  BY <1>1 DEF IsBridge, Invalidate
<1>4. CASE ReaderTop \/ Reader \/ \E c \in Client : Read(c)
  <2>1. rd.pc # "sel" => rd.c \in Client
    BY <1>1 DEF TypeOK
  <2>2. rd.gen \in Nat
    BY <1>1 DEF TypeOK
  <2>3. Calm(br, br')
    <3>1. br' = br \/ (rd.c \in Client /\ br' = AppendDeferred(br, rd.c, typed, rd.gen))
      BY <1>4, <2>1 DEF ReaderTop, Reader, CheckOwner, Recheck, SendRaw, Defer, Read
    <3> QED
      BY <1>1, <1>2, <2>2, <3>1 DEF Calm
  <2>4. UNCHANGED <<th, stash, lease>>
    BY <1>4 DEF ReaderTop, Reader, CheckOwner, Recheck, SendRaw, Defer, Read, mgrVars
  <2> QED
    BY <2>3, <2>4, NobodyMoves
<1>5. CASE InvalidateDeferred \/ HumanIdles
           \/ \E c \in Client : PeerOpens(c) \/ PeerCloses(c) \/ ConsoleAges(c)
  <2>1. UNCHANGED <<th, stash, lease>> /\ Calm(br, br')
    BY <1>3, <1>5 DEF InvalidateDeferred, HumanIdles, PeerOpens, PeerCloses, ConsoleAges,
                      mgrVars, Calm
  <2> QED
    BY <2>1, NobodyMoves
<1>6. CASE LeaseTimesOut
  <2>1. UNCHANGED <<th, stash>> /\ Calm(br, br')
    BY <1>6 DEF LeaseTimesOut, Calm
  <2>2. lease'.susp = lease.susp /\ lease'.owner = lease.owner
    BY <1>1, <1>6 DEF LeaseTimesOut, Lease
  <2> QED
    BY <2>1, <2>2, NobodyMoves
<1> QED
  BY <1>4, <1>5, <1>6

\* A command: the human it suspends is resumed when it ends.
LEMMA CommandSusp ==
  ASSUME SuspInv, Inv',
         Command \/ \E human, fresh, late \in BOOLEAN : BeginCommand(human, fresh, late)
  PROVE  SuspInv'
<1>0. "cmd" \in Thread
  BY DEF Thread
<1>1. TypeOK /\ IsBridge(br) /\ br.depth \in Nat /\ th["cmd"] \in Local
  BY <1>0, SuspFacts DEF TypeOK
<1>2. ASSUME NEW human \in BOOLEAN, NEW fresh \in BOOLEAN, NEW late \in BOOLEAN,
             BeginCommand(human, fresh, late)
      PROVE  SuspInv'
  <2> DEFINE r == Refresh(br, lease, stash, fresh, late)
             busy == r.l # NoLease /\ (human \/ r.l.owner = Agent)
             pc == IF busy THEN "idle" ELSE IF r.l # NoLease THEN "suspend" ELSE "run"
             x == Leave(r, pc)
             w == ~busy /\ r.l # NoLease
             v == [x EXCEPT !.susp = w]
  <2>1. Hands(br, lease, r)
    BY SuspFacts
  <2>2. /\ lease' = r.l /\ stash' = r.s /\ th["cmd"].pc = "idle"
        /\ br' = IF busy THEN r.b ELSE [r.b EXCEPT !.blocked = TRUE]
        /\ th' = [th EXCEPT !["cmd"] = v]
    BY <1>2 DEF BeginCommand, BeginOperation
  <2>3. (pc = "suspend" => w) /\ pc \in {"idle", "suspend", "run"} /\ w \in BOOLEAN
    OBVIOUS
  <2> HIDE DEF r, pc, w
  <2>4. x.pc \in {"resume", pc} /\ x.next \in {"idle", pc} /\ (r.resume => x.pc = "resume")
    BY LeaveHands
  <2>5. v.pc = x.pc /\ v.next = x.next /\ v.susp = w
    <3>1. \A l : l = Leave(r, pc) =>
            LET y == [l EXCEPT !.susp = w] IN y.pc = l.pc /\ y.next = l.next /\ y.susp = w
      BY DEF Leave, AtRest
    <3> QED
      BY <3>1
  <2>6. th'["cmd"] = v /\ \A u \in Thread \ {"cmd"} : th'[u] = th[u]
    <3> HIDE DEF v
    <3> QED
      BY <1>0, <1>1, <2>2, Moved
  <2> HIDE DEF v, x
  <2>7. br'.depth = r.b.depth
    <3> DEFINE b == r.b
    <3>1. IsBridge(b)
      BY <2>1 DEF Hands
    <3>2. br' = b \/ br' = [b EXCEPT !.blocked = TRUE]
      BY <2>2
    <3> HIDE DEF b
    <3>3. br'.depth = b.depth
      BY <3>1, <3>2 DEF IsBridge
    <3> QED
      BY <3>3 DEF b
  <2>8. ~Resumes("cmd")
    BY <2>2 DEF Resumes
  <2>9. "cmd" # "tick" /\ th'["cmd"].pc # "guard"
    BY <2>3, <2>4, <2>5, <2>6
  <2>10. (th'["cmd"].pc = "suspend" \/ th'["cmd"].next = "suspend") => th'["cmd"].susp
    BY <2>3, <2>4, <2>5, <2>6
  <2>11. lease.susp => lease'.susp \/ (~Resumes("cmd") /\ th'["cmd"].pc \in {"guard", "resume"})
    BY <2>1, <2>2, <2>4, <2>5, <2>6, <2>8 DEF Hands
  <2>12. Calm(br, br') /\ (lease'.susp => lease'.owner = Agent) /\ ~stash'.susp
    BY <2>1, <2>2, <2>7 DEF Hands, Calm
  <2> QED
    BY <1>0, <2>6, <2>8, <2>9, <2>10, <2>11, <2>12, ThreadKeeps
<1>3. CASE SuspendHuman
  <2>1. th["cmd"].pc = "suspend" /\ th["cmd"].susp /\ th' = [th EXCEPT !["cmd"].pc = "run"]
    BY <1>3 DEF SuspendHuman, SuspInv, RolesHold
  <2>2. /\ th'["cmd"].pc = "run" /\ th'["cmd"].next = th["cmd"].next /\ th'["cmd"].susp = th["cmd"].susp
        /\ \A u \in Thread \ {"cmd"} : th'[u] = th[u]
    BY <1>0, <1>1, <2>1, MovedOn
  <2>3. ~Resumes("cmd") /\ Resumes("cmd")' /\ \A u \in Thread \ {"cmd"} : Resumes(u)' <=> Resumes(u)
    BY <2>1, <2>2 DEF Resumes
  <2>4. br'.depth = br.depth + 1
    BY <1>1, <1>3, SuspendDepth DEF SuspendHuman
  <2>5. UNCHANGED <<lease, stash>>
    BY <1>3 DEF SuspendHuman, mgrVars
  <2>6. Awaited' = Awaited + 1 /\ Awaited \in Nat
    BY <2>3, <2>5 DEF Awaited, One, Thread
  <2>7. DepthHolds'
    BY <1>1, <2>4, <2>6 DEF SuspInv, DepthHolds
  <2>8. RolesHold'
    BY <2>1, <2>2, <2>5 DEF SuspInv, RolesHold, Thread
  <2> QED
    BY <2>7, <2>8 DEF SuspInv
<1>4. CASE EndCommand
  <2> DEFINE p == IF th["cmd"].susp THEN "resume" ELSE "finish"
             v == [th["cmd"] EXCEPT !.pc = p, !.next = "finish"]
  <2>1. th' = [th EXCEPT !["cmd"] = v] /\ th["cmd"].pc = "run" /\ UNCHANGED <<br, lease, stash>>
    BY <1>0, <1>1, <1>4 DEF EndCommand, TypeOK, Local, mgrVars
  <2>2. v.pc = p /\ v.next = "finish"
    <3> HIDE DEF p
    <3> QED
      BY <1>1 DEF Local
  <2> HIDE DEF v
  <2>3. th'["cmd"] = v /\ \A u \in Thread \ {"cmd"} : th'[u] = th[u]
    BY <1>0, <1>1, <2>1, Moved
  <2>4. Resumes("cmd") => Resumes("cmd")'
    BY <2>1, <2>2, <2>3 DEF Resumes
  <2>5. th'["cmd"].pc \notin {"guard", "suspend"} /\ th'["cmd"].next # "suspend"
    BY <2>2, <2>3
  <2> QED
    BY <1>0, <2>1, <2>3, <2>4, <2>5, ThreadKeeps DEF SuspInv, RolesHold, Calm
<1>5. CASE FinishOperation
  <2> DEFINE T == AdmitTakes(br)
             v == [th["cmd"] EXCEPT !.pc = "flush", !.flush = T, !.next = "release"]
  <2>1. th' = [th EXCEPT !["cmd"] = v] /\ th["cmd"].pc = "finish" /\ UNCHANGED <<lease, stash>>
    BY <1>0, <1>1, <1>5 DEF FinishOperation, TypeOK, Local, mgrVars
  <2>2. v.pc = "flush" /\ v.next = "release"
    <3> HIDE DEF T
    <3> QED
      BY <1>1 DEF Local
  <2> HIDE DEF v
  <2>3. th'["cmd"] = v /\ \A u \in Thread \ {"cmd"} : th'[u] = th[u]
    BY <1>0, <1>1, <2>1, Moved
  <2>4. ~Resumes("cmd")
    BY <2>1 DEF Resumes
  <2>5. Calm(br, br')
    BY <1>1, <1>5, AdmitDepth DEF FinishOperation, Calm
  <2> QED
    BY <1>0, <2>1, <2>2, <2>3, <2>4, <2>5, BystanderMoves
<1>6. CASE ReleaseToken
  <2>1. th' = [th EXCEPT !["cmd"] = AtRest] /\ th["cmd"].pc = "release" /\ UNCHANGED <<br, lease, stash>>
    BY <1>6 DEF ReleaseToken
  <2>2. th'["cmd"] = AtRest /\ \A u \in Thread \ {"cmd"} : th'[u] = th[u]
    BY <1>0, <1>1, <2>1, Moved
  <2>3. ~Resumes("cmd")
    BY <2>1 DEF Resumes
  <2> QED
    BY <1>0, <2>1, <2>2, <2>3, RestFacts, BystanderMoves DEF Calm
<1> QED
  BY <1>2, <1>3, <1>4, <1>5, <1>6 DEF Command

\* interactive_open: the lease that preempts a human is the one to resume.
LEMMA OpenLeaseSusp ==
  ASSUME SuspInv, Inv', NEW fresh \in BOOLEAN, NEW late \in BOOLEAN, OpenLease(fresh, late)
  PROVE  SuspInv'
<1> DEFINE r == Refresh(br, lease, stash, fresh, late)
           preempt == r.l.owner \in Client /\ ~active
<1>0. "loop" \in Thread /\ th["loop"].pc \in {"idle", "open"} /\ ~Resumes("loop")
  BY DEF OpenLease, Thread, Resumes
<1>1. TypeOK /\ Hands(br, lease, r) /\ IsBridge(r.b) /\ r.b.depth \in Nat
  BY SuspFacts DEF Hands, Calm
<1>2. \A o, s : NewLease(o, s).susp = s /\ NewLease(o, s).owner = o
  BY DEF NewLease
<1>3. CASE op \/ post
  <2>1. th' = [th EXCEPT !["loop"] = AtRest] /\ UNCHANGED <<br, lease, stash>>
    BY <1>3 DEF OpenLease
  <2>2. th'["loop"] = AtRest /\ \A u \in Thread \ {"loop"} : th'[u] = th[u]
    BY <1>0, <1>1, <2>1, Moved
  <2> QED
    BY <1>0, <2>1, <2>2, RestFacts, BystanderMoves DEF Calm
<1>4. CASE ~(op \/ post) /\ r.resume
  <2>1. br' = r.b /\ lease' = r.l /\ stash' = r.s /\ th' = [th EXCEPT !["loop"] = Leave(r, "open")]
    BY <1>4 DEF OpenLease
  <2>2. "open" \in After \ {"suspend", "run"}
    BY DEF After
  <2>3. /\ lease.susp => lease'.susp \/ r.resume
        /\ lease'.susp => lease'.owner = Agent
        /\ ~stash'.susp /\ Calm(br, br')
    BY <1>1, <2>1 DEF Hands
  <2> HIDE DEF r
  <2> QED
    BY <1>0, <1>1, <2>1, <2>2, <2>3, HandsOn
<1>5. CASE ~(op \/ post) /\ ~r.resume
  <2>1. /\ th' = [th EXCEPT !["loop"] = AtRest]
        /\ \/ r.l = NoLease /\ lease' = NewLease(Agent, FALSE) /\ br' = SetOwner(r.b, Agent) /\ stash' = r.s
           \/ preempt /\ lease' = NewLease(Agent, TRUE) /\ stash' = r.l /\ br' = SetOwner(Suspend(r.b), Agent)
           \/ br' = r.b /\ lease' = r.l /\ stash' = r.s
    BY <1>5 DEF OpenLease
  <2> HIDE DEF r
  <2>2. th'["loop"] = AtRest /\ \A u \in Thread \ {"loop"} : th'[u] = th[u]
    BY <1>0, <1>1, <2>1, Moved
  <2>3. th'["loop"].pc = "idle" /\ th'["loop"].next = "idle"
    BY <2>2, RestFacts
  <2>4. lease.susp => r.l.susp
    BY <1>1, <1>5 DEF Hands
  <2>5. CASE /\ preempt /\ lease' = NewLease(Agent, TRUE) /\ stash' = r.l
             /\ br' = SetOwner(Suspend(r.b), Agent)
    <3>1. ~r.l.susp
      BY <1>1, <2>5, ClientAssumption DEF Hands
    <3>2. IsBridge(Suspend(r.b))
      BY <1>1, TameSuspend DEF Tame
    <3>3. br'.depth = r.b.depth + 1
      BY <1>1, <2>5, <3>2, CalmSetOwner, SuspendDepth
    <3>4. ~lease.susp /\ lease'.susp /\ lease'.owner = Agent /\ ~stash'.susp
      BY <1>2, <2>4, <2>5, <3>1
    <3>5. \A u \in Thread : Resumes(u)' <=> Resumes(u)
      BY <1>0, <2>2, <2>3 DEF Resumes
    <3>6. Awaited' = Awaited + 1 /\ Awaited \in Nat
      BY <3>4, <3>5 DEF Awaited, One, Thread
    <3>7. DepthHolds'
      BY <1>1, <3>3, <3>6 DEF SuspInv, DepthHolds, Hands, Calm
    <3>8. RolesHold'
      BY <1>0, <2>2, <2>3, <3>4 DEF SuspInv, RolesHold, Thread
    <3> QED
      BY <3>7, <3>8 DEF SuspInv
  <2>6. CASE \/ r.l = NoLease /\ lease' = NewLease(Agent, FALSE) /\ br' = SetOwner(r.b, Agent) /\ stash' = r.s
             \/ br' = r.b /\ lease' = r.l /\ stash' = r.s
    <3>1. ~NoLease.susp
      BY DEF NoLease
    <3>2. br'.depth = r.b.depth
      BY <1>1, <2>6, CalmSetOwner
    <3>3. Calm(br, br')
      BY <1>1, <3>2 DEF Hands, Calm
    <3>4. (lease'.susp => lease'.owner = Agent) /\ ~stash'.susp
      <4>1. (r.l.susp => r.l.owner = Agent) /\ ~r.s.susp
        BY <1>1 DEF Hands
      <4>2. CASE lease' = NewLease(Agent, FALSE) /\ stash' = r.s
        BY <1>2, <4>1, <4>2
      <4>3. CASE lease' = r.l /\ stash' = r.s
        BY <4>1, <4>3
      <4> QED
        BY <2>6, <4>2, <4>3
    <3>5. lease.susp => lease'.susp
      BY <2>4, <2>6, <3>1
    <3> QED
      BY <1>0, <2>2, <2>3, <3>3, <3>4, <3>5, ThreadKeeps
  <2> QED
    BY <2>1, <2>5, <2>6
<1> QED
  BY <1>3, <1>4, <1>5

\* The other calls of the loop, and console.attach.
LEMMA LeaseCallsSusp ==
  ASSUME SuspInv, Inv',
         \/ Send
         \/ \E fresh \in BOOLEAN : BeginSend(fresh) \/ CloseLease(fresh)
         \/ \E c \in Client, fresh, late \in BOOLEAN :
              DetachConsole(c, fresh, late) \/ AttachConsole(c, fresh, late)
  PROVE  SuspInv'
<1>0. "loop" \in Thread /\ "exec" \in Thread /\ "idle" \in After \ {"suspend", "run"}
      /\ TypeOK /\ IsBridge(br)
  BY SuspFacts DEF Thread, After
<1>1. CASE Send
  <2>1. th' = [th EXCEPT !["loop"] = AtRest] /\ th["loop"].pc = "send" /\ UNCHANGED <<br, lease, stash>>
    BY <1>1 DEF Send, mgrVars
  <2>2. th'["loop"] = AtRest /\ \A u \in Thread \ {"loop"} : th'[u] = th[u]
    BY <1>0, <2>1, Moved
  <2>3. ~Resumes("loop")
    BY <2>1 DEF Resumes
  <2> QED
    BY <1>0, <2>1, <2>2, <2>3, RestFacts, BystanderMoves DEF Calm
<1>2. ASSUME NEW fresh \in BOOLEAN,
             /\ th["loop"].pc = "idle"
             /\ LET r == Close(br, lease, stash, fresh)
                IN  /\ br' = r.b /\ lease' = r.l /\ stash' = r.s
                    /\ th' = [th EXCEPT !["loop"] = Leave(r, "idle")]
      PROVE  SuspInv'
  <2> DEFINE r == Close(br, lease, stash, fresh)
  <2>1. /\ br' = r.b /\ lease' = r.l /\ stash' = r.s
        /\ th' = [th EXCEPT !["loop"] = Leave(r, "idle")]
    BY <1>2
  <2>2. Hands(br, lease, r)
    BY SuspFacts
  <2> HIDE DEF r
  <2>3. /\ lease.susp => lease'.susp \/ r.resume
        /\ lease'.susp => lease'.owner = Agent
        /\ ~stash'.susp /\ Calm(br, br')
    BY <2>1, <2>2 DEF Hands
  <2> QED
    BY <1>0, <1>2, <2>1, <2>2, <2>3, HandsOn
<1>3. ASSUME NEW fresh \in BOOLEAN, CloseLease(fresh) PROVE SuspInv'
  BY <1>2, <1>3 DEF CloseLease
<1>4. ASSUME NEW fresh \in BOOLEAN, BeginSend(fresh) PROVE SuspInv'
  <2>1. CASE lease.old
    BY <1>2, <1>4, <2>1 DEF BeginSend
  <2>2. CASE ~lease.old
    <3> DEFINE p == IF op THEN "idle" ELSE "send"
               v == [th["loop"] EXCEPT !.pc = p, !.want = br.gen]
    <3>1. /\ th' = [th EXCEPT !["loop"] = v] /\ th["loop"] \in Local
          /\ th["loop"].pc = "idle" /\ UNCHANGED <<br, lease, stash>>
      BY <1>0, <1>4, <2>2 DEF BeginSend, TypeOK, Local
    <3>2. v.pc = p
      BY <3>1 DEF Local
    <3> HIDE DEF v
    <3>3. th'["loop"] = v /\ \A u \in Thread \ {"loop"} : th'[u] = th[u]
      BY <1>0, <3>1, Moved
    <3>4. ~Resumes("loop") /\ th'["loop"].pc # "guard"
      BY <3>1, <3>2, <3>3 DEF Resumes
    <3> QED
      BY <1>0, <3>1, <3>3, <3>4, BystanderMoves DEF Calm
  <2> QED
    BY <2>1, <2>2
<1>5. ASSUME NEW c \in Client, NEW fresh \in BOOLEAN, NEW late \in BOOLEAN,
             DetachConsole(c, fresh, late)
      PROVE  SuspInv'
  <2> DEFINE r == Refresh(br, lease, stash, fresh, late)
             d == Detach(r.b, c)
  <2>1. /\ th' = [th EXCEPT !["loop"] = Leave(r, "idle")] /\ stash' = r.s
        /\ th["loop"].pc = "idle"
        /\ \/ r.l.owner = c /\ br' = SetOwner(d, None) /\ lease' = NoLease
           \/ br' = d /\ lease' = r.l
    BY <1>5 DEF DetachConsole
  <2>2. Hands(br, lease, r)
    BY SuspFacts
  <2> HIDE DEF r
  <2>3. Calm(r.b, d) /\ IsBridge(d)
    BY <2>2, TameDetach, CalmDetach DEF Hands, Tame
  <2> HIDE DEF d
  <2>4. Calm(br, br')
    BY <2>1, <2>2, <2>3, CalmSetOwner DEF Calm, Hands
  <2>5. ~NoLease.susp
    BY DEF NoLease
  <2>6. r.l.owner = c => ~r.l.susp
    BY <2>2, ClientAssumption DEF Hands
  <2>7. /\ lease.susp => lease'.susp \/ r.resume
        /\ lease'.susp => lease'.owner = Agent
        /\ ~stash'.susp
    BY <2>1, <2>2, <2>5, <2>6 DEF Hands
  <2> QED
    BY <1>0, <2>1, <2>2, <2>4, <2>7, HandsOn
<1>6. ASSUME NEW c \in Client, NEW fresh \in BOOLEAN, NEW late \in BOOLEAN,
             AttachConsole(c, fresh, late)
      PROVE  SuspInv'
  <2> DEFINE x == Register(br, c)
             r == Refresh(x, lease, stash, fresh, late)
  <2>1. /\ th' = [th EXCEPT !["exec"] = Leave(r, "idle")] /\ stash' = r.s
        /\ th["exec"].pc = "idle"
        /\ \/ r.l = NoLease /\ br' = SetOwner(r.b, c) /\ lease' = NewLease(c, FALSE)
           \/ br' = r.b /\ lease' = r.l
    BY <1>6 DEF AttachConsole
  <2>2. IsBridge(x) /\ Calm(br, x)
    BY <1>0, TameRegister, CalmRegister DEF Tame, Calm
  <2> HIDE DEF x
  <2>3. Hands(x, lease, r)
    BY <2>2, SuspFacts, RefreshHands
  <2> HIDE DEF r
  <2>4. Hands(br, lease, r)
    BY <2>2, <2>3, CalmTrans DEF Hands
  <2>5. Calm(br, br')
    <3>1. SetOwner(r.b, c).depth = r.b.depth
      BY <2>4, CalmSetOwner DEF Hands
    <3>2. br'.depth = r.b.depth
      BY <2>1, <3>1
    <3> QED
      BY <2>4, <3>2 DEF Calm, Hands
  <2>6. ~NoLease.susp /\ ~NewLease(c, FALSE).susp
    BY DEF NoLease, NewLease
  <2>7. /\ lease.susp => lease'.susp \/ r.resume
        /\ lease'.susp => lease'.owner = Agent
        /\ ~stash'.susp
    BY <2>1, <2>4, <2>6 DEF Hands
  <2> QED
    BY <1>0, <2>1, <2>4, <2>5, <2>7, HandsOn
<1> QED
  BY <1>1, <1>3, <1>4, <1>5, <1>6

\* The readiness tick: an expired lease passes its resume to the tick.
LEMMA TickSusp ==
  ASSUME SuspInv, Inv', Tick
  PROVE  SuspInv'
<1>0. "tick" \in Thread /\ TypeOK /\ IsBridge(br) /\ th["tick"] \in Local
  BY SuspFacts DEF Thread, TypeOK
<1>1. ASSUME NEW fresh \in BOOLEAN, ExpireLease(fresh) PROVE SuspInv'
  <2> DEFINE r == Close(br, lease, stash, fresh)
             x == Leave(r, "popped")
             v == [x EXCEPT !.pc = "guard", !.want = r.l.owner]
  <2>1. /\ br' = r.b /\ lease' = r.l /\ stash' = r.s /\ th["tick"].pc = "idle"
        /\ th' = [th EXCEPT !["tick"] = IF r.resume THEN v ELSE AtRest]
    BY <1>1 DEF ExpireLease
  <2>2. Hands(br, lease, r)
    BY SuspFacts
  <2>3. v.pc = "guard"
    BY DEF Leave, AtRest
  <2> HIDE DEF v, r
  <2>4. th'["tick"] = (IF r.resume THEN v ELSE AtRest) /\ \A u \in Thread \ {"tick"} : th'[u] = th[u]
    BY <1>0, <2>1, Moved
  <2>5. ~Resumes("tick")
    BY <2>1 DEF Resumes
  <2>6. lease.susp => lease'.susp \/ th'["tick"].pc = "guard"
    BY <2>1, <2>2, <2>3, <2>4 DEF Hands
  <2>7. (lease'.susp => lease'.owner = Agent) /\ ~stash'.susp /\ Calm(br, br')
    BY <2>1, <2>2 DEF Hands
  <2> QED
    BY <1>0, <2>4, <2>5, <2>6, <2>7, ThreadKeeps
<1>2. ASSUME th["tick"].pc \in {"idle", "popped", "reap", "snap", "grant"},
             NEW x, th' = [th EXCEPT !["tick"] = x], x.pc # "guard",
             stash' = stash, Calm(br, br'), lease' = lease \/ (~lease.susp /\ ~lease'.susp)
      PROVE  SuspInv'
  <2>1. th'["tick"] = x /\ \A u \in Thread \ {"tick"} : th'[u] = th[u]
    BY <1>0, <1>2, Moved
  <2>2. ~Resumes("tick")
    BY <1>2 DEF Resumes
  <2> QED
    BY <1>0, <1>2, <2>1, <2>2, ThreadKeeps DEF SuspInv, RolesHold
<1>3. CASE PopToken
  BY <1>2, <1>3, RestFacts DEF PopToken, Calm
<1>4. CASE ScanPeers
  <2> DEFINE x == [AtRest EXCEPT !.pc = "reap", !.held = peer]
  <2>1. x.pc = "reap"
    BY DEF AtRest
  <2> HIDE DEF x
  <2>2. th' = [th EXCEPT !["tick"] = x]
    BY <1>4 DEF ScanPeers, x
  <2> QED
    BY <1>2, <1>4, <2>1, <2>2 DEF ScanPeers, Calm, mgrVars
<1>5. CASE Reap
  <2>1. th' = [th EXCEPT !["tick"] = [th["tick"] EXCEPT !.pc = "snap"]]
    BY <1>0, <1>5 DEF Reap, TypeOK
  <2>2. [th["tick"] EXCEPT !.pc = "snap"].pc = "snap"
    BY <1>0 DEF Local
  <2>3. PICK keep, buf, p : br' = [br EXCEPT !.clients = keep, !.buf = buf, !.primary = p]
    <3> DEFINE dead == ToSet(br.clients) \ (th["tick"].held \cup young \cup {br.owner, br.susp})
               k == SelectSeq(br.clients, LAMBDA c : c \notin dead)
               f == [c \in Client |-> IF c \in dead THEN EmptyBuf ELSE br.buf[c]]
               q == IF br.primary \notin dead THEN br.primary ELSE IF k = <<>> THEN None ELSE Head(k)
    <3>1. br' = [br EXCEPT !.clients = k, !.buf = f, !.primary = q]
      BY <1>5 DEF Reap
    <3> QED
      BY <3>1
  <2>4. br'.depth = br.depth
    BY <1>0, <2>3 DEF IsBridge
  <2> QED
    BY <1>2, <1>5, <2>1, <2>2, <2>4 DEF Reap, Calm, mgrVars
<1>6. CASE Snapshot
  <2> DEFINE y == [AtRest EXCEPT !.pc = "grant", !.want = br.primary]
  <2>1. y.pc = "grant" /\ AtRest.pc = "idle"
    BY DEF AtRest
  <2>2. th' = [th EXCEPT !["tick"] = y] \/ th' = [th EXCEPT !["tick"] = AtRest]
    BY <1>6 DEF Snapshot
  <2> HIDE DEF y
  <2>3. stash' = stash /\ lease' = lease /\ Calm(br, br') /\ th["tick"].pc = "snap"
    BY <1>6 DEF Snapshot, Calm, mgrVars
  <2> QED
    BY <1>2, <2>1, <2>2, <2>3
<1>7. CASE Grant
  <2>1. ~NoLease.susp /\ \A c : ~NewLease(c, FALSE).susp
    BY DEF NoLease, NewLease
  <2>2. br'.depth = br.depth
    BY <1>0, <1>7 DEF Grant, IsBridge
  <2>3. lease' = lease \/ (~lease.susp /\ ~lease'.susp)
    BY <1>7, <2>1 DEF Grant
  <2> QED
    BY <1>2, <1>7, <2>2, <2>3, RestFacts DEF Grant, Calm
<1> QED
  BY <1>1, <1>3, <1>4, <1>5, <1>6, <1>7 DEF Tick

\* Nothing is suspended at first.
LEMMA InitSusp == Init => SuspInv
<1> SUFFICES ASSUME Init PROVE SuspInv
  OBVIOUS
<1>1. ~NoLease.susp
  BY DEF NoLease
<1>2. br.depth = 0
  BY DEF Init
<1>3. RolesHold
  BY <1>1, RestFacts DEF Init, RolesHold, Thread
<1>4. DepthHolds
  BY <1>2 DEF DepthHolds, Awaited, One
<1> QED
  BY <1>3, <1>4, InitInv DEF SuspInv

\* Every step whose tick does not skip its resume keeps the count.
LEMMA NextSusp ==
  ASSUME SuspInv, Inv', [Next /\ ~ResumeSkipped]_vars
  PROVE  SuspInv'
<1>1. CASE Next /\ ~ResumeSkipped
  <2>1. CASE \E t \in Thread : PostClose(t)
    BY <1>1, <2>1, PostCloseSusp
  <2>2. CASE \E fresh, late \in BOOLEAN : OpenLease(fresh, late)
    BY <2>2, OpenLeaseSusp
  <2>3. CASE Tick
    BY <2>3, TickSusp
  <2> QED
    BY <1>1, <2>1, <2>2, <2>3, OutsideSusp, CommandSusp, LeaseCallsSusp DEF Next
<1>2. CASE UNCHANGED vars
  BY <1>2, NobodyMoves DEF vars, mgrVars, Calm
<1> QED
  BY <1>1, <1>2

\* Whoever suspended the bridge resumes it, for any number of consoles and any mix of
\* calls, as long as the tick's guard (_interactive_tick_action_is_current) never finds
\* another lease than the one the tick left: that is the only way a human's keys stay
\* deferred with nobody to resume the bridge.
THEOREM SuspensionsEnd ==
  Spec /\ [][~ResumeSkipped]_vars => []SuspensionEnds
<1>1. Inv /\ Inv' /\ SuspInv /\ [Next]_vars /\ [~ResumeSkipped]_vars => SuspInv'
  <2>1. [Next]_vars /\ [~ResumeSkipped]_vars => [Next /\ ~ResumeSkipped]_vars
    OBVIOUS
  <2> QED
    BY <2>1, NextSusp
<1>2. SuspInv => SuspensionEnds
  BY AwaitedFacts
<1> QED
  BY <1>1, <1>2, InitSusp, ConsoleInvariant, PTL DEF Spec

==============================================================================
