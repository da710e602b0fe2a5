---------------------------- MODULE AdmissionGate ----------------------------
(***************************************************************************)
(* The admission gate of serialwrapd (sw_core/admission.py): one leaf lock *)
(* shared by every operation with a side effect and by the daemon's        *)
(* freeze.  Every method of the class runs under that lock, so each is one *)
(* atomic operator here; the callers (arbiter, RPC layer, handoff) are the *)
(* modules that extend this one.                                           *)
(***************************************************************************)
EXTENDS Naturals

VARIABLES
  tickets,    \* _tickets: the holders (commands, RPC operations) not yet done
  flags,      \* _flags: the <<session, flag>> pairs that are on
  frozen,     \* _frozen
  token,      \* _token, 0 when None
  idleToken,  \* _idle_token: the token of a freeze made by freeze_if_idle
  minted      \* number of uuid tokens created so far (tokens are fresh)

gateVars == <<tickets, flags, frozen, token, idleToken, minted>>
freezeVars == <<flags, frozen, token, idleToken, minted>>

GateInit ==
  /\ tickets = {}
  /\ flags = {}
  /\ frozen = FALSE
  /\ token = 0
  /\ idleToken = 0
  /\ minted = 0

\* admit(): a ticket, unless the gate is frozen.
Admit(t) ==
  /\ ~frozen
  /\ tickets' = tickets \cup {t}
  /\ UNCHANGED freezeVars

\* done(): give tickets back; an unknown ticket is ignored.
Done(T) ==
  /\ tickets' = tickets \ T
  /\ UNCHANGED freezeVars

\* set_flag(), one or several times under the manager's lock.
SetFlags(F) ==
  /\ flags' = F
  /\ UNCHANGED <<tickets, frozen, token, idleToken, minted>>

\* freeze(): the daemon's own shutdown takes the freeze over, so that a
\* failing handoff can no longer lift it.
Freeze ==
  /\ frozen' = TRUE
  /\ idleToken' = 0
  /\ IF token = 0
     THEN /\ token' = minted + 1
          /\ minted' = minted + 1
     ELSE UNCHANGED <<token, minted>>
  /\ UNCHANGED <<tickets, flags>>

\* freeze_if_idle(), already frozen: the caller is not the creator.
AdoptFreeze ==
  /\ frozen
  /\ idleToken' = 0
  /\ UNCHANGED <<tickets, flags, frozen, token, minted>>

\* Mutant: only the flags count.
BusyFlags == ~frozen /\ flags # {}

\* freeze_if_idle(), busy: nothing changes and no token is returned.
Busy == ~frozen /\ (tickets # {} \/ flags # {})

\* freeze_if_idle(), idle: freeze under a fresh token.
CreateFreeze ==
  /\ ~frozen
  /\ ~Busy
  /\ frozen' = TRUE
  /\ token' = minted + 1
  /\ idleToken' = minted + 1
  /\ minted' = minted + 1
  /\ UNCHANGED <<tickets, flags>>

\* thaw(): lifts only the freeze that freeze_if_idle created under t.
Thaw(t) ==
  IF frozen /\ token = t /\ idleToken = t
  THEN /\ frozen' = FALSE
       /\ token' = 0
       /\ idleToken' = 0
       /\ UNCHANGED <<tickets, flags, minted>>
  ELSE UNCHANGED gateVars
==============================================================================
