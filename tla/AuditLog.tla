------------------------------ MODULE AuditLog ------------------------------
(***************************************************************************)
(* What an audit log promises its callers, without files, handles or       *)
(* retries: the fate of every record that was handed to it.                *)
(*                                                                         *)
(*   none      not answered yet                                            *)
(*   kept      answered as written, and readable in a file of the log      *)
(*   flagged   answered with loss_flag: the caller was told                *)
(*   gone      answered as written, and no longer readable                 *)
(*   reported  gone, and a META record of the log says so                  *)
(*                                                                         *)
(* "exposed" holds while somebody from outside has taken the current file  *)
(* away and the log has not noticed; "outside" counts what was done from   *)
(* outside.  Wal.tla is shown to implement this specification.             *)
(***************************************************************************)
EXTENDS Naturals

CONSTANT Record
VARIABLES
  fate,     \* of each record: none, kept, flagged, gone or reported
  exposed,  \* somebody outside took the file away, unnoticed so far
  outside   \* how often somebody outside touched the file

avars == <<fate, exposed, outside>>

AInit == fate = [r \in Record |-> "none"] /\ exposed = FALSE /\ outside = 0

(* A record is answered.  It may be lost unnoticed only while the log is   *)
(* exposed.                                                                *)
AAnswer(r) == /\ fate[r] = "none"
              /\ \/ \E v \in {"kept", "flagged"} : fate' = [fate EXCEPT ![r] = v]
                 \/ exposed /\ fate' = [fate EXCEPT ![r] = "gone"]
              /\ exposed' \in {exposed, FALSE} /\ UNCHANGED outside

(* Somebody from outside takes the current file away: the only step that   *)
(* may take a kept record.                                                 *)
ADisturb == /\ \E S \in SUBSET {r \in Record : fate[r] = "kept"} :
                 fate' = [r \in Record |-> IF r \in S THEN "gone" ELSE fate[r]]
            /\ exposed' \in BOOLEAN
            /\ outside' = outside + 1

(* A META record is answered and announces records that are gone.          *)
AReport(m) == /\ fate[m] = "none"
              /\ \E S \in SUBSET {r \in Record : fate[r] = "gone"},
                    v \in {"kept"} \cup IF exposed THEN {"gone"} ELSE {} :
                   fate' = [r \in Record |-> IF r = m THEN v
                                             ELSE IF r \in S THEN "reported"
                                             ELSE fate[r]]
              /\ exposed' \in {exposed, FALSE} /\ UNCHANGED outside

(* The log works on the named file again.                                  *)
ANotice == exposed' = FALSE /\ UNCHANGED <<fate, outside>>

ANext == ADisturb \/ ANotice \/ \E r \in Record : AAnswer(r) \/ AReport(r)

ASpec == AInit /\ [][ANext]_avars

=============================================================================
