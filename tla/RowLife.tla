------------------------------ MODULE RowLife ------------------------------
(***************************************************************************)
(* What the turn ledger promises of a row, whoever writes it and whatever  *)
(* fails (ADRL-MEM-002, ADRL-MEM-003): it is recorded once, its decision   *)
(* never changes; its status only moves forward; evidence of a verifier is *)
(* added at any time and touches nothing else, and nothing else touches    *)
(* it.  The telemetry of a final row may still be replaced, but only by a  *)
(* writer that found the row open before it became final.                  *)
(***************************************************************************)
CONSTANTS Routes, NoRow

VARIABLES
    row,    \* [Routes -> NoRow or [decision, status, telemetry, evidence]]
    found   \* the rows some writer found open and may still write

IsOpen(r) == row[r] # NoRow /\ row[r].status # "closed_final"

Forward == [s \in {"pending", "closed_turn"} |->
                IF s = "pending" THEN {"pending", "closed_turn", "closed_final"}
                ELSE {"closed_turn", "closed_final"}]

Recorded(old, new) ==
    /\ old = NoRow
    /\ new # NoRow
    /\ new.status = "pending"

Observed(old, new) ==
    /\ old # NoRow /\ new # NoRow
    /\ old.status \in DOMAIN Forward
    /\ new.status \in Forward[old.status]
    /\ new.decision = old.decision
    /\ new.evidence = old.evidence

(* The write of a writer that read the row before another made it final. *)
Overwritten(old, new) ==
    /\ old # NoRow /\ new # NoRow
    /\ old.status = "closed_final"
    /\ new = [old EXCEPT !.telemetry = new.telemetry]

Verified(old, new) ==
    /\ old # NoRow
    /\ new = [old EXCEPT !.evidence = new.evidence]

Init == row = [r \in Routes |-> NoRow] /\ found = {}

(* Writers find rows, and forget them when they are done or restarted. *)
Read == UNCHANGED row /\ \A r \in found' \ found : IsOpen(r)

Write == \E r \in Routes :
    /\ found' \subseteq found
    /\ \A q \in Routes \ {r} : row'[q] = row[q]
    /\ \/ Recorded(row[r], row'[r])
       \/ Observed(row[r], row'[r])
       \/ r \in found /\ Overwritten(row[r], row'[r])
       \/ Verified(row[r], row'[r])

Next == Read \/ Write

Spec == Init /\ [][Next]_<<row, found>>
=============================================================================
