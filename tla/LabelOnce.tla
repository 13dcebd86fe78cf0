------------------------------ MODULE LabelOnce ------------------------------
(***************************************************************************)
(* What live verification promises of one job: a verdict is decided at     *)
(* most once, and what is published to the learning pipeline is the        *)
(* verdict that was decided.                                               *)
(***************************************************************************)
CONSTANTS Jobs, Verdicts, None

VARIABLES decided,     \* job -> the verdict of its ledger event, or None
          published    \* job -> the verdicts of its evidence records

Init == /\ decided = [j \in Jobs |-> None]
        /\ published = [j \in Jobs |-> {}]

Decide(j, v) ==
    /\ decided[j] = None
    /\ decided' = [decided EXCEPT ![j] = v]
    /\ UNCHANGED published

Publish(j) ==
    /\ decided[j] # None
    /\ published[j] = {}
    /\ published' = [published EXCEPT ![j] = {decided[j]}]
    /\ UNCHANGED decided

Next == \E j \in Jobs : Publish(j) \/ \E v \in Verdicts : Decide(j, v)

Spec == Init /\ [][Next]_<<decided, published>>
==============================================================================
