-------------------------- MODULE RoutingContract --------------------------
(***************************************************************************)
(* What routing promises about where a session's requests may run.         *)
(*                                                                         *)
(* A session is free, raised (a failing turn was escalated) or pinned (it  *)
(* carried private data).  A pin is for good.  Only a user turn lowers a   *)
(* raised session.  A request of a turn runs where the phase it was        *)
(* admitted under allows for its whole trip: a pinned one only locally, a  *)
(* raised one only in the cloud.  Only a pinned session's request may be   *)
(* refused.  Housekeeping ("aside") is not bound by the phase.             *)
(***************************************************************************)
CONSTANTS Sessions, Requests, None

VARIABLES
    phase,   \* [Sessions -> Phases]
    trip     \* [Requests -> where the request is, of which kind, under which phase]

Phases == {"free", "raised", "pinned"}

Unsent   == [at |-> "unsent",   sess |-> None, kind |-> "aside", under |-> "free"]
Answered == [at |-> "answered", sess |-> None, kind |-> "aside", under |-> "free"]
Sent(at, s, kind, p) == [at |-> at, sess |-> s, kind |-> kind, under |-> p]

Places(kind, p) ==
    {at \in {"local", "cloud"} : kind # "aside" =>
        (p = "pinned" => at = "local") /\ (p = "raised" => at = "cloud")}

Shift(s, p, kind) ==
    /\ p \in Phases
    /\ phase[s] = "pinned" => p = "pinned"
    /\ phase[s] = "raised" /\ p = "free" => kind = "turn"
    /\ phase' = [phase EXCEPT ![s] = p]

Admit(q) ==
    /\ trip[q] = Unsent
    /\ \E s \in Sessions, kind \in {"turn", "step", "aside"}, p \in Phases :
          /\ Shift(s, p, kind)
          /\ \E at \in Places(kind, p) :
                trip' = [trip EXCEPT ![q] = Sent(at, s, kind, p)]

Refuse(q) ==
    /\ trip[q] = Unsent
    /\ trip' = [trip EXCEPT ![q] = Answered]
    /\ \E s \in Sessions, kind \in {"turn", "step", "aside"} : Shift(s, "pinned", kind)

Divert(q) ==
    /\ trip[q].at = "local" /\ "cloud" \in Places(trip[q].kind, trip[q].under)
    /\ trip' = [trip EXCEPT ![q].at = "cloud"]
    /\ UNCHANGED phase

(* An answer may raise its own session, and no other.                      *)
Answer(q) ==
    /\ trip[q].at \in {"local", "cloud"}
    /\ trip' = [trip EXCEPT ![q] = Answered]
    /\ \E p \in {phase[trip[q].sess], "raised"} : Shift(trip[q].sess, p, trip[q].kind)

Init ==
    /\ phase = [s \in Sessions |-> "free"]
    /\ trip = [q \in Requests |-> Unsent]

Next == \E q \in Requests : Admit(q) \/ Refuse(q) \/ Divert(q) \/ Answer(q)

Spec == Init /\ [][Next]_<<phase, trip>>
=============================================================================
