---------------------------- MODULE MCGraphProjection ----------------------------
(* Three turns: the first shares a rule with the second and a session and a   *)
(* wire with the third, the last two a rung, so that ways of several lengths   *)
(* join them. The second escalates from the top rung.                          *)
EXTENDS GraphProjection

CONSTANTS t1, t2, t3, a, b, local, cheap, frontier, r1, gate, w

Turn(s, m, rules, esc, wire) ==
    [session |-> s, rung |-> m, rules |-> rules, layer |-> gate,
     escalated |-> esc, wire |-> wire]

MCOf == [t \in {t1, t2, t3} |->
            CASE t = t1 -> Turn(a, local, {r1}, TRUE, w)
              [] t = t2 -> Turn(b, frontier, {r1}, TRUE, Null)
              [] OTHER  -> Turn(a, frontier, {}, FALSE, w)]

MCOld == {t1, t2}
MCOrder == <<t1, t2, t3>>
(* Where no run is left that could still end undisturbed, both invariants are  *)
(* empty from there on: such states are not followed.                          *)
MayStillSettle ==
    runs < MaxRuns \/ settled # Null \/ \E p \in Rebuilders : pc[p] # "idle" /\ ~disturbed[p]

Symmetry == Permutations(Rebuilders)
MCTarget == [r \in {local, cheap} |-> IF r = local THEN cheap ELSE frontier]
===============================================================================
