--------------------------- MODULE MCReadinessHistory ---------------------------
(* Two buckets and three levels; the second contract weighs them otherwise.   *)
(* One decision matures between the profiles.                                 *)
EXTENDS ReadinessHistory

CONSTANTS before, after, j1, j2

ByLevel(low, mid, high) ==
    [l \in 0 .. 2 |-> IF l = 0 THEN low ELSE IF l = 1 THEN mid ELSE high]

MCContracts ==
    [v1 |-> [points |-> ByLevel(0, 50, 100), weights |-> [RTG |-> 1, MEM |-> 1]],
     v2 |-> [points |-> ByLevel(0, 20, 100), weights |-> [RTG |-> 1, MEM |-> 2]]]

MCDecisions ==
    [p \in {before, after} |->
        [RTG |-> IF p = before THEN ByLevel(1, 1, 0) ELSE ByLevel(1, 0, 1),
         MEM |-> ByLevel(0, 1, 0)]]

MCFrozen == [contract |-> "v1", profile |-> before]
===============================================================================
