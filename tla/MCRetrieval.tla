------------------------------- MODULE MCRetrieval -------------------------------
(* Four turns, the third of the session of the first. The similarities rank   *)
(* them one way or the other, or not at all; in the last pair the stored       *)
(* vectors rank them otherwise than the queries.                               *)
EXTENDS Retrieval

CONSTANTS t1, t2, t3, t4

MCOrder == <<t1, t2, t3, t4>>

Alike(x1, x2, x3, x4) == [t \in Turns |->
    CASE t = t1 -> x1 [] t = t2 -> x2 [] t = t3 -> x3 [] OTHER -> x4]

Rising == Alike(2, 4, 5, 6)
Falling == Alike(6, 5, 4, 3)
Level == Alike(4, 4, 4, 4)

World(sims, bare, query, document) ==
    [t \in Turns |->
        [session |-> IF t = t3 THEN t1 ELSE t,
         source |-> IF t \in sims THEN "simulator" ELSE "organic",
         rung |-> IF t = t2 THEN "frontier" ELSE "local",
         middle |-> t \in {t3, t4},
         vector |-> t # bare,
         query |-> query, document |-> document]]

MCWorlds ==
    {World(sims, Null, Level, Level) : sims \in {{}, {t1}, {t3}}}
    \cup {World({}, Null, Rising, Rising), World({t1}, Null, Falling, Falling),
          World({t3}, t2, Falling, Falling), World({}, Null, Rising, Falling)}

Shown(kind, edits, escalated) ==
    [kind |-> kind, editFailures |-> edits, errors |-> 0, continuations |-> 0,
     infrastructure |-> FALSE, escalated |-> escalated]

MCEvidence == {Shown("dialect", 2, TRUE), Shown("difficulty", 0, TRUE)}
===============================================================================
