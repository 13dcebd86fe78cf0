----------------------------- MODULE RungPolicy -----------------------------
(***************************************************************************)
(* The routing policy of router/policy.py and the difficulty score of      *)
(* router/features.py, as pure operators.                                  *)
(*                                                                         *)
(* Scores are integers in hundredths.  The live router builds its features *)
(* without trajectory counters (no edit failures, no recent errors), and   *)
(* for those inputs the float sums of the code fall on the same side of    *)
(* the two thresholds as the exact sums used here.                         *)
(***************************************************************************)
EXTENDS Integers

Rungs == {"local", "cheap_cloud", "frontier"}
MaxContext == [r \in Rungs |-> IF r = "local" THEN 32768 ELSE 200000]
CostRank == [r \in Rungs |->
               CASE r = "local" -> 0 [] r = "cheap_cloud" -> 1 [] OTHER -> 2]

\* A rung must fit the turn with 20% headroom.
Fits(tokens, rung) == 10 * tokens <= 8 * MaxContext[rung]

-----------------------------------------------------------------------------
(* The two vocabularies: the policy's rungs and the session store's.       *)

LocalRoutes == {"local", "local-code"}
StoreRoutes == LocalRoutes \cup {"cheap-cloud", "frontier"}
StoreRung(rung) ==
    CASE rung = "local"       -> "local-code"
      [] rung = "cheap_cloud" -> "cheap-cloud"
      [] OTHER                -> rung

-----------------------------------------------------------------------------
(* Features of a user turn: what the isolated instruction and the request  *)
(* say.  verdict is what the classifier would answer if it were asked.     *)

VerbScore == [trivial |-> 10, explain |-> 20, small_edit |-> 35, write |-> 45,
              fix |-> 55, hard |-> 85, unknown |-> 50]

TurnFeatures ==
    [verb: DOMAIN VerbScore, broad: BOOLEAN, narrow: BOOLEAN, tokens: Nat,
     terse: BOOLEAN, interrupted: BOOLEAN,
     verdict: {"abstain", "easy", "hard"}, signals: 0..3]

ContextTokenThreshold == 20000
Clamp(s) == IF s < 0 THEN 0 ELSE IF s > 100 THEN 100 ELSE s

IntentScore(f) ==
    Clamp(VerbScore[f.verb]
            + (IF f.broad THEN 20 ELSE 0)
            - (IF f.narrow THEN 10 ELSE 0)
            + (IF f.tokens > ContextTokenThreshold THEN 10 ELSE 0))

HeuristicScore(f) == Clamp(IntentScore(f) + (IF f.interrupted THEN 30 ELSE 0))

T_EASY == 35
T_HARD == 70

-----------------------------------------------------------------------------
(* The episode boundary: three of four signals, one of them the session's  *)
(* own memory that its last turn ended clean.                              *)

EpisodeBoundary(clean, f) == f.signals + (IF clean THEN 1 ELSE 0) >= 3

(* The rungs a set of healthy rungs leaves for a turn of this size, and    *)
(* the cheapest of them; the largest window when nothing fits.             *)
Feasible(tokens, healthy) == {r \in Rungs : healthy[r] /\ Fits(tokens, r)}

CheapestFeasible(tokens, healthy) ==
    LET fits == Feasible(tokens, healthy)
    IN  IF fits = {} THEN "frontier"
        ELSE CHOOSE r \in fits : \A o \in fits : CostRank[r] <= CostRank[o]

Route(rung, layer) == [rung |-> rung, layer |-> layer]

(* Mutant: the hard band given the middle rung. *)
JudgeHardToCheap(f) ==
    LET s == HeuristicScore(f) IN
    IF f.interrupted THEN Route("frontier", "retry_signal")
    ELSE IF s < T_EASY THEN Route("local", "heuristic")
    ELSE IF s > T_HARD THEN Route("cheap_cloud", "heuristic")
    ELSE Route(IF f.verdict = "hard" THEN "frontier" ELSE "local", "classifier")

(* Layers 1 and 2: the clear ends by score, an interrupted turn believed   *)
(* before its score is looked at, the middle by the classifier.            *)
Judge(f) ==
    LET s == HeuristicScore(f) IN
    IF f.interrupted THEN Route("frontier", "retry_signal")
    ELSE IF s < T_EASY THEN Route("local", "heuristic")
    ELSE IF s > T_HARD THEN Route("frontier", "heuristic")
    ELSE IF f.verdict = "hard" THEN Route("frontier", "classifier")
    ELSE IF f.verdict = "easy" THEN Route("local", "classifier")
    ELSE Route("local", "middle_default")

(* Mutant: an approval followed before feasibility is looked at. *)
RouteTurnTerseFirst(f, pinned, escalated, route, healthy) ==
    IF pinned THEN Route("local", "privacy")
    ELSE IF f.terse THEN Route(route, "continuation")
    ELSE IF "local" \notin Feasible(f.tokens, healthy)
         THEN Route(CheapestFeasible(f.tokens, healthy), "feasibility")
    ELSE Judge(f)

(* One decision.  route and escalated are the session's sticky route and   *)
(* its hysteresis flag; the gates of layer 0 come first, in this order.    *)
RouteTurn(f, pinned, escalated, route, healthy) ==
    IF pinned /\ ~Fits(f.tokens, "local") THEN Route("local", "pin_context_conflict")
    ELSE IF pinned THEN Route("local", "privacy")
    ELSE IF "local" \notin Feasible(f.tokens, healthy)
         THEN Route(CheapestFeasible(f.tokens, healthy), "feasibility")
    ELSE IF escalated
         THEN Route(IF route # "local" THEN route ELSE "frontier", "hysteresis")
    ELSE IF f.terse THEN Route(route, "continuation")
    ELSE Judge(f)
=============================================================================
