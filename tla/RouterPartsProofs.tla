-------------------------- MODULE RouterPartsProofs -------------------------
(***************************************************************************)
(* Theorems of the parts of the router: the policy and the health          *)
(* registry, for every registry, failure threshold, cooldown, number of    *)
(* requests in flight and context size; the trip-wires of a turn, for      *)
(* every set of calls and outputs, every threshold and window, and every   *)
(* length of message and turn; and routing by experience, for every        *)
(* ledger, similarity, neighbourhood and order of routing and answers.     *)
(***************************************************************************)
EXTENDS MCRungPolicy, Tripwires, Retrieval, SumTheorems, TLAPS

-----------------------------------------------------------------------------
(* The circuit breaker.  An open circuit counts down what the calm lacks   *)
(* of a cooldown, and only one that has counted to the end reads as        *)
(* healthy; the failures it keeps meanwhile are the streak.                *)

CircuitKept(m) ==
    /\ state[m].failures = streak[m]
    /\ streak[m] = FailureThreshold =>
          /\ state[m].remaining = Cooldown - calm[m]
          /\ state[m].healthy => calm[m] = Cooldown

HealthInv == TypeOK /\ \A m \in Models : CircuitKept(m)

(* Every circuit starts closed, its rung never heard of.                   *)
LEMMA InitCircuits == Init => HealthInv
  BY ThresholdAssumption, CooldownAssumption, FlightAssumption
  DEF Init, HealthInv, TypeOK, CircuitKept, HealthState, Closed

(* Reading the monitor keeps what its counts say of streak and calm.       *)
LEMMA ReadKeeps ==
    ASSUME HealthInv
    PROVE  /\ Read \in [Models -> HealthState]
           /\ \A m \in Models :
                 /\ Read[m].failures = streak[m]
                 /\ streak[m] = FailureThreshold =>
                       /\ Read[m].remaining = Cooldown - calm[m]
                       /\ Read[m].healthy => calm[m] = Cooldown
<1> SUFFICES ASSUME NEW m \in Models
             PROVE  /\ Effective(state[m]) \in HealthState
                    /\ Effective(state[m]).failures = streak[m]
                    /\ streak[m] = FailureThreshold =>
                          /\ Effective(state[m]).remaining = Cooldown - calm[m]
                          /\ Effective(state[m]).healthy => calm[m] = Cooldown
  BY DEF Read
<1>1. /\ state[m] \in HealthState
      /\ calm[m] \in 0..Cooldown
      /\ CircuitKept(m)
  BY DEF HealthInv, TypeOK
<1>2. CASE ~state[m].healthy /\ state[m].remaining <= 0
  <2>1. Effective(state[m]) = [healthy |-> TRUE, failures |-> state[m].failures,
                               remaining |-> state[m].remaining]
    BY <1>1, <1>2 DEF Effective, HealthState
  <2>2. state[m].remaining = 0
    BY <1>1, <1>2 DEF HealthState
  <2>3. QED
    BY <1>1, <2>1, <2>2, CooldownAssumption DEF CircuitKept, HealthState
<1>3. CASE ~(~state[m].healthy /\ state[m].remaining <= 0)
  <2>1. Effective(state[m]) = state[m]
    BY <1>3 DEF Effective
  <2>2. QED
    BY <1>1, <2>1 DEF CircuitKept
<1>4. QED
  BY <1>2, <1>3

(* One lemma per step of the monitor and of the requests that feed it.     *)
LEMMA SnapshotKeeps == ASSUME HealthInv, Snapshot PROVE HealthInv'
  BY ReadKeeps DEF Snapshot, HealthInv, TypeOK, CircuitKept

LEMMA AdmitKeeps ==
    ASSUME HealthInv, NEW m \in Models, Admit(m)
    PROVE  HealthInv'
  BY ReadKeeps, FlightAssumption DEF Admit, HealthInv, TypeOK, CircuitKept

LEMMA BypassKeeps ==
    ASSUME HealthInv, NEW m \in Models, Bypass(m)
    PROVE  HealthInv'
  BY FlightAssumption DEF Bypass, HealthInv, TypeOK, CircuitKept

LEMMA SucceedKeeps ==
    ASSUME HealthInv, NEW m \in Models, Succeed(m)
    PROVE  HealthInv'
  BY ThresholdAssumption, CooldownAssumption, FlightAssumption
  DEF Succeed, RecordSuccess, Closed, HealthInv, TypeOK, CircuitKept, HealthState

LEMMA FailKeeps ==
    ASSUME HealthInv, NEW m \in Models, Fail(m)
    PROVE  HealthInv'
<1> DEFINE failures == Capped(streak[m] + 1, FailureThreshold)
           open == failures = FailureThreshold
           x == [healthy |-> ~open, failures |-> failures,
                 remaining |-> IF open THEN Cooldown ELSE 0]
<1>1. /\ state[m].failures = streak[m]
      /\ streak[m] \in 0..FailureThreshold
      /\ inflight[m] \in 0..MaxInFlight
  BY DEF HealthInv, TypeOK, CircuitKept
<1>2. failures \in 0..FailureThreshold
  BY <1>1, ThresholdAssumption DEF Capped
<1>3. x \in HealthState
  BY <1>2, CooldownAssumption DEF HealthState
<1>4. /\ state' = [state EXCEPT ![m] = x]
      /\ streak' = [streak EXCEPT ![m] = failures]
      /\ calm' = [calm EXCEPT ![m] = 0]
      /\ inflight' = [inflight EXCEPT ![m] = @ - 1]
      /\ inflight[m] > 0
  BY <1>1 DEF Fail, RecordFailure
<1>5. TypeOK'
  BY <1>1, <1>2, <1>3, <1>4, CooldownAssumption, FlightAssumption DEF HealthInv, TypeOK
<1>6. ASSUME NEW k \in Models PROVE CircuitKept(k)'
  <2>1. state[m] \in HealthState /\ state \in [Models -> HealthState]
        /\ streak \in [Models -> 0..FailureThreshold] /\ calm \in [Models -> 0..Cooldown]
        /\ CircuitKept(k)
    BY <1>6 DEF HealthInv, TypeOK
  <2>2. CASE k = m
    <3>1. state'[k] = x /\ streak'[k] = failures /\ calm'[k] = 0
      BY <1>4, <2>1, <2>2
    <3>2. x.failures = failures /\ (open => x.remaining = Cooldown /\ ~x.healthy)
      OBVIOUS
    <3>3. Cooldown - 0 = Cooldown
      BY CooldownAssumption
    <3> HIDE DEF failures, x
    <3>4. QED
      BY <3>1, <3>2, <3>3 DEF CircuitKept
  <2>3. CASE k # m
    <3>1. state'[k] = state[k] /\ streak'[k] = streak[k] /\ calm'[k] = calm[k]
      BY <1>4, <1>6, <2>1, <2>3
    <3>2. QED
      BY <2>1, <3>1 DEF CircuitKept
  <2>4. QED
    BY <2>2, <2>3
<1>7. QED
  BY <1>5, <1>6 DEF HealthInv

LEMMA TickKeeps == ASSUME HealthInv, Tick PROVE HealthInv'
  BY ThresholdAssumption, CooldownAssumption
  DEF Tick, Capped, HealthInv, TypeOK, CircuitKept, HealthState

(* Every state the monitor can be in is typed, and each circuit counts     *)
(* what its rung's calm lacks of a cooldown.                               *)
THEOREM HealthInvariance == Spec => []HealthInv
<1>1. Init => HealthInv
  BY InitCircuits
<1>2. HealthInv /\ [Next]_vars => HealthInv'
  <2> SUFFICES ASSUME HealthInv, [Next]_vars PROVE HealthInv'
    OBVIOUS
  <2>1. CASE Next
    BY <2>1, SnapshotKeeps, AdmitKeeps, BypassKeeps, SucceedKeeps, FailKeeps, TickKeeps
    DEF Next
  <2>2. CASE UNCHANGED vars
    BY <2>2 DEF vars, HealthInv, TypeOK, CircuitKept
  <2>3. QED
    BY <2>1, <2>2
<1>3. QED
  BY <1>1, <1>2, PTL DEF Spec

(* The monitor's fields stay in their ranges (router/health.py).           *)
THEOREM HealthTypeCorrect == Spec => []TypeOK
<1>1. HealthInv => TypeOK
  BY DEF HealthInv
<1>2. QED
  BY <1>1, HealthInvariance, PTL

(* No rung that failed FailureThreshold times in a row is offered before a *)
(* full cooldown without a failure, however late answers come and in       *)
(* whatever order (_effective_state, record_failure).                      *)
THEOREM CooldownKept == Spec => []CooldownHonoured
<1>1. HealthInv => CooldownHonoured
  BY ReadKeeps DEF CooldownHonoured
<1>2. QED
  BY <1>1, HealthInvariance, PTL

-----------------------------------------------------------------------------
(* One decision.                                                           *)

DecisionInputs(f, pinned, escalated, route, healthy) ==
    /\ f \in TurnFeatures
    /\ pinned \in BOOLEAN /\ escalated \in BOOLEAN
    /\ route \in StoreRoutes
    /\ escalated /\ ~pinned => route \notin LocalRoutes
    /\ healthy \in [Rungs -> BOOLEAN]

(* The clamped score of any turn is a percentage.                          *)
LEMMA ScoreType ==
    ASSUME NEW f \in TurnFeatures
    PROVE  HeuristicScore(f) \in 0..100
  BY DEF TurnFeatures, VerbScore, HeuristicScore, IntentScore, Clamp, ContextTokenThreshold

(* The cheapest rung is one that fits, and the frontier only takes what    *)
(* fits no healthy rung.                                                   *)
LEMMA CheapestFits ==
    ASSUME NEW tokens \in Nat, NEW healthy \in [Rungs -> BOOLEAN]
    PROVE  IF Feasible(tokens, healthy) = {}
           THEN CheapestFeasible(tokens, healthy) = "frontier"
           ELSE CheapestFeasible(tokens, healthy) \in Feasible(tokens, healthy)
<1>1. CASE Feasible(tokens, healthy) = {}
  BY <1>1 DEF CheapestFeasible
<1>2. CASE Feasible(tokens, healthy) # {}
  <2> DEFINE fits == Feasible(tokens, healthy)
  <2>1. \E r \in fits : \A o \in fits : CostRank[r] <= CostRank[o]
    <3>1. fits \subseteq Rungs /\ fits # {}
      BY <1>2 DEF Feasible
    <3>2. CASE "local" \in fits
      BY <3>1, <3>2 DEF CostRank, Rungs
    <3>3. CASE "local" \notin fits /\ "cheap_cloud" \in fits
      BY <3>1, <3>3 DEF CostRank, Rungs
    <3>4. CASE "local" \notin fits /\ "cheap_cloud" \notin fits
      BY <3>1, <3>4 DEF CostRank, Rungs
    <3>5. QED
      BY <3>2, <3>3, <3>4
  <2>2. QED
    BY <1>2, <2>1 DEF CheapestFeasible
<1>3. QED
  BY <1>1, <1>2

(* What fits the smallest window fits every window.                        *)
LEMMA CloudFitsLocal ==
    ASSUME NEW tokens \in Nat, Fits(tokens, "local"), NEW rung \in Rungs
    PROVE  Fits(tokens, rung)
  BY DEF Fits, MaxContext, Rungs

(* The bands choose one of two ends of the ladder; no pin speaks there.    *)
LEMMA JudgeRungs ==
    ASSUME NEW f \in TurnFeatures
    PROVE  /\ Judge(f).rung \in {"local", "frontier"}
           /\ Judge(f).layer # "pin_context_conflict"
  BY DEF Judge, Route

(* The rung of a decision holds the turn, unless a pinned turn outgrew the *)
(* local rung or nothing healthy holds it; the local rung is healthy or    *)
(* the session pinned.                                                     *)
LEMMA DecisionFits ==
    ASSUME NEW f, NEW pinned, NEW escalated, NEW route, NEW healthy,
           DecisionInputs(f, pinned, escalated, route, healthy)
    PROVE  LET d == RouteTurn(f, pinned, escalated, route, healthy)
           IN  /\ Lane(d.rung) \in Rungs
               /\ \/ Feasible(f.tokens, healthy) = {}
                  \/ d.layer = "pin_context_conflict"
                  \/ Fits(f.tokens, Lane(d.rung))
               /\ Lane(d.rung) = "local" => healthy["local"] \/ pinned
<1> DEFINE d == RouteTurn(f, pinned, escalated, route, healthy)
<1>0. f.tokens \in Nat
  BY DEF DecisionInputs, TurnFeatures
<1>1. CASE pinned
  BY <1>1 DEF RouteTurn, Route, Lane, LocalRoutes, Rungs
<1>2. CASE ~pinned /\ "local" \notin Feasible(f.tokens, healthy)
  <2>1. d = Route(CheapestFeasible(f.tokens, healthy), "feasibility")
    BY <1>2 DEF RouteTurn
  <2>2. CASE Feasible(f.tokens, healthy) = {}
    BY <1>0, <2>1, <2>2, CheapestFits DEF DecisionInputs, Route, Lane, LocalRoutes, Rungs
  <2>3. CASE Feasible(f.tokens, healthy) # {}
    <3>1. CheapestFeasible(f.tokens, healthy) \in Feasible(f.tokens, healthy) \ {"local"}
      BY <1>0, <1>2, <2>3, CheapestFits DEF DecisionInputs
    <3>2. Lane(d.rung) = CheapestFeasible(f.tokens, healthy)
      BY <2>1, <3>1 DEF Feasible, Route, Lane, LocalRoutes, Rungs
    <3>3. QED
      BY <3>1, <3>2 DEF Feasible
  <2>4. QED
    BY <2>2, <2>3
<1>3. CASE ~pinned /\ "local" \in Feasible(f.tokens, healthy)
  <2>1. healthy["local"] /\ Fits(f.tokens, "local")
    BY <1>3 DEF Feasible
  <2>2. Lane(d.rung) \in Rungs
    <3>1. CASE escalated
      BY <1>3, <3>1 DEF RouteTurn, Route, Lane, DecisionInputs, StoreRoutes, LocalRoutes, Rungs
    <3>2. CASE ~escalated /\ f.terse
      BY <1>3, <3>2 DEF RouteTurn, Route, Lane, DecisionInputs, StoreRoutes, LocalRoutes, Rungs
    <3>3. CASE ~escalated /\ ~f.terse
      <4>1. d = Judge(f)
        BY <1>3, <3>3 DEF RouteTurn
      <4>2. QED
        BY <4>1, JudgeRungs DEF DecisionInputs, Lane, LocalRoutes, Rungs
    <3>4. QED
      BY <3>1, <3>2, <3>3
  <2>3. QED
    BY <1>0, <2>1, <2>2, CloudFitsLocal
<1>4. QED
  BY <1>1, <1>2, <1>3

(* Turns that differ in their sentence only.                               *)
SameCircumstances(f, g) ==
    /\ f.tokens = g.tokens /\ f.terse = g.terse
    /\ f.interrupted = g.interrupted /\ f.verdict = g.verdict

(* A higher score never meets a cheaper band.                              *)
LEMMA JudgeOrdered ==
    ASSUME NEW f \in TurnFeatures, NEW g \in TurnFeatures, SameCircumstances(f, g),
           HeuristicScore(f) <= HeuristicScore(g)
    PROVE  CostRank[Judge(f).rung] <= CostRank[Judge(g).rung]
<1>1. HeuristicScore(f) \in Int /\ HeuristicScore(g) \in Int
  BY ScoreType
<1>2. CostRank["local"] = 0 /\ CostRank["frontier"] = 2
  BY DEF CostRank, Rungs
<1>3. QED
  BY <1>1, <1>2 DEF Judge, Route, SameCircumstances, T_EASY, T_HARD

(* The gates look at nothing a sentence says, and the bands and the        *)
(* classifier agree on the direction.                                      *)
LEMMA DecisionOrdered ==
    ASSUME NEW f, NEW g, NEW pinned, NEW escalated, NEW route, NEW healthy,
           DecisionInputs(f, pinned, escalated, route, healthy),
           DecisionInputs(g, pinned, escalated, route, healthy),
           SameCircumstances(f, g), HeuristicScore(f) <= HeuristicScore(g)
    PROVE  CostRank[Lane(RouteTurn(f, pinned, escalated, route, healthy).rung)]
             <= CostRank[Lane(RouteTurn(g, pinned, escalated, route, healthy).rung)]
<1> DEFINE d == RouteTurn(f, pinned, escalated, route, healthy)
           e == RouteTurn(g, pinned, escalated, route, healthy)
<1>1. CASE \/ pinned \/ "local" \notin Feasible(f.tokens, healthy)
           \/ escalated \/ f.terse
  <2>1. d = e
    BY <1>1 DEF RouteTurn, SameCircumstances
  <2>2. Lane(d.rung) \in Rungs
    BY DecisionFits
  <2>3. CostRank[Lane(d.rung)] \in Int
    BY <2>2 DEF CostRank, Rungs
  <2>4. QED
    BY <2>1, <2>3
<1>2. CASE ~(\/ pinned \/ "local" \notin Feasible(f.tokens, healthy)
             \/ escalated \/ f.terse)
  <2>1. d = Judge(f) /\ e = Judge(g)
    BY <1>2 DEF RouteTurn, SameCircumstances
  <2>2. f \in TurnFeatures /\ g \in TurnFeatures
    BY DEF DecisionInputs
  <2>3. Lane(Judge(f).rung) = Judge(f).rung /\ Lane(Judge(g).rung) = Judge(g).rung
    BY <2>2, JudgeRungs DEF Lane, LocalRoutes
  <2>4. QED
    BY <2>1, <2>2, <2>3, JudgeOrdered
<1>3. QED
  BY <1>1, <1>2

-----------------------------------------------------------------------------
(* Every decision on every registry.                                       *)

(* What the runs enumerate are inputs the theorems on RouteTurn are about. *)
LEMMA SaidInputs ==
    ASSUME NEW c \in Circumstances, NEW s \in SessionInputs,
           NEW sentence \in Sentences, NEW healthy \in [Rungs -> BOOLEAN]
    PROVE  DecisionInputs(Said(sentence, c), s.pinned, s.escalated, s.route, healthy)
<1>1. Said(sentence, c) \in TurnFeatures
  <2>1. c.tokens \in Tokens /\ c.signals = 0
    BY DEF Circumstances
  <2>2. c.tokens \in Nat
    BY <2>1, TokensAssumption
  <2>3. QED
    BY <2>1, <2>2 DEF Said, TurnFeatures, Circumstances, Sentences
<1>2. QED
  BY <1>1 DEF DecisionInputs, SessionInputs

(* WindowFits and HarderNeverCheaper, on any registry of health.           *)
LEMMA EveryDecisionFits ==
    ASSUME NEW healthy \in [Rungs -> BOOLEAN]
    PROVE  FitsUnder(healthy)
<1> SUFFICES ASSUME NEW c \in Circumstances, NEW s \in SessionInputs,
                    NEW o \in Outcomes(c, s, healthy)
             PROVE  /\ \/ Feasible(c.tokens, healthy) = {}
                       \/ o[2] = "pin_context_conflict"
                       \/ Fits(c.tokens, o[3])
                    /\ o[3] = "local" => healthy["local"] \/ s.pinned
  BY DEF FitsUnder
<1>1. PICK sentence \in Sentences :
        o = <<HeuristicScore(Said(sentence, c)),
              Decision(Said(sentence, c), s, healthy).layer,
              Lane(Decision(Said(sentence, c), s, healthy).rung)>>
  BY DEF Outcomes
<1>2. Said(sentence, c).tokens = c.tokens
  BY DEF Said
<1>3. QED
  BY <1>1, <1>2, SaidInputs, DecisionFits DEF Decision

LEMMA EveryDecisionOrdered ==
    ASSUME NEW healthy \in [Rungs -> BOOLEAN]
    PROVE  OrderedUnder(healthy)
<1> SUFFICES ASSUME NEW c \in Circumstances, NEW s \in SessionInputs,
                    NEW easier \in Outcomes(c, s, healthy),
                    NEW harder \in Outcomes(c, s, healthy),
                    easier[1] <= harder[1]
             PROVE  CostRank[easier[3]] <= CostRank[harder[3]]
  BY DEF OrderedUnder
<1>1. PICK x \in Sentences :
        easier = <<HeuristicScore(Said(x, c)),
                   Decision(Said(x, c), s, healthy).layer,
                   Lane(Decision(Said(x, c), s, healthy).rung)>>
  BY DEF Outcomes
<1>2. PICK y \in Sentences :
        harder = <<HeuristicScore(Said(y, c)),
                   Decision(Said(y, c), s, healthy).layer,
                   Lane(Decision(Said(y, c), s, healthy).rung)>>
  BY DEF Outcomes
<1>3. SameCircumstances(Said(x, c), Said(y, c))
  BY DEF Said, SameCircumstances
<1>4. HeuristicScore(Said(x, c)) <= HeuristicScore(Said(y, c))
  BY <1>1, <1>2
<1>5. QED
  BY <1>1, <1>2, <1>3, <1>4, SaidInputs, DecisionOrdered DEF Decision

(* The registry a turn is decided on has a reading of every rung.          *)
LEMMA RegistryType == ASSUME HealthInv PROVE Registry \in [Rungs -> BOOLEAN]
  BY RungsAssumption, ReadKeeps DEF Registry, HealthState

(* Whatever late and reordered answers leave in the monitor, a turn of any *)
(* size is given a rung whose window holds it, but for the two ways out    *)
(* the code names (route_turn, the gates of layer 0).                      *)
THEOREM WindowsFit == Spec => []WindowFits
<1>1. HealthInv => WindowFits
  <2> SUFFICES ASSUME HealthInv PROVE WindowFits
    OBVIOUS
  <2>1. Registry \in [Rungs -> BOOLEAN]
    BY RegistryType
  <2>2. FitsUnder(Registry) = TRUE
    BY <2>1, EveryDecisionFits
  <2>3. OrderedUnder(Registry) \in BOOLEAN
    BY DEF OrderedUnder
  <2>4. <<Registry, FitsUnder(Registry), OrderedUnder(Registry)>> \in Answers
    BY <2>1 DEF Answers
  <2>5. QED
    BY <2>2, <2>3, <2>4 DEF WindowFits
<1>2. QED
  BY <1>1, HealthInvariance, PTL

(* And a harder sentence never gets a cheaper rung (the bands T_EASY and   *)
(* T_HARD, the classifier and the retry rule of route_turn).               *)
THEOREM DifficultyOrdersCost == Spec => []HarderNeverCheaper
<1>1. HealthInv => HarderNeverCheaper
  <2> SUFFICES ASSUME HealthInv PROVE HarderNeverCheaper
    OBVIOUS
  <2>1. Registry \in [Rungs -> BOOLEAN]
    BY RegistryType
  <2>2. OrderedUnder(Registry) = TRUE
    BY <2>1, EveryDecisionOrdered
  <2>3. FitsUnder(Registry) \in BOOLEAN
    BY DEF FitsUnder
  <2>4. <<Registry, FitsUnder(Registry), OrderedUnder(Registry)>> \in Answers
    BY <2>1 DEF Answers
  <2>5. QED
    BY <2>2, <2>3, <2>4 DEF HarderNeverCheaper
<1>2. QED
  BY <1>1, HealthInvariance, PTL

-----------------------------------------------------------------------------
(* The wires.  A message is folded over its blocks; every block is then a  *)
(* step of its own.                                                        *)

(* A non-empty set of numbers up to n has a greatest.                      *)
LEMMA GreatestExists ==
    ASSUME NEW n \in Nat, NEW A \in SUBSET (1..n), A # {}
    PROVE  \E x \in A : \A y \in A : x >= y
<1> DEFINE T == {m \in Nat : \A B \in SUBSET (1..m) :
                   B # {} => \E x \in B : \A y \in B : x >= y}
<1>1. 0 \in T
  <2>1. 1..0 = {}
    OBVIOUS
  <2>2. QED
    BY <2>1
<1>2. ASSUME NEW m \in T PROVE m + 1 \in T
  <2> SUFFICES ASSUME NEW B \in SUBSET (1..m + 1), B # {}
               PROVE  \E x \in B : \A y \in B : x >= y
    OBVIOUS
  <2>1. CASE m + 1 \in B
    BY <2>1
  <2>2. CASE m + 1 \notin B
    <3>1. B \in SUBSET (1..m)
      BY <2>2
    <3>2. QED
      BY <3>1
  <2>3. QED
    BY <2>1, <2>2
<1>3. T = Nat
  BY <1>1, <1>2, SetInduction
<1>4. QED
  BY <1>3

(* The operator of the community modules finds it.                         *)
LEMMA GreatestIn ==
    ASSUME NEW n \in Nat, NEW A \in SUBSET (1..n), A # {}
    PROVE  Max(A) \in A /\ \A y \in A : Max(A) >= y
<1>1. \E x \in A : \A y \in A : x >= y
  BY GreatestExists
<1>2. QED
  BY <1>1 DEF Max

(* What the fold computes of a set of places of a message.                 *)
FoldBody(w, blocks, g, A) ==
    IF A = {} THEN w ELSE ObserveBlock(g[A \ {Max(A)}], blocks[Max(A)])

(* The function over the places of a message that the fold builds exists,  *)
(* by induction on their number.                                           *)
LEMMA FoldExists ==
    ASSUME NEW w, NEW blocks, NEW n \in Nat
    PROVE  \E g : g = [A \in SUBSET (1..n) |-> FoldBody(w, blocks, g, A)]
<1> DEFINE T == {m \in Nat :
                   \E g : g = [A \in SUBSET (1..m) |-> FoldBody(w, blocks, g, A)]}
<1>1. 0 \in T
  <2> DEFINE g == [A \in SUBSET (1..0) |-> w]
  <2>1. \A A \in SUBSET (1..0) : A = {}
    OBVIOUS
  <2>2. g = [A \in SUBSET (1..0) |-> FoldBody(w, blocks, g, A)]
    BY <2>1 DEF FoldBody
  <2>3. QED
    BY <2>2
<1>2. ASSUME NEW m \in T PROVE m + 1 \in T
  <2>1. PICK g : g = [A \in SUBSET (1..m) |-> FoldBody(w, blocks, g, A)]
    OBVIOUS
  <2> DEFINE h == [A \in SUBSET (1..m + 1) |-> FoldBody(w, blocks, g, A)]
  <2> DEFINE k == [A \in SUBSET (1..m + 1) |-> FoldBody(w, blocks, h, A)]
  <2>2. ASSUME NEW A \in SUBSET (1..m + 1), A # {}
        PROVE  A \ {Max(A)} \in SUBSET (1..m)
    <3>1. m + 1 \in Nat /\ m \in Nat
      OBVIOUS
    <3>2. Max(A) \in A /\ \A y \in A : Max(A) >= y
      BY <2>2, <3>1, GreatestIn
    <3> DEFINE x == Max(A)
    <3> HIDE DEF x
    <3>3. x \in A /\ \A y \in A : x >= y
      BY <3>2 DEF x
    <3>4. A \ {x} \in SUBSET (1..m)
      <4> SUFFICES ASSUME NEW y \in A, y # x PROVE y \in 1..m
        OBVIOUS
      <4>1. y \in 1..m + 1 /\ x \in 1..m + 1 /\ y <= x
        BY <3>3
      <4>2. QED
        BY <3>1, <4>1
    <3>5. QED
      BY <3>4 DEF x
  <2>3. ASSUME NEW A \in SUBSET (1..m) PROVE h[A] = g[A]
    BY <2>1
  <2>4. ASSUME NEW A \in SUBSET (1..m + 1)
        PROVE  FoldBody(w, blocks, h, A) = FoldBody(w, blocks, g, A)
    <3>1. CASE A = {}
      BY <3>1 DEF FoldBody
    <3>2. CASE A # {}
      <4>1. h[A \ {Max(A)}] = g[A \ {Max(A)}]
        BY <2>2, <2>3, <3>2
      <4>2. QED
        BY <3>2, <4>1 DEF FoldBody
    <3>3. QED
      BY <3>1, <3>2
  <2>5. h = [A \in SUBSET (1..m + 1) |-> FoldBody(w, blocks, h, A)]
    BY <2>4
  <2> HIDE DEF h
  <2>6. QED
    BY <2>5
<1>3. T = Nat
  BY <1>1, <1>2, SetInduction
<1>4. QED
  BY <1>3

Message(blocks, n) == DOMAIN blocks = 1..n

IsFold(g, w, blocks, n) ==
    \A A \in SUBSET (1..n) : g[A] = FoldBody(w, blocks, g, A)

(* Observing a message is the value of that function at all its places.    *)
LEMMA FoldUnfolds ==
    ASSUME NEW w, NEW n \in Nat, NEW blocks, Message(blocks, n)
    PROVE  \E g : /\ IsFold(g, w, blocks, n)
                  /\ ObserveAll(w, blocks) = g[1..n]
<1> DEFINE Greatest(A) == CHOOSE x \in A : \A y \in A : x >= y
           g == CHOOSE g : g = [A \in SUBSET (1..n) |->
                   IF A = {} THEN w
                   ELSE ObserveBlock(g[A \ {Greatest(A)}], blocks[Greatest(A)])]
<1>1. \E k : k = [A \in SUBSET (1..n) |->
                   IF A = {} THEN w
                   ELSE ObserveBlock(k[A \ {Greatest(A)}], blocks[Greatest(A)])]
  <2>1. PICK k : k = [A \in SUBSET (1..n) |-> FoldBody(w, blocks, k, A)]
    BY FoldExists
  <2>2. k = [A \in SUBSET (1..n) |->
                   IF A = {} THEN w
                   ELSE ObserveBlock(k[A \ {Greatest(A)}], blocks[Greatest(A)])]
    BY <2>1 DEF FoldBody, Max
  <2>3. QED
    BY <2>2
<1>2. g = [A \in SUBSET (1..n) |->
                   IF A = {} THEN w
                   ELSE ObserveBlock(g[A \ {Greatest(A)}], blocks[Greatest(A)])]
  BY <1>1
<1>3. g = [A \in SUBSET (1..n) |-> FoldBody(w, blocks, g, A)]
  BY <1>2 DEF FoldBody, Max
<1>4. ObserveAll(w, blocks) = g[1..n]
  BY DEF Message, ObserveAll, FoldLeft, MapThenFoldSet, Max
<1> HIDE DEF g
<1>5. IsFold(g, w, blocks, n)
  BY <1>3 DEF IsFold
<1>6. QED
  BY <1>4, <1>5

(* The blocks of a message are observed one after the other.               *)
Observing(v, w, blocks, n) ==
    /\ v[0] = w
    /\ \A k \in 0 .. n - 1 : v[k + 1] = ObserveBlock(v[k], blocks[k + 1])
    /\ ObserveAll(w, blocks) = v[n]

(* They are the values the blocks lead through.                            *)
LEMMA MessageSteps ==
    ASSUME NEW w, NEW n \in Nat, NEW blocks, Message(blocks, n)
    PROVE  \E v : Observing(v, w, blocks, n)
<1>1. PICK g : /\ IsFold(g, w, blocks, n)
               /\ ObserveAll(w, blocks) = g[1..n]
  BY FoldUnfolds
<1> DEFINE v == [k \in 0..n |-> g[1..k]]
<1>2. v[0] = w
  <2>1. 1..0 = {} /\ {} \in SUBSET (1..n)
    OBVIOUS
  <2>2. g[{}] = w
    BY <1>1, <2>1 DEF FoldBody, IsFold
  <2>3. QED
    BY <2>1, <2>2
<1>3. ASSUME NEW k \in 0 .. n - 1 PROVE v[k + 1] = ObserveBlock(v[k], blocks[k + 1])
  <2> DEFINE A == 1 .. k + 1
  <2>1. A \in SUBSET (1..n) /\ k + 1 \in A /\ k \in Nat
    OBVIOUS
  <2>2. Max(A) = k + 1
    <3>1. Max(A) \in A /\ \A y \in A : Max(A) >= y
      BY <2>1, GreatestIn
    <3> DEFINE x == Max(A)
    <3> HIDE DEF x
    <3>2. x \in A /\ \A y \in A : x >= y
      BY <3>1 DEF x
    <3>3. x = k + 1
      BY <2>1, <3>2
    <3>4. QED
      BY <3>3 DEF x
  <2>3. A \ {k + 1} = 1..k
    BY <2>1
  <2>4. g[A] = ObserveBlock(g[A \ {Max(A)}], blocks[Max(A)])
    <3>1. A # {}
      BY <2>1
    <3> HIDE DEF A
    <3>2. g[A] = FoldBody(w, blocks, g, A)
      BY <1>1, <2>1 DEF IsFold
    <3>3. QED
      BY <3>1, <3>2 DEF FoldBody
  <2>5. v[k + 1] = g[A] /\ v[k] = g[1..k]
    OBVIOUS
  <2> HIDE DEF v, A
  <2>6. QED
    BY <2>2, <2>3, <2>4, <2>5
<1>4. v[n] = g[1..n]
  OBVIOUS
<1> HIDE DEF v
<1>5. QED
  BY <1>1, <1>2, <1>3, <1>4 DEF Observing

-----------------------------------------------------------------------------
(* What a block does to the fields of the wires.                           *)

Latched(hit, name, fires) == IF fires /\ hit = "none" THEN name ELSE hit

(* A trip touches the hit alone.                                           *)
LEMMA TripTrips ==
    ASSUME NEW w \in WiresState, NEW name \in Hits, NEW fires \in BOOLEAN
    PROVE  /\ Trip(w, name, fires) \in WiresState
           /\ Trip(w, name, fires) = [w EXCEPT !.hit = Latched(w.hit, name, fires)]
<1>1. [w EXCEPT !.hit = w.hit] = w
  BY DEF WiresState
<1>2. QED
  BY <1>1 DEF Trip, Latched, WiresState

(* A parse strike counts, and may trip.                                    *)
LEMMA ParseStrikes ==
    ASSUME NEW w \in WiresState
    PROVE  /\ ParseStrike(w) \in WiresState
           /\ ParseStrike(w) =
                 [w EXCEPT !.parse = @ + 1,
                           !.hit = Latched(@, "parse_schema", w.parse + 1 >= StrikeLimit)]
<1> DEFINE v == [w EXCEPT !.parse = @ + 1]
<1>1. v \in WiresState /\ v.parse = w.parse + 1 /\ v.hit = w.hit
  <2>1. w.parse + 1 \in Nat
    BY DEF WiresState
  <2>2. QED
    BY <2>1 DEF WiresState
<1>2. "parse_schema" \in Hits
  BY DEF Hits
<1>3. ParseStrike(w) = Trip(v, "parse_schema", v.parse >= StrikeLimit)
  BY DEF ParseStrike
<1>4. [v EXCEPT !.hit = Latched(w.hit, "parse_schema", w.parse + 1 >= StrikeLimit)] =
          [w EXCEPT !.parse = @ + 1,
                    !.hit = Latched(@, "parse_schema", w.parse + 1 >= StrikeLimit)]
  BY DEF WiresState
<1>5. (v.parse >= StrikeLimit) \in BOOLEAN
  OBVIOUS
<1> HIDE DEF v
<1>6. /\ Trip(v, "parse_schema", v.parse >= StrikeLimit) \in WiresState
      /\ Trip(v, "parse_schema", v.parse >= StrikeLimit)
            = [v EXCEPT !.hit = Latched(v.hit, "parse_schema", v.parse >= StrikeLimit)]
  BY <1>1, <1>2, <1>5, TripTrips
<1>7. QED
  BY <1>1, <1>3, <1>4, <1>6

(* So does an edit strike.                                                 *)
LEMMA EditStrikes ==
    ASSUME NEW w \in WiresState
    PROVE  /\ EditStrike(w) \in WiresState
           /\ EditStrike(w) =
                 [w EXCEPT !.edit = @ + 1,
                           !.hit = Latched(@, "edit_apply", w.edit + 1 >= StrikeLimit)]
<1> DEFINE v == [w EXCEPT !.edit = @ + 1]
<1>1. v \in WiresState /\ v.edit = w.edit + 1 /\ v.hit = w.hit
  <2>1. w.edit + 1 \in Nat
    BY DEF WiresState
  <2>2. QED
    BY <2>1 DEF WiresState
<1>2. "edit_apply" \in Hits
  BY DEF Hits
<1>3. EditStrike(w) = Trip(v, "edit_apply", v.edit >= StrikeLimit)
  BY DEF EditStrike
<1>4. [v EXCEPT !.hit = Latched(w.hit, "edit_apply", w.edit + 1 >= StrikeLimit)] =
          [w EXCEPT !.edit = @ + 1,
                    !.hit = Latched(@, "edit_apply", w.edit + 1 >= StrikeLimit)]
  BY DEF WiresState
<1>5. (v.edit >= StrikeLimit) \in BOOLEAN
  OBVIOUS
<1> HIDE DEF v
<1>6. /\ Trip(v, "edit_apply", v.edit >= StrikeLimit) \in WiresState
      /\ Trip(v, "edit_apply", v.edit >= StrikeLimit)
            = [v EXCEPT !.hit = Latched(v.hit, "edit_apply", v.edit >= StrikeLimit)]
  BY <1>1, <1>2, <1>5, TripTrips
<1>7. QED
  BY <1>1, <1>3, <1>4, <1>6

(* The places of the last calls that are the same call.                    *)
Repeats(calls, c) ==
    LET last == SubSeq(calls, IF Len(calls) > LoopWindow
                              THEN Len(calls) - LoopWindow + 1 ELSE 1, Len(calls))
    IN  {i \in DOMAIN last : last[i] = Canonical(c)}

CallMoves(w, id, c, x) ==
    /\ x \in WiresState
    /\ x.parse = w.parse /\ x.edit = w.edit /\ x.errors = w.errors
    /\ x.paths = w.paths /\ x.outputs = w.outputs /\ x.stuck = w.stuck
    /\ x.calls = Append(w.calls, Canonical(c))
    /\ x.pending = w.pending \cup {<<id, c>>}
    /\ x.hit = Latched(w.hit, "loop", Cardinality(Repeats(x.calls, c)) >= LoopRepeats)

(* A call observed joins the history and the pending ones.                 *)
LEMMA CallObserved ==
    ASSUME NEW w \in WiresState, NEW c \in Calls, NEW id \in Nat
    PROVE  CallMoves(w, id, c, ObserveCall(w, id, c))
<1> DEFINE calls == Append(w.calls, Canonical(c))
           v == [w EXCEPT !.calls = calls]
           fires == Cardinality(Repeats(calls, c)) >= LoopRepeats
           x == [v EXCEPT !.hit = Latched(w.hit, "loop", fires)]
<1>1. v \in WiresState /\ v.calls = calls /\ v.hit = w.hit
  <2>1. calls \in Seq(Spellings)
    <3>1. w.calls \in Seq(Spellings) /\ Canonical(c) \in Spellings
      BY DEF WiresState, Spellings
    <3>2. QED
      BY <3>1
  <2> HIDE DEF calls
  <2>2. QED
    BY <2>1 DEF WiresState
<1>2. "loop" \in Hits
  BY DEF Hits
<1>3. {i \in DOMAIN LastCalls(v) : LastCalls(v)[i] = Canonical(c)} = Repeats(calls, c)
  BY <1>1 DEF LastCalls, Repeats
<1>4. ObserveCall(w, id, c) =
        [Trip(v, "loop", fires) EXCEPT !.pending = @ \cup {<<id, c>>}]
  BY <1>3 DEF ObserveCall
<1>5. Trip(v, "loop", fires) = x /\ x \in WiresState
  <2>1. fires \in BOOLEAN
    OBVIOUS
  <2> HIDE DEF v, fires
  <2>2. QED
    BY <1>1, <1>2, <2>1, TripTrips
<1>6. ObserveCall(w, id, c) = [x EXCEPT !.pending = @ \cup {<<id, c>>}]
  BY <1>4, <1>5
<1>7. [x EXCEPT !.pending = @ \cup {<<id, c>>}] =
        [w EXCEPT !.calls = calls, !.hit = Latched(@, "loop", fires),
                  !.pending = @ \cup {<<id, c>>}]
  <2> HIDE DEF calls, fires
  <2>1. QED
    BY DEF WiresState
<1>8. [x EXCEPT !.pending = @ \cup {<<id, c>>}] \in WiresState
  <2>1. x.pending \cup {<<id, c>>} \in SUBSET (Nat \X Calls)
    BY <1>5 DEF WiresState
  <2> HIDE DEF x
  <2>2. QED
    BY <1>5, <2>1 DEF WiresState
<1> HIDE DEF v, x, fires
<1>9. QED
  <2> DEFINE y == ObserveCall(w, id, c)
  <2>1. y \in WiresState
    BY <1>6, <1>8
  <2>2. y = [w EXCEPT !.calls = calls, !.hit = Latched(@, "loop", fires),
                      !.pending = @ \cup {<<id, c>>}]
    BY <1>6, <1>7
  <2> HIDE DEF y, calls
  <2>3. /\ y.parse = w.parse /\ y.edit = w.edit /\ y.errors = w.errors
        /\ y.paths = w.paths /\ y.outputs = w.outputs /\ y.stuck = w.stuck
        /\ y.calls = calls /\ y.pending = w.pending \cup {<<id, c>>}
        /\ y.hit = Latched(w.hit, "loop", fires)
    BY <2>2 DEF WiresState
  <2>4. CallMoves(w, id, c, y)
    BY <2>1, <2>3 DEF CallMoves, calls, fires
  <2>5. QED
    BY <2>4 DEF y

Used(w, b) == {u \in w.pending : u[1] = b.id}
ReadBy(use) == {u[2].path : u \in {u \in use : u[2].tool = "read"}}
Progress(w, use, b) == ~b.error /\ (NewFile(w, use) \/ Edited(use) \/ NewOutput(w, b))

(* A result has an id and, unless an error, an output.                     *)
LEMMA ResultTyped ==
    ASSUME NEW b \in Blocks, IsResult(b)
    PROVE  b.id \in Nat /\ b.error \in BOOLEAN /\ (~b.error => b.out \in Outputs)
  BY DEF Blocks, IsResult, Interrupt

(* What scoring a result does to every field.                              *)
LEMMA ProgressScored ==
    ASSUME NEW w \in WiresState, NEW use \in SUBSET (Nat \X Calls),
           NEW b \in Blocks, IsResult(b)
    PROVE  LET x == ScoreProgress(w, use, b)
               goes == Progress(w, use, b)
           IN  /\ x \in WiresState
               /\ x.parse = w.parse /\ x.edit = w.edit /\ x.errors = w.errors
               /\ x.calls = w.calls /\ x.pending = w.pending
               /\ x.paths = IF b.error THEN w.paths ELSE w.paths \cup ReadBy(use)
               /\ x.outputs = IF b.error THEN w.outputs ELSE w.outputs \cup {b.out}
               /\ x.stuck = IF goes THEN 0 ELSE w.stuck + 1
               /\ x.hit = IF goes THEN w.hit
                          ELSE Latched(w.hit, "no_progress", w.stuck + 1 >= NoProgressLimit)
<1> DEFINE paths == IF b.error THEN w.paths ELSE w.paths \cup ReadBy(use)
           outputs == IF b.error THEN w.outputs ELSE w.outputs \cup {b.out}
           seen == [w EXCEPT !.paths = paths, !.outputs = outputs]
           v == [seen EXCEPT !.stuck = @ + 1]
           x == ScoreProgress(w, use, b)
<1>1. paths \in SUBSET Paths /\ outputs \in SUBSET Outputs
  <2>1. w.paths \in SUBSET Paths /\ w.outputs \in SUBSET Outputs
        /\ w.pending \in SUBSET (Nat \X Calls)
    BY DEF WiresState
  <2>2. ReadBy(use) \in SUBSET Paths
    <3>1. \A u \in use : u[2] \in Calls
      BY <2>1
    <3>2. QED
      BY <3>1 DEF ReadBy, Paths
  <2>3. QED
    BY <2>1, <2>2, ResultTyped
<1>2. seen = IF b.error THEN w
             ELSE [w EXCEPT !.paths = @ \cup ReadBy(use), !.outputs = @ \cup {b.out}]
  BY DEF WiresState
<1>3. x = IF Progress(w, use, b) THEN [seen EXCEPT !.stuck = 0]
          ELSE Trip(v, "no_progress", v.stuck >= NoProgressLimit)
  <2>1. x = IF Progress(w, use, b)
            THEN [IF b.error THEN w
                  ELSE [w EXCEPT !.paths = @ \cup ReadBy(use), !.outputs = @ \cup {b.out}]
                    EXCEPT !.stuck = 0]
            ELSE LET y == [IF b.error THEN w
                           ELSE [w EXCEPT !.paths = @ \cup ReadBy(use),
                                          !.outputs = @ \cup {b.out}]
                             EXCEPT !.stuck = @ + 1]
                 IN  Trip(y, "no_progress", y.stuck >= NoProgressLimit)
    BY DEF ScoreProgress, Progress, ReadBy
  <2> HIDE DEF x, seen
  <2>2. QED
    BY <1>2, <2>1
<1> HIDE DEF paths, outputs
<1>4. /\ seen \in WiresState /\ seen.paths = paths /\ seen.outputs = outputs
      /\ seen.hit = w.hit /\ seen.parse = w.parse /\ seen.edit = w.edit
      /\ seen.errors = w.errors /\ seen.calls = w.calls /\ seen.pending = w.pending
      /\ seen.stuck = w.stuck
  BY <1>1 DEF WiresState
<1> HIDE DEF seen
<1>5. CASE Progress(w, use, b)
  <2>1. x = [seen EXCEPT !.stuck = 0]
    BY <1>3, <1>5
  <2> HIDE DEF x
  <2>2. /\ x \in WiresState /\ x.paths = paths /\ x.outputs = outputs
        /\ x.hit = w.hit /\ x.parse = w.parse /\ x.edit = w.edit
        /\ x.errors = w.errors /\ x.calls = w.calls /\ x.pending = w.pending
        /\ x.stuck = 0
    BY <1>4, <2>1 DEF WiresState
  <2>3. QED
    BY <1>5, <2>2 DEF x, paths, outputs
<1>6. CASE ~Progress(w, use, b)
  <2>1. /\ v \in WiresState /\ v.paths = paths /\ v.outputs = outputs
        /\ v.hit = w.hit /\ v.parse = w.parse /\ v.edit = w.edit
        /\ v.errors = w.errors /\ v.calls = w.calls /\ v.pending = w.pending
        /\ v.stuck = w.stuck + 1
    <3>1. w.stuck + 1 \in Nat
      BY DEF WiresState
    <3>2. QED
      BY <1>4, <3>1 DEF WiresState
  <2> DEFINE fires == v.stuck >= NoProgressLimit
  <2>2. x = Trip(v, "no_progress", fires)
    BY <1>3, <1>6
  <2>3. "no_progress" \in Hits /\ fires \in BOOLEAN
    BY DEF Hits
  <2> HIDE DEF v, x, fires
  <2>4. x \in WiresState /\ x = [v EXCEPT !.hit = Latched(v.hit, "no_progress", fires)]
    BY <2>1, <2>2, <2>3, TripTrips
  <2>5. /\ x.paths = paths /\ x.outputs = outputs
        /\ x.hit = Latched(v.hit, "no_progress", fires) /\ x.parse = v.parse
        /\ x.edit = v.edit /\ x.errors = v.errors /\ x.calls = v.calls
        /\ x.pending = v.pending /\ x.stuck = v.stuck
    BY <2>1, <2>4 DEF WiresState
  <2>6. fires = (w.stuck + 1 >= NoProgressLimit)
    BY <2>1 DEF fires
  <2>7. QED
    BY <1>6, <2>1, <2>4, <2>5, <2>6 DEF x, paths, outputs
<1>7. QED
  BY <1>5, <1>6

Strikes(b, marker) == b.error /\ b.marker = marker
AfterStrike(w, b) ==
    IF Strikes(b, "edit") THEN Latched(w.hit, "edit_apply", w.edit + 1 >= StrikeLimit)
    ELSE IF Strikes(b, "schema")
      THEN Latched(w.hit, "parse_schema", w.parse + 1 >= StrikeLimit)
    ELSE w.hit

ResultMoves(w, b, x) ==
    /\ x \in WiresState
    /\ x.parse = IF Strikes(b, "schema") THEN w.parse + 1 ELSE w.parse
    /\ x.edit = IF Strikes(b, "edit") THEN w.edit + 1 ELSE w.edit
    /\ x.errors = IF b.error THEN w.errors + 1 ELSE w.errors
    /\ x.calls = w.calls /\ x.pending = w.pending \ Used(w, b)
    /\ x.paths = IF b.error THEN w.paths ELSE w.paths \cup ReadBy(Used(w, b))
    /\ x.outputs = IF b.error THEN w.outputs ELSE w.outputs \cup {b.out}
    /\ x.stuck = IF Progress(w, Used(w, b), b) THEN 0 ELSE w.stuck + 1
    /\ x.hit = IF Progress(w, Used(w, b), b) THEN AfterStrike(w, b)
               ELSE Latched(AfterStrike(w, b), "no_progress",
                            w.stuck + 1 >= NoProgressLimit)

(* What a result does to every field.                                      *)
LEMMA ResultObserved ==
    ASSUME NEW w \in WiresState, NEW b \in Blocks, IsResult(b)
    PROVE  ResultMoves(w, b, ObserveResult(w, b))
<1> DEFINE use == Used(w, b)
           left == w.pending \ use
           errors == IF b.error THEN w.errors + 1 ELSE w.errors
           v == [w EXCEPT !.pending = left, !.errors = errors]
           y == CASE b.error /\ b.marker = "edit"   -> EditStrike(v)
                  [] b.error /\ b.marker = "schema" -> ParseStrike(v)
                  [] OTHER                          -> v
           x == ObserveResult(w, b)
<1>1. left \in SUBSET (Nat \X Calls) /\ errors \in Nat
  BY ResultTyped DEF WiresState
<1>2. v = [w EXCEPT !.pending = @ \ use, !.errors = IF b.error THEN @ + 1 ELSE @]
  BY DEF WiresState
<1> HIDE DEF left, errors
<1>3. /\ v \in WiresState /\ v.pending = left /\ v.errors = errors
      /\ v.hit = w.hit /\ v.parse = w.parse /\ v.edit = w.edit /\ v.calls = w.calls
      /\ v.paths = w.paths /\ v.outputs = w.outputs /\ v.stuck = w.stuck
  BY <1>1 DEF WiresState
<1>4. x = ScoreProgress(y, use, b)
  <2>1. x = LET z == [w EXCEPT !.pending = @ \ use,
                              !.errors = IF b.error THEN @ + 1 ELSE @]
            IN  ScoreProgress(CASE b.error /\ b.marker = "edit"   -> EditStrike(z)
                                [] b.error /\ b.marker = "schema" -> ParseStrike(z)
                                [] OTHER                          -> z, use, b)
    BY DEF ObserveResult, Used
  <2> HIDE DEF v, x
  <2>2. QED
    BY <1>2, <2>1
<1> HIDE DEF v, x
<1>5. /\ y \in WiresState
      /\ y.parse = IF Strikes(b, "schema") THEN w.parse + 1 ELSE w.parse
      /\ y.edit = IF Strikes(b, "edit") THEN w.edit + 1 ELSE w.edit
      /\ y.errors = errors /\ y.calls = w.calls /\ y.pending = left
      /\ y.paths = w.paths /\ y.outputs = w.outputs /\ y.stuck = w.stuck
      /\ y.hit = AfterStrike(w, b)
  <2>1. CASE Strikes(b, "edit")
    <3>1. y = EditStrike(v)
      BY <2>1 DEF Strikes
    <3>2. /\ EditStrike(v) \in WiresState
          /\ EditStrike(v) = [v EXCEPT !.edit = @ + 1,
                 !.hit = Latched(@, "edit_apply", v.edit + 1 >= StrikeLimit)]
      BY <1>3, EditStrikes
    <3>3. ~Strikes(b, "schema")
      BY <2>1 DEF Strikes
    <3> HIDE DEF y
    <3>4. QED
      BY <1>3, <2>1, <3>1, <3>2, <3>3 DEF AfterStrike, WiresState
  <2>2. CASE Strikes(b, "schema")
    <3>1. y = ParseStrike(v)
      BY <2>2 DEF Strikes
    <3>2. /\ ParseStrike(v) \in WiresState
          /\ ParseStrike(v) = [v EXCEPT !.parse = @ + 1,
                 !.hit = Latched(@, "parse_schema", v.parse + 1 >= StrikeLimit)]
      BY <1>3, ParseStrikes
    <3>3. ~Strikes(b, "edit")
      BY <2>2 DEF Strikes
    <3> HIDE DEF y
    <3>4. QED
      BY <1>3, <2>2, <3>1, <3>2, <3>3 DEF AfterStrike, WiresState
  <2>3. CASE ~Strikes(b, "edit") /\ ~Strikes(b, "schema")
    <3>1. y = v
      BY <2>3 DEF Strikes
    <3> HIDE DEF y
    <3>2. QED
      BY <1>3, <2>3, <3>1 DEF AfterStrike
  <2>4. QED
    BY <2>1, <2>2, <2>3
<1> HIDE DEF y
<1>6. Progress(y, use, b) = Progress(w, use, b)
  BY <1>5 DEF Progress, NewFile, NewOutput
<1>7. use \in SUBSET (Nat \X Calls)
  BY DEF Used, WiresState
<1> HIDE DEF use
<1>8. /\ ScoreProgress(y, use, b) \in WiresState
      /\ LET z == ScoreProgress(y, use, b)
             goes == Progress(y, use, b)
         IN  /\ z.parse = y.parse /\ z.edit = y.edit /\ z.errors = y.errors
             /\ z.calls = y.calls /\ z.pending = y.pending
             /\ z.paths = IF b.error THEN y.paths ELSE y.paths \cup ReadBy(use)
             /\ z.outputs = IF b.error THEN y.outputs ELSE y.outputs \cup {b.out}
             /\ z.stuck = IF goes THEN 0 ELSE y.stuck + 1
             /\ z.hit = IF goes THEN y.hit
                        ELSE Latched(y.hit, "no_progress", y.stuck + 1 >= NoProgressLimit)
  BY <1>5, <1>7, ProgressScored
<1>9. QED
  <2>1. ResultMoves(w, b, x)
    BY <1>4, <1>5, <1>6, <1>8 DEF ResultMoves, use, left, errors
  <2>2. QED
    BY <2>1 DEF x

(* A block is of exactly one kind, and observed as that kind is.           *)
LEMMA BlockKinds ==
    ASSUME NEW w, NEW b \in Blocks
    PROVE  \/ /\ Malformed(b) /\ ~IsCall(b) /\ ~IsResult(b) /\ b.kind # "interrupt"
              /\ ObserveBlock(w, b) = ParseStrike(w)
           \/ /\ IsCall(b) /\ ~Malformed(b) /\ ~IsResult(b) /\ b.kind # "interrupt"
              /\ b.call \in Calls /\ b.id \in Nat
              /\ ObserveBlock(w, b) = ObserveCall(w, b.id, b.call)
           \/ /\ IsResult(b) /\ ~Malformed(b) /\ ~IsCall(b) /\ b.kind # "interrupt"
              /\ ObserveBlock(w, b) = ObserveResult(w, b)
           \/ /\ b.kind = "interrupt" /\ ~Malformed(b) /\ ~IsCall(b) /\ ~IsResult(b)
              /\ ObserveBlock(w, b) = Trip(w, "user_interrupt", TRUE)
<1>1. CASE Malformed(b)
  <2>1. ~IsCall(b) /\ ~IsResult(b) /\ b.kind # "interrupt"
    BY <1>1 DEF Malformed, IsCall, IsResult
  <2>2. QED
    BY <1>1, <2>1 DEF ObserveBlock
<1>2. CASE IsCall(b)
  <2>1. ~Malformed(b) /\ ~IsResult(b) /\ b.kind # "interrupt"
    BY <1>2 DEF Malformed, IsCall, IsResult
  <2>2. b.call \in Calls /\ b.id \in Nat
    BY <1>2 DEF IsCall, Blocks, Interrupt
  <2>3. QED
    BY <1>2, <2>1, <2>2 DEF ObserveBlock
<1>3. CASE IsResult(b)
  <2>1. ~Malformed(b) /\ ~IsCall(b) /\ b.kind # "interrupt"
    BY <1>3 DEF Malformed, IsCall, IsResult
  <2>2. QED
    BY <1>3, <2>1 DEF ObserveBlock
<1>4. CASE b.kind = "interrupt"
  <2>1. ~Malformed(b) /\ ~IsCall(b) /\ ~IsResult(b)
    BY <1>4 DEF Malformed, IsCall, IsResult
  <2>2. QED
    BY <1>4, <2>1 DEF ObserveBlock
<1>5. Malformed(b) \/ IsCall(b) \/ IsResult(b) \/ b.kind = "interrupt"
  BY DEF Blocks, Malformed, IsCall, IsResult, Interrupt
<1>6. QED
  BY <1>1, <1>2, <1>3, <1>4, <1>5

-----------------------------------------------------------------------------
(* A message is one observation.  Whatever its blocks, strikes and errors  *)
(* only grow, by at most one a block, and a hit stays.                     *)

Struck(w) == w.parse >= StrikeLimit \/ w.edit >= StrikeLimit => w.hit # "none"

Moved(w, v, k) ==
    /\ v \in WiresState /\ Struck(v)
    /\ w.parse <= v.parse /\ v.parse <= w.parse + k
    /\ w.edit <= v.edit /\ v.edit <= w.edit + k
    /\ w.errors <= v.errors
    /\ w.hit # "none" => v.hit # "none"

(* A latched hit stays, and one that fires latches.                        *)
LEMMA LatchedTyped ==
    ASSUME NEW hit \in Hits, NEW name \in Hits \ {"none"}, NEW fires \in BOOLEAN
    PROVE  /\ Latched(hit, name, fires) \in Hits
           /\ hit # "none" => Latched(hit, name, fires) = hit
           /\ fires => Latched(hit, name, fires) # "none"
  BY DEF Latched

(* One block moves each count by at most one.                              *)
LEMMA BlockMoves ==
    ASSUME NEW w \in WiresState, Struck(w), NEW b \in Blocks
    PROVE  Moved(w, ObserveBlock(w, b), 1)
<1> DEFINE v == ObserveBlock(w, b)
<1>0. w.parse \in Nat /\ w.edit \in Nat /\ w.errors \in Nat /\ w.hit \in Hits
  BY DEF WiresState
<1>1. CASE ObserveBlock(w, b) = ParseStrike(w)
  <2>1. /\ v \in WiresState
        /\ v = [w EXCEPT !.parse = @ + 1,
                         !.hit = Latched(@, "parse_schema", w.parse + 1 >= StrikeLimit)]
    BY <1>1, ParseStrikes
  <2> HIDE DEF v
  <2>2. /\ v.parse = w.parse + 1 /\ v.edit = w.edit /\ v.errors = w.errors
        /\ v.hit = Latched(w.hit, "parse_schema", w.parse + 1 >= StrikeLimit)
    BY <2>1 DEF WiresState
  <2>3. QED
    BY <1>0, <2>1, <2>2, StrikeAssumption DEF v, Moved, Struck, Latched
<1>2. CASE IsCall(b) /\ b.call \in Calls /\ b.id \in Nat
           /\ ObserveBlock(w, b) = ObserveCall(w, b.id, b.call)
  <2>1. CallMoves(w, b.id, b.call, v)
    BY <1>2, CallObserved
  <2> HIDE DEF v
  <2>2. /\ v.parse = w.parse /\ v.edit = w.edit /\ v.errors = w.errors
        /\ v \in WiresState /\ (w.hit # "none" => v.hit # "none")
    BY <2>1 DEF CallMoves, Latched
  <2>3. QED
    BY <1>0, <2>2 DEF v, Moved, Struck
<1>3. CASE IsResult(b) /\ ObserveBlock(w, b) = ObserveResult(w, b)
  <2>1. ResultMoves(w, b, v)
    BY <1>3, ResultObserved
  <2> HIDE DEF v
  <2>2. /\ AfterStrike(w, b) # "none" => v.hit # "none"
        /\ w.hit # "none" => AfterStrike(w, b) # "none"
        /\ Strikes(b, "schema") /\ w.parse + 1 >= StrikeLimit => AfterStrike(w, b) # "none"
        /\ Strikes(b, "edit") /\ w.edit + 1 >= StrikeLimit => AfterStrike(w, b) # "none"
    <3>1. ~(Strikes(b, "edit") /\ Strikes(b, "schema"))
      BY DEF Strikes
    <3>2. QED
      BY <2>1, <3>1 DEF ResultMoves, AfterStrike, Latched
  <2>3. QED
    BY <1>0, <2>1, <2>2 DEF v, Moved, Struck, ResultMoves
<1>4. CASE ObserveBlock(w, b) = Trip(w, "user_interrupt", TRUE)
  <2>1. "user_interrupt" \in Hits
    BY DEF Hits
  <2>2. /\ v \in WiresState
        /\ v = [w EXCEPT !.hit = Latched(w.hit, "user_interrupt", TRUE)]
    BY <1>4, <2>1, TripTrips
  <2> HIDE DEF v
  <2>3. /\ v.parse = w.parse /\ v.edit = w.edit /\ v.errors = w.errors
        /\ v.hit = Latched(w.hit, "user_interrupt", TRUE)
    BY <2>2 DEF WiresState
  <2>4. QED
    BY <1>0, <2>2, <2>3 DEF v, Moved, Struck, Latched
<1>5. QED
  BY <1>1, <1>2, <1>3, <1>4, BlockKinds

(* Moves add up.                                                           *)
LEMMA MovedOn ==
    ASSUME NEW w \in WiresState, NEW k \in Nat, NEW u, Moved(w, u, k), NEW v, Moved(u, v, 1)
    PROVE  Moved(w, v, k + 1)
<1>1. /\ w.parse \in Nat /\ w.edit \in Nat /\ w.errors \in Nat
      /\ u.parse \in Nat /\ u.edit \in Nat /\ u.errors \in Nat
      /\ v.parse \in Nat /\ v.edit \in Nat /\ v.errors \in Nat
  BY DEF Moved, WiresState
<1>2. QED
  BY <1>1 DEF Moved

(* A message of n blocks moves each count by at most n.                    *)
LEMMA MessageMoves ==
    ASSUME NEW w \in WiresState, Struck(w), NEW n \in Nat, NEW blocks \in [1..n -> Blocks]
    PROVE  Moved(w, ObserveAll(w, blocks), n)
<1>0. w.parse \in Nat /\ w.edit \in Nat /\ w.errors \in Nat
  BY DEF WiresState
<1>1. PICK v : Observing(v, w, blocks, n)
  BY MessageSteps DEF Message
<1>2. /\ v[0] = w
      /\ \A k \in 0 .. n - 1 : v[k + 1] = ObserveBlock(v[k], blocks[k + 1])
      /\ ObserveAll(w, blocks) = v[n]
  BY <1>1 DEF Observing
<1> DEFINE T == {k \in Nat : k <= n => Moved(w, v[k], k)}
<1>3. 0 \in T
  BY <1>0, <1>2 DEF Moved
<1>4. ASSUME NEW k \in T PROVE k + 1 \in T
  <2> SUFFICES ASSUME k + 1 <= n PROVE Moved(w, v[k + 1], k + 1)
    OBVIOUS
  <2>1. Moved(w, v[k], k) /\ blocks[k + 1] \in Blocks /\ k \in Nat
    OBVIOUS
  <2>2. Moved(v[k], v[k + 1], 1)
    <3>1. v[k + 1] = ObserveBlock(v[k], blocks[k + 1])
      BY <1>2, <2>1
    <3>2. v[k] \in WiresState /\ Struck(v[k])
      BY <2>1 DEF Moved
    <3>3. QED
      BY <2>1, <3>1, <3>2, BlockMoves
  <2>3. QED
    BY <2>1, <2>2, MovedOn
<1>5. T = Nat
  BY <1>3, <1>4, SetInduction
<1>6. QED
  BY <1>2, <1>5

(* What a message moved is what one observation of Strikes feeds.          *)
LEMMA MovedIsFed ==
    ASSUME NEW w \in WiresState, NEW v, NEW n \in Nat, Moved(w, v, n)
    PROVE  \E o \in [edit: 0..n, parse: 0..n, error: BOOLEAN, latch: BOOLEAN] :
               ViewOf(v) = Feed(ViewOf(w), o)
<1> DEFINE o == [edit |-> v.edit - w.edit, parse |-> v.parse - w.parse,
                 error |-> v.errors > 0, latch |-> v.hit # "none"]
<1>1. /\ w.parse \in Nat /\ w.edit \in Nat /\ w.errors \in Nat
      /\ v.parse \in Nat /\ v.edit \in Nat /\ v.errors \in Nat
  BY DEF WiresState, Moved
<1>2. o \in [edit: 0..n, parse: 0..n, error: BOOLEAN, latch: BOOLEAN]
  BY <1>1 DEF Moved
<1>3. /\ UpTo(UpTo(w.edit, StrikeLimit) + o.edit, StrikeLimit) = UpTo(v.edit, StrikeLimit)
      /\ UpTo(UpTo(w.parse, StrikeLimit) + o.parse, StrikeLimit) = UpTo(v.parse, StrikeLimit)
  BY <1>1, StrikeAssumption DEF Moved, UpTo
<1>4. (w.errors > 0 \/ v.errors > 0) <=> v.errors > 0
  BY <1>1 DEF Moved
<1>5. (\/ w.hit # "none" \/ v.hit # "none" \/ UpTo(v.edit, StrikeLimit) = StrikeLimit
       \/ UpTo(v.parse, StrikeLimit) = StrikeLimit) <=> v.hit # "none"
  <2>1. UpTo(v.edit, StrikeLimit) = StrikeLimit => v.edit >= StrikeLimit
    BY <1>1, StrikeAssumption DEF UpTo
  <2>2. UpTo(v.parse, StrikeLimit) = StrikeLimit => v.parse >= StrikeLimit
    BY <1>1, StrikeAssumption DEF UpTo
  <2>3. QED
    BY <2>1, <2>2 DEF Moved, Struck
<1>6. /\ o.error = (v.errors > 0) /\ o.latch = (v.hit # "none")
  OBVIOUS
<1> DEFINE error == w.errors > 0 \/ o.error
           hit == \/ w.hit # "none" \/ o.latch \/ UpTo(v.edit, StrikeLimit) = StrikeLimit
                  \/ UpTo(v.parse, StrikeLimit) = StrikeLimit
<1>7. error = (v.errors > 0) /\ hit = (v.hit # "none")
  <2> HIDE DEF o
  <2>1. error <=> v.errors > 0
    BY <1>4, <1>6
  <2>2. hit <=> v.hit # "none"
    BY <1>5, <1>6
  <2>3. error = (v.errors > 0)
    <3>1. CASE v.errors > 0
      BY <2>1, <3>1
    <3>2. CASE ~(v.errors > 0)
      BY <2>1, <3>2
    <3>3. QED
      BY <3>1, <3>2
  <2>4. hit = (v.hit # "none")
    BY <2>2, Zenon
  <2>5. QED
    BY <2>3, <2>4
<1> HIDE DEF o
<1>8. Feed(ViewOf(w), o) = [edit |-> UpTo(v.edit, StrikeLimit),
          parse |-> UpTo(v.parse, StrikeLimit), error |-> error, hit |-> hit]
  <2> DEFINE x == ViewOf(w)
  <2>1. /\ DOMAIN x = {"edit", "parse", "error", "hit"}
        /\ x.edit = UpTo(w.edit, StrikeLimit) /\ x.parse = UpTo(w.parse, StrikeLimit)
        /\ x.error = (w.errors > 0) /\ x.hit = (w.hit # "none")
        /\ x = [k \in DOMAIN x |-> x[k]]
    BY DEF ViewOf
  <2> HIDE DEF x
  <2>2. Feed(x, o) =
          [x EXCEPT !.edit = UpTo(v.edit, StrikeLimit),
                    !.parse = UpTo(v.parse, StrikeLimit),
                    !.error = @ \/ o.error,
                    !.hit = \/ @ \/ o.latch \/ UpTo(v.edit, StrikeLimit) = StrikeLimit
                            \/ UpTo(v.parse, StrikeLimit) = StrikeLimit]
    BY <1>3, <2>1 DEF Feed
  <2>3. QED
    BY <2>1, <2>2 DEF x
<1>9. ViewOf(v) = Feed(ViewOf(w), o)
  BY <1>7, <1>8 DEF ViewOf
<1>10. QED
  BY <1>2, <1>9

(* The log after a message: the old entries, then the blocks.              *)
LEMMA LogGrows ==
    ASSUME NEW h \in Seq(Blocks), NEW n \in Nat, NEW blocks \in [1..n -> Blocks]
    PROVE  /\ h \o blocks \in Seq(Blocks)
           /\ Len(h \o blocks) = Len(h) + n
           /\ \A i \in 1..Len(h) : (h \o blocks)[i] = h[i]
           /\ \A i \in 1..n : (h \o blocks)[Len(h) + i] = blocks[i]
<1>1. blocks \in Seq(Blocks) /\ Len(blocks) = n
  OBVIOUS
<1>2. QED
  BY <1>1

(* A message is within its bound.                                          *)
LEMMA RoomIsNat ==
    ASSUME log \in Seq(Blocks), NEW n \in Room
    PROVE  n \in 1..MaxBatch
<1>1. Len(log) \in Nat
  OBVIOUS
<1>2. QED
  BY <1>1, BlocksAssumption DEF Room

(* The calls of a response are blocks.                                     *)
LEMMA CallsAreBlocks ==
    ASSUME NEW c \in Calls \cup {None}, NEW i \in Nat
    PROVE  CallBlock(c, i) \in Blocks
  BY DEF CallBlock, Blocks

(* So are the results and interrupts of a request.                         *)
LEMMA ResultsAreBlocks ==
    ASSUME log \in Seq(Blocks), NEW b \in AnyResult \cup {Interrupt}
    PROVE  b \in Blocks
<1>1. Answered \subseteq Nat
  BY DEF Answered
<1>2. ASSUME NEW i \in Answered, NEW m \in Markers
      PROVE  ResultBlock(i, TRUE, m, "none") \in Blocks
  BY <1>1 DEF ResultBlock, Blocks
<1>3. ASSUME NEW i \in Answered, NEW m \in Markers, NEW o \in Outputs
      PROVE  ResultBlock(i, FALSE, m, o) \in Blocks
  BY <1>1 DEF ResultBlock, Blocks
<1>4. CASE b = Interrupt
  BY <1>4 DEF Blocks
<1> DEFINE failed == {ResultBlock(i, TRUE, m, "none") : i \in Answered, m \in Markers}
           good == {ResultBlock(i, FALSE, m, o) :
                       i \in Answered, m \in Markers, o \in Outputs}
<1>5. CASE b \in failed
  <2>1. PICK i \in Answered, m \in Markers : b = ResultBlock(i, TRUE, m, "none")
    BY <1>5 DEF ResultBlock
  <2>2. QED
    BY <1>2, <2>1
<1>6. CASE b \in good
  <2>1. PICK i \in Answered, m \in Markers, o \in Outputs : b = ResultBlock(i, FALSE, m, o)
    BY <1>6 DEF ResultBlock
  <2>2. QED
    BY <1>3, <2>1
<1>7. AnyResult = failed \cup good
  BY DEF AnyResult
<1> HIDE DEF failed, good
<1>8. QED
  BY <1>4, <1>5, <1>6, <1>7

(* A message of a step: its blocks, and what it leaves.                    *)
Observes(n, blocks) == n \in 1..MaxBatch /\ blocks \in [1..n -> Blocks] /\ Observed(blocks)

AMessage == \E n, blocks : Observes(n, blocks)

(* A step is a reset or observes a message.                                *)
LEMMA TurnMoves ==
    ASSUME log \in Seq(Blocks), ObserveTurn
    PROVE  Reset \/ AMessage
<1>1. CASE ObserveResponse
  <2>0. PICK n \in Room : \E cs \in [1..n -> Calls \cup {None}] :
            Observed([i \in 1..n |-> CallBlock(cs[i], Len(log) + i)])
    BY <1>1 DEF ObserveResponse
  <2>1. PICK cs \in [1..n -> Calls \cup {None}] :
            Observed([i \in 1..n |-> CallBlock(cs[i], Len(log) + i)])
    BY <2>0
  <2>2. n \in 1..MaxBatch
    BY RoomIsNat
  <2>3. ASSUME NEW i \in 1..n PROVE CallBlock(cs[i], Len(log) + i) \in Blocks
    <3>1. cs[i] \in Calls \cup {None} /\ Len(log) + i \in Nat
      BY <2>2
    <3>2. QED
      BY <3>1, CallsAreBlocks
  <2>4. [i \in 1..n |-> CallBlock(cs[i], Len(log) + i)] \in [1..n -> Blocks]
    BY <2>3
  <2>5. QED
    BY <2>1, <2>2, <2>4 DEF Observes, AMessage
<1>2. CASE ObserveToolResults
  <2>0. PICK n \in Room : \E bs \in [1..n -> AnyResult \cup {Interrupt}] : Observed(bs)
    BY <1>2 DEF ObserveToolResults
  <2>1. PICK bs \in [1..n -> AnyResult \cup {Interrupt}] : Observed(bs)
    BY <2>0
  <2>2. n \in 1..MaxBatch
    BY RoomIsNat
  <2>3. bs \in [1..n -> Blocks]
    BY ResultsAreBlocks
  <2>4. QED
    BY <2>1, <2>2, <2>3 DEF Observes, AMessage
<1>3. QED
  BY <1>1, <1>2 DEF ObserveTurn

WiresInv == wires \in WiresState /\ Struck(wires) /\ log \in Seq(Blocks)

(* The wires of a new turn.                                                *)
LEMMA FreshTyped == Fresh \in WiresState /\ Struck(Fresh) /\ ViewOf(Fresh) = NewView
<1>1. Fresh \in WiresState /\ Fresh.parse = 0 /\ Fresh.edit = 0 /\ Fresh.errors = 0
      /\ Fresh.hit = "none"
  BY DEF Fresh, WiresState, Hits
<1>2. (Fresh.errors > 0) = FALSE /\ (Fresh.hit # "none") = FALSE
      /\ UpTo(Fresh.edit, StrikeLimit) = 0 /\ UpTo(Fresh.parse, StrikeLimit) = 0
  BY <1>1, StrikeAssumption DEF UpTo
<1>3. Struck(Fresh)
  BY <1>1, StrikeAssumption DEF Struck
<1>4. ViewOf(Fresh) = NewView
  BY <1>2 DEF ViewOf, NewView
<1>5. QED
  BY <1>1, <1>3, <1>4

(* Every step keeps the wires typed and struck.                            *)
LEMMA WiresKept ==
    ASSUME WiresInv, [ObserveTurn]_wireVars
    PROVE  WiresInv'
<1>1. CASE Reset
  <2>1. <<>> \in Seq(Blocks)
    OBVIOUS
  <2>2. QED
    BY <1>1, <2>1, FreshTyped DEF Reset, WiresInv
<1>2. ASSUME NEW n, NEW blocks, Observes(n, blocks) PROVE WiresInv'
  <2>1. n \in Nat /\ blocks \in [1..n -> Blocks]
        /\ wires' = ObserveAll(wires, blocks) /\ log' = log \o blocks
    BY <1>2, BlocksAssumption DEF Observes, Observed
  <2>2. Moved(wires, wires', n)
    BY <2>1, MessageMoves DEF WiresInv
  <2>3. log' \in Seq(Blocks)
    BY <2>1, LogGrows DEF WiresInv
  <2>4. QED
    BY <2>2, <2>3 DEF WiresInv, Moved
<1>3. CASE UNCHANGED wireVars
  BY <1>3 DEF wireVars, WiresInv
<1>4. QED
  BY <1>1, <1>2, <1>3, TurnMoves DEF WiresInv, AMessage

(* The wires stay well typed, and a strike count at the limit has latched. *)
THEOREM WiresInvariant == WiresSpec => []WiresInv
<1>1. InitWires => WiresInv
  BY FreshTyped DEF InitWires, WiresInv
<1>2. QED
  BY <1>1, WiresKept, PTL DEF WiresSpec

(* The fields of the TripwireState keep their types (tripwires.py:138).    *)
THEOREM WiresTypeCorrect == WiresSpec => []WiresTypeOK
<1>1. WiresInv => WiresTypeOK
  BY DEF WiresInv, WiresTypeOK
<1>2. QED
  BY <1>1, WiresInvariant, PTL

(* Every step of the wires is one observation of Strikes, or a new turn:   *)
(* what RouterProxy sees of a turn (TripwireState.evidence) is exact.      *)
THEOREM StrikesExact == WiresSpec => CountsAsStrikes
<1> DEFINE A == View' = NewView \/ \E o \in SomeObservation : View' = Feed(View, o)
<1>1. ASSUME WiresInv, [ObserveTurn]_wireVars PROVE [A]_wireVars
  <2>1. CASE Reset
    BY <2>1, FreshTyped DEF Reset, View
  <2>2. ASSUME NEW n, NEW blocks, Observes(n, blocks) PROVE A
    <3>1. n \in Nat /\ n <= MaxBatch /\ blocks \in [1..n -> Blocks]
          /\ wires' = ObserveAll(wires, blocks)
      BY <2>2, BlocksAssumption DEF Observes, Observed
    <3>2. Moved(wires, wires', n)
      BY <1>1, <3>1, MessageMoves DEF WiresInv
    <3>3. PICK o \in [edit: 0..n, parse: 0..n, error: BOOLEAN, latch: BOOLEAN] :
              ViewOf(wires') = Feed(ViewOf(wires), o)
      BY <1>1, <3>1, <3>2, MovedIsFed DEF WiresInv
    <3>4. o \in SomeObservation
      BY <3>1, BlocksAssumption DEF SomeObservation
    <3>5. QED
      BY <3>3, <3>4 DEF View
  <2>3. CASE UNCHANGED wireVars
    BY <2>3
  <2>4. QED
    BY <1>1, <2>1, <2>2, <2>3, TurnMoves DEF WiresInv, AMessage
<1>2. QED
  BY <1>1, WiresInvariant, PTL DEF WiresSpec, CountsAsStrikes

-----------------------------------------------------------------------------
(* The wires keep a reading of the log.  Every part of the state is what   *)
(* the first n entries of the log say it is.                               *)

CallsIn(h, n) == {i \in 1..n : IsCall(h[i])}
Place(h, n) == Cardinality(CallsIn(h, n))
AnswersCall(h, j, i) == IsResult(h[j]) /\ h[j].id = i
Open(h, n) == {i \in CallsIn(h, n) : \A j \in 1..n : ~AnswersCall(h, j, i)}
ReadsIn(h, n) == {i \in 1..n : Done(h, i, "read")}
GoodIn(h, n) == {i \in 1..n : Success(h, i)}
PathRead(h, i) == h[h[i].id].call.path

KeptCounts(w, h, n) ==
    /\ w.parse = Cardinality(ParseFailures(h, n))
    /\ w.edit = Cardinality(EditFailures(h, n))
    /\ w.stuck = Cardinality(StuckSince(h, n))

KeptCalls(w, h, n) ==
    /\ Len(w.calls) = Place(h, n)
    /\ \A i \in CallsIn(h, n) : w.calls[Place(h, i)] = Canonical(h[i].call)

KeptMemory(w, h, n) ==
    /\ w.pending = {<<i, h[i].call>> : i \in Open(h, n)}
    /\ w.paths = {PathRead(h, i) : i \in ReadsIn(h, n)}
    /\ w.outputs = {h[i].out : i \in GoodIn(h, n)}

Kept(w, h, n) ==
    /\ w \in WiresState
    /\ KeptCounts(w, h, n) /\ KeptCalls(w, h, n) /\ KeptMemory(w, h, n)
    /\ w.hit = FirstWire(h, n)

(* A call takes its place as its id; a result answers an earlier one.      *)
InPlace(h, i) ==
    /\ h[i].kind = "call" => h[i].id = i
    /\ IsResult(h[i]) => h[i].id \in 1 .. i - 1 /\ h[h[i].id].kind = "call"

Ordered(h) == h \in Seq(Blocks) /\ \A i \in 1..Len(h) : InPlace(h, i)

Extends(g, h) == Len(g) >= Len(h) /\ \A i \in 1..Len(h) : g[i] = h[i]

KeptInv ==
    /\ Ordered(log)
    /\ \A g : Ordered(g) /\ Extends(g, log) => Kept(wires, g, Len(log))

-----------------------------------------------------------------------------
(* Counting entries up to n.                                               *)

(* The entries up to n that have a property are finitely many.             *)
LEMMA EntriesFinite ==
    ASSUME NEW n \in Nat, NEW S \in SUBSET (1..n)
    PROVE  IsFiniteSet(S) /\ Cardinality(S) \in Nat
<1>1. IsFiniteSet(1..n)
  BY FS_Interval
<1>2. QED
  BY <1>1, FS_Subset, FS_CardinalityType

(* An entry more is one more.                                              *)
LEMMA EntryCounted ==
    ASSUME NEW n \in Nat, NEW S \in SUBSET (1..n)
    PROVE  Cardinality(S \cup {n + 1}) = Cardinality(S) + 1
<1>1. IsFiniteSet(S)
  BY EntriesFinite
<1>2. n + 1 \notin S
  OBVIOUS
<1>3. QED
  BY <1>1, <1>2, FS_AddElement

(* None are zero.                                                          *)
LEMMA NoEntries == Cardinality({}) = 0
  BY FS_EmptySet

(* The least of a non-empty set of entries.                                *)
LEMMA LeastExists ==
    ASSUME NEW n \in Nat, NEW A \in SUBSET (1..n), A # {}
    PROVE  \E x \in A : \A y \in A : x <= y
<1> DEFINE B == {n + 1 - x : x \in A}
<1>1. B \in SUBSET (1..n) /\ B # {}
  <2>1. \A x \in A : n + 1 - x \in 1..n
    OBVIOUS
  <2>2. QED
    BY <2>1
<1>2. PICK z \in B : \A y \in B : z >= y
  BY <1>1, GreatestExists
<1>3. PICK x \in A : z = n + 1 - x
  BY <1>2
<1>4. ASSUME NEW y \in A PROVE x <= y
  <2>1. n + 1 - y \in B
    OBVIOUS
  <2>2. n + 1 - x >= n + 1 - y
    BY <1>2, <1>3, <2>1
  <2>3. QED
    BY <2>2
<1>5. QED
  BY <1>4

Tripping(h, n) == {m \in 1..n : WireAt(h, m) # "none"}
IsLeast(x, A) == x \in A /\ \A k \in A : x <= k

(* The first wire is that of the least entry that trips one.               *)
LEMMA FirstWireIs ==
    ASSUME NEW h, NEW n \in Nat
    PROVE  /\ Tripping(h, n) = {} => FirstWire(h, n) = "none"
           /\ \A x : IsLeast(x, Tripping(h, n)) =>
                 FirstWire(h, n) = WireAt(h, x) /\ FirstWire(h, n) # "none"
<1>1. FirstWire(h, n) = IF Tripping(h, n) = {} THEN "none"
                        ELSE WireAt(h, CHOOSE x \in Tripping(h, n) :
                                           \A k \in Tripping(h, n) : x <= k)
  BY DEF FirstWire, Tripping
<1>2. ASSUME NEW x, IsLeast(x, Tripping(h, n))
      PROVE  FirstWire(h, n) = WireAt(h, x) /\ FirstWire(h, n) # "none"
  <2> DEFINE A == Tripping(h, n)
             y == CHOOSE y \in A : \A k \in A : y <= k
  <2>1. A \in SUBSET Nat
    BY DEF Tripping
  <2>2. y \in A /\ \A k \in A : y <= k
    BY <1>2 DEF IsLeast
  <2>3. x = y
    <3> HIDE DEF y, A
    <3>1. x \in A /\ \A k \in A : x <= k
      BY <1>2 DEF IsLeast, A
    <3>2. x <= y /\ y <= x /\ x \in Nat /\ y \in Nat
      BY <2>1, <2>2, <3>1
    <3>3. QED
      BY <3>2
  <2>4. WireAt(h, x) # "none"
    BY <1>2 DEF IsLeast, Tripping
  <2>5. Tripping(h, n) # {}
    BY <1>2 DEF IsLeast
  <2>6. QED
    BY <1>1, <2>3, <2>4, <2>5
<1>3. QED
  BY <1>1, <1>2

(* The first wire of a turn stays the first.                               *)
LEMMA FirstWireGrows ==
    ASSUME NEW h, NEW n \in Nat
    PROVE  FirstWire(h, n + 1) = IF FirstWire(h, n) # "none" THEN FirstWire(h, n)
                                 ELSE WireAt(h, n + 1)
<1> DEFINE A == Tripping(h, n)
           B == Tripping(h, n + 1)
<1>1. B = IF WireAt(h, n + 1) = "none" THEN A ELSE A \cup {n + 1}
  BY DEF Tripping
<1>2. A \in SUBSET (1..n)
  BY DEF Tripping
<1>3. CASE A = {}
  <2>1. FirstWire(h, n) = "none"
    BY <1>3, FirstWireIs
  <2>2. CASE WireAt(h, n + 1) = "none"
    <3>1. B = {}
      BY <1>1, <1>3, <2>2
    <3>2. QED
      BY <2>1, <2>2, <3>1, FirstWireIs
  <2>3. CASE WireAt(h, n + 1) # "none"
    <3>1. IsLeast(n + 1, B)
      BY <1>1, <1>3, <2>3 DEF IsLeast
    <3>2. QED
      BY <2>1, <3>1, FirstWireIs
  <2>4. QED
    BY <2>2, <2>3
<1>4. CASE A # {}
  <2>1. PICK x : IsLeast(x, A)
    BY <1>2, <1>4, LeastExists DEF IsLeast
  <2>2. IsLeast(x, B)
    <3>1. x \in 1..n
      BY <1>2, <2>1 DEF IsLeast
    <3> HIDE DEF A, B
    <3>2. QED
      BY <1>1, <2>1, <3>1 DEF IsLeast
  <2>3. QED
    BY <2>1, <2>2, FirstWireIs
<1>5. QED
  BY <1>3, <1>4

-----------------------------------------------------------------------------
(* The calls of a turn and their places in the wires' history.             *)

(* A place is a number.                                                    *)
LEMMA PlaceIsNat ==
    ASSUME NEW h, NEW n \in Nat
    PROVE  Place(h, n) \in Nat /\ IsFiniteSet(CallsIn(h, n))
<1>1. CallsIn(h, n) \in SUBSET (1..n)
  BY DEF CallsIn
<1>2. QED
  BY <1>1, EntriesFinite DEF Place

(* A call takes the next place.                                            *)
LEMMA PlaceStep ==
    ASSUME NEW h, NEW n \in Nat
    PROVE  /\ CallsIn(h, n + 1) = IF IsCall(h[n + 1]) THEN CallsIn(h, n) \cup {n + 1}
                                  ELSE CallsIn(h, n)
           /\ Place(h, n + 1) = IF IsCall(h[n + 1]) THEN Place(h, n) + 1 ELSE Place(h, n)
<1>1. CallsIn(h, n) \in SUBSET (1..n)
  BY DEF CallsIn
<1>2. CallsIn(h, n + 1) = IF IsCall(h[n + 1]) THEN CallsIn(h, n) \cup {n + 1}
                          ELSE CallsIn(h, n)
  BY DEF CallsIn
<1>3. Cardinality(CallsIn(h, n) \cup {n + 1}) = Place(h, n) + 1
  BY <1>1, EntryCounted DEF Place
<1>4. QED
  BY <1>2, <1>3 DEF Place

(* The calls between two entries are the difference of their places.       *)
LEMMA PlacesBetween ==
    ASSUME NEW h, NEW n \in Nat, NEW i \in 0..n
    PROVE  /\ Cardinality(CallsAfter(h, i, n)) = Place(h, n) - Place(h, i)
           /\ Place(h, i) <= Place(h, n)
           /\ i < n /\ IsCall(h[n]) => Place(h, i) < Place(h, n)
<1> DEFINE A == CallsIn(h, i)
           B == CallsAfter(h, i, n)
<1>1. CallsIn(h, n) = A \cup B /\ A \cap B = {}
  BY DEF CallsIn, CallsAfter
<1>2. A \in SUBSET (1..n) /\ B \in SUBSET (1..n)
  BY DEF CallsIn, CallsAfter
<1>3. IsFiniteSet(A) /\ IsFiniteSet(B) /\ Cardinality(A) \in Nat /\ Cardinality(B) \in Nat
  BY <1>2, EntriesFinite
<1>4. Cardinality(A \cap B) = 0
  BY <1>1, NoEntries
<1>5. Cardinality(A \cup B) = Cardinality(A) + Cardinality(B) - Cardinality(A \cap B)
  BY <1>3, FS_Union
<1>6. Place(h, n) = Place(h, i) + Cardinality(B)
  BY <1>1, <1>3, <1>4, <1>5 DEF Place
<1>7. ASSUME i < n, IsCall(h[n]) PROVE Cardinality(B) # 0
  <2>1. n \in B
    BY <1>7 DEF CallsAfter
  <2> HIDE DEF B
  <2>2. QED
    BY <1>3, <2>1, FS_EmptySet
<1>8. Place(h, i) \in Nat /\ Place(h, n) \in Nat
  BY PlaceIsNat
<1> HIDE DEF A, B
<1>9. Cardinality(B) = Place(h, n) - Place(h, i) /\ Place(h, i) <= Place(h, n)
      /\ (i < n /\ IsCall(h[n]) => Place(h, i) < Place(h, n))
  BY <1>3, <1>6, <1>7, <1>8
<1>10. QED
  BY <1>9 DEF B

(* Every place is that of a call.                                          *)
LEMMA PlacesOnto ==
    ASSUME NEW h, NEW n \in Nat
    PROVE  \A k \in 1..Place(h, n) : \E i \in CallsIn(h, n) : Place(h, i) = k
<1> DEFINE T == {m \in Nat : \A k \in 1..Place(h, m) :
                                \E i \in CallsIn(h, m) : Place(h, i) = k}
<1>1. 0 \in T
  <2>1. CallsIn(h, 0) = {}
    BY DEF CallsIn
  <2>2. Place(h, 0) = 0
    BY <2>1, NoEntries DEF Place
  <2>3. QED
    BY <2>2
<1>2. ASSUME NEW m \in T PROVE m + 1 \in T
  <2> SUFFICES ASSUME NEW k \in 1..Place(h, m + 1)
               PROVE  \E i \in CallsIn(h, m + 1) : Place(h, i) = k
    OBVIOUS
  <2>1. m \in Nat /\ Place(h, m) \in Nat
    BY PlaceIsNat
  <2>2. CASE k <= Place(h, m)
    <3>1. PICK i \in CallsIn(h, m) : Place(h, i) = k
      BY <2>1, <2>2, PlaceIsNat
    <3>2. i \in CallsIn(h, m + 1)
      BY <2>1, PlaceStep
    <3>3. QED
      BY <3>1, <3>2
  <2>3. CASE ~(k <= Place(h, m))
    <3>0. Place(h, m + 1) = IF IsCall(h[m + 1]) THEN Place(h, m) + 1 ELSE Place(h, m)
      BY <2>1, PlaceStep
    <3>1. IsCall(h[m + 1]) /\ Place(h, m + 1) = Place(h, m) + 1
      BY <2>1, <2>3, <3>0
    <3>2. k = Place(h, m + 1)
      BY <2>1, <2>3, <3>1
    <3>3. m + 1 \in CallsIn(h, m + 1)
      BY <2>1, <3>1, PlaceStep
    <3>4. QED
      BY <3>2, <3>3
  <2>4. QED
    BY <2>2, <2>3
<1>3. T = Nat
  BY <1>1, <1>2, SetInduction
<1>4. QED
  BY <1>3

(* The last calls in the history that are the same call are the entries of *)
(* the window that are.                                                    *)
LEMMA RepeatsCounted ==
    ASSUME NEW h, NEW n \in Nat, n >= 1, IsCall(h[n]),
           NEW calls \in Seq(Spellings), Len(calls) = Place(h, n),
           \A i \in CallsIn(h, n) : calls[Place(h, i)] = Canonical(h[i].call)
    PROVE  Cardinality(Repeats(calls, h[n].call)) = Cardinality(SameCalls(h, n))
<1> DEFINE L == Place(h, n)
           base == IF L > LoopWindow THEN L - LoopWindow ELSE 0
           last == SubSeq(calls, base + 1, L)
           S == SameCalls(h, n)
           T == Repeats(calls, h[n].call)
           f == [i \in S |-> Place(h, i) - base]
<1>1. L \in Nat /\ LoopWindow \in Nat /\ LoopWindow >= 1
  BY PlaceIsNat, LimitsAssumption
<1>2. base \in Nat /\ base <= L
  BY <1>1
<1>3. Len(last) = L - base /\ \A k \in 1 .. L - base : last[k] = calls[base + k]
  <2> HIDE DEF base, L
  <2>1. base + 1 \in 1 .. Len(calls) + 1 /\ L \in base .. Len(calls)
    BY <1>1, <1>2 DEF L
  <2>2. QED
    BY <1>1, <1>2, <2>1
<1>4. T = {k \in 1 .. L - base : calls[base + k] = Canonical(h[n].call)}
  <2>1. T = {k \in DOMAIN last : last[k] = Canonical(h[n].call)}
    BY <1>1 DEF Repeats
  <2>2. DOMAIN last = 1 .. L - base
    <3>1. last \in Seq(Spellings)
      BY <1>1, <1>2
    <3> HIDE DEF last
    <3>2. QED
      BY <1>3, <3>1
  <2> HIDE DEF T, last, base, L
  <2>3. QED
    BY <1>3, <2>1, <2>2
<1>5. ASSUME NEW i \in CallsIn(h, n)
      PROVE  /\ i \in 1..n /\ IsCall(h[i]) /\ Place(h, i) \in 1..L
             /\ Cardinality(CallsAfter(h, i, n)) = L - Place(h, i)
  <2>1. i \in 1..n /\ IsCall(h[i])
    BY DEF CallsIn
  <2>2. Place(h, i) \in Nat /\ Place(h, i) <= L
        /\ Cardinality(CallsAfter(h, i, n)) = L - Place(h, i)
    BY <2>1, PlacesBetween, PlaceIsNat
  <2>3. Place(h, 0) < Place(h, i) /\ Place(h, 0) \in Nat
    BY <2>1, PlacesBetween, PlaceIsNat
  <2> HIDE DEF L
  <2>4. QED
    BY <1>1, <2>1, <2>2, <2>3
<1>6. \A i \in CallsIn(h, n) :
          /\ i \in S <=> Place(h, i) - base >= 1
                         /\ Canonical(h[i].call) = Canonical(h[n].call)
  <2> TAKE i \in CallsIn(h, n)
  <2>1. i \in S <=> /\ L - Place(h, i) < LoopWindow
                    /\ Canonical(h[i].call) = Canonical(h[n].call)
    BY <1>5 DEF SameCalls, Canonical
  <2>2. Place(h, i) \in 1..L
    BY <1>5
  <2> HIDE DEF L, S
  <2>3. QED
    BY <1>1, <2>1, <2>2
<1>7. S \subseteq CallsIn(h, n)
  BY DEF SameCalls, CallsIn
<1> HIDE DEF S, T, base, L, last
<1>8. ASSUME NEW i \in S PROVE f[i] \in T
  <2>1. i \in CallsIn(h, n) /\ Place(h, i) \in 1..L /\ Place(h, i) - base >= 1
        /\ Canonical(h[i].call) = Canonical(h[n].call)
    BY <1>5, <1>6, <1>7
  <2>2. calls[Place(h, i)] = Canonical(h[n].call)
    BY <2>1
  <2>3. Place(h, i) - base \in 1 .. L - base /\ base + (Place(h, i) - base) = Place(h, i)
    BY <1>1, <1>2, <2>1
  <2>4. QED
    BY <1>4, <2>2, <2>3
<1>9. ASSUME NEW i \in S, NEW j \in S, f[i] = f[j] PROVE i = j
  <2>1. i \in 1..n /\ j \in 1..n /\ IsCall(h[i]) /\ IsCall(h[j])
        /\ Place(h, i) \in Nat /\ Place(h, j) \in Nat
    BY <1>1, <1>5, <1>7
  <2>2. Place(h, i) = Place(h, j)
    BY <1>2, <1>9, <2>1
  <2>3. ~(i < j) /\ ~(j < i)
    BY <2>1, <2>2, PlacesBetween
  <2>4. QED
    BY <2>1, <2>3
<1>10. ASSUME NEW k \in T PROVE \E i \in S : f[i] = k
  <2>1. k \in 1 .. L - base /\ calls[base + k] = Canonical(h[n].call)
    BY <1>4
  <2>2. base + k \in 1..L
    BY <1>1, <1>2, <2>1
  <2>3. PICK i \in CallsIn(h, n) : Place(h, i) = base + k
    BY <2>2, PlacesOnto DEF L
  <2>4. Place(h, i) - base = k
    BY <1>2, <2>1, <2>3
  <2>5. i \in S
    BY <1>6, <2>1, <2>3, <2>4
  <2>6. QED
    BY <2>4, <2>5
<1>11. f \in Bijection(S, T)
  <2> HIDE DEF f
  <2>1. f \in [S -> T]
    BY <1>8 DEF f
  <2>2. QED
    BY <1>9, <1>10, <2>1 DEF Bijection, Injection, Surjection, IsInjective
<1>12. S \in SUBSET (1..n)
  BY <1>5, <1>7
<1>13. IsFiniteSet(S)
  BY <1>12, EntriesFinite
<1> HIDE DEF f
<1>14. ExistsBijection(S, T)
  BY <1>11 DEF ExistsBijection
<1>15. Cardinality(T) = Cardinality(S)
  BY <1>13, <1>14, FS_Bijection
<1>16. QED
  BY <1>15 DEF S, T

-----------------------------------------------------------------------------
(* One more entry of the log.                                              *)

(* A failure counts once, in its own count.                                *)
LEMMA FailuresStep ==
    ASSUME NEW h, NEW n \in Nat
    PROVE  /\ Cardinality(ParseFailures(h, n + 1)) =
                IF ParseFailure(h, n + 1) THEN Cardinality(ParseFailures(h, n)) + 1
                ELSE Cardinality(ParseFailures(h, n))
           /\ Cardinality(EditFailures(h, n + 1)) =
                IF EditFailure(h, n + 1) THEN Cardinality(EditFailures(h, n)) + 1
                ELSE Cardinality(EditFailures(h, n))
<1>1. ParseFailures(h, n) \in SUBSET (1..n) /\ EditFailures(h, n) \in SUBSET (1..n)
  BY DEF ParseFailures, EditFailures
<1>2. /\ ParseFailures(h, n + 1) =
            IF ParseFailure(h, n + 1) THEN ParseFailures(h, n) \cup {n + 1}
            ELSE ParseFailures(h, n)
      /\ EditFailures(h, n + 1) =
            IF EditFailure(h, n + 1) THEN EditFailures(h, n) \cup {n + 1}
            ELSE EditFailures(h, n)
  BY DEF ParseFailures, EditFailures
<1>3. /\ Cardinality(ParseFailures(h, n) \cup {n + 1}) = Cardinality(ParseFailures(h, n)) + 1
      /\ Cardinality(EditFailures(h, n) \cup {n + 1}) = Cardinality(EditFailures(h, n)) + 1
  BY <1>1, EntryCounted
<1>4. QED
  BY <1>2, <1>3

(* A result without progress is one more stuck; a productive one frees all.*)
LEMMA StuckStep ==
    ASSUME NEW h, NEW n \in Nat
    PROVE  /\ IsResult(h[n + 1]) /\ ~Productive(h, n + 1) =>
                Cardinality(StuckSince(h, n + 1)) = Cardinality(StuckSince(h, n)) + 1
           /\ ~IsResult(h[n + 1]) =>
                Cardinality(StuckSince(h, n + 1)) = Cardinality(StuckSince(h, n))
           /\ Productive(h, n + 1) => Cardinality(StuckSince(h, n + 1)) = 0
<1> DEFINE m == n + 1
<1>1. StuckSince(h, n) \in SUBSET (1..n)
  BY DEF StuckSince
<1>2. ~IsResult(h[m]) => ~Productive(h, m)
  BY DEF Productive, Done, Success
<1>3. ~Productive(h, m) => StuckSince(h, m) =
          IF IsResult(h[m]) THEN StuckSince(h, n) \cup {m} ELSE StuckSince(h, n)
  BY DEF StuckSince
<1>4. Productive(h, m) => StuckSince(h, m) = {}
  BY DEF StuckSince
<1>5. Cardinality(StuckSince(h, n) \cup {m}) = Cardinality(StuckSince(h, n)) + 1
  BY <1>1, EntryCounted
<1>6. QED
  BY <1>2, <1>3, <1>4, <1>5, NoEntries

(* A call opens; its first answer closes it; reads and successes are kept. *)
LEMMA MemoryStep ==
    ASSUME NEW h, Ordered(h), NEW n \in Nat, n < Len(h)
    PROVE  /\ Open(h, n + 1) =
                IF IsCall(h[n + 1]) THEN Open(h, n) \cup {n + 1}
                ELSE IF IsResult(h[n + 1]) THEN Open(h, n) \ {h[n + 1].id} ELSE Open(h, n)
           /\ ReadsIn(h, n + 1) =
                IF Done(h, n + 1, "read") THEN ReadsIn(h, n) \cup {n + 1} ELSE ReadsIn(h, n)
           /\ GoodIn(h, n + 1) =
                IF Success(h, n + 1) THEN GoodIn(h, n) \cup {n + 1} ELSE GoodIn(h, n)
<1> DEFINE m == n + 1
<1>1. m \in 1..Len(h) /\ 1..n \subseteq 1..Len(h) /\ Len(h) \in Nat
  BY DEF Ordered
<1>2. ReadsIn(h, m) = IF Done(h, m, "read") THEN ReadsIn(h, n) \cup {m} ELSE ReadsIn(h, n)
  BY DEF ReadsIn
<1>3. GoodIn(h, m) = IF Success(h, m) THEN GoodIn(h, n) \cup {m} ELSE GoodIn(h, n)
  BY DEF GoodIn
<1>4. ASSUME NEW j \in 1..m PROVE ~AnswersCall(h, j, m)
  <2>1. IsResult(h[j]) => h[j].id \in 1 .. j - 1
    BY <1>1 DEF Ordered, InPlace
  <2>2. QED
    BY <2>1 DEF AnswersCall
<1>5. IsCall(h[m]) => ~IsResult(h[m])
  BY DEF IsCall, IsResult
<1>6. \A i : AnswersCall(h, m, i) <=> IsResult(h[m]) /\ i = h[m].id
  BY DEF AnswersCall
<1>7. Open(h, m) = IF IsCall(h[m]) THEN Open(h, n) \cup {m}
                   ELSE IF IsResult(h[m]) THEN Open(h, n) \ {h[m].id} ELSE Open(h, n)
  <2> HIDE DEF m
  <2>1. 1..m = (1..n) \cup {m} /\ m \notin 1..n
    BY DEF m
  <2>2. CallsIn(h, m) = IF IsCall(h[m]) THEN CallsIn(h, n) \cup {m} ELSE CallsIn(h, n)
    BY <2>1 DEF CallsIn
  <2>3. CallsIn(h, n) \subseteq 1..n
    BY DEF CallsIn
  <2>4. QED
    BY <1>4, <1>5, <1>6, <2>1, <2>2, <2>3 DEF Open
<1>8. QED
  BY <1>2, <1>3, <1>7

Found(h, m) == IsCall(h[h[m].id]) /\ FirstAnswer(h, m)
CallOf(h, m) == h[h[m].id].call

(* What a result finds: its call, when no result has answered it yet.      *)
LEMMA UsedIs ==
    ASSUME NEW h, Ordered(h), NEW n \in Nat, n < Len(h), NEW w, KeptMemory(w, h, n),
           IsResult(h[n + 1])
    PROVE  /\ Found(h, n + 1) <=> h[n + 1].id \in Open(h, n)
           /\ Used(w, h[n + 1]) = IF Found(h, n + 1)
                                  THEN {<<h[n + 1].id, CallOf(h, n + 1)>>} ELSE {}
<1> DEFINE b == h[n + 1]
           open == Found(h, n + 1)
<1>1. n + 1 \in 1..Len(h)
  BY DEF Ordered
<1>2. b.id \in 1..n
  BY <1>1 DEF Ordered, InPlace
<1>3. open <=> b.id \in Open(h, n)
  <2>1. FirstAnswer(h, n + 1) <=> \A j \in 1..n : ~AnswersCall(h, j, b.id)
    BY DEF FirstAnswer, AnswersCall
  <2>2. QED
    BY <1>2, <2>1 DEF Open, CallsIn, Found
<1>4. Used(w, b) = {u \in {<<i, h[i].call>> : i \in Open(h, n)} : u[1] = b.id}
  BY DEF Used, KeptMemory
<1> HIDE DEF b, open
<1>5. Used(w, b) = IF open THEN {<<b.id, h[b.id].call>>} ELSE {}
  BY <1>3, <1>4
<1>6. QED
  BY <1>3, <1>5 DEF b, open, CallOf

(* A result scored as progress is a productive entry, and reads its file.  *)
LEMMA ProgressIs ==
    ASSUME NEW h, Ordered(h), NEW n \in Nat, n < Len(h), NEW w, KeptMemory(w, h, n),
           IsResult(h[n + 1])
    PROVE  /\ Progress(w, Used(w, h[n + 1]), h[n + 1]) <=> Productive(h, n + 1)
           /\ ReadBy(Used(w, h[n + 1])) =
                IF Found(h, n + 1) /\ CallOf(h, n + 1).tool = "read"
                THEN {CallOf(h, n + 1).path} ELSE {}
<1> DEFINE m == n + 1
           b == h[m]
           c == CallOf(h, m)
           use == Used(w, b)
<1>1. use = IF Found(h, m) THEN {<<b.id, c>>} ELSE {}
  BY UsedIs
<1>2. \A tool : Done(h, m, tool) <=> ~b.error /\ Found(h, m) /\ c.tool = tool
  BY DEF Done, Success, Found, CallOf
<1>3. \A o : o \notin w.outputs <=> \A j \in 1..n : Success(h, j) => h[j].out # o
  BY DEF KeptMemory, GoodIn
<1>4. \A p : p \notin w.paths <=> \A j \in 1..n : Done(h, j, "read") => PathRead(h, j) # p
  BY DEF KeptMemory, ReadsIn
<1>5. Productive(h, m) <=>
        \/ ~b.error /\ b.out \notin w.outputs
        \/ Done(h, m, "edit")
        \/ Done(h, m, "read") /\ c.path \notin w.paths
  <2>1. n = m - 1
    OBVIOUS
  <2>2. Success(h, m) <=> ~b.error
    BY DEF Success
  <2> HIDE DEF m
  <2>3. QED
    BY <1>3, <1>4, <2>1, <2>2 DEF Productive, PathRead, CallOf
<1> HIDE DEF use, c, b
<1> DEFINE u0 == <<b.id, c>>
<1>6. u0[2] = c
  OBVIOUS
<1> HIDE DEF u0
<1>7. use = IF Found(h, m) THEN {u0} ELSE {}
  BY <1>1 DEF u0
<1>8. /\ Edited(use) <=> Found(h, m) /\ c.tool = "edit"
      /\ NewFile(w, use) <=> Found(h, m) /\ c.tool = "read" /\ c.path \notin w.paths
  BY <1>6, <1>7 DEF Edited, NewFile
<1>9. Progress(w, use, b) <=> Productive(h, m)
  BY <1>2, <1>5, <1>8 DEF Progress, NewOutput
<1>10. ReadBy(use) = IF Found(h, m) /\ c.tool = "read" THEN {c.path} ELSE {}
  BY <1>6, <1>7 DEF ReadBy
<1>11. QED
  BY <1>9, <1>10 DEF use, c, b

-----------------------------------------------------------------------------
(* Every kind of block keeps the reading.                                  *)

(* A hit that latches the wire of the next entry is the first wire still.  *)
LEMMA HitKept ==
    ASSUME NEW h, NEW n \in Nat, NEW hit, hit = FirstWire(h, n),
           NEW wire, WireAt(h, n + 1) = wire
    PROVE  FirstWire(h, n + 1) = IF hit # "none" THEN hit ELSE wire
  BY FirstWireGrows

(* The wire an entry trips, by its kind.                                   *)
LEMMA WireOf ==
    ASSUME NEW h, NEW m
    PROVE  /\ Malformed(h[m]) => WireAt(h, m) =
                IF Cardinality(ParseFailures(h, m)) >= StrikeLimit THEN "parse_schema"
                ELSE "none"
           /\ IsCall(h[m]) => WireAt(h, m) =
                IF Cardinality(SameCalls(h, m)) >= LoopRepeats THEN "loop" ELSE "none"
           /\ IsResult(h[m]) => WireAt(h, m) =
                IF ParseTrips(h, m) THEN "parse_schema"
                ELSE IF EditTrips(h, m) THEN "edit_apply"
                ELSE IF Cardinality(StuckSince(h, m)) >= NoProgressLimit THEN "no_progress"
                ELSE "none"
           /\ h[m].kind = "interrupt" => WireAt(h, m) = "user_interrupt"
<1>1. /\ Malformed(h[m]) => ~IsCall(h[m]) /\ ~IsResult(h[m]) /\ h[m].kind # "interrupt"
      /\ IsCall(h[m]) => ~Malformed(h[m]) /\ ~IsResult(h[m]) /\ h[m].kind # "interrupt"
      /\ IsResult(h[m]) => ~Malformed(h[m]) /\ ~IsCall(h[m]) /\ h[m].kind # "interrupt"
      /\ h[m].kind = "interrupt" => ~Malformed(h[m]) /\ ~IsCall(h[m]) /\ ~IsResult(h[m])
  BY DEF Malformed, IsCall, IsResult
<1>2. /\ ParseTrips(h, m) => Malformed(h[m]) \/ IsResult(h[m])
      /\ EditTrips(h, m) => IsResult(h[m])
      /\ ~(ParseTrips(h, m) /\ EditTrips(h, m))
      /\ Malformed(h[m]) =>
           (ParseTrips(h, m) <=> Cardinality(ParseFailures(h, m)) >= StrikeLimit)
  BY <1>1 DEF ParseTrips, EditTrips, ParseFailure, EditFailure, Failure
<1>3. CASE Malformed(h[m])
  BY <1>1, <1>2, <1>3 DEF WireAt
<1>4. CASE IsCall(h[m])
  BY <1>1, <1>2, <1>4 DEF WireAt
<1>5. CASE IsResult(h[m])
  BY <1>1, <1>2, <1>5 DEF WireAt
<1>6. CASE h[m].kind = "interrupt"
  BY <1>1, <1>2, <1>6 DEF WireAt
<1>7. QED
  BY <1>3, <1>4, <1>5, <1>6

(* An entry that is no call leaves the history of the calls.               *)
LEMMA CallsStay ==
    ASSUME NEW h, NEW n \in Nat, ~IsCall(h[n + 1]), NEW w, KeptCalls(w, h, n),
           NEW v, v.calls = w.calls
    PROVE  KeptCalls(v, h, n + 1)
  BY PlaceStep DEF KeptCalls

(* An entry that is neither leaves the memory of both.                     *)
LEMMA MemoryStays ==
    ASSUME NEW h, Ordered(h), NEW n \in Nat, n < Len(h),
           ~IsResult(h[n + 1]), ~IsCall(h[n + 1]),
           NEW w, KeptMemory(w, h, n),
           NEW v, v.pending = w.pending, v.paths = w.paths, v.outputs = w.outputs
    PROVE  KeptMemory(v, h, n + 1)
<1>1. ~Done(h, n + 1, "read") /\ ~Success(h, n + 1)
  BY DEF Done, Success
<1>2. QED
  BY <1>1, MemoryStep DEF KeptMemory

(* A malformed call.                                                       *)
LEMMA MalformedKept ==
    ASSUME NEW h, Ordered(h), NEW n \in Nat, n < Len(h), NEW w, Kept(w, h, n),
           Malformed(h[n + 1])
    PROVE  Kept(ParseStrike(w), h, n + 1)
<1> DEFINE m == n + 1
           v == ParseStrike(w)
<1>1. w \in WiresState
  BY DEF Kept
<1>2. /\ v \in WiresState
      /\ v = [w EXCEPT !.parse = @ + 1,
                       !.hit = Latched(@, "parse_schema", w.parse + 1 >= StrikeLimit)]
  BY <1>1, ParseStrikes
<1> HIDE DEF v
<1>3. /\ v.parse = w.parse + 1 /\ v.edit = w.edit /\ v.stuck = w.stuck
      /\ v.calls = w.calls /\ v.pending = w.pending /\ v.paths = w.paths
      /\ v.outputs = w.outputs
      /\ v.hit = Latched(w.hit, "parse_schema", w.parse + 1 >= StrikeLimit)
  BY <1>1, <1>2 DEF WiresState
<1>4. ~IsCall(h[m]) /\ ~IsResult(h[m]) /\ ParseFailure(h, m) /\ ~EditFailure(h, m)
  BY DEF Malformed, IsCall, IsResult, ParseFailure, EditFailure, Failure
<1>5. KeptCounts(v, h, m)
  BY <1>3, <1>4, FailuresStep, StuckStep DEF Kept, KeptCounts
<1>6. KeptCalls(v, h, m) /\ KeptMemory(v, h, m)
  BY <1>3, <1>4, CallsStay, MemoryStays DEF Kept
<1>7. WireAt(h, m) = IF w.parse + 1 >= StrikeLimit THEN "parse_schema" ELSE "none"
  BY <1>3, <1>5, WireOf DEF KeptCounts
<1>8. FirstWire(h, m) = IF w.hit # "none" THEN w.hit
                        ELSE IF w.parse + 1 >= StrikeLimit THEN "parse_schema" ELSE "none"
  BY <1>7, HitKept DEF Kept
<1>9. v.hit = FirstWire(h, m)
  BY <1>3, <1>8 DEF Latched
<1>10. QED
  BY <1>2, <1>5, <1>6, <1>9 DEF Kept, v

(* An interrupt.                                                           *)
LEMMA InterruptKept ==
    ASSUME NEW h, Ordered(h), NEW n \in Nat, n < Len(h), NEW w, Kept(w, h, n),
           h[n + 1].kind = "interrupt"
    PROVE  Kept(Trip(w, "user_interrupt", TRUE), h, n + 1)
<1> DEFINE m == n + 1
           v == Trip(w, "user_interrupt", TRUE)
<1>1. w \in WiresState /\ "user_interrupt" \in Hits
  BY DEF Kept, Hits
<1>2. v \in WiresState /\ v = [w EXCEPT !.hit = Latched(w.hit, "user_interrupt", TRUE)]
  BY <1>1, TripTrips
<1> HIDE DEF v
<1>3. /\ v.parse = w.parse /\ v.edit = w.edit /\ v.stuck = w.stuck
      /\ v.calls = w.calls /\ v.pending = w.pending /\ v.paths = w.paths
      /\ v.outputs = w.outputs /\ v.hit = Latched(w.hit, "user_interrupt", TRUE)
  BY <1>1, <1>2 DEF WiresState
<1>4. ~IsCall(h[m]) /\ ~IsResult(h[m]) /\ ~ParseFailure(h, m) /\ ~EditFailure(h, m)
  BY DEF Malformed, IsCall, IsResult, ParseFailure, EditFailure, Failure
<1>5. KeptCounts(v, h, m)
  BY <1>3, <1>4, FailuresStep, StuckStep DEF Kept, KeptCounts
<1>6. KeptCalls(v, h, m) /\ KeptMemory(v, h, m)
  BY <1>3, <1>4, CallsStay, MemoryStays DEF Kept
<1>7. FirstWire(h, m) = IF w.hit # "none" THEN w.hit ELSE "user_interrupt"
  BY WireOf, HitKept DEF Kept
<1>8. v.hit = FirstWire(h, m)
  BY <1>3, <1>7 DEF Latched
<1>9. QED
  BY <1>2, <1>5, <1>6, <1>8 DEF Kept, v

(* A call.                                                                 *)
LEMMA CallKept ==
    ASSUME NEW h, Ordered(h), NEW n \in Nat, n < Len(h), NEW w, Kept(w, h, n),
           IsCall(h[n + 1]), h[n + 1].call \in Calls
    PROVE  Kept(ObserveCall(w, h[n + 1].id, h[n + 1].call), h, n + 1)
<1> DEFINE m == n + 1
           c == h[m].call
           v == ObserveCall(w, h[m].id, c)
<1>1. w \in WiresState
  BY DEF Kept
<1>2. m \in 1..Len(h) /\ h[m].kind = "call"
  BY DEF Ordered, IsCall
<1>3. h[m].id = m
  BY <1>2 DEF Ordered, InPlace
<1>4. CallMoves(w, m, c, v)
  BY <1>1, <1>3, CallObserved
<1> HIDE DEF v
<1>5. ~IsResult(h[m]) /\ ~ParseFailure(h, m) /\ ~EditFailure(h, m)
      /\ ~Done(h, m, "read") /\ ~Success(h, m)
  BY <1>2 DEF Malformed, IsCall, IsResult, ParseFailure, EditFailure, Failure, Done, Success
<1>6. KeptCounts(v, h, m)
  BY <1>4, <1>5, FailuresStep, StuckStep DEF Kept, KeptCounts, CallMoves
<1>7. KeptCalls(v, h, m)
  <2>1. w.calls \in Seq(Spellings) /\ Len(w.calls) = Place(h, n) /\ Place(h, n) \in Nat
    BY <1>1, PlaceIsNat DEF Kept, KeptCalls, WiresState
  <2>2. v.calls = Append(w.calls, Canonical(c))
    BY <1>4 DEF CallMoves
  <2>3. Place(h, m) = Place(h, n) + 1 /\ CallsIn(h, m) = CallsIn(h, n) \cup {m}
    BY PlaceStep
  <2>4. ASSUME NEW i \in CallsIn(h, n) PROVE v.calls[Place(h, i)] = Canonical(h[i].call)
    <3>1. i \in 1..n /\ IsCall(h[i])
      BY DEF CallsIn
    <3>2. Place(h, i) <= Place(h, n) /\ Place(h, 0) < Place(h, i)
      BY <3>1, PlacesBetween
    <3>3. Place(h, i) \in Nat /\ Place(h, 0) \in Nat
      BY <3>1, PlaceIsNat
    <3>4. Place(h, i) \in 1..Len(w.calls)
      BY <2>1, <3>2, <3>3
    <3>5. w.calls[Place(h, i)] = Canonical(h[i].call)
      BY DEF Kept, KeptCalls
    <3>6. QED
      BY <2>1, <2>2, <3>4, <3>5
  <2>5. v.calls[Place(h, m)] = Canonical(c)
    BY <2>1, <2>2, <2>3
  <2>6. Len(v.calls) = Place(h, m)
    BY <2>1, <2>2, <2>3
  <2>7. QED
    BY <2>3, <2>4, <2>5, <2>6 DEF KeptCalls
<1>8. KeptMemory(v, h, m)
  <2>1. Open(h, m) = Open(h, n) \cup {m} /\ ReadsIn(h, m) = ReadsIn(h, n)
        /\ GoodIn(h, m) = GoodIn(h, n)
    BY <1>5, MemoryStep
  <2>2. v.pending = w.pending \cup {<<m, c>>} /\ v.paths = w.paths /\ v.outputs = w.outputs
    BY <1>4 DEF CallMoves
  <2>3. {<<i, h[i].call>> : i \in Open(h, n) \cup {m}}
            = {<<i, h[i].call>> : i \in Open(h, n)} \cup {<<m, c>>}
    OBVIOUS
  <2>4. QED
    BY <2>1, <2>2, <2>3 DEF Kept, KeptMemory
<1>9. Cardinality(Repeats(v.calls, c)) = Cardinality(SameCalls(h, m))
  <2>1. v.calls \in Seq(Spellings)
    BY <1>4 DEF CallMoves, WiresState
  <2>2. QED
    BY <1>7, <2>1, RepeatsCounted DEF KeptCalls
<1>10. v.hit = Latched(w.hit, "loop", Cardinality(SameCalls(h, m)) >= LoopRepeats)
  BY <1>4, <1>9 DEF CallMoves
<1>11. FirstWire(h, m) = IF w.hit # "none" THEN w.hit
          ELSE IF Cardinality(SameCalls(h, m)) >= LoopRepeats THEN "loop" ELSE "none"
  BY WireOf, HitKept DEF Kept
<1>12. v.hit = FirstWire(h, m)
  BY <1>10, <1>11 DEF Latched
<1>13. v \in WiresState
  BY <1>4 DEF CallMoves
<1>14. QED
  BY <1>6, <1>7, <1>8, <1>12, <1>13 DEF Kept, v

(* A result.                                                               *)
LEMMA ResultKept ==
    ASSUME NEW h, Ordered(h), NEW n \in Nat, n < Len(h), NEW w, Kept(w, h, n),
           IsResult(h[n + 1])
    PROVE  Kept(ObserveResult(w, h[n + 1]), h, n + 1)
<1> DEFINE m == n + 1
           b == h[m]
           v == ObserveResult(w, b)
           goes == Progress(w, Used(w, b), b)
<1>1. w \in WiresState /\ b \in Blocks /\ b.error \in BOOLEAN
  <2>1. b \in Blocks
    BY DEF Ordered
  <2>2. QED
    BY <2>1, ResultTyped DEF Kept
<1>2. ResultMoves(w, b, v)
  BY <1>1, ResultObserved
<1> HIDE DEF v
<1>3. KeptMemory(w, h, n)
  BY DEF Kept
<1>4. /\ goes <=> Productive(h, m)
      /\ ReadBy(Used(w, b)) = IF Found(h, m) /\ CallOf(h, m).tool = "read"
                              THEN {CallOf(h, m).path} ELSE {}
  BY <1>3, ProgressIs
<1>5. ~IsCall(b) /\ ~Malformed(b)
      /\ (ParseFailure(h, m) <=> Strikes(b, "schema"))
      /\ (EditFailure(h, m) <=> Strikes(b, "edit"))
      /\ (Success(h, m) <=> ~b.error)
      /\ (Done(h, m, "read") <=> ~b.error /\ Found(h, m) /\ CallOf(h, m).tool = "read")
  BY DEF IsCall, IsResult, Malformed, ParseFailure, EditFailure, Failure, Strikes, Success,
         Done, Found, CallOf
<1> HIDE DEF goes
<1>6. KeptCounts(v, h, m)
  <2>1. v.parse = Cardinality(ParseFailures(h, m)) /\ v.edit = Cardinality(EditFailures(h, m))
    BY <1>2, <1>5, FailuresStep DEF Kept, KeptCounts, ResultMoves
  <2>2. v.stuck = Cardinality(StuckSince(h, m))
    BY <1>2, <1>4, StuckStep DEF Kept, KeptCounts, ResultMoves, goes
  <2>3. QED
    BY <2>1, <2>2 DEF KeptCounts
<1>7. KeptCalls(v, h, m)
  BY <1>2, <1>5, CallsStay DEF Kept, ResultMoves
<1>8. KeptMemory(v, h, m)
  <2>1. v.pending = {<<i, h[i].call>> : i \in Open(h, m)}
    <3>1. Open(h, m) = Open(h, n) \ {b.id}
      BY <1>5, MemoryStep
    <3>2. v.pending = {u \in {<<i, h[i].call>> : i \in Open(h, n)} : u[1] # b.id}
      BY <1>2, <1>3 DEF ResultMoves, KeptMemory, Used
    <3>3. \A i : <<i, h[i].call>>[1] = i
      OBVIOUS
    <3> HIDE DEF b
    <3>4. {u \in {<<i, h[i].call>> : i \in Open(h, n)} : u[1] # b.id}
              = {<<i, h[i].call>> : i \in Open(h, n) \ {b.id}}
      BY <3>3
    <3>5. QED
      BY <3>1, <3>2, <3>4
  <2>2. v.paths = {PathRead(h, i) : i \in ReadsIn(h, m)}
    <3>1. ReadsIn(h, m) = IF Done(h, m, "read") THEN ReadsIn(h, n) \cup {m} ELSE ReadsIn(h, n)
      BY MemoryStep
    <3>2. PathRead(h, m) = CallOf(h, m).path
      BY DEF PathRead, CallOf
    <3>3. v.paths = IF Done(h, m, "read") THEN w.paths \cup {PathRead(h, m)} ELSE w.paths
      BY <1>2, <1>4, <1>5, <3>2 DEF ResultMoves
    <3>4. w.paths = {PathRead(h, i) : i \in ReadsIn(h, n)}
      BY <1>3 DEF KeptMemory
    <3> HIDE DEF m
    <3>5. QED
      BY <3>1, <3>3, <3>4
  <2>3. v.outputs = {h[i].out : i \in GoodIn(h, m)}
    <3>1. GoodIn(h, m) = IF b.error THEN GoodIn(h, n) ELSE GoodIn(h, n) \cup {m}
      BY <1>5, MemoryStep
    <3>2. v.outputs = IF b.error THEN w.outputs ELSE w.outputs \cup {h[m].out}
      BY <1>2 DEF ResultMoves
    <3>3. w.outputs = {h[i].out : i \in GoodIn(h, n)}
      BY <1>3 DEF KeptMemory
    <3> HIDE DEF m
    <3>4. QED
      BY <3>1, <3>2, <3>3
  <2>4. QED
    BY <2>1, <2>2, <2>3 DEF KeptMemory
<1>9. v.hit = FirstWire(h, m)
  <2>1. /\ ParseTrips(h, m) <=> Strikes(b, "schema") /\ w.parse + 1 >= StrikeLimit
        /\ EditTrips(h, m) <=> Strikes(b, "edit") /\ w.edit + 1 >= StrikeLimit
    BY <1>2, <1>5, <1>6 DEF ParseTrips, EditTrips, KeptCounts, ResultMoves
  <2>2. goes => Cardinality(StuckSince(h, m)) = 0
    BY <1>4, StuckStep
  <2>3. ~goes => Cardinality(StuckSince(h, m)) = w.stuck + 1
    BY <1>2, <1>6 DEF KeptCounts, ResultMoves, goes
  <2>4. FirstWire(h, m) = IF w.hit # "none" THEN w.hit
                          ELSE IF ParseTrips(h, m) THEN "parse_schema"
                          ELSE IF EditTrips(h, m) THEN "edit_apply"
                          ELSE IF Cardinality(StuckSince(h, m)) >= NoProgressLimit
                            THEN "no_progress"
                          ELSE "none"
    BY WireOf, HitKept DEF Kept
  <2>5. v.hit = IF goes THEN AfterStrike(w, b)
                ELSE Latched(AfterStrike(w, b), "no_progress", w.stuck + 1 >= NoProgressLimit)
    BY <1>2 DEF ResultMoves, goes
  <2>6. ~(Strikes(b, "schema") /\ Strikes(b, "edit"))
    BY DEF Strikes
  <2>7. AfterStrike(w, b) = IF w.hit # "none" THEN w.hit
                            ELSE IF ParseTrips(h, m) THEN "parse_schema"
                            ELSE IF EditTrips(h, m) THEN "edit_apply"
                            ELSE "none"
    BY <2>1, <2>6 DEF AfterStrike, Latched
  <2>8. ~(0 >= NoProgressLimit)
    BY LimitsAssumption
  <2>9. QED
    BY <2>2, <2>3, <2>4, <2>5, <2>7, <2>8 DEF Latched
<1>10. v \in WiresState
  BY <1>2 DEF ResultMoves
<1>11. QED
  BY <1>6, <1>7, <1>8, <1>9, <1>10 DEF Kept, v, b

(* A block of the log observed is an entry read.                           *)
LEMMA BlockKept ==
    ASSUME NEW h, Ordered(h), NEW n \in Nat, n < Len(h), NEW w, Kept(w, h, n)
    PROVE  Kept(ObserveBlock(w, h[n + 1]), h, n + 1)
<1>1. h[n + 1] \in Blocks
  BY DEF Ordered
<1>2. QED
  BY <1>1, BlockKinds, MalformedKept, CallKept, ResultKept, InterruptKept

(* A message observed is its entries read, one after the other.            *)
LEMMA MessageKept ==
    ASSUME NEW h, Ordered(h), NEW s \in Nat, NEW n \in Nat, s + n <= Len(h),
           NEW blocks \in [1..n -> Blocks], \A i \in 1..n : h[s + i] = blocks[i],
           NEW w, Kept(w, h, s)
    PROVE  Kept(ObserveAll(w, blocks), h, s + n)
<1>1. PICK v : Observing(v, w, blocks, n)
  BY MessageSteps DEF Message
<1>2. /\ v[0] = w
      /\ \A k \in 0 .. n - 1 : v[k + 1] = ObserveBlock(v[k], blocks[k + 1])
      /\ ObserveAll(w, blocks) = v[n]
  BY <1>1 DEF Observing
<1> DEFINE T == {k \in Nat : k <= n => Kept(v[k], h, s + k)}
<1>3. 0 \in T
  BY <1>2
<1>4. ASSUME NEW k \in T PROVE k + 1 \in T
  <2> SUFFICES ASSUME k + 1 <= n PROVE Kept(v[k + 1], h, s + (k + 1))
    OBVIOUS
  <2>1. k \in Nat /\ Kept(v[k], h, s + k) /\ k + 1 \in 1..n
    OBVIOUS
  <2>2. s + k \in Nat /\ s + k < Len(h) /\ Len(h) \in Nat
    BY <2>1 DEF Ordered
  <2>3. h[s + k + 1] = blocks[k + 1]
    <3>1. s + k + 1 = s + (k + 1)
      BY <2>1
    <3>2. QED
      BY <2>1, <3>1
  <2>4. Kept(ObserveBlock(v[k], h[s + k + 1]), h, s + k + 1)
    BY <2>1, <2>2, BlockKept
  <2>5. v[k + 1] = ObserveBlock(v[k], h[s + k + 1])
    BY <1>2, <2>1, <2>3
  <2>6. s + k + 1 = s + (k + 1)
    BY <2>1
  <2>7. QED
    BY <2>4, <2>5, <2>6
<1>5. T = Nat
  BY <1>3, <1>4, SetInduction
<1>6. QED
  BY <1>2, <1>5

(* The start of a turn.                                                    *)
LEMMA FreshKept ==
    ASSUME NEW h
    PROVE  Kept(Fresh, h, 0)
<1>1. \A P : {i \in 1..0 : P} = {}
  OBVIOUS
<1>2. /\ ParseFailures(h, 0) = {} /\ EditFailures(h, 0) = {} /\ StuckSince(h, 0) = {}
      /\ CallsIn(h, 0) = {} /\ Open(h, 0) = {} /\ ReadsIn(h, 0) = {} /\ GoodIn(h, 0) = {}
      /\ Tripping(h, 0) = {}
  BY DEF ParseFailures, EditFailures, StuckSince, CallsIn, Open, ReadsIn, GoodIn, Tripping
<1>3. Fresh \in WiresState
  BY FreshTyped
<1>4. KeptCounts(Fresh, h, 0)
  BY <1>2, NoEntries DEF KeptCounts, Fresh
<1>5. KeptCalls(Fresh, h, 0)
  BY <1>2, NoEntries DEF KeptCalls, Fresh, Place
<1>6. KeptMemory(Fresh, h, 0)
  BY <1>2 DEF KeptMemory, Fresh
<1>7. Fresh.hit = FirstWire(h, 0)
  BY <1>2, FirstWireIs DEF Fresh
<1>8. QED
  BY <1>3, <1>4, <1>5, <1>6, <1>7 DEF Kept

-----------------------------------------------------------------------------
(* The log of a turn stays ordered.                                        *)

(* A message's calls take the places they are given as ids, and its        *)
(* results answer calls of earlier messages.                               *)
LEMMA OrderedGrows ==
    ASSUME Ordered(log), ObserveTurn, ~Reset
    PROVE  \E n \in Nat : \E blocks \in [1..n -> Blocks] :
               /\ Observed(blocks) /\ Ordered(log \o blocks)
<1>0. log \in Seq(Blocks) /\ Len(log) \in Nat
  BY DEF Ordered
<1>1. ASSUME NEW n \in Nat, NEW blocks \in [1..n -> Blocks], Observed(blocks),
             \A i \in 1..n : /\ blocks[i].kind = "call" => blocks[i].id = Len(log) + i
                             /\ IsResult(blocks[i]) => blocks[i].id \in Answered
      PROVE  Ordered(log \o blocks)
  <2> DEFINE h == log \o blocks
  <2>1. /\ h \in Seq(Blocks) /\ Len(h) = Len(log) + n
        /\ \A i \in 1..Len(log) : h[i] = log[i]
        /\ \A i \in 1..n : h[Len(log) + i] = blocks[i]
    BY <1>0, LogGrows
  <2> HIDE DEF h
  <2>2. ASSUME NEW i \in 1..Len(log) PROVE InPlace(h, i)
    <3>1. InPlace(log, i)
      BY DEF Ordered
    <3>2. h[i] = log[i]
      BY <2>1
    <3>3. ASSUME IsResult(log[i]) PROVE h[log[i].id] = log[log[i].id]
      <4>1. log[i].id \in 1 .. i - 1
        BY <3>1, <3>3 DEF InPlace
      <4>2. log[i].id \in 1..Len(log)
        BY <1>0, <4>1
      <4>3. QED
        BY <2>1, <4>2
    <3>4. QED
      BY <3>1, <3>2, <3>3 DEF InPlace
  <2>3. ASSUME NEW i \in 1..n PROVE InPlace(h, Len(log) + i)
    <3>1. h[Len(log) + i] = blocks[i]
      BY <2>1
    <3>2. ASSUME IsResult(blocks[i])
          PROVE  blocks[i].id \in 1 .. (Len(log) + i) - 1 /\ h[blocks[i].id].kind = "call"
      <4>1. blocks[i].id \in 1..Len(log) /\ log[blocks[i].id].kind = "call"
        BY <1>0, <1>1, <3>2 DEF Answered
      <4>2. QED
        BY <1>0, <2>1, <4>1
    <3>3. QED
      BY <1>1, <3>1, <3>2 DEF InPlace
  <2>4. ASSUME NEW i \in 1..Len(h) PROVE InPlace(h, i)
    <3>1. CASE i <= Len(log)
      BY <1>0, <2>2, <3>1
    <3>2. CASE i > Len(log)
      <4>1. i - Len(log) \in 1..n /\ Len(log) + (i - Len(log)) = i
        BY <1>0, <2>1, <3>2
      <4>2. QED
        BY <2>3, <4>1
    <3>3. QED
      BY <1>0, <3>1, <3>2
  <2>5. QED
    BY <2>1, <2>4 DEF Ordered, h
<1>2. CASE ObserveResponse
  <2>1. PICK n \in Room : \E cs \in [1..n -> Calls \cup {None}] :
            Observed([i \in 1..n |-> CallBlock(cs[i], Len(log) + i)])
    BY <1>2 DEF ObserveResponse
  <2>2. PICK cs \in [1..n -> Calls \cup {None}] :
            Observed([i \in 1..n |-> CallBlock(cs[i], Len(log) + i)])
    BY <2>1
  <2> DEFINE blocks == [i \in 1..n |-> CallBlock(cs[i], Len(log) + i)]
  <2>3. n \in Nat
    BY <1>0, RoomIsNat, BlocksAssumption
  <2>4. ASSUME NEW i \in 1..n
        PROVE  /\ blocks[i] \in Blocks /\ ~IsResult(blocks[i])
               /\ blocks[i].id = Len(log) + i
    <3>1. cs[i] \in Calls \cup {None} /\ Len(log) + i \in Nat
      BY <1>0, <2>3
    <3>2. CallBlock(cs[i], Len(log) + i) \in Blocks
      BY <3>1, CallsAreBlocks
    <3>3. QED
      BY <3>2 DEF CallBlock, IsResult
  <2>5. blocks \in [1..n -> Blocks]
    BY <2>4
  <2>6. Observed(blocks)
    BY <2>2
  <2> HIDE DEF blocks
  <2>7. Ordered(log \o blocks)
    BY <1>1, <2>3, <2>4, <2>5, <2>6
  <2>8. QED
    BY <2>3, <2>5, <2>6, <2>7
<1>3. CASE ObserveToolResults
  <2>1. PICK n \in Room : \E bs \in [1..n -> AnyResult \cup {Interrupt}] : Observed(bs)
    BY <1>3 DEF ObserveToolResults
  <2>2. PICK bs \in [1..n -> AnyResult \cup {Interrupt}] : Observed(bs)
    BY <2>1
  <2>3. n \in Nat
    BY <1>0, RoomIsNat, BlocksAssumption
  <2>4. ASSUME NEW b \in AnyResult \cup {Interrupt}
        PROVE  b \in Blocks /\ b.kind # "call" /\ (IsResult(b) => b.id \in Answered)
    <3>1. b \in Blocks
      BY <1>0, ResultsAreBlocks
    <3>2. CASE b = Interrupt
      BY <3>1, <3>2 DEF Interrupt, IsResult
    <3>3. CASE b \in AnyResult
      BY <3>1, <3>3 DEF AnyResult, ResultBlock
    <3>4. QED
      BY <3>2, <3>3
  <2>5. bs \in [1..n -> Blocks]
    BY <2>4
  <2>6. \A i \in 1..n : /\ bs[i].kind = "call" => bs[i].id = Len(log) + i
                        /\ IsResult(bs[i]) => bs[i].id \in Answered
    BY <2>4
  <2>7. Ordered(log \o bs)
    BY <1>1, <2>2, <2>3, <2>5, <2>6
  <2>8. QED
    BY <2>2, <2>3, <2>5, <2>7
<1>4. QED
  BY <1>2, <1>3 DEF ObserveTurn

(* Every step keeps the reading.                                           *)
LEMMA KeptPreserved ==
    ASSUME KeptInv, [ObserveTurn]_wireVars
    PROVE  KeptInv'
<1>0. Ordered(log) /\ log \in Seq(Blocks) /\ Len(log) \in Nat
  BY DEF KeptInv, Ordered
<1>1. CASE Reset
  <2>1. wires' = Fresh /\ log' = <<>>
    BY <1>1 DEF Reset
  <2>2. Ordered(<<>>) /\ Len(<<>>) = 0
    BY DEF Ordered
  <2>3. QED
    BY <2>1, <2>2, FreshKept DEF KeptInv
<1>2. CASE ObserveTurn /\ ~Reset
  <2>1. PICK n \in Nat : \E blocks \in [1..n -> Blocks] :
            Observed(blocks) /\ Ordered(log \o blocks)
    BY <1>0, <1>2, OrderedGrows
  <2>2. PICK blocks \in [1..n -> Blocks] : Observed(blocks) /\ Ordered(log \o blocks)
    BY <2>1
  <2>3. wires' = ObserveAll(wires, blocks) /\ log' = log \o blocks
    BY <2>2 DEF Observed
  <2>4. /\ Len(log') = Len(log) + n
        /\ \A i \in 1..Len(log) : log'[i] = log[i]
        /\ \A i \in 1..n : log'[Len(log) + i] = blocks[i]
    BY <1>0, <2>3, LogGrows
  <2>5. ASSUME NEW g, Ordered(g), Extends(g, log') PROVE Kept(wires', g, Len(log'))
    <3>1. Len(g) >= Len(log) + n /\ Len(g) \in Nat
      BY <2>4, <2>5 DEF Extends, Ordered
    <3>2. \A i \in 1 .. Len(log) + n : g[i] = log'[i]
      BY <2>4, <2>5 DEF Extends
    <3>3. Extends(g, log)
      BY <1>0, <2>4, <3>1, <3>2 DEF Extends
    <3>4. \A i \in 1..n : g[Len(log) + i] = blocks[i]
      BY <1>0, <2>4, <3>2
    <3>5. Kept(wires, g, Len(log))
      BY <2>5, <3>3 DEF KeptInv
    <3>6. Kept(ObserveAll(wires, blocks), g, Len(log) + n)
      BY <1>0, <2>5, <3>1, <3>4, <3>5, MessageKept
    <3>7. QED
      BY <2>3, <2>4, <3>6
  <2>6. QED
    BY <2>2, <2>3, <2>5 DEF KeptInv
<1>3. CASE UNCHANGED wireVars
  BY <1>3 DEF wireVars, KeptInv
<1>4. QED
  BY <1>1, <1>2, <1>3

(* However the turn goes on, the wires are the reading of its log.         *)
THEOREM ReadingKept == WiresSpec => []KeptInv
<1>1. InitWires => KeptInv
  <2>1. Ordered(<<>>) /\ Len(<<>>) = 0
    BY DEF Ordered
  <2>2. QED
    BY <2>1, FreshKept DEF InitWires, KeptInv
<1>2. QED
  BY <1>1, KeptPreserved, PTL DEF WiresSpec

(* The hit is the wire of the first entry of the turn that trips one       *)
(* (TripwireState._trip, tripwires.py:331), for any calls, thresholds,     *)
(* window and lengths of message and turn.                                 *)
THEOREM FirstWireStays == WiresSpec => []FirstWireLatched
<1>1. KeptInv => FirstWireLatched
  <2> SUFFICES ASSUME KeptInv PROVE FirstWireLatched
    OBVIOUS
  <2>1. Ordered(log) /\ Extends(log, log)
    BY DEF KeptInv, Extends, Ordered
  <2>2. Kept(wires, log, Len(log))
    BY <2>1 DEF KeptInv
  <2>3. QED
    BY <2>2 DEF Kept, FirstWireLatched
<1>2. QED
  BY <1>1, ReadingKept, PTL

-----------------------------------------------------------------------------
(* Routing by experience.                                                  *)

(* Behind ShadowNeverBolder: what earlier turns that did not move since say  *)
(* of a turn today, is something it could be told when it was routed.        *)
Stands(t) ==
    answered[t] # {"cold"} =>
        \A kept \in Ballots(Before(t), world[t].query, world[t].source) :
            kept \cap moved[t] = {} =>
                Vote(kept, world[t].query, Ts(t)) \in answered[t]

AnswerStands ==
    /\ clock \in 0 .. Len(Order)
    /\ DOMAIN rows = Turns /\ DOMAIN answered = Turns /\ DOMAIN moved = Turns
    /\ \A t \in Routed : "status" \in DOMAIN rows[t] /\ Stands(t)

(* The order of routing lists finitely many turns. *)
LEMMA TurnsFinite == IsFiniteSet(Turns)
<1>1. Len(Order) \in Nat /\ DOMAIN Order = 1 .. Len(Order)
  BY RetrievalAssumption
<1>2. IsFiniteSet(1 .. Len(Order))
  BY <1>1, FS_Interval
<1>3. Order \in Surjection(1 .. Len(Order), Turns)
  BY <1>1, RetrievalAssumption DEF Surjection, Turns, Range
<1>4. QED
  BY <1>2, <1>3, FS_Surjection

(* Every turn has one place in the order of routing.                        *)
LEMMA TsPlace ==
    /\ \A t \in Turns : Ts(t) \in 1 .. Len(Order) /\ Order[Ts(t)] = t
    /\ \A i \in 1 .. Len(Order) : Order[i] \in Turns /\ Ts(Order[i]) = i
<1>1. Len(Order) \in Nat /\ DOMAIN Order = 1 .. Len(Order)
  BY RetrievalAssumption
<1>2. ASSUME NEW t \in Turns
      PROVE  Ts(t) \in 1 .. Len(Order) /\ Order[Ts(t)] = t
  <2>1. \E i \in DOMAIN Order : Order[i] = t
    BY DEF Turns, Range
  <2>2. QED
    BY <1>1, <2>1 DEF Ts
<1>3. ASSUME NEW i \in 1 .. Len(Order)
      PROVE  Order[i] \in Turns /\ Ts(Order[i]) = i
  <2>1. Order[i] \in Turns
    BY <1>1 DEF Turns, Range
  <2>2. QED
    BY <1>1, <1>2, <2>1, RetrievalAssumption
<1>4. QED
  BY <1>2, <1>3

(* Who may vote is a matter of the turns asked, their similarities and the   *)
(* world; the verdict also of the rows of those who vote, and of no other.   *)
LEMMA BallotsOfWorld ==
    ASSUME NEW S, NEW sim, NEW source, world' = world
    PROVE  Ballots(S, sim, source)' = Ballots(S, sim, source)
  BY DEF Ballots, Cuts, Passing, Embedded

LEMMA VoteOfRows ==
    ASSUME NEW kept, NEW sim, NEW now,
           world' = world, \A n \in kept : rows'[n] = rows[n]
    PROVE  Vote(kept, sim, now)' = Vote(kept, sim, now)
<1> DEFINE hard == {n \in kept : EffectiveHard(rows[n], world[n].rung)}
<1>1. hard' = hard
  OBVIOUS
<1>2. Decide(kept, sim, now)' = Decide(kept, sim, now)
  BY <1>1 DEF Decide
<1>3. QED
  BY <1>2 DEF Vote

(* Those who vote of many may vote of any of them they all are among.        *)
LEMMA FewerBallots ==
    ASSUME NEW R, NEW S \in SUBSET R, NEW sim, NEW source,
           NEW kept \in Ballots(R, sim, source), kept \subseteq S
    PROVE  kept \in Ballots(S, sim, source)
<1> DEFINE P == Passing(Embedded(R), sim, source)
           Q == Passing(Embedded(S), sim, source)
<1>1. Q \subseteq P /\ \A n \in P : n \in S => n \in Q
  BY DEF Passing, Embedded
<1>2. kept \in Cuts(P, sim)
  BY DEF Ballots
<1> HIDE DEF P, Q
<1>3. kept \in SUBSET Q
  BY <1>1, <1>2 DEF Cuts
<1>4. Cardinality(kept) <= TopK /\ (kept # Q => Cardinality(kept) = TopK)
  BY <1>1, <1>2, <1>3 DEF Cuts
<1>5. \A n \in kept, m \in Q \ kept : sim[n] >= sim[m]
  BY <1>1, <1>2 DEF Cuts
<1>6. kept \in Cuts(Q, sim)
  BY <1>3, <1>4, <1>5 DEF Cuts
<1>7. QED
  BY <1>6 DEF Ballots, Q

(* Two rankings that agree on the turns asked let the same vote, for the     *)
(* same verdict.                                                             *)
LEMMA RankedAlike ==
    ASSUME NEW S, NEW sim, NEW other, NEW source, NEW now,
           \A n \in S : sim[n] = other[n],
           NEW kept \in Ballots(S, sim, source)
    PROVE  /\ kept \in Ballots(S, other, source)
           /\ Vote(kept, sim, now) = Vote(kept, other, now)
<1> DEFINE P == Passing(Embedded(S), sim, source)
<1>1. P = Passing(Embedded(S), other, source) /\ P \subseteq S
  BY DEF Passing, Embedded
<1>2. kept \in Cuts(P, sim)
  BY DEF Ballots
<1> HIDE DEF P
<1>3. kept \in SUBSET P
  BY <1>2 DEF Cuts
<1>4. kept \in Cuts(P, other)
  <2>1. Cardinality(kept) <= TopK /\ (kept # P => Cardinality(kept) = TopK)
    BY <1>2 DEF Cuts
  <2>2. \A n \in kept, m \in P \ kept : sim[n] >= sim[m]
    BY <1>2 DEF Cuts
  <2>3. \A n \in kept, m \in P \ kept : other[n] >= other[m]
    BY <1>1, <1>3, <2>2
  <2>4. QED
    BY <1>3, <2>1, <2>3 DEF Cuts
<1>5. [n \in kept |-> Weight(n, sim, now)] = [n \in kept |-> Weight(n, other, now)]
  BY <1>1, <1>3 DEF Weight
<1>6. Decide(kept, sim, now) = Decide(kept, other, now)
  BY <1>5 DEF Decide, MostlyHard
<1>7. QED
  BY <1>1, <1>4, <1>6 DEF Ballots, Vote

(* Turns without a vector have no vote to give.                             *)
LEMMA OnlyEmbeddedVote ==
    ASSUME NEW S, NEW sim, NEW source
    PROVE  Ballots(Embedded(S), sim, source) = Ballots(S, sim, source)
<1>1. Embedded(Embedded(S)) = Embedded(S)
  BY DEF Embedded
<1>2. QED
  BY <1>1 DEF Ballots

(* For organic traffic the firewall leaves of any turns those it would leave *)
(* of the organic ones: whichever of equally similar turns come to vote, no  *)
(* synthetic turn takes one of the K places, and past the cold start the     *)
(* answers an organic turn may get are those of a ledger without synthetic   *)
(* turns (retrieval_router.py evaluate_neighbors).                           *)
THEOREM RetrievalFirewall == RetrievalSpec => []FirewallHolds
<1>1. FirewallHolds
  <2> SUFFICES ASSUME NEW t \in Turns, world[t].source = "organic",
                      Cardinality(ClosedTurns) >= MinFinalized
               PROVE  Resolve(t) = Evaluate({u \in ClosedTurns : world[u].source # "simulator"},
                                            world[t].query, "organic", clock + 1)
    BY DEF FirewallHolds
  <2> DEFINE organic == {u \in ClosedTurns : world[u].source # "simulator"}
  <2>1. Passing(Embedded(ClosedTurns), world[t].query, "organic")
            = Passing(Embedded(organic), world[t].query, "organic")
    BY DEF Passing, Embedded
  <2>2. Cardinality(ClosedTurns) \in Nat
    BY TurnsFinite, FS_Subset, FS_CardinalityType DEF ClosedTurns, Routed
  <2>3. ~(Cardinality(ClosedTurns) < MinFinalized)
    BY <2>2, RetrievalAssumption
  <2>4. QED
    BY <2>1, <2>3 DEF Resolve, Evaluate, Ballots
<1>2. QED
  BY <1>1, PTL

-----------------------------------------------------------------------------
(* No turn is routed at first. *)
LEMMA InitAnswers == InitRetrieval => AnswerStands
<1> SUFFICES ASSUME InitRetrieval PROVE AnswerStands
  OBVIOUS
<1>1. Routed = {}
  BY TsPlace DEF InitRetrieval, Routed
<1>2. Len(Order) \in Nat
  BY RetrievalAssumption
<1>3. QED
  BY <1>1, <1>2 DEF InitRetrieval, AnswerStands

(* What a turn was told stands as long as the rows before it close, and are *)
(* changed only with a mark.                                                *)
LEMMA StandsAfter ==
    ASSUME NEW t \in Turns, Stands(t), world' = world, answered'[t] = answered[t],
           moved[t] \subseteq moved'[t],
           NEW S, NEW R, S \subseteq R, Before(t) = S, Before(t)' = R,
           \A n \in R \ moved'[t] : n \in S /\ rows'[n] = rows[n]
    PROVE  Stands(t)'
<1> DEFINE sim == world[t].query
           source == world[t].source
<1> SUFFICES ASSUME answered'[t] # {"cold"},
                    NEW kept \in Ballots(R, sim, source), kept \cap moved'[t] = {}
             PROVE  Vote(kept, sim, Ts(t))' \in answered'[t]
  BY BallotsOfWorld DEF Stands
<1>1. kept \subseteq R
  BY DEF Ballots, Cuts, Passing, Embedded
<1>2. kept \subseteq S /\ \A n \in kept : rows'[n] = rows[n]
  BY <1>1
<1>3. kept \in Ballots(S, sim, source)
  BY <1>2, FewerBallots
<1>4. Vote(kept, sim, Ts(t)) \in answered[t]
  BY <1>3 DEF Stands
<1>5. Vote(kept, sim, Ts(t))' = Vote(kept, sim, Ts(t))
  BY <1>2, VoteOfRows
<1>6. QED
  BY <1>4, <1>5

(* A row of which the router and the evaluation ask.                         *)
IsClosed(row) == row.status \in {"closed_turn", "closed_final"}

(* The next turn of a session, an answer and a verifier each rewrite one     *)
(* row, of which a closed one stays closed, and the turns routed after it    *)
(* are marked.                                                               *)
LEMMA RowRewritten ==
    ASSUME AnswerStands, NEW t \in Routed, NEW row,
           rows' = [rows EXCEPT ![t] = row], MarkLater(t),
           "status" \in DOMAIN row, IsClosed(rows[t]) => IsClosed(row),
           UNCHANGED <<world, clock, answered>>
    PROVE  AnswerStands'
<1>1. /\ clock \in 0 .. Len(Order) /\ DOMAIN rows = Turns /\ DOMAIN answered = Turns
      /\ Len(Order) \in Nat /\ t \in Turns
  BY RetrievalAssumption DEF AnswerStands, Routed
<1>2. DOMAIN rows' = Turns /\ DOMAIN moved' = Turns
  BY <1>1 DEF MarkLater
<1>3. Routed' = Routed
  BY DEF Routed
<1>4. ASSUME NEW u \in Routed
      PROVE  "status" \in DOMAIN rows'[u] /\ Stands(u)'
  <2>1. u \in Turns /\ "status" \in DOMAIN rows[u] /\ Stands(u)
    BY DEF AnswerStands, Routed
  <2>2. "status" \in DOMAIN rows'[u]
    BY <1>1, <2>1
  <2> DEFINE S == Before(u)
             R == {v \in Turns : /\ Ts(v) <= clock /\ Ts(v) < Ts(u)
                                /\ IsClosed(rows'[v])}
  <2>3. Before(u)' = R /\ S = {v \in Turns : /\ Ts(v) <= clock /\ Ts(v) < Ts(u)
                                           /\ IsClosed(rows[v])}
    BY DEF Before, ClosedTurns, Routed, IsClosed
  <2>4. \A v \in Turns : v # t => rows'[v] = rows[v]
    BY <1>1
  <2>5. rows'[t] = row
    BY <1>1
  <2>6. S \subseteq R
    BY <2>3, <2>4, <2>5
  <2>7. moved'[u] = moved[u] \cup {v \in {t} : u \in Routed /\ Ts(v) < Ts(u)
                                             /\ rows'[v] # rows[v]}
    BY <2>1 DEF MarkLater
  <2>8. ASSUME NEW n \in R \ moved'[u] PROVE n \in S /\ rows'[n] = rows[n]
    <3>1. n \in Turns /\ Ts(n) <= clock /\ Ts(n) < Ts(u) /\ IsClosed(rows'[n])
      OBVIOUS
    <3>2. rows'[n] = rows[n]
      BY <2>4, <2>7, <2>8, <3>1
    <3>3. QED
      BY <2>3, <3>1, <3>2
  <2>9. moved[u] \subseteq moved'[u]
    BY <2>7
  <2> HIDE DEF R
  <2>10. Stands(u)'
    BY <2>1, <2>3, <2>6, <2>8, <2>9, StandsAfter
  <2>11. QED
    BY <2>2, <2>10
<1>5. QED
  BY <1>1, <1>2, <1>3, <1>4 DEF AnswerStands

(* The turn being routed is told what the rows before it say; those before   *)
(* it are told nothing new.                                                  *)
LEMMA RoutedAnswered ==
    ASSUME AnswerStands, RouteNext
    PROVE  AnswerStands'
<1>1. /\ clock \in 0 .. Len(Order) /\ DOMAIN rows = Turns
      /\ DOMAIN answered = Turns /\ DOMAIN moved = Turns
      /\ Len(Order) \in Nat
  BY RetrievalAssumption DEF AnswerStands
<1>2. clock < Len(Order) /\ clock' = clock + 1 /\ world' = world /\ moved' = moved
  BY DEF RouteNext
<1>3. PICK t \in Turns : t = Order[clock + 1] /\ Ts(t) = clock + 1
  BY <1>1, <1>2, TsPlace
<1>4. answered' = [answered EXCEPT ![t] = Resolve(t)]
  BY <1>3 DEF RouteNext
<1>5. /\ DOMAIN rows' = Turns
      /\ \A u \in Turns : u # t => rows'[u] = rows[u]
      /\ "status" \in DOMAIN rows'[t]
  BY <1>1, <1>3 DEF RouteNext
<1>6. \A u \in Turns : Ts(u) \in Int
  BY TsPlace
<1>7. ASSUME NEW u \in Routed'
      PROVE  "status" \in DOMAIN rows'[u] /\ Stands(u)'
  <2>0. u \in Turns /\ Ts(u) <= clock + 1
    BY <1>2 DEF Routed
  <2> DEFINE R == {v \in Turns : /\ Ts(v) <= clock' /\ Ts(v) < Ts(u)
                                /\ IsClosed(rows'[v])}
  <2>1. Before(u)' = R
    BY DEF Before, ClosedTurns, Routed, IsClosed
  <2>2. CASE u = t
    <3>1. R = ClosedTurns
      <4>1. \A v \in Turns : (Ts(v) <= clock' /\ Ts(v) < Ts(u)) <=> Ts(v) <= clock
        BY <1>1, <1>2, <1>3, <1>6, <2>2
      <4>2. \A v \in Turns : Ts(v) <= clock => rows'[v] = rows[v]
        BY <1>1, <1>3, <1>5, <1>6
      <4>3. QED
        BY <4>1, <4>2 DEF ClosedTurns, Routed, IsClosed
    <3>2. ASSUME answered'[t] # {"cold"},
                 NEW kept \in Ballots(ClosedTurns, world[t].query, world[t].source)
          PROVE  Vote(kept, world[t].query, Ts(t))' \in answered'[t]
      <4>1. \A n \in kept : rows'[n] = rows[n]
        <5>1. kept \subseteq ClosedTurns
          BY DEF Ballots, Cuts, Passing, Embedded
        <5>2. \A n \in ClosedTurns : n \in Turns /\ n # t
          BY <1>1, <1>3, <1>6 DEF ClosedTurns, Routed
        <5>3. QED
          BY <1>5, <5>1, <5>2
      <4>2. Vote(kept, world[t].query, Ts(t))' = Vote(kept, world[t].query, Ts(t))
        BY <1>2, <4>1, VoteOfRows
      <4>3. answered'[t] = Resolve(t)
        BY <1>1, <1>4
      <4>4. Vote(kept, world[t].query, clock + 1) \in Resolve(t)
        BY <3>2, <4>3 DEF Resolve, Evaluate
      <4>5. QED
        BY <1>3, <4>2, <4>3, <4>4
    <3> DEFINE A == ClosedTurns
    <3> HIDE DEF R, A
    <3>3. Ballots(Before(t), world[t].query, world[t].source)'
             = Ballots(A, world[t].query, world[t].source)
      BY <1>2, <2>1, <2>2, <3>1, BallotsOfWorld DEF A
    <3>4. Stands(t)'
      BY <3>2, <3>3 DEF Stands, A
    <3>5. QED
      BY <1>5, <2>2, <3>4
  <2>3. CASE u # t
    <3>2. Ts(u) # clock + 1
      BY <1>3, <2>3, <2>0, TsPlace
    <3>3. Ts(u) <= clock /\ u \in Routed
      BY <1>1, <1>6, <2>0, <3>2 DEF Routed
    <3>4. \A v \in Turns : Ts(v) < Ts(u) => rows'[v] = rows[v]
      BY <1>1, <1>3, <1>5, <1>6, <2>0, <3>3
    <3>5. \A v \in Turns : (Ts(v) <= clock' /\ Ts(v) < Ts(u)) <=>
                              (Ts(v) <= clock /\ Ts(v) < Ts(u))
      BY <1>1, <1>2, <1>6, <2>0, <3>3
    <3>6. R = Before(u)
      BY <3>4, <3>5 DEF Before, ClosedTurns, Routed, IsClosed
    <3>7. answered'[u] = answered[u] /\ moved'[u] = moved[u]
      BY <1>1, <1>2, <1>4, <2>3, <2>0
    <3>8. \A n \in Before(u) : rows'[n] = rows[n]
      BY <3>4 DEF Before, ClosedTurns, Routed
    <3>9. Stands(u) /\ "status" \in DOMAIN rows[u]
      BY <3>3 DEF AnswerStands
    <3> HIDE DEF R
    <3>10. Stands(u)'
      BY <1>2, <2>0, <2>1, <3>6, <3>7, <3>8, <3>9, StandsAfter
    <3>11. QED
      BY <1>5, <2>0, <2>3, <3>9, <3>10
  <2>4. QED
    BY <2>2, <2>3
<1>8. QED
  BY <1>1, <1>2, <1>4, <1>5, <1>7 DEF AnswerStands

(* Every step of the router, of answers and of verifiers keeps what was    *)
(* answered.                                                               *)
LEMMA StepAnswers == AnswerStands /\ [RetrievalNext]_retrievalVars => AnswerStands'
<1> SUFFICES ASSUME AnswerStands, [RetrievalNext]_retrievalVars PROVE AnswerStands'
  OBVIOUS
<1>0. \A t \in Routed : "status" \in DOMAIN rows[t]
  BY DEF AnswerStands
<1>1. CASE NextTurnBegins
  <2> DEFINE open == OpenOf(world[Order[clock + 1]].session)
  <2>1. PICK retried \in BOOLEAN : open # {} /\ Finalize(Newest(open), retried)
    BY <1>1 DEF NextTurnBegins
  <2>2. Newest(open) \in Routed
    <3>1. open \subseteq Routed /\ open \subseteq Turns /\ IsFiniteSet(open)
      BY TurnsFinite, FS_Subset DEF OpenOf, OpenTurns, Routed
    <3>2. \A t \in open : Ts(t) \in Nat
      BY <3>1, TsPlace
    <3>3. \E t \in open : \A u \in open : Ts(u) <= Ts(t)
      <4> DEFINE A == {Ts(t) : t \in open}
      <4>1. A \in SUBSET (1 .. Len(Order)) /\ A # {}
        BY <2>1, <3>1, TsPlace
      <4>2. Len(Order) \in Nat
        BY RetrievalAssumption
      <4>3. \E x \in A : \A y \in A : x >= y
        BY <4>1, <4>2, GreatestExists
      <4>4. QED
        BY <3>2, <4>3
    <3>4. QED
      BY <3>1, <3>3 DEF Newest
  <2>3. ASSUME NEW t \in Routed, Finalize(t, retried)
        PROVE  AnswerStands'
    <3> DEFINE row == [rows[t] EXCEPT !.status = "closed_final", !.retried = retried,
                          !.signal = IF retried THEN TRUE ELSE rows[t].signal]
    <3>1. /\ rows' = [rows EXCEPT ![t] = row] /\ MarkLater(t)
          /\ UNCHANGED <<world, clock, answered>>
      BY <2>3 DEF Finalize
    <3>2. "status" \in DOMAIN row /\ IsClosed(row)
      BY <1>0 DEF IsClosed
    <3> HIDE DEF row
    <3>3. QED
      BY <3>1, <3>2, RowRewritten
  <2>4. QED
    BY <2>1, <2>2, <2>3
<1>2. CASE RouteNext
  BY <1>2, RoutedAnswered
<1>3. ASSUME NEW t \in Turns, NEW e \in Evidence, Attach(t, e)
      PROVE  AnswerStands'
  <2> DEFINE row == [rows[t] EXCEPT !.status = "closed_turn", !.escalated = e.escalated,
                        !.proxy = ProxyHard(e), !.signal = TaskSignal(e)]
  <2>1. /\ rows' = [rows EXCEPT ![t] = row] /\ MarkLater(t) /\ t \in Routed
        /\ UNCHANGED <<world, clock, answered>>
    BY <1>3 DEF Attach, OpenTurns
  <2>2. "status" \in DOMAIN row /\ IsClosed(row)
    BY <1>0, <2>1 DEF IsClosed
  <2> HIDE DEF row
  <2>3. QED
    BY <2>1, <2>2, RowRewritten
<1>4. ASSUME NEW t \in Turns, NEW v \in Verifications, Verify(t, v)
      PROVE  AnswerStands'
  <2> DEFINE row == [rows[t] EXCEPT !.verified = v.verified, !.cause = v.cause]
  <2>1. /\ rows' = [rows EXCEPT ![t] = row] /\ MarkLater(t) /\ t \in Routed
        /\ UNCHANGED <<world, clock, answered>>
    BY <1>4 DEF Verify
  <2>2. "status" \in DOMAIN row /\ row.status = rows[t].status
    BY <1>0, <2>1
  <2> HIDE DEF row
  <2>3. QED
    BY <2>1, <2>2, RowRewritten DEF IsClosed
<1>5. CASE UNCHANGED retrievalVars
  <2>1. /\ DOMAIN rows' = Turns /\ DOMAIN answered' = Turns /\ DOMAIN moved' = Turns
        /\ clock' \in 0 .. Len(Order)
    BY <1>5 DEF retrievalVars, AnswerStands
  <2>2. Routed' = Routed
    BY <1>5 DEF retrievalVars, Routed
  <2>3. ASSUME NEW u \in Routed
        PROVE  "status" \in DOMAIN rows'[u] /\ Stands(u)'
    <3>1. u \in Turns /\ Stands(u) /\ "status" \in DOMAIN rows[u]
      BY DEF AnswerStands, Routed
    <3>2. Before(u)' = Before(u)
      BY <1>5 DEF retrievalVars, Before, ClosedTurns, Routed
    <3>3. UNCHANGED <<world, rows, answered, moved>>
      BY <1>5 DEF retrievalVars
    <3>4. QED
      BY <3>1, <3>2, <3>3, StandsAfter
  <2>4. QED
    BY <2>1, <2>2, <2>3 DEF AnswerStands
<1>6. QED
  BY <1>1, <1>2, <1>3, <1>4, <1>5 DEF RetrievalNext

(* The strengthening behind ShadowNeverBolder, of every reachable ledger:  *)
(* what earlier turns that did not move say today, the resolver could say  *)
(* when the turn was routed (retrieval_router.py resolve).                 *)
THEOREM AnswersStand == RetrievalSpec => []AnswerStands
<1>1. QED
  BY InitAnswers, StepAnswers, PTL DEF RetrievalSpec

(* The shadow asks the rows before the turn that have a vector, by its     *)
(* document similarity; where the two similarities agree, those who vote   *)
(* may vote by the resolver's.                                             *)
LEMMA StandingAnswers == AnswerStands => ShadowNeverBolder
<1> SUFFICES ASSUME AnswerStands, NEW t \in Targets, NEW kept \in Shadow(t),
                    RanksAlike(t), kept \cap moved[t] = {},
                    answered[t] # {"cold"}
             PROVE  ShadowVerdict(t, kept) \in answered[t]
  BY DEF ShadowNeverBolder
<1> DEFINE past == Before(t)
           query == world[t].query
           document == world[t].document
           source == world[t].source
<1>1. t \in Routed
  BY DEF Targets, ClosedTurns
<1>2. kept \in Ballots(Embedded(past), document, source)
  BY DEF Shadow
<1>3. kept \in Ballots(past, document, source)
  BY <1>2, OnlyEmbeddedVote
<1>4. \A u \in past : document[u] = query[u]
  BY DEF RanksAlike, Before, ClosedTurns, Routed
<1>5. /\ kept \in Ballots(past, query, source)
      /\ Vote(kept, document, Ts(t)) = Vote(kept, query, Ts(t))
  BY <1>3, <1>4, RankedAlike
<1>6. Stands(t)
  BY <1>1 DEF AnswerStands
<1>7. QED
  BY <1>5, <1>6 DEF Stands, ShadowVerdict

(* Where the two prefixes rank alike and the router was past its cold      *)
(* start, the evaluation (shadow_retrieval.py) gives a verdict the turn    *)
(* could not be routed by only through the vote of a turn whose row        *)
(* changed since, for every ledger, every order of answers, every          *)
(* threshold and every choice among equally similar turns.                 *)
THEOREM NeverBolder == RetrievalSpec => []ShadowNeverBolder
  BY AnswersStand, StandingAnswers, PTL
=============================================================================
