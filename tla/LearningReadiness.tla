--------------------------- MODULE LearningReadiness --------------------------
(***************************************************************************)
(* From evidence to authority (learning_readiness.py): the readiness       *)
(* report reads the ledger, the organic evidence file, the counterfactual  *)
(* dataset and the reviews, all written by other processes, and judges     *)
(* seven gates. The report is a function of what it reads, so it is an     *)
(* operator here, and what it would say is asked of every state.           *)
(*                                                                         *)
(* Organic evidence comes from LiveVerification: at most one context per   *)
(* route, whose ledger event is there. Counterfactual runs write the same  *)
(* verifier columns.                                                       *)
(***************************************************************************)
EXTENDS Counterfactual

CONSTANTS
    Route,        \* route -> its decision, see RouteAssumption
    MaxReviews,   \* bound on the lines of label-audit.jsonl
    WilsonZ2,     \* square of the audit policy's wilson_z, in quarters
    WilsonFloor,  \* minimum_wilson_lower_bound, a fraction
    Samples       \* [s, n, z, floor]: audits to ask the Wilson bound about

ASSUME RouteAssumption ==
    /\ MaxReviews \in Nat /\ WilsonZ2 \in Nat
    /\ WilsonFloor \in Nat \X Nat /\ Fraction(WilsonFloor)
    /\ \A r \in Routes : /\ Route[r].plan \in DOMAIN Plan
                         /\ Route[r].decided \in Nat
                         /\ Route[r].provenance \in BOOLEAN

ASSUME SamplesAssumption ==
    \A x \in Samples :
        /\ x.n \in Nat \ {0} /\ x.s \in 0 .. x.n /\ x.z \in Nat
        /\ x.floor \in Nat \X Nat /\ x.floor[1] < x.floor[2]

VARIABLES
    final,      \* routes whose outcome is closed_final
    contexts,   \* route -> the verdict its line of verified-evidence.jsonl
                \* holds, or None
    reviews     \* lines of label-audit.jsonl

organicVars == <<final, contexts, reviews>>
vars == <<cfVars, organicVars>>

Init ==
    /\ InitCounterfactual
    /\ final = {}
    /\ contexts = [r \in Routes |-> None]
    /\ reviews = <<>>

(* A job of LiveVerification is brought to its end: the bare route's        *)
(* columns and its line of evidence get one verdict.                        *)
VerifyLive(r) ==
    /\ Route[r].source = "organic"
    /\ SerializedPlan(Plan[Route[r].plan])
    /\ ledger[r] = None
    /\ contexts[r] = None
    /\ \E ws \in Route[r].workspaces :
        LET v == Verdict(Plan[Route[r].plan], ws, Route[r].baseline)
        IN  /\ ledger' = [ledger EXCEPT ![r] = v]
            /\ contexts' = [contexts EXCEPT ![r] = v]
    /\ UNCHANGED <<phase, index, attempt, total, decided, clock, dataset,
                   roots, spent, overspent, faults, final, reviews>>

(* The row's outcome becomes final (RouteLedger). *)
Finalize(r) ==
    /\ r \notin final
    /\ final' = final \cup {r}
    /\ UNCHANGED <<cfVars, contexts, reviews>>

(* A reviewer adds a line about a piece of organic evidence. *)
Review(r) ==
    /\ contexts[r] # None
    /\ Len(reviews) < MaxReviews
    /\ \E agrees \in BOOLEAN :
           reviews' = Append(reviews, [evidence |-> r, agrees |-> agrees])
    /\ UNCHANGED <<cfVars, final, contexts>>

Next == \/ \E o \in Orders : RunStep(o) /\ UNCHANGED organicVars
        \/ \E r \in Routes : VerifyLive(r) \/ Finalize(r) \/ Review(r)

Spec == Init /\ [][Next]_vars

-----------------------------------------------------------------------------
(* Mutant: the continuity term is left out of the centre. *)
WilsonOffCentre(s, n, z, floor) ==
    LET p == floor[1]
        q == floor[2]
        lead == q * 8 * s - 2 * p * (4 * n + z)
    IN  IF n = 0 THEN p = 0
        ELSE p = 0 \/ (lead >= 0 /\ lead * lead * n
                                      >= z * q * q * (16 * s * (n - s) + z * n))

(* wilson_lower_bound(s, n, z) >= floor, without its root: with             *)
(* z^2 = Z/4 and floor = p/q the bound is                                   *)
(*    (s + z^2/2 - z sqrt(s(n-s)/n + z^2/4)) / (n + z^2), 0 when n = 0.     *)
WilsonReaches(s, n, z, floor) ==
    LET p == floor[1]
        q == floor[2]
        lead == q * (8 * s + z) - 2 * p * (4 * n + z)
    IN  IF n = 0 THEN p = 0
        ELSE p = 0 \/ (lead >= 0 /\ lead * lead * n
                                      >= z * q * q * (16 * s * (n - s) + z * n))

(* _context_to_evidence *)
ContextEvidence(r) ==
    [id |-> r, pair |-> Route[r].pair, task |-> Route[r].task,
     repository |-> Route[r].repository, snapshot |-> Route[r].snapshot,
     plan |-> Route[r].plan, features |-> Sanitize(Route[r].features),
     decided |-> Route[r].decided, source |-> Route[r].source,
     rung |-> Route[r].rung, model |-> Route[r].model,
     harness |-> Route[r].harness, success |-> ledger[r].success,
     quality |-> ledger[r].quality, verifier |-> "deterministic",
     confidence |-> ledger[r].confidence, cause |-> ledger[r].cause]

(* Mutant: the line is not compared with the ledger. *)
ContextUnchecked(r) ==
    /\ contexts[r] # None
    /\ ValidEvidence(ContextEvidence(r))

(* _validate_context: the line says what the ledger says today. *)
ContextValid(r) ==
    /\ contexts[r] # None
    /\ contexts[r] = ledger[r]
    /\ ValidEvidence(ContextEvidence(r))

ValidRoutes == {r \in Routes : ContextValid(r)}

Reasons(r) ==
    EligibilityReasons(Route[r].source, Route[r].layer, Route[r].features)

(* collect_readiness: organic labels that count. *)
Usable ==
    {ContextEvidence(r) : r \in {q \in ValidRoutes \cap final :
        CauseClean(ContextEvidence(q)) /\ Reasons(q) = {}}}

OrganicPairs == ValidPairs(Usable)
RepresentativePairs ==
    OrganicPairs \cup {p \in CounterfactualPairs :
        \A e \in GroupOf(CleanCounterfactual, p) : Order[e.id[1]].source = "organic"}

(* _label_stratum *)
Stratum(e) ==
    IF e.success = TRUE THEN "success"
    ELSE IF e.success = FALSE /\ e.cause = "task_capability"
      THEN "task_capability_failure"
    ELSE "other_or_unverifiable"

(* Mutant: reviews that do not count are passed over. *)
LabelAuditLenient ==
    LET counted == {i \in DOMAIN reviews : ContextValid(reviews[i].evidence)}
        of(stratum) ==
            {i \in counted :
                Stratum(ContextEvidence(reviews[i].evidence)) = stratum}
        passes(stratum) ==
            WilsonReaches(
                Cardinality({i \in of(stratum) : reviews[i].agrees}),
                Cardinality(of(stratum)), WilsonZ2, WilsonFloor)
    IN  [invalid |-> Len(reviews) - Cardinality(counted),
         passes |-> passes("success") /\ passes("task_capability_failure")]

(* _label_audit: a review counts if its evidence is valid and it is the     *)
(* first that is; one that does not count fails the audit.                  *)
LabelAudit ==
    LET counts(i) ==
            /\ ContextValid(reviews[i].evidence)
            /\ \A j \in 1 .. i - 1 : reviews[j].evidence # reviews[i].evidence
        counted == {i \in DOMAIN reviews : counts(i)}
        of(stratum) ==
            {i \in counted :
                Stratum(ContextEvidence(reviews[i].evidence)) = stratum}
        passes(stratum) ==
            WilsonReaches(
                Cardinality({i \in of(stratum) : reviews[i].agrees}),
                Cardinality(of(stratum)), WilsonZ2, WilsonFloor)
    IN  [invalid |-> Len(reviews) - Cardinality(counted),
         passes |-> /\ counted = DOMAIN reviews
                    /\ passes("success")
                    /\ passes("task_capability_failure")]

(* The seven gates of collect_readiness. The authority gate is a constant   *)
(* of the code. A line that does not parse stops the report altogether.     *)
Gates ==
    LET status(passes) == IF passes THEN "pass" ELSE "blocked"
    IN  [feature_contract |->
             status(\A r \in Routes : "features" \notin Reasons(r)),
         organic_verifier_labels |-> status(Usable # {}),
         classifier_provenance |->
             IF Usable = {} THEN "not_evaluated"
             ELSE status(\A e \in Usable : Route[e.id].provenance),
         label_precision |-> status(LabelAudit.passes),
         paired_counterfactual_integrity |->
             status(OrganicPairs \cup CounterfactualPairs # {}),
         representative_pairs |-> status(RepresentativePairs # {}),
         learned_router_authority |-> "blocked"]

Blockers == {g \in DOMAIN Gates : Gates[g] = "blocked"}
Report == IF Readable THEN Gates ELSE Rejected

-----------------------------------------------------------------------------
(* An organic label that counts is the verdict of the route's own live      *)
(* verification, whatever counterfactual runs have written over the         *)
(* ledger's columns before or since; so is each member of an organic pair,  *)
(* and a pair taken from the dataset is of one run on an organic task.      *)
LabelsAreOwn ==
    /\ \A e \in Usable :
           /\ contexts[e.id] # None
           /\ e.success = contexts[e.id].success
           /\ e.quality = contexts[e.id].quality
           /\ e.cause = contexts[e.id].cause
    /\ \A p \in RepresentativePairs :
           \/ p \in Orders /\ Order[p].source = "organic" /\ decided[p] > 0
           \/ \E r, q \in final :
                  /\ Route[r].pair = p /\ Route[r].rung \in LocalRungs
                  /\ Route[q].pair = p /\ Route[q].rung \in FrontierRungs
                  /\ \A t \in {r, q} : contexts[t] # None /\ contexts[t].success # None

(* The audit is passed by reviews of labels that still stand: each required *)
(* stratum has an agreeing review, no piece of evidence was reviewed twice, *)
(* and every reviewed verdict is the one the ledger shows.                  *)
AuditStands ==
    LabelAudit.passes =>
        /\ \A i, j \in DOMAIN reviews :
               reviews[i].evidence = reviews[j].evidence => i = j
        /\ \A i \in DOMAIN reviews :
               contexts[reviews[i].evidence] = ledger[reviews[i].evidence]
        /\ \A success \in BOOLEAN : \E i \in DOMAIN reviews :
               /\ reviews[i].agrees
               /\ ledger[reviews[i].evidence].success = success

(* The score test of a rate of at least the floor f: s/n >= f and           *)
(* (s - n f)^2 >= z^2 n f (1 - f).                                          *)
ScoreTest(s, n, z, floor) ==
    LET d == floor[2] * s - n * floor[1]
    IN  /\ d >= 0
        /\ 4 * d * d >= z * n * floor[1] * (floor[2] - floor[1])

(* The Wilson bound of s agreements in n reviews reaches the floor exactly  *)
(* when the score test accepts it. It depends on no variable, and is asked  *)
(* at the beginning.                                                        *)
WilsonIsScoreTest ==
    (final = {} /\ clock = 0) =>
        \A x \in Samples :
            WilsonReaches(x.s, x.n, x.z, x.floor) <=> ScoreTest(x.s, x.n, x.z, x.floor)
===============================================================================
