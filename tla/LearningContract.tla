--------------------------- MODULE LearningContract ---------------------------
(***************************************************************************)
(* What may enter learned routing (learning_contract.py over               *)
(* config/learning-contract-v1.json): the predecision projection of a      *)
(* feature payload, the eligibility of a decision, the shape of a piece of *)
(* evidence, clean labels, same-snapshot pairs and the split of a dataset. *)
(*                                                                         *)
(* A feature payload is a function from field names to values, a hash is   *)
(* what it is the hash of, an identifier is a model value, and None is     *)
(* what the code rejects as empty. Scores are fractions <<part, whole>>.   *)
(* Whatever raises LearningContractError is Rejected.                      *)
(***************************************************************************)
EXTENDS Verifier, Integers

CONSTANTS
    FeatureFields,     \* feature_schema.fields: the model's inputs
    DroppedFields,     \* drop_before_training
    ForbiddenFields,   \* forbidden
    FieldValues,       \* field -> the values its type, bounds and enum allow
    ExcludeIfTrue,     \* eligibility.exclude_if_true
    DecisionSources, DecisionLayers,
    LocalRungs, FrontierRungs,
    Rejected

(* load_learning_contract: the contracts that load. *)
ContractLoads ==
    /\ FeatureFields # {}
    /\ ForbiddenFields # {}
    /\ FeatureFields \cap (DroppedFields \cup ForbiddenFields) = {}
    /\ DroppedFields \cap ForbiddenFields = {}
    /\ ExcludeIfTrue \subseteq DroppedFields
    /\ DecisionSources # {} /\ DecisionLayers # {}

ASSUME ContractAssumption == ContractLoads

(* sanitize_predecision_features: every versioned field, nothing that came  *)
(* after the decision, nothing the contract has not heard of.               *)
Sanitize(payload) ==
    IF /\ FeatureFields \subseteq DOMAIN payload
       /\ DOMAIN payload \subseteq FeatureFields \cup DroppedFields
       /\ \A f \in FeatureFields : payload[f] \in FieldValues[f]
      THEN [f \in FeatureFields |-> payload[f]]
      ELSE Rejected

(* decision_eligibility_reasons: why a decision stays out of training. *)
EligibilityReasons(source, layer, payload) ==
    {reason \in {"source", "layer", "gate", "features"} :
        \/ reason = "source" /\ source \notin DecisionSources
        \/ reason = "layer" /\ layer \notin DecisionLayers
        \/ /\ reason = "gate"
           /\ \E f \in ExcludeIfTrue \cap DOMAIN payload : payload[f] = "true"
        \/ reason = "features" /\ Sanitize(payload) = Rejected}

Fraction(q) == q[2] > 0 /\ 0 <= q[1] /\ q[1] <= q[2]

(* validate_learning_evidence *)
ValidEvidence(e) ==
    /\ \A field \in {"id", "pair", "task", "repository", "snapshot", "plan",
                     "rung", "model", "harness", "verifier"} : e[field] # None
    /\ e.source \in DecisionSources
    /\ e.features # Rejected /\ Sanitize(e.features) = e.features
    /\ e.success \in BOOLEAN \cup {None}
    /\ e.decided >= 0
    /\ e.quality = None \/ Fraction(e.quality)
    /\ e.confidence \in {None, 0, 1}

(* learning_evidence_from_counterfactual_record *)
EvidenceOf(record) ==
    LET evidence == [id |-> record.id, pair |-> record.pair,
                     task |-> record.task, repository |-> record.repository,
                     snapshot |-> record.snapshot, plan |-> record.plan,
                     features |-> Sanitize(record.features),
                     decided |-> record.decided, source |-> "counterfactual",
                     rung |-> record.candidate.rung,
                     model |-> record.candidate.model,
                     harness |-> record.candidate.harness,
                     success |-> record.verification.success,
                     quality |-> record.verification.quality,
                     verifier |-> "deterministic",
                     confidence |-> record.verification.confidence,
                     cause |-> record.verification.cause]
    IN  IF /\ record.task_source \in {"organic", "synthetic"}
           /\ evidence.features = record.features
           /\ ValidEvidence(evidence)
          THEN evidence
          ELSE Rejected

(* is_cause_clean_label: a deterministic verifier was sure, and if the task *)
(* failed it failed for want of capability.                                 *)
CauseClean(e) ==
    /\ e.success # None
    /\ e.quality # None
    /\ e.verifier = "deterministic"
    /\ e.confidence = 1
    /\ e.cause = IF e.success THEN None ELSE "task_capability"

-----------------------------------------------------------------------------
Identity(e) == <<e.rung, e.model, e.harness>>

(* What the members of a pair must share (pair_schema.same_fields). *)
Comparison(e) == <<e.task, e.repository, e.snapshot, e.plan, e.features>>

(* validate_counterfactual_pairs on one group, a set of evidence with       *)
(* distinct ids: every candidate once, both ends of the ladder, everything  *)
(* else the same.                                                           *)
ValidPair(group) ==
    /\ \E e \in group : e.rung \in LocalRungs
    /\ \E e \in group : e.rung \in FrontierRungs
    /\ \A e, f \in group : /\ Comparison(e) = Comparison(f)
                           /\ Identity(e) = Identity(f) => e = f

PairsOf(evidence) == {e.pair : e \in evidence}
GroupOf(evidence, pair) == {e \in evidence : e.pair = pair}

(* learning_readiness._valid_pair_ids *)
ValidPairs(evidence) ==
    {p \in PairsOf(evidence) : ValidPair(GroupOf(evidence, p))}

(* The bucket split_learning_evidence puts a group in. *)
BucketOf(group, cutoff, repositories, tasks) ==
    IF \E e \in group : e.repository \in repositories \/ e.task \in tasks
      THEN "repository_task_holdout"
    ELSE IF \A e \in group : e.decided < cutoff THEN "train"
    ELSE IF \A e \in group : e.decided >= cutoff THEN "temporal_holdout"
    ELSE Rejected

(* Mutant: the unseen holdout is not compared with what training sees. *)
SplitUnchecked(evidence, cutoff, repositories, tasks) ==
    LET bucket == [p \in PairsOf(evidence) |->
                      BucketOf(GroupOf(evidence, p), cutoff, repositories, tasks)]
        in(b) == {e \in evidence : bucket[e.pair] = b}
    IN  IF /\ repositories \cup tasks # {}
           /\ \A p \in PairsOf(evidence) : bucket[p] # Rejected
          THEN [train |-> in("train"),
                temporal_holdout |-> in("temporal_holdout"),
                repository_task_holdout |-> in("repository_task_holdout")]
          ELSE Rejected

(* split_learning_evidence: groups go to one bucket each; a group of two    *)
(* repositories or tasks, one that straddles the cutoff, and a repository   *)
(* or task that would be both held out and seen are rejected.               *)
Split(evidence, cutoff, repositories, tasks) ==
    LET bucket == [p \in PairsOf(evidence) |->
                      BucketOf(GroupOf(evidence, p), cutoff, repositories, tasks)]
        in(b) == {e \in evidence : bucket[e.pair] = b}
        unseen == in("repository_task_holdout")
        seen == evidence \ unseen
    IN  IF /\ repositories \cup tasks # {}
           /\ \A e \in evidence : ValidEvidence(e) /\ CauseClean(e)
           /\ \A e, f \in evidence : e.pair = f.pair =>
                  e.repository = f.repository /\ e.task = f.task
           /\ \A p \in PairsOf(evidence) : bucket[p] # Rejected
           /\ \A e \in seen, f \in unseen :
                  e.repository # f.repository /\ e.task # f.task
          THEN [train |-> in("train"),
                temporal_holdout |-> in("temporal_holdout"),
                repository_task_holdout |-> unseen]
          ELSE Rejected
===============================================================================
