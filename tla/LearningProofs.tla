--------------------------- MODULE LearningProofs ---------------------------
(***************************************************************************)
(* Proofs about counterfactual runs and the readiness report.              *)
(***************************************************************************)
EXTENDS LearningReadiness, FiniteSetTheorems, SequenceTheorems, TLAPS

-----------------------------------------------------------------------------
(* The verifier.                                                            *)

RequiredNames(plan) == {c.name : c \in {d \in plan.checks : d.required}}
AllNames(plan) == {c.name : c \in plan.checks}
Failed(plan, ws) == \E n \in RequiredNames(plan) : RunChecks(plan, ws)[n] = "fail"
Violations(plan, ws) == CollectChanges(plan, ws).violations
Unknown(plan, ws) ==
    \/ CollectChanges(plan, ws).error
    \/ \E n \in RequiredNames(plan) : RunChecks(plan, ws)[n] \in NotExecuted
Succeeded(plan, ws) ==
    IF Failed(plan, ws) \/ Violations(plan, ws) # {} THEN FALSE
    ELSE IF Unknown(plan, ws) THEN None ELSE TRUE
Scored(plan) ==
    IF RequiredNames(plan) # {} THEN RequiredNames(plan) ELSE AllNames(plan)
Good(plan, ws) == {n \in Scored(plan) : RunChecks(plan, ws)[n] = "pass"}
KeptContract(plan, ws) ==
    /\ HasChangeContract(plan)
    /\ Violations(plan, ws) = {}
    /\ ~CollectChanges(plan, ws).error
Points(plan, ws) ==
    Cardinality(Good(plan, ws)) + (IF KeptContract(plan, ws) THEN 1 ELSE 0)
Possible(plan) ==
    Cardinality(Scored(plan)) + (IF HasChangeContract(plan) THEN 1 ELSE 0)

(* verify_candidate, in those words.                                        *)
LEMMA Verified ==
  ASSUME NEW plan, NEW ws, NEW baseline
  PROVE  LET v == VerifyCandidate(plan, ws, baseline)
         IN  /\ v.success = Succeeded(plan, ws)
             /\ v.changes = CollectChanges(plan, ws)
             /\ v.cause = IF v.success = TRUE THEN None
                          ELSE IF v.success = None THEN "unverifiable"
                          ELSE IF Failed(plan, ws) \/ v.changes.policy = {}
                            THEN "task_capability"
                          ELSE "policy_constraint"
             /\ v.quality = IF v.success = None THEN None
                            ELSE IF Possible(plan) = 0 THEN <<1, 1>>
                            ELSE <<Points(plan, ws), Possible(plan)>>
<1> DEFINE v == VerifyCandidate(plan, ws, baseline)
<1>1. DOMAIN RunChecks(plan, ws) = AllNames(plan)
  BY DEF RunChecks, AllNames
<1>2. v.success = Succeeded(plan, ws)
  BY DEF VerifyCandidate, Succeeded, Failed, Violations, Unknown, RequiredNames
<1>3. v.changes = CollectChanges(plan, ws)
  BY DEF VerifyCandidate
<1>4. v.cause = IF v.success = TRUE THEN None
                ELSE IF v.success = None THEN "unverifiable"
                ELSE IF Failed(plan, ws) \/ v.changes.policy = {}
                  THEN "task_capability"
                ELSE "policy_constraint"
  BY DEF VerifyCandidate, Failed, RequiredNames
<1>5. v.quality = IF v.success = None THEN None
                  ELSE IF Possible(plan) = 0 THEN <<1, 1>>
                  ELSE <<Points(plan, ws), Possible(plan)>>
  BY <1>1 DEF VerifyCandidate, Possible, Points, Good, Scored, KeptContract,
              Violations, RequiredNames
<1> QED  BY <1>2, <1>3, <1>4, <1>5

(* The names of finitely many checks are finitely many. *)
LEMMA NamesFinite ==
  ASSUME NEW S, IsFiniteSet(S)
  PROVE  IsFiniteSet({c.name : c \in S})
<1> DEFINE names == {c.name : c \in S}
           name == [c \in S |-> c.name]
<1>1. name \in Surjection(S, names)
  BY DEF Surjection
<1> HIDE DEF names, name
<1>2. IsFiniteSet(names)
  BY <1>1, FS_Surjection
<1> QED  BY <1>2 DEF names

(* The scored checks of a finite plan can be counted, and all of them are  *)
(* good exactly when none is missing from the count.                       *)
LEMMA ScoreFinite ==
  ASSUME NEW plan, IsFiniteSet(plan.checks), NEW ws
  PROVE  /\ IsFiniteSet(Scored(plan)) /\ Good(plan, ws) \subseteq Scored(plan)
         /\ Cardinality(Scored(plan)) \in Nat /\ Cardinality(Good(plan, ws)) \in Nat
         /\ Cardinality(Good(plan, ws)) <= Cardinality(Scored(plan))
         /\ Cardinality(Good(plan, ws)) = Cardinality(Scored(plan))
              => Good(plan, ws) = Scored(plan)
<1>1. IsFiniteSet({d \in plan.checks : d.required})
  BY FS_Subset
<1>2. IsFiniteSet(Scored(plan))
  BY <1>1, NamesFinite DEF Scored, RequiredNames, AllNames
<1>3. Good(plan, ws) \subseteq Scored(plan)
  BY DEF Good
<1> QED  BY <1>2, <1>3, FS_Subset, FS_CardinalityType

(* What a verification concludes is a verdict the ledger can hold: its      *)
(* quality counts checks, of which a plan has finitely many.                *)
LEMMA VerdictTyped ==
  ASSUME NEW plan, IsFiniteSet(plan.checks), NEW ws, NEW baseline
  PROVE  Verdict(plan, ws, baseline) \in Verifications
<1> DEFINE v == VerifyCandidate(plan, ws, baseline)
<1>1. v.success \in BOOLEAN \cup {None}
  BY Verified DEF Succeeded
<1>2. v.quality \in (Nat \X Nat) \cup {None}
  <2>1. Points(plan, ws) \in Nat /\ Possible(plan) \in Nat
    BY ScoreFinite DEF Points, Possible
  <2>2. \/ v.quality = None \/ v.quality = <<1, 1>>
        \/ v.quality = <<Points(plan, ws), Possible(plan)>>
    BY Verified
  <2> HIDE DEF v
  <2> QED  BY <2>1, <2>2
<1>3. v.cause \in Causes
  BY Verified DEF Causes, FailureCauses
<1>4. v.confidence \in {0, 1}
  BY DEF VerifyCandidate
<1> HIDE DEF v
<1>5. [success |-> v.success, quality |-> v.quality,
       confidence |-> v.confidence, cause |-> v.cause] \in Verifications
  BY <1>1, <1>2, <1>3, <1>4 DEF Verifications
<1> QED  BY <1>5 DEF Verdict, v

(* A check whose program timed out takes the place of a pass by no failure. *)
LEMMA TimeoutStatus ==
  ASSUME NEW plan, NamedApart(plan), NEW ws, NEW check \in plan.checks,
         check.kind = "command", ws.outcome[check.name] = "ok",
         \A c \in plan.checks : c.name \in DOMAIN ws.outcome,
         NEW n \in AllNames(plan)
  PROVE  IF n = check.name
           THEN /\ RunChecks(plan, ws)[n] = "pass"
                /\ RunChecks(plan, TimedOut(ws, check))[n] = "timeout"
           ELSE RunChecks(plan, TimedOut(ws, check))[n] = RunChecks(plan, ws)[n]
<1>1. \A w : RunChecks(plan, w)[n] =
               CheckStatus((CHOOSE c \in plan.checks : c.name = n).kind, w.outcome[n])
  BY DEF RunChecks, AllNames
<1>2. n \in DOMAIN ws.outcome
  BY DEF AllNames
<1>3. TimedOut(ws, check).outcome[n] =
        IF n = check.name THEN "timed_out" ELSE ws.outcome[n]
  BY <1>2 DEF TimedOut
<1>4. CASE n = check.name
  <2>1. (CHOOSE c \in plan.checks : c.name = n) = check
    BY <1>4 DEF NamedApart
  <2>2. CheckStatus("command", "ok") = "pass"
    BY DEF CheckStatus
  <2>3. CheckStatus("command", "timed_out") = "timeout"
    BY DEF CheckStatus
  <2> QED  BY <1>1, <1>3, <1>4, <2>1, <2>2, <2>3
<1>5. CASE n # check.name
  BY <1>1, <1>3, <1>5
<1> QED  BY <1>4, <1>5

(* A tool that could not run is never held against the candidate, nor for   *)
(* it, whatever the plan and the workspace (verify_candidate,               *)
(* run_command_check).                                                      *)
THEOREM ToolingSpares ==
  ASSUME NEW plan, NamedApart(plan), NEW ws, NEW check \in plan.checks,
         check.kind = "command", ws.outcome[check.name] = "ok",
         \A c \in plan.checks : c.name \in DOMAIN ws.outcome
  PROVE  Spared(plan, ws, check)
<1> DEFINE out == TimedOut(ws, check)
           ran == VerifyCandidate(plan, ws, <<>>)
           not == VerifyCandidate(plan, out, <<>>)
<1>1. CollectChanges(plan, out) = CollectChanges(plan, ws)
  BY DEF CollectChanges, TimedOut
<1>2. RequiredNames(plan) \subseteq AllNames(plan)
  BY DEF RequiredNames, AllNames
<1>3. \A n \in AllNames(plan) :
         IF n = check.name
           THEN RunChecks(plan, ws)[n] = "pass" /\ RunChecks(plan, out)[n] = "timeout"
           ELSE RunChecks(plan, out)[n] = RunChecks(plan, ws)[n]
  BY TimeoutStatus
<1>4. Failed(plan, out) <=> Failed(plan, ws)
  <2> HIDE DEF out
  <2> QED  BY <1>2, <1>3 DEF Failed
<1>5. Unknown(plan, ws) => Unknown(plan, out)
  <2> HIDE DEF out
  <2> QED  BY <1>1, <1>2, <1>3 DEF Unknown, NotExecuted
<1>6. check.required => Unknown(plan, out)
  <2> HIDE DEF out
  <2>1. check.name \in AllNames(plan)
    BY DEF AllNames
  <2>2. check.required => check.name \in RequiredNames(plan)
    BY DEF RequiredNames
  <2> QED  BY <1>3, <2>1, <2>2 DEF Unknown, NotExecuted
<1>7. Violations(plan, out) = Violations(plan, ws)
  BY <1>1 DEF Violations
<1>8. /\ ran.success = Succeeded(plan, ws) /\ not.success = Succeeded(plan, out)
      /\ ran.changes = not.changes
      /\ ran.cause = IF ran.success = TRUE THEN None
                     ELSE IF ran.success = None THEN "unverifiable"
                     ELSE IF Failed(plan, ws) \/ ran.changes.policy = {}
                       THEN "task_capability"
                     ELSE "policy_constraint"
      /\ not.cause = IF not.success = TRUE THEN None
                     ELSE IF not.success = None THEN "unverifiable"
                     ELSE IF Failed(plan, out) \/ not.changes.policy = {}
                       THEN "task_capability"
                     ELSE "policy_constraint"
  BY <1>1, Verified
<1>9. None # TRUE /\ None # FALSE /\ None # "task_capability"
  BY NoneAssumption DEF FailureCauses
<1>10. not.success = FALSE => ran.success = FALSE
  <2> HIDE DEF out, ran, not
  <2> QED  BY <1>4, <1>5, <1>7, <1>8, <1>9, Zenon DEF Succeeded
<1>11. not.success = TRUE => ran.success = TRUE /\ ~check.required
  <2> HIDE DEF out, ran, not
  <2> QED  BY <1>4, <1>5, <1>6, <1>7, <1>8, <1>9, Zenon DEF Succeeded
<1>12. not.cause = "task_capability" => ran.cause = "task_capability"
  <2> HIDE DEF out, ran, not
  <2>1. not.success = TRUE \/ not.success = FALSE \/ not.success = None
    BY <1>8, Zenon DEF Succeeded
  <2>2. not.cause = "task_capability" =>
          not.success = FALSE /\ (Failed(plan, out) \/ not.changes.policy = {})
    BY <1>8, <1>9, <2>1
  <2>3. FALSE # TRUE
    OBVIOUS
  <2> QED  BY <1>4, <1>8, <1>9, <1>10, <2>2, <2>3
<1> QED  BY <1>10, <1>11, <1>12 DEF Spared

(* Without a contract about changes only a forbidden path is a violation. *)
LEMMA NoContract ==
  ASSUME NEW plan, NEW ws, ~HasChangeContract(plan)
  PROVE  Violations(plan, ws) = {} \/ Violations(plan, ws) = {"forbidden"}
<1>1. /\ ~plan.require_changes /\ ~plan.protect_tests /\ plan.allowed = {}
      /\ plan.required_new = {} /\ plan.max_changed_files = None
  BY DEF HasChangeContract
<1>2. ASSUME NEW x \in Violations(plan, ws) PROVE x = "forbidden"
  <2> SUFFICES ASSUME ws.inspectable,
                      x \in CollectChanges(plan, ws).violations
               PROVE  x = "forbidden"
    BY <1>2 DEF Violations, CollectChanges
  <2> QED  BY <1>1 DEF CollectChanges
<1> QED  BY <1>2

(* Score and verdict agree, whatever the plan and the workspace             *)
(* (verify_candidate, the quality of VerificationResult).                   *)
THEOREM ScoreTellsVerdict ==
  ASSUME NEW plan, IsFiniteSet(plan.checks), NEW ws
  PROVE  WellScored(plan, ws)
<1> DEFINE v == VerifyCandidate(plan, ws, <<>>)
           good == Cardinality(Good(plan, ws))
           all == Cardinality(Scored(plan))
<1>1. /\ good \in Nat /\ all \in Nat /\ good <= all
      /\ Good(plan, ws) \subseteq Scored(plan)
      /\ good = all <=> Good(plan, ws) = Scored(plan)
  BY ScoreFinite
<1>2. /\ v.success = Succeeded(plan, ws)
      /\ v.changes.violations = Violations(plan, ws)
      /\ v.quality = IF v.success = None THEN None
                     ELSE IF Possible(plan) = 0 THEN <<1, 1>>
                     ELSE <<Points(plan, ws), Possible(plan)>>
  BY Verified DEF Violations
<1>3. None # TRUE /\ None # FALSE /\ \A a, b \in Nat : None # <<a, b>>
  <2>1. \A a, b \in Nat : <<a, b>> \in Nat \X Nat
    OBVIOUS
  <2>2. \A a, b \in Nat : None # <<a, b>>
    BY <2>1, NoneAssumption, Zenon
  <2>3. None # TRUE /\ None # FALSE
    BY NoneAssumption
  <2> QED  BY <2>2, <2>3
<1>4. Points(plan, ws) \in Nat /\ Possible(plan) \in Nat
  BY <1>1 DEF Points, Possible
<1>5. (\E c \in plan.checks : c.required) <=> RequiredNames(plan) # {}
  BY DEF RequiredNames
<1> HIDE DEF v
<1>6. v.success = None <=> v.quality = None
  BY <1>2, <1>3, <1>4
<1>7. v.success # None =>
        (v.quality[1] = v.quality[2] <=> Points(plan, ws) = Possible(plan))
  <2>1. CASE Possible(plan) = 0
    <3>1. Points(plan, ws) = 0
      BY <1>1, <2>1 DEF Points, Possible, KeptContract
    <3> QED  BY <1>2, <2>1, <3>1
  <2>2. CASE Possible(plan) # 0
    BY <1>2, <2>2
  <2> QED  BY <2>1, <2>2
<1>8. Points(plan, ws) = Possible(plan) <=>
        /\ Good(plan, ws) = Scored(plan)
        /\ HasChangeContract(plan) => KeptContract(plan, ws)
  <2>1. KeptContract(plan, ws) => HasChangeContract(plan)
    BY DEF KeptContract
  <2> QED  BY <1>1, <2>1 DEF Points, Possible
<1>9. ASSUME v.success = TRUE, RequiredNames(plan) # {}
      PROVE  v.quality[1] = v.quality[2]
  <2>1. ~Failed(plan, ws) /\ Violations(plan, ws) = {} /\ ~Unknown(plan, ws)
    BY <1>2, <1>3, <1>9 DEF Succeeded
  <2>2. \A n \in RequiredNames(plan) : RunChecks(plan, ws)[n] = "pass"
    <3> SUFFICES ASSUME NEW n \in RequiredNames(plan)
                 PROVE  RunChecks(plan, ws)[n] = "pass"
      OBVIOUS
    <3>1. \E k, o : RunChecks(plan, ws)[n] = CheckStatus(k, o)
      BY DEF RunChecks, RequiredNames
    <3>2. RunChecks(plan, ws)[n] \in {"pass", "fail"} \cup NotExecuted
      BY <3>1 DEF CheckStatus, NotExecuted
    <3>3. RunChecks(plan, ws)[n] # "fail" /\ RunChecks(plan, ws)[n] \notin NotExecuted
      BY <2>1 DEF Failed, Unknown
    <3> QED  BY <3>2, <3>3
  <2>3. Good(plan, ws) = Scored(plan)
    BY <1>9, <2>2 DEF Good, Scored
  <2>4. HasChangeContract(plan) => KeptContract(plan, ws)
    BY <2>1 DEF KeptContract, Unknown
  <2> QED  BY <1>3, <1>7, <1>8, <1>9, <2>3, <2>4
<1>10. ASSUME v.success = FALSE, v.quality[1] = v.quality[2]
       PROVE  ~HasChangeContract(plan) /\ Violations(plan, ws) = {"forbidden"}
  <2>1. /\ Good(plan, ws) = Scored(plan)
        /\ HasChangeContract(plan) => KeptContract(plan, ws)
    BY <1>3, <1>7, <1>8, <1>10
  <2>2. Failed(plan, ws) \/ Violations(plan, ws) # {}
    BY <1>2, <1>3, <1>10 DEF Succeeded
  <2>3. ~Failed(plan, ws)
    <3>1. \A n \in RequiredNames(plan) : n \in Scored(plan)
      BY DEF Scored
    <3>2. \A n \in RequiredNames(plan) : RunChecks(plan, ws)[n] = "pass"
      BY <2>1, <3>1 DEF Good
    <3> QED  BY <3>2 DEF Failed
  <2>4. ~HasChangeContract(plan)
    BY <2>1, <2>2, <2>3 DEF KeptContract
  <2> QED  BY <2>2, <2>3, <2>4, NoContract
<1> QED  BY <1>2, <1>5, <1>6, <1>9, <1>10, Zenon DEF WellScored, v

-----------------------------------------------------------------------------
(* The split.                                                               *)

(* Any evidence, split at any cutoff with any holdout: nothing is lost, no  *)
(* repository, task or pair is on both sides of the unseen holdout, no pair *)
(* is torn, and training is given only what was decided before the cutoff.  *)
THEOREM SplitIsHonest ==
  ASSUME NEW evidence, NEW cutoff, NEW R, NEW T,
         Split(evidence, cutoff, R, T) # Rejected
  PROVE  LET split == Split(evidence, cutoff, R, T)
             unseen == split.repository_task_holdout
             seen == split.train \cup split.temporal_holdout
         IN  /\ seen \cup unseen = evidence
             /\ \A e \in seen : e.repository \notin R /\ e.task \notin T
             /\ \A e \in seen, f \in unseen :
                    e.repository # f.repository /\ e.task # f.task
             /\ \A e \in split.train : e.decided < cutoff
             /\ PairsOf(split.train) \cap PairsOf(split.temporal_holdout) = {}
<1> DEFINE Bucket(p) == BucketOf(GroupOf(evidence, p), cutoff, R, T)
           In(b) == {e \in evidence : Bucket(e.pair) = b}
           unseen == In("repository_task_holdout")
           seen == evidence \ unseen
<1>1. \A e \in evidence : e.pair \in PairsOf(evidence)
  BY DEF PairsOf
<1>2. /\ Split(evidence, cutoff, R, T) =
           [train |-> In("train"), temporal_holdout |-> In("temporal_holdout"),
            repository_task_holdout |-> unseen]
      /\ \A p \in PairsOf(evidence) : Bucket(p) # Rejected
      /\ \A e \in seen, f \in unseen :
             e.repository # f.repository /\ e.task # f.task
  <2> DEFINE bucket == [p \in PairsOf(evidence) |-> Bucket(p)]
             in(b) == {e \in evidence : bucket[e.pair] = b}
  <2>1. \A p \in PairsOf(evidence) : bucket[p] = Bucket(p)
    OBVIOUS
  <2>2. \A b : in(b) = In(b)
    <3> HIDE DEF Bucket, bucket
    <3> QED  BY <1>1, <2>1
  <2>3. LET lost == in("repository_task_holdout")
            left == evidence \ lost
        IN  /\ Split(evidence, cutoff, R, T) =
                 [train |-> in("train"),
                  temporal_holdout |-> in("temporal_holdout"),
                  repository_task_holdout |-> lost]
            /\ \A p \in PairsOf(evidence) : bucket[p] # Rejected
            /\ \A e \in left, f \in lost :
                   e.repository # f.repository /\ e.task # f.task
    BY DEF Split
  <2> HIDE DEF Bucket, bucket, in
  <2> QED  BY <2>1, <2>2, <2>3
<1>3. ASSUME NEW e \in evidence
      PROVE  Bucket(e.pair) \in
               {"repository_task_holdout", "train", "temporal_holdout"}
  BY <1>1, <1>2 DEF BucketOf
<1>4. ASSUME NEW e \in evidence, Bucket(e.pair) # "repository_task_holdout"
      PROVE  e.repository \notin R /\ e.task \notin T
  BY <1>4 DEF BucketOf, GroupOf
<1>5. ASSUME NEW e \in evidence, Bucket(e.pair) = "train"
      PROVE  e.decided < cutoff
  <2>1. e \in GroupOf(evidence, e.pair)
    BY DEF GroupOf
  <2>2. \A f \in GroupOf(evidence, e.pair) : f.decided < cutoff
    BY <1>5, <1>2, <1>1 DEF BucketOf
  <2> QED  BY <2>1, <2>2
<1>6. /\ In("train") \cup In("temporal_holdout") = seen
      /\ seen \cup unseen = evidence
  <2> HIDE DEF Bucket
  <2> QED  BY <1>3
<1>7. PairsOf(In("train")) \cap PairsOf(In("temporal_holdout")) = {}
  <2> HIDE DEF Bucket
  <2> QED  BY DEF PairsOf
<1>8. \A e \in seen : e.repository \notin R /\ e.task \notin T
  <2> HIDE DEF Bucket
  <2> QED  BY <1>4
<1>9. \A e \in In("train") : e.decided < cutoff
  <2> HIDE DEF Bucket
  <2> QED  BY <1>5
<1>10. /\ Split(evidence, cutoff, R, T).train = In("train")
       /\ Split(evidence, cutoff, R, T).temporal_holdout = In("temporal_holdout")
       /\ Split(evidence, cutoff, R, T).repository_task_holdout = unseen
  <2> HIDE DEF In
  <2> QED  BY <1>2
<1> HIDE DEF In, seen, unseen
<1> QED  BY <1>2, <1>6, <1>7, <1>8, <1>9, <1>10

(* Whatever the dataset is when it is split, the split leaks nothing        *)
(* (split_learning_evidence).                                               *)
THEOREM SplitsNeverLeak == RunsSpec => []SplitNeverLeaks
<1>1. SplitNeverLeaks
  BY SplitIsHonest, Zenon DEF SplitNeverLeaks
<1> QED  BY <1>1, PTL

-----------------------------------------------------------------------------
(* The runs.                                                                *)

(* Candidates the run has begun to execute. *)
Tried(o) == index[o] + (IF attempt[o] = None THEN 0 ELSE 1)

(* Under a limit each attempt that keeps to its ceiling spends at most what *)
(* the counted total leaves of it; none begins once nothing is left.        *)
SpendKept(o) ==
    Order[o].limit # None =>
        /\ o \notin overspent =>
              /\ total[o] <= Order[o].limit
              /\ spent[o] <= Order[o].limit * Len(Candidates(o))
              /\ phase[o] # "failed" => spent[o] <= Order[o].limit * Tried(o)
        /\ total[o] > Order[o].limit =>
              \E x \in Order[o].results : total[o] < Order[o].limit + x.cost

RunKept(o) ==
    /\ index[o] <= Len(Candidates(o))
    /\ attempt[o] # None =>
           phase[o] = "candidates" /\ index[o] < Len(Candidates(o))
    /\ phase[o] # "new" => decided[o] > 0
    /\ phase[o] = "done" => index[o] = Len(Candidates(o))
    /\ SpendKept(o)

(* A line is a record of a run that has begun: its decision and its task    *)
(* are those of the run.                                                    *)
LineKept(i) ==
    LET line == dataset[i]
        order == Order[line.pair]
    IN  /\ phase[line.pair] # "new"
        /\ line.decided = decided[line.pair]
        /\ line.id[1] = line.pair
        /\ line.task = order.task /\ line.repository = order.repository
        /\ line.snapshot = order.snapshot /\ line.plan = order.plan
        /\ line.features = Sanitize(order.prompt)

LinesInOrder(o) ==
    /\ Cardinality(LinesOf(o)) = index[o]
    /\ \A i \in LinesOf(o) :
           dataset[i].candidate = Candidates(o)[Place(o, i)]

RunsInv ==
    /\ RunsTypeOK
    /\ \A o \in Orders : RunKept(o)
    /\ \A i \in DOMAIN dataset :
           dataset[i] \notin Broken => LineKept(i)
    /\ Readable => \A o \in Orders : LinesInOrder(o)

(* Every run starts without spending, without an attempt and without a line*)
(* in the dataset (CounterfactualRunner.run, before its first clone).      *)
THEOREM RunsInit == InitCounterfactual => RunsInv
<1> SUFFICES ASSUME InitCounterfactual PROVE RunsInv
  OBVIOUS
<1> USE DEF InitCounterfactual
<1>1. RunsTypeOK
  BY OrderAssumption DEF RunsTypeOK
<1>2. ASSUME NEW o \in Orders PROVE RunKept(o)
  <2>1. Len(Candidates(o)) \in Nat
    BY OrderAssumption DEF Candidates
  <2>2. Order[o].limit # None => Order[o].limit \in Nat
    BY OrderAssumption
  <2>3. Order[o].limit # None => 0 <= Order[o].limit * Len(Candidates(o))
    BY <2>1, <2>2
  <2> QED  BY <2>1, <2>2, <2>3 DEF RunKept, SpendKept, Tried
<1>3. DOMAIN dataset = {}
  OBVIOUS
<1>4. ASSUME NEW o \in Orders PROVE LinesInOrder(o)
  <2>1. LinesOf(o) = {}
    BY <1>3 DEF LinesOf
  <2> QED  BY <2>1, FS_EmptySet DEF LinesInOrder
<1> QED  BY <1>1, <1>2, <1>3, <1>4 DEF RunsInv

(* An order has a candidate, and its limit is a number if it has one.      *)
LEMMA OrderTyped ==
  ASSUME NEW o \in Orders
  PROVE  /\ Len(Candidates(o)) \in Nat /\ Len(Candidates(o)) > 0
         /\ \A k \in 1 .. Len(Candidates(o)) :
                Candidates(o)[k] \in Range(Candidates(o))
         /\ Order[o].limit # None => Order[o].limit \in Nat
<1>1. Candidates(o) \in Seq(Range(Candidates(o))) /\ Candidates(o) # <<>>
  BY OrderAssumption DEF Candidates
<1> QED  BY <1>1, OrderAssumption

(* What an execution reports is nothing, or what a result of the order does *)
(* while something is left of the limit.                                    *)
LEMMA ExecutionTyped ==
  ASSUME NEW o \in Orders, NEW x \in Executions(o)
  PROVE  /\ x \in Results /\ x.cost <= x.spent
         /\ \/ x.cost = 0
            \/ ~Exhausted(o) /\ \E y \in Order[o].results : y.cost = x.cost
<1>1. CASE Exhausted(o) \/ (Order[o].limit # None /\ ~Order[o].enforces)
  <2>1. x = Skipped
    BY <1>1 DEF Executions
  <2> QED  BY <2>1 DEF Skipped, Results, Causes, FailureCauses
<1>2. CASE ~(Exhausted(o) \/ (Order[o].limit # None /\ ~Order[o].enforces))
  <2>1. PICK y \in Order[o].results :
           x = IF y.status \in {"ok", "error", "unavailable", "timeout", "skipped"}
                 THEN y
                 ELSE [y EXCEPT !.status = "error", !.cost = 0,
                                !.cause = "infrastructure"]
    BY <1>2, Zenon DEF Executions
  <2>2. y \in Results /\ y.cost <= y.spent
    BY OrderAssumption
  <2>3. CASE x = y
    BY <1>2, <2>2, <2>3
  <2>4. CASE x = [y EXCEPT !.status = "error", !.cost = 0,
                           !.cause = "infrastructure"]
    <3>1. x \in Results /\ x.cost = 0 /\ x.spent = y.spent /\ y.spent \in Nat
      BY <2>2, <2>4 DEF Results, Causes, FailureCauses
    <3> QED  BY <3>1
  <2> QED  BY <2>1, <2>3, <2>4
<1> QED  BY <1>1, <1>2

(* Whatever an execution did, its verification is one of Verifications.    *)
LEMMA VerdictsTyped ==
  ASSUME NEW o \in Orders, NEW x \in Results, NEW v \in Verdicts(o, x)
  PROVE  v \in Verifications
<1>1. CASE x.status = "ok"
  <2>1. PICK ws \in Order[o].workspaces :
           v = Verdict(Plan[Order[o].plan], ws, Order[o].baseline)
    BY <1>1, Zenon DEF Verdicts
  <2>2. IsFiniteSet(Plan[Order[o].plan].checks)
    BY OrderAssumption
  <2> QED  BY <2>1, <2>2, VerdictTyped
<1>2. CASE x.status # "ok"
  <2>1. v = Unverifiable(x)
    BY <1>2 DEF Verdicts
  <2> QED  BY <2>1 DEF Unverifiable, Verifications, Results, Causes, FailureCauses
<1> QED  BY <1>1, <1>2

(* A record about to be written is whole.                                  *)
LEMMA RecordTyped ==
  ASSUME RunsTypeOK, NEW o \in Orders, RunKept(o), attempt[o] # None
  PROVE  RecordOf(o) \in Records /\ RecordOf(o) \notin Broken
<1>1. attempt[o].verification \in Verifications
  BY DEF RunsTypeOK, Attempts
<1>2. Current(o) \in UNION {Range(Candidates(p)) : p \in Orders}
  <2>1. index[o] + 1 \in 1 .. Len(Candidates(o))
    BY OrderTyped DEF RunsTypeOK, RunKept
  <2>2. Current(o) \in Range(Candidates(o))
    BY <2>1, OrderTyped DEF Current
  <2> QED  BY <2>2
<1>3. index[o] \in Nat /\ decided[o] \in Nat
  BY DEF RunsTypeOK
<1>4. Sanitize(Order[o].prompt) \in {Sanitize(p) : p \in ArgumentsOf("prompt")}
  BY DEF ArgumentsOf
<1>5. /\ Order[o].task \in ArgumentsOf("task")
      /\ Order[o].repository \in ArgumentsOf("repository")
      /\ Order[o].snapshot \in ArgumentsOf("snapshot")
      /\ Order[o].plan \in ArgumentsOf("plan")
      /\ Order[o].source \in ArgumentsOf("source")
  BY DEF ArgumentsOf
<1>6. RecordOf(o) \in Records
  BY <1>1, <1>2, <1>3, <1>4, <1>5, Zenon DEF RecordOf, Records
<1> QED  BY <1>6, BrokenAssumption

(* Appending to a file, or filling its last line, keeps its type.          *)
LEMMA LineTyped ==
  ASSUME NEW S, NEW s \in Seq(S), NEW x \in S
  PROVE  /\ Append(s, x) \in Seq(S)
         /\ [s EXCEPT ![Len(s)] = x] \in Seq(S)
<1>1. Append(s, x) \in Seq(S)
  OBVIOUS
<1>2. s \in [1 .. Len(s) -> S] /\ Len(s) \in Nat
  OBVIOUS
<1>3. [s EXCEPT ![Len(s)] = x] \in [1 .. Len(s) -> S]
  BY <1>2
<1>4. [s EXCEPT ![Len(s)] = x] \in Seq(S)
  BY <1>2, <1>3, SeqDef, Zenon
<1> QED  BY <1>1, <1>4

(* A step of a run keeps the types,                                        *)
LEMMA RunsStayTyped ==
  ASSUME RunsInv, NEW o \in Orders, RunStep(o)
  PROVE  RunsTypeOK'
<1> USE DEF RunsTypeOK
<1>0. RunsTypeOK /\ RunKept(o)
  BY DEF RunsInv
<1>1. CASE Start(o)
  BY <1>0, <1>1 DEF Start
<1>2. CASE BaselineRun(o)
  BY <1>0, <1>2 DEF BaselineRun
<1>3. CASE Execute(o)
  <2>1. PICK x \in Executions(o) : \E v \in Verdicts(o, x) :
          /\ attempt' = [attempt EXCEPT ![o] =
                            [verification |-> v,
                             attached |-> IF Offered(o) THEN None ELSE FALSE]]
          /\ total' = [total EXCEPT ![o] = @ + x.cost]
          /\ spent' = [spent EXCEPT ![o] = @ + x.spent]
          /\ overspent' = IF Overruns(o, x) THEN overspent \cup {o} ELSE overspent
    BY <1>3 DEF Execute
  <2>0. PICK v \in Verdicts(o, x) :
          attempt' = [attempt EXCEPT ![o] =
                         [verification |-> v,
                          attached |-> IF Offered(o) THEN None ELSE FALSE]]
    BY <2>1
  <2>2. x \in Results /\ v \in Verifications
    BY <1>0, ExecutionTyped, VerdictsTyped DEF RunKept
  <2>3. x.cost \in Nat /\ x.spent \in Nat
    BY <2>2 DEF Results
  <2>4. [verification |-> v,
         attached |-> IF Offered(o) THEN None ELSE FALSE] \in Attempts
    BY <2>2 DEF Attempts
  <2>5. attempt' \in [Orders -> Attempts \cup {None}]
    BY <1>0, <2>0, <2>4
  <2>6. total' \in [Orders -> Nat] /\ spent' \in [Orders -> Nat]
    BY <1>0, <2>1, <2>3
  <2>7. overspent' \subseteq Orders
    BY <1>0, <2>1
  <2> QED  BY <1>0, <1>3, <2>5, <2>6, <2>7 DEF Execute
<1>4. CASE Offer(o)
  <2>1. attempt[o] \in Attempts
    BY <1>0, <1>4 DEF Offer
  <2>2. attempt[o].verification \in Verifications
    BY <2>1 DEF Attempts
  <2>3. ASSUME NEW b \in BOOLEAN
        PROVE  [attempt[o] EXCEPT !.attached = b] \in Attempts
    BY <2>1 DEF Attempts
  <2>4. \E b \in BOOLEAN : attempt' = [attempt EXCEPT ![o].attached = b]
    BY <1>4 DEF Offer
  <2>5. attempt' \in [Orders -> Attempts \cup {None}]
    BY <1>0, <2>3, <2>4
  <2>6. ledger' \in [Routes -> Verifications \cup {None}]
    BY <1>0, <1>4, <2>2 DEF Offer
  <2> QED  BY <1>0, <1>4, <2>5, <2>6 DEF Offer
<1>5. CASE AppendRecord(o)
  <2>1. RecordOf(o) \in Records
    BY <1>0, <1>5, RecordTyped DEF AppendRecord
  <2>2. Garbled \in Broken
    BY DEF Broken
  <2>3. dataset' \in Seq(Records \cup Broken)
    <3>1. \/ dataset' = [dataset EXCEPT ![Len(dataset)] = Garbled]
          \/ dataset' = Append(dataset, RecordOf(o))
      BY <1>5 DEF AppendRecord
    <3>2. RecordOf(o) \in Records \cup Broken /\ Garbled \in Records \cup Broken
      BY <2>1, <2>2
    <3>3. dataset \in Seq(Records \cup Broken)
      BY <1>0
    <3> QED  BY <3>1, <3>2, <3>3, LineTyped, Zenon
  <2> QED  BY <1>0, <1>5, <2>3 DEF AppendRecord
<1>6. CASE Return(o)
  BY <1>0, <1>6 DEF Return, Cleaned
<1>7. CASE Raise(o)
  <2>1. Fragment \in Broken
    BY DEF Broken
  <2>2. dataset' \in Seq(Records \cup Broken)
    <3>1. dataset' = dataset \/ dataset' = Append(dataset, Fragment)
      BY <1>7 DEF Raise
    <3>2. Fragment \in Records \cup Broken
      BY <2>1
    <3>3. dataset \in Seq(Records \cup Broken)
      BY <1>0
    <3> QED  BY <3>1, <3>2, <3>3, LineTyped, Zenon
  <2>3. faults' \in 0 .. MaxFaults
    BY <1>0, <1>7, OrderAssumption DEF Raise
  <2> QED  BY <1>0, <1>7, <2>2, <2>3 DEF Raise, Cleaned
<1>8. CASE Die(o)
  <2>1. faults' \in 0 .. MaxFaults
    BY <1>0, <1>8, OrderAssumption DEF Die
  <2> QED  BY <1>0, <1>8, <2>1 DEF Die
<1> QED  BY <1>1, <1>2, <1>3, <1>4, <1>5, <1>6, <1>7, <1>8 DEF RunStep

(* Only the run that moves can disturb what is kept of runs. *)
LEMMA OthersKept ==
  ASSUME NEW o \in Orders, RunsTypeOK, RunStep(o), NEW q \in Orders, q # o
  PROVE  /\ phase'[q] = phase[q] /\ index'[q] = index[q]
         /\ attempt'[q] = attempt[q] /\ total'[q] = total[q]
         /\ decided'[q] = decided[q] /\ spent'[q] = spent[q]
         /\ q \in overspent' <=> q \in overspent
<1> USE DEF RunsTypeOK
<1>1. CASE Start(o)  BY <1>1 DEF Start
<1>2. CASE BaselineRun(o)  BY <1>2 DEF BaselineRun
<1>3. CASE Execute(o)  BY <1>3 DEF Execute
<1>4. CASE Offer(o)  BY <1>4 DEF Offer
<1>5. CASE AppendRecord(o)  BY <1>5 DEF AppendRecord
<1>6. CASE Return(o)  BY <1>6 DEF Return
<1>7. CASE Raise(o)  BY <1>7 DEF Raise
<1>8. CASE Die(o)  BY <1>8 DEF Die
<1> QED  BY <1>1, <1>2, <1>3, <1>4, <1>5, <1>6, <1>7, <1>8 DEF RunStep

(* what its attempts may have spent,                                       *)
LEMMA SpendStaysKept ==
  ASSUME RunsInv, NEW o \in Orders, RunStep(o), Order[o].limit # None
  PROVE  SpendKept(o)'
<1> DEFINE limit == Order[o].limit
           n == Len(Candidates(o))
<1>1. /\ o \notin overspent =>
            /\ total[o] <= limit /\ spent[o] <= limit * n
            /\ phase[o] # "failed" => spent[o] <= limit * Tried(o)
      /\ total[o] > limit => \E x \in Order[o].results : total[o] < limit + x.cost
  BY DEF RunsInv, RunKept, SpendKept
<1>2. /\ limit \in Nat /\ n \in Nat /\ total[o] \in Nat /\ spent[o] \in Nat
      /\ index[o] \in Nat /\ index[o] <= n
  BY OrderTyped DEF RunsInv, RunsTypeOK, RunKept
<1>3. RunsTypeOK /\ RunsTypeOK'
  BY RunsStayTyped DEF RunsInv
<1>4. Candidates(o)' = Candidates(o)
  BY DEF Candidates
<1> SUFFICES /\ o \notin overspent' =>
                   /\ total'[o] <= limit
                   /\ spent'[o] <= limit * n
                   /\ phase'[o] # "failed" => spent'[o] <= limit * (Tried(o)')
             /\ total'[o] > limit =>
                   \E x \in Order[o].results : total'[o] < limit + x.cost
  BY <1>4 DEF SpendKept
<1> HIDE DEF limit, n
<1>5. CASE Start(o) \/ BaselineRun(o) \/ Return(o)
  <2>1. /\ total'[o] = total[o] /\ spent'[o] = spent[o] /\ overspent' = overspent
        /\ Tried(o)' = Tried(o) /\ phase[o] # "failed"
    BY <1>5 DEF Start, BaselineRun, Return, Tried
  <2> QED  BY <1>1, <2>1
<1>6. CASE Execute(o)
  <2>1. PICK x \in Executions(o) : \E v \in Verdicts(o, x) :
          /\ attempt' = [attempt EXCEPT ![o] =
                            [verification |-> v,
                             attached |-> IF Offered(o) THEN None ELSE FALSE]]
          /\ total' = [total EXCEPT ![o] = @ + x.cost]
          /\ spent' = [spent EXCEPT ![o] = @ + x.spent]
          /\ overspent' = IF Overruns(o, x) THEN overspent \cup {o} ELSE overspent
    BY <1>6 DEF Execute
  <2>0. PICK v \in Verdicts(o, x) :
          attempt' = [attempt EXCEPT ![o] =
                         [verification |-> v,
                          attached |-> IF Offered(o) THEN None ELSE FALSE]]
    BY <2>1
  <2>2. x \in Results /\ x.cost <= x.spent
    BY ExecutionTyped
  <2>3. x.cost \in Nat /\ x.spent \in Nat
    BY <2>2 DEF Results
  <2>4. total'[o] = total[o] + x.cost /\ spent'[o] = spent[o] + x.spent
    BY <1>3, <2>1 DEF RunsTypeOK
  <2>5. Tried(o) = index[o] /\ Tried(o)' = index[o] + 1
    <3>1. attempt'[o] # None
      <4>1. attempt'[o] = [verification |-> v,
                           attached |-> IF Offered(o) THEN None ELSE FALSE]
        BY <1>3, <2>0 DEF RunsTypeOK
      <4>2. v \in Verifications
        BY <2>2, VerdictsTyped
      <4>3. [verification |-> v,
             attached |-> IF Offered(o) THEN None ELSE FALSE] \in Attempts
        BY <4>2 DEF Attempts
      <4> QED  BY <4>1, <4>3, NoneAssumption
    <3> QED  BY <1>2, <1>6, <3>1 DEF Tried, Execute
  <2>6. phase[o] # "failed" /\ index[o] + 1 <= n
    BY <1>2, <1>6 DEF Execute, n
  <2>7. ASSUME o \notin overspent'
        PROVE  /\ total'[o] <= limit
               /\ spent'[o] <= limit * n
               /\ spent'[o] <= limit * (Tried(o)')
    <3>1. o \notin overspent /\ x.spent <= limit - total[o]
      <4>1. o \notin overspent /\ ~Overruns(o, x)
        BY <2>1, <2>7
      <4> QED  BY <1>2, <2>3, <4>1 DEF Overruns, Ceiling, limit
    <3>2. x.spent <= limit
      BY <1>2, <2>3, <3>1
    <3>3. spent'[o] <= limit * index[o] + limit
      <4>1. spent[o] <= limit * index[o]
        BY <1>1, <2>5, <2>6, <3>1
      <4>2. limit * index[o] \in Nat
        BY <1>2
      <4> QED  BY <1>2, <2>3, <2>4, <3>2, <4>1, <4>2
    <3>4. limit * index[o] + limit = limit * (index[o] + 1)
      BY <1>2
    <3>5. limit * (index[o] + 1) <= limit * n
      BY <1>2, <2>6
    <3>6. limit * (index[o] + 1) \in Nat /\ limit * n \in Nat
      BY <1>2
    <3> QED  BY <1>2, <2>2, <2>3, <2>4, <2>5, <3>1, <3>3, <3>4, <3>5, <3>6
  <2>8. ASSUME total'[o] > limit
        PROVE  \E y \in Order[o].results : total'[o] < limit + y.cost
    <3>1. CASE x.cost = 0
      BY <1>1, <1>2, <2>4, <2>8, <3>1
    <3>2. CASE ~Exhausted(o) /\ \E y \in Order[o].results : y.cost = x.cost
      <4>1. total[o] < limit
        BY <1>2, <3>2 DEF Exhausted, limit
      <4>2. PICK y \in Order[o].results : y.cost = x.cost
        BY <3>2
      <4>3. total'[o] < limit + y.cost
        BY <1>2, <2>3, <2>4, <4>1, <4>2
      <4> QED  BY <4>3
    <3> QED  BY <3>1, <3>2, ExecutionTyped
  <2> QED  BY <2>7, <2>8
<1>7. CASE Offer(o)
  <2>1. attempt'[o] # None /\ attempt[o] # None
    <3>1. attempt[o] \in Attempts
      BY <1>3, <1>7 DEF Offer, RunsTypeOK
    <3>2. \E b \in BOOLEAN : attempt'[o] = [attempt[o] EXCEPT !.attached = b]
      BY <1>3, <1>7 DEF Offer, RunsTypeOK
    <3>3. attempt'[o] \in Attempts
      BY <3>1, <3>2 DEF Attempts
    <3> QED  BY <3>3, <1>7, NoneAssumption DEF Offer
  <2>2. /\ total'[o] = total[o] /\ spent'[o] = spent[o] /\ overspent' = overspent
        /\ Tried(o)' = Tried(o) /\ phase'[o] = phase[o]
    BY <1>7, <2>1 DEF Offer, Tried
  <2> QED  BY <1>1, <2>2
<1>8. CASE AppendRecord(o)
  <2>1. /\ total'[o] = total[o] /\ spent'[o] = spent[o] /\ overspent' = overspent
        /\ phase'[o] = phase[o] /\ attempt'[o] = None
        /\ attempt[o] # None /\ index'[o] = index[o] + 1
    BY <1>3, <1>8 DEF AppendRecord, RunsTypeOK
  <2>2. Tried(o)' = Tried(o)
    BY <1>2, <2>1 DEF Tried
  <2> QED  BY <1>1, <2>1, <2>2
<1>9. CASE Raise(o) \/ Die(o)
  <2>1. /\ total'[o] = total[o] /\ spent'[o] = spent[o] /\ overspent' = overspent
        /\ phase'[o] = "failed"
    BY <1>3, <1>9 DEF Raise, Die, RunsTypeOK
  <2> QED  BY <1>1, <2>1
<1> QED  BY <1>5, <1>6, <1>7, <1>8, <1>9 DEF RunStep

(* and what its phase says of its attempt and its lines.                   *)
LEMMA RunStaysKept ==
  ASSUME RunsInv, NEW o \in Orders, RunStep(o)
  PROVE  RunKept(o)'
<1> DEFINE n == Len(Candidates(o))
<1>1. /\ index[o] <= n
      /\ attempt[o] # None => phase[o] = "candidates" /\ index[o] < n
      /\ phase[o] # "new" => decided[o] > 0
      /\ phase[o] = "done" => index[o] = n
  BY DEF RunsInv, RunKept
<1>2. n \in Nat /\ index[o] \in Nat /\ decided[o] \in Nat /\ clock \in Nat
  BY OrderTyped DEF RunsInv, RunsTypeOK
<1>3. RunsTypeOK
  BY DEF RunsInv
<1>4. Order[o].limit # None => SpendKept(o)'
  BY SpendStaysKept
<1>5. SpendKept(o)'
  BY <1>4 DEF SpendKept
<1>6. Candidates(o)' = Candidates(o)
  BY DEF Candidates
<1> SUFFICES /\ index'[o] <= n
             /\ attempt'[o] # None => phase'[o] = "candidates" /\ index'[o] < n
             /\ phase'[o] # "new" => decided'[o] > 0
             /\ phase'[o] = "done" => index'[o] = n
  BY <1>5, <1>6 DEF RunKept
<1> USE DEF RunsTypeOK
<1>7. CASE Start(o)
  <2>1. decided'[o] = clock + 1 /\ phase'[o] = "baseline"
    BY <1>3, <1>7 DEF Start
  <2>2. index' = index /\ attempt' = attempt /\ phase[o] = "new"
    BY <1>7 DEF Start
  <2> QED  BY <1>1, <1>2, <2>1, <2>2
<1>8. CASE BaselineRun(o)
  <2>1. phase'[o] = "candidates" /\ phase[o] = "baseline"
    BY <1>3, <1>8 DEF BaselineRun
  <2>2. index' = index /\ attempt' = attempt /\ decided' = decided
    BY <1>8 DEF BaselineRun
  <2> QED  BY <1>1, <1>2, <2>1, <2>2
<1>9. CASE Execute(o)
  <2>1. phase[o] = "candidates" /\ index[o] < n
    BY <1>9 DEF Execute
  <2>2. phase' = phase /\ index' = index /\ decided' = decided
    BY <1>9 DEF Execute
  <2> HIDE DEF n
  <2> QED  BY <1>1, <1>2, <2>1, <2>2
<1>10. CASE Offer(o)
  <2>1. phase' = phase /\ index' = index /\ decided' = decided
    BY <1>10 DEF Offer
  <2>2. attempt[o] # None
    BY <1>10 DEF Offer
  <2> HIDE DEF n
  <2> QED  BY <1>1, <1>2, <2>1, <2>2
<1>11. CASE AppendRecord(o)
  <2>1. phase' = phase /\ decided' = decided
    BY <1>11 DEF AppendRecord
  <2>2. attempt[o] # None /\ attempt'[o] = None /\ index'[o] = index[o] + 1
    BY <1>3, <1>11 DEF AppendRecord
  <2> HIDE DEF n
  <2> QED  BY <1>1, <1>2, <2>1, <2>2
<1>12. CASE Return(o)
  <2>1. phase'[o] = "done" /\ phase[o] = "candidates"
    BY <1>3, <1>12 DEF Return
  <2>2. index' = index /\ attempt' = attempt /\ decided' = decided
    BY <1>12 DEF Return
  <2>3. index[o] = n
    BY <1>12 DEF Return
  <2> HIDE DEF n
  <2> QED  BY <1>1, <1>2, <2>1, <2>2, <2>3
<1>13. CASE Raise(o) \/ Die(o)
  <2>1. phase'[o] = "failed" /\ attempt'[o] = None /\ phase[o] # "new"
    BY <1>3, <1>13 DEF Raise, Die
  <2>2. index' = index /\ decided' = decided
    BY <1>13 DEF Raise, Die
  <2> HIDE DEF n
  <2> QED  BY <1>1, <1>2, <2>1, <2>2
<1> QED  BY <1>7, <1>8, <1>9, <1>10, <1>11, <1>12, <1>13 DEF RunStep

(* What a step does to the file: nothing, one record at its end, or a line  *)
(* that does not parse at its end.                                          *)
LEMMA DatasetSteps ==
  ASSUME RunsInv, NEW o \in Orders, RunStep(o)
  PROVE  \/ dataset' = dataset
         \/ /\ AppendRecord(o)
            /\ dataset' = Append(dataset, RecordOf(o))
         \/ /\ Len(dataset') \in DOMAIN dataset'
            /\ dataset'[Len(dataset')] \in Broken
            /\ \A i \in DOMAIN dataset' : i # Len(dataset') =>
                   i \in DOMAIN dataset /\ dataset'[i] = dataset[i]
<1>1. dataset \in Seq(Records \cup Broken)
  BY DEF RunsInv, RunsTypeOK
<1>2. CASE AppendRecord(o) /\ Unended
  <2>1. dataset' = [dataset EXCEPT ![Len(dataset)] = Garbled] /\ dataset # <<>>
    BY <1>2 DEF AppendRecord, Unended
  <2>2. Len(dataset) \in DOMAIN dataset /\ DOMAIN dataset = 1 .. Len(dataset)
    BY <1>1, <2>1
  <2>3. Len(dataset') = Len(dataset) /\ DOMAIN dataset' = DOMAIN dataset
    BY <1>1, <2>1
  <2>4. dataset'[Len(dataset)] = Garbled
    BY <2>1, <2>2
  <2> QED  BY <2>1, <2>2, <2>3, <2>4 DEF Broken
<1>3. CASE Raise(o)
  <2>1. CASE dataset' = Append(dataset, Fragment)
    <3>1. /\ Len(dataset') = Len(dataset) + 1
          /\ DOMAIN dataset' = 1 .. Len(dataset) + 1 /\ Len(dataset) \in Nat
          /\ dataset'[Len(dataset) + 1] = Fragment
          /\ \A i \in 1 .. Len(dataset) : dataset'[i] = dataset[i]
      BY <1>1, <2>1
    <3>2. DOMAIN dataset = 1 .. Len(dataset)
      BY <1>1
    <3> QED  BY <3>1, <3>2 DEF Broken
  <2> QED  BY <1>3, <2>1 DEF Raise
<1>4. CASE AppendRecord(o) /\ ~Unended
  BY <1>4 DEF AppendRecord
<1>5. CASE ~AppendRecord(o) /\ ~Raise(o)
  BY <1>5 DEF RunStep, Start, BaselineRun, Execute, Offer, Return, Die
<1> QED  BY <1>2, <1>3, <1>4, <1>5

(* The decision a run was started for never changes.                       *)
LEMMA DecisionStays ==
  ASSUME RunsInv, NEW o \in Orders, RunStep(o), NEW q \in Orders,
         phase[q] # "new"
  PROVE  phase'[q] # "new" /\ decided'[q] = decided[q]
<1>1. RunsTypeOK
  BY DEF RunsInv
<1>2. CASE q # o
  BY <1>1, <1>2, OthersKept
<1>3. CASE q = o
  <2>1. decided' = decided
    BY <1>3 DEF RunStep, Start, BaselineRun, Execute, Offer, AppendRecord,
                Return, Raise, Die
  <2>2. phase'[o] = phase[o] \/ phase'[o] \in {"baseline", "candidates", "done", "failed"}
    BY <1>1 DEF RunsTypeOK, RunStep, Start, BaselineRun, Execute, Offer,
                AppendRecord, Return, Raise, Die
  <2> QED  BY <1>3, <2>1, <2>2
<1> QED  BY <1>2, <1>3

(* Every whole line stays one its run wrote: the new line of the step, or  *)
(* one that stood before.                                                  *)
LEMMA LinesStayKept ==
  ASSUME RunsInv, NEW o \in Orders, RunStep(o),
         NEW i \in DOMAIN dataset', dataset'[i] \notin Broken
  PROVE  LineKept(i)'
<1>1. dataset \in Seq(Records \cup Broken)
  BY DEF RunsInv, RunsTypeOK
<1>2. ASSUME i \in DOMAIN dataset, dataset'[i] = dataset[i]
      PROVE  LineKept(i)'
  <2>1. LineKept(i)
    BY <1>2 DEF RunsInv
  <2>2. dataset[i].pair \in Orders
    BY <1>1, <1>2 DEF Records
  <2>3. /\ phase'[dataset[i].pair] # "new"
        /\ decided'[dataset[i].pair] = decided[dataset[i].pair]
    BY <2>1, <2>2, DecisionStays DEF LineKept
  <2>4. \A line : line = dataset[i] => dataset'[i] = line
    BY <1>2
  <2> QED  BY <1>2, <2>1, <2>3, <2>4, Zenon DEF LineKept
<1>3. CASE AppendRecord(o) /\ dataset' = Append(dataset, RecordOf(o))
  <2>1. CASE i \in DOMAIN dataset
    <3>1. dataset'[i] = dataset[i]
      BY <1>1, <1>3, <2>1
    <3> QED  BY <1>2, <2>1, <3>1
  <2>2. CASE i \notin DOMAIN dataset
    <3>1. dataset'[i] = RecordOf(o)
      BY <1>1, <1>3, <2>2
    <3>2. phase[o] # "new" /\ phase' = phase /\ decided' = decided
      BY <1>3 DEF AppendRecord
    <3>3. LET line == dataset'[i]
          IN  /\ line.pair = o /\ line.id[1] = o /\ line.decided = decided[o]
              /\ line.task = Order[o].task
              /\ line.repository = Order[o].repository
              /\ line.snapshot = Order[o].snapshot
              /\ line.plan = Order[o].plan
              /\ line.features = Sanitize(Order[o].prompt)
      BY <3>1 DEF RecordOf
    <3> QED  BY <3>2, <3>3 DEF LineKept
  <2> QED  BY <2>1, <2>2
<1> QED  BY <1>2, <1>3, DatasetSteps

(* While the file parses, each run's lines are its candidates in their      *)
(* order, however the runs interleave.                                      *)
LEMMA LinesStayInOrder ==
  ASSUME RunsInv, NEW o \in Orders, RunStep(o), Readable', NEW q \in Orders
  PROVE  LinesInOrder(q)'
<1> DEFINE n == Len(dataset)
           lines == LinesOf(q)
<1>1. /\ dataset \in Seq(Records \cup Broken) /\ RunsTypeOK
      /\ n \in Nat /\ DOMAIN dataset = 1 .. n
  BY DEF RunsInv, RunsTypeOK
<1>2. CASE ~AppendRecord(o)
  <2>1. index' = index
    BY <1>2 DEF RunStep, Start, BaselineRun, Execute, Offer, Return, Raise, Die
  <2>2. dataset' = dataset
    BY <1>2, DatasetSteps DEF Readable
  <2>3. LinesInOrder(q)
    BY <2>2 DEF RunsInv, Readable
  <2>4. LinesOf(q)' = LinesOf(q) /\ \A i : Place(q, i)' = Place(q, i)
    BY <2>2 DEF LinesOf, Place
  <2> QED  BY <2>1, <2>2, <2>3, <2>4 DEF LinesInOrder, Candidates
<1>3. CASE AppendRecord(o)
  <2>1. dataset' = Append(dataset, RecordOf(o))
    <3>1. dataset' # dataset
      <4>1. CASE Unended
        <5>1. dataset' = [dataset EXCEPT ![Len(dataset)] = Garbled] /\ dataset # <<>>
          BY <1>3, <4>1 DEF AppendRecord, Unended
        <5>2. n \in DOMAIN dataset' /\ dataset'[n] = Garbled
          BY <1>1, <5>1
        <5> QED  BY <5>2 DEF Readable, Broken
      <4>2. CASE ~Unended
        <5>1. dataset' = Append(dataset, RecordOf(o))
          BY <1>3, <4>2 DEF AppendRecord
        <5>2. Len(dataset') = n + 1
          BY <1>1, <5>1
        <5> QED  BY <1>1, <5>2
      <4> QED  BY <4>1, <4>2
    <3> QED  BY <3>1, DatasetSteps DEF Readable
  <2>2. /\ DOMAIN dataset' = 1 .. n + 1
        /\ dataset'[n + 1] = RecordOf(o)
        /\ \A i \in 1 .. n : dataset'[i] = dataset[i]
    BY <1>1, <2>1
  <2>3. Readable /\ RunKept(o)
    <3>1. \A i \in 1 .. n : i \in 1 .. n + 1
      BY <1>1
    <3> QED  BY <1>1, <2>2, <3>1 DEF Readable, RunsInv
  <2>4. LinesInOrder(q)
    BY <2>3 DEF RunsInv
  <2>5. /\ RecordOf(o) \notin Broken /\ RecordOf(o).pair = o
        /\ RecordOf(o).candidate = Candidates(o)[index[o] + 1]
    <3>1. RecordOf(o) \notin Broken
      BY <1>1, <1>3, <2>3, RecordTyped DEF AppendRecord
    <3> QED  BY <3>1 DEF RecordOf, Current
  <2>6. LinesOf(q)' = IF q = o THEN lines \cup {n + 1} ELSE lines
    BY <1>1, <2>2, <2>5 DEF LinesOf
  <2>7. lines \subseteq 1 .. n /\ IsFiniteSet(lines) /\ Cardinality(lines) = index[q]
    <3>1. lines \subseteq 1 .. n
      BY <1>1 DEF LinesOf
    <3>2. IsFiniteSet(1 .. n)
      BY <1>1, FS_Interval
    <3> QED  BY <2>4, <3>1, <3>2, FS_Subset DEF LinesInOrder
  <2>8. ASSUME NEW i \in lines
        PROVE  /\ Place(q, i)' = Place(q, i)
               /\ dataset'[i].candidate = Candidates(q)[Place(q, i)]
    <3>1. {j \in LinesOf(q)' : j <= i} = {j \in lines : j <= i}
      BY <1>1, <2>6, <2>7
    <3>2. dataset'[i] = dataset[i]
      BY <2>2, <2>7
    <3> QED  BY <2>4, <3>1, <3>2 DEF Place, LinesInOrder
  <2>9. CASE q # o
    <3>1. index'[q] = index[q]
      BY <1>1, <1>3, <2>9 DEF AppendRecord, RunsTypeOK
    <3>2. LinesOf(q)' = lines
      BY <2>6, <2>9
    <3> HIDE DEF lines
    <3> QED  BY <2>7, <2>8, <3>1, <3>2 DEF LinesInOrder, Candidates
  <2>10. CASE q = o
    <3>1. index'[q] = index[q] + 1
      BY <1>1, <1>3, <2>10 DEF AppendRecord, RunsTypeOK
    <3>2. LinesOf(q)' = lines \cup {n + 1} /\ n + 1 \notin lines
      BY <1>1, <2>6, <2>7, <2>10
    <3>3. Cardinality(LinesOf(q)') = index[q] + 1
      <4> HIDE DEF lines, n
      <4> QED  BY <2>7, <3>2, FS_AddElement
    <3>4. {j \in LinesOf(q)' : j <= n + 1} = LinesOf(q)'
      BY <1>1, <2>7, <3>2
    <3>6. dataset'[n + 1].candidate = Candidates(q)[index[q] + 1]
      BY <2>2, <2>5, <2>10
    <3>7. ASSUME NEW i \in LinesOf(q)'
          PROVE  dataset'[i].candidate = Candidates(q)[Place(q, i)']
      <4>1. CASE i \in lines
        BY <2>8, <4>1
      <4>2. CASE i = n + 1
        <5>1. Place(q, i)' = Cardinality({j \in LinesOf(q)' : j <= i})
          BY DEF Place
        <5>2. Place(q, i)' = index[q] + 1
          BY <3>3, <3>4, <4>2, <5>1
        <5> QED  BY <3>6, <4>2, <5>2
      <4> QED  BY <3>2, <3>7, <4>1, <4>2
    <3> QED  BY <3>1, <3>3, <3>7 DEF LinesInOrder, Candidates
  <2> QED  BY <2>9, <2>10
<1> QED  BY <1>2, <1>3

(* The runs' invariant is kept by every step of every run.                  *)
THEOREM RunsStep ==
  ASSUME RunsInv, NEW o \in Orders, RunStep(o)
  PROVE  RunsInv'
<1>1. RunsTypeOK'
  BY RunsStayTyped
<1>2. ASSUME NEW q \in Orders PROVE RunKept(q)'
  <2>1. CASE q = o
    BY <2>1, RunStaysKept
  <2>2. CASE q # o
    <3>1. RunKept(q)
      BY DEF RunsInv
    <3> QED  BY <2>2, <3>1, OthersKept
             DEF RunsInv, RunKept, SpendKept, Tried, Candidates
  <2> QED  BY <2>1, <2>2
<1>3. ASSUME NEW i \in DOMAIN dataset', dataset'[i] \notin Broken
      PROVE  LineKept(i)'
  BY <1>3, LinesStayKept
<1>4. Readable' => \A q \in Orders : LinesInOrder(q)'
  BY LinesStayInOrder
<1>5. Broken' = Broken
  BY DEF Broken
<1> QED  BY <1>1, <1>2, <1>3, <1>4, <1>5, Zenon DEF RunsInv

(* What does not touch the runs' variables but the ledger's columns keeps   *)
(* the invariant.                                                           *)
LEMMA RunsUntouched ==
  ASSUME RunsInv, ledger' \in [Routes -> Verifications \cup {None}],
         UNCHANGED <<phase, index, attempt, total, decided, clock, dataset,
                     roots, spent, overspent, faults>>
  PROVE  RunsInv'
<1>1. RunsTypeOK'
  BY DEF RunsInv, RunsTypeOK
<1>2. ASSUME NEW q \in Orders PROVE RunKept(q)'
  BY DEF RunsInv, RunKept, SpendKept, Tried, Candidates
<1>3. ASSUME NEW i \in DOMAIN dataset, dataset[i] \notin Broken PROVE LineKept(i)'
  <2>1. LineKept(i)
    BY <1>3 DEF RunsInv
  <2> QED  BY <2>1 DEF LineKept
<1>4. ASSUME Readable, NEW q \in Orders PROVE LinesInOrder(q)'
  <2>1. LinesInOrder(q)
    BY <1>4 DEF RunsInv
  <2> QED  BY <2>1 DEF LinesInOrder, LinesOf, Place, Candidates
<1>5. Readable' = Readable /\ Broken' = Broken
  BY DEF Readable, Broken
<1>6. \A i \in DOMAIN dataset' : dataset'[i] \notin Broken => LineKept(i)'
  BY <1>3, Zenon
<1>7. Readable' => \A q \in Orders : LinesInOrder(q)'
  BY <1>4, <1>5
<1> QED  BY <1>1, <1>2, <1>5, <1>6, <1>7, Zenon DEF RunsInv

(* The inductive invariant of the runs.                                     *)
THEOREM RunsInvariance == RunsSpec => []RunsInv
<1>1. RunsInv /\ [\E o \in Orders : RunStep(o)]_cfVars => RunsInv'
  <2> SUFFICES ASSUME RunsInv, [\E o \in Orders : RunStep(o)]_cfVars
               PROVE  RunsInv'
    OBVIOUS
  <2>1. CASE \E o \in Orders : RunStep(o)
    BY <2>1, RunsStep
  <2>2. CASE UNCHANGED cfVars
    <3>1. ledger' \in [Routes -> Verifications \cup {None}]
      BY <2>2 DEF cfVars, RunsInv, RunsTypeOK
    <3> QED  BY <2>2, <3>1, RunsUntouched DEF cfVars
  <2> QED  BY <2>1, <2>2
<1> QED  BY <1>1, RunsInit, PTL DEF RunsSpec

(* Under a limit a run whose executions keep to their ceilings counts no    *)
(* more than it, and may really spend it once more for every candidate at   *)
(* the worst; any run passes it by one report at most (run_counterfactual's *)
(* total_cost).                                                             *)
THEOREM SpendStaysWithin == RunsSpec => []SpendWithinLimit
<1>1. RunsInv => SpendWithinLimit
  BY DEF RunsInv, RunKept, SpendKept, SpendWithinLimit
<1> QED  BY <1>1, RunsInvariance, PTL

-----------------------------------------------------------------------------
(* The pairs.                                                               *)

(* Clean evidence of the dataset is of a run that has begun, and tells the  *)
(* run's own task.                                                          *)
LEMMA CleanEvidence ==
  ASSUME RunsInv, NEW e \in CleanCounterfactual
  PROVE  LET order == Order[e.pair]
         IN  /\ e.pair \in Orders /\ e.id[1] = e.pair
             /\ decided[e.pair] > 0 /\ e.decided = decided[e.pair]
             /\ Comparison(e) = <<order.task, order.repository, order.snapshot,
                                  order.plan, Sanitize(order.prompt)>>
<1>1. PICK i \in CleanLines : e = EvidenceOf(dataset[i])
  BY Zenon DEF CleanCounterfactual
<1>2. i \in DOMAIN dataset /\ dataset[i] \notin Broken /\ e # Rejected
  BY <1>1, Zenon DEF CleanLines
<1>3. LineKept(i)
  BY <1>2 DEF RunsInv
<1>4. dataset[i].pair \in Orders
  <2>1. dataset \in Seq(Records \cup Broken)
    BY DEF RunsInv, RunsTypeOK
  <2>2. dataset[i] \in Records
    BY <1>2, <2>1
  <2> QED  BY <2>2 DEF Records
<1>5. decided[dataset[i].pair] > 0
  BY <1>3, <1>4 DEF LineKept, RunsInv, RunKept
<1>6. /\ e.id = dataset[i].id /\ e.pair = dataset[i].pair
      /\ e.decided = dataset[i].decided /\ e.task = dataset[i].task
      /\ e.repository = dataset[i].repository
      /\ e.snapshot = dataset[i].snapshot /\ e.plan = dataset[i].plan
      /\ e.features = dataset[i].features
  BY <1>1, <1>2 DEF EvidenceOf
<1> QED  BY <1>3, <1>4, <1>5, <1>6 DEF LineKept, Comparison

(* There are finitely many clean records.                                  *)
LEMMA CleanIsFinite ==
  ASSUME RunsInv
  PROVE  IsFiniteSet(CleanCounterfactual)
<1> DEFINE evidence == [i \in CleanLines |-> EvidenceOf(dataset[i])]
<1>1. IsFiniteSet(CleanLines)
  <2>1. CleanLines \subseteq DOMAIN dataset
    BY DEF CleanLines
  <2>2. IsFiniteSet(DOMAIN dataset)
    <3>1. dataset \in Seq(Records \cup Broken)
      BY DEF RunsInv, RunsTypeOK
    <3>2. DOMAIN dataset = 1 .. Len(dataset) /\ Len(dataset) \in Nat
      BY <3>1
    <3> QED  BY <3>2, FS_Interval
  <2> QED  BY <2>1, <2>2, FS_Subset
<1>2. evidence \in Surjection(CleanLines, CleanCounterfactual)
  BY Zenon DEF Surjection, CleanCounterfactual
<1> HIDE DEF evidence
<1> QED  BY <1>1, <1>2, FS_Surjection

(* There are as many identities as members exactly if no two members share  *)
(* one.                                                                     *)
LEMMA IdentityApart ==
  ASSUME NEW S, IsFiniteSet(S)
  PROVE  Cardinality({Identity(e) : e \in S}) = Cardinality(S)
           <=> \A e, f \in S : Identity(e) = Identity(f) => e = f
<1> DEFINE ids == {Identity(e) : e \in S}
           id == [e \in S |-> Identity(e)]
<1>1. id \in Surjection(S, ids)
  BY Zenon DEF Surjection
<1>2. id \in Injection(S, ids) <=> \A e, f \in S : Identity(e) = Identity(f) => e = f
  BY Zenon DEF Injection, IsInjective
<1> HIDE DEF id
<1>3. Cardinality(ids) = Cardinality(S) <=> id \in Injection(S, ids)
  <2> HIDE DEF ids
  <2> QED  BY <1>1, FS_Surjection
<1> QED  BY <1>2, <1>3

(* What a run that returned left in a file that parses: its candidates in   *)
(* order, decided once, and a pair if and only if both ends of the ladder   *)
(* got a clean label and no identity two (run_counterfactual,               *)
(* validate_counterfactual_pairs).                                          *)
THEOREM ReturnedRunsPair == RunsSpec => []RunsPair
<1>1. ASSUME RunsInv PROVE RunsPair
  <2> SUFFICES ASSUME NEW o \in Orders, phase[o] = "done", Readable
               PROVE  LET clean == GroupOf(CleanCounterfactual, o)
                      IN  /\ Cardinality(LinesOf(o)) = Len(Candidates(o))
                          /\ \A i \in LinesOf(o) :
                                 dataset[i].candidate = Candidates(o)[Place(o, i)]
                          /\ Cardinality({dataset[i].decided : i \in LinesOf(o)}) = 1
                          /\ o \in CounterfactualPairs <=>
                                /\ {e.rung : e \in clean} \cap LocalRungs # {}
                                /\ {e.rung : e \in clean} \cap FrontierRungs # {}
                                /\ Cardinality({Identity(e) : e \in clean})
                                      = Cardinality(clean)
    BY Zenon DEF RunsPair
  <2> DEFINE clean == GroupOf(CleanCounterfactual, o)
  <2>1. /\ Cardinality(LinesOf(o)) = Len(Candidates(o))
        /\ \A i \in LinesOf(o) :
               dataset[i].candidate = Candidates(o)[Place(o, i)]
    BY <1>1 DEF RunsInv, RunKept, LinesInOrder
  <2>2. Cardinality({dataset[i].decided : i \in LinesOf(o)}) = 1
    <3>1. LinesOf(o) # {}
      <4>1. LinesOf(o) = {} => Cardinality(LinesOf(o)) = 0
        BY FS_EmptySet
      <4>2. Len(Candidates(o)) > 0 /\ Len(Candidates(o)) \in Nat
        BY OrderTyped
      <4> QED  BY <2>1, <4>1, <4>2
    <3>2. \A i \in LinesOf(o) : dataset[i].decided = decided[o]
      BY <1>1 DEF RunsInv, LinesOf, LineKept
    <3>3. {dataset[i].decided : i \in LinesOf(o)} = {decided[o]}
      BY <3>1, <3>2
    <3> QED  BY <3>3, FS_Singleton
  <2>3. IsFiniteSet(clean)
    BY <1>1, CleanIsFinite, FS_Subset DEF GroupOf
  <2>4. \A e, f \in clean : Comparison(e) = Comparison(f)
    <3>1. \A e \in clean : e \in CleanCounterfactual /\ e.pair = o
      BY DEF GroupOf
    <3> HIDE DEF clean
    <3> QED  BY <1>1, <3>1, CleanEvidence
  <2>5. o \in CounterfactualPairs <=> clean # {} /\ ValidPair(clean)
    BY Zenon DEF CounterfactualPairs, ValidPairs, PairsOf, GroupOf
  <2>6. ValidPair(clean) <=>
          /\ \E e \in clean : e.rung \in LocalRungs
          /\ \E e \in clean : e.rung \in FrontierRungs
          /\ \A e, f \in clean : Identity(e) = Identity(f) => e = f
    <3> HIDE DEF clean
    <3> QED  BY <2>4, Zenon DEF ValidPair
  <2>7. /\ (\E e \in clean : e.rung \in LocalRungs)
              <=> {e.rung : e \in clean} \cap LocalRungs # {}
        /\ (\E e \in clean : e.rung \in FrontierRungs)
              <=> {e.rung : e \in clean} \cap FrontierRungs # {}
        /\ {e.rung : e \in clean} \cap LocalRungs # {} => clean # {}
    <3> HIDE DEF clean
    <3> QED  OBVIOUS
  <2>8. (\A e, f \in clean : Identity(e) = Identity(f) => e = f)
          <=> Cardinality({Identity(e) : e \in clean}) = Cardinality(clean)
    BY <2>3, IdentityApart
  <2> HIDE DEF clean
  <2> QED  BY <2>1, <2>2, <2>5, <2>6, <2>7, <2>8 DEF clean
<1> QED  BY <1>1, RunsInvariance, PTL

-----------------------------------------------------------------------------
(* The readiness report.                                                    *)

(* Verdicts in the organic file are verdicts the ledger can hold, and       *)
(* reviews are of routes.                                                   *)
OrganicTypeOK ==
    /\ final \subseteq Routes
    /\ contexts \in [Routes -> Verifications \cup {None}]
    /\ reviews \in Seq([evidence : Routes, agrees : BOOLEAN])

ReadinessInv == RunsInv /\ OrganicTypeOK

(* Every step of runs, live jobs and reviews keeps the invariant.          *)
LEMMA ReadinessStep ==
  ASSUME ReadinessInv, [Next]_vars
  PROVE  ReadinessInv'
<1> USE DEF ReadinessInv
<1>1. RunsInv /\ OrganicTypeOK
  OBVIOUS
<1>2. ASSUME NEW o \in Orders, RunStep(o), UNCHANGED organicVars
      PROVE  ReadinessInv'
  <2>1. RunsInv'
    BY <1>1, <1>2, RunsStep
  <2> QED  BY <1>1, <1>2, <2>1 DEF organicVars, OrganicTypeOK
<1>3. ASSUME NEW r \in Routes, VerifyLive(r)
      PROVE  ReadinessInv'
  <2>1. PICK ws \in Route[r].workspaces :
          LET v == Verdict(Plan[Route[r].plan], ws, Route[r].baseline)
          IN  /\ ledger' = [ledger EXCEPT ![r] = v]
              /\ contexts' = [contexts EXCEPT ![r] = v]
    BY <1>3 DEF VerifyLive
  <2> DEFINE v == Verdict(Plan[Route[r].plan], ws, Route[r].baseline)
  <2>2. v \in Verifications
    <3>1. IsFiniteSet(Plan[Route[r].plan].checks)
      BY RouteAssumption, OrderAssumption
    <3> QED  BY <3>1, VerdictTyped
  <2> HIDE DEF v
  <2>3. ledger' = [ledger EXCEPT ![r] = v] /\ contexts' = [contexts EXCEPT ![r] = v]
    BY <2>1 DEF v
  <2>4. ledger \in [Routes -> Verifications \cup {None}]
    BY <1>1 DEF RunsInv, RunsTypeOK
  <2>5. ledger' \in [Routes -> Verifications \cup {None}]
    BY <2>2, <2>3, <2>4
  <2>6. RunsInv'
    BY <1>1, <1>3, <2>5, RunsUntouched DEF VerifyLive
  <2>7. OrganicTypeOK'
    BY <1>1, <1>3, <2>2, <2>3 DEF VerifyLive, OrganicTypeOK
  <2> QED  BY <2>6, <2>7
<1>4. ASSUME NEW r \in Routes, Finalize(r)
      PROVE  ReadinessInv'
  <2>1. ledger' \in [Routes -> Verifications \cup {None}]
    BY <1>1, <1>4 DEF RunsInv, RunsTypeOK, Finalize, cfVars
  <2>2. RunsInv'
    BY <1>1, <1>4, <2>1, RunsUntouched DEF Finalize, cfVars
  <2> QED  BY <1>1, <1>4, <2>2 DEF Finalize, OrganicTypeOK
<1>5. ASSUME NEW r \in Routes, Review(r)
      PROVE  ReadinessInv'
  <2>1. ledger' \in [Routes -> Verifications \cup {None}]
    BY <1>1, <1>5 DEF RunsInv, RunsTypeOK, Review, cfVars
  <2>2. RunsInv'
    BY <1>1, <1>5, <2>1, RunsUntouched DEF Review, cfVars
  <2> QED  BY <1>1, <1>5, <2>2 DEF Review, OrganicTypeOK
<1>6. CASE UNCHANGED vars
  <2>1. ledger' \in [Routes -> Verifications \cup {None}]
    BY <1>1, <1>6 DEF RunsInv, RunsTypeOK, vars, cfVars
  <2>2. RunsInv'
    BY <1>1, <1>6, <2>1, RunsUntouched DEF vars, cfVars
  <2> QED  BY <1>1, <1>6, <2>2 DEF vars, organicVars, OrganicTypeOK
<1> QED  BY <1>2, <1>3, <1>4, <1>5, <1>6 DEF Next

(* Counterfactual runs keep their invariant beside live verification,       *)
(* finalization and reviews.                                                *)
THEOREM ReadinessInvariance == Spec => []ReadinessInv
<1>1. Init => ReadinessInv
  <2>1. Init => OrganicTypeOK
    BY DEF Init, OrganicTypeOK
  <2> QED  BY <2>1, RunsInit DEF Init, ReadinessInv
<1>2. ReadinessInv /\ [Next]_vars => ReadinessInv'
  BY ReadinessStep
<1> QED  BY <1>1, <1>2, PTL DEF Spec

(* A label that counts is of a final route, and says what the route's own   *)
(* line of evidence says.                                                   *)
LEMMA UsableLabel ==
  ASSUME NEW e \in Usable
  PROVE  /\ e.id \in Routes /\ e.id \in final
         /\ e.pair = Route[e.id].pair /\ e.rung = Route[e.id].rung
         /\ contexts[e.id] # None /\ contexts[e.id] = ledger[e.id]
         /\ e.success = contexts[e.id].success
         /\ e.quality = contexts[e.id].quality
         /\ e.cause = contexts[e.id].cause
         /\ e.success # None
<1>1. PICK r \in ValidRoutes \cap final :
         CauseClean(ContextEvidence(r)) /\ e = ContextEvidence(r)
  BY Zenon DEF Usable
<1>2. r \in Routes /\ contexts[r] # None /\ contexts[r] = ledger[r]
  BY <1>1 DEF ValidRoutes, ContextValid
<1>3. /\ e.id = r /\ e.pair = Route[r].pair /\ e.rung = Route[r].rung
      /\ e.success = ledger[r].success /\ e.quality = ledger[r].quality
      /\ e.cause = ledger[r].cause
  BY <1>1 DEF ContextEvidence
<1>4. e.success # None
  BY <1>1 DEF CauseClean
<1> QED  BY <1>1, <1>2, <1>3, <1>4

(* Labels that count are the route's own verdicts, whatever counterfactual  *)
(* runs write over the ledger (_validate_context, _valid_pair_ids).         *)
THEOREM LabelsStayOwn == Spec => []LabelsAreOwn
<1>1. ASSUME ReadinessInv PROVE LabelsAreOwn
  <2>1. \A e \in Usable : /\ contexts[e.id] # None
                          /\ e.success = contexts[e.id].success
                          /\ e.quality = contexts[e.id].quality
                          /\ e.cause = contexts[e.id].cause
    BY UsableLabel
  <2>2. ASSUME NEW p \in OrganicPairs
        PROVE  \E r, q \in final :
                  /\ Route[r].pair = p /\ Route[r].rung \in LocalRungs
                  /\ Route[q].pair = p /\ Route[q].rung \in FrontierRungs
                  /\ \A t \in {r, q} : contexts[t] # None /\ contexts[t].success # None
    <3>1. PICK e, f \in Usable : /\ e.pair = p /\ e.rung \in LocalRungs
                                /\ f.pair = p /\ f.rung \in FrontierRungs
      BY Zenon DEF OrganicPairs, ValidPairs, ValidPair, GroupOf
    <3>2. /\ e.id \in final /\ Route[e.id].pair = p /\ Route[e.id].rung \in LocalRungs
          /\ contexts[e.id] # None /\ contexts[e.id].success # None
      BY <3>1, UsableLabel
    <3>3. /\ f.id \in final /\ Route[f.id].pair = p /\ Route[f.id].rung \in FrontierRungs
          /\ contexts[f.id] # None /\ contexts[f.id].success # None
      BY <3>1, UsableLabel
    <3>4. \A t \in {e.id, f.id} : contexts[t] # None /\ contexts[t].success # None
      BY <3>2, <3>3
    <3> QED  BY <3>2, <3>3, <3>4
  <2>3. ASSUME NEW p \in CounterfactualPairs,
               \A e \in GroupOf(CleanCounterfactual, p) :
                   Order[e.id[1]].source = "organic"
        PROVE  p \in Orders /\ Order[p].source = "organic" /\ decided[p] > 0
    <3>1. PICK e \in CleanCounterfactual : e.pair = p
      BY Zenon DEF CounterfactualPairs, ValidPairs, PairsOf
    <3>2. e \in GroupOf(CleanCounterfactual, p)
      BY <3>1 DEF GroupOf
    <3>3. e.pair \in Orders /\ e.id[1] = e.pair /\ decided[e.pair] > 0
      BY <1>1, CleanEvidence DEF ReadinessInv
    <3> QED  BY <2>3, <3>1, <3>2, <3>3
  <2> QED  BY <2>1, <2>2, <2>3, Zenon DEF LabelsAreOwn, RepresentativePairs
<1> QED  BY <1>1, ReadinessInvariance, PTL

(* The square grows with the number.                                       *)
LEMMA SquaresOrdered ==
  ASSUME NEW a \in Nat, NEW b \in Nat, NEW n \in Nat, a < b, n > 0
  PROVE  a * a * n < b * b * n
<1>1. a * a <= a * b /\ a * b < b * b
  <2>1. b > 0
    OBVIOUS
  <2> QED  BY <2>1
<1>2. a * a \in Nat /\ b * b \in Nat /\ a * b \in Nat
  OBVIOUS
<1> DEFINE x == a * a
           y == b * b
<1>3. x \in Nat /\ y \in Nat /\ x < y
  BY <1>1, <1>2
<1> HIDE DEF x, y
<1>4. x * n < y * n
  BY <1>3
<1> QED  BY <1>4 DEF x, y

(* Without an agreeing review the lower bound reaches no floor above zero.  *)
LEMMA WilsonNeedsAgreement ==
  ASSUME NEW n \in Nat, NEW z \in Nat, NEW floor \in Nat \X Nat, floor[1] > 0
  PROVE  ~WilsonReaches(0, n, z, floor)
<1> DEFINE p == floor[1]
           q == floor[2]
           lead == q * (8 * 0 + z) - 2 * p * (4 * n + z)
<1>1. p \in Nat /\ q \in Nat /\ p > 0
  OBVIOUS
<1> SUFFICES ASSUME n > 0, lead >= 0,
                    lead * lead * n >= z * q * q * (16 * 0 * (n - 0) + z * n)
             PROVE  FALSE
  <2>1. WilsonReaches(0, n, z, floor) =
          (IF n = 0 THEN p = 0
           ELSE p = 0 \/ (lead >= 0 /\ lead * lead * n
                             >= z * q * q * (16 * 0 * (n - 0) + z * n)))
    BY Zenon DEF WilsonReaches
  <2>2. p # 0 /\ (n # 0 => n > 0)
    BY <1>1
  <2> HIDE DEF p, q, lead
  <2> QED  BY <2>1, <2>2, Zenon
<1>2. 2 * p * (4 * n + z) \in Nat /\ 2 * p * (4 * n + z) > 0
  <2>1. 2 * p \in Nat /\ 2 * p > 0 /\ 4 * n + z \in Nat /\ 4 * n + z > 0
    BY <1>1
  <2> HIDE DEF p
  <2> QED  BY <2>1
<1>3. q * (8 * 0 + z) = q * z /\ q * z \in Nat
  BY <1>1
<1>4. lead \in Nat /\ lead < q * z
  <2> HIDE DEF p, q
  <2> QED  BY <1>2, <1>3
<1>5. z * q * q * (16 * 0 * (n - 0) + z * n) = (q * z) * (q * z) * n
  <2> HIDE DEF p, q
  <2>1. 16 * 0 * (n - 0) + z * n = z * n
    OBVIOUS
  <2>2. z * q * q * (z * n) = (q * z) * (q * z) * n
    BY <1>1
  <2> QED  BY <2>1, <2>2
<1>6. lead * lead * n < (q * z) * (q * z) * n
  <2> HIDE DEF lead
  <2> QED  BY <1>3, <1>4, SquaresOrdered
<1>7. lead * lead * n \in Nat /\ (q * z) * (q * z) * n \in Nat
  <2> HIDE DEF lead, q
  <2> QED  BY <1>1, <1>4
<1> HIDE DEF lead, p, q
<1> QED  BY <1>5, <1>6, <1>7

(* An audit is passed by reviews of labels that still stand. The floor of   *)
(* the policy is above zero (0.9 in config/label-audit-policy-v1.json);     *)
(* _label_audit does not ask for that, and a floor of zero is reached by no *)
(* review at all.                                                           *)
THEOREM AuditsStand ==
  ASSUME WilsonFloor[1] > 0
  PROVE  Spec => []AuditStands
<1>1. ASSUME ReadinessInv, LabelAudit.passes PROVE
        /\ \A i, j \in DOMAIN reviews :
               reviews[i].evidence = reviews[j].evidence => i = j
        /\ \A i \in DOMAIN reviews :
               contexts[reviews[i].evidence] = ledger[reviews[i].evidence]
        /\ \A success \in BOOLEAN : \E i \in DOMAIN reviews :
               /\ reviews[i].agrees
               /\ ledger[reviews[i].evidence].success = success
  <2> DEFINE Counts(i) ==
                 /\ ContextValid(reviews[i].evidence)
                 /\ \A j \in 1 .. i - 1 : reviews[j].evidence # reviews[i].evidence
             Of(stratum) ==
                 {i \in DOMAIN reviews :
                     Stratum(ContextEvidence(reviews[i].evidence)) = stratum}
             Agreeing(stratum) == {i \in Of(stratum) : reviews[i].agrees}
             Passes(stratum) ==
                 WilsonReaches(Cardinality(Agreeing(stratum)),
                               Cardinality(Of(stratum)), WilsonZ2, WilsonFloor)
  <2>1. /\ \A i \in DOMAIN reviews : Counts(i)
        /\ Passes("success") /\ Passes("task_capability_failure")
    <3> DEFINE counted == {i \in DOMAIN reviews : Counts(i)}
               of(stratum) ==
                 {i \in counted :
                     Stratum(ContextEvidence(reviews[i].evidence)) = stratum}
               passes(stratum) ==
                 WilsonReaches(Cardinality({i \in of(stratum) : reviews[i].agrees}),
                               Cardinality(of(stratum)), WilsonZ2, WilsonFloor)
    <3>1. /\ counted = DOMAIN reviews
          /\ passes("success") /\ passes("task_capability_failure")
      BY <1>1 DEF LabelAudit
    <3> HIDE DEF Counts
    <3>2. \A i \in DOMAIN reviews : Counts(i)
      BY <3>1
    <3> HIDE DEF counted
    <3> QED  BY <3>1, <3>2
  <2>2. /\ DOMAIN reviews = 1 .. Len(reviews) /\ Len(reviews) \in Nat
        /\ IsFiniteSet(DOMAIN reviews)
    <3>1. reviews \in Seq([evidence : Routes, agrees : BOOLEAN])
      BY <1>1 DEF ReadinessInv, OrganicTypeOK
    <3>2. DOMAIN reviews = 1 .. Len(reviews) /\ Len(reviews) \in Nat
      BY <3>1
    <3> QED  BY <3>2, FS_Interval
  <2>3. ASSUME NEW i \in DOMAIN reviews, NEW j \in DOMAIN reviews,
               reviews[i].evidence = reviews[j].evidence
        PROVE  i = j
    <3>1. ~(i < j) /\ ~(j < i)
      BY <2>1, <2>2, <2>3
    <3> QED  BY <2>2, <3>1
  <2>4. \A i \in DOMAIN reviews :
           contexts[reviews[i].evidence] = ledger[reviews[i].evidence]
    BY <2>1, Zenon DEF ContextValid
  <2>5. ASSUME NEW stratum, Passes(stratum)
        PROVE  \E i \in Of(stratum) : reviews[i].agrees
    <3>1. IsFiniteSet(Of(stratum)) /\ Cardinality(Of(stratum)) \in Nat
      BY <2>2, FS_Subset, FS_CardinalityType
    <3>2. Agreeing(stratum) # {}
      <4> SUFFICES ASSUME Agreeing(stratum) = {} PROVE FALSE
        OBVIOUS
      <4>1. Cardinality(Agreeing(stratum)) = 0
        BY FS_EmptySet
      <4> HIDE DEF Agreeing, Of
      <4> QED  BY <2>5, <3>1, <4>1, WilsonNeedsAgreement, RouteAssumption
    <3> QED  BY <3>2
  <2>6. ASSUME NEW i, Stratum(ContextEvidence(reviews[i].evidence)) = "success"
        PROVE  ledger[reviews[i].evidence].success = TRUE
    BY <2>6 DEF Stratum, ContextEvidence
  <2>7. ASSUME NEW i, Stratum(ContextEvidence(reviews[i].evidence))
                        = "task_capability_failure"
        PROVE  ledger[reviews[i].evidence].success = FALSE
    BY <2>7 DEF Stratum, ContextEvidence
  <2>8. ASSUME NEW success \in BOOLEAN
        PROVE  \E i \in DOMAIN reviews :
                  /\ reviews[i].agrees
                  /\ ledger[reviews[i].evidence].success = success
    <3>1. CASE success = TRUE
      <4>1. PICK i \in Of("success") : reviews[i].agrees
        BY <2>1, <2>5
      <4> QED  BY <2>6, <3>1, <4>1
    <3>2. CASE success = FALSE
      <4>1. PICK i \in Of("task_capability_failure") : reviews[i].agrees
        BY <2>1, <2>5
      <4> QED  BY <2>7, <3>2, <4>1
    <3> QED  BY <3>1, <3>2
  <2> QED  BY <2>3, <2>4, <2>8
<1>2. ReadinessInv => AuditStands
  BY <1>1 DEF AuditStands
<1> QED  BY <1>2, ReadinessInvariance, PTL

-----------------------------------------------------------------------------
(* The Wilson bound.                                                        *)

(* The root-free inequality is the score test's, times a positive number.   *)
LEMMA WilsonIdentity ==
  ASSUME NEW s \in Int, NEW n \in Int, NEW z \in Int, NEW p \in Int, NEW q \in Int
  PROVE  (q * (8 * s + z) - 2 * p * (4 * n + z))
            * (q * (8 * s + z) - 2 * p * (4 * n + z)) * n
          - z * q * q * (16 * s * (n - s) + z * n)
       = 4 * (4 * n + z)
            * (4 * (q * s - n * p) * (q * s - n * p) - z * n * p * (q - p))
OBVIOUS

(* The side of the Wilson inequality that is squared, regrouped.           *)
LEMMA WilsonLead ==
  ASSUME NEW s \in Int, NEW n \in Int, NEW z \in Int, NEW p \in Int, NEW q \in Int
  PROVE  q * (8 * s + z) - 2 * p * (4 * n + z) = 8 * (q * s - n * p) + z * (q - 2 * p)
OBVIOUS

(* A positive factor can be cancelled.                                     *)
LEMMA Cancel ==
  ASSUME NEW a \in Int, NEW b \in Int, NEW m \in Nat, m > 0
  PROVE  a * m >= b * m <=> a >= b
OBVIOUS

(* The root-free form of wilson_lower_bound accepts what the score test     *)
(* accepts, of every sample, level of confidence and floor below one.       *)
THEOREM WilsonAccepts ==
  ASSUME NEW n \in Nat \ {0}, NEW s \in 0 .. n, NEW z \in Nat,
         NEW floor \in Nat \X Nat, floor[1] < floor[2]
  PROVE  WilsonReaches(s, n, z, floor) <=> ScoreTest(s, n, z, floor)
<1> DEFINE p == floor[1]
           q == floor[2]
           w == q - p
           d == q * s - n * p
           lead == q * (8 * s + z) - 2 * p * (4 * n + z)
           left == lead * lead * n
           right == z * q * q * (16 * s * (n - s) + z * n)
           e == 4 * d * d - z * n * p * w
           k == 4 * (4 * n + z)
<1>1. /\ p \in Nat /\ q \in Nat /\ p < q /\ w \in Nat /\ w > 0
      /\ s \in Nat /\ n \in Nat /\ s <= n /\ n > 0 /\ z \in Nat
  OBVIOUS
<1>2. /\ WilsonReaches(s, n, z, floor) = (p = 0 \/ (lead >= 0 /\ left >= right))
      /\ ScoreTest(s, n, z, floor) = (d >= 0 /\ 4 * d * d >= z * n * p * w)
  <2>1. n # 0
    BY <1>1
  <2>2. WilsonReaches(s, n, z, floor) =
          (IF n = 0 THEN p = 0 ELSE p = 0 \/ (lead >= 0 /\ left >= right))
    BY Zenon DEF WilsonReaches
  <2>3. ScoreTest(s, n, z, floor) = (d >= 0 /\ 4 * d * d >= z * n * p * w)
    BY Zenon DEF ScoreTest
  <2> HIDE DEF p, lead, left, right
  <2> QED  BY <2>1, <2>2, <2>3
<1> HIDE DEF p, q
<1>3. d \in Int /\ lead \in Int /\ left \in Int /\ right \in Int /\ e \in Int
      /\ k \in Nat /\ k > 0
  BY <1>1
<1>4. left - right = k * e
  <2>1. 4 * d * d = 4 * (d * d)
    BY <1>1
  <2> QED  BY <1>1, WilsonIdentity DEF p, q
<1>5. left >= right <=> 4 * d * d >= z * n * p * w
  <2>1. 4 * d * d >= z * n * p * w <=> e >= 0
    <3>1. 4 * d * d \in Int /\ z * n * p * w \in Int
      BY <1>1
    <3> QED  BY <3>1
  <2>2. left >= right <=> e * k >= 0 * k
    <3>1. e * k = left - right
      <4> HIDE DEF left, right, e, k
      <4> QED  BY <1>3, <1>4
    <3> HIDE DEF left, right, e, k
    <3> QED  BY <1>3, <3>1
  <2>3. e * k >= 0 * k <=> e >= 0
    <3> HIDE DEF e, k
    <3> QED  BY <1>3, Cancel
  <2> QED  BY <2>1, <2>2, <2>3
<1>6. lead = 8 * d + z * (q - 2 * p)
  BY <1>1, WilsonLead
<1>7. z * (q - 2 * p) = z * q - 2 * (z * p) /\ z * w = z * q - z * p
      /\ z * q \in Nat /\ z * p \in Nat /\ z * w \in Nat
  BY <1>1
<1>8. n * w \in Nat /\ n * w > 0
  <2> HIDE DEF w
  <2> QED  BY <1>1
<1>9. ASSUME d >= 0, 4 * d * d >= z * n * p * w
      PROVE  lead >= 0
  <2>1. d <= n * w
    <3>1. q * s <= q * n
      BY <1>1
    <3>2. n * w = q * n - n * p /\ q * n \in Int /\ q * s \in Int /\ n * p \in Int
      BY <1>1
    <3> QED  BY <3>1, <3>2
  <2>2. 4 * d * d <= 4 * d * (n * w)
    <3> HIDE DEF d, w
    <3> QED  BY <1>3, <1>8, <1>9, <2>1
  <2>3. z * n * p * w = (z * p) * (n * w)
    <3> HIDE DEF w
    <3> QED  BY <1>1
  <2>4. (4 * d) * (n * w) >= (z * p) * (n * w)
    <3> HIDE DEF d, w
    <3>1. 4 * d * d \in Int /\ (4 * d) * (n * w) \in Int /\ (z * p) * (n * w) \in Int
      BY <1>1, <1>3, <1>8
    <3> QED  BY <1>9, <2>2, <2>3, <3>1
  <2>5. 4 * d >= z * p
    <3> HIDE DEF d, w
    <3>1. 4 * d \in Int
      BY <1>3
    <3> QED  BY <1>7, <1>8, <2>4, <3>1, Cancel
  <2> HIDE DEF d, lead, w
  <2> QED  BY <1>3, <1>6, <1>7, <2>5
<1>10. ASSUME p > 0, lead >= 0, 4 * d * d >= z * n * p * w
       PROVE  d >= 0
  <2> SUFFICES ASSUME d < 0 PROVE FALSE
    BY <1>3
  <2> DEFINE m == 0 - d
  <2>1. m \in Nat /\ m > 0 /\ d = 0 - m
    <3> HIDE DEF d
    <3> QED  BY <1>3
  <2>2. m <= n * p /\ n * p \in Nat /\ n * p > 0
    <3>1. q * s \in Nat /\ n * p \in Nat /\ n * p > 0
      BY <1>1, <1>10
    <3> QED  BY <3>1
  <2>3. 4 * d * d = 4 * m * m
    <3> HIDE DEF m, d
    <3> QED  BY <2>1
  <2>4. 4 * m * m <= (4 * m) * (n * p)
    <3> HIDE DEF m
    <3> QED  BY <2>1, <2>2
  <2>5. z * n * p * w = (z * w) * (n * p)
    <3> HIDE DEF w
    <3> QED  BY <1>1
  <2>6. (4 * m) * (n * p) >= (z * w) * (n * p)
    <3> HIDE DEF m, d, w
    <3>1. 4 * m * m \in Int /\ (4 * m) * (n * p) \in Int /\ (z * w) * (n * p) \in Int
      BY <1>7, <2>1, <2>2
    <3> QED  BY <1>10, <2>3, <2>4, <2>5, <3>1
  <2>7. 4 * m >= z * w
    <3> HIDE DEF m, w
    <3>1. 4 * m \in Int
      BY <2>1
    <3> QED  BY <1>7, <2>2, <2>6, <3>1, Cancel
  <2>8. lead <= 0 - z * q
    <3> HIDE DEF m, d, lead, w
    <3> QED  BY <1>3, <1>6, <1>7, <2>1, <2>7
  <2>9. z = 0
    <3>1. z * q <= 0
      <4> HIDE DEF lead
      <4> QED  BY <1>3, <1>7, <1>10, <2>8
    <3> QED  BY <1>1, <3>1
  <2>10. lead = 8 * d
    <3> HIDE DEF d, lead
    <3> QED  BY <1>1, <1>3, <1>6, <2>9
  <2> HIDE DEF d, lead
  <2> QED  BY <1>3, <1>10, <2>1, <2>10
<1>11. p = 0 => d >= 0 /\ 4 * d * d >= z * n * p * w
  <2> SUFFICES ASSUME p = 0 PROVE d >= 0 /\ 4 * d * d >= z * n * p * w
    OBVIOUS
  <2>1. d = q * s /\ q * s \in Nat /\ z * n * p * w = 0
    BY <1>1
  <2>2. 4 * d * d \in Nat
    <3> HIDE DEF d
    <3> QED  BY <2>1
  <2> HIDE DEF d, w
  <2> QED  BY <2>1, <2>2
<1> HIDE DEF d, lead, left, right, w
<1> QED  BY <1>1, <1>2, <1>5, <1>9, <1>10, <1>11

(* What the report's audit says of a stratum is what the score test says    *)
(* (wilson_lower_bound).                                                    *)
THEOREM WilsonTests == Spec => []WilsonIsScoreTest
<1>1. WilsonIsScoreTest
  BY SamplesAssumption, WilsonAccepts, Zenon DEF WilsonIsScoreTest
<1> QED  BY <1>1, PTL

-----------------------------------------------------------------------------
(* What is asked of the verifier, of every plan and workspace.              *)

(* A check that could not be run is never held against the candidate        *)
(* (run_command_check, verify_candidate).                                   *)
THEOREM ToolingIsNotBlamed == RunsSpec => []ToolingNeverBlames
<1>1. ToolingNeverBlames
  BY CasesAssumption, ToolingSpares, Zenon DEF ToolingNeverBlames
<1> QED  BY <1>1, PTL

(* The quality a verification is given tells what its verdict tells.        *)
THEOREM ScoresAgree == RunsSpec => []ScoreAgrees
<1>1. ScoreAgrees
  BY CasesAssumption, ScoreTellsVerdict, Zenon DEF ScoreAgrees
<1> QED  BY <1>1, PTL
=============================================================================
