------------------------------- MODULE Verifier -------------------------------
(***************************************************************************)
(* The deterministic verifier (verifier.py): what a plan's checks and the  *)
(* inspection of the changes conclude about a candidate's workspace.       *)
(*                                                                         *)
(* A plan is a record: checks (records [name, kind, required]), the        *)
(* switches require_changes and protect_tests, max_changed_files (or None) *)
(* and the four glob lists as the sets of paths they match. A workspace is *)
(* a record: outcome (how each check's execution ended), inspectable (git  *)
(* answers), changed (tracked paths that differ from the baseline), added  *)
(* (those of them that are new) and untracked.                             *)
(***************************************************************************)
EXTENDS Naturals, FiniteSets

CONSTANTS TestPaths,  \* the paths _is_test_path recognises
          None

(* Mutant: a command that timed out failed. *)
CheckStatusTimeoutFails(kind, outcome) ==
    CASE outcome = "ok" -> "pass"
      [] kind = "command" /\ outcome = "no_executable" -> "unavailable"
      [] OTHER -> "fail"

(* run_command_check, run_content_check, run_repository_content_check: the  *)
(* status an execution is given. A content check has no third value: a file *)
(* that cannot be read fails it.                                            *)
CheckStatus(kind, outcome) ==
    CASE outcome = "ok" -> "pass"
      [] kind = "command" /\ outcome = "no_executable" -> "unavailable"
      [] kind = "command" /\ outcome = "timed_out" -> "timeout"
      [] kind = "command" /\ outcome \in {"bad_cwd", "os_error"} -> "error"
      [] kind = "repository" /\ outcome \in {"unlisted", "bad_pattern"} -> "error"
      [] OTHER -> "fail"

NotExecuted == {"unavailable", "timeout", "error"}

(* run_command_checks and its siblings over a plan: name -> status. *)
RunChecks(plan, ws) ==
    [n \in {c.name : c \in plan.checks} |->
        CheckStatus((CHOOSE c \in plan.checks : c.name = n).kind, ws.outcome[n])]

NamedApart(plan) ==
    \A c, d \in plan.checks : c.name = d.name => c = d

(* verification_plan_from_mapping: a serialized plan names its checks apart *)
(* and asks for at least one of them.                                       *)
SerializedPlan(plan) ==
    /\ NamedApart(plan)
    /\ \E c \in plan.checks : c.required

-----------------------------------------------------------------------------
(* collect_changes: the files of the candidate's change, and what they      *)
(* violate. Policy violations are those of scope; an unchanged repository   *)
(* and a missing new file say that the task was not done.                   *)
CollectChanges(plan, ws) ==
    LET untracked == ws.untracked \ plan.ignored
        files == ws.changed \cup untracked
        fresh == ws.added \cup untracked
        policy ==
            {v \in {"limit", "tests", "forbidden", "scope"} :
                \/ /\ v = "limit"
                   /\ plan.max_changed_files # None
                   /\ Cardinality(files) > plan.max_changed_files
                \/ v = "tests" /\ plan.protect_tests /\ files \cap TestPaths # {}
                \/ v = "forbidden" /\ files \cap plan.forbidden # {}
                \/ v = "scope" /\ plan.allowed # {} /\ ~(files \subseteq plan.allowed)}
        undone ==
            {v \in {"unchanged", "nothing_new"} :
                \/ v = "unchanged" /\ plan.require_changes /\ files = {}
                \/ /\ v = "nothing_new"
                   /\ plan.required_new # {}
                   /\ fresh \cap plan.required_new = {}}
    IN  IF ws.inspectable
          THEN [error |-> FALSE, files |-> files,
                violations |-> policy \cup undone, policy |-> policy]
          ELSE [error |-> TRUE, files |-> {}, violations |-> {}, policy |-> {}]

(* Mutant: protected tests are no part of the contract. *)
ContractWithoutTests(plan) ==
    \/ plan.require_changes
    \/ plan.allowed # {}
    \/ plan.required_new # {}
    \/ plan.max_changed_files # None

HasChangeContract(plan) ==
    \/ plan.require_changes
    \/ plan.protect_tests
    \/ plan.allowed # {}
    \/ plan.required_new # {}
    \/ plan.max_changed_files # None

(* The result of verify_candidate: success is TRUE, FALSE or None, quality  *)
(* a fraction <<passed, of>> or None, and regressions and improvements      *)
(* compare with the baseline's results (none when no baseline ran).         *)
VerifyCandidate(plan, ws, baseline) ==
    LET status == RunChecks(plan, ws)
        changes == CollectChanges(plan, ws)
        required == {c.name : c \in {d \in plan.checks : d.required}}
        failed == \E n \in required : status[n] = "fail"
        unknown == changes.error \/ \E n \in required : status[n] \in NotExecuted
        success == IF failed \/ changes.violations # {} THEN FALSE
                   ELSE IF unknown THEN None ELSE TRUE
        scored == IF required # {} THEN required ELSE DOMAIN status
        contract == HasChangeContract(plan)
        kept == contract /\ changes.violations = {} /\ ~changes.error
        passed == Cardinality({n \in scored : status[n] = "pass"})
                    + (IF kept THEN 1 ELSE 0)
        total == Cardinality(scored) + (IF contract THEN 1 ELSE 0)
    IN  [success |-> success,
         cause |-> IF success = TRUE THEN None
                   ELSE IF success = None THEN "unverifiable"
                   ELSE IF failed \/ changes.policy = {} THEN "task_capability"
                   ELSE "policy_constraint",
         confidence |-> IF success = None THEN 0 ELSE 1,
         quality |-> IF success = None THEN None
                     ELSE IF total = 0 THEN <<1, 1>> ELSE <<passed, total>>,
         status |-> status,
         changes |-> changes,
         regressions |-> {n \in required \cap DOMAIN baseline :
                             status[n] # "pass" /\ baseline[n] = "pass"},
         improvements |-> {n \in DOMAIN status \cap DOMAIN baseline :
                             status[n] = "pass" /\ baseline[n] = "fail"}]

-----------------------------------------------------------------------------
(* The workspace in which the program of a check timed out. *)
TimedOut(ws, check) ==
    [outcome |-> [n \in DOMAIN ws.outcome |->
                     IF n = check.name THEN "timed_out" ELSE ws.outcome[n]],
     inspectable |-> ws.inspectable, changed |-> ws.changed,
     added |-> ws.added, untracked |-> ws.untracked]

(* What changes when the program of a passing check could not be run: it    *)
(* never costs the candidate a verdict or a capability failure it had not   *)
(* earned, and gains it no success.                                         *)
Spared(plan, ws, check) ==
    LET ran == VerifyCandidate(plan, ws, <<>>)
        not == VerifyCandidate(plan, TimedOut(ws, check), <<>>)
    IN  /\ not.success = FALSE => ran.success = FALSE
        /\ not.cause = "task_capability" => ran.cause = "task_capability"
        /\ not.success = TRUE => ran.success = TRUE /\ ~check.required

(* Verdict and score tell one story.                                        *)
WellScored(plan, ws) ==
    LET v == VerifyCandidate(plan, ws, <<>>)
        required == \E c \in plan.checks : c.required
    IN  /\ v.success = None <=> v.quality = None
        /\ v.success = TRUE /\ required => v.quality[1] = v.quality[2]
        /\ v.success = FALSE /\ v.quality[1] = v.quality[2] =>
               ~HasChangeContract(plan) /\ v.changes.violations = {"forbidden"}
===============================================================================
