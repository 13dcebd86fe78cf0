-------------------------- MODULE MCLearningReadiness -------------------------
(* Three organic routes share a pair id, two of them local and one frontier; *)
(* a counterfactual order re-runs the task of the first and names its route. *)
EXTENDS LearningReadiness, TLC

CONSTANTS o1, r1, r2, r3

FixPlan ==
    [checks |-> {[name |-> "unit", kind |-> "command", required |-> TRUE]},
     require_changes |-> TRUE, protect_tests |-> TRUE,
     max_changed_files |-> None, ignored |-> {}, forbidden |-> {},
     allowed |-> {}, required_new |-> {}]

MCPlan == [fix |-> FixPlan]

Workspace(unit, files) ==
    [outcome |-> [unit |-> unit], inspectable |-> TRUE,
     changed |-> files, added |-> {}, untracked |-> {}]

Good == Workspace("ok", {"src"})
Wrong == Workspace("nonzero", {"src"})

MCFeatures == "verb" :> "fix" @@ "pinned" :> "false"
MCFieldValues == [verb |-> {"fix", "explain"}]

CandidateOf(rung, endpoint, route) ==
    [rung |-> rung, model |-> rung, harness |-> "claude_code",
     endpoint |-> endpoint, route |-> route]

MCOrder ==
    o1 :> [task |-> "t3", source |-> "organic", repository |-> "repo2",
           snapshot |-> "c2", plan |-> "fix", prompt |-> MCFeatures,
           candidates |-> <<CandidateOf("local", "e1", r1)>>,
           limit |-> None, retain |-> TRUE, enforces |-> FALSE, sink |-> TRUE,
           workspaces |-> {Good, Wrong}, baseline |-> [unit |-> "fail"],
           results |-> {CliExecution("exit", 1)}]

RouteOf(rung, when, ws) ==
    [source |-> "organic", layer |-> "classifier", features |-> MCFeatures,
     rung |-> rung, model |-> rung, harness |-> "claude_code",
     repository |-> "repo2", snapshot |-> "c2", plan |-> "fix",
     task |-> "t3", pair |-> "pair", decided |-> when, provenance |-> TRUE,
     workspaces |-> ws, baseline |-> [unit |-> "fail"]]

MCRoute == r1 :> RouteOf("local", 0, {Good, Wrong})
        @@ r2 :> RouteOf("frontier", 1, {Good})
        @@ r3 :> RouteOf("local", 2, {Wrong})
MCFloor == <<1, 2>>

-----------------------------------------------------------------------------
(* Up to 24 reviews, three levels of confidence and three floors.           *)
MCSamples ==
    {x \in [s : 0 .. 24, n : 1 .. 24, z : {4, 9, 16},
            floor : {<<1, 2>>, <<3, 4>>, <<9, 10>>}] : x.s <= x.n}
===============================================================================
