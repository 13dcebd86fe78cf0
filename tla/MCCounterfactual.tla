--------------------------- MODULE MCCounterfactual ---------------------------
(* Two runs share the dataset. The first tries three candidates without a    *)
(* limit, two of which differ only in their endpoint; the second tries two   *)
(* under a limit that one reported execution may use up, and names a route   *)
(* of the ledger. An execution that times out has spent money it does not    *)
(* report, and one spends more than the whole limit.                         *)
EXTENDS Counterfactual, TLC

CONSTANTS o1, o2, r1

FixPlan ==
    [checks |-> {[name |-> "unit", kind |-> "command", required |-> TRUE]},
     require_changes |-> TRUE, protect_tests |-> TRUE,
     max_changed_files |-> None, ignored |-> {}, forbidden |-> {},
     allowed |-> {}, required_new |-> {}]

MCPlan == [fix |-> FixPlan]

Workspace(unit, files) ==
    [outcome |-> [unit |-> unit], inspectable |-> TRUE,
     changed |-> files, added |-> {}, untracked |-> {}]

Good == Workspace("ok", {"src"})
Wrong == Workspace("nonzero", {"src"})

MCFeatures == "verb" :> "fix" @@ "pinned" :> "false"
MCFieldValues == [verb |-> {"fix", "explain"}]

CandidateOf(rung, endpoint, route) ==
    [rung |-> rung, model |-> rung, harness |-> "claude_code",
     endpoint |-> endpoint, route |-> route]

MCOrder ==
    o1 :> [task |-> "t1", source |-> "organic", repository |-> "repo1",
           snapshot |-> "c1", plan |-> "fix", prompt |-> MCFeatures,
           candidates |-> <<CandidateOf("local", "e1", None),
                            CandidateOf("frontier", "e1", None),
                            CandidateOf("local", "e2", None)>>,
           limit |-> None, retain |-> FALSE, enforces |-> FALSE, sink |-> FALSE,
           workspaces |-> {Good, Wrong}, baseline |-> [unit |-> "fail"],
           results |-> {CliExecution("exit", 0)}]
 @@ o2 :> [task |-> "t2", source |-> "synthetic", repository |-> "repo1",
           snapshot |-> "c1", plan |-> "fix", prompt |-> MCFeatures,
           candidates |-> <<CandidateOf("local", "e1", None),
                            CandidateOf("frontier", "e1", r1)>>,
           limit |-> 2, retain |-> TRUE, enforces |-> TRUE, sink |-> TRUE,
           workspaces |-> {Good}, baseline |-> [unit |-> "fail"],
           results |-> {CliExecution("exit", 1), CliExecution("exit", 2),
                        CliExecution("exit", 3), CliExecution("timed_out", 2)}]

-----------------------------------------------------------------------------
(* Plans and workspaces to hold the verifier against.                       *)
Checks == {[name |-> "unit", kind |-> "command", required |-> TRUE],
           [name |-> "lint", kind |-> "command", required |-> FALSE]}

MCPlans ==
    {[checks |-> c, require_changes |-> w[1], protect_tests |-> w[2],
      max_changed_files |-> w[3], ignored |-> {}, forbidden |-> w[4],
      allowed |-> w[5], required_new |-> {}] :
        c \in {{}, {d \in Checks : d.required}, Checks},
        w \in BOOLEAN \X BOOLEAN \X {None, 1} \X {{}, {"cfg"}} \X {{}, {"src"}}}

MCWorkspaces ==
    {[outcome |-> [unit |-> w[1], lint |-> w[2]], inspectable |-> w[3],
      changed |-> w[4], added |-> {}, untracked |-> w[5]] :
        w \in {"ok", "nonzero", "no_executable"} \X {"ok", "nonzero"} \X BOOLEAN
                \X {{}, {"src"}, {"cfg"}, {"src", "test"}} \X {{}, {"new"}}}
===============================================================================
