-------------------------- MODULE MCLiveVerification --------------------------
(* Two jobs compete for one organic route, a second route comes from the     *)
(* simulator, and one counterfactual run may name either. Verdicts:          *)
(* success, failure and, as the verifier may conclude, neither.              *)
EXTENDS LiveVerification, TLC

CONSTANTS j1, j2, r1, r2, success, failure

MCJobs == {j1, j2}
MCRoutes == {r1, r2}
MCOrganic == {r1}
MCVerdicts == {success, failure}
JobSymmetry == Permutations(MCJobs)
==============================================================================
