------------------------- MODULE MCSimulatorBudget -------------------------
(***************************************************************************)
(* Two simulators on one data root, with a cap of two cost units, episodes *)
(* of up to three steps, and a turn cap that an episode reaches.           *)
(***************************************************************************)
EXTENDS SimulatorBudget, TLC

EpisodeLengths == {2, 3}

Sym == Permutations(Runners)
=============================================================================
