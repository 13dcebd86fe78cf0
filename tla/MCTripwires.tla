---------------------------- MODULE MCTripwires ----------------------------
(***************************************************************************)
(* Tripwires on small turns: one file read under two spellings, an edit    *)
(* and a command; one output; thresholds scaled down so that every wire    *)
(* can fire, and be undone, within the blocks of a turn.                   *)
(***************************************************************************)
EXTENDS Tripwires

Read    == [tool |-> "read", path |-> "f", spelling |-> 0]
ReRead  == [tool |-> "read", path |-> "f", spelling |-> 1]
Edit    == [tool |-> "edit", path |-> "f", spelling |-> 0]
Command == [tool |-> "other", path |-> "c", spelling |-> 0]

SmallCalls == {Read, ReRead, Edit, Command}
=============================================================================
