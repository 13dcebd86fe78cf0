--------------------------- MODULE MCRouterProxy ---------------------------
(***************************************************************************)
(* Small inputs for RouterProxy: user turns that differ in what the policy *)
(* makes of them, and one observation per way a wire can move.             *)
(***************************************************************************)
EXTENDS RouterProxy

Turn(verb, tokens, interrupted) ==
    [verb |-> verb, broad |-> FALSE, narrow |-> FALSE, tokens |-> tokens,
     terse |-> FALSE, interrupted |-> interrupted, verdict |-> "abstain",
     signals |-> 2]

\* Two boundary signals: the session's memory of a clean turn decides.
EasyTurn  == Turn("explain", 1000, FALSE)      \* local when local is healthy
LargeTurn == Turn("explain", 100000, FALSE)    \* too large for local
RetryTurn == Turn("fix", 1000, TRUE)           \* frontier by the retry signal

AllTurns == {EasyTurn, LargeTurn, RetryTurn}
FewTurns == {EasyTurn, LargeTurn}

\* A failed edit (one strike, an error result); an identical-call loop.
FailedEdit == [edit |-> 1, parse |-> 0, error |-> TRUE, latch |-> FALSE]
CallLoop   == [edit |-> 0, parse |-> 0, error |-> FALSE, latch |-> TRUE]

Edits  == {FailedEdit}
Loops  == {CallLoop}
=============================================================================
