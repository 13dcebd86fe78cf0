------------------------------ MODULE Strikes ------------------------------
(***************************************************************************)
(* What the rest of the router sees of a turn's trip-wires                 *)
(* (router/tripwires.py): parse and edit strikes up to the number that     *)
(* fires, whether a tool result was an error, and the latched hit.  The    *)
(* other wires (identical calls, no progress, an interrupt) appear as a    *)
(* latch in the observation.  RouterProxy works with this view; Tripwires  *)
(* has the wires themselves and is checked against it.                     *)
(***************************************************************************)
EXTENDS Naturals

CONSTANT StrikeLimit   \* parse and edit strikes that fire a wire (2 in the code)

ASSUME StrikeAssumption == StrikeLimit \in Nat \ {0}

(* What one request or response shows of the turn.                         *)
Observations == [edit: Nat, parse: Nat, error: BOOLEAN, latch: BOOLEAN]
Quiet == [edit |-> 0, parse |-> 0, error |-> FALSE, latch |-> FALSE]

UpTo(n, limit) == IF n > limit THEN limit ELSE n

Feed(x, o) ==
    LET edit  == UpTo(x.edit + o.edit, StrikeLimit)
        parse == UpTo(x.parse + o.parse, StrikeLimit)
    IN  [x EXCEPT !.edit = edit, !.parse = parse, !.error = @ \/ o.error,
                  !.hit = @ \/ o.latch \/ edit = StrikeLimit \/ parse = StrikeLimit]
=============================================================================
