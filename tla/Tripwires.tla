----------------------------- MODULE Tripwires -----------------------------
(***************************************************************************)
(* The trip-wires of one session's turn (router/tripwires.py): malformed   *)
(* tool calls, failed edits, identical calls in a sliding window, actions  *)
(* without progress, a user interrupt.  The first wire to cross its        *)
(* threshold latches until the turn is reset.                              *)
(*                                                                         *)
(* The escalation controller builds every TripwireState without a budget   *)
(* (escalation_controller.py:78, 84), so the turn_budget wire never fires  *)
(* and is left out.                                                        *)
(***************************************************************************)
EXTENDS Strikes, Sequences, FiniteSets, SequencesExt

CONSTANTS
    Calls,            \* tool calls a model may issue
    Markers,          \* what an error result can quote: a subset of {"none", "edit", "schema"}
    Outputs,          \* contents of results that are not errors
    None,             \* no call
    LoopRepeats,      \* identical calls that fire (3 in the code)
    LoopWindow,       \* among that many last calls (6)
    NoProgressLimit,  \* actions without progress that fire (6)
    MaxBatch,         \* bound: blocks of one message
    MaxEvents         \* bound: blocks of one turn

Tools == {"read", "edit", "other"}
CallRecord == [tool: Tools, path: STRING, spelling: Nat]

ASSUME CallsAssumption  == Calls \subseteq CallRecord /\ None \notin Calls
ASSUME MarkerAssumption == Markers \subseteq {"none", "edit", "schema"}
ASSUME LimitsAssumption == {LoopRepeats, LoopWindow, NoProgressLimit} \subseteq Nat \ {0}
ASSUME BlocksAssumption == MaxBatch \in Nat /\ MaxEvents \in Nat

VARIABLES
    wires,   \* the TripwireState
    log      \* history: the blocks of this turn, in the order they were observed

wireVars == <<wires, log>>

-----------------------------------------------------------------------------
(* Blocks.  A call names the slot of the log it will take as its id, which *)
(* is unique in the turn; its result repeats the id.  A malformed block    *)
(* has no usable call.                                                     *)

CallBlock(c, i) == [kind |-> "call", call |-> c, id |-> i]
ResultBlock(i, e, m, o) == [kind |-> "result", id |-> i, error |-> e, marker |-> m, out |-> o]
Interrupt == [kind |-> "interrupt"]

Malformed(b) == b.kind = "call" /\ b.call = None
IsCall(b)    == b.kind = "call" /\ b.call # None
IsResult(b)  == b.kind = "result"

(* canonical_call: cosmetically different spellings of a call are one.     *)
Canonical(c) == <<c.tool, c.path>>

-----------------------------------------------------------------------------
(* The wires.                                                              *)

Hits == {"none", "parse_schema", "edit_apply", "loop", "no_progress", "user_interrupt"}

Fresh == [hit |-> "none", parse |-> 0, edit |-> 0, errors |-> 0, calls |-> <<>>,
          pending |-> {}, paths |-> {}, outputs |-> {}, stuck |-> 0]

Trip(w, name, fires) ==
    IF fires /\ w.hit = "none" THEN [w EXCEPT !.hit = name] ELSE w

ParseStrike(w) ==
    LET v == [w EXCEPT !.parse = @ + 1] IN Trip(v, "parse_schema", v.parse >= StrikeLimit)

(* Mutant: fires one strike late. *)
EditStrikeLate(w) ==
    LET v == [w EXCEPT !.edit = @ + 1] IN Trip(v, "edit_apply", v.edit > StrikeLimit)

EditStrike(w) ==
    LET v == [w EXCEPT !.edit = @ + 1] IN Trip(v, "edit_apply", v.edit >= StrikeLimit)

LastCalls(w) == SubSeq(w.calls, IF Len(w.calls) > LoopWindow
                                THEN Len(w.calls) - LoopWindow + 1 ELSE 1, Len(w.calls))

(* A well-formed call joins the history, is looked for among the last      *)
(* calls, and is remembered until its result arrives.                      *)
ObserveCall(w, id, c) ==
    LET v     == [w EXCEPT !.calls = Append(@, Canonical(c))]
        same  == {i \in DOMAIN LastCalls(v) : LastCalls(v)[i] = Canonical(c)}
        fired == Trip(v, "loop", Cardinality(same) >= LoopRepeats)
    IN  [fired EXCEPT !.pending = @ \cup {<<id, c>>}]

(* Progress: an error never; a file not read before, a successful edit, or *)
(* an output not seen before.  Both memories grow with every success.      *)
NewFile(w, use) == \E u \in use : u[2].tool = "read" /\ u[2].path \notin w.paths
Edited(use)     == \E u \in use : u[2].tool = "edit"
NewOutput(w, b) == b.out \notin w.outputs

(* Mutant: the counter goes on after progress. *)
ScoreProgressNoReset(w, use, b) ==
    LET read == {u[2].path : u \in {u \in use : u[2].tool = "read"}}
        seen == IF b.error THEN w
                ELSE [w EXCEPT !.paths = @ \cup read, !.outputs = @ \cup {b.out}]
    IN  IF ~b.error /\ (NewFile(w, use) \/ Edited(use) \/ NewOutput(w, b)) THEN seen
        ELSE LET v == [seen EXCEPT !.stuck = @ + 1]
             IN  Trip(v, "no_progress", v.stuck >= NoProgressLimit)

ScoreProgress(w, use, b) ==
    LET read == {u[2].path : u \in {u \in use : u[2].tool = "read"}}
        seen == IF b.error THEN w
                ELSE [w EXCEPT !.paths = @ \cup read, !.outputs = @ \cup {b.out}]
    IN  IF ~b.error /\ (NewFile(w, use) \/ Edited(use) \/ NewOutput(w, b))
        THEN [seen EXCEPT !.stuck = 0]
        ELSE LET v == [seen EXCEPT !.stuck = @ + 1]
             IN  Trip(v, "no_progress", v.stuck >= NoProgressLimit)

(* A result takes its call out of the pending ones; a repeated result      *)
(* finds none.  The dialect strikes need a real error.                     *)
ObserveResult(w, b) ==
    LET use == {u \in w.pending : u[1] = b.id}
        v   == [w EXCEPT !.pending = @ \ use, !.errors = IF b.error THEN @ + 1 ELSE @]
        x   == CASE b.error /\ b.marker = "edit"   -> EditStrike(v)
                 [] b.error /\ b.marker = "schema" -> ParseStrike(v)
                 [] OTHER                          -> v
    IN  ScoreProgress(x, use, b)

ObserveBlock(w, b) ==
    CASE Malformed(b)         -> ParseStrike(w)
      [] IsCall(b)            -> ObserveCall(w, b.id, b.call)
      [] IsResult(b)          -> ObserveResult(w, b)
      [] b.kind = "interrupt" -> Trip(w, "user_interrupt", TRUE)

(* The blocks of one message, in order.                                    *)
ObserveAll(w, blocks) == FoldLeft(ObserveBlock, w, blocks)

-----------------------------------------------------------------------------
(* Steps.                                                                  *)

Room == 1 .. (IF MaxEvents - Len(log) < MaxBatch THEN MaxEvents - Len(log) ELSE MaxBatch)

Observed(blocks) ==
    /\ wires' = ObserveAll(wires, blocks)
    /\ log' = log \o blocks

(* An assistant message: calls, each with the id of its place.             *)
ObserveResponse ==
    \E n \in Room : \E cs \in [1..n -> Calls \cup {None}] :
        Observed([i \in 1..n |-> CallBlock(cs[i], Len(log) + i)])

(* The tool results of a user message.  A result answers any call of the   *)
(* turn, malformed ones included, and the same result may come again with  *)
(* a later request.                                                        *)
Answered == {i \in DOMAIN log : log[i].kind = "call"}

AnyResult ==
    {ResultBlock(i, TRUE, m, "none") : i \in Answered, m \in Markers}
        \cup {ResultBlock(i, FALSE, m, o) : i \in Answered, m \in Markers, o \in Outputs}

ObserveToolResults ==
    \E n \in Room : \E bs \in [1..n -> AnyResult \cup {Interrupt}] : Observed(bs)

(* EscalationController.new_turn.                                          *)
Reset == log # <<>> /\ wires' = Fresh /\ log' = <<>>

InitWires == wires = Fresh /\ log = <<>>
ObserveTurn == ObserveResponse \/ ObserveToolResults \/ Reset
WiresSpec == InitWires /\ [][ObserveTurn]_wireVars

-----------------------------------------------------------------------------
(* What the wires promise, read off the whole log of the turn.             *)

Blocks ==
    [kind: {"call"}, call: Calls \cup {None}, id: Nat]
        \cup {b \in [kind: {"result"}, id: Nat, error: BOOLEAN, marker: Markers,
                     out: Outputs \cup {"none"}] : ~b.error => b.out \in Outputs}
        \cup {Interrupt}

Spellings == {Canonical(c) : c \in Calls}
Paths == {c.path : c \in Calls}

WiresState ==
    [hit: Hits, parse: Nat, edit: Nat, errors: Nat, calls: Seq(Spellings),
     pending: SUBSET (Nat \X Calls), paths: SUBSET Paths, outputs: SUBSET Outputs,
     stuck: Nat]

WiresTypeOK == wires \in WiresState /\ log \in Seq(Blocks)

(* A reading of the log h of a turn.                                       *)

Failure(h, i, marker) == IsResult(h[i]) /\ h[i].error /\ h[i].marker = marker
ParseFailure(h, i) == Malformed(h[i]) \/ Failure(h, i, "schema")
EditFailure(h, i)  == Failure(h, i, "edit")

ParseFailures(h, n) == {i \in 1..n : ParseFailure(h, i)}
EditFailures(h, n)  == {i \in 1..n : EditFailure(h, i)}

(* Entry i is one of the LoopWindow calls that end at n.                   *)
CallsAfter(h, i, n) == {j \in i+1 .. n : IsCall(h[j])}
SameCalls(h, n) ==
    {i \in 1..n : /\ IsCall(h[i]) /\ Cardinality(CallsAfter(h, i, n)) < LoopWindow
                  /\ h[i].call.tool = h[n].call.tool /\ h[i].call.path = h[n].call.path}

(* Entry i answers a call for the first time, and succeeds.                *)
FirstAnswer(h, i) == \A j \in 1 .. i - 1 : IsResult(h[j]) => h[j].id # h[i].id
Success(h, i) == IsResult(h[i]) /\ ~h[i].error
Done(h, i, tool) ==
    /\ Success(h, i) /\ FirstAnswer(h, i)
    /\ IsCall(h[h[i].id]) /\ h[h[i].id].call.tool = tool

Productive(h, i) ==
    \/ Success(h, i) /\ \A j \in 1 .. i - 1 : Success(h, j) => h[j].out # h[i].out
    \/ Done(h, i, "edit")
    \/ Done(h, i, "read") /\ \A j \in 1 .. i - 1 :
            Done(h, j, "read") => h[h[j].id].call.path # h[h[i].id].call.path

StuckSince(h, n) == {i \in 1..n : IsResult(h[i]) /\ \A j \in i..n : ~Productive(h, j)}

(* The wire entry n trips, were it the first.                              *)
ParseTrips(h, n) == ParseFailure(h, n) /\ Cardinality(ParseFailures(h, n)) >= StrikeLimit
EditTrips(h, n)  == EditFailure(h, n) /\ Cardinality(EditFailures(h, n)) >= StrikeLimit

WireAt(h, n) ==
    CASE ParseTrips(h, n) -> "parse_schema"
      [] EditTrips(h, n)  -> "edit_apply"
      [] IsCall(h[n]) /\ Cardinality(SameCalls(h, n)) >= LoopRepeats -> "loop"
      [] /\ IsResult(h[n]) /\ Cardinality(StuckSince(h, n)) >= NoProgressLimit
         /\ ~ParseTrips(h, n) /\ ~EditTrips(h, n) -> "no_progress"
      [] h[n].kind = "interrupt" -> "user_interrupt"
      [] OTHER -> "none"

FirstWire(h, n) ==
    LET tripping == {m \in 1..n : WireAt(h, m) # "none"}
    IN  IF tripping = {} THEN "none"
        ELSE WireAt(h, CHOOSE m \in tripping : \A k \in tripping : m <= k)

(* The hit is the wire of the first entry of the turn that trips one: no   *)
(* stuck or looping turn is missed, no productive one is cut short, and a  *)
(* later wire never replaces the first.                                    *)
FirstWireLatched == wires.hit = FirstWire(log, Len(log))

(* RouterProxy's view of the wires is exact: every message is one          *)
(* observation of Strikes, whatever its blocks.                            *)
ViewOf(w) == [edit |-> UpTo(w.edit, StrikeLimit), parse |-> UpTo(w.parse, StrikeLimit),
              error |-> w.errors > 0, hit |-> w.hit # "none"]
View == ViewOf(wires)

NewView == [edit |-> 0, parse |-> 0, error |-> FALSE, hit |-> FALSE]

SomeObservation ==
    [edit: 0..MaxBatch, parse: 0..MaxBatch, error: BOOLEAN, latch: BOOLEAN]

CountsAsStrikes ==
    [][View' = NewView \/ \E o \in SomeObservation : View' = Feed(View, o)]_wireVars

(* The parse wire fires on two malformed tool calls of a turn              *)
(* (tripwires.py:13), each counted once whatever its result says.          *)
FailedCalls ==
    {i \in DOMAIN log : Malformed(log[i])}
        \cup {log[i].id : i \in {i \in DOMAIN log : Failure(log, i, "schema")}}

TwoMalformedCalls ==
    wires.hit = "parse_schema" => Cardinality(FailedCalls) >= StrikeLimit
=============================================================================
