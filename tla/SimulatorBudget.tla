-------------------------- MODULE SimulatorBudget --------------------------
(***************************************************************************)
(* The headless traffic simulator and its budget                           *)
(* (src/simulator/run_session.py).  A runner makes runs one after another, *)
(* each a single shot or a stochastic episode of planned steps.  Before a  *)
(* run and before every step of an episode it adds up the cost ledger,     *)
(* which all runners share and which takes ONE line per run, at its end.   *)
(* The agent's answers, its costs and its failures are chosen freely.      *)
(* Costs are whole numbers of some unit.                                   *)
(***************************************************************************)
EXTENDS Integers, Sequences, FiniteSets, Functions

CONSTANTS
    Runners,          \* simulator processes on one data root
    Cap,              \* BUDGET_CAP_USD
    MaxCost,          \* what one agent turn may report
    MaxDriverCost,    \* what phrasing one turn may report
    MaxEpisodeTurns,  \* MAX_EPISODE_TURNS
    MaxClarifyTurns,  \* MAX_CLARIFY_TURNS
    MaxRuns,          \* bound: runs a runner makes
    Lengths           \* bound: the lengths of episode plans (sample_length)

ASSUME SimulatorBounds ==
    /\ {Cap, MaxEpisodeTurns, MaxRuns} \subseteq Nat \ {0}
    /\ {MaxCost, MaxDriverCost, MaxClarifyTurns} \subseteq Nat
    /\ Lengths \subseteq Nat \ {0}
    /\ IsFiniteSet(Runners)

VARIABLES
    ledger,   \* sim-ledger.jsonl: the sum of its lines, and whether one is torn
    run       \* per runner: where it is in its current run

vars == <<ledger, run>>

(***************************************************************************)
(* generate_episode: the first step seeds a thread, and an interrupt is    *)
(* followed by the driven retry unless the plan is cut off after it.       *)
(***************************************************************************)
IsPlan(steps) ==
    /\ steps[1] = "scenario"
    /\ \A i \in 1..Len(steps) - 1 :
          steps[i] = "interrupt" => steps[i + 1] = "driven"

Steps == {"scenario", "driven", "interrupt"}

Plans == {s \in UNION {[1..n -> Steps] : n \in Lengths} : IsPlan(s)}

\* The loop variables of a run that has not begun.
Between(left) ==
    [pc |-> "between", left |-> left, plan |-> << >>, spawned |-> 0,
     clarified |-> 0, asked |-> FALSE, total |-> 0, driver |-> 0]

Init ==
    /\ ledger = [spent |-> 0, torn |-> FALSE]
    /\ run = [r \in Runners |-> Between(MaxRuns)]

(***************************************************************************)
(* spawn_turn: a headless turn ends ok, with an error code, or with        *)
(* nothing to read (a timeout, output that is no JSON), and then neither   *)
(* its cost nor its answer is known.                                       *)
(***************************************************************************)
Results ==
    [status : {"ok", "exit"}, cost : 0..MaxCost, answer : {"", "statement", "question"}]
    \cup {[status |-> "lost", cost |-> 0, answer |-> ""]}

\* next_message: templated archetypes, and a driver that fails, cost nothing.
DriverCosts == 0..MaxDriverCost

\* record(): the cost is added, and an empty answer leaves the last one in place.
Recorded(x, res) ==
    [x EXCEPT !.total = @ + res.cost,
              !.spawned = @ + 1,
              !.asked = IF res.answer = "" THEN @ ELSE res.answer = "question"]

(***************************************************************************)
(* main: a run starts when the ledger can be added up and is under the     *)
(* cap.  A torn line makes spent() raise, which ends the process.          *)
(***************************************************************************)
UnderCap == ~ledger.torn /\ ledger.spent < Cap

StartSingle(r) ==
    /\ run[r].pc = "between" /\ run[r].left > 0 /\ UnderCap
    /\ run' = [run EXCEPT ![r].pc = "single"]
    /\ UNCHANGED ledger

\* run_one: one turn, whatever becomes of it, and its line.
SingleShot(r) ==
    /\ run[r].pc = "single"
    /\ \E res \in Results :
          run' = [run EXCEPT ![r] = [Recorded(@, res) EXCEPT !.pc = "log"]]
    /\ UNCHANGED ledger

StartEpisode(r) ==
    /\ run[r].pc = "between" /\ run[r].left > 0 /\ UnderCap
    /\ \E steps \in Plans :
          run' = [run EXCEPT ![r].pc = "guard", ![r].plan = steps]
    /\ UNCHANGED ledger

(***************************************************************************)
(* The top of the step loop: the spawn cap, then the budget, over the      *)
(* ledger as it is now and the agent's cost of this episode so far.        *)
(***************************************************************************)
\* Mutant: the cap is checked one spawn late.
MayStepOnceMore(x) == x.plan # << >> /\ x.spawned <= MaxEpisodeTurns

MayStep(x) == x.plan # << >> /\ x.spawned < MaxEpisodeTurns

\* Mutant: the open episode's own cost is not counted.
WithinBudgetLedger(x) == ledger.spent < Cap

WithinBudget(x) == ledger.spent + x.total < Cap

\* A driven step is preceded by an answer to the agent's trailing question.
Clarifies(x) ==
    Head(x.plan) = "driven" /\ x.clarified < MaxClarifyTurns /\ x.asked

Guard(r) ==
    LET x == run[r]
    IN  /\ x.pc = "guard"
        /\ MayStep(x) => ~ledger.torn
        /\ run' = [run EXCEPT ![r].pc =
                     IF ~MayStep(x) \/ ~WithinBudget(x) THEN "log"
                     ELSE IF Clarifies(x) THEN "clarify" ELSE "step"]
        /\ UNCHANGED ledger

\* The clarifying answer; a turn that is not ok ends the episode.
Clarified(x, res, cost) ==
    [Recorded(x, res) EXCEPT
        !.driver = @ + cost,
        !.clarified = @ + 1,
        !.pc = IF res.status = "ok" THEN "step" ELSE "log"]

Clarify(r) ==
    /\ run[r].pc = "clarify"
    /\ \E res \in Results, cost \in DriverCosts :
          run' = [run EXCEPT ![r] = Clarified(@, res, cost)]
    /\ UNCHANGED ledger

\* A scenario step speaks the scenario's own prompt; a driven step pays the
\* driver and an interrupt goes on whatever the cut-off turn returned.
Stepped(x, res, cost) ==
    [Recorded(x, res) EXCEPT
        !.driver = @ + cost,
        !.plan = Tail(@),
        !.pc = IF res.status = "ok" \/ Head(x.plan) = "interrupt"
               THEN "guard" ELSE "log"]

Step(r) ==
    /\ run[r].pc = "step"
    /\ \E res \in Results, cost \in DriverCosts :
          /\ Head(run[r].plan) = "scenario" => cost = 0
          /\ run' = [run EXCEPT ![r] = Stepped(@, res, cost)]
    /\ UNCHANGED ledger

\* _log: one line for the run, after its last turn.  Glued to a torn line it
\* cannot be read either.
Log(r) ==
    /\ run[r].pc = "log"
    /\ ledger' = IF ledger.torn THEN ledger
                 ELSE [ledger EXCEPT !.spent = @ + run[r].total + run[r].driver]
    /\ run' = [run EXCEPT ![r] = Between(run[r].left - 1)]

\* The process dies at any point of a run (it is killed, or spent() raises on a
\* torn line): nothing of the run is in the ledger, or a part of its line is.
Crash(r) ==
    /\ run[r].pc # "between"
    /\ \E torn \in BOOLEAN :
          /\ torn => run[r].pc = "log"
          /\ ledger' = [ledger EXCEPT !.torn = @ \/ torn]
    /\ run' = [run EXCEPT ![r] = Between(run[r].left - 1)]

Next == \E r \in Runners :
    \/ StartSingle(r)
    \/ SingleShot(r)
    \/ StartEpisode(r)
    \/ Guard(r)
    \/ Clarify(r)
    \/ Step(r)
    \/ Log(r)
    \/ Crash(r)

Spec == Init /\ [][Next]_vars

-----------------------------------------------------------------------------

RunState ==
    [pc : {"between", "single", "guard", "clarify", "step", "log"},
     left : 0..MaxRuns, plan : Seq(Steps), spawned : Nat, clarified : Nat,
     asked : BOOLEAN, total : Nat, driver : Nat]

TypeOK ==
    /\ ledger \in [spent : Nat, torn : BOOLEAN]
    /\ run \in [Runners -> RunState]

\* What the runners have reported and not lost: the ledger and the open runs.
Reported ==
    ledger.spent + SumFunction([r \in Runners |-> run[r].total + run[r].driver])

\* The budget guard works on a ledger that learns of a run at its end, so the
\* cap is not the limit of what is spent.  What the guard does give: every
\* runner overshoots by at most one step of its own (an answer to a question
\* and the step) and by what the driver cost it in that run, and no number of
\* further runs adds to that.
BudgetHolds ==
    Reported <= Cardinality(Runners) *
                  (Cap - 1 + 2 * MaxCost + MaxEpisodeTurns * MaxDriverCost)

\* An episode spawns at most one turn over MAX_EPISODE_TURNS: the cap is read
\* once per step, and a step that first answers a question spawns two.
SpawnsBounded ==
    \A r \in Runners : /\ run[r].spawned <= MaxEpisodeTurns + 1
                       /\ run[r].clarified <= MaxClarifyTurns
=============================================================================
