---------------------------- MODULE Counterfactual ----------------------------
(***************************************************************************)
(* Counterfactual runs (counterfactual.py): one task is executed by every  *)
(* candidate in a clone of one commit, each result is verified, offered to *)
(* the route it may name and appended to the dataset. Runs are processes   *)
(* of their own and share the dataset file and the ledger.                 *)
(*                                                                         *)
(* An order is what a run is called with; its id is the run's id (the code *)
(* mints one per call). The executor and git are external: an execution is *)
(* any of the order's results, and leaves any of its workspaces.           *)
(***************************************************************************)
EXTENDS LearningContract, Sequences, Functions

CONSTANTS
    Orders,     \* calls of run_counterfactual
    Order,      \* order -> its arguments, see OrderAssumption
    Plan,       \* plan name -> verification plan
    Routes,     \* route ids of the ledger
    Fragment,   \* a short write: a line without its end
    Garbled,    \* a line that does not parse
    MaxFaults,  \* bound: deaths of a run and failures that raise
    SomePlans,      \* plans and workspaces to hold the verifier against
    SomeWorkspaces

FailureCauses == {"infrastructure", "task_capability", "policy_constraint",
                  "unverifiable"}
Causes == FailureCauses \cup {None}

(* What an execution returns and has really spent; "raised" is an executor  *)
(* that raises or returns what is no result.                                *)
Results == [status : {"ok", "error", "unavailable", "timeout", "skipped",
                      "raised"},
            cost : Nat, cause : Causes, spent : Nat]

(* What a record and the ledger keep of a verification, and a candidate's   *)
(* result in the run's hands: whether it reached the ledger is not known    *)
(* while attached is None.                                                  *)
Verifications == [success : BOOLEAN \cup {None},
                  quality : (Nat \X Nat) \cup {None},
                  confidence : {0, 1}, cause : Causes]
Attempts == [verification : Verifications, attached : BOOLEAN \cup {None}]

ASSUME OrderAssumption ==
    /\ MaxFaults \in Nat
    /\ \A o \in Orders :
        /\ Order[o].candidates \in Seq(Range(Order[o].candidates)) \ {<<>>}
        /\ Order[o].limit \in Nat \cup {None}
        /\ Order[o].plan \in DOMAIN Plan
        /\ Order[o].results \subseteq Results
        /\ \A x \in Order[o].results : x.cost <= x.spent
    /\ \A p \in DOMAIN Plan : IsFiniteSet(Plan[p].checks)

ASSUME NoneAssumption ==
    /\ None \notin Attempts
    /\ None \notin BOOLEAN /\ None \notin FailureCauses
    /\ None \notin Nat \X Nat

ASSUME CasesAssumption ==
    \A plan \in SomePlans :
        /\ IsFiniteSet(plan.checks) /\ NamedApart(plan)
        /\ \A ws \in SomeWorkspaces, c \in plan.checks :
               c.name \in DOMAIN ws.outcome

VARIABLES
    phase,      \* order -> where its run stands
    index,      \* order -> candidates recorded so far
    attempt,    \* order -> the candidate's result in the run's hands, or None
    total,      \* order -> cost the run has counted
    decided,    \* order -> when its run was decided
    clock,
    dataset,    \* lines of records.jsonl
    roots,      \* orders whose run_root exists on disk
    ledger,     \* route -> verifier columns, or None
    spent,      \* history: order -> what its executions have really cost
    overspent,  \* history: orders with an execution that spent more than the
                \* ceiling it was handed
    faults

cfVars == <<phase, index, attempt, total, decided, clock, dataset, roots,
            ledger, spent, overspent, faults>>

Broken == {Fragment, Garbled}

InitCounterfactual ==
    /\ phase = [o \in Orders |-> "new"]
    /\ index = [o \in Orders |-> 0]
    /\ attempt = [o \in Orders |-> None]
    /\ total = [o \in Orders |-> 0]
    /\ decided = [o \in Orders |-> 0]
    /\ clock = 0
    /\ dataset = <<>>
    /\ roots = {}
    /\ ledger = [r \in Routes |-> None]
    /\ spent = [o \in Orders |-> 0]
    /\ overspent = {}
    /\ faults = 0

Candidates(o) == Order[o].candidates
Current(o) == Candidates(o)[index[o] + 1]
Distinct(s) == \A i, j \in DOMAIN s : s[i] = s[j] => i = j

(* The arguments run_counterfactual goes on with. Candidates are told apart *)
(* by all their fields, endpoint and route included.                        *)
Accepted(o) ==
    /\ Distinct(Candidates(o))
    /\ NamedApart(Plan[Order[o].plan])
    /\ Order[o].source \in {"organic", "synthetic"}
    /\ Sanitize(Order[o].prompt) # Rejected

(* The snapshot is taken, the run directory made, and the baseline cloned   *)
(* and checked, before the block whose end cleans up.                       *)
Start(o) ==
    /\ phase[o] = "new"
    /\ Accepted(o)
    /\ phase' = [phase EXCEPT ![o] = "baseline"]
    /\ clock' = clock + 1
    /\ decided' = [decided EXCEPT ![o] = clock + 1]
    /\ roots' = roots \cup {o}
    /\ UNCHANGED <<index, attempt, total, dataset, ledger, spent, overspent, faults>>

BaselineRun(o) ==
    /\ phase[o] = "baseline"
    /\ phase' = [phase EXCEPT ![o] = "candidates"]
    /\ UNCHANGED <<index, attempt, total, decided, clock, dataset, roots,
                   ledger, spent, overspent, faults>>

-----------------------------------------------------------------------------
Exhausted(o) == Order[o].limit # None /\ total[o] >= Order[o].limit

(* ClaudeCliExecutor._execute: cost is known only when the CLI ended by     *)
(* itself and its last line told it; a last line of another shape raises.   *)
CliExecution(end, money) ==
    [status |-> CASE end = "exit" -> "ok"
                  [] end = "missing" -> "unavailable"
                  [] end = "timed_out" -> "timeout"
                  [] end = "unreadable" -> "raised"
                  [] OTHER -> "error",
     cost |-> IF end \in {"exit", "exit_nonzero"} THEN money ELSE 0,
     cause |-> IF end = "exit" THEN None ELSE "infrastructure",
     spent |-> IF end \in {"missing", "os_error"} THEN 0 ELSE money]

Skipped == [status |-> "skipped", cost |-> 0, cause |-> "policy_constraint",
            spent |-> 0]

(* Mutant: every execution is handed the whole limit. *)
CeilingWhole(o) == Order[o].limit

(* The ceiling handed to an execution: what the limit leaves of the counted *)
(* total. The executor passes it on to the CLI (--max-budget-usd), which is *)
(* trusted to stop there: nothing compares what comes back with it.         *)
Ceiling(o) == Order[o].limit - total[o]

Overruns(o, x) == Order[o].limit # None /\ x.spent > Ceiling(o)

(* _execute_safely: an executor that cannot enforce a ceiling is not called *)
(* under one; what it raises or returns malformed becomes an infrastructure *)
(* error that costs nothing.                                                *)
Executions(o) ==
    IF Exhausted(o) \/ (Order[o].limit # None /\ ~Order[o].enforces)
      THEN {Skipped}
      ELSE {IF x.status \in {"ok", "error", "unavailable", "timeout", "skipped"}
              THEN x
              ELSE [x EXCEPT !.status = "error", !.cost = 0,
                             !.cause = "infrastructure"] : x \in Order[o].results}

(* _unverifiable_execution *)
Unverifiable(x) ==
    [success |-> None, quality |-> None, confidence |-> 0,
     cause |-> IF x.cause = None THEN "unverifiable" ELSE x.cause]

(* What the record and the ledger keep of a verification. *)
Verdict(plan, ws, baseline) ==
    LET v == VerifyCandidate(plan, ws, baseline)
    IN  [success |-> v.success, quality |-> v.quality,
         confidence |-> v.confidence, cause |-> v.cause]

Verdicts(o, x) ==
    IF x.status = "ok"
      THEN {Verdict(Plan[Order[o].plan], ws, Order[o].baseline) :
               ws \in Order[o].workspaces}
      ELSE {Unverifiable(x)}

Offered(o) == Order[o].sink /\ Current(o).route # None

(* One candidate: clone, execute under the remaining budget, verify. *)
Execute(o) ==
    /\ phase[o] = "candidates"
    /\ attempt[o] = None
    /\ index[o] < Len(Candidates(o))
    /\ \E x \in Executions(o) : \E v \in Verdicts(o, x) :
        /\ attempt' = [attempt EXCEPT ![o] =
                          [verification |-> v,
                           attached |-> IF Offered(o) THEN None ELSE FALSE]]
        /\ total' = [total EXCEPT ![o] = @ + x.cost]
        /\ spent' = [spent EXCEPT ![o] = @ + x.spent]
        /\ overspent' = IF Overruns(o, x) THEN overspent \cup {o} ELSE overspent
    /\ UNCHANGED <<phase, index, decided, clock, dataset, roots, ledger, faults>>

(* The sink is called for a candidate that names a route; it writes the     *)
(* verifier columns whatever they held, and its exceptions are swallowed    *)
(* (the second disjunct: no row, a locked database).                        *)
Offer(o) ==
    /\ phase[o] = "candidates"
    /\ attempt[o] # None
    /\ attempt[o].attached = None
    /\ \/ /\ ledger' = [ledger EXCEPT ![Current(o).route] = attempt[o].verification]
          /\ attempt' = [attempt EXCEPT ![o].attached = TRUE]
       \/ /\ UNCHANGED ledger
          /\ attempt' = [attempt EXCEPT ![o].attached = FALSE]
    /\ UNCHANGED <<phase, index, total, decided, clock, dataset, roots, spent, overspent,
                   faults>>

(* Mutant: the time of decision is read when the record is built. *)
RecordOfNow(o) ==
    [id |-> <<o, index[o]>>, pair |-> o, task |-> Order[o].task,
     repository |-> Order[o].repository, snapshot |-> Order[o].snapshot,
     plan |-> Order[o].plan, features |-> Sanitize(Order[o].prompt),
     decided |-> clock, task_source |-> Order[o].source,
     candidate |-> Current(o), verification |-> attempt[o].verification]

RecordOf(o) ==
    [id |-> <<o, index[o]>>, pair |-> o, task |-> Order[o].task,
     repository |-> Order[o].repository, snapshot |-> Order[o].snapshot,
     plan |-> Order[o].plan, features |-> Sanitize(Order[o].prompt),
     decided |-> decided[o], task_source |-> Order[o].source,
     candidate |-> Current(o), verification |-> attempt[o].verification]

Unended == dataset # <<>> /\ dataset[Len(dataset)] = Fragment

(* _append_record: one write in append mode. After a line that lacks its    *)
(* end, the record becomes part of that line.                               *)
AppendRecord(o) ==
    /\ phase[o] = "candidates"
    /\ attempt[o] # None
    /\ attempt[o].attached # None
    /\ dataset' = IF Unended THEN [dataset EXCEPT ![Len(dataset)] = Garbled]
                  ELSE Append(dataset, RecordOf(o))
    /\ index' = [index EXCEPT ![o] = @ + 1]
    /\ attempt' = [attempt EXCEPT ![o] = None]
    /\ UNCHANGED <<phase, total, decided, clock, roots, ledger, spent, overspent, faults>>

Cleaned(o) == IF Order[o].retain THEN roots ELSE roots \ {o}

Return(o) ==
    /\ phase[o] = "candidates"
    /\ index[o] = Len(Candidates(o))
    /\ phase' = [phase EXCEPT ![o] = "done"]
    /\ roots' = Cleaned(o)
    /\ UNCHANGED <<index, attempt, total, decided, clock, dataset, ledger,
                   spent, overspent, faults>>

(* The run raises: a clone or a checkout fails, or a write does, and what   *)
(* it wrote in part stays in the file. Only the candidates' block cleans up. *)
Raise(o) ==
    LET writing == attempt[o] # None
    IN  /\ faults < MaxFaults
        /\ faults' = faults + 1
        /\ phase[o] \in {"baseline", "candidates"}
        /\ writing => attempt[o].attached # None
        /\ phase' = [phase EXCEPT ![o] = "failed"]
        /\ attempt' = [attempt EXCEPT ![o] = None]
        /\ roots' = IF phase[o] = "candidates" THEN Cleaned(o) ELSE roots
        /\ \/ UNCHANGED dataset
           \/ writing /\ ~Unended /\ dataset' = Append(dataset, Fragment)
        /\ UNCHANGED <<index, total, decided, clock, ledger, spent, overspent>>

(* The process dies: nothing is cleaned up. *)
Die(o) ==
    /\ faults < MaxFaults
    /\ faults' = faults + 1
    /\ phase[o] \in {"baseline", "candidates"}
    /\ phase' = [phase EXCEPT ![o] = "failed"]
    /\ attempt' = [attempt EXCEPT ![o] = None]
    /\ UNCHANGED <<index, total, decided, clock, dataset, roots, ledger, spent, overspent>>

RunStep(o) == \/ Start(o) \/ BaselineRun(o) \/ Execute(o) \/ Offer(o)
              \/ AppendRecord(o) \/ Return(o) \/ Raise(o) \/ Die(o)

RunsSpec == InitCounterfactual /\ [][\E o \in Orders : RunStep(o)]_cfVars

ArgumentsOf(field) == {Order[o][field] : o \in Orders}

Records == [id : Orders \X Nat, pair : Orders, task : ArgumentsOf("task"),
            repository : ArgumentsOf("repository"),
            snapshot : ArgumentsOf("snapshot"), plan : ArgumentsOf("plan"),
            features : {Sanitize(p) : p \in ArgumentsOf("prompt")},
            decided : Nat, task_source : ArgumentsOf("source"),
            candidate : UNION {Range(Candidates(o)) : o \in Orders},
            verification : Verifications]

ASSUME BrokenAssumption == Broken \cap Records = {}

RunsTypeOK ==
    /\ phase \in [Orders -> {"new", "baseline", "candidates", "done", "failed"}]
    /\ index \in [Orders -> Nat]
    /\ attempt \in [Orders -> Attempts \cup {None}]
    /\ total \in [Orders -> Nat]
    /\ decided \in [Orders -> Nat]
    /\ clock \in Nat
    /\ dataset \in Seq(Records \cup Broken)
    /\ roots \subseteq Orders
    /\ ledger \in [Routes -> Verifications \cup {None}]
    /\ spent \in [Orders -> Nat]
    /\ overspent \subseteq Orders
    /\ faults \in 0 .. MaxFaults

-----------------------------------------------------------------------------
(* _read_jsonl of learning_readiness: one line that does not parse and the  *)
(* file is not read.                                                        *)
Readable == \A i \in DOMAIN dataset : dataset[i] \notin Broken

LinesOf(o) == {i \in DOMAIN dataset :
                  dataset[i] \notin Broken /\ dataset[i].pair = o}

(* The place of line i among the lines of the run o. *)
Place(o, i) == Cardinality({j \in LinesOf(o) : j <= i})

(* What collect_readiness takes of the dataset: the records the contract    *)
(* accepts with a clean label, and the pairs they make.                     *)
CleanLines ==
    {i \in DOMAIN dataset :
        /\ dataset[i] \notin Broken
        /\ LET e == EvidenceOf(dataset[i]) IN e # Rejected /\ CauseClean(e)}

CleanCounterfactual == {EvidenceOf(dataset[i]) : i \in CleanLines}

CounterfactualPairs == ValidPairs(CleanCounterfactual)

-----------------------------------------------------------------------------
(* A run that returned left, while the file parses, one record per          *)
(* candidate in their order, all of one decision; and those records make a  *)
(* pair exactly if the ladder's two ends both got a clean label and no rung,*)
(* model and harness got two. The run tells candidates apart by more than   *)
(* that: an order may be accepted whose records can never pair.             *)
RunsPair ==
    \A o \in Orders :
        (phase[o] = "done" /\ Readable) =>
            LET clean == GroupOf(CleanCounterfactual, o)
            IN  /\ Cardinality(LinesOf(o)) = Len(Candidates(o))
                /\ \A i \in LinesOf(o) :
                       dataset[i].candidate = Candidates(o)[Place(o, i)]
                /\ Cardinality({dataset[i].decided : i \in LinesOf(o)}) = 1
                /\ o \in CounterfactualPairs <=>
                      /\ {e.rung : e \in clean} \cap LocalRungs # {}
                      /\ {e.rung : e \in clean} \cap FrontierRungs # {}
                      /\ Cardinality({Identity(e) : e \in clean})
                            = Cardinality(clean)

(* What the limit is worth. If every execution keeps to the ceiling it is   *)
(* handed, the counted cost stays within the limit, and so does what was    *)
(* really spent as long as every execution reported its cost; one that      *)
(* fails without reporting may spend the whole rest once more, so the limit *)
(* then holds per attempt only. If one does not keep to it, the counted     *)
(* total passes the limit by no more than one execution reports.            *)
SpendWithinLimit ==
    \A o \in Orders :
        Order[o].limit # None =>
            /\ o \notin overspent =>
                  /\ total[o] <= Order[o].limit
                  /\ spent[o] = total[o] => spent[o] <= Order[o].limit
                  /\ spent[o] <= Order[o].limit * Len(Candidates(o))
            /\ total[o] > Order[o].limit =>
                  \E x \in Order[o].results : total[o] < Order[o].limit + x.cost

(* Whatever the dataset is when it is split, at any cutoff and for any      *)
(* holdout, no repository, task or pair is on both sides of the unseen      *)
(* holdout, no pair is torn between buckets, and training saw the past only.*)
SplitNeverLeaks ==
    LET evidence == CleanCounterfactual
        repositories == {e.repository : e \in evidence}
        tasks == {e.task : e \in evidence}
    IN  \A cutoff \in 0 .. clock + 1 :
        \A R \in SUBSET repositories, T \in SUBSET tasks :
            LET split == Split(evidence, cutoff, R, T)
                unseen == split.repository_task_holdout
                seen == split.train \cup split.temporal_holdout
            IN  split # Rejected =>
                    /\ seen \cup unseen = evidence
                    /\ \A e \in seen : e.repository \notin R /\ e.task \notin T
                    /\ \A e \in seen, f \in unseen :
                           e.repository # f.repository /\ e.task # f.task
                    /\ \A e \in split.train : e.decided < cutoff
                    /\ PairsOf(split.train) \cap PairsOf(split.temporal_holdout) = {}

(* That a command's program could not be run never counts against the       *)
(* candidate, and never for it. What is said of the verifier depends on no  *)
(* variable, and is asked before the first run starts.                      *)
ToolingNeverBlames ==
    clock = 0 =>
        \A plan \in SomePlans, ws \in SomeWorkspaces : \A c \in plan.checks :
            c.kind = "command" /\ ws.outcome[c.name] = "ok" => Spared(plan, ws, c)

(* No verdict, no score; a success that was asked for a check has the full  *)
(* score; a failure has less, except where the plan's only rule about       *)
(* changes is a forbidden path, which the score leaves out.                 *)
ScoreAgrees ==
    clock = 0 => \A plan \in SomePlans, ws \in SomeWorkspaces : WellScored(plan, ws)
===============================================================================
