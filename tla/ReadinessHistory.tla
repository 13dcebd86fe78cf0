---------------------------- MODULE ReadinessHistory ----------------------------
(***************************************************************************)
(* The persisted scorecard (learning_readiness.py, tools/                   *)
(* check_readiness_score.py): "--persist" measures, then writes a Markdown *)
(* file, a JSON file and a line of a hash-chained history, one after the   *)
(* other and without a lock; the check compares the three with each other, *)
(* with the ADR index and with the frozen baseline. The operator edits     *)
(* index, scoring contract and baseline, and the private data moves, also  *)
(* between two reads of one run: the contract is read once for the baseline *)
(* and once more for the index.                                            *)
(*                                                                         *)
(* A snapshot id is the snapshot itself, an entry's hash is the chain it   *)
(* closes, and the private data is the set of verdicts the seven gates     *)
(* give (LearningReadiness), a model value. Scores are fractions.          *)
(***************************************************************************)
EXTENDS Integers, Sequences, FiniteSets, Functions

CONSTANTS
    Jobs,        \* processes that run --persist
    Again,       \* the one of them that is run again and again
    Buckets,     \* FROZEN_BUCKETS
    Top,         \* the maturity levels are 0 .. Top
    Contracts,   \* contract -> [points : level -> 0 .. 100, weights : bucket -> ]
    Profiles,    \* what the ADR index may say
    Decisions,   \* profile -> bucket -> level -> accepted decisions
    Frozen,      \* contract and profile of the repository's first baseline
    Measures,    \* what the private data may say
    MaxEdits, MaxClock, MaxFaults,   \* bounds
    MaxVisits,   \* bound: runs of the other jobs
    Torn,        \* a file, or a line, that does not parse
    None

Levels == 0 .. Top

(* load_score_contract and the taxonomy's refusal of an empty bucket *)
ASSUME ScoreAssumption ==
    /\ MaxEdits \in Nat /\ MaxClock \in Nat /\ MaxFaults \in Nat /\ MaxVisits \in Nat
    /\ Again \in Jobs
    /\ Top \in Nat /\ IsFiniteSet(Buckets)
    /\ \A c \in DOMAIN Contracts :
        /\ Contracts[c].weights \in [Buckets -> Nat \ {0}]
        /\ Contracts[c].points \in [Levels -> 0 .. 100]
        /\ \A l \in 1 .. Top : Contracts[c].points[l - 1] < Contracts[c].points[l]
    /\ Decisions \in [Profiles -> [Buckets -> [Levels -> Nat]]]
    /\ \A p \in Profiles, b \in Buckets : \E l \in Levels : Decisions[p][b][l] > 0
    /\ Frozen.contract \in DOMAIN Contracts /\ Frozen.profile \in Profiles

VARIABLES
    profile, contract, measure,   \* ADR index, scoring contract, private data
    baseline,    \* readiness-baseline-v1.json
    files,       \* md and json: a report, None or Torn
    history,     \* lines of readiness-history.jsonl
    step,        \* job -> where it stands
    report,      \* job -> the report it holds, or what it has read for it
    seen,        \* job -> hash of the last entry it read
    raced,       \* history variable: an entry was appended behind another
                 \* than the one its job had read
    clock, edits, faults, visits

inputs == <<profile, contract, measure, baseline, edits>>
artifacts == <<files, history>>
jobs == <<step, report, seen>>
vars == <<inputs, artifacts, jobs, raced, clock, faults, visits>>

-----------------------------------------------------------------------------
Plus(f, g) == <<f[1] * g[2] + g[1] * f[2], f[2] * g[2]>>
Total(f) == FoldFunction(Plus, <<0, 1>>, f)
Minus(f, g) == <<f[1] * g[2] - g[1] * f[2], f[2] * g[2]>>

(* _score_profiles: decisions weigh the same within their bucket. *)
Points(c, p, b) ==
    SumFunction([l \in Levels |-> Contracts[c].points[l] * Decisions[p][b][l]])

BucketShare(c, p, b) ==
    <<Contracts[c].weights[b] * Points(c, p, b),
      SumFunction(Contracts[c].weights) * SumFunction(Decisions[p][b])>>

ScoreProfiles ==
    [c \in DOMAIN Contracts |-> [p \in Profiles |->
        Total([b \in Buckets |-> BucketShare(c, p, b)])]]

Score(c, p) == ScoreProfiles[c][p]

(* A baseline as its author computes it. *)
BaselineOf(c, p) == [contract |-> c, profile |-> p, score |-> Score(c, p)]

(* load_score_baseline: it was computed, rightly, with today's contract. *)
BaselineLoads ==
    /\ baseline.contract = contract
    /\ baseline.score = Score(contract, baseline.profile)

(* c is the contract the baseline was held against, d the one by which the  *)
(* index was scored (_baseline_reference subtracts the one from the other). *)
Snapshot(c, d, b, p, m) ==
    [contract |-> c, indexed |-> d, baseline |-> b, profile |-> p, measure |-> m,
     delta |-> Minus(Score(d, p), b.score)]

Present(m) == Snapshot(contract, contract, baseline, profile, m)

Hash(entry) == Append(entry.previous, <<entry.snapshot, entry.time>>)
Tip == IF history = <<>> THEN <<>> ELSE Hash(history[Len(history)])

(* _read_jsonl and _validate_history_entries *)
HistoryReads ==
    \A i \in DOMAIN history :
        /\ history[i] # Torn
        /\ \A j \in DOMAIN history : history[j] # Torn /\ i # j =>
               history[i].snapshot # history[j].snapshot
        /\ history[i].previous =
               IF i = 1 THEN <<>> ELSE Hash(history[i - 1])

Recorded(s) == {i \in DOMAIN history : history[i].snapshot = s}

-----------------------------------------------------------------------------
Init ==
    /\ profile = Frozen.profile
    /\ contract = Frozen.contract
    /\ measure \in Measures
    /\ baseline = BaselineOf(contract, profile)
    /\ files = [f \in {"md", "json"} |-> None]
    /\ history = <<>>
    /\ step = [p \in Jobs |-> "idle"]
    /\ report = [p \in Jobs |-> None]
    /\ seen = [p \in Jobs |-> None]
    /\ raced = FALSE
    /\ clock = 0 /\ edits = 0 /\ faults = 0 /\ visits = 0

(* The operator changes one input, or freezes a new baseline. *)
Edit ==
    /\ edits < MaxEdits
    /\ edits' = edits + 1
    /\ \/ profile' \in Profiles /\ UNCHANGED <<contract, measure, baseline>>
       \/ contract' \in DOMAIN Contracts /\ UNCHANGED <<profile, measure, baseline>>
       \/ measure' \in Measures /\ UNCHANGED <<profile, contract, baseline>>
       \/ /\ baseline' = BaselineOf(contract, profile)
          /\ UNCHANGED <<profile, contract, measure>>
    /\ UNCHANGED <<artifacts, jobs, raced, clock, faults, visits>>

Tick ==
    /\ clock < MaxClock
    /\ clock' = clock + 1
    /\ UNCHANGED <<inputs, artifacts, jobs, raced, faults, visits>>

Goto(p, s) == step' = [step EXCEPT ![p] = s]

Exit(p) == /\ Goto(p, "idle")
           /\ report' = [report EXCEPT ![p] = None]
           /\ seen' = [seen EXCEPT ![p] = None]

Draft == [contract |-> contract, baseline |-> baseline,
          indexed |-> None, profile |-> None]

(* Mutant: a baseline of another contract is compared with. *)
LoadAnyBaseline(p) ==
    /\ step[p] = "idle"
    /\ p # Again => visits < MaxVisits
    /\ visits' = IF p = Again THEN visits ELSE visits + 1
    /\ Goto(p, "loaded")
    /\ report' = [report EXCEPT ![p] = Draft]
    /\ UNCHANGED <<inputs, artifacts, seen, raced, clock, faults>>

(* collect_readiness, in the order of its reads. First the contract and the *)
(* baseline, which is held against the contract read: one that does not     *)
(* load ends the command. A baseline is frozen of the contract in place, so *)
(* two that agree were both in place at one moment between the reads.       *)
LoadBaseline(p) ==
    /\ step[p] = "idle"
    /\ BaselineLoads
    /\ p # Again => visits < MaxVisits
    /\ visits' = IF p = Again THEN visits ELSE visits + 1
    /\ Goto(p, "loaded")
    /\ report' = [report EXCEPT ![p] = Draft]
    /\ UNCHANGED <<inputs, artifacts, seen, raced, clock, faults>>

(* taxonomy_evidence_index: the contract once more, then the index. *)
LoadContract(p) ==
    /\ step[p] = "loaded"
    /\ Goto(p, "reloaded")
    /\ report' = [report EXCEPT ![p].indexed = contract]
    /\ UNCHANGED <<inputs, artifacts, seen, raced, clock, faults, visits>>

ReadIndex(p) ==
    /\ step[p] = "reloaded"
    /\ Goto(p, "indexed")
    /\ report' = [report EXCEPT ![p].profile = profile]
    /\ UNCHANGED <<inputs, artifacts, seen, raced, clock, faults, visits>>

(* The private data is measured and the report is put together. *)
Collect(p) ==
    LET d == report[p]
    IN  /\ step[p] = "indexed"
        /\ Goto(p, "collected")
        /\ report' = [report EXCEPT ![p] =
               [snapshot |-> Snapshot(d.contract, d.indexed, d.baseline,
                                      d.profile, measure),
                time |-> clock]]
        /\ UNCHANGED <<inputs, artifacts, seen, raced, clock, faults, visits>>

(* _reuse_existing_snapshot_time: the time of an unchanged snapshot is      *)
(* kept. A JSON file that does not parse raises here.                       *)
Reuse(p) ==
    /\ step[p] = "collected"
    /\ IF files["json"] = Torn
         THEN Exit(p)
         ELSE /\ Goto(p, "md") /\ UNCHANGED seen
              /\ report' = [report EXCEPT ![p].time =
                     IF files["json"] # None
                          /\ files["json"].snapshot = report[p].snapshot
                       THEN files["json"].time ELSE @]
    /\ UNCHANGED <<inputs, artifacts, raced, clock, faults, visits>>

After(f) == IF f = "md" THEN "json" ELSE "history"
Filling(f) == IF f = "md" THEN "filling md" ELSE "filling json"

(* Mutant: a file is written only if it holds another snapshot. *)
OpenFileNewSnapshot(p, f) ==
    /\ step[p] = f
    /\ IF files[f] \notin {None, Torn} /\ files[f].snapshot = report[p].snapshot
         THEN Goto(p, After(f)) /\ UNCHANGED files
         ELSE Goto(p, Filling(f)) /\ files' = [files EXCEPT ![f] = Torn]
    /\ UNCHANGED <<inputs, history, report, seen, raced, clock, faults, visits>>

(* _write_if_changed: the file is left alone or opened, and so emptied. *)
OpenFile(p, f) ==
    /\ step[p] = f
    /\ IF files[f] = report[p]
         THEN Goto(p, After(f)) /\ UNCHANGED files
         ELSE Goto(p, Filling(f)) /\ files' = [files EXCEPT ![f] = Torn]
    /\ UNCHANGED <<inputs, history, report, seen, raced, clock, faults, visits>>

(* The text is written from the start of the file: over the text of a job   *)
(* that opened and wrote it in between, whose longer end may stay.          *)
FillFile(p, f) ==
    /\ step[p] = Filling(f)
    /\ Goto(p, After(f))
    /\ \E text \in {report[p]}
                     \cup (IF files[f] \in {Torn, report[p]} THEN {} ELSE {Torn}) :
           files' = [files EXCEPT ![f] = text]
    /\ UNCHANGED <<inputs, history, report, seen, raced, clock, faults, visits>>

(* Mutant: whether the snapshot is there already is not asked. *)
ReadHistoryOnly(p) ==
    /\ step[p] = "history"
    /\ IF HistoryReads
         THEN /\ Goto(p, "append")
              /\ seen' = [seen EXCEPT ![p] = Tip]
              /\ UNCHANGED report
         ELSE Exit(p)
    /\ UNCHANGED <<inputs, artifacts, raced, clock, faults, visits>>

(* record_history_snapshot: nothing to do for a recorded snapshot, and no   *)
(* way on from a history that does not validate.                            *)
ReadHistory(p) ==
    /\ step[p] = "history"
    /\ IF HistoryReads /\ Recorded(report[p].snapshot) = {}
         THEN /\ Goto(p, "append")
              /\ seen' = [seen EXCEPT ![p] = Tip]
              /\ UNCHANGED report
         ELSE Exit(p)
    /\ UNCHANGED <<inputs, artifacts, raced, clock, faults, visits>>

Glued == history # <<>> /\ history[Len(history)] = Torn

(* One write in append mode; after half a line it completes that line. *)
AppendHistory(p) ==
    /\ step[p] = "append"
    /\ Exit(p)
    /\ raced' = (raced \/ Glued \/ seen[p] # Tip)
    /\ history' = IF Glued THEN history
                  ELSE Append(history, [snapshot |-> report[p].snapshot,
                                        time |-> report[p].time,
                                        previous |-> seen[p]])
    /\ UNCHANGED <<inputs, files, clock, faults, visits>>

(* The process dies: files stay as they are, an append may stay half done. *)
Die(p) ==
    /\ step[p] # "idle"
    /\ faults < MaxFaults
    /\ faults' = faults + 1
    /\ Exit(p)
    /\ \/ UNCHANGED history
       \/ step[p] = "append" /\ ~Glued /\ history' = Append(history, Torn)
    /\ UNCHANGED <<inputs, files, raced, clock, visits>>

Persist(p) ==
    \/ LoadBaseline(p) \/ LoadContract(p) \/ ReadIndex(p)
    \/ Collect(p) \/ Reuse(p)
    \/ \E f \in {"md", "json"} : OpenFile(p, f) \/ FillFile(p, f)
    \/ ReadHistory(p) \/ AppendHistory(p)

Next == Edit \/ Tick \/ \E p \in Jobs : Persist(p) \/ Die(p)

Spec == Init /\ [][Next]_vars

(* The operator runs --persist again and again, with a run of somebody else *)
(* at times, and a run goes on.                                             *)
FairSpec == Spec /\ \A p \in Jobs : WF_vars(Persist(p))

-----------------------------------------------------------------------------
(* validate_persisted_score_artifacts: the private data is not looked at.   *)
CheckPasses ==
    LET json == files["json"]
    IN  /\ BaselineLoads
        /\ json \notin {None, Torn}
        /\ json.snapshot = Present(json.snapshot.measure)
        /\ files["md"] = json
        /\ HistoryReads
        /\ Cardinality(Recorded(json.snapshot)) = 1
        /\ history[Len(history)].snapshot = json.snapshot

Baselines == {BaselineOf(c, p) : c \in DOMAIN Contracts, p \in Profiles}

(* Everything measured is measured against a baseline of its own contract. *)
Snapshots ==
    {Snapshot(c, d, BaselineOf(c, q), p, m) :
        c \in DOMAIN Contracts, d \in DOMAIN Contracts, q \in Profiles,
        p \in Profiles, m \in Measures}

Drafts == [contract : DOMAIN Contracts, baseline : Baselines,
           indexed : DOMAIN Contracts \cup {None}, profile : Profiles \cup {None}]

(* The steps of a run that has no report yet. *)
Drafting == {"idle", "loaded", "reloaded", "indexed"}

Reports == [snapshot : Snapshots, time : Nat]

Chains == Seq(Snapshots \X Nat)

Entries == [snapshot : Snapshots, time : Nat, previous : Chains]

TypeOK ==
    /\ profile \in Profiles /\ contract \in DOMAIN Contracts /\ measure \in Measures
    /\ baseline \in Baselines
    /\ files \in [{"md", "json"} -> Reports \cup {None, Torn}]
    /\ history \in Seq(Entries \cup {Torn})
    /\ step \in [Jobs -> Drafting \cup {"collected", "md", "filling md", "json",
                                       "filling json", "history", "append"}]
    /\ report \in [Jobs -> Reports \cup Drafts \cup {None}]
    /\ seen \in [Jobs -> Chains \cup {None}]
    /\ \A p \in Jobs :
        /\ step[p] \notin Drafting => report[p] \in Reports
        /\ step[p] \in Drafting \ {"idle"} =>
              /\ report[p] \in Drafts
              /\ report[p].baseline.contract = report[p].contract
        /\ step[p] \in {"reloaded", "indexed"} =>
              report[p].indexed \in DOMAIN Contracts
        /\ step[p] = "indexed" => report[p].profile \in Profiles
        /\ step[p] = "append" => seen[p] \in Chains
    /\ raced \in BOOLEAN
    /\ clock \in Nat /\ edits \in Nat /\ faults \in Nat /\ visits \in Nat

(* One profile has the other's decisions, none of them less mature. *)
Matured(p, q) ==
    \A b \in Buckets, l \in Levels :
        LET above(r) == SumFunctionOnSet(Decisions[r][b], l .. Top)
        IN  above(p) <= above(q) /\ (l = 0 => above(p) = above(q))

(* As long as no two runs appended at once and none died in the append, the *)
(* history is a chain in which every state of the evidence stands once,     *)
(* whatever died before it and whoever measured the same.                   *)
HistoryIntact ==
    raced \/ HistoryReads \/ \E i \in DOMAIN history : history[i] = Torn

(* Whatever the operator edits between the reads of a run, a recorded       *)
(* change is against a baseline of the contract the report names; and it is *)
(* one the taxonomy made, unless the contract was edited between the two    *)
(* times the run read it: none, if the decisions stand where they stood at  *)
(* the baseline, and no loss if none of them fell back.                     *)
DeltaHonest ==
    \A i \in DOMAIN history :
        LET s == history[i].snapshot
        IN  history[i] # Torn =>
                /\ s.baseline.contract = s.contract
                /\ s.indexed = s.contract =>
                      /\ Matured(s.baseline.profile, s.profile) => s.delta[1] >= 0
                      /\ Matured(s.profile, s.baseline.profile) => s.delta[1] <= 0

(* "comparison": "comparable_same_contract" (learning_readiness.py:450), as *)
(* every recorded snapshot says: the two scores are of one contract.        *)
Comparable ==
    \A i \in DOMAIN history :
        history[i] # Torn =>
            history[i].snapshot.indexed = history[i].snapshot.contract

(* What running --persist again does not bring in order: a JSON file that   *)
(* does not parse stops every later run before it would be written, as does *)
(* a history that does not validate; evidence that returned to a recorded   *)
(* state is not the latest entry; a baseline of another contract waits for  *)
(* its author.                                                              *)
Stuck ==
    \/ files["json"] = Torn
    \/ ~HistoryReads
    \/ /\ Recorded(Present(measure)) # {}
       /\ history[Len(history)].snapshot # Present(measure)
    \/ ~BaselineLoads

(* Everything else it does: in the end the check passes, whatever was edited *)
(* and whoever died in the middle.                                          *)
Heals == <>[](CheckPasses \/ Stuck)

(* What record_history_snapshot promises: a state is appended once. *)
RecordedOnce ==
    \A i, j \in DOMAIN history :
        history[i] # Torn /\ history[j] # Torn
            /\ history[i].snapshot = history[j].snapshot => i = j
===============================================================================
