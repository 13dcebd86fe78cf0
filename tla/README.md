# TLA+ models of the adaptive routing layer

`src/` is a proxy that sits between a coding agent and its model service. It
reads every wire request, decides whether a turn can run on a local model, a
cheap cloud model or the frontier model, relays the answer, watches the answers
for mechanical failure, escalates, and writes every decision and its outcome to
a ledger from which the routing is later judged and learned.

The modules here model the part of the system that decides and remembers while
requests overlap (policy, health registry, session store, trip-wires, escalation
controller, proxy handler, turn ledger) and the part that turns what the ledger
remembers into evidence: the verifier, live verification, counterfactual runs,
the learning contract, the readiness report and its history, the retrieval
router, the graph projection and the traffic simulator's budget. TLC checks them
on small instances; TLAPS proves the refinements of proxy, ledger and live
verification and the invariants of these three, of policy, health and trip-wires,
of the retrieval router and the graph projection, of the counterfactual runs, the
readiness report and its history and of the simulator's budget for every value of
the constants: every invariant and action property of the passing runs.

## Inventory

Line references are to `src/src/`.

| Component | State | Operations | What is hard | What makes it correct |
|---|---|---|---|---|
| Policy (`router/policy.py`), features (`features.py`) | none | `route_turn`, `heuristic_score` | layer order, inclusive and strict thresholds, two rung vocabularies | fits the window, local only if usable, harder never cheaper |
| Episode boundary (`episode.py`) | none (reads the session) | `detect_episode_boundary` | three of four weak signals, one of them a stale memory | the only way down for an escalated session |
| Rung health (`health.py`) | per rung: healthy, failures, retry_after | `snapshot`, `record_success`, `record_failure` | late and reordered answers, half-open written as healthy | a full quiet cooldown before the next try; offered again |
| Session store (`state.py`) | per session: route, pin, escalated flag, clean mark, turn count | one method per mutation | shared by router, controller and handler | a pin is for good; route and flag move together |
| Trip-wires (`tripwires.py`) | per session and turn: strikes, errors, call window, progress, latch | `observe_response`, `observe_tool_results`, new state per turn | an old turn's answer observed in the new turn's state | first hit latches; limits exact |
| Escalation controller (`escalation_controller.py`) | trip-wire states, pending handoffs, infrastructure failures | `_observe`, `consume_pending`, `new_turn`, `sync_served_route` | a handoff waits while other requests change the session | one rung per turn, never from a pinned session to the cloud |
| Live router (`live_router.py`) | none of its own | `plan` | reads and writes the store and the ledger in one step | a plan respects the session's phase |
| Proxy handler (`proxy/capture_proxy.py`) | locals of each request | read, plan, attempt, relay, post-call | every await lets other requests in; locals are used after it | a second attempt before an error, honest errors, the right row |
| Ledger (`memory_sqlite.py`, `memory_facade.py`) | decisions, outcomes, events, embeddings; the active route per session | `record_decision`, `attach_outcome`, `finalize_turn`, `attach_verification` | idempotence, atomicity, ownership of late outcomes | forward-only rows, at most one open row per session |
| Retrieval (`retrieval_router.py`, `shadow_retrieval.py`, `outcomes.py`), projection (`memory_sqlite.py` 629-) | cached matrix and its fingerprint | filter, vote, abstain; the offline evaluation | stale cache; labels that change after the fact | votes only from closed, unpinned, current rows; organic answers unmoved by synthetic turns |
| Graph (`graph_lite.py`), backfill (`memory_backfill.py`) | derived tables | rebuild, replay, `k_hop` | a commit per node and edge, death, overlap, a ledger that goes on | equals the ledger it read; idempotent |
| Live verification (`live_verification.py`) | job files, evidence lines, ledger columns | `begin`, `finish` | four writes, death between any two, two jobs of one route | one label per route, bound to it and never rewritten |
| Verifier, counterfactual runs (`verifier.py`, `counterfactual.py`) | dataset file, run directories, ledger columns | plan, execute, verify, offer, append | failing clones, unreported cost, half-written lines, files shared by runs | a verdict is about the candidate; records of one run pair |
| Learning contract (`learning_contract.py`) | none | eligibility, evidence, pairs, split | leakage between splits | groups stay on one side, training sees the past only |
| Learning readiness (`learning_readiness.py`, `tools/check_readiness_score.py`) | two report files, a hash-chained history | gates, audit, `--persist`, the check | files of four writers; three writes without a lock | a counted label is the route's own; the chain validates; the check heals |
| Simulator (`simulator/run_session.py`, `episodes.py`) | cost ledger shared by runners | single shots and episodes | the ledger learns of a run at its end | a bounded overshoot |
| Discriminator, privacy scan, transcript rebuild, classifier, backends | none | pure functions, model calls | string matching | inputs of the models here |
| Miner, classifier shadows, evaluations, reports | files | batch jobs | - | not part of the running system |

How they interact: `handle` scans the inbound content (a hit pins the session in
the store), feeds tool results to the controller, consumes a pending handoff,
and asks the live router for a plan. The router reads the store and the health
registry, asks the policy, writes the sticky route and, for a user turn, has the
recorder finalize the previous row and write a new one. The handler then tries
its attempts in order, records health, moves the sticky route after a fall-open,
relays the answer, feeds it to the controller (which may raise the sticky route
and leave a handoff) and attaches the outcome to the session's active row. All
of this runs in one asyncio process: code between two awaits is atomic, and
requests of one session or of many interleave at every await.

Everything else is a process of its own and meets the proxy in files: the
ledger database (verifier columns, outcome events), `verified-evidence.jsonl`,
the counterfactual dataset, the label audit, the readiness files and the cost
ledger. Live verification and counterfactual runs write what the readiness
report, the retrieval router and the learning contract read; locks are per job
or per file, and each of them may die between two writes.

## Modules

| Module | Models | Notes |
|---|---|---|
| `RungPolicy` | `policy.py`, the scores of `features.py`, the vote of `episode.py`, the rung vocabularies of `live_router.py` | pure operators; scores are integers in hundredths |
| `MCRungPolicy` | the inputs of `RungPolicy` over the registry of `RungHealth` | a turn is decided on every registry the monitor can leave |
| `RungHealth` | `health.py` and the requests that read and feed it | time is a countdown per rung |
| `Strikes` | what the rest of the router sees of a turn's wires | the `Feed` operator, shared by the next two |
| `Tripwires` | `tripwires.py`: every wire over the blocks of a turn | implements the view of `Strikes` |
| `MCTripwires` | a file read under two spellings, an edit and a command | |
| `RouterPartsProofs` | theorems of `RungPolicy`, `RungHealth`, `Tripwires` and `Retrieval` | TLAPS |
| `RoutingContract` | what routing promises: abstract specification | phases of a session, trips of a request |
| `RouterProxy` | `capture_proxy.handle`, `live_router.py`, `escalation_controller.py`, `state.py`, row life of `memory_sqlite.py` | implements `RoutingContract` |
| `MCRouterProxy` | small sets of turns and observations | extends `RungPolicy`, `Strikes` through `RouterProxy` |
| `RouterProxyProofs` | theorems of `RouterProxy` | TLAPS |
| `RowLife` | what the ledger promises of a row: abstract specification | |
| `RouteLedger` | `memory_sqlite.py`, the recorder of `memory_facade.py`, the writes of `memory_backfill.py` and of a verifier | implements `RowLife` |
| `MCRouteLedger` | one session, its live turns and one corpus turn | |
| `RouteLedgerProofs` | theorems of `RouteLedger` and `GraphProjection` | TLAPS |
| `LabelOnce` | what live verification promises of a job: abstract specification | |
| `LiveVerification` | `live_verification.py`, the writes others make to the same columns | implements `LabelOnce` |
| `LiveVerificationProofs` | theorems of `LiveVerification` | TLAPS |
| `Verifier` | `verifier.py`: plans, check statuses, change rules, verdict | pure operators |
| `LearningContract` | `learning_contract.py`: projection, eligibility, evidence, pairs, split | pure operators over `Verifier`'s verdicts |
| `Counterfactual` | `counterfactual.py`: runs over one dataset file | |
| `LearningReadiness` | the gates and the audit of `learning_readiness.py` | extends `Counterfactual`; live verification as one step |
| `LearningProofs` | theorems of `Verifier`, `LearningContract`, `Counterfactual` and `LearningReadiness` | TLAPS |
| `ReadinessHistory` | `--persist` and the check of the persisted score | |
| `ReadinessHistoryProofs` | theorems of `ReadinessHistory` | TLAPS |
| `SumTheorems` | sums over finite sets, induction | TLAPS, used by the proofs of history, budget, trip-wires, retrieval and graph |
| `GraphProjection` | `graph_lite.py`: rebuild, neighbours, `k_hop` | |
| `OutcomeLabels` | `outcomes.py` | pure operators |
| `Retrieval` | `retrieval_router.py`, `shadow_retrieval.py` | over `OutcomeLabels` |
| `SimulatorBudget` | `run_session.py` with the plans of `episodes.py` | |
| `SimulatorBudgetProofs` | theorems of `SimulatorBudget` | TLAPS |
| `MCLiveVerification`, `MCCounterfactual`, `MCLearningReadiness`, `MCReadinessHistory`, `MCGraphProjection`, `MCRetrieval`, `MCSimulatorBudget` | their small instances | |

`RouterProxy` keeps one record per session (`session`): the store's fields, the
controller's strikes, latch and pending handoff, and the recorder's active
route, because every handler reads and writes them together. `req` holds a
handler's locals between two awaits, `row` the ledger, `healthy` the registry.
Its actions are the stretches of the handler between awaits:

| Action | Code |
|---|---|
| `PlanUserTurn`, `PlanContinuation`, `PlanAside` | `handle` 402-461 with `LiveRouter.plan`; a blocked request also runs its post-call and returns, since it awaits nothing |
| `FallOpen` | the first attempt of `acquire_upstream` fails (181-209) |
| `Acquired` | `acquire_upstream` returns a response: health, served route (522-546) |
| `NoResponse` | no attempt had a response: the same, then the 502 and the post-call without an await |
| `Relayed`, `RelayBroken` | the end of the relay, the post-call (574-683), the return |
| `CooldownOver` | `health.py`: a cooled-down rung reads as healthy again |

`TurnSession`, `Decision`, `Inbound`, `PostCall`, `SyncServed`, `Minted` and
`Attached` are named for the stretch of code they stand for and are shared by
the actions. The two local models are one rung, "local". A planning error makes
`LiveRouter.plan` answer an unrouted passthrough; that is the `PlanAside`
action with label "passthrough". Of the trip-wires, parse and edit strikes are
counted to the limit and the other wires are one latch of the observation
(`Strikes`); the run `tripwires` shows that every message of the real wires is
one such observation.
The session's memory of the last turn's intent and files enters the boundary
vote as a free input (`signals`). Two fields are history: the phase and the
active row a request was planned under (`phase`, `turn`), and the turn that
wrote an outcome last (`from`).

`Tripwires` keeps the fields of a `TripwireState` (`wires`) and, as history,
the blocks observed in the turn (`log`); its properties read the whole log and
are compared with what the code accumulated. `ObserveResponse` and
`ObserveToolResults` take one message, `Reset` is the controller's new state
per turn. The budget wire is left out: the controller never gives one.

`RouteLedger` keeps the committed database (`db`), what the proxy's connection
sees (`tx`, which differs from `db` only inside a handler that failed without
rolling back, that is, only if the code were wrong), the recorder's memory
(`proxy`), the cached projection (`cache`) and a retrieval in progress
(`query`). A handler is the sequence of databases its statements lead through:
it commits the last or fails after any of them. Python's sqlite3 opens a
transaction at the first write, so that a SELECT before it commits alone:
`StartTurn` is the SELECT of `finalize_turn`, `CloseLast` its UPDATE,
`RecordTurn` the row of the new turn; nothing else of the proxy runs between the
three. `ReadStatus` is the SELECT of a verifier or of the backfill (`reads` are
what was read and may still be used), and `Verify` and `BackfillOutcome` write on
the strength of any reading, however old. Only `Attach` reads and writes in one
step: its row is a live turn's, whose status no other process writes. An event id stands for the hash the code builds from the
event; `seen` for the telemetry columns an outcome overwrites. The row life in
`RouterProxy` is this module's without failures and restarts, so that `owner`
is a statement about the handler alone.

`LiveVerification` has one step per write of `finish`: the job file is opened,
the route checked, the verdict journaled, the ledger enriched, the evidence line
appended, the job completed. `Stop` ends the process between any two, `Tear` cuts
the evidence write short: a broken line, or a whole one without its newline, to
which the next record is glued. A file with a broken line makes every reader that
comes to it raise. `usable` is a job whose workspace, baseline, plan and bound
decision pass the checks of `finish`; `Disturb` takes that away and gives it back
at any time, and `Open` and `Refuse` are where the command asks.
`overlapped` is history: the routes two finishes had checked at once.

`Counterfactual` has one step per call that can fail: start, baseline, each
execution, the offer to a live route, each record, the return; `Raise` leaves
through the cleanup, `Die` does not. An execution returns any of its order's
results, also one that cost more than the ceiling it was handed (`Ceiling`);
`overspent` is history: the runs that had one. What the
contract makes of the dataset (`CleanCounterfactual`, `CounterfactualPairs`,
`Split`) is asked of every state. `LearningReadiness` adds the organic half:
`VerifyLive` is a job of `LiveVerification` brought to its end, so that a route
has at most one line of evidence, which is what `OneLabelPerRoute` shows.

`ReadinessHistory` splits a persist at every file operation: the contract with
the baseline measured under it (`LoadBaseline`), the contract once more
(`LoadContract`), the index (`ReadIndex`), the data (`Collect`), then the files.
Contract and baseline are one step: if an edit between the two makes the baseline
another contract's the load raises, and otherwise the two reads commute with it.
Opening a file empties it, filling it may meet another run's text. Hashes are the hashed
values themselves, so a broken chain is a broken chain.

`GraphProjection` commits one node or one edge per step, as the code does, and
its rebuilders run beside the ledger and each other: `due` are the turns a
rebuilder has still to draw, `links` the edges left of the turn begun, `turnId`
and `otherId` the ids it holds between two commits. `settled` is history: what
the last rebuild read, if no other wrote meanwhile. `k_hop` is a search by rounds,
one node taken from the queue in each (`Dequeue`); as many rounds as there are
nodes end it, which is proved (`SearchEnds`). `Retrieval` keeps what the
resolver could have said of a turn when it was routed (`answered`) and which
earlier rows have changed since (`moved`). Its pool is a set, since what counts
is who passes (`Passing`) and who is among the K most similar, not their order.
Repeated instructions are equally similar, and the argsort of
`memory_sqlite.py:721` is not stable: `Cuts` are all the K that may be kept, so
that a turn has a set of possible votes (`Ballots`) and of possible answers.
`SimulatorBudget` reads the ledger
where the code does, before a run and before every step of an episode, and
appends one line at the end of a run.

`PROJECT.json` maps the definitions that carry the behaviour; helpers of a line
or two and sets of constants are left out of it.

## Runs

| Run | Question | Bounds |
|---|---|---|
| `policy` | Does every decision fit the window, take the local rung only when usable, order difficulty; is a cooldown honoured and a circuit offered again, with late answers? | all verbs, scopes, verdicts; token counts 1000, 20001, 26214, 26215, 160001: both sides of the score threshold and of both windows; all sessions the router can present; threshold 2, cooldown 2, three requests in flight per rung, so that a probe, a late failure and a late success overlap |
| `proxy` | Do all invariants hold under every interleaving, is the contract implemented and every row closed? | one session, three requests, three kinds of turn, one observation per wire |
| `owner` (violation) | Does an outcome reach the row of its own turn? | three requests, two kinds of turn |
| `tripwires` | Is the hit the first wire a reading of the whole turn trips, and each message one observation? | five blocks in messages of at most two, in every order; limits 2, 2 and 2, window 3: every wire can fire, be undone by progress, slide out of the window and meet another |
| `ledger` | Are rows whole, audited, forward-only, and votes fresh? | one session, two live turns, one corpus turn, one verification event, one attach per row, one reading of another process at a time, any statement failing, any number of restarts, replays and queries; the second live turn is private |
| `live` | Does a job that may die anywhere decide one verdict and publish it, and a route get one label? | two jobs, one organic route and one that is not, one counterfactual event that may name either, three deaths or cut writes, workspaces disturbed at any time |
| `counterfactual` | Which records pair, what is spent, what leaks through a split, what may a verdict blame? | two runs on one file, three and two candidates, one with a limit of 2 against executions that cost 1, 2 or 3 and may hide it, a route one of them names, one failure; 96 plans against 96 workspaces |
| `readiness` | Does a counted label belong to its route, and a passed audit to labels that stand? | three routes of one pair, one counterfactual run over the first, three reviews; the Wilson bound for all s <= n <= 24, three z, three floors |
| `history` | Does the chain hold, is a recorded change a change of decisions, does the check heal? | one job again and again, one visit of another, two contracts, two profiles, two edits between any two reads, one death |
| `graph` | Is an undisturbed rebuild the ledger it read, and `k_hop` its shortest distances? | three turns sharing session, rung, rule and wire; two rebuilders, two rebuilds, hops to 4 |
| `retrieval` | Can synthetic turns change an organic answer, and is the evaluation bolder than the router? | four turns of three sessions in every order of closing, three choices of synthetic turns, a turn without vector, all similarities equal, rising or falling, prefixes that rank differently; K 2, one verified turn |
| `simulator` | What does the budget guard limit? | two runners, two runs each, cap 2, costs of at most 1, episodes of 2 or 3 steps against a turn cap of 2, one clarification |

Three requests are enough for the properties of `proxy`: each relates a session
to at most one request in flight, one that changes the session meanwhile and one
that meets the result (a raise, a pin or fall-open during the flight, the next
turn). One session is enough because no action reads another session's record;
the health registry is the only shared state and `CooldownOver` and
`FallOpen`/`Acquired` already move it freely. The proofs hold for any number of
both. Requests enter in the order of their numbers, which only names them. The
specifications may stop when every request has returned, every batch job has
ended or every bound is used up, hence `CHECK_DEADLOCK FALSE`; a ledger whose
turns are used up and whose proxy is not restarted may rest. Two live turns and one corpus turn are enough for the ledger: its properties relate one
row to its events, or a cached row to a write; the only order between rows is
the one `finalize_turn` chooses by (`ClosesMostRecent` below takes four turns).
One reading is enough too: a write rests on one reading, and the proxy's own is
held beside it; the proofs hold for any number. The
scaled thresholds of `tripwires` keep every comparison of the code (two strikes
as in the code; 3 of 6 becomes 2 of 3, 6 becomes 2) and leave room after a wire
has fired.

Bounds in the modules: `StrikeLimit` (strikes stop at the limit that latches
the wire), `FailureThreshold` (a failure count above it tells nothing more),
`MaxInFlight`, `MaxBatch` and `MaxEvents` (blocks of a message and of a turn),
`MaxAttach` (outcomes attached to a row), `MaxReads` (readings other processes
hold at once), the number of `Turns`, `MaxFaults`
(deaths and failed writes), `MaxReviews`, `MaxEdits`, `MaxClock`, `MaxVisits`,
`MaxRuns`, `MaxHops`, `MaxVerified` and `Lengths` (of episode plans).

For the other runs: two jobs of one route are the smallest overlap, and a third
death tells nothing the second did not, since `finish` starts from the files
each time. Three candidates are needed for two that differ only in their
endpoint beside the other end of the ladder. Two persists race; a third would
meet the same files. Four turns give a query three neighbours for two places, so
that the cut to K, the floor and the firewall are all felt. Three graph turns
give a cycle, so that two ways of different length lead to one node. The
constraint of `graph` drops states from which no undisturbed rebuild can come
any more; both of its invariants are empty there. Two runners suffice to read
the ledger before either writes to it; `BudgetHolds` adds one runner's share per
runner. `ToolingNeverBlames`, `ScoreAgrees` and `WilsonIsScoreTest` depend on no
variable and are evaluated in the initial states only, over `SomePlans` (96),
`SomeWorkspaces` (96) and `Samples` (all s <= n <= 24, three z, three floors).

Fairness: `RouterProxy.FairSpec` asks weak fairness of a request's upstream
steps only. A local attempt has a total timeout (`_send`, 495-496), and the
Anthropic service is assumed to answer or to drop the connection. No fairness
is asked of new requests, of good outcomes or of cooldowns. `RungHealth.FairSpec`
asks only that the clock runs. `LiveVerification.FairSpec` asks that a running
`finish` proceeds and that the operator runs it again until the job is complete:
the command returns an error until it is. Steps the command refuses are not among
those (`Open` is disabled for a job whose workspace is not as bound, or whose
evidence file cannot be read, where the code returns with an error and nothing
changed), so `Recovers` says in its own hypotheses what it needs: that the
workspace is at last left as it was bound, and that no line of the file is broken. `ReadinessHistory.FairSpec` asks that
`--persist` is run again and again and that a run goes on. Deaths are bounded,
edits too; neither is forced.

## Properties

Each is stated in a comment at its definition.

* `MCRungPolicy`: `WindowFits` (a turn fits its rung's window, and the local rung
  is taken only if it is healthy or the session pinned), `HarderNeverCheaper`.
  `RungHealth`: `CooldownHonoured`, `OfferedAgain`.
* `RouterProxy`: `EscalatedOffLocal` (hysteresis), `PendingConsistent` (a handoff
  describes its session when it is consumed), `FellOpenStaysOff` (the served
  route is remembered), `OneOpenRow` and `RowsClose` (ledger), `FailOpen`,
  `ImplementsContract`.
* `Tripwires`: `FirstWireLatched`, `CountsAsStrikes`.
* `RouteLedger`: `Whole` (a turn is stored whole), `EventsExplain` and
  `EveryChangeAudited` (the outcome row is a projection of its events),
  `FreshVotes` (a cache found current is current), `ImplementsRowLife`.
* `LiveVerification`: `OneLabelPerRoute`, `CompletedLabelCounts` (a complete job
  is one the readiness report counts), `ImplementsLabelOnce`, `Recovers` (a
  verdict in the ledger reaches the evidence).
* `Counterfactual`: `RunsPair` (the k-th line of a returned run is its k-th
  candidate's, and the lines pair if both ends of the ladder are clean),
  `SpendWithinLimit`, `SplitNeverLeaks`; over `Verifier`: `ToolingNeverBlames` (a
  check that could not run neither costs nor earns a verdict), `ScoreAgrees`
  (score and verdict tell one story).
* `LearningReadiness`: `LabelsAreOwn`, `AuditStands`, `WilsonIsScoreTest`.
* `ReadinessHistory`: `HistoryIntact`, `DeltaHonest`, `Heals`.
* `GraphProjection`: `Rebuilt`, `HopsShortest`. `Retrieval`: `FirewallHolds`,
  `ShadowNeverBolder`. `SimulatorBudget`: `BudgetHolds`, `SpawnsBounded`.

Some hold only with an exception the code makes, and say so: `OneLabelPerRoute`
except for routes two finishes checked at once, `CompletedLabelCounts` except
where a second verifier wrote over the columns or a cut write broke a line,
`Recovers` except after such a line, `ImplementsRowLife` except that a writer
which found a row open may rewrite its telemetry after another made it final, `HistoryIntact` except after two
appends raced or one was torn, `Heals` except in the four states `Stuck` names,
`SpendWithinLimit` per attempt only where an execution hides its cost and by one
report more where one does not keep to its ceiling, `DeltaHonest` except where the
contract was edited between the two times a run reads it, `ShadowNeverBolder`
except through the vote of a row that has moved since, `BudgetHolds` per runner. Those exceptions are the hazards.

The contract: a session is free, raised or pinned; a pin is for good; only a
user turn lowers a raised session; a request of a turn runs where the phase it
was planned under allows for its whole trip (pinned: local, raised: cloud), also
when the session changes while it is in flight; only a pinned session's request
is refused; an answer may raise its own session and no other. Housekeeping is
outside the phases: it is planned locally and falls open even in a pinned
session, which the code allows by leaving `allow_cloud_fallback` at its default.

### Where the documents and the code disagree

The run `owner`: `capture_proxy.py:577` attaches the outcome to the route the
router minted for the request; `RoutingRecorder.attach` uses the route active
when the answer ends.

The others are stated as properties of the modules, which no run checks; each is
refuted by TLC under the change of a configuration given here.

* `OnlyBoundaryLowers` (`MCRouterProxyOwner.cfg`): `docs/adr-index.md:181` lets
  only an episode boundary lower the rung; the feasibility gate precedes
  hysteresis and lowers frontier to cheap cloud.
* `HandoffReachesTheTurn` (`MCRouterProxyOwner.cfg`): `escalation_controller.py:71`
  preserves the handoff for the next request that crosses providers; the handler
  pops it for any request of the session, housekeeping included.
* `TwoMalformedCalls` (`MCTripwires.cfg`): the table at `tripwires.py:13` fires on
  two malformed calls; a malformed call and the rejection of that same call are
  two strikes.
* `ClosesMostRecent` (`MCRouteLedger.cfg` with `Turns = {1, 2, 3, 4}`, no corpus
  turn and no job): `finalize_turn` promises the session's most recent open
  outcome (`memory_sqlite.py:580`) and orders by a turn index that restarts with
  the proxy.
* `PrivateNeverEmbedded` (`MCRouteLedger.cfg` with `Verdicts <- AnyVerdict`):
  private turns have no embedding (`memory_sqlite.py:11`), but the gate reads the
  replayed event and the stored decision keeps its own (`memory_backfill.py:88-93`
  scans anew at every run).
* `FinalIsTerminal` (`MCRouteLedger.cfg`): `closed_final` is terminal
  (`memory_sqlite.py:423`); `finalize_turn` selects an open row (`:588-594`), the
  backfill makes it final, and the UPDATE (`:597`) asks for no status.
* `RecoversThoughTorn` (`MCLiveVerification.cfg`): `README.md:103` has a
  verification "retried idempotently"; a write cut short
  (`live_verification.py:183`) leaves a line that makes every later finish of a job
  without evidence raise (`:146`, `:166-172`), with the label in the ledger only.
* `Comparable` (`MCReadinessHistory.cfg`): the report calls its delta
  `comparable_same_contract` (`learning_readiness.py:450`), but the baseline is
  loaded under the contract read at `:751` and the index scored under the one read
  again at `:334`.
* `OneAnswer` (`MCRetrieval.cfg`): the resolver has one answer to a ledger; with
  equal similarities it depends on an unstable argsort (`memory_sqlite.py:721`)
  over the whole pool, synthetic rows and all, which of them vote.
* `ShadowRepeats` (`MCRetrieval.cfg`): the evaluation uses what "existed in memory
  when the target was routed live" (`shadow_retrieval.py:193-201`), by the time of
  the decision; rows that close after it vote.
* `OnlyLocalFallsOpen` (`MCRouterProxy.cfg`): only the local rungs have a second
  attempt (`live_router.py:18`, `capture_proxy.py:222-223`); `_dispatch` gives
  cheap cloud one too (`live_router.py:275`).
* `PinnedNeverFallsOpen` (`MCRouterProxy.cfg`): a pinned session never falls back
  to the cloud (`docs/adr-index.md:155`); its housekeeping does.
* `RouteLabelledOnce` (`MCLiveVerification.cfg`): a route that acquired different
  verifier evidence is refused (`live_verification.py`), but the check and the
  write are apart and the lock is per job.
* `RecordedOnce` (`MCReadinessHistory.cfg`): the docstring at
  `learning_readiness.py:1106` appends a snapshot once; nothing is locked between
  the read of the history and the append.

Seen while modelling, not stated as properties:

* `live_router.py:27` has a failed attempt end on the client's original request.
  The second attempt carries the client's model, but the body is the one planned
  for: after a handoff the rebuilt transcript (`capture_proxy.py:437,447`).
  `FailOpen` says that the second attempt is made, not what it carries.
* `counterfactual.py:397` calls the cost limit a hard one: the rest of it is
  handed to the CLI as `--max-budget-usd` (`:155-172`), and nothing compares what
  comes back with it (`:536-544`). `SpendWithinLimit` says what the limit is worth
  either way.
* `shadow_retrieval.py:15-17` has a firewalled neighbour take one of the K places
  as it does live; in both the code filters first (`retrieval_router.py:131-141`),
  which is what `FirewallHolds` shows. Its lines 14-18 drop the target's own session;
  the code keeps the session's past (`shadow_retrieval.py:193-201`), and so does
  the model: the third turn of `MCRetrieval` is of the first one's session.
* `docs/adr-index.md:157` removes unhealthy rungs before optimization, but
  `route_turn` consults health only for the local rung and inside the feasibility
  gate; the comment at `health.py:92` lets one request through a half-open
  circuit, but every turn planned before the first answer is let through.
* Tool results are fed to the wires by every request that repeats them
  (`capture_proxy.py:416`); a row's escalated flag is the session's (`:604`); a
  4xx of the client's own making opens the circuit (`:533`); the sticky route
  moves to the frontier although the fallback failed as well (`:543`).
* A readiness JSON file left half written stops every later `--persist` before it
  would write it anew (`learning_readiness.py:1148`).
* Counterfactual candidates may differ only in their endpoint; the pair check
  looks at rung, model and harness, and such a run never pairs. A plan whose only
  rule is a forbidden path gives a violating candidate the full score.
* The simulator's "hard $25 total cap" (`run_session.py:8,32`) is one that
  overlapping runners, the driver's own cost, turns that report nothing and
  crashes exceed; its episodes' "hard cap" on turns (`:170-171`) is passed by one
  where a question is answered first. A run that dies leaves no line, and with it
  no session id by which the backfill tells simulated sessions from organic ones.
* Two overlapping rebuilds of the graph leave nodes and edges twice until the next
  undisturbed one; the module assumes a single writer (`graph_lite.py:113`).
* The retrieval resolver is not wired into the live router. Its cold start counts
  outcomes without vectors; its evaluation compares document vectors with
  document vectors where the live query would use another prefix, and sees
  outcomes that closed after the turn it judges.

## Proofs

`RouterProxyProofs` proves, for any sets of sessions, requests, turns and
observations and any strike limit above zero:

* `Invariance`: `Spec => []Inv`, and from it each invariant of the `proxy` run
  (`TypeCorrect`, `HysteresisHolds`, `HandoffDescribesSession`,
  `FallOpenRemembered`, `LedgerOwned`, `AlwaysFallsOpen`);
* `Refinement`: `Spec => ImplementsContract`.

Assumptions are those named in `RouterProxy`: `None` is no request and no
session, request numbers are naturals, the turn features and observations are
of their types, the strike limit is positive.

The inductive invariant `Inv` says of each session that it is `Sound` (typed;
escalated and unpinned implies off the local routes; an infrastructure failure
in this turn implies the frontier, pins aside) and that its handoff is
`HandoffOK`; of each request that it is `RequestOK`; and of the ledger that
`OneOpenRow` holds. The strengthening over the checked invariants is in
`TripAllowed`: a request in flight has a session, a turn planned in a pinned
session runs locally with no second attempt left, one planned in a raised
session was not planned locally. The contract's `Divert` needs it: without it
nothing forbids a fall-open of a pinned turn. `Sound` and `HandoffOK` are
proved operator by operator (`FeedKeeps`, `RaiseKeeps`, `ObserveKeeps`,
`InboundKeeps`, `PostCallKeeps`, `SyncServedKeeps`, `NewTurnSound`), the rows by
`AttachedKeeps` and `MintedKeeps`, and `StepKeeps` says once that a step which
replaces one session record, one request and that session's rows by good ones
keeps `Inv`. `RaiseKeeps` needs that a session whose turn fell open is never
raised again: it is on the frontier, which has no next rung.

For the refinement, `Admitted` and `Answered` name what the ways of planning and
of returning have in common, `AdmittedMaps`, `AnsweredMaps`, `FallOpenMaps` and
`AcquiredMaps` map them to steps of the contract, and `NextMaps` collects them.

`RouteLedgerProofs` proves, for any sessions, turns, corpus and verification
events, every property of the `ledger` run: `LedgerTypeCorrect`, `StoredWhole`,
`RowsExplained`, `VotesFresh`, `Audited`, `LedgerRefinement`. Assumptions: live turns are 1..n,
apart from the corpus; each verification event names a route; the bound is a
natural number; `None` is no row.

The invariant `LedgerInv` says that the proxy's connection sees the committed
database, that this database is `Kept` (the tables fit together; each event has
one of the four kinds of id, belongs to a stored row and is not ahead of it;
each row is explained by its events), that live rows were minted, that a
cache not told of a write holds the visible rows, and that a reading is of a
stored row which since has only moved forward, the row being closed not yet
finalized by `finalize_turn` (`ReadsKept`). The kinds of id are the
strengthening that matters: with them an outcome or a final event about to be
written is new, and so no change goes unlogged. `LoggedKeeps` proves once that
overwriting a row and logging an event of a new id keeps a database; the
handlers are cases of it (`AttachWrites`, `FinalizeWrites`, `VerifyWrites`),
and `RecordWrites` covers a new decision and a replayed one. `Step` says what
any step does to the database, and the audit trail and the refinement follow from
it. `RowLife` keeps the rows a writer found open (`found`, here `FoundOpen`), since
only such a writer may touch a final row. `VotesFresh` rests on `RecordKeeps`: a
recorded turn need not be announced to the cache because a new row is pending
and pending rows are not visible.

The same module proves `GraphRebuilt` and `HopsAreShortest`, the invariants of the
run `graph`, for any turns, rules, trip-wires, escalation targets, number of
rebuilders, deaths and writes of the ledger meanwhile. `Rebuilt` speaks of the end
of a rebuild only. `GraphInv` says of every moment of one that no other disturbed
(`Drawing`):

* the rules of every node and edge: nodes once, edges between nodes, each once
  (`GraphWhole`);
* what it read bounds what is due (`Reads`), and the ids it holds are the ids of
  the turn begun and of the next link's node (`Holds`), which is true only because
  no other rebuild emptied the tables since;
* the edges drawn and the edges left to draw are two disjoint halves of what it
  read, and the nodes are the turns entered and the ends of the edges drawn
  (`Halves`). The strengthening is the disjointness: an edge about to be added is
  not there yet, so none is drawn twice. It holds because the links of one turn
  differ (`LinksOfDecision`, `LinksOfOutcome`) and an edge tells the turn and the
  kind of statement it stands for (`EdgeTells`, `KindTells`).

With nothing left the drawn half is the whole (`DrawnIsRebuilt`). There is one lemma
per commit (`EnterKeeps`, `UpsertKeeps`, `AddEdgeKeeps`, ...), and `OthersKept` says
that a step of one rebuild leaves the graph alone or disturbs every other under way.

For `HopsShortest`, neighbours in the tables are what the ledger relates
(`NeighborsTouch`, from `Rebuilt`), and every round of the search keeps `Searched`:
a node found has its distance in the ledger, the queue goes by distance and holds
two distances at most (`InTurn`), whoever left the queue below the limit has all
neighbours found, and everything no farther than the head of the queue is found
already. The last is why the first way to a node is a shortest: a node found anew
is a link away from the head and no nearer (`MeasuredAgain`). It passes to the next
head because when the distance grows everything nearer has left the queue
(`NearerFound`). No node is queued twice, so the queue is empty after as many
rounds as there are nodes (`SearchEnds`), and then the ball of k links is found
(`AllFound`). The functions behind search and balls are shown to exist by
`Iterated`. `GraphAssumption`: the turns are listed once and fire finitely many
rules, `Null` is no id, the number of hops is a natural number.

`LiveVerificationProofs` proves, for any jobs, routes, verdicts, other verifiers
and number of deaths: `LiveTypeCorrect`, `LabelledOnce`, `CompleteCounts` and
`OnceRefinement`. Assumptions: organic routes are routes, jobs and other
verifiers' ids are apart, and `None` is no verdict, route, job file or event.

Its invariant says of each job that file, event and record of evidence are in step
wherever the last `finish` died or was refused (`JobKept`), also when the record
is torn, and of each route (`RouteKept`) that
any event on it shows in its columns and, unless two finishes overlapped, that
one finish at most has checked it and not yet written, that this finish, if it
has no event yet, finds no other job's there, and that the events of jobs on it
are of one job. The middle one is the strengthening that matters: it carries
"the route is bare" from the check to the write. `JobFrame` and `RouteSame` say
what a step leaves alone; there is one lemma per action.

`RouterPartsProofs` proves the invariants of the `policy` run for any rungs that
include the policy's, any failure threshold above zero, any cooldown, number of
requests in flight and context sizes: `CooldownKept`, `WindowsFit`,
`DifficultyOrdersCost`. `HealthInv` says of each circuit that its failures are
the streak, and that from the threshold on it counts down what the calm lacks of
a cooldown, so that only a circuit counted to the end can read as healthy. The
other two follow from lemmas on `RouteTurn` for every turn, session and registry
(`EveryDecisionFits`, `EveryDecisionOrdered`), since the decision has no state
but the registry.

The same module proves `StrikesExact` and `FirstWireStays`, the two properties of
the run `tripwires`, for any calls, outputs, limits, window and lengths of message
and turn. A message is a fold over its blocks: the function behind the fold is
shown to exist and to lead from one block to the next (`FoldUnfolds`,
`MessageSteps`), and there is one lemma per kind of block.

* `StrikesExact` needs that strikes and errors move by at most one a block and
  that a count at the limit has latched (`WiresInv`): then the view after the
  message is what one `Feed` of the differences gives. `RouterProxyProofs` holds
  for every observation, so it holds of those the wires make.
* `FirstWireStays` says nothing of most fields, and none of them can be left out:
  `Kept` gives for every field its reading of the log's first n entries, pending
  calls as those no result has answered, the call history by the place of each
  call (`RepeatsCounted` counts the window by a bijection of places and
  entries), `stuck` by the results since the last productive one. A reading of
  the log up to n does not change when the log grows; the invariant
  (`KeptInv`) says this by quantifying over every ordered log that goes on from
  this one, of which TLC checked the case of the log itself on `MCTripwires`.

It proves `RetrievalFirewall` and `NeverBolder`, the invariants of the run
`retrieval`, for any turns, similarities, ties, thresholds and order of events. For
an organic turn the synthetic ones pass no filter, and the cut to K is made of what
passes, so that the same cuts are possible. `ShadowNeverBolder` speaks
of the day the evaluation runs; behind it stands `AnswerStands`: every cut of the
rows passing today of which none has moved since the turn was routed was a possible
cut then, and its vote among the answers the turn may have been given. Every write
of the ledger rewrites one row and adds it to what has moved for the turns routed
after it (`RowRewritten`), and a row that closes passes more, never less, so that a
cut without it is still one of the most similar. `RetrievalAssumption`: the turns are
listed once, a vote needs no more neighbours than the cut admits, the floor is
above zero.

Assumptions of the other parts: `CallsAssumption`, `StrikeAssumption`, `LimitsAssumption` (limits and
window above zero) and `BlocksAssumption` (the bounds are numbers).

`SimulatorBudgetProofs` proves `BudgetIsBounded` and `SpawnsAreBounded` for any
finite set of runners, any plans that open with a scenario, any cap, turn cap
and costs. `BudgetHolds` is not inductive: a guard passed is money not yet in
the ledger. `BudgetInv` counts it: a runner is committed to what it spent plus
what the guard it passed admits, no commitment exceeds one share, and the ledger
with all commitments stays within the shares of all runners. A guard can only be
passed while the ledger and the runner's own total are below the cap, which is
how one share becomes enough.

`ReadinessHistoryProofs` proves `HistoryStaysIntact` and `DeltaIsHonest` for any
jobs, edits, deaths, clocks and finite set of buckets, any positive weights and
any points that rise strictly with the level. In `HistoryInv` the length of the
chain tells whether the history moved since a job read it: an entry's
predecessor is the chain before it, so a job that still sees as many entries
sees the same, and its snapshot is not among them. Of a job that is still reading
it says that its baseline is of the contract it loaded (`Drafts`); the points are
compared under the contract of the index. The invariant holds until two
appends raced or one was torn. That evidence which matured never scores less
(`MaturedPoints`) is a summation by parts over the levels: the points of a level
are the sum of the steps below it, and of every step more decisions are above it.

`SumTheorems` proves what these two need of sums. The induction theorems of the
library take an operator, so induction is by the least number outside a set
(`SetInduction`): the function behind the fold exists up to any size of its
argument (`SumExists`), and does not depend on the order the fold chooses
(`SumAnyOrder`); the fold of the trip-wires over a message is built the same way,
and `TotalExists` does it for the sum of fractions in the score.

`LearningProofs` proves the invariants of the runs `counterfactual` and
`readiness` for any orders, plans, results, routes and reviews:

* `RunsInvariance`, and from it `SpendStaysWithin` and `ReturnedRunsPair`.
  `RunsInv` says of each run what its phase allows and, under a limit every
  execution kept to, that it spent at most the limit per candidate it began (`Tried`: the one under way
  counts, or a run that fails in the middle of one would break it); of each
  whole line in the dataset that it is its run's (decision, task, repository,
  snapshot, plan, features); and, while the file parses, that each run has as
  many lines as it recorded candidates and each stands at its place (`LinesOf`,
  `Place`). Another run's torn line may be overwritten at any time, so nothing
  is said of places in a file that does not parse.
* `SplitIsHonest`, of every set of evidence, cutoff and held-out groups, and
  `SplitsNeverLeak`.
* `ReadinessInvariance`, `LabelsStayOwn`, and `AuditsStand` if the policy's floor
  is above zero. It is 0.9 in `config/label-audit-policy-v1.json`; the code does
  not ask for it, and a floor of zero is reached by a stratum without reviews.
* `WilsonAccepts`: the root-free form of `wilson_lower_bound` is the score test,
  for every sample, z and floor below one. The difference of the squared side
  and the rest is a positive multiple of the score test's own difference
  (`WilsonLead` and the identity above it); where the side that is squared is
  negative both refuse.
* `ToolingSpares`, of every plan whose checks have names of their own, and
  `ScoreTellsVerdict`, of every plan with finitely many checks, in every workspace: `ToolingIsNotBlamed` and `ScoresAgree` are
  their instances.

Assumptions are named in the modules: `OrderAssumption` (an order has candidates
and a known plan; an execution reports no more than it spent; a plan has
finitely many checks), `NoneAssumption`, `BrokenAssumption` (a line that does not
parse is no record), `CasesAssumption`, `ContractAssumption`, `RouteAssumption`,
`SamplesAssumption`, `ScoreAssumption`, `SimulatorBounds`, `TokensAssumption`,
`RungsAssumption`.

Trying to prove `BucketOf` of the split showed that the model was wrong: its
cases overlapped, and TLA+ does not try the cases of a CASE in order as the code
tries its branches. It is a nested IF now, and the guards of every other CASE
exclude one another.

Reasoning about graph and retrieval changed their modules. Sorted and filtered
sequences became sets where the order tells nothing (the pool of a query, the turns
due), and the recursive `k_hop` a recursive function. The code orders the decisions
by time and leaves the order of the outcomes open; the module takes one order for
both, and the proofs use nothing of it but that the next turn is one of those due.

Only model-checked: everything under fairness (`RowsClose`, `OfferedAgain`,
`Recovers`, `Heals`), which is out of the prover's reach.

## Plan

Done, in this order: the policy, health and proxy over `RoutingContract`;
`Tripwires` over `Strikes`; `RouteLedger` over `RowLife`; `LiveVerification` over
`LabelOnce`; `Verifier`, `LearningContract`, `Counterfactual`,
`LearningReadiness`; `ReadinessHistory`; `Retrieval`, `GraphProjection`;
`SimulatorBudget`.

Left: the transcript rebuild of `escalate.py` (tool ids paired, roles alternating;
it drops a message that held only thinking), rule health, the utility pinning of
the capture mode and its handler, schema migrations, the miner's turn builder.
All are pure algorithms or single-process code: reference definitions over
bounded inputs.

Theorems still worth having: that the properties of one component carry over to the
next, such as the audit of `LearningReadiness` over every line `LiveVerification`
can write. `VerifyLive` stands for a finished job, which is checked by reading, not
by a refinement.

## Not modelled

Wording, headers, capture files, SQL text, embeddings' values, regular
expressions over text, calls to model servers, the command line tools and the
offline reports; ancestry and counts of the graph, the dataset and artifact
manifests of the contract, the simulator's sandboxes and prompts. Where such a
part decides something, its verdict is an input: the label of a request, the
outcome of the privacy scan, the features of a turn and the classifier's answer
range over small sets.
