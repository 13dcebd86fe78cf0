---------------------------- MODULE RouteLedger ----------------------------
(***************************************************************************)
(* The turn ledger (router/memory_sqlite.py) behind the facade and the     *)
(* recorder (router/memory_facade.py), written by three parties:           *)
(*                                                                         *)
(*  - the proxy, which finalizes a session's previous turn, records a      *)
(*    decision and attaches outcomes, on one long-lived connection;        *)
(*  - the verifier, which attaches evidence from a process of its own and  *)
(*    repeats an event when it is retried;                                 *)
(*  - the corpus backfill (router/memory_backfill.py), which replays old   *)
(*    turns under fixed route ids and may be run again.                    *)
(*                                                                         *)
(* A write handler is a transaction of several statements: any statement,  *)
(* or the commit, can fail, and the handler then rolls back.  What a       *)
(* handler reads first it reads before its transaction begins (sqlite3     *)
(* opens one at the first INSERT or UPDATE), so another process may commit *)
(* between a handler's read and its write, and no write looks at the row   *)
(* again.  The proxy can be restarted at any time, losing everything but   *)
(* the database.                                                           *)
(* The proxy's connection also serves the cached projection the retrieval  *)
(* router votes over.                                                      *)
(***************************************************************************)
EXTENDS Integers, Sequences, FiniteSets

CONSTANTS
    Sessions,     \* session keys
    Turns,        \* route ids of live turns: 1..n, in the order they are minted
    Corpus,       \* route ids of backfilled turns, older than any live one
    CorpusTurn,   \* [Corpus -> [session, index]]
    Verdicts,     \* [Routes -> SUBSET BOOLEAN]: what the secret scan may say, each time
                  \* it reads the turn; TRUE makes the turn private
    Jobs,         \* verification events
    JobRoute,     \* [Jobs -> Turns \cup Corpus]
    MaxAttach,    \* bound: outcomes attached to a row
    MaxReads,     \* bound: readings of the other processes that are still of use
    None

Routes == Turns \cup Corpus

ASSUME TurnsAssumption  == IsFiniteSet(Turns) /\ Turns = 1..Cardinality(Turns)
ASSUME RoutesAssumption == Routes \subseteq Nat /\ Turns \cap Corpus = {}
ASSUME CorpusAssumption == CorpusTurn \in [Corpus -> [session: Sessions, index: Nat]]
ASSUME JobsAssumption   == JobRoute \in [Jobs -> Routes]
ASSUME VerdictsAssumption == Verdicts \in [Routes -> SUBSET BOOLEAN]
ASSUME BoundAssumption  == MaxAttach \in Nat /\ MaxReads \in Nat

VARIABLES
    db,      \* the committed database
    tx,      \* the database as the proxy's connection sees it
    reads,   \* what the other processes' SELECTs have seen: <<route, its status then>>
    proxy,   \* the proxy's memory: open connection, row being closed, active route
             \* and turn count per session
    cache,   \* the projection in the provider's memory, and its fingerprint
    query    \* a retrieval in progress

vars == <<db, tx, reads, proxy, cache, query>>

-----------------------------------------------------------------------------
(* Tables.  seen counts the outcomes attached and stands for the telemetry  *)
(* columns they overwrite; retried is the signal of the next turn;         *)
(* evidence is the job whose verdict the verifier columns hold.            *)

Rank == [pending |-> 0, closed_turn |-> 1, closed_final |-> 2]

DecisionRow == [session: Sessions, index: Nat, sha: BOOLEAN]
OutcomeRow  ==
    [status: DOMAIN Rank, seen: 0..MaxAttach, retried: BOOLEAN,
     evidence: (Jobs \X BOOLEAN) \cup {None}]

Empty == [decisions |-> [r \in {} |-> None], outcomes |-> [r \in {} |-> None],
          events |-> {}, embedded |-> {}]

Stored(d, r) == r \in DOMAIN d.outcomes
Put(f, r, v) == [x \in DOMAIN f \cup {r} |-> IF x = r THEN v ELSE f[x]]
PutNew(f, r, v) == IF r \in DOMAIN f THEN f ELSE Put(f, r, v)   \* INSERT OR IGNORE

Event(id, r, status) == [id |-> id, route |-> r, status |-> status]
AddEvent(d, e) ==
    [d EXCEPT !.events = IF \E x \in @ : x.id = e.id THEN @ ELSE @ \cup {e}]

-----------------------------------------------------------------------------
(* The statements of each handler, as the sequence of databases they lead  *)
(* through.                                                                *)

NewOutcome == [status |-> "pending", seen |-> 0, retried |-> FALSE, evidence |-> None]

RecordDecision(d, r, decision, embedding) ==
    LET d1 == [d  EXCEPT !.decisions = PutNew(@, r, decision)]
        d2 == [d1 EXCEPT !.outcomes = PutNew(@, r, NewOutcome)]
        d3 == AddEvent(d2, Event(<<"pending", r>>, r, "pending"))
        d4 == [d3 EXCEPT !.embedded = @ \cup {r}]
    IN  IF decision.sha /\ embedding THEN <<d1, d2, d3, d4>> ELSE <<d1, d2, d3>>

(* Mutant: a final row accepts another outcome. *)
MayFollowAny(current, status) == Rank[current] <= Rank[status]

MayFollow(current, status) ==
    current # "closed_final" /\ Rank[current] <= Rank[status]

AttachOutcome(d, r, status) ==
    LET n  == d.outcomes[r].seen + 1
        d1 == [d EXCEPT !.outcomes[r] =
                    [@ EXCEPT !.status = status, !.seen = n, !.retried = FALSE]]
    IN  <<d1, AddEvent(d1, Event(<<"outcome", r, n>>, r, status))>>

(* Mutant: a retried event is applied again. *)
ReplayedNever(d, j) == FALSE

Replayed(d, j) == \E e \in d.events : e.id = <<"job", j>>

(* The event carries the status the row had when it was read. *)
AttachVerification(d, r, j, success, current) ==
    LET d1 == [d EXCEPT !.outcomes[r] = [@ EXCEPT !.evidence = <<j, success>>]]
    IN  <<d1, AddEvent(d1, Event(<<"job", j>>, r, current))>>

(* finalize_turn takes the open row of the session with the highest turn   *)
(* index, the newest of those.                                             *)
Open(d, s) ==
    {r \in DOMAIN d.outcomes : d.decisions[r].session = s
                                 /\ d.outcomes[r].status \in {"pending", "closed_turn"}}

LastOpen(d, s) ==
    {r \in Open(d, s) : \A q \in Open(d, s) \ {r} :
        \/ d.decisions[q].index < d.decisions[r].index
        \/ d.decisions[q].index = d.decisions[r].index /\ q < r}

(* Mutant: the event repeats the status before. *)
FinalizeTurnStatus(d, r, retried) ==
    LET d1 == [d EXCEPT !.outcomes[r] =
                    [@ EXCEPT !.status = "closed_final", !.retried = retried]]
    IN  <<d1, AddEvent(d1, Event(<<"final", r, retried>>, r, d.outcomes[r].status))>>

FinalizeTurn(d, r, retried) ==
    LET d1 == [d EXCEPT !.outcomes[r] =
                    [@ EXCEPT !.status = "closed_final", !.retried = retried]]
    IN  <<d1, AddEvent(d1, Event(<<"final", r, retried>>, r, "closed_final"))>>

-----------------------------------------------------------------------------
(* The projection: closed rows with an embedding, and the counts that      *)
(* fingerprint them.  data_version and the mutation counter only grow, so  *)
(* comparing them is asking whether anything moved since.                  *)

Visible(d) ==
    [r \in {r \in d.embedded : Stored(d, r) /\ d.outcomes[r].status # "pending"}
        |-> d.outcomes[r]]

Closed(d) == {r \in DOMAIN d.outcomes : d.outcomes[r].status # "pending"}
Counts(d) == <<Cardinality(d.embedded), Cardinality(Closed(d))>>

NoCache == [known |-> FALSE, rows |-> Visible(Empty), counts |-> <<0, 0>>, moved |-> FALSE]

Moved(x) == [x EXCEPT !.moved = TRUE]

-----------------------------------------------------------------------------
(* Transactions.  On the proxy's connection a commit publishes everything  *)
(* the connection has written; a failure after k statements rolls back.    *)

Begun(images, k) == IF k = 0 THEN tx ELSE images[k]

(* Mutant: a failed handler leaves its statements for the next commit. *)
SafeRollbackKeeps(images, k) == tx' = Begun(images, k) /\ UNCHANGED db

SafeRollback(images, k) == tx' = db /\ UNCHANGED db

Commit(images) == db' = images[Len(images)] /\ tx' = images[Len(images)]

Fail(images) == \E k \in 0..Len(images) : SafeRollback(images, k)

(* A write of another process: all or nothing, and not while the proxy's   *)
(* connection holds the write lock.                                        *)
OtherCommit(images) ==
    /\ tx = db
    /\ db' = images[Len(images)]
    /\ tx' = db'
    /\ cache' = Moved(cache)
    /\ query' = IF query = None THEN None ELSE Moved(query)

-----------------------------------------------------------------------------
(* The proxy: a user turn finalizes the session's previous row, then       *)
(* records its own; the two are separate transactions of one handler.      *)

(* Nothing else of the proxy runs between the two, nor while a query is    *)
(* computed; other processes do.                                           *)
Idle == proxy.planning = None /\ query = None

(* The SELECT of finalize_turn. *)
StartTurn(s) ==
    /\ Idle /\ proxy.minted # Cardinality(Turns)
    /\ UNCHANGED <<db, tx, reads, cache, query>>
    /\ IF ~proxy.open \/ Open(tx, s) = {} THEN proxy' = [proxy EXCEPT !.planning = s]
       ELSE \E r \in LastOpen(tx, s) :
            proxy' = [proxy EXCEPT !.planning = s, !.closing = r]

(* Its UPDATE, which does not ask again whether the row is open. *)
CloseLast(retried) ==
    LET r == proxy.closing IN
    /\ r # None
    /\ proxy' = [proxy EXCEPT !.closing = None]
    /\ UNCHANGED <<reads, query>>
    /\ \/ Commit(FinalizeTurn(tx, r, retried)) /\ cache' = Moved(cache)
       \/ Fail(FinalizeTurn(tx, r, retried)) /\ UNCHANGED cache

(* The active route is set and the turn counted whether or not the row was *)
(* stored.  A private turn has no sha; embedding: whether there is a       *)
(* vector.                                                                 *)
RecordTurn(private, embedding) ==
    LET s        == proxy.planning
        r        == proxy.minted + 1
        decision == [session |-> s, index |-> proxy.turns[s], sha |-> ~private]
        images   == RecordDecision(tx, r, decision, embedding)
    IN  /\ s # None /\ proxy.closing = None /\ private \in Verdicts[r]
        /\ proxy' = [proxy EXCEPT !.planning = None, !.minted = r,
                                  !.active[s] = r, !.turns[s] = @ + 1]
        /\ UNCHANGED <<reads, cache, query>>
        /\ IF ~proxy.open THEN UNCHANGED <<db, tx>> ELSE Commit(images) \/ Fail(images)

(* The end of an answer: the outcome goes to the session's active route, a *)
(* live turn, whose status no other process writes: reading and writing it *)
(* is one step.                                                            *)
Attach(s) ==
    LET r == proxy.active[s] IN
    /\ Idle /\ proxy.open /\ r # None
    /\ Stored(tx, r) /\ MayFollow(tx.outcomes[r].status, "closed_turn")
    /\ tx.outcomes[r].seen < MaxAttach
    /\ UNCHANGED <<reads, proxy, query>>
    /\ \/ Commit(AttachOutcome(tx, r, "closed_turn")) /\ cache' = Moved(cache)
       \/ Fail(AttachOutcome(tx, r, "closed_turn")) /\ UNCHANGED cache

(* A restart loses uncommitted statements, the sessions and the cache; the *)
(* new connection may fail to open, and then stays closed.                 *)
FreshProxy(open, minted) ==
    [open |-> open, planning |-> None, closing |-> None, minted |-> minted,
     active |-> [s \in Sessions |-> None], turns |-> [s \in Sessions |-> 0]]

Restart(open) ==
    /\ proxy' = FreshProxy(open, proxy.minted)
    /\ tx' = db /\ cache' = NoCache /\ query' = None
    /\ UNCHANGED <<db, reads>>

-----------------------------------------------------------------------------
(* Retrieval on the proxy's connection: the fingerprint is read first, the *)
(* rows are fetched only if it differs.                                    *)

(* Mutant: a fingerprint without the mutation counters. *)
StaleCountsOnly(d) == ~cache.known \/ cache.counts # Counts(d)

Stale(d) == ~cache.known \/ cache.counts # Counts(d) \/ cache.moved

StartQuery ==
    /\ Idle /\ proxy.open
    /\ query' = [stale |-> Stale(tx), counts |-> Counts(tx), moved |-> FALSE]
    /\ UNCHANGED <<db, tx, reads, proxy, cache>>

FinishQuery ==
    /\ query # None
    /\ query' = None
    /\ cache' = IF query.stale
                THEN [known |-> TRUE, rows |-> Visible(tx), counts |-> query.counts,
                      moved |-> query.moved]
                ELSE cache
    /\ UNCHANGED <<db, tx, reads, proxy>>

-----------------------------------------------------------------------------
(* The other processes.  A SELECT of one of them, and later a write that   *)
(* rests on any SELECT it made: by then the row may have moved on.  A      *)
(* write leaves reads alone, since several processes may hold the same     *)
(* reading; a process may also go away without using its own.              *)

ReadStatus(r) ==
    /\ Stored(db, r)
    /\ \/ \E j \in Jobs : JobRoute[j] = r /\ ~Replayed(db, j)
       \/ r \in Corpus /\ MayFollow(db.outcomes[r].status, "closed_final")
    /\ \E kept \in SUBSET reads :
        /\ Cardinality(kept) < MaxReads
        /\ reads' = kept \cup {<<r, db.outcomes[r].status>>}
    /\ UNCHANGED <<db, tx, proxy, cache, query>>

(* An event id that arrived since the duplicate check fails the INSERT.    *)
Verify(j, success) ==
    \E current \in DOMAIN Rank :
        /\ <<JobRoute[j], current>> \in reads /\ ~Replayed(db, j)
        /\ OtherCommit(AttachVerification(db, JobRoute[j], j, success, current))
        /\ UNCHANGED <<reads, proxy>>

BackfillDecision(r, private, embedding) ==
    LET decision == [session |-> CorpusTurn[r].session, index |-> CorpusTurn[r].index,
                     sha |-> ~private]
    IN  /\ private \in Verdicts[r]
        /\ OtherCommit(RecordDecision(db, r, decision, embedding))
        /\ UNCHANGED <<reads, proxy>>

BackfillOutcome(r) ==
    \E current \in DOMAIN Rank :
        /\ <<r, current>> \in reads /\ MayFollow(current, "closed_final")
        /\ db.outcomes[r].seen < MaxAttach
        /\ OtherCommit(AttachOutcome(db, r, "closed_final"))
        /\ UNCHANGED <<reads, proxy>>

Init ==
    /\ db = Empty /\ tx = Empty /\ reads = {}
    /\ proxy = FreshProxy(TRUE, 0)
    /\ cache = NoCache /\ query = None

Next ==
    \/ \E s \in Sessions : StartTurn(s)
    \/ \E retried \in BOOLEAN : CloseLast(retried)
    \/ \E s \in Sessions : Attach(s)
    \/ \E private, embedding \in BOOLEAN : RecordTurn(private, embedding)
    \/ \E open \in BOOLEAN : Restart(open)
    \/ StartQuery \/ FinishQuery
    \/ \E r \in Routes : ReadStatus(r)
    \/ \E j \in Jobs, success \in BOOLEAN : Verify(j, success)
    \/ \E r \in Corpus, private, embedding \in BOOLEAN :
            BackfillDecision(r, private, embedding)
    \/ \E r \in Corpus : BackfillOutcome(r)

Spec == Init /\ [][Next]_vars

-----------------------------------------------------------------------------
TypeOK ==
    /\ \A d \in {db, tx} :
        /\ DOMAIN d.decisions \subseteq Routes /\ DOMAIN d.outcomes \subseteq Routes
        /\ \A r \in DOMAIN d.decisions : d.decisions[r] \in DecisionRow
        /\ \A r \in DOMAIN d.outcomes : d.outcomes[r] \in OutcomeRow
        /\ d.embedded \subseteq Routes
    /\ proxy.minted \in 0..Cardinality(Turns)
    /\ reads \subseteq Routes \X DOMAIN Rank
    /\ proxy.planning \in Sessions \cup {None}
    /\ proxy.closing \in Routes \cup {None}
    /\ \A s \in Sessions : proxy.active[s] \in 1..proxy.minted \cup {None}
    /\ \A s \in Sessions : proxy.turns[s] \in 0..proxy.minted

(* A decision, its outcome row and its first event are stored together or  *)
(* not at all, whichever statement of record_decision fails                *)
(* (memory_sqlite.py:351).                                                 *)
Whole ==
    /\ DOMAIN db.decisions = DOMAIN db.outcomes
    /\ DOMAIN db.decisions = {e.route : e \in {e \in db.events : e.id[1] = "pending"}}
    /\ db.embedded \subseteq DOMAIN db.decisions

(* The outcome row is a projection of the immutable events behind it       *)
(* (memory_sqlite.py:10): its status is the furthest of theirs, every      *)
(* attached outcome has its event, and evidence names an event of the row. *)
EventsExplain ==
    \A r \in DOMAIN db.outcomes :
        LET row == db.outcomes[r]
            mine == {e \in db.events : e.route = r}
        IN  /\ \E e \in mine : e.status = row.status
            /\ \A e \in mine : Rank[e.status] <= Rank[row.status]
            /\ row.seen = Cardinality({e \in mine : e.id[1] = "outcome"})
            /\ row.evidence # None => \E e \in mine : e.id = <<"job", row.evidence[1]>>

(* Nothing changes an outcome row without a new event of that row: a       *)
(* replayed event changes nothing (memory_sqlite.py:515).                  *)
EveryChangeAudited ==
    [][/\ db.events \subseteq db'.events
       /\ \A r \in DOMAIN db.outcomes : db'.outcomes[r] # db.outcomes[r] =>
            \E e \in db'.events \ db.events : e.route = r]_vars

(* A cached projection found current is current: no write, of this         *)
(* process or another, is missing from the votes (memory_sqlite.py:631).   *)
FreshVotes == ~Stale(tx) => cache.rows = Visible(tx)

(* The instruction of a private turn leaves no embedding                   *)
(* (memory_sqlite.py:11).  Refuted: a replay of a corpus turn whose secret *)
(* scan no longer objects stores one beside the private decision.          *)
PrivateNeverEmbedded == \A r \in db.embedded : db.decisions[r].sha

(* closed_final is terminal (memory_sqlite.py:423): a final row keeps its  *)
(* telemetry.  Refuted by two writers that found the row open at once.     *)
FinalIsTerminal ==
    [][\A r \in DOMAIN db.outcomes : db.outcomes[r].status = "closed_final" =>
            /\ db'.outcomes[r].seen = db.outcomes[r].seen
            /\ db'.outcomes[r].retried = db.outcomes[r].retried]_vars

(* finalize_turn closes the session's most recent open row                 *)
(* (memory_sqlite.py:580).                                                 *)
ClosesMostRecent ==
    [][\A s \in Sessions : proxy.planning = s /\ CloseLast(TRUE) =>
        \A r \in Open(db, s) \ Open(db', s) : \A q \in Open(db, s) : q <= r]_vars

(* Every row lives the life RowLife promises, under failures, restarts and *)
(* the interleavings of the three writers: a final row changes only under  *)
(* a writer that found it open, for which the row is still in FoundOpen.   *)
FoundOpen ==
    {r \in Corpus : \E current \in DOMAIN Rank :
        <<r, current>> \in reads /\ MayFollow(current, "closed_final")}
    \cup ({proxy.closing} \ {None})

LedgerRows ==
    [decision: DecisionRow, status: DOMAIN Rank, telemetry: (0..MaxAttach) \X BOOLEAN,
     evidence: (Jobs \X BOOLEAN) \cup {None}]

ASSUME NoneAssumption == None \notin LedgerRows

LedgerRow(r) ==
    IF r \notin DOMAIN db.outcomes THEN None
    ELSE [decision |-> db.decisions[r], status |-> db.outcomes[r].status,
          telemetry |-> <<db.outcomes[r].seen, db.outcomes[r].retried>>,
          evidence |-> db.outcomes[r].evidence]

RowMap == [r \in Routes |-> LedgerRow(r)]

Life == INSTANCE RowLife WITH NoRow <- None, row <- RowMap, found <- FoundOpen

ImplementsRowLife == Life!Spec
=============================================================================
