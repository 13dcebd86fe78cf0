------------------------- MODULE RouteLedgerProofs -------------------------
(***************************************************************************)
(* Theorems of RouteLedger for every value of its constants: any sessions, *)
(* turns, corpus, verification events and bound; and of GraphProjection,   *)
(* the graph drawn from the ledger, for any turns, rules and rebuilds.     *)
(*                                                                         *)
(* The ledger: every committed database is Kept, that is, its tables fit   *)
(* together, every event is of a known kind and below its row, and every   *)
(* row is explained by its events.  Each write leads from a Kept database  *)
(* to a Kept one and changes one row (Wrote); the proxy's connection sees  *)
(* nothing else between handlers, since every failure rolls back.  What a  *)
(* writer read of a row stays at or below its status, and no event says    *)
(* that the row the proxy is closing is final (ReadsKept).                 *)
(***************************************************************************)
EXTENDS RouteLedger, GraphProjection, SumTheorems, TLAPS

-----------------------------------------------------------------------------
(* The invariant of one database.                                          *)

Tables(d) ==
    /\ DOMAIN d = {"decisions", "outcomes", "events", "embedded"}
    /\ d.decisions \in [DOMAIN d.decisions -> DecisionRow]
    /\ d.outcomes \in [DOMAIN d.outcomes -> OutcomeRow]
    /\ DOMAIN d.outcomes = DOMAIN d.decisions
    /\ DOMAIN d.outcomes \subseteq Routes
    /\ d.embedded \subseteq DOMAIN d.outcomes

(* An event belongs to a stored row, is not ahead of it, and its id is one *)
(* of the four the handlers build.                                         *)
KindOf(d, e) ==
    \/ e.id = <<"pending", e.route>>
    \/ \E n \in 1..d.outcomes[e.route].seen : e.id = <<"outcome", e.route, n>>
    \/ \E j \in Jobs : e.id = <<"job", j>>
    \/ \E b \in BOOLEAN : e.id = <<"final", e.route, b>> /\ e.status = "closed_final"

EventKept(d, e) ==
    /\ e.route \in DOMAIN d.outcomes
    /\ e.status \in DOMAIN Rank
    /\ Rank[e.status] <= Rank[d.outcomes[e.route].status]
    /\ KindOf(d, e)

EventsKept(d) == IsFiniteSet(d.events) /\ \A e \in d.events : EventKept(d, e)

OutcomesOf(d, r) == {e \in d.events : e.route = r /\ e.id[1] = "outcome"}

RowKept(d, r) ==
    /\ \E e \in d.events : e.id = <<"pending", r>> /\ e.route = r
    /\ \E e \in d.events : e.route = r /\ e.status = d.outcomes[r].status
    /\ d.outcomes[r].seen = Cardinality(OutcomesOf(d, r))
    /\ d.outcomes[r].evidence # None =>
          \E e \in d.events : e.route = r /\ e.id = <<"job", d.outcomes[r].evidence[1]>>

Kept(d) == Tables(d) /\ EventsKept(d) /\ \A r \in DOMAIN d.outcomes : RowKept(d, r)

LEMMA Ranks ==
    /\ DOMAIN Rank = {"pending", "closed_turn", "closed_final"}
    /\ Rank["pending"] = 0 /\ Rank["closed_turn"] = 1 /\ Rank["closed_final"] = 2
BY DEF Rank

-----------------------------------------------------------------------------
(* Three handlers overwrite a stored row and log an event of it under a    *)
(* new id.                                                                 *)

Logged(d, r, row, id, status) ==
    [d EXCEPT !.outcomes[r] = row, !.events = @ \cup {Event(id, r, status)}]

(* Evidence may be logged with a status the row has left since.            *)
Advance(d, r, row, id, status) ==
    LET old == d.outcomes[r] IN
    \/ /\ id = <<"outcome", r, row.seen>> /\ status = row.status
       /\ row.seen = old.seen + 1 /\ row.evidence = old.evidence
    \/ /\ \E j \in Jobs, success \in BOOLEAN :
            id = <<"job", j>> /\ row = [old EXCEPT !.evidence = <<j, success>>]
       /\ row.status = old.status
    \/ /\ \E b \in BOOLEAN : id = <<"final", r, b>>
       /\ row.status = "closed_final" /\ status = "closed_final"
       /\ row.seen = old.seen /\ row.evidence = old.evidence

(* Such a write keeps the database.                                        *)
LEMMA LoggedKeeps ==
    ASSUME NEW d, Kept(d), NEW r \in DOMAIN d.outcomes, NEW row \in OutcomeRow, NEW id,
           NEW status \in DOMAIN Rank,
           Rank[d.outcomes[r].status] <= Rank[row.status], Rank[status] <= Rank[row.status],
           \A e \in d.events : e.id # id,
           Advance(d, r, row, id, status)
    PROVE  Kept(Logged(d, r, row, id, status))
<1> DEFINE c == Logged(d, r, row, id, status)
<1> DEFINE new == Event(id, r, status)
<1>1. /\ c.decisions = d.decisions /\ c.embedded = d.embedded
      /\ c.outcomes = [d.outcomes EXCEPT ![r] = row]
      /\ c.events = d.events \cup {new}
  BY DEF Kept, Tables, Logged
<1>e. DOMAIN c = DOMAIN d
  BY DEF Kept, Tables, Logged
<1>n. new.id = id /\ new.route = r /\ new.status = status
  BY DEF Event
<1> HIDE DEF c, new
<1>2. Tables(c)
  <2>1. c.outcomes \in [DOMAIN d.outcomes -> OutcomeRow] /\ DOMAIN c.outcomes = DOMAIN d.outcomes
    BY <1>1 DEF Kept, Tables
  <2> QED  BY <1>1, <1>e, <2>1 DEF Kept, Tables
<1>3. \A q \in DOMAIN d.outcomes : /\ q \in DOMAIN c.outcomes
                                   /\ c.outcomes[q] = IF q = r THEN row ELSE d.outcomes[q]
  BY <1>1 DEF Kept, Tables
<1>4. /\ d.outcomes[r] \in OutcomeRow /\ d.outcomes[r].seen \in Nat /\ row.seen \in Nat
      /\ d.outcomes[r].seen <= row.seen
      /\ d.outcomes[r].status \in DOMAIN Rank /\ row.status \in DOMAIN Rank
  BY BoundAssumption DEF Kept, Tables, OutcomeRow, Advance
<1>5. EventsKept(c)
  <2>1. IsFiniteSet(c.events)
    BY <1>1, FS_AddElement DEF Kept, EventsKept
  <2>2. ASSUME NEW e \in d.events PROVE EventKept(c, e)
    <3>1. EventKept(d, e)
      BY DEF Kept, EventsKept
    <3>2. d.outcomes[e.route].seen \in Nat /\ c.outcomes[e.route].seen \in Nat
          /\ d.outcomes[e.route].seen <= c.outcomes[e.route].seen
      BY <1>3, <1>4, <3>1, BoundAssumption DEF EventKept, Kept, Tables, OutcomeRow
    <3>3. KindOf(c, e)
      BY <3>1, <3>2 DEF EventKept, KindOf
    <3>4. Rank[e.status] <= Rank[c.outcomes[e.route].status]
      BY <1>3, <1>4, <3>1, Ranks DEF EventKept
    <3> QED  BY <1>3, <3>1, <3>3, <3>4 DEF EventKept
  <2>3. EventKept(c, new)
    <3>1. KindOf(c, new)
      BY <1>3, <1>4, <1>n DEF KindOf, Advance
    <3> QED  BY <1>3, <1>4, <1>n, <3>1, Ranks DEF EventKept
  <2> QED  BY <1>1, <2>1, <2>2, <2>3 DEF EventsKept
<1>6. ASSUME NEW q \in DOMAIN c.outcomes PROVE RowKept(c, q)
  <2>1. q \in DOMAIN d.outcomes /\ RowKept(d, q)
    BY <1>1 DEF Kept, Tables
  <2>2. c.outcomes[q].seen = Cardinality(OutcomesOf(c, q))
    <3>1. IsFiniteSet(OutcomesOf(d, q))
      <4>1. OutcomesOf(d, q) \in SUBSET d.events  BY DEF OutcomesOf
      <4> QED  BY <4>1, FS_Subset DEF Kept, EventsKept
    <3>2. CASE q = r /\ id[1] = "outcome"
      <4>1. OutcomesOf(c, q) = OutcomesOf(d, q) \cup {new}
        BY <1>1, <1>n, <3>2 DEF OutcomesOf
      <4>2. new \notin OutcomesOf(d, q)
        BY <1>n DEF OutcomesOf
      <4>3. row.seen = d.outcomes[r].seen + 1
        BY <3>2 DEF Advance
      <4>4. Cardinality(OutcomesOf(d, q) \cup {new}) = Cardinality(OutcomesOf(d, q)) + 1
        BY <3>1, <4>2, FS_AddElement
      <4> QED  BY <1>3, <2>1, <3>2, <4>1, <4>3, <4>4 DEF RowKept
    <3>3. CASE ~(q = r /\ id[1] = "outcome")
      <4>1. OutcomesOf(c, q) = OutcomesOf(d, q)
        BY <1>1, <1>n, <3>3 DEF OutcomesOf
      <4>2. c.outcomes[q].seen = d.outcomes[q].seen
        BY <1>3, <1>4, <2>1, <3>3 DEF Advance, OutcomeRow
      <4> QED  BY <2>1, <4>1, <4>2 DEF RowKept
    <3> QED  BY <3>2, <3>3
  <2>3. \E e \in c.events : e.route = q /\ e.status = c.outcomes[q].status
    <3>1. CASE q = r /\ status = row.status
      BY <1>1, <1>3, <1>n, <3>1
    <3>2. CASE q # r \/ row.status = d.outcomes[r].status
      BY <1>1, <1>3, <2>1, <3>2 DEF RowKept
    <3> QED  BY <3>1, <3>2 DEF Advance
  <2>4. c.outcomes[q].evidence # None =>
          \E e \in c.events : e.route = q /\ e.id = <<"job", c.outcomes[q].evidence[1]>>
    <3>1. CASE q # r \/ row.evidence = d.outcomes[r].evidence
      <4>1. c.outcomes[q].evidence = d.outcomes[q].evidence
        BY <1>3, <2>1, <3>1
      <4> QED  BY <1>1, <2>1, <4>1 DEF RowKept
    <3>2. CASE q = r /\ row.evidence # d.outcomes[r].evidence
      <4>1. PICK j \in Jobs, success \in BOOLEAN :
              id = <<"job", j>> /\ row = [d.outcomes[r] EXCEPT !.evidence = <<j, success>>]
        BY <3>2 DEF Advance
      <4>2. row.evidence[1] = j
        BY <1>4, <4>1 DEF OutcomeRow
      <4>3. c.outcomes[q].evidence[1] = j
        BY <1>3, <2>1, <3>2, <4>2
      <4>4. new \in c.events /\ new.route = q /\ new.id = <<"job", j>>
        BY <1>1, <1>n, <3>2, <4>1
      <4> QED  BY <4>3, <4>4
    <3> QED  BY <3>1, <3>2
  <2>5. \E e \in c.events : e.id = <<"pending", q>> /\ e.route = q
    BY <1>1, <2>1 DEF RowKept
  <2> QED  BY <2>2, <2>3, <2>4, <2>5 DEF RowKept
<1> QED  BY <1>2, <1>5, <1>6 DEF Kept, c

-----------------------------------------------------------------------------
(* What a write of route r makes of a kept database: it adds events, and   *)
(* changes no row but r, which it records, observes or verifies.           *)

Logs(d, c, r) == \E e \in c.events \ d.events : e.route = r

Observes(d, c, r) ==
    /\ Rank[d.outcomes[r].status] <= Rank[c.outcomes[r].status]
    /\ c.outcomes[r].evidence = d.outcomes[r].evidence
    /\ Logs(d, c, r)

Verifies(d, c, r) ==
    /\ c.outcomes[r] = [d.outcomes[r] EXCEPT !.evidence = c.outcomes[r].evidence]
    /\ Logs(d, c, r)

Wrote(d, c, r) ==
    /\ Kept(c)
    /\ d.events \subseteq c.events
    /\ r \in DOMAIN c.outcomes /\ DOMAIN c.outcomes = DOMAIN d.outcomes \cup {r}
    /\ \A q \in DOMAIN d.outcomes : c.decisions[q] = d.decisions[q]
    /\ \A q \in DOMAIN d.outcomes \ {r} : c.outcomes[q] = d.outcomes[q]
    /\ \/ r \in DOMAIN d.outcomes /\ c.outcomes[r] = d.outcomes[r]
       \/ r \notin DOMAIN d.outcomes /\ c.outcomes[r].status = "pending"
       \/ r \in DOMAIN d.outcomes /\ Observes(d, c, r)
       \/ r \in DOMAIN d.outcomes /\ Verifies(d, c, r)

(* The updates of an outcome row, by column.                              *)
LEMMA RowFinalized ==
    ASSUME NEW x \in OutcomeRow, NEW b \in BOOLEAN,
           NEW y, y = [x EXCEPT !.status = "closed_final", !.retried = b]
    PROVE  /\ y \in OutcomeRow /\ y.status = "closed_final"
           /\ y.seen = x.seen /\ y.evidence = x.evidence
BY Ranks DEF OutcomeRow

LEMMA RowVerified ==
    ASSUME NEW x \in OutcomeRow, NEW j \in Jobs, NEW success \in BOOLEAN,
           NEW y, y = [x EXCEPT !.evidence = <<j, success>>]
    PROVE  y \in OutcomeRow /\ y.status = x.status /\ y.evidence = <<j, success>>
BY DEF OutcomeRow

LEMMA LoggedWrites ==
    ASSUME NEW d, Kept(d), NEW r \in DOMAIN d.outcomes, NEW row \in OutcomeRow, NEW id,
           NEW status \in DOMAIN Rank,
           Rank[d.outcomes[r].status] <= Rank[row.status], Rank[status] <= Rank[row.status],
           \A e \in d.events : e.id # id,
           Advance(d, r, row, id, status)
    PROVE  LET c == Logged(d, r, row, id, status)
           IN  /\ Wrote(d, c, r)
               /\ \A e \in c.events \ d.events : e.id = id
               /\ c.outcomes[r] = row
<1> DEFINE c == Logged(d, r, row, id, status)
<1> DEFINE new == Event(id, r, status)
<1>1. /\ c.decisions = d.decisions /\ c.embedded = d.embedded
      /\ c.outcomes = [d.outcomes EXCEPT ![r] = row]
      /\ c.events = d.events \cup {new}
  BY DEF Kept, Tables, Logged
<1>2. Kept(c)
  BY LoggedKeeps
<1>3. new.id = id /\ new.route = r
  BY DEF Event
<1> HIDE DEF c, new
<1>4. c.outcomes[r] = row /\ \A q \in DOMAIN d.outcomes \ {r} : c.outcomes[q] = d.outcomes[q]
  BY <1>1 DEF Kept, Tables
<1>5. Logs(d, c, r)
  BY <1>1, <1>3 DEF Logs
<1>6. Observes(d, c, r) \/ Verifies(d, c, r)
  <2>1. row.evidence = d.outcomes[r].evidence \/ row = [d.outcomes[r] EXCEPT !.evidence = row.evidence]
    <3>1. d.outcomes[r] \in OutcomeRow
      BY DEF Kept, Tables
    <3>2. ASSUME NEW j \in Jobs, NEW success \in BOOLEAN,
                 row = [d.outcomes[r] EXCEPT !.evidence = <<j, success>>]
          PROVE  row = [d.outcomes[r] EXCEPT !.evidence = row.evidence]
      BY <3>1, <3>2, RowVerified
    <3> QED  BY <3>2 DEF Advance
  <2> QED  BY <1>4, <1>5, <2>1 DEF Observes, Verifies
<1>7. DOMAIN c.outcomes = DOMAIN d.outcomes
  BY <1>1 DEF Kept, Tables
<1>8. Wrote(d, c, r)
  BY <1>1, <1>2, <1>4, <1>6, <1>7 DEF Wrote
<1> QED  BY <1>1, <1>3, <1>4, <1>8 DEF c

After(images) == images[Len(images)]

(* Only the proxy logs that a row was made final.                          *)
NoFinal(d, c) == \A e \in c.events \ d.events : e.id[1] # "final"
Unfinalized(d, r) == \A e \in d.events : e.route = r => e.id[1] # "final"

(* An attached outcome is a write of its route.                            *)
LEMMA AttachWrites ==
    ASSUME NEW d, Kept(d), NEW r \in DOMAIN d.outcomes, NEW status \in DOMAIN Rank,
           Rank[d.outcomes[r].status] <= Rank[status], d.outcomes[r].seen < MaxAttach
    PROVE  LET c == After(AttachOutcome(d, r, status))
           IN  Wrote(d, c, r) /\ NoFinal(d, c)
<1> DEFINE old == d.outcomes[r]
<1> DEFINE row == [old EXCEPT !.status = status, !.seen = old.seen + 1, !.retried = FALSE]
<1> DEFINE id  == <<"outcome", r, old.seen + 1>>
<1>1. old \in OutcomeRow /\ old.seen \in Nat
  BY BoundAssumption DEF Kept, Tables, OutcomeRow
<1>2. /\ row \in OutcomeRow /\ row.status = status /\ row.seen = old.seen + 1
      /\ row.evidence = old.evidence
  <2>1. old.seen + 1 \in 0..MaxAttach
    BY <1>1, BoundAssumption
  <2> DEFINE n == old.seen + 1
  <2>2. row = [old EXCEPT !.status = status, !.seen = n, !.retried = FALSE] /\ n \in 0..MaxAttach
    BY <2>1
  <2>3. row \in OutcomeRow /\ row.status = status /\ row.seen = n /\ row.evidence = old.evidence
    <3> HIDE DEF old, n, row
    <3> QED  BY <1>1, <2>2 DEF OutcomeRow
  <2> QED  BY <2>3
<1>3. ASSUME NEW e \in d.events PROVE e.id # id
  <2>1. EventKept(d, e)
    BY DEF Kept, EventsKept
  <2>2. SUFFICES ASSUME e.id = id PROVE FALSE
    OBVIOUS
  <2>3. e.id[1] = "outcome" /\ e.id[2] = r /\ e.id[3] = old.seen + 1
    BY <2>2
  <2>4. PICK n \in 1..d.outcomes[e.route].seen : e.id = <<"outcome", e.route, n>>
    BY <2>1, <2>3 DEF EventKept, KindOf
  <2>5. e.route = r /\ n = old.seen + 1
    BY <2>3, <2>4
  <2> QED  BY <1>1, <2>5
<1>4. Advance(d, r, row, id, status)
  BY <1>2 DEF Advance
<1>5. After(AttachOutcome(d, r, status)) = Logged(d, r, row, id, status)
  <2>1. \A e \in d.events : e.id # id
    BY <1>3
  <2> QED  BY <1>1, <1>2, <2>1 DEF AttachOutcome, After, AddEvent, Event, Logged, Kept, Tables
<1>6. id[1] # "final"
  OBVIOUS
<1>7. Rank[status] <= Rank[status]
  BY Ranks
<1> HIDE DEF row, id
<1> QED  BY <1>1, <1>2, <1>3, <1>4, <1>5, <1>6, <1>7, LoggedWrites DEF NoFinal

(* A row is finalized once: that is a write of its route, whatever its     *)
(* status has become.                                                      *)
LEMMA FinalizeWrites ==
    ASSUME NEW d, Kept(d), NEW r \in DOMAIN d.outcomes, NEW retried \in BOOLEAN,
           Unfinalized(d, r)
    PROVE  Wrote(d, After(FinalizeTurn(d, r, retried)), r)
<1> DEFINE old == d.outcomes[r]
<1> DEFINE row == [old EXCEPT !.status = "closed_final", !.retried = retried]
<1> DEFINE id  == <<"final", r, retried>>
<1>1. old \in OutcomeRow /\ old.status \in DOMAIN Rank
  BY DEF Kept, Tables, OutcomeRow
<1>2. /\ row \in OutcomeRow /\ row.status = "closed_final" /\ row.seen = old.seen
      /\ row.evidence = old.evidence
  <2> HIDE DEF old
  <2> QED  BY <1>1, RowFinalized
<1>3. ASSUME NEW e \in d.events PROVE e.id # id
  <2>1. EventKept(d, e)
    BY DEF Kept, EventsKept
  <2>2. SUFFICES ASSUME e.id = id PROVE FALSE
    OBVIOUS
  <2>3. e.id[1] = "final" /\ e.id[2] = r
    BY <2>2
  <2>4. PICK b \in BOOLEAN : e.id = <<"final", e.route, b>> /\ e.status = "closed_final"
    BY <2>1, <2>3 DEF EventKept, KindOf
  <2>5. e.route = r
    BY <2>3, <2>4
  <2> QED  BY <2>3, <2>5 DEF Unfinalized
<1>4. Advance(d, r, row, id, "closed_final")
  BY <1>2 DEF Advance
<1>5. After(FinalizeTurn(d, r, retried)) = Logged(d, r, row, id, "closed_final")
  <2>1. \A e \in d.events : e.id # id
    BY <1>3
  <2> QED  BY <1>1, <1>2, <2>1 DEF FinalizeTurn, After, AddEvent, Event, Logged, Kept, Tables
<1>6. /\ Rank[old.status] <= Rank[row.status] /\ "closed_final" \in DOMAIN Rank
      /\ Rank["closed_final"] <= Rank[row.status]
  BY <1>1, <1>2, Ranks
<1> HIDE DEF row, id
<1> QED  BY <1>1, <1>2, <1>3, <1>4, <1>5, <1>6, LoggedWrites

(* Evidence of a verification event not seen before is a write of its      *)
(* route.                                                                  *)
LEMMA VerifyWrites ==
    ASSUME NEW d, Kept(d), NEW r \in DOMAIN d.outcomes, NEW j \in Jobs,
           NEW success \in BOOLEAN, ~Replayed(d, j),
           NEW current \in DOMAIN Rank, Rank[current] <= Rank[d.outcomes[r].status]
    PROVE  LET c == After(AttachVerification(d, r, j, success, current))
           IN  Wrote(d, c, r) /\ NoFinal(d, c) /\ Verifies(d, c, r)
<1> DEFINE old == d.outcomes[r]
<1> DEFINE row == [old EXCEPT !.evidence = <<j, success>>]
<1> DEFINE id  == <<"job", j>>
<1>1. old \in OutcomeRow
  BY DEF Kept, Tables
<1>2. row \in OutcomeRow /\ row.status = old.status /\ row.evidence = <<j, success>>
  <2> HIDE DEF old
  <2> QED  BY <1>1, RowVerified
<1>3. \A e \in d.events : e.id # id
  BY DEF Replayed
<1>4. Advance(d, r, row, id, current)
  BY <1>2 DEF Advance
<1>5. After(AttachVerification(d, r, j, success, current)) = Logged(d, r, row, id, current)
  BY <1>1, <1>2, <1>3 DEF AttachVerification, After, AddEvent, Event, Logged, Kept, Tables
<1>6. /\ Rank[old.status] <= Rank[row.status] /\ row = [old EXCEPT !.evidence = row.evidence]
      /\ Rank[current] <= Rank[row.status]
  <2>1. old.status \in DOMAIN Rank
    BY <1>1 DEF OutcomeRow
  <2> QED  BY <1>2, <2>1, Ranks
<1>7. id[1] # "final"
  OBVIOUS
<1> DEFINE c == Logged(d, r, row, id, current)
<1>8. Event(id, r, current) \in c.events \ d.events /\ Event(id, r, current).route = r
  BY <1>3 DEF Logged, Event, Kept, Tables
<1> HIDE DEF row, id
<1>9. /\ Wrote(d, c, r) /\ c.outcomes[r] = row
      /\ \A e \in c.events \ d.events : e.id = id
  BY <1>1, <1>2, <1>3, <1>4, <1>6, LoggedWrites
<1>10. Verifies(d, c, r)
  <2> HIDE DEF c
  <2> QED  BY <1>6, <1>8, <1>9 DEF Verifies, Logs
<1> QED  BY <1>5, <1>7, <1>9, <1>10 DEF NoFinal

(* A recorded decision is a write of its route, also when it is replayed.  *)
LEMMA RecordWrites ==
    ASSUME NEW d, Kept(d), NEW r \in Routes, NEW decision \in DecisionRow,
           NEW embedding \in BOOLEAN
    PROVE  LET c == After(RecordDecision(d, r, decision, embedding))
           IN  /\ Wrote(d, c, r) /\ NoFinal(d, c)
               /\ c.embedded \in {d.embedded, d.embedded \cup {r}}
               /\ r \in DOMAIN d.outcomes => c.outcomes[r] = d.outcomes[r]
<1> DEFINE c == After(RecordDecision(d, r, decision, embedding))
<1> DEFINE new == Event(<<"pending", r>>, r, "pending")
<1>1. /\ c.decisions = PutNew(d.decisions, r, decision)
      /\ c.outcomes = PutNew(d.outcomes, r, NewOutcome)
      /\ c.events = IF \E x \in d.events : x.id = <<"pending", r>> THEN d.events
                    ELSE d.events \cup {new}
      /\ c.embedded \in {d.embedded, d.embedded \cup {r}}
      /\ DOMAIN c = DOMAIN d
  <2> DEFINE d1 == [d  EXCEPT !.decisions = PutNew(@, r, decision)]
  <2> DEFINE d2 == [d1 EXCEPT !.outcomes = PutNew(@, r, NewOutcome)]
  <2> DEFINE d3 == AddEvent(d2, new)
  <2> DEFINE d4 == [d3 EXCEPT !.embedded = @ \cup {r}]
  <2>1. c = IF decision.sha /\ embedding THEN d4 ELSE d3
    <3>1. CASE decision.sha /\ embedding
      <4>1. RecordDecision(d, r, decision, embedding) = <<d1, d2, d3, d4>>
        BY <3>1 DEF RecordDecision
      <4> HIDE DEF d1, d2, d3, d4
      <4>2. After(<<d1, d2, d3, d4>>) = d4
        BY DEF After
      <4>3. c = d4
        BY <4>1, <4>2
      <4> QED  BY <3>1, <4>3
    <3>2. CASE ~(decision.sha /\ embedding)
      <4>1. RecordDecision(d, r, decision, embedding) = <<d1, d2, d3>>
        BY <3>2 DEF RecordDecision
      <4> HIDE DEF d1, d2, d3, d4
      <4> QED  BY <3>2, <4>1 DEF After
    <3> QED  BY <3>1, <3>2
  <2>2. /\ d3.decisions = PutNew(d.decisions, r, decision)
        /\ d3.outcomes = PutNew(d.outcomes, r, NewOutcome)
        /\ d3.events = IF \E x \in d.events : x.id = <<"pending", r>> THEN d.events
                       ELSE d.events \cup {new}
        /\ d3.embedded = d.embedded /\ DOMAIN d3 = DOMAIN d
    BY DEF Kept, Tables, AddEvent, Event
  <2> HIDE DEF d3, c, new
  <2> QED  BY <2>1, <2>2 DEF Kept, Tables
<1>2. new.id = <<"pending", r>> /\ new.route = r /\ new.status = "pending"
  BY DEF Event
<1>3. NewOutcome \in OutcomeRow /\ NewOutcome.status = "pending" /\ NewOutcome.seen = 0
      /\ NewOutcome.evidence = None
  BY BoundAssumption, Ranks DEF NewOutcome, OutcomeRow
<1> HIDE DEF c, new
<1>4. CASE r \in DOMAIN d.outcomes
  <2>1. c.decisions = d.decisions /\ c.outcomes = d.outcomes /\ c.events = d.events
    BY <1>1, <1>4 DEF PutNew, Kept, Tables, RowKept
  <2>2. Kept(c)
    <3>1. Tables(c)
      BY <1>1, <1>4, <2>1 DEF Kept, Tables
    <3>2. EventsKept(c)
      BY <2>1 DEF Kept, EventsKept, EventKept, KindOf
    <3>3. \A q \in DOMAIN c.outcomes : RowKept(c, q)
      BY <2>1 DEF Kept, RowKept, OutcomesOf
    <3> QED  BY <3>1, <3>2, <3>3 DEF Kept
  <2> QED  BY <1>1, <1>4, <2>1, <2>2 DEF Wrote, NoFinal, c
<1>5. CASE r \notin DOMAIN d.outcomes
  <2>1. /\ DOMAIN c.outcomes = DOMAIN d.outcomes \cup {r}
        /\ DOMAIN c.decisions = DOMAIN d.decisions \cup {r}
        /\ c.outcomes[r] = NewOutcome /\ c.decisions[r] = decision
        /\ \A q \in DOMAIN d.outcomes : /\ c.outcomes[q] = d.outcomes[q]
                                        /\ c.decisions[q] = d.decisions[q]
    BY <1>1, <1>5 DEF PutNew, Put, Kept, Tables
  <2>2. /\ c.outcomes \in [DOMAIN c.outcomes -> OutcomeRow]
        /\ c.decisions \in [DOMAIN c.decisions -> DecisionRow]
    BY <1>1, <1>3, <1>5, <2>1 DEF PutNew, Put, Kept, Tables
  <2>3. c.events = d.events \cup {new}
    <3>1. ASSUME NEW x \in d.events PROVE x.id # <<"pending", r>>
      <4>1. SUFFICES ASSUME x.id = <<"pending", r>> PROVE FALSE
        OBVIOUS
      <4>2. x.id[1] = "pending" /\ x.id[2] = r
        BY <4>1
      <4>3. x.id = <<"pending", x.route>>
        BY <4>2 DEF Kept, EventsKept, EventKept, KindOf
      <4>4. x.route = r
        BY <4>2, <4>3
      <4> QED  BY <1>5, <4>4 DEF Kept, EventsKept, EventKept
    <3> QED  BY <1>1, <3>1
  <2>4. Tables(c)
    BY <1>1, <2>1, <2>2 DEF Kept, Tables
  <2>5. EventsKept(c)
    <3>1. IsFiniteSet(c.events)
      BY <2>3, FS_AddElement DEF Kept, EventsKept
    <3>2. ASSUME NEW e \in d.events PROVE EventKept(c, e)
      BY <2>1 DEF Kept, EventsKept, EventKept, KindOf
    <3>3. EventKept(c, new)
      BY <1>2, <1>3, <2>1, Ranks DEF EventKept, KindOf
    <3> QED  BY <2>3, <3>1, <3>2, <3>3 DEF EventsKept
  <2>6. ASSUME NEW q \in DOMAIN d.outcomes PROVE RowKept(c, q)
    <3>1. OutcomesOf(c, q) = OutcomesOf(d, q)
      BY <1>2, <1>5, <2>3 DEF OutcomesOf
    <3>2. RowKept(d, q) /\ c.outcomes[q] = d.outcomes[q] /\ d.events \subseteq c.events
      BY <2>1, <2>3 DEF Kept
    <3> QED  BY <3>1, <3>2 DEF RowKept
  <2>7. RowKept(c, r)
    <3>1. OutcomesOf(c, r) = {}
      BY <1>2, <1>5, <2>3 DEF OutcomesOf, Kept, EventsKept, EventKept
    <3>2. Cardinality(OutcomesOf(c, r)) = 0
      BY <3>1, FS_EmptySet
    <3> QED  BY <1>2, <1>3, <2>1, <2>3, <3>2 DEF RowKept
  <2>8. Kept(c)
    BY <2>1, <2>4, <2>5, <2>6, <2>7 DEF Kept
  <2>9. NoFinal(d, c)
    <3>1. new.id[1] = "pending"
      BY <1>2
    <3> QED  BY <2>3, <3>1 DEF NoFinal
  <2> QED  BY <1>1, <1>3, <1>5, <2>1, <2>3, <2>8, <2>9 DEF Wrote, c
<1> QED  BY <1>4, <1>5

-----------------------------------------------------------------------------
(* The invariant of the system, and what a step does to the database.      *)

ProxyKept ==
    /\ DOMAIN proxy = {"open", "planning", "closing", "minted", "active", "turns"}
    /\ proxy.planning \in Sessions \cup {None}
    /\ proxy.closing \in Routes \cup {None}
    /\ proxy.minted \in 0..Cardinality(Turns)
    /\ proxy.active \in [Sessions -> Nat \cup {None}]
    /\ proxy.turns \in [Sessions -> Nat]
    /\ proxy.planning # None => proxy.minted # Cardinality(Turns)
    /\ \A s \in Sessions : proxy.active[s] \in 1..proxy.minted \cup {None}
    /\ \A s \in Sessions : proxy.turns[s] <= proxy.minted

(* A row of a live turn was minted.                                        *)
RowsMinted == \A r \in DOMAIN db.outcomes \ Corpus : r <= proxy.minted

CacheKept ==
    /\ DOMAIN cache = {"known", "rows", "counts", "moved"}
    /\ cache.known \in BOOLEAN /\ cache.moved \in BOOLEAN
    /\ query # None => DOMAIN query = {"stale", "counts", "moved"}
                        /\ query.moved \in BOOLEAN
    /\ cache.known /\ ~cache.moved => cache.rows = Visible(db)

(* What a writer read of a row is not ahead of it, and no event says yet   *)
(* that the row the proxy is closing is final.                             *)
ReadsKept ==
    /\ reads \subseteq Routes \X DOMAIN Rank
    /\ \A x \in reads : /\ x[1] \in DOMAIN db.outcomes
                        /\ Rank[x[2]] <= Rank[db.outcomes[x[1]].status]
    /\ proxy.closing # None => /\ proxy.closing \in DOMAIN db.outcomes
                                /\ Unfinalized(db, proxy.closing)

LedgerInv ==
    tx = db /\ Kept(db) /\ ProxyKept /\ RowsMinted /\ CacheKept /\ ReadsKept

(* A step reads, or writes one row; it writes a final row, beyond its      *)
(* evidence, only if a writer found the row open.                          *)
Step ==
    \/ UNCHANGED db /\ \A r \in FoundOpen' \ FoundOpen :
            r \in DOMAIN db.outcomes /\ db.outcomes[r].status # "closed_final"
    \/ \E r \in Routes :
        /\ Wrote(db, db', r) /\ FoundOpen' \subseteq FoundOpen
        /\ r \in DOMAIN db.outcomes /\ db.outcomes[r].status = "closed_final" =>
              r \in FoundOpen \/ Verifies(db, db', r) \/ db'.outcomes[r] = db.outcomes[r]

LEMMA Numbers ==
    /\ Cardinality(Turns) \in Nat /\ Turns = 1..Cardinality(Turns)
    /\ Routes \subseteq Nat /\ Turns \cap Corpus = {} /\ Turns \subseteq Routes
    /\ Corpus \subseteq Routes
BY TurnsAssumption, RoutesAssumption, FS_CardinalityType DEF Routes

(* A write the cache is told of may change what is visible.                *)
LEMMA Published ==
    ASSUME CacheKept, cache' = Moved(cache),
           query' = query \/ query' = IF query = None THEN None ELSE Moved(query)
    PROVE  CacheKept'
BY DEF CacheKept, Moved

(* A write the cache is not told of may not.                               *)
LEMMA Unseen ==
    ASSUME CacheKept, UNCHANGED <<cache, query>>, Visible(db') = Visible(db)
    PROVE  CacheKept'
BY DEF CacheKept

(* A write of one row, seen by the readings of all.                        *)
LEMMA WroteRanks ==
    ASSUME NEW d, Kept(d), NEW c, NEW r, Wrote(d, c, r), NEW q \in DOMAIN d.outcomes
    PROVE  /\ q \in DOMAIN c.outcomes
           /\ Rank[d.outcomes[q].status] <= Rank[c.outcomes[q].status]
<1>1. d.outcomes[q] \in OutcomeRow /\ d.outcomes[q].status \in DOMAIN Rank
  BY DEF Kept, Tables, OutcomeRow
<1>2. ASSUME Verifies(d, c, q) PROVE c.outcomes[q].status = d.outcomes[q].status
  BY <1>1, <1>2 DEF Verifies, OutcomeRow
<1> QED  BY <1>1, <1>2, Ranks DEF Wrote, Observes

LEMMA WroteReads ==
    ASSUME LedgerInv, NEW r, Wrote(db, db', r), UNCHANGED reads,
           \/ proxy'.closing = None
           \/ proxy'.closing = proxy.closing /\ NoFinal(db, db')
    PROVE  ReadsKept'
<1>1. ASSUME NEW x \in reads
      PROVE  x[1] \in DOMAIN db'.outcomes /\ Rank[x[2]] <= Rank[db'.outcomes[x[1]].status]
  <2>1. /\ x[1] \in DOMAIN db.outcomes /\ x[2] \in DOMAIN Rank
        /\ Rank[x[2]] <= Rank[db.outcomes[x[1]].status]
    BY DEF LedgerInv, ReadsKept
  <2>2. /\ x[1] \in DOMAIN db'.outcomes
        /\ Rank[db.outcomes[x[1]].status] <= Rank[db'.outcomes[x[1]].status]
    BY <2>1, WroteRanks DEF LedgerInv
  <2>3. db.outcomes[x[1]].status \in DOMAIN Rank /\ db'.outcomes[x[1]].status \in DOMAIN Rank
    BY <2>1, <2>2 DEF Wrote, LedgerInv, Kept, Tables, OutcomeRow
  <2> QED  BY <2>1, <2>2, <2>3, Ranks
<1>2. ASSUME proxy'.closing # None
      PROVE  proxy'.closing \in DOMAIN db'.outcomes /\ Unfinalized(db', proxy'.closing)
  BY <1>2 DEF LedgerInv, ReadsKept, Wrote, NoFinal, Unfinalized
<1> QED  BY <1>1, <1>2 DEF LedgerInv, ReadsKept

LEMMA SameFound ==
    ASSUME UNCHANGED reads, proxy'.closing = proxy.closing \/ proxy'.closing = None
    PROVE  FoundOpen' \subseteq FoundOpen
BY DEF FoundOpen

(* Nothing of the database changes.                                        *)
LEMMA Quiet ==
    ASSUME LedgerInv, UNCHANGED <<db, tx, reads>>, ProxyKept', CacheKept',
           proxy'.minted = proxy.minted \/ proxy'.minted = proxy.minted + 1,
           proxy'.closing = proxy.closing \/ proxy'.closing = None
    PROVE  LedgerInv' /\ Step
<1>1. RowsMinted'
  <2> SUFFICES ASSUME NEW r \in DOMAIN db.outcomes \ Corpus PROVE r <= proxy'.minted
    BY DEF RowsMinted
  <2>1. r \in Nat
    BY Numbers DEF LedgerInv, Kept, Tables
  <2>2. proxy.minted \in Nat
    BY Numbers DEF LedgerInv, ProxyKept
  <2>3. r <= proxy.minted
    BY DEF LedgerInv, RowsMinted
  <2> QED  BY <2>1, <2>2, <2>3
<1>2. ReadsKept'
  BY DEF LedgerInv, ReadsKept
<1> QED  BY <1>1, <1>2, SameFound DEF LedgerInv, Step

LEMMA StartKeeps ==
    ASSUME LedgerInv, NEW s \in Sessions, StartTurn(s)
    PROVE  LedgerInv' /\ Step
<1>1. UNCHANGED <<db, tx, reads, cache, query>>
  BY DEF StartTurn
<1>2. CacheKept'
  BY <1>1, Unseen DEF LedgerInv
<1>3. CASE proxy' = [proxy EXCEPT !.planning = s]
  <2>1. ProxyKept' /\ proxy'.closing = proxy.closing /\ proxy'.minted = proxy.minted
    BY <1>3 DEF LedgerInv, ProxyKept, StartTurn
  <2> QED  BY <1>1, <1>2, <2>1, Quiet
<1>4. ASSUME NEW r \in LastOpen(tx, s), proxy' = [proxy EXCEPT !.planning = s, !.closing = r]
      PROVE  LedgerInv' /\ Step
  <2>1. /\ r \in DOMAIN db.outcomes /\ r \in Routes
        /\ db.outcomes[r].status \in {"pending", "closed_turn"}
    BY <1>4 DEF LastOpen, Open, LedgerInv, Kept, Tables
  <2>2. ProxyKept' /\ proxy'.closing = r /\ proxy'.minted = proxy.minted
    BY <1>4, <2>1 DEF LedgerInv, ProxyKept, StartTurn
  <2>3. Unfinalized(db, r)
    <3> SUFFICES ASSUME NEW e \in db.events, e.route = r, e.id[1] = "final" PROVE FALSE
      BY DEF Unfinalized
    <3>1. EventKept(db, e)
      BY DEF LedgerInv, Kept, EventsKept
    <3>2. e.status = "closed_final"
      BY <3>1 DEF EventKept, KindOf
    <3> QED  BY <2>1, <3>1, <3>2, Ranks DEF EventKept
  <2>4. ReadsKept'
    BY <1>1, <2>1, <2>2, <2>3 DEF LedgerInv, ReadsKept
  <2>5. RowsMinted'
    BY <1>1, <2>2 DEF LedgerInv, RowsMinted
  <2>6. FoundOpen' \ FoundOpen \subseteq {r}
    BY <1>1, <2>2 DEF FoundOpen
  <2> QED  BY <1>1, <1>2, <2>1, <2>2, <2>4, <2>5, <2>6 DEF LedgerInv, Step
<1> QED  BY <1>3, <1>4 DEF StartTurn

LEMMA CloseKeeps ==
    ASSUME LedgerInv, NEW retried \in BOOLEAN, CloseLast(retried)
    PROVE  LedgerInv' /\ Step
<1> DEFINE r == proxy.closing
<1>1. /\ r # None /\ r \in Routes /\ r \in DOMAIN db.outcomes /\ Unfinalized(db, r)
      /\ proxy' = [proxy EXCEPT !.closing = None] /\ UNCHANGED <<reads, query>>
  BY DEF CloseLast, LedgerInv, ReadsKept, ProxyKept
<1>2. ProxyKept' /\ proxy'.closing = None /\ proxy'.minted = proxy.minted
  BY <1>1 DEF LedgerInv, ProxyKept
<1>3. ASSUME Commit(FinalizeTurn(tx, r, retried)), cache' = Moved(cache)
      PROVE  LedgerInv' /\ Step
  <2>1. db' = After(FinalizeTurn(db, r, retried)) /\ tx' = db'
    BY <1>3 DEF LedgerInv, Commit, After
  <2>2. r \in FoundOpen
    BY <1>1 DEF FoundOpen
  <2> HIDE DEF r
  <2>3. Wrote(db, db', r)
    BY <1>1, <2>1, FinalizeWrites DEF LedgerInv
  <2>4. RowsMinted'
    BY <1>1, <1>2, <2>3 DEF Wrote, LedgerInv, RowsMinted
  <2>5. CacheKept'
    BY <1>1, <1>3, Published DEF LedgerInv
  <2>6. ReadsKept'
    BY <1>1, <1>2, <2>3, WroteReads
  <2>7. FoundOpen' \subseteq FoundOpen
    BY <1>1, <1>2, SameFound
  <2> QED  BY <1>1, <1>2, <2>1, <2>2, <2>3, <2>4, <2>5, <2>6, <2>7 DEF LedgerInv, Wrote, Step
<1>4. ASSUME Fail(FinalizeTurn(tx, r, retried)), UNCHANGED cache PROVE LedgerInv' /\ Step
  <2>1. UNCHANGED <<db, tx, reads, cache, query>>
    BY <1>1, <1>4 DEF LedgerInv, Fail, SafeRollback
  <2>2. CacheKept'
    BY <2>1, Unseen DEF LedgerInv
  <2> QED  BY <1>2, <2>1, <2>2, Quiet
<1> QED  BY <1>3, <1>4 DEF CloseLast

LEMMA RecordKeeps ==
    ASSUME LedgerInv, NEW private \in BOOLEAN, NEW embedding \in BOOLEAN,
           RecordTurn(private, embedding)
    PROVE  LedgerInv' /\ Step
<1> DEFINE s == proxy.planning
<1> DEFINE r == proxy.minted + 1
<1> DEFINE decision == [session |-> s, index |-> proxy.turns[s], sha |-> ~private]
<1>1. /\ s \in Sessions /\ r \in Routes /\ r \notin Corpus /\ decision \in DecisionRow
      /\ r \in 0..Cardinality(Turns) /\ r \notin DOMAIN db.outcomes
  BY Numbers DEF LedgerInv, ProxyKept, RowsMinted, RecordTurn, DecisionRow
<1>2. /\ proxy' = [proxy EXCEPT !.planning = None, !.minted = r,
                              !.active[s] = r, !.turns[s] = @ + 1]
      /\ UNCHANGED <<reads, cache, query>> /\ proxy.closing = None
  BY DEF RecordTurn
<1>3. ProxyKept'
  <2> HIDE DEF s, r
  <2>1. proxy'.active = [proxy.active EXCEPT ![s] = r]
        /\ proxy'.turns = [proxy.turns EXCEPT ![s] = @ + 1]
        /\ proxy'.minted = r /\ proxy'.planning = None /\ proxy'.open = proxy.open
        /\ proxy'.closing = None
    BY <1>2 DEF LedgerInv, ProxyKept
  <2>2. proxy.minted \in Nat /\ r = proxy.minted + 1 /\ r \in Nat
    BY Numbers DEF LedgerInv, ProxyKept, r
  <2>3. ASSUME NEW q \in Sessions
        PROVE  /\ proxy'.active[q] \in 1..r \cup {None} /\ proxy'.active[q] \in Nat \cup {None}
               /\ proxy'.turns[q] \in Nat /\ proxy'.turns[q] <= r
    <3>1. CASE q = s
      BY <1>1, <2>1, <2>2, <3>1 DEF LedgerInv, ProxyKept
    <3>2. CASE q # s
      BY <1>1, <2>1, <2>2, <3>2 DEF LedgerInv, ProxyKept
    <3> QED  BY <3>1, <3>2
  <2>4. /\ proxy'.active \in [Sessions -> Nat \cup {None}]
        /\ proxy'.turns \in [Sessions -> Nat]
    BY <2>1, <2>2, <2>3 DEF LedgerInv, ProxyKept
  <2>5. DOMAIN proxy' = DOMAIN proxy /\ proxy'.minted \in 0..Cardinality(Turns)
    BY <1>1, <1>2, <2>1
  <2> QED  BY <2>1, <2>3, <2>4, <2>5 DEF LedgerInv, ProxyKept
<1>c. proxy'.closing = None /\ proxy'.minted = r
  BY <1>2 DEF LedgerInv, ProxyKept
<1>4. CASE UNCHANGED <<db, tx>>
  <2>1. CacheKept'
    BY <1>2, <1>4, Unseen DEF LedgerInv
  <2> QED  BY <1>2, <1>3, <1>4, <1>c, <2>1, Quiet
<1>5. CASE Commit(RecordDecision(tx, r, decision, embedding))
  <2>1. db' = After(RecordDecision(db, r, decision, embedding)) /\ tx' = db'
    BY <1>5 DEF LedgerInv, Commit, After
  <2>2. /\ Wrote(db, db', r) /\ NoFinal(db, db')
        /\ db'.embedded \in {db.embedded, db.embedded \cup {r}}
    <3> HIDE DEF r, decision
    <3> QED  BY <1>1, <2>1, RecordWrites DEF LedgerInv
  <2>4. RowsMinted'
    BY <1>1, <1>2, <2>2, Numbers DEF Wrote, LedgerInv, RowsMinted, ProxyKept, Kept, Tables
  <2>5. Visible(db') = Visible(db)
    <3>1. db'.outcomes[r].status = "pending"
      BY <1>1, <2>2 DEF Wrote
    <3> HIDE DEF r
    <3>2. \A q : Stored(db', q) <=> q = r \/ Stored(db, q)
      BY <2>2 DEF Wrote, Stored
    <3>3. \A q \in DOMAIN db.outcomes : db'.outcomes[q] = db.outcomes[q]
      BY <1>1, <2>2 DEF Wrote
    <3>4. \A q : q \in db'.embedded /\ q # r <=> q \in db.embedded
      BY <1>1, <2>2 DEF Wrote, LedgerInv, Kept, Tables
    <3> QED  BY <1>1, <3>1, <3>2, <3>3, <3>4 DEF Visible, Stored
  <2>6. CacheKept'
    BY <1>2, <2>5, Unseen DEF LedgerInv
  <2>7. ReadsKept'
    BY <1>2, <1>c, <2>2, WroteReads
  <2>8. FoundOpen' \subseteq FoundOpen
    BY <1>2, <1>c, SameFound
  <2> QED  BY <1>1, <1>3, <2>1, <2>2, <2>4, <2>6, <2>7, <2>8 DEF LedgerInv, Wrote, Step
<1>6. Fail(RecordDecision(tx, r, decision, embedding)) => UNCHANGED <<db, tx>>
  BY DEF LedgerInv, Fail, SafeRollback
<1> QED  BY <1>4, <1>5, <1>6 DEF RecordTurn

LEMMA AttachKeeps ==
    ASSUME LedgerInv, NEW s \in Sessions, Attach(s)
    PROVE  LedgerInv' /\ Step
<1> DEFINE r == proxy.active[s]
<1>1. ProxyKept' /\ UNCHANGED <<reads, proxy, query>>
  BY DEF LedgerInv, ProxyKept, Attach
<1>2. ASSUME Commit(AttachOutcome(tx, r, "closed_turn")), cache' = Moved(cache)
      PROVE  LedgerInv' /\ Step
  <2>1. db' = After(AttachOutcome(db, r, "closed_turn")) /\ tx' = db'
    BY <1>2 DEF LedgerInv, Commit, After
  <2>2. /\ r \in DOMAIN db.outcomes /\ MayFollow(db.outcomes[r].status, "closed_turn")
        /\ db.outcomes[r].seen < MaxAttach /\ r \in Routes
    BY DEF Attach, Stored, LedgerInv, Kept, Tables
  <2> HIDE DEF r
  <2>3. Wrote(db, db', r) /\ NoFinal(db, db')
    BY <2>1, <2>2, AttachWrites, Ranks DEF LedgerInv, MayFollow
  <2>4. RowsMinted'
    BY <1>1, <2>2, <2>3 DEF Wrote, LedgerInv, RowsMinted
  <2>5. CacheKept'
    BY <1>1, <1>2, Published DEF LedgerInv
  <2>6. ReadsKept' /\ FoundOpen' \subseteq FoundOpen
    BY <1>1, <2>3, WroteReads, SameFound
  <2> QED  BY <1>1, <2>1, <2>2, <2>3, <2>4, <2>5, <2>6 DEF LedgerInv, Wrote, Step, MayFollow
<1>3. ASSUME Fail(AttachOutcome(tx, r, "closed_turn")), UNCHANGED cache
      PROVE  LedgerInv' /\ Step
  <2>1. UNCHANGED <<db, tx, reads, cache, query, proxy>>
    BY <1>1, <1>3 DEF LedgerInv, Fail, SafeRollback
  <2>2. CacheKept'
    BY <2>1, Unseen DEF LedgerInv
  <2> QED  BY <1>1, <2>1, <2>2, Quiet
<1> QED  BY <1>2, <1>3 DEF Attach

LEMMA RestartKeeps ==
    ASSUME LedgerInv, NEW open \in BOOLEAN, Restart(open)
    PROVE  LedgerInv' /\ Step
<1>1. ProxyKept'
  BY Numbers DEF LedgerInv, ProxyKept, Restart, FreshProxy
<1>2. CacheKept'
  BY DEF CacheKept, Restart, NoCache
<1>3. /\ UNCHANGED <<db, tx, reads>> /\ proxy'.minted = proxy.minted
      /\ proxy'.closing = None
  BY DEF LedgerInv, Restart, FreshProxy
<1> QED  BY <1>1, <1>2, <1>3, Quiet

(* A query that found the cache current has it; one that did not takes the *)
(* rows of the database as it finds it.                                    *)
LEMMA QueryKeeps ==
    ASSUME LedgerInv, StartQuery \/ FinishQuery
    PROVE  LedgerInv' /\ Step
<1>1. UNCHANGED <<db, tx, reads, proxy>>
  BY DEF StartQuery, FinishQuery
<1>2. ASSUME StartQuery PROVE CacheKept'
  <2>1. /\ UNCHANGED cache /\ query'.moved = FALSE
        /\ DOMAIN query' = {"stale", "counts", "moved"}
    BY <1>2 DEF StartQuery, LedgerInv
  <2> QED  BY <1>1, <2>1 DEF LedgerInv, CacheKept
<1>3. ASSUME FinishQuery PROVE CacheKept'
  <2>1. CASE query.stale
    BY <1>1, <1>3, <2>1 DEF LedgerInv, CacheKept, FinishQuery
  <2>2. CASE ~query.stale
    BY <1>1, <1>3, <2>2 DEF LedgerInv, CacheKept, FinishQuery
  <2> QED  BY <2>1, <2>2
<1>4. CacheKept'
  BY <1>2, <1>3
<1>5. ProxyKept'
  BY <1>1 DEF LedgerInv, ProxyKept
<1> QED  BY <1>1, <1>4, <1>5, Quiet

(* The reads and writes of other processes.                                          *)
LEMMA ReadKeeps ==
    ASSUME LedgerInv, NEW r \in Routes, ReadStatus(r)
    PROVE  LedgerInv' /\ Step
<1> DEFINE x == <<r, db.outcomes[r].status>>
<1>1. UNCHANGED <<db, tx, proxy, cache, query>>
  BY DEF ReadStatus
<1>2. reads' \subseteq reads \cup {x}
  BY DEF ReadStatus
<1>3. /\ r \in DOMAIN db.outcomes /\ db.outcomes[r].status \in DOMAIN Rank
      /\ x \in Routes \X DOMAIN Rank /\ x[1] = r /\ x[2] = db.outcomes[r].status
  BY DEF ReadStatus, Stored, LedgerInv, Kept, Tables, OutcomeRow
<1> HIDE DEF x
<1>4. ReadsKept'
  <2>1. Rank[x[2]] <= Rank[db.outcomes[x[1]].status]
    BY <1>3, Ranks
  <2> QED  BY <1>1, <1>2, <1>3, <2>1 DEF LedgerInv, ReadsKept
<1>5. ProxyKept' /\ CacheKept' /\ RowsMinted'
  BY <1>1, Unseen DEF LedgerInv, ProxyKept, RowsMinted
<1>6. ASSUME NEW q \in FoundOpen' \ FoundOpen
      PROVE  q \in DOMAIN db.outcomes /\ db.outcomes[q].status # "closed_final"
  <2>1. PICK current \in DOMAIN Rank :
          <<q, current>> \in reads' \ reads /\ MayFollow(current, "closed_final")
    BY <1>1, <1>6 DEF FoundOpen
  <2>2. <<q, current>> = x
    BY <1>2, <2>1
  <2>3. q = r /\ current = db.outcomes[r].status
    BY <2>2 DEF x
  <2> QED  BY <1>3, <2>1, <2>3 DEF MayFollow
<1> QED  BY <1>1, <1>4, <1>5, <1>6 DEF LedgerInv, Step

LEMMA OtherKeeps ==
    ASSUME LedgerInv, NEW images, NEW r \in Routes, OtherCommit(images),
           UNCHANGED <<reads, proxy>>,
           Wrote(db, After(images), r), NoFinal(db, After(images)),
           r \in DOMAIN db.outcomes \/ r \in Corpus
    PROVE  /\ LedgerInv' /\ db' = After(images) /\ Wrote(db, db', r)
           /\ FoundOpen' \subseteq FoundOpen
<1>1. db' = After(images) /\ tx' = db'
  BY DEF OtherCommit, After
<1>2. CacheKept'
  BY Published DEF LedgerInv, OtherCommit
<1>3. RowsMinted'
  BY <1>1 DEF Wrote, LedgerInv, RowsMinted
<1>4. ReadsKept' /\ FoundOpen' \subseteq FoundOpen
  BY <1>1, WroteReads, SameFound
<1> QED  BY <1>1, <1>2, <1>3, <1>4 DEF LedgerInv, ProxyKept, Wrote

LEMMA VerifyKeeps ==
    ASSUME LedgerInv, NEW j \in Jobs, NEW success \in BOOLEAN, Verify(j, success)
    PROVE  LedgerInv' /\ Step
<1> DEFINE r == JobRoute[j]
<1>1. PICK current \in DOMAIN Rank :
        /\ <<r, current>> \in reads /\ ~Replayed(db, j)
        /\ OtherCommit(AttachVerification(db, r, j, success, current))
        /\ UNCHANGED <<reads, proxy>>
  BY DEF Verify
<1> DEFINE images == AttachVerification(db, r, j, success, current)
<1>2. /\ r \in Routes /\ r \in DOMAIN db.outcomes
      /\ Rank[current] <= Rank[db.outcomes[r].status]
  BY <1>1, JobsAssumption DEF LedgerInv, ReadsKept
<1>3. /\ Wrote(db, After(images), r) /\ NoFinal(db, After(images))
      /\ Verifies(db, After(images), r)
  <2> HIDE DEF r
  <2> QED  BY <1>1, <1>2, VerifyWrites DEF LedgerInv
<1> HIDE DEF r, images
<1>4. /\ LedgerInv' /\ db' = After(images) /\ Wrote(db, db', r)
      /\ FoundOpen' \subseteq FoundOpen
  <2>1. OtherCommit(images)
    BY <1>1 DEF images
  <2> QED  BY <1>1, <1>2, <1>3, <2>1, OtherKeeps
<1> QED  BY <1>2, <1>3, <1>4 DEF Step

LEMMA BackfillDecisionKeeps ==
    ASSUME LedgerInv, NEW r \in Corpus, NEW embedding \in BOOLEAN,
           NEW private \in BOOLEAN, BackfillDecision(r, private, embedding)
    PROVE  LedgerInv' /\ Step
<1> DEFINE decision == [session |-> CorpusTurn[r].session, index |-> CorpusTurn[r].index,
                        sha |-> ~private]
<1> DEFINE images == RecordDecision(db, r, decision, embedding)
<1>1. r \in Routes /\ decision \in DecisionRow
  BY Numbers, CorpusAssumption DEF DecisionRow
<1>2. OtherCommit(images) /\ UNCHANGED <<reads, proxy>>
  BY DEF BackfillDecision
<1> HIDE DEF decision
<1>3. /\ Wrote(db, After(images), r) /\ NoFinal(db, After(images))
      /\ r \in DOMAIN db.outcomes => After(images).outcomes[r] = db.outcomes[r]
  BY <1>1, RecordWrites DEF LedgerInv
<1> HIDE DEF images
<1>4. /\ LedgerInv' /\ db' = After(images) /\ Wrote(db, db', r)
      /\ FoundOpen' \subseteq FoundOpen
  BY <1>1, <1>2, <1>3, OtherKeeps
<1> QED  BY <1>1, <1>3, <1>4 DEF Step

LEMMA BackfillOutcomeKeeps ==
    ASSUME LedgerInv, NEW r \in Corpus, BackfillOutcome(r)
    PROVE  LedgerInv' /\ Step
<1> DEFINE images == AttachOutcome(db, r, "closed_final")
<1>1. PICK current \in DOMAIN Rank :
        /\ <<r, current>> \in reads /\ MayFollow(current, "closed_final")
        /\ db.outcomes[r].seen < MaxAttach /\ OtherCommit(images)
        /\ UNCHANGED <<reads, proxy>>
  BY DEF BackfillOutcome
<1>2. /\ r \in Routes /\ r \in DOMAIN db.outcomes /\ r \in FoundOpen
      /\ db.outcomes[r].status \in DOMAIN Rank
  BY <1>1, Numbers DEF LedgerInv, ReadsKept, FoundOpen, Kept, Tables, OutcomeRow
<1>3. Wrote(db, After(images), r) /\ NoFinal(db, After(images))
  BY <1>1, <1>2, AttachWrites, Ranks DEF LedgerInv
<1> HIDE DEF images
<1>4. /\ LedgerInv' /\ db' = After(images) /\ Wrote(db, db', r)
      /\ FoundOpen' \subseteq FoundOpen
  BY <1>1, <1>2, <1>3, OtherKeeps
<1> QED  BY <1>2, <1>4 DEF Step

LEMMA InitKeeps ==
    ASSUME Init
    PROVE  LedgerInv
<1>1. Kept(db)
  BY FS_EmptySet DEF Init, Empty, Kept, Tables, EventsKept
<1>2. ProxyKept /\ RowsMinted
  BY Numbers DEF Init, Empty, FreshProxy, ProxyKept, RowsMinted
<1>3. CacheKept
  BY DEF Init, NoCache, CacheKept
<1>4. ReadsKept
  BY DEF Init, Empty, FreshProxy, ReadsKept
<1> QED  BY <1>1, <1>2, <1>3, <1>4 DEF Init, LedgerInv

LEMMA NextKeeps ==
    ASSUME LedgerInv, [Next]_vars
    PROVE  LedgerInv' /\ Step
<1>1. CASE UNCHANGED vars
  <2>1. UNCHANGED <<db, tx, reads, proxy, cache, query>>
    BY <1>1 DEF vars
  <2>2. ProxyKept' /\ CacheKept'
    BY <2>1, Unseen DEF LedgerInv, ProxyKept
  <2> QED  BY <2>1, <2>2, Quiet
<1>2. CASE Next
  BY <1>2, StartKeeps, CloseKeeps, RecordKeeps, AttachKeeps, RestartKeeps, QueryKeeps,
     ReadKeeps, VerifyKeeps, BackfillDecisionKeeps, BackfillOutcomeKeeps DEF Next
<1> QED  BY <1>1, <1>2

(* The invariant holds of every reachable ledger.                          *)
THEOREM LedgerInvariance == Spec => []LedgerInv
<1>1. Init => LedgerInv
  BY InitKeeps
<1>2. LedgerInv /\ [Next]_vars => LedgerInv'
  BY NextKeeps
<1> QED  BY <1>1, <1>2, PTL DEF Spec

-----------------------------------------------------------------------------
(* What the invariant says of the checked properties.                      *)

(* Every table, and the proxy's memory, keeps its type.                    *)
THEOREM LedgerTypeCorrect == Spec => []TypeOK
<1>1. LedgerInv => TypeOK
  <2> SUFFICES ASSUME LedgerInv PROVE TypeOK
    OBVIOUS
  <2>1. \A s \in Sessions : proxy.turns[s] \in 0..proxy.minted
    BY Numbers DEF LedgerInv, ProxyKept
  <2> QED  BY <2>1 DEF LedgerInv, ProxyKept, ReadsKept, Kept, Tables, TypeOK
<1> QED  BY <1>1, LedgerInvariance, PTL

(* A decision, its row and its first event are stored together or not at   *)
(* all, whichever statement fails (memory_sqlite.py:351).                  *)
THEOREM StoredWhole == Spec => []Whole
<1>1. LedgerInv => Whole
  <2> SUFFICES ASSUME LedgerInv PROVE Whole
    OBVIOUS
  <2> DEFINE pending == {e.route : e \in {e \in db.events : e.id[1] = "pending"}}
  <2>1. DOMAIN db.outcomes \subseteq pending
    <3> SUFFICES ASSUME NEW r \in DOMAIN db.outcomes PROVE r \in pending
      OBVIOUS
    <3>1. PICK e \in db.events : e.id = <<"pending", r>> /\ e.route = r
      BY DEF LedgerInv, Kept, RowKept
    <3> QED  BY <3>1
  <2>2. pending \subseteq DOMAIN db.outcomes
    BY DEF LedgerInv, Kept, EventsKept, EventKept
  <2> QED  BY <2>1, <2>2 DEF LedgerInv, Kept, Tables, Whole
<1> QED  BY <1>1, LedgerInvariance, PTL

(* The outcome row is a projection of its immutable events                 *)
(* (memory_sqlite.py:10).                                                  *)
THEOREM RowsExplained == Spec => []EventsExplain
<1>1. LedgerInv => EventsExplain
  <2> SUFFICES ASSUME LedgerInv, NEW r \in DOMAIN db.outcomes
               PROVE  LET row == db.outcomes[r]
                          mine == {e \in db.events : e.route = r}
                      IN  /\ \E e \in mine : e.status = row.status
                          /\ \A e \in mine : Rank[e.status] <= Rank[row.status]
                          /\ row.seen = Cardinality({e \in mine : e.id[1] = "outcome"})
                          /\ row.evidence # None =>
                                \E e \in mine : e.id = <<"job", row.evidence[1]>>
    BY DEF EventsExplain
  <2> DEFINE mine == {e \in db.events : e.route = r}
  <2>1. RowKept(db, r)
    BY DEF LedgerInv, Kept
  <2>2. \A e \in mine : Rank[e.status] <= Rank[db.outcomes[r].status]
    BY DEF LedgerInv, Kept, EventsKept, EventKept
  <2>3. {e \in mine : e.id[1] = "outcome"} = OutcomesOf(db, r)
    BY DEF OutcomesOf
  <2>4. \E e \in mine : e.status = db.outcomes[r].status
    BY <2>1 DEF RowKept
  <2>5. db.outcomes[r].evidence # None =>
            \E e \in mine : e.id = <<"job", db.outcomes[r].evidence[1]>>
    BY <2>1 DEF RowKept
  <2>6. db.outcomes[r].seen = Cardinality({e \in mine : e.id[1] = "outcome"})
    BY <2>1, <2>3 DEF RowKept
  <2> QED  BY <2>2, <2>4, <2>5, <2>6
<1> QED  BY <1>1, LedgerInvariance, PTL

(* A projection found current is current (memory_sqlite.py:631).           *)
THEOREM VotesFresh == Spec => []FreshVotes
<1>1. LedgerInv => FreshVotes
  BY DEF LedgerInv, CacheKept, FreshVotes, Stale
<1> QED  BY <1>1, LedgerInvariance, PTL

(* Nothing changes a row without a new event of it (memory_sqlite.py:515). *)
THEOREM Audited == Spec => EveryChangeAudited
<1>1. LedgerInv /\ [Next]_vars =>
        [/\ db.events \subseteq db'.events
         /\ \A r \in DOMAIN db.outcomes : db'.outcomes[r] # db.outcomes[r] =>
              \E e \in db'.events \ db.events : e.route = r]_vars
  <2> SUFFICES ASSUME LedgerInv, [Next]_vars
               PROVE  /\ db.events \subseteq db'.events
                      /\ \A r \in DOMAIN db.outcomes : db'.outcomes[r] # db.outcomes[r] =>
                            \E e \in db'.events \ db.events : e.route = r
    OBVIOUS
  <2>1. Step
    BY NextKeeps
  <2>2. ASSUME NEW r \in Routes, Wrote(db, db', r)
        PROVE  /\ db.events \subseteq db'.events
               /\ \A q \in DOMAIN db.outcomes : db'.outcomes[q] # db.outcomes[q] =>
                     q = r /\ Logs(db, db', r)
    BY <2>2 DEF Wrote, Observes, Verifies
  <2> QED  BY <2>1, <2>2 DEF Step, Logs
<1> QED  BY <1>1, LedgerInvariance, PTL DEF Spec, EveryChangeAudited

-----------------------------------------------------------------------------
(* The ledger implements the life of a row.                                *)

LEMMA LifeBegins == Init => Life!Init
BY DEF Init, Empty, FreshProxy, FoundOpen, Life!Init, RowMap, LedgerRow

(* The row of a stored turn, as the life of rows sees it.                  *)
LEMMA RowSeen ==
    ASSUME NEW d, Kept(d), NEW r \in DOMAIN d.outcomes, NEW x,
           x = [decision |-> d.decisions[r], status |-> d.outcomes[r].status,
                telemetry |-> <<d.outcomes[r].seen, d.outcomes[r].retried>>,
                evidence |-> d.outcomes[r].evidence]
    PROVE  x # None
<1>1. d.outcomes[r] \in OutcomeRow /\ d.decisions[r] \in DecisionRow
  BY DEF Kept, Tables
<1>2. x \in LedgerRows
  BY <1>1 DEF LedgerRows, OutcomeRow
<1> QED  BY <1>2, NoneAssumption

LEMMA ReadLives ==
    ASSUME LedgerInv, UNCHANGED db,
           \A r \in FoundOpen' \ FoundOpen :
                r \in DOMAIN db.outcomes /\ db.outcomes[r].status # "closed_final"
    PROVE  Life!Next
<1>1. UNCHANGED RowMap
  BY DEF RowMap, LedgerRow
<1>2. ASSUME NEW r \in FoundOpen' \ FoundOpen PROVE Life!IsOpen(r)
  <2>1. r \in DOMAIN db.outcomes /\ db.outcomes[r].status # "closed_final" /\ r \in Routes
    BY <1>2 DEF LedgerInv, Kept, Tables
  <2>2. RowMap[r] = [decision |-> db.decisions[r], status |-> db.outcomes[r].status,
                telemetry |-> <<db.outcomes[r].seen, db.outcomes[r].retried>>,
                evidence |-> db.outcomes[r].evidence]
    BY <2>1 DEF RowMap, LedgerRow
  <2>3. RowMap[r] # None
    BY <2>1, <2>2, RowSeen DEF LedgerInv
  <2> QED  BY <2>1, <2>2, <2>3 DEF Life!IsOpen
<1> QED  BY <1>1, <1>2 DEF Life!Next, Life!Read

(* Rows but the one written stay; that one takes a step of its life.       *)
LEMMA WriteLives ==
    ASSUME LedgerInv, LedgerInv', NEW r \in Routes, Wrote(db, db', r),
           FoundOpen' \subseteq FoundOpen,
           r \in DOMAIN db.outcomes /\ db.outcomes[r].status = "closed_final" =>
              r \in FoundOpen \/ Verifies(db, db', r) \/ db'.outcomes[r] = db.outcomes[r]
    PROVE  Life!Write
<1> DEFINE new == RowMap'[r]
<1>1. \A q \in Routes \ {r} : RowMap'[q] = RowMap[q]
  BY DEF RowMap, LedgerRow, Wrote
<1>2. r \in DOMAIN db'.outcomes
  BY DEF Wrote
<1>3. /\ new # None
      /\ new = [decision |-> db'.decisions[r], status |-> db'.outcomes[r].status,
          telemetry |-> <<db'.outcomes[r].seen, db'.outcomes[r].retried>>,
          evidence |-> db'.outcomes[r].evidence]
  <2>1. new = [decision |-> db'.decisions[r], status |-> db'.outcomes[r].status,
          telemetry |-> <<db'.outcomes[r].seen, db'.outcomes[r].retried>>,
          evidence |-> db'.outcomes[r].evidence]
    BY <1>2 DEF RowMap, LedgerRow
  <2> HIDE DEF new
  <2>2. new # None
    BY <1>2, <2>1, RowSeen DEF Wrote
  <2> QED  BY <2>1, <2>2
<1>4. CASE r \notin DOMAIN db.outcomes
  <2>1. RowMap[r] = None /\ new.status = "pending"
    BY <1>3, <1>4 DEF Wrote, RowMap, LedgerRow
  <2>2. Life!Recorded(RowMap[r], RowMap'[r])
    BY <1>3, <2>1 DEF Life!Recorded
  <2> QED  BY <1>1, <2>2 DEF Life!Write
<1>5. CASE r \in DOMAIN db.outcomes
  <2> DEFINE old == RowMap[r]
  <2>1. /\ old # None
        /\ old = [decision |-> db.decisions[r], status |-> db.outcomes[r].status,
          telemetry |-> <<db.outcomes[r].seen, db.outcomes[r].retried>>,
          evidence |-> db.outcomes[r].evidence]
    <3>1. old = [decision |-> db.decisions[r], status |-> db.outcomes[r].status,
          telemetry |-> <<db.outcomes[r].seen, db.outcomes[r].retried>>,
          evidence |-> db.outcomes[r].evidence]
      BY <1>5 DEF RowMap, LedgerRow
    <3> HIDE DEF old
    <3>2. old # None
      BY <1>5, <3>1, RowSeen DEF LedgerInv
    <3> QED  BY <3>1, <3>2
  <2>2. /\ db.outcomes[r] \in OutcomeRow /\ db'.outcomes[r] \in OutcomeRow
        /\ db'.decisions[r] = db.decisions[r]
    BY <1>5 DEF Wrote, LedgerInv, Kept, Tables
  <2>3. CASE Observes(db, db', r) /\ db.outcomes[r].status # "closed_final"
    <3> HIDE DEF old, new
    <3>1. Life!Observed(old, new)
      BY <1>3, <2>1, <2>2, <2>3, Ranks DEF Observes, OutcomeRow, Life!Observed, Life!Forward
    <3> QED  BY <1>1, <3>1 DEF Life!Write, old, new
  <2>4. CASE /\ Observes(db, db', r) /\ db.outcomes[r].status = "closed_final"
             /\ r \in FoundOpen
    <3>1. db'.outcomes[r].status = "closed_final"
      BY <2>2, <2>4, Ranks DEF Observes, OutcomeRow
    <3> HIDE DEF old, new
    <3>2. new = [old EXCEPT !.telemetry = new.telemetry]
      BY <1>3, <2>1, <2>2, <2>4, <3>1 DEF Observes
    <3>3. Life!Overwritten(old, new)
      BY <1>3, <2>1, <2>4, <3>2 DEF Life!Overwritten
    <3> QED  BY <1>1, <2>4, <3>3 DEF Life!Write, old, new
  <2>5. CASE Verifies(db, db', r) \/ db'.outcomes[r] = db.outcomes[r]
    <3>1. /\ db'.outcomes[r].status = db.outcomes[r].status
          /\ db'.outcomes[r].seen = db.outcomes[r].seen
          /\ db'.outcomes[r].retried = db.outcomes[r].retried
      BY <2>2, <2>5 DEF Verifies, OutcomeRow
    <3> HIDE DEF old, new
    <3>2. new = [old EXCEPT !.evidence = new.evidence]
      BY <1>3, <2>1, <2>2, <3>1
    <3>3. Life!Verified(old, new)
      BY <2>1, <3>2 DEF Life!Verified
    <3> QED  BY <1>1, <3>3 DEF Life!Write, old, new
  <2> QED  BY <1>5, <2>3, <2>4, <2>5 DEF Wrote
<1> QED  BY <1>4, <1>5

(* Every row is recorded once, moves only forward, keeps its decision, its *)
(* evidence is the verifier's alone, and its telemetry once final is       *)
(* replaced only by a writer that found it open, under failures, restarts  *)
(* and the interleavings of the three writers, reads and writes apart.     *)
THEOREM LedgerRefinement == Spec => ImplementsRowLife
<1>1. LedgerInv /\ LedgerInv' /\ [Next]_vars => [Life!Next]_<<RowMap, FoundOpen>>
  <2> SUFFICES ASSUME LedgerInv, LedgerInv', [Next]_vars PROVE Life!Next
    OBVIOUS
  <2>1. Step
    BY NextKeeps
  <2> QED  BY <2>1, ReadLives, WriteLives DEF Step, Life!Next
<1>2. Spec => [][Life!Next]_<<RowMap, FoundOpen>>
  BY <1>1, LedgerInvariance, PTL DEF Spec
<1> QED  BY <1>2, LifeBegins, PTL DEF Spec, ImplementsRowLife, Life!Spec

-----------------------------------------------------------------------------
(* The graph over the ledger.  Of a rebuild that no other disturbs, what   *)
(* is drawn and what is left to draw are two halves of what it read: every *)
(* edge is in one of them (Halves), the ids it holds are those of the      *)
(* nodes it means (Holds), and the nodes are the turns entered and the     *)
(* ends of the edges drawn.  When nothing is left the whole is drawn.      *)
(* Of a search of what is drawn: a node once found is at its distance, the *)
(* queue holds two distances at most, and what is no farther than its head *)
(* is found (Searched).                                                    *)

(* Every node there could be. *)
Everything == [turns |-> Listed, closed |-> Listed]
Names == {<<"turn", t>> : t \in Listed} \cup {e[3] : e \in Relation(Everything)}

(* Edges by the names of their ends: those drawn, those that links stand    *)
(* for, those of the ledger as it was read.                                 *)
DrawnEdges == {<<nodes[e.src], e.kind, nodes[e.dst]>> : e \in DOMAIN edges}
LinkEdges(t, ls) == {<<<<"turn", t>>, l.edge, l.node>> : l \in Range(ls)}
Asked(known) == {<<<<"turn", e[1]>>, e[2], e[3]>> : e \in Relation(known)}

PhaseLinks(phase, t) == IF phase = "decisions" THEN DecisionLinks(t) ELSE OutcomeLinks(t)

AtHand(r) == IF turnId[r] = Null THEN {} ELSE {First(due[r])}

(* What is still to draw of a turn: the links left of the one begun.         *)
LinksAt(r, t) == IF t \in AtHand(r) THEN links[r] ELSE PhaseLinks(pc[r], t)

EdgesLeft(r) == UNION {LinkEdges(t, LinksAt(r, t)) : t \in due[r] \cap read[r].turns}

Entered(r) == IF pc[r] = "decisions" THEN (read[r].turns \ due[r]) \cup AtHand(r)
              ELSE read[r].turns

EdgeKinds == {"in_session", "routed_to", "decided_by", "escalated_to", "tripped"}
LinkSet == [node : Names, edge : EdgeKinds]

(* The links of a turn, each its own edge. *)
IsLinks(ls) == 
    /\ ls \in Seq(LinkSet)
    /\ \A i, j \in DOMAIN ls : ls[i] = ls[j] => i = j

GraphWhole ==
    /\ nodes \in Seq(Names) /\ IsInjective(nodes)
    /\ \A e \in DOMAIN edges :
          /\ e \in [src : DOMAIN nodes, dst : DOMAIN nodes, kind : EdgeKinds]
          /\ edges[e] = 1

(* What an undisturbed rebuild holds of the ledger. *)
Reads(r) ==
    /\ read[r] \in [turns : SUBSET Listed, closed : SUBSET Listed]
    /\ pc[r] = "decisions" => due[r] \subseteq read[r].turns /\ read[r].closed = {}
    /\ pc[r] = "outcomes" => due[r] \subseteq {t \in read[r].closed : OutcomeLinks(t) # <<>>}

(* The ids it holds are those of the turn begun and of the next link's node. *)
Holds(r) ==
    /\ turnId[r] = Null => otherId[r] = Null
    /\ turnId[r] # Null =>
          /\ due[r] # {} /\ First(due[r]) \in read[r].turns
          /\ turnId[r] \in DOMAIN nodes /\ nodes[turnId[r]] = <<"turn", First(due[r])>>
          /\ links[r] # <<>> /\ IsLinks(links[r])
    /\ otherId[r] # Null =>
          otherId[r] \in DOMAIN nodes /\ nodes[otherId[r]] = Head(links[r]).node

(* No edge is both drawn and left, and together they are what was read.     *)
Halves(r) ==
    /\ Range(nodes) = {<<"turn", t>> : t \in Entered(r)} \cup {e[3] : e \in DrawnEdges}
                       \cup {nodes[i] : i \in {otherId[r]} \ {Null}}
    /\ DrawnEdges \cup EdgesLeft(r) = Asked(read[r])
    /\ DrawnEdges \cap EdgesLeft(r) = {}

Drawing(r) == GraphWhole /\ Reads(r) /\ Holds(r) /\ Halves(r)

GraphTypes ==
    /\ decisions \subseteq Listed /\ closed \subseteq decisions
    /\ \A r \in Rebuilders : pc[r] \in {"idle", "delete", "decisions", "outcomes"}
    /\ DOMAIN pc = Rebuilders /\ DOMAIN due = Rebuilders /\ DOMAIN links = Rebuilders
    /\ DOMAIN turnId = Rebuilders /\ DOMAIN otherId = Rebuilders
    /\ DOMAIN read = Rebuilders /\ disturbed \in [Rebuilders -> BOOLEAN]

RebuildKept(r) ==
    /\ pc[r] \in {"idle", "delete"} =>
          due[r] = {} /\ turnId[r] = Null /\ otherId[r] = Null
    /\ ~disturbed[r] =>
          /\ pc[r] = "delete" => nodes = <<>> /\ edges = EmptyBag
          /\ pc[r] \in {"decisions", "outcomes"} => Drawing(r)

(* what a settled graph is *)
GraphSettled ==
    settled # Null =>
        /\ GraphWhole
        /\ settled \in [turns : SUBSET Listed, closed : SUBSET Listed]

GraphInv ==
    /\ GraphTypes
    /\ \A r \in Rebuilders : RebuildKept(r)
    /\ GraphSettled /\ Rebuilt

-----------------------------------------------------------------------------
(* The ledger lists finitely many turns. *)
LEMMA ListedFinite == IsFiniteSet(Listed)
<1>1. Len(Order) \in Nat /\ DOMAIN Order = 1 .. Len(Order)
  BY GraphAssumption
<1>2. IsFiniteSet(1 .. Len(Order))
  BY <1>1, FS_Interval
<1>3. Order \in Surjection(1 .. Len(Order), Listed)
  BY <1>1, GraphAssumption DEF Surjection, Listed, Range
<1>4. QED
  BY <1>2, <1>3, FS_Surjection

(* Of natural numbers one is the least.                                     *)
LEMMA LeastNatural ==
    ASSUME NEW A \in SUBSET Nat, A # {}
    PROVE  \E x \in A : \A y \in A : x <= y
<1> DEFINE R == OpToRel(<, Nat)
<1>1. IsWellFoundedOn(R, Nat)
  BY NatLessThanWellFounded
<1>2. PICK x \in A : \A y \in A : <<y, x>> \notin R
  BY <1>1, WFMin
<1>3. \A y \in A : ~(y < x)
  BY <1>2 DEF OpToRel
<1>4. QED
  BY <1>3

(* Among turns of the ledger one is the first.                              *)
LEMMA FirstOfThem ==
    ASSUME NEW S \in SUBSET Listed, S # {}
    PROVE  First(S) \in S
<1>1. Len(Order) \in Nat /\ DOMAIN Order = 1 .. Len(Order)
  BY GraphAssumption
<1>2. \A t \in S : Ts(t) \in 1 .. Len(Order)
  <2>1. \A t \in S : \E i \in DOMAIN Order : Order[i] = t
    BY DEF Listed, Range
  <2>2. QED
    BY <1>1, <2>1 DEF Ts
<1> DEFINE A == {Ts(t) : t \in S}
<1>3. A \in SUBSET Nat /\ A # {}
  BY <1>1, <1>2
<1>4. \E x \in A : \A y \in A : x <= y
  BY <1>3, LeastNatural
<1>5. \E t \in S : \A u \in S : Ts(t) <= Ts(u)
  BY <1>4
<1>6. QED
  BY <1>5 DEF First

(* A finite set as a sequence: every element once.                          *)
LEMMA SetInOrder ==
    ASSUME NEW S, IsFiniteSet(S)
    PROVE  /\ SetToSeq(S) \in Seq(S) /\ IsInjective(SetToSeq(S))
           /\ Range(SetToSeq(S)) = S
           /\ Len(SetToSeq(S)) = Cardinality(S)
<1> DEFINE n == Cardinality(S)
<1>1. n \in Nat
  BY FS_CardinalityType
<1>2. PICK f \in Bijection(1 .. n, S) : TRUE
  BY FS_CardinalityType DEF ExistsBijection
<1>3. f \in [1 .. n -> S] /\ IsInjective(f)
  BY <1>2 DEF Bijection, Injection
<1>4. SetToSeq(S) \in [1 .. n -> S] /\ IsInjective(SetToSeq(S))
  BY <1>3 DEF SetToSeq
<1> DEFINE g == SetToSeq(S)
           T == {g[i] : i \in 1 .. n}
<1> HIDE DEF g
<1>5. g \in Surjection(1 .. n, T) /\ g \in Injection(1 .. n, T)
  BY <1>4 DEF Surjection, Injection, g
<1>6. IsFiniteSet(1 .. n) /\ Cardinality(1 .. n) = n
  BY <1>1, FS_Interval
<1>7. Cardinality(T) = n
  BY <1>5, <1>6, FS_Surjection
<1>8. T \in SUBSET S
  BY <1>4 DEF g
<1>9. T = S
  BY <1>7, <1>8, FS_Subset
<1>10. DOMAIN g = 1 .. n /\ g \in Seq(S) /\ Len(g) = n
  BY <1>1, <1>4 DEF g
<1>11. Range(g) = S
  BY <1>9, <1>10 DEF Range
<1>12. QED
  BY <1>4, <1>10, <1>11 DEF g

Rules(t) == {Link("rule", rule, "decided_by") : rule \in RulesOf(t)}

(* There is a rule for every decision, and finitely many. *)
LEMMA RulesInOrder ==
    ASSUME NEW t \in Listed
    PROVE  IsFiniteSet(Rules(t)) /\ Rules(t) # {}
<1>1. IsFiniteSet(RulesOf(t)) /\ RulesOf(t) # {}
  BY GraphAssumption, FS_Singleton DEF RulesOf
<1> DEFINE f == [rule \in RulesOf(t) |-> Link("rule", rule, "decided_by")]
<1>2. f \in Surjection(RulesOf(t), Rules(t))
  BY DEF Surjection, Rules
<1>3. IsFiniteSet(Rules(t))
  BY <1>1, <1>2, FS_Surjection
<1>4. QED
  BY <1>1, <1>3 DEF Rules

(* The relation of what was read, turn by turn. *)
LEMMA InRelation ==
    ASSUME NEW known, NEW e
    PROVE  e \in Relation(known) <=>
              \/ \E t \in known.turns : e \in DecisionRelation(t)
              \/ \E t \in known.turns : t \in known.closed /\ e \in OutcomeRelation(t)
<1>1. e \in Relation(known) <=> \E t \in known.turns : e \in RelationOf(known, t)
  BY DEF Relation
<1>2. QED
  BY <1>1 DEF RelationOf

(* What a turn is related to are nodes there could be. *)
LEMMA NamesOfTurn ==
    ASSUME NEW t \in Listed
    PROVE  /\ <<"turn", t>> \in Names
           /\ \A e \in DecisionRelation(t) \cup OutcomeRelation(t) : e[3] \in Names
<1>1. Everything.turns = Listed /\ Everything.closed = Listed
  BY DEF Everything
<1>2. DecisionRelation(t) \cup OutcomeRelation(t) \subseteq Relation(Everything)
  BY <1>1, InRelation
<1>3. QED
  BY <1>2 DEF Names

(* Two sequences one after the other: their elements are those of both.     *)
LEMMA OneAfterOther ==
    ASSUME NEW S, NEW a \in Seq(S), NEW b \in Seq(S)
    PROVE  /\ a \o b \in Seq(S) /\ Len(a \o b) = Len(a) + Len(b)
           /\ Range(a \o b) = Range(a) \cup Range(b)
<1> DEFINE c == a \o b
<1>1. /\ c \in Seq(S) /\ Len(c) = Len(a) + Len(b)
      /\ DOMAIN c = 1 .. Len(a) + Len(b) /\ DOMAIN a = 1 .. Len(a) /\ DOMAIN b = 1 .. Len(b)
      /\ Len(a) \in Nat /\ Len(b) \in Nat
  OBVIOUS
<1>2. /\ \A i \in 1 .. Len(a) : c[i] = a[i]
      /\ \A i \in Len(a) + 1 .. Len(a) + Len(b) : c[i] = b[i - Len(a)]
  OBVIOUS
<1> HIDE DEF c
<1>3. Range(c) = Range(a) \cup Range(b)
  <2>1. ASSUME NEW i \in DOMAIN c
        PROVE  c[i] \in Range(a) \cup Range(b)
    <3>1. CASE i <= Len(a)
      BY <1>1, <1>2, <3>1 DEF Range
    <3>2. CASE i > Len(a)
      <4>1. i - Len(a) \in 1 .. Len(b) /\ c[i] = b[i - Len(a)]
        BY <1>1, <1>2, <3>2
      <4>2. QED
        BY <1>1, <4>1 DEF Range
    <3>3. QED
      BY <1>1, <3>1, <3>2
  <2>2. ASSUME NEW i \in DOMAIN a
        PROVE  i \in DOMAIN c /\ c[i] = a[i]
    BY <1>1, <1>2
  <2>3. ASSUME NEW i \in DOMAIN b
        PROVE  Len(a) + i \in DOMAIN c /\ c[Len(a) + i] = b[i]
    <3>1. Len(a) + i \in Len(a) + 1 .. Len(a) + Len(b) /\ (Len(a) + i) - Len(a) = i
      BY <1>1
    <3>2. c[Len(a) + i] = b[(Len(a) + i) - Len(a)]
      BY <1>2, <3>1
    <3>3. QED
      BY <1>1, <3>1, <3>2
  <2>4. QED
    BY <2>1, <2>2, <2>3 DEF Range
<1>4. QED
  BY <1>1, <1>3 DEF c

(* If neither repeats itself or the other, both together do not.            *)
LEMMA NoneTwice ==
    ASSUME NEW S, NEW a \in Seq(S), NEW b \in Seq(S),
           IsInjective(a), IsInjective(b),
           \A i \in DOMAIN a, j \in DOMAIN b : a[i] # b[j]
    PROVE  IsInjective(a \o b)
<1> DEFINE c == a \o b
<1>1. /\ DOMAIN c = 1 .. Len(a) + Len(b) /\ DOMAIN a = 1 .. Len(a) /\ DOMAIN b = 1 .. Len(b)
      /\ Len(a) \in Nat /\ Len(b) \in Nat
  OBVIOUS
<1>2. /\ \A i \in 1 .. Len(a) : c[i] = a[i]
      /\ \A i \in Len(a) + 1 .. Len(a) + Len(b) : c[i] = b[i - Len(a)]
  OBVIOUS
<1> HIDE DEF c
<1>3. IsInjective(c)
  <2> SUFFICES ASSUME NEW i \in DOMAIN c, NEW j \in DOMAIN c, c[i] = c[j], i < j
               PROVE  FALSE
    BY <1>1 DEF IsInjective
  <2>1. CASE j <= Len(a)
    BY <1>1, <1>2, <2>1 DEF IsInjective
  <2>2. CASE i > Len(a)
    <3>1. /\ i - Len(a) \in DOMAIN b /\ j - Len(a) \in DOMAIN b
          /\ b[i - Len(a)] = b[j - Len(a)] /\ i - Len(a) # j - Len(a)
      BY <1>1, <1>2, <2>2
    <3>2. QED
      BY <3>1 DEF IsInjective
  <2>3. CASE i <= Len(a) /\ j > Len(a)
    <3>1. /\ i \in DOMAIN a /\ j - Len(a) \in DOMAIN b
          /\ a[i] = b[j - Len(a)]
      BY <1>1, <1>2, <2>3
    <3>2. QED
      BY <3>1
  <2>4. QED
    BY <1>1, <2>1, <2>2, <2>3
<1>4. QED
  BY <1>3 DEF c

LinksFor(t, ls, relation) ==
    IsLinks(ls) /\ LinkEdges(t, ls) = {<<<<"turn", e[1]>>, e[2], e[3]>> : e \in relation}

(* The links of a decision are each drawn once and are its relation: its   *)
(* session, its rung and its rules.                                        *)
LEMMA LinksOfDecision ==
    ASSUME NEW t \in Listed
    PROVE  DecisionLinks(t) # <<>> /\ LinksFor(t, DecisionLinks(t), DecisionRelation(t))
<1> DEFINE a == <<Link("session", Of[t].session, "in_session"),
                  Link("model", Of[t].rung, "routed_to")>>
           b == SetToSeq(Rules(t))
<1>1. a \in Seq(LinkSet)
  <2>1. <<"session", Of[t].session>> \in Names /\ <<"model", Of[t].rung>> \in Names
    <3>1. /\ <<t, "in_session", <<"session", Of[t].session>>>> \in DecisionRelation(t)
          /\ <<t, "routed_to", <<"model", Of[t].rung>>>> \in DecisionRelation(t)
      BY DEF DecisionRelation
    <3>2. \A e \in DecisionRelation(t) : e[3] \in Names
      BY NamesOfTurn
    <3>3. QED
      BY <3>1, <3>2
  <2>2. QED
    BY <2>1 DEF LinkSet, Link, EdgeKinds
<1>2. /\ IsInjective(a) /\ DOMAIN a = {1, 2} /\ Len(a) = 2
      /\ Range(a) = {a[1], a[2]}
  BY DEF IsInjective, Link, Range
<1>3. Rules(t) \subseteq LinkSet
  <2> SUFFICES ASSUME NEW rule \in RulesOf(t)
               PROVE  Link("rule", rule, "decided_by") \in LinkSet
    BY DEF Rules
  <2>1. <<t, "decided_by", <<"rule", rule>>>> \in DecisionRelation(t)
    BY DEF DecisionRelation
  <2>2. \A e \in DecisionRelation(t) : e[3] \in Names
    BY NamesOfTurn
  <2>3. <<"rule", rule>> \in Names
    BY <2>1, <2>2
  <2>4. QED
    BY <2>3 DEF LinkSet, Link, EdgeKinds
<1>4. /\ b \in Seq(Rules(t)) /\ IsInjective(b) /\ Range(b) = Rules(t)
  BY RulesInOrder, SetInOrder
<1>5. b \in Seq(LinkSet)
  BY <1>3, <1>4
<1>6. \A i \in DOMAIN a, j \in DOMAIN b : a[i] # b[j]
  <2>1. \A j \in DOMAIN b : b[j].edge = "decided_by"
    <3>1. \A j \in DOMAIN b : b[j] \in Rules(t)
      BY <1>4 DEF Range
    <3>2. SUFFICES ASSUME NEW j \in DOMAIN b PROVE b[j].edge = "decided_by"
      OBVIOUS
    <3>3. PICK rule \in RulesOf(t) : b[j] = Link("rule", rule, "decided_by")
      BY <3>1 DEF Rules
    <3>4. QED
      BY <3>3 DEF Link
  <2>2. \A i \in DOMAIN a : a[i].edge # "decided_by"
    BY <1>2 DEF Link
  <2>3. QED
    BY <2>1, <2>2
<1>7. DecisionLinks(t) = a \o b
  BY DEF DecisionLinks, Rules
<1> DEFINE c == DecisionLinks(t)
<1> HIDE DEF a, b, c
<1>8. /\ c \in Seq(LinkSet) /\ IsInjective(c) /\ Len(c) = Len(a) + Len(b)
      /\ Range(c) = {a[1], a[2]} \cup Rules(t)
  <2>1. /\ a \o b \in Seq(LinkSet) /\ Len(a \o b) = Len(a) + Len(b)
        /\ Range(a \o b) = Range(a) \cup Range(b)
    BY <1>1, <1>5, OneAfterOther
  <2>4. IsInjective(a \o b)
    BY <1>1, <1>2, <1>4, <1>5, <1>6, NoneTwice
  <2>2. c = a \o b
    BY <1>7 DEF c
  <2>3. QED
    BY <1>2, <1>4, <2>1, <2>2, <2>4
<1>9. IsLinks(c) /\ c # <<>>
  BY <1>2, <1>4, <1>8 DEF IsLinks, IsInjective
<1>10. LinkEdges(t, c) = {<<<<"turn", e[1]>>, e[2], e[3]>> : e \in DecisionRelation(t)}
  <2>2. LinkEdges(t, c) = {<<<<"turn", t>>, l.edge, l.node>> : l \in {a[1], a[2]} \cup Rules(t)}
    BY <1>8 DEF LinkEdges
  <2>3. a[1] = Link("session", Of[t].session, "in_session") /\ a[2] = Link("model", Of[t].rung, "routed_to")
    BY DEF a
  <2> DEFINE known == {<<<<"turn", e[1]>>, e[2], e[3]>> : e \in DecisionRelation(t)}
  <2>4. ASSUME NEW l \in {a[1], a[2]} \cup Rules(t)
        PROVE  <<<<"turn", t>>, l.edge, l.node>> \in known
    <3>1. <<t, l.edge, l.node>> \in DecisionRelation(t)
      BY <2>3 DEF DecisionRelation, Rules, Link
    <3>2. QED
      BY <3>1
  <2>5. ASSUME NEW e \in DecisionRelation(t)
        PROVE  <<<<"turn", e[1]>>, e[2], e[3]>>
                   \in {<<<<"turn", t>>, l.edge, l.node>> : l \in {a[1], a[2]} \cup Rules(t)}
    <3>1. \E l \in {a[1], a[2]} \cup Rules(t) : e = <<t, l.edge, l.node>>
      <4>1. CASE e = <<t, "in_session", <<"session", Of[t].session>>>>
        BY <2>3, <4>1 DEF Link
      <4>2. CASE e = <<t, "routed_to", <<"model", Of[t].rung>>>>
        BY <2>3, <4>2 DEF Link
      <4>3. ASSUME NEW rule \in RulesOf(t), e = <<t, "decided_by", <<"rule", rule>>>>
            PROVE  \E l \in Rules(t) : e = <<t, l.edge, l.node>>
        <5>1. Link("rule", rule, "decided_by") \in Rules(t)
          BY DEF Rules
        <5>2. e = <<t, Link("rule", rule, "decided_by").edge, Link("rule", rule, "decided_by").node>>
          BY <4>3 DEF Link
        <5>3. QED
          BY <5>1, <5>2
      <4>4. QED
        BY <4>1, <4>2, <4>3 DEF DecisionRelation
    <3>2. QED
      BY <3>1
  <2>6. QED
    BY <2>2, <2>4, <2>5
<1>11. QED
  BY <1>9, <1>10 DEF LinksFor, c

(* The links of an outcome are each drawn once and are its relation: the   *)
(* rung it went up to and its trip-wire; there may be none.                *)
LEMMA LinksOfOutcome ==
    ASSUME NEW t \in Listed
    PROVE  LinksFor(t, OutcomeLinks(t), OutcomeRelation(t))
<1> DEFINE up == Of[t].escalated /\ Of[t].rung \in DOMAIN Target
           x == Link("model", Target[Of[t].rung], "escalated_to")
           y == Link("tripwire", Of[t].wire, "tripped")
           a == IF up THEN <<x>> ELSE <<>>
           b == IF Of[t].wire # Null THEN <<y>> ELSE <<>>
           c == OutcomeLinks(t)
           A == IF up THEN {x} ELSE {}
           B == IF Of[t].wire # Null THEN {y} ELSE {}
           P == IF up THEN {<<t, "escalated_to", <<"model", Target[Of[t].rung]>>>>} ELSE {}
           Q == IF Of[t].wire # Null THEN {<<t, "tripped", <<"tripwire", Of[t].wire>>>>} ELSE {}
<1>1. \A e \in OutcomeRelation(t) : e[3] \in Names
  BY NamesOfTurn
<1>2. OutcomeRelation(t) = P \cup Q
  BY DEF OutcomeRelation
<1>3. A \subseteq LinkSet /\ B \subseteq LinkSet
  <2>1. up => x \in LinkSet
    <3>1. up => <<t, "escalated_to", <<"model", Target[Of[t].rung]>>>> \in OutcomeRelation(t)
      BY <1>2
    <3>2. up => <<"model", Target[Of[t].rung]>> \in Names
      BY <1>1, <3>1
    <3>3. QED
      BY <3>2 DEF Link, LinkSet, EdgeKinds
  <2>2. Of[t].wire # Null => y \in LinkSet
    <3>1. Of[t].wire # Null => <<t, "tripped", <<"tripwire", Of[t].wire>>>> \in OutcomeRelation(t)
      BY <1>2
    <3>2. Of[t].wire # Null => <<"tripwire", Of[t].wire>> \in Names
      BY <1>1, <3>1
    <3>3. QED
      BY <3>2 DEF Link, LinkSet, EdgeKinds
  <2>3. QED
    BY <2>1, <2>2
<1>4. /\ a \in Seq(LinkSet) /\ Range(a) = A /\ IsInjective(a)
      /\ b \in Seq(LinkSet) /\ Range(b) = B /\ IsInjective(b)
  <2> HIDE DEF x, y, up
  <2>1. a \in Seq(LinkSet) /\ Range(a) = A /\ IsInjective(a)
    BY <1>3 DEF Range, IsInjective
  <2>2. b \in Seq(LinkSet) /\ Range(b) = B /\ IsInjective(b)
    BY <1>3 DEF Range, IsInjective
  <2>3. QED
    BY <2>1, <2>2
<1>5. \A i \in DOMAIN a, j \in DOMAIN b : a[i] # b[j]
  <2>1. x # y
    BY DEF Link
  <2> HIDE DEF x, y, up
  <2>2. QED
    BY <2>1
<1>6. c = a \o b
  BY DEF OutcomeLinks
<1> HIDE DEF a, b, c, A, B
<1>7. c \in Seq(LinkSet) /\ Range(c) = A \cup B
  BY <1>4, <1>6, OneAfterOther
<1>8. IsInjective(c)
  BY <1>4, <1>5, <1>6, NoneTwice
<1>9. IsLinks(c)
  BY <1>7, <1>8 DEF IsLinks, IsInjective
<1>10. LinkEdges(t, c) = {<<<<"turn", e[1]>>, e[2], e[3]>> : e \in OutcomeRelation(t)}
  <2>1. LinkEdges(t, c) = {<<<<"turn", t>>, l.edge, l.node>> : l \in A \cup B}
    BY <1>7 DEF LinkEdges
  <2>2. ASSUME NEW l \in A \cup B
        PROVE  <<t, l.edge, l.node>> \in OutcomeRelation(t)
    BY <1>2 DEF A, B, Link
  <2>3. ASSUME NEW e \in OutcomeRelation(t)
        PROVE  \E l \in A \cup B : e = <<t, l.edge, l.node>>
    <3>1. CASE e \in P
      <4>1. x \in A /\ e = <<t, x.edge, x.node>>
        BY <3>1 DEF A, Link
      <4>2. QED
        BY <4>1
    <3>2. CASE e \in Q
      <4>1. y \in B /\ e = <<t, y.edge, y.node>>
        BY <3>2 DEF B, Link
      <4>2. QED
        BY <4>1
    <3>3. QED
      BY <1>2, <3>1, <3>2
  <2> HIDE DEF x, y, P, Q
  <2>4. ASSUME NEW e \in OutcomeRelation(t)
        PROVE  <<<<"turn", e[1]>>, e[2], e[3]>>
                   \in {<<<<"turn", t>>, l.edge, l.node>> : l \in A \cup B}
    BY <2>3
  <2>5. ASSUME NEW l \in A \cup B
        PROVE  <<<<"turn", t>>, l.edge, l.node>>
                   \in {<<<<"turn", e[1]>>, e[2], e[3]>> : e \in OutcomeRelation(t)}
    <3>1. <<t, l.edge, l.node>> \in OutcomeRelation(t)
      BY <2>2
    <3>2. QED
      BY <3>1
  <2>6. QED
    BY <2>1, <2>4, <2>5
<1>11. QED
  BY <1>9, <1>10 DEF LinksFor, c

(* The edges of what was read, by turn: those of its decision and, where    *)
(* its outcome was read closed, those of that.                              *)
LEMMA AskedByTurn ==
    ASSUME NEW known, known.turns \subseteq Listed, NEW e
    PROVE  e \in Asked(known) <=>
              \E t \in known.turns :
                 \/ e \in LinkEdges(t, DecisionLinks(t))
                 \/ t \in known.closed /\ e \in LinkEdges(t, OutcomeLinks(t))
<1> DEFINE named(x) == <<<<"turn", x[1]>>, x[2], x[3]>>
<1>1. e \in Asked(known) <=> \E x \in Relation(known) : e = named(x)
  BY DEF Asked
<1>2. ASSUME NEW t \in known.turns
      PROVE  /\ e \in LinkEdges(t, DecisionLinks(t))
                   <=> \E x \in DecisionRelation(t) : e = named(x)
             /\ e \in LinkEdges(t, OutcomeLinks(t))
                   <=> \E x \in OutcomeRelation(t) : e = named(x)
  BY LinksOfDecision, LinksOfOutcome DEF LinksFor
<1>3. \A x : x \in Relation(known) <=>
              \/ \E t \in known.turns : x \in DecisionRelation(t)
              \/ \E t \in known.turns : t \in known.closed /\ x \in OutcomeRelation(t)
  BY InRelation
<1> HIDE DEF named
<1>4. QED
  BY <1>1, <1>2, <1>3

(* Edges tell whose they are, and of which statement.                       *)
LEMMA EdgeTells ==
    ASSUME NEW t, NEW ls, NEW e \in LinkEdges(t, ls)
    PROVE  e[1] = <<"turn", t>> /\ \E l \in Range(ls) : e[2] = l.edge /\ e[3] = l.node
  BY DEF LinkEdges

(* An edge tells the statement it was drawn from, and none leads to a      *)
(* turn.                                                                   *)
LEMMA KindTells ==
    ASSUME NEW t \in Listed, NEW e
    PROVE  /\ e \in LinkEdges(t, DecisionLinks(t)) =>
                 /\ e[2] \in {"in_session", "routed_to", "decided_by"}
                 /\ e[3][1] # "turn"
           /\ e \in LinkEdges(t, OutcomeLinks(t)) =>
                 /\ e[2] \in {"escalated_to", "tripped"}
                 /\ e[3][1] # "turn"
<1>1. \A x \in DecisionRelation(t) :
         x[2] \in {"in_session", "routed_to", "decided_by"} /\ x[3][1] # "turn"
  BY DEF DecisionRelation
<1>2. \A x \in OutcomeRelation(t) :
         x[2] \in {"escalated_to", "tripped"} /\ x[3][1] # "turn"
  BY DEF OutcomeRelation
<1>3. QED
  BY <1>1, <1>2, LinksOfDecision, LinksOfOutcome DEF LinksFor

(* upsert_node gives a node one place, whether it was there or not, and     *)
(* moves no other.                                                          *)
LEMMA UpsertedOnce ==
    ASSUME nodes \in Seq(Names), IsInjective(nodes), NEW node \in Names
    PROVE  /\ Upserted(node) \in Seq(Names) /\ IsInjective(Upserted(node))
           /\ IdOf(node) \in DOMAIN Upserted(node) /\ Upserted(node)[IdOf(node)] = node
           /\ Range(Upserted(node)) = Range(nodes) \cup {node}
           /\ DOMAIN nodes \subseteq DOMAIN Upserted(node)
           /\ \A i \in DOMAIN nodes : Upserted(node)[i] = nodes[i]
           /\ IdOf(node) \in Nat
<1>1. Len(nodes) \in Nat /\ DOMAIN nodes = 1 .. Len(nodes)
  OBVIOUS
<1>2. CASE node \in Range(nodes)
  <2>1. \E i \in DOMAIN nodes : nodes[i] = node
    BY <1>2 DEF Range
  <2>2. IdOf(node) \in DOMAIN nodes /\ nodes[IdOf(node)] = node
    BY <1>2, <2>1 DEF IdOf
  <2>3. Upserted(node) = nodes
    BY <1>2 DEF Upserted
  <2>4. QED
    BY <1>1, <1>2, <2>2, <2>3
<1>3. CASE node \notin Range(nodes)
  <2>1. IdOf(node) = Len(nodes) + 1 /\ Upserted(node) = Append(nodes, node)
    BY <1>3 DEF IdOf, Upserted
  <2> DEFINE new == Append(nodes, node)
  <2>2. /\ new \in Seq(Names) /\ DOMAIN new = 1 .. Len(nodes) + 1
        /\ new[Len(nodes) + 1] = node
        /\ \A i \in DOMAIN nodes : new[i] = nodes[i]
    BY <1>1
  <2> HIDE DEF new
  <2>3. \A i \in DOMAIN nodes : nodes[i] # node
    BY <1>3 DEF Range
  <2>4. IsInjective(new)
    <3> SUFFICES ASSUME NEW i \in 1 .. Len(nodes) + 1, NEW j \in 1 .. Len(nodes) + 1, new[i] = new[j]
                 PROVE  i = j
      BY <2>2 DEF IsInjective
    <3>1. i \in DOMAIN nodes \/ i = Len(nodes) + 1
      BY <1>1
    <3>2. j \in DOMAIN nodes \/ j = Len(nodes) + 1
      BY <1>1
    <3>3. QED
      BY <2>2, <2>3, <3>1, <3>2 DEF IsInjective
  <2>5. Range(new) = Range(nodes) \cup {node}
    <3>1. \A i \in 1 .. Len(nodes) + 1 : i \in DOMAIN nodes \/ i = Len(nodes) + 1
      BY <1>1
    <3>2. Len(nodes) + 1 \in 1 .. Len(nodes) + 1 /\ DOMAIN nodes \subseteq 1 .. Len(nodes) + 1
      BY <1>1
    <3>3. QED
      BY <2>2, <3>1, <3>2 DEF Range
  <2>6. QED
    BY <1>1, <2>1, <2>2, <2>4, <2>5 DEF new
<1>4. QED
  BY <1>2, <1>3

(* A node that is upserted changes no edge.                                 *)
LEMMA GraphGrows ==
    ASSUME GraphWhole, NEW node \in Names, nodes' = Upserted(node), edges' = edges
    PROVE  GraphWhole' /\ DrawnEdges' = DrawnEdges
<1>1. /\ nodes' \in Seq(Names) /\ IsInjective(nodes') /\ DOMAIN nodes \subseteq DOMAIN nodes'
      /\ \A i \in DOMAIN nodes : nodes'[i] = nodes[i]
  BY UpsertedOnce DEF GraphWhole
<1>2. \A e \in DOMAIN edges : e.src \in DOMAIN nodes /\ e.dst \in DOMAIN nodes
  BY DEF GraphWhole
<1>3. DrawnEdges' = DrawnEdges
  BY <1>1, <1>2 DEF DrawnEdges
<1>4. \A e \in DOMAIN edges : e \in [src : DOMAIN nodes', dst : DOMAIN nodes', kind : EdgeKinds]
  BY <1>1 DEF GraphWhole
<1>5. \A e \in DOMAIN edges' : edges'[e] = 1
  BY DEF GraphWhole
<1>6. GraphWhole'
  BY <1>1, <1>4, <1>5 DEF GraphWhole
<1>7. QED
  BY <1>3, <1>6

(* The edges left, turn by turn. *)
LEMMA LeftByTurn ==
    ASSUME NEW r, NEW e
    PROVE  e \in EdgesLeft(r) <=>
              \E t \in due[r] : t \in read[r].turns /\ e \in LinkEdges(t, LinksAt(r, t))
  BY DEF EdgesLeft

(* A rebuild that does nothing keeps what it has, or is disturbed.          *)
LEMMA Untouched ==
    ASSUME NEW r \in Rebuilders, RebuildKept(r),
           pc'[r] = pc[r], due'[r] = due[r], links'[r] = links[r],
           turnId'[r] = turnId[r], otherId'[r] = otherId[r], read'[r] = read[r],
           \/ UNCHANGED graph /\ (disturbed'[r] = disturbed[r])
           \/ pc[r] # "idle" => disturbed'[r]
    PROVE  RebuildKept(r)'
<1>1. pc[r] \in {"idle", "delete"} => due'[r] = {} /\ turnId'[r] = Null /\ otherId'[r] = Null
  BY DEF RebuildKept
<1>2. CASE pc[r] # "idle" => disturbed'[r]
  BY <1>1, <1>2 DEF RebuildKept
<1>3. CASE UNCHANGED graph /\ (disturbed'[r] = disturbed[r])
  <2>1. nodes' = nodes /\ edges' = edges
    BY <1>3 DEF graph
  <2>2. \A t : LinksAt(r, t)' = LinksAt(r, t)
    BY DEF LinksAt, AtHand, PhaseLinks
  <2>3. EdgesLeft(r)' = EdgesLeft(r)
    BY <2>2 DEF EdgesLeft
  <2>4. Drawing(r) => Drawing(r)'
    BY <2>1, <2>3 DEF Drawing, GraphWhole, Reads, Holds, Halves, Entered, AtHand, DrawnEdges
  <2>5. ~disturbed'[r] => ~disturbed[r]
    BY <1>3
  <2>6. QED
    BY <1>1, <2>1, <2>4, <2>5 DEF RebuildKept
<1>4. QED
  BY <1>2, <1>3

(* The turn of a decision is entered: its links are those still to draw.    *)
LEMMA EnterKeeps ==
    ASSUME GraphTypes, NEW r \in Rebuilders, RebuildKept(r), EnterTurn(r)
    PROVE  RebuildKept(r)'
<1>1. /\ pc[r] = "decisions" /\ pc'[r] = "decisions" /\ turnId[r] = Null /\ due[r] # {}
      /\ due'[r] = due[r] /\ otherId'[r] = otherId[r] /\ read'[r] = read[r] /\ edges' = edges
      /\ disturbed'[r] = disturbed[r]
  <2>1. disturbed[r] \in BOOLEAN
    BY DEF GraphTypes
  <2>2. disturbed'[r] = (disturbed[r] \/ (r # r /\ pc[r] # "idle"))
    BY DEF EnterTurn, Disturb
  <2>3. disturbed'[r] = disturbed[r]
    BY <2>1, <2>2
  <2>4. QED
    BY <2>3 DEF EnterTurn, GraphTypes
<1> SUFFICES ASSUME ~disturbed[r] PROVE Drawing(r)'
  BY <1>1 DEF RebuildKept
<1> DEFINE t == First(due[r])
           node == <<"turn", t>>
<1>2. Drawing(r)
  BY <1>1 DEF RebuildKept
<1>3. /\ t \in due[r] /\ t \in read[r].turns /\ t \in Listed
      /\ due[r] \subseteq read[r].turns /\ read[r].turns \subseteq Listed
  <2>1. due[r] \subseteq read[r].turns /\ read[r].turns \subseteq Listed
    BY <1>1, <1>2 DEF Drawing, Reads
  <2>2. QED
    BY <1>1, <2>1, FirstOfThem
<1>4. /\ turnId'[r] = IdOf(node) /\ nodes' = Upserted(node) /\ links'[r] = DecisionLinks(t)
  BY DEF EnterTurn, GraphTypes
<1>5. node \in Names
  BY <1>3, NamesOfTurn
<1>6. /\ IdOf(node) \in DOMAIN nodes' /\ nodes'[IdOf(node)] = node
      /\ Range(nodes') = Range(nodes) \cup {node} /\ IdOf(node) # Null
  BY <1>2, <1>4, <1>5, UpsertedOnce, GraphAssumption DEF Drawing, GraphWhole
<1>7. GraphWhole' /\ DrawnEdges' = DrawnEdges
  BY <1>1, <1>2, <1>4, <1>5, GraphGrows DEF Drawing
<1>8. otherId[r] = Null
  BY <1>1, <1>2 DEF Drawing, Holds
<1>9. Reads(r)'
  BY <1>1, <1>2 DEF Drawing, Reads
<1>10. Holds(r)'
  <2>1. links'[r] # <<>> /\ IsLinks(links'[r])
    BY <1>3, <1>4, LinksOfDecision DEF LinksFor
  <2>2. First(due'[r]) = t
    BY <1>1
  <2>3. QED
    BY <1>1, <1>3, <1>4, <1>6, <1>8, <2>1, <2>2 DEF Holds
<1>11. AtHand(r) = {} /\ AtHand(r)' = {t}
  BY <1>1, <1>4, <1>6 DEF AtHand
<1>12. EdgesLeft(r)' = EdgesLeft(r)
  <2>1. \A u : LinksAt(r, u)' = LinksAt(r, u)
    BY <1>1, <1>4, <1>11 DEF LinksAt, PhaseLinks
  <2>2. QED
    BY <1>1, <2>1 DEF EdgesLeft
<1>13. Halves(r)'
  <2>1. Entered(r)' = Entered(r) \cup {t}
    BY <1>1, <1>3, <1>11 DEF Entered
  <2>2. {<<"turn", u>> : u \in Entered(r)'} = {<<"turn", u>> : u \in Entered(r)} \cup {node}
    BY <2>1
  <2>3. {nodes[i] : i \in {otherId[r]} \ {Null}} = {} /\ {nodes'[i] : i \in {otherId'[r]} \ {Null}} = {}
    BY <1>1, <1>8
  <2>4. Range(nodes') = {<<"turn", u>> : u \in Entered(r)'} \cup {e[3] : e \in DrawnEdges'}
                            \cup {nodes'[i] : i \in {otherId'[r]} \ {Null}}
    BY <1>2, <1>6, <1>7, <2>2, <2>3 DEF Drawing, Halves
  <2>5. QED
    BY <1>1, <1>2, <1>7, <1>12, <2>4 DEF Drawing, Halves
<1>14. QED
  BY <1>7, <1>9, <1>10, <1>13 DEF Drawing

(* The node of the next link is there when its edge is drawn.               *)
LEMMA UpsertKeeps ==
    ASSUME GraphTypes, NEW r \in Rebuilders, RebuildKept(r), UpsertOther(r)
    PROVE  RebuildKept(r)'
<1>1. /\ pc'[r] = pc[r] /\ turnId[r] # Null /\ otherId[r] = Null /\ links'[r] = links[r]
      /\ due'[r] = due[r] /\ turnId'[r] = turnId[r] /\ read'[r] = read[r] /\ edges' = edges
      /\ disturbed'[r] = disturbed[r] /\ pc[r] \in {"decisions", "outcomes"}
  <2>1. disturbed[r] \in BOOLEAN
    BY DEF GraphTypes
  <2>2. disturbed'[r] = (disturbed[r] \/ (r # r /\ pc[r] # "idle"))
    BY DEF UpsertOther, Disturb
  <2>3. disturbed'[r] = disturbed[r]
    BY <2>1, <2>2
  <2>4. turnId[r] # Null /\ pc[r] \in {"decisions", "outcomes"}
    BY DEF UpsertOther, GraphTypes, RebuildKept
  <2>5. QED
    BY <2>3, <2>4 DEF UpsertOther, GraphTypes
<1> SUFFICES ASSUME ~disturbed[r] PROVE Drawing(r)'
  BY <1>1 DEF RebuildKept
<1> DEFINE node == Head(links[r]).node
<1>2. Drawing(r)
  BY <1>1 DEF RebuildKept
<1>3. otherId'[r] = IdOf(node) /\ nodes' = Upserted(node)
  BY DEF UpsertOther, GraphTypes
<1>4. node \in Names
  <2>1. links[r] \in Seq(LinkSet) /\ links[r] # <<>>
    BY <1>1, <1>2 DEF Drawing, Holds, IsLinks
  <2>2. Head(links[r]) \in LinkSet
    BY <2>1
  <2>3. QED
    BY <2>2 DEF LinkSet
<1>5. /\ IdOf(node) \in DOMAIN nodes' /\ nodes'[IdOf(node)] = node
      /\ Range(nodes') = Range(nodes) \cup {node} /\ IdOf(node) # Null
      /\ DOMAIN nodes \subseteq DOMAIN nodes' /\ \A i \in DOMAIN nodes : nodes'[i] = nodes[i]
  BY <1>2, <1>3, <1>4, UpsertedOnce, GraphAssumption DEF Drawing, GraphWhole
<1>6. GraphWhole' /\ DrawnEdges' = DrawnEdges
  BY <1>1, <1>2, <1>3, <1>4, GraphGrows DEF Drawing
<1>7. Reads(r)'
  BY <1>1, <1>2 DEF Drawing, Reads
<1>8. Holds(r)'
  <2>1. Holds(r)
    BY <1>2 DEF Drawing
  <2>2. turnId[r] \in DOMAIN nodes /\ turnId[r] \in DOMAIN nodes' /\ nodes'[turnId[r]] = nodes[turnId[r]]
    BY <1>1, <1>5, <2>1 DEF Holds
  <2>3. QED
    BY <1>1, <1>3, <1>5, <2>1, <2>2 DEF Holds
<1>9. AtHand(r)' = AtHand(r) /\ Entered(r)' = Entered(r)
  BY <1>1 DEF AtHand, Entered
<1>10. EdgesLeft(r)' = EdgesLeft(r)
  <2>1. \A u : LinksAt(r, u)' = LinksAt(r, u)
    BY <1>1, <1>9 DEF LinksAt, PhaseLinks
  <2>2. QED
    BY <1>1, <2>1 DEF EdgesLeft
<1>11. Halves(r)'
  <2>1. {nodes[i] : i \in {otherId[r]} \ {Null}} = {} /\ {nodes'[i] : i \in {otherId'[r]} \ {Null}} = {node}
    BY <1>1, <1>3, <1>5
  <2>2. Range(nodes') = {<<"turn", u>> : u \in Entered(r)'} \cup {e[3] : e \in DrawnEdges'}
                            \cup {nodes'[i] : i \in {otherId'[r]} \ {Null}}
    BY <1>2, <1>5, <1>6, <1>9, <2>1 DEF Drawing, Halves
  <2>3. QED
    BY <1>1, <1>2, <1>6, <1>10, <2>2 DEF Drawing, Halves
<1>12. QED
  BY <1>6, <1>7, <1>8, <1>11 DEF Drawing

(* A rebuild that dies or ends holds nothing; one that starts finds nothing.*)
LEMMA LeaveKeeps ==
    ASSUME GraphTypes, NEW r \in Rebuilders, RebuildKept(r), Leave(r)
    PROVE  RebuildKept(r)'
<1>1. pc'[r] = "idle" /\ due'[r] = {} /\ turnId'[r] = Null /\ otherId'[r] = Null
  BY DEF Leave, GraphTypes
<1>2. QED
  BY <1>1 DEF RebuildKept

(* A rebuild that starts empties the tables. *)
LEMMA BeginKeeps ==
    ASSUME GraphTypes, NEW r \in Rebuilders, RebuildKept(r), Start(r)
    PROVE  RebuildKept(r)'
<1>1. /\ pc[r] = "idle" /\ pc'[r] = "delete" /\ due'[r] = due[r] /\ turnId'[r] = turnId[r]
      /\ otherId'[r] = otherId[r] /\ nodes' = <<>> /\ edges' = EmptyBag
  BY DEF Start, GraphTypes
<1>2. QED
  BY <1>1 DEF RebuildKept

(* The emptied tables, and every edge of the decisions read still to draw.  *)
LEMMA ReadDecisionsKeeps ==
    ASSUME GraphTypes, NEW r \in Rebuilders, RebuildKept(r), ReadDecisions(r)
    PROVE  RebuildKept(r)'
<1>1. /\ pc[r] = "delete" /\ pc'[r] = "decisions" /\ turnId'[r] = turnId[r] /\ otherId'[r] = otherId[r]
      /\ due'[r] = decisions /\ read'[r] = [turns |-> decisions, closed |-> {}]
      /\ nodes' = nodes /\ edges' = edges /\ disturbed' = disturbed
  BY DEF ReadDecisions, GraphTypes, graph
<1> SUFFICES ASSUME ~disturbed[r] PROVE Drawing(r)'
  BY <1>1 DEF RebuildKept
<1>2. nodes = <<>> /\ edges = EmptyBag /\ turnId[r] = Null /\ otherId[r] = Null
  BY <1>1 DEF RebuildKept
<1>3. DOMAIN edges' = {} /\ DOMAIN nodes' = {} /\ nodes' = <<>>
  BY <1>1, <1>2 DEF EmptyBag, SetToBag
<1>4. GraphWhole' /\ DrawnEdges' = {} /\ Range(nodes') = {}
  <2>1. nodes' \in Seq(Names)
    BY <1>3
  <2>2. IsInjective(nodes') /\ Range(nodes') = {} /\ DrawnEdges' = {}
    BY <1>3 DEF IsInjective, Range, DrawnEdges
  <2>3. QED
    BY <1>3, <2>1, <2>2 DEF GraphWhole
<1>5. decisions \subseteq Listed /\ read'[r].turns = decisions /\ read'[r].closed = {}
  BY <1>1 DEF GraphTypes
<1>6. Reads(r)' /\ Holds(r)'
  BY <1>1, <1>2, <1>5 DEF Reads, Holds
<1>7. AtHand(r)' = {}
  BY <1>1, <1>2 DEF AtHand
<1>8. EdgesLeft(r)' = Asked(read'[r])
  <2>1. \A e : e \in EdgesLeft(r)' <=> \E t \in decisions : e \in LinkEdges(t, DecisionLinks(t))
    BY <1>1, <1>5, <1>7 DEF EdgesLeft, LinksAt, PhaseLinks
  <2>2. \A e : e \in Asked(read'[r]) <=> \E t \in decisions : e \in LinkEdges(t, DecisionLinks(t))
    BY <1>5, AskedByTurn
  <2>3. QED
    BY <2>1, <2>2
<1>9. Halves(r)'
  <2>1. Entered(r)' = {}
    BY <1>1, <1>5, <1>7 DEF Entered
  <2>2. {nodes'[i] : i \in {otherId'[r]} \ {Null}} = {}
    BY <1>1, <1>2
  <2>3. QED
    BY <1>4, <1>8, <2>1, <2>2 DEF Halves
<1>10. QED
  BY <1>4, <1>6, <1>9 DEF Drawing

(* The decisions are drawn; the edges of the outcomes read are to draw.     *)
LEMMA ReadOutcomesKeeps ==
    ASSUME GraphTypes, NEW r \in Rebuilders, RebuildKept(r), ReadOutcomes(r)
    PROVE  RebuildKept(r)'
<1> DEFINE known == [read[r] EXCEPT !.closed = closed]
<1>1. /\ pc[r] = "decisions" /\ pc'[r] = "outcomes" /\ turnId'[r] = turnId[r] /\ otherId'[r] = otherId[r]
      /\ due[r] = {} /\ due'[r] = {t \in closed : OutcomeLinks(t) # <<>>} /\ read'[r] = known
      /\ nodes' = nodes /\ edges' = edges /\ disturbed' = disturbed
  BY DEF ReadOutcomes, GraphTypes, graph
<1> SUFFICES ASSUME ~disturbed[r] PROVE Drawing(r)'
  BY <1>1 DEF RebuildKept
<1>2. Drawing(r)
  BY <1>1 DEF RebuildKept
<1>3. /\ read[r] \in [turns : SUBSET Listed, closed : SUBSET Listed] /\ read[r].closed = {}
      /\ read'[r].turns = read[r].turns /\ read'[r].closed = closed
      /\ closed \subseteq Listed
      /\ read'[r] \in [turns : SUBSET Listed, closed : SUBSET Listed]
  BY <1>1, <1>2 DEF Drawing, Reads, GraphTypes
<1>4. turnId[r] = Null /\ otherId[r] = Null
  BY <1>1, <1>2 DEF Drawing, Holds
<1>5. GraphWhole' /\ DrawnEdges' = DrawnEdges
  BY <1>1, <1>2 DEF Drawing, GraphWhole, DrawnEdges
<1>6. Reads(r)' /\ Holds(r)'
  BY <1>1, <1>3, <1>4 DEF Reads, Holds
<1>7. AtHand(r)' = {} /\ AtHand(r) = {}
  BY <1>1, <1>4 DEF AtHand
<1>8. DrawnEdges = Asked(read[r])
  <2>1. EdgesLeft(r) = {}
    BY <1>1 DEF EdgesLeft
  <2>2. QED
    BY <1>2, <2>1 DEF Drawing, Halves
<1> DEFINE turns == read[r].turns
<1>9. \A e : e \in DrawnEdges <=> \E t \in turns : e \in LinkEdges(t, DecisionLinks(t))
  BY <1>3, <1>8, AskedByTurn
<1>10. \A e : e \in EdgesLeft(r)' <=>
           \E t \in turns : t \in closed /\ e \in LinkEdges(t, OutcomeLinks(t))
  <2>1. \A t : LinksAt(r, t)' = OutcomeLinks(t)
    BY <1>1, <1>7 DEF LinksAt, PhaseLinks
  <2>2. \A e : e \in EdgesLeft(r)' <=>
            \E t \in turns : t \in closed /\ OutcomeLinks(t) # <<>> /\ e \in LinkEdges(t, OutcomeLinks(t))
    BY <1>1, <1>3, <2>1 DEF EdgesLeft
  <2>3. ASSUME NEW t, NEW e, e \in LinkEdges(t, OutcomeLinks(t))
        PROVE  OutcomeLinks(t) # <<>>
    BY <2>3 DEF LinkEdges, Range
  <2>4. QED
    BY <2>2, <2>3
<1>11. \A e : e \in Asked(read'[r]) <=>
           \E t \in turns : \/ e \in LinkEdges(t, DecisionLinks(t))
                            \/ t \in closed /\ e \in LinkEdges(t, OutcomeLinks(t))
  BY <1>3, AskedByTurn
<1>12. Halves(r)'
  <2>1. DrawnEdges' \cup EdgesLeft(r)' = Asked(read'[r])
    BY <1>5, <1>9, <1>10, <1>11
  <2>2. DrawnEdges' \cap EdgesLeft(r)' = {}
    BY <1>3, <1>5, <1>9, <1>10, KindTells
  <2>3. Entered(r)' = Entered(r)
    BY <1>1, <1>3, <1>7 DEF Entered
  <2>4. Range(nodes') = {<<"turn", t>> : t \in Entered(r)'} \cup {e[3] : e \in DrawnEdges'}
                            \cup {nodes'[i] : i \in {otherId'[r]} \ {Null}}
    BY <1>1, <1>2, <1>5, <2>3 DEF Drawing, Halves
  <2>5. QED
    BY <2>1, <2>2, <2>4 DEF Halves
<1>13. QED
  BY <1>5, <1>6, <1>12 DEF Drawing

(* A turn is found when its decision was read, and only then: nothing else  *)
(* has such a name.                                                         *)
LEMMA FindTurnKeeps ==
    ASSUME GraphTypes, NEW r \in Rebuilders, RebuildKept(r), FindTurn(r)
    PROVE  RebuildKept(r)'
<1> DEFINE t == First(due[r])
           node == <<"turn", t>>
<1>1. /\ pc[r] = "outcomes" /\ pc'[r] = "outcomes" /\ due[r] # {} /\ turnId[r] = Null
      /\ otherId'[r] = otherId[r] /\ read'[r] = read[r]
      /\ nodes' = nodes /\ edges' = edges /\ disturbed' = disturbed
  BY DEF FindTurn, GraphTypes, graph
<1> SUFFICES ASSUME ~disturbed[r] PROVE Drawing(r)'
  BY <1>1 DEF RebuildKept
<1>2. Drawing(r)
  BY <1>1 DEF RebuildKept
<1>3. /\ t \in due[r] /\ t \in Listed /\ OutcomeLinks(t) # <<>>
      /\ read[r].turns \subseteq Listed
      /\ due[r] \subseteq {u \in read[r].closed : OutcomeLinks(u) # <<>>}
  <2>1. /\ due[r] \subseteq {u \in read[r].closed : OutcomeLinks(u) # <<>>}
        /\ read[r].closed \subseteq Listed /\ read[r].turns \subseteq Listed
    BY <1>1, <1>2 DEF Drawing, Reads
  <2>2. due[r] \subseteq Listed
    BY <2>1
  <2>3. t \in due[r]
    BY <1>1, <2>2, FirstOfThem
  <2>4. QED
    BY <2>1, <2>2, <2>3
<1>4. otherId[r] = Null
  BY <1>1, <1>2 DEF Drawing, Holds
<1>5. node \in Range(nodes) <=> t \in read[r].turns
  <2>1. Range(nodes) = {<<"turn", u>> : u \in read[r].turns} \cup {e[3] : e \in DrawnEdges}
    <3>1. Entered(r) = read[r].turns
      BY <1>1 DEF Entered
    <3>2. {nodes[i] : i \in {otherId[r]} \ {Null}} = {}
      BY <1>4
    <3>3. QED
      BY <1>2, <3>1, <3>2 DEF Drawing, Halves
  <2>2. ASSUME NEW e \in DrawnEdges PROVE e[3] # node
    <3>1. e \in Asked(read[r])
      BY <1>2 DEF Drawing, Halves
    <3>2. PICK u \in read[r].turns :
             \/ e \in LinkEdges(u, DecisionLinks(u))
             \/ e \in LinkEdges(u, OutcomeLinks(u))
      BY <1>3, <3>1, AskedByTurn
    <3>3. e[3][1] # "turn"
      BY <1>3, <3>2, KindTells
    <3>4. QED
      BY <3>3
  <2>3. QED
    BY <2>1, <2>2
<1>6. GraphWhole' /\ DrawnEdges' = DrawnEdges
  BY <1>1, <1>2 DEF Drawing, GraphWhole, DrawnEdges
<1>7. CASE node \in Range(nodes)
  <2>1. turnId'[r] = IdOf(node) /\ links'[r] = OutcomeLinks(t) /\ due'[r] = due[r]
    BY <1>7 DEF FindTurn, GraphTypes
  <2>2. IdOf(node) \in DOMAIN nodes /\ nodes[IdOf(node)] = node /\ IdOf(node) # Null
    <3>1. \E i \in DOMAIN nodes : nodes[i] = node
      BY <1>7 DEF Range
    <3>2. IdOf(node) \in DOMAIN nodes /\ nodes[IdOf(node)] = node
      BY <1>7, <3>1 DEF IdOf
    <3>3. DOMAIN nodes \subseteq Nat
      BY <1>2 DEF Drawing, GraphWhole
    <3>4. QED
      BY <3>2, <3>3, GraphAssumption
  <2>3. IsLinks(OutcomeLinks(t))
    BY <1>3, LinksOfOutcome DEF LinksFor
  <2>4. Reads(r)' /\ Holds(r)'
    <3>1. Reads(r)'
      BY <1>1, <1>2, <2>1 DEF Drawing, Reads
    <3>2. First(due'[r]) = t
      BY <2>1
    <3>3. t \in read[r].turns
      BY <1>5, <1>7
    <3>4. Holds(r)'
      BY <1>1, <1>3, <1>4, <2>1, <2>2, <2>3, <3>2, <3>3 DEF Holds
    <3>5. QED
      BY <3>1, <3>4
  <2>5. AtHand(r) = {} /\ AtHand(r)' = {t}
    BY <1>1, <2>1, <2>2 DEF AtHand
  <2>6. EdgesLeft(r)' = EdgesLeft(r)
    <3>1. \A u : LinksAt(r, u)' = LinksAt(r, u)
      BY <1>1, <2>1, <2>5 DEF LinksAt, PhaseLinks
    <3>2. QED
      BY <1>1, <2>1, <3>1 DEF EdgesLeft
  <2>7. Halves(r)'
    BY <1>1, <1>2, <1>6, <2>6 DEF Drawing, Halves, Entered
  <2>8. QED
    BY <1>6, <2>4, <2>7 DEF Drawing
<1>8. CASE node \notin Range(nodes)
  <2>1. due'[r] = due[r] \ {t} /\ turnId'[r] = Null /\ links'[r] = links[r]
    BY <1>1, <1>8 DEF FindTurn, GraphTypes
  <2>2. Reads(r)' /\ Holds(r)'
    BY <1>1, <1>2, <1>4, <2>1 DEF Drawing, Reads, Holds
  <2>3. AtHand(r) = {} /\ AtHand(r)' = {}
    BY <1>1, <2>1 DEF AtHand
  <2>4. EdgesLeft(r)' = EdgesLeft(r)
    <3>1. \A u : LinksAt(r, u)' = LinksAt(r, u)
      BY <1>1, <2>1, <2>3 DEF LinksAt, PhaseLinks
    <3>2. due'[r] \cap read[r].turns = due[r] \cap read[r].turns
      BY <1>5, <1>8, <2>1
    <3>3. QED
      BY <1>1, <3>1, <3>2 DEF EdgesLeft
  <2>5. Halves(r)'
    BY <1>1, <1>2, <1>6, <2>4 DEF Drawing, Halves, Entered
  <2>6. QED
    BY <1>6, <2>2, <2>5 DEF Drawing
<1>9. QED
  BY <1>7, <1>8

(* The first link of a turn stands for one edge, which the others do not.   *)
LEMMA LinkTaken ==
    ASSUME NEW t, NEW ls, IsLinks(ls), ls # <<>>
    PROVE  LET x == <<<<"turn", t>>, Head(ls).edge, Head(ls).node>>
           IN  /\ IsLinks(Tail(ls))
               /\ LinkEdges(t, ls) = LinkEdges(t, Tail(ls)) \cup {x}
               /\ x \notin LinkEdges(t, Tail(ls))
               /\ Len(ls) = 1 <=> Tail(ls) = <<>>
<1> DEFINE x == <<<<"turn", t>>, Head(ls).edge, Head(ls).node>>
           rest == Tail(ls)
<1>1. /\ ls \in Seq(LinkSet) /\ Len(ls) \in Nat /\ Len(ls) # 0 /\ DOMAIN ls = 1 .. Len(ls)
      /\ \A i, j \in DOMAIN ls : ls[i] = ls[j] => i = j
  BY DEF IsLinks
<1>2. /\ rest \in Seq(LinkSet) /\ Len(rest) = Len(ls) - 1 /\ DOMAIN rest = 1 .. Len(ls) - 1
      /\ \A i \in DOMAIN rest : i + 1 \in DOMAIN ls /\ rest[i] = ls[i + 1]
  BY <1>1
<1>3. Head(ls) = ls[1] /\ 1 \in DOMAIN ls /\ ls[1] \in LinkSet
  BY <1>1
<1> HIDE DEF rest
<1>4. IsLinks(rest)
  <2> SUFFICES ASSUME NEW i \in DOMAIN rest, NEW j \in DOMAIN rest, rest[i] = rest[j]
               PROVE  i = j
    BY <1>2 DEF IsLinks
  <2>1. i + 1 = j + 1
    BY <1>1, <1>2
  <2>2. i \in Int /\ j \in Int
    BY <1>1, <1>2
  <2>3. QED
    BY <2>1, <2>2
<1>5. Range(ls) = Range(rest) \cup {ls[1]} /\ ls[1] \notin Range(rest) /\ Range(rest) \subseteq LinkSet
  <2>1. ASSUME NEW i \in DOMAIN ls, i # 1
        PROVE  ls[i] \in Range(rest)
    <3>1. i - 1 \in DOMAIN rest /\ (i - 1) + 1 = i
      BY <1>1, <1>2, <2>1
    <3>2. rest[i - 1] = ls[i]
      BY <1>2, <3>1
    <3>3. QED
      BY <3>1, <3>2 DEF Range
  <2>2. ASSUME NEW i \in DOMAIN rest
        PROVE  rest[i] \in Range(ls) /\ rest[i] # ls[1] /\ rest[i] \in LinkSet
    <3>1. i \in 1 .. Len(ls) - 1 /\ i + 1 # 1
      BY <1>1, <1>2
    <3>2. rest[i] = ls[i + 1] /\ i + 1 \in DOMAIN ls
      BY <1>2
    <3>3. ls[i + 1] # ls[1]
      BY <1>1, <1>3, <3>1, <3>2
    <3>4. QED
      BY <1>1, <3>2, <3>3 DEF Range
  <2>3. ls[1] \in Range(ls)
    BY <1>3 DEF Range
  <2>4. \A l \in Range(ls) : l = ls[1] \/ l \in Range(rest)
    BY <2>1 DEF Range
  <2>5. \A l \in Range(rest) : l \in Range(ls) /\ l # ls[1] /\ l \in LinkSet
    BY <2>2 DEF Range
  <2>6. QED
    BY <2>3, <2>4, <2>5
<1>6. LinkEdges(t, ls) = LinkEdges(t, rest) \cup {x}
  BY <1>3, <1>5 DEF LinkEdges
<1>7. x \notin LinkEdges(t, rest)
  <2> SUFFICES ASSUME NEW l \in Range(rest), l.edge = ls[1].edge, l.node = ls[1].node
               PROVE  FALSE
    BY <1>3 DEF LinkEdges
  <2>1. l \in LinkSet /\ l # ls[1]
    BY <1>5
  <2>2. QED
    BY <1>3, <2>1 DEF LinkSet
<1>8. Len(ls) = 1 <=> rest = <<>>
  BY <1>1, <1>2
<1>9. QED
  BY <1>4, <1>6, <1>7, <1>8 DEF rest

(* An edge that was not there is there once, and no other is moved.         *)
LEMMA EdgeAdded ==
    ASSUME GraphWhole, NEW edge, edge \notin DOMAIN edges,
           edge \in [src : DOMAIN nodes, dst : DOMAIN nodes, kind : EdgeKinds],
           nodes' = nodes, edges' = edges (+) SetToBag({edge})
    PROVE  /\ GraphWhole'
           /\ DrawnEdges' = DrawnEdges \cup {<<nodes[edge.src], edge.kind, nodes[edge.dst]>>}
<1>1. DOMAIN edges' = DOMAIN edges \cup {edge}
  BY DEF (+), SetToBag
<1>2. \A e \in DOMAIN edges' : edges'[e] = 1
  <2>1. \A e \in DOMAIN edges : edges'[e] = edges[e] /\ edges[e] = 1
    BY DEF (+), SetToBag, GraphWhole
  <2>2. edges'[edge] = 1
    BY DEF (+), SetToBag
  <2>3. QED
    BY <1>1, <2>1, <2>2
<1>3. \A e \in DOMAIN edges' : e \in [src : DOMAIN nodes', dst : DOMAIN nodes', kind : EdgeKinds]
  BY <1>1 DEF GraphWhole
<1>4. GraphWhole'
  BY <1>2, <1>3 DEF GraphWhole
<1>5. DrawnEdges' = DrawnEdges \cup {<<nodes[edge.src], edge.kind, nodes[edge.dst]>>}
  BY <1>1 DEF DrawnEdges
<1>6. QED
  BY <1>4, <1>5

(* An edge drawn is one fewer to draw.                                      *)
LEMMA AddEdgeKeeps ==
    ASSUME GraphTypes, NEW r \in Rebuilders, RebuildKept(r), AddEdge(r)
    PROVE  RebuildKept(r)'
<1> DEFINE t == First(due[r])
           l == Head(links[r])
           last == Len(links[r]) = 1
           edge == [src |-> turnId[r], dst |-> otherId[r], kind |-> l.edge]
           x == <<<<"turn", t>>, l.edge, l.node>>
<1>1. /\ otherId[r] # Null /\ otherId'[r] = Null /\ pc'[r] = pc[r] /\ read'[r] = read[r]
      /\ nodes' = nodes /\ edges' = edges (+) SetToBag({edge}) /\ links'[r] = Tail(links[r])
      /\ disturbed'[r] = disturbed[r] /\ pc[r] \in {"decisions", "outcomes"}
  <2>1. disturbed[r] \in BOOLEAN
    BY DEF GraphTypes
  <2>2. disturbed'[r] = (disturbed[r] \/ (r # r /\ pc[r] # "idle"))
    BY DEF AddEdge, Disturb
  <2>3. disturbed'[r] = disturbed[r]
    BY <2>1, <2>2
  <2>4. otherId[r] # Null /\ pc[r] \in {"decisions", "outcomes"}
    BY DEF AddEdge, GraphTypes, RebuildKept
  <2>5. QED
    BY <2>3, <2>4 DEF AddEdge, GraphTypes
<1>2. /\ last => due'[r] = due[r] \ {t} /\ turnId'[r] = Null
      /\ ~last => due'[r] = due[r] /\ turnId'[r] = turnId[r]
  BY DEF AddEdge, GraphTypes
<1> SUFFICES ASSUME ~disturbed[r] PROVE Drawing(r)'
  BY <1>1 DEF RebuildKept
<1>3. Drawing(r)
  BY <1>1 DEF RebuildKept
<1>4. /\ turnId[r] # Null /\ due[r] # {} /\ t \in read[r].turns
      /\ turnId[r] \in DOMAIN nodes /\ nodes[turnId[r]] = <<"turn", t>>
      /\ otherId[r] \in DOMAIN nodes /\ nodes[otherId[r]] = l.node
      /\ links[r] # <<>> /\ IsLinks(links[r])
  BY <1>1, <1>3 DEF Drawing, Holds
<1>5. t \in due[r] /\ due[r] \subseteq Listed /\ read[r].turns \subseteq Listed
  <2>1. due[r] \subseteq Listed /\ read[r].turns \subseteq Listed
    BY <1>1, <1>3 DEF Drawing, Reads
  <2>2. QED
    BY <1>4, <2>1, FirstOfThem
<1>6. /\ IsLinks(links'[r])
      /\ LinkEdges(t, links[r]) = LinkEdges(t, links'[r]) \cup {x}
      /\ x \notin LinkEdges(t, links'[r])
      /\ last <=> links'[r] = <<>>
  BY <1>1, <1>4, LinkTaken
<1>7. AtHand(r) = {t} /\ LinksAt(r, t) = links[r]
  BY <1>4 DEF AtHand, LinksAt
<1>8. x \in EdgesLeft(r)
  BY <1>4, <1>5, <1>6, <1>7, LeftByTurn
<1>9. edge \notin DOMAIN edges
  <2>1. edge \in DOMAIN edges => x \in DrawnEdges
    BY <1>4 DEF DrawnEdges
  <2>2. QED
    BY <1>3, <1>8, <2>1 DEF Drawing, Halves
<1>10. edge \in [src : DOMAIN nodes, dst : DOMAIN nodes, kind : EdgeKinds]
  <2>1. l \in LinkSet
    BY <1>4 DEF IsLinks
  <2>2. l.edge \in EdgeKinds
    BY <2>1 DEF LinkSet
  <2>3. QED
    BY <1>4, <2>2
<1>11. GraphWhole' /\ DrawnEdges' = DrawnEdges \cup {x}
  <2> HIDE DEF edge
  <2>1. GraphWhole' /\ DrawnEdges' = DrawnEdges \cup {<<nodes[edge.src], edge.kind, nodes[edge.dst]>>}
    BY <1>1, <1>3, <1>9, <1>10, EdgeAdded DEF Drawing
  <2>2. <<nodes[edge.src], edge.kind, nodes[edge.dst]>> = x
    BY <1>4 DEF edge
  <2>3. QED
    BY <2>1, <2>2
<1>12. Reads(r)'
  BY <1>1, <1>2, <1>3 DEF Drawing, Reads
<1>13. Holds(r)'
  <2>1. CASE last
    BY <1>1, <1>2, <2>1 DEF Holds
  <2>2. CASE ~last
    <3>1. due'[r] = due[r] /\ turnId'[r] = turnId[r] /\ links'[r] # <<>>
      BY <1>2, <1>6, <2>2
    <3>2. First(due'[r]) = t
      BY <3>1
    <3> HIDE DEF t
    <3>3. QED
      BY <1>1, <1>4, <1>6, <3>1, <3>2 DEF Holds
  <2>3. QED
    BY <2>1, <2>2
<1>14. AtHand(r)' = IF last THEN {} ELSE {t}
  BY <1>2, <1>4 DEF AtHand
<1>15. \A u : u # t => LinksAt(r, u)' = LinksAt(r, u)
  BY <1>1, <1>7, <1>14 DEF LinksAt, PhaseLinks
<1>16. \A e : e \in EdgesLeft(r)' <=> e \in EdgesLeft(r) /\ e # x
  <2> TAKE e
  <2>1. e \in EdgesLeft(r) <=>
           \/ e \in LinkEdges(t, links[r])
           \/ \E u \in due[r] : u # t /\ u \in read[r].turns /\ e \in LinkEdges(u, LinksAt(r, u))
    BY <1>4, <1>5, <1>7, LeftByTurn
  <2>2. e \in EdgesLeft(r)' <=>
           \/ e \in LinkEdges(t, links'[r])
           \/ \E u \in due[r] : u # t /\ u \in read[r].turns /\ e \in LinkEdges(u, LinksAt(r, u))
    <3>1. e \in EdgesLeft(r)' <=>
             \E u \in due'[r] : u \in read[r].turns /\ e \in LinkEdges(u, LinksAt(r, u)')
      BY <1>1 DEF EdgesLeft
    <3>2. CASE last
      <4>1. e \notin LinkEdges(t, links'[r])
        BY <1>6, <3>2 DEF LinkEdges, Range
      <4>2. due'[r] = due[r] \ {t}
        BY <1>2, <3>2
      <4>3. QED
        BY <1>15, <3>1, <4>1, <4>2
    <3>3. CASE ~last
      <4>1. due'[r] = due[r] /\ t \in AtHand(r)'
        BY <1>2, <1>14, <3>3
      <4>2. LinksAt(r, t)' = links'[r]
        BY <4>1 DEF LinksAt
      <4>3. QED
        BY <1>4, <1>5, <1>15, <3>1, <4>1, <4>2
    <3>4. QED
      BY <3>2, <3>3
  <2>3. ASSUME NEW u, u # t, e \in LinkEdges(u, LinksAt(r, u))
        PROVE  e # x
    BY <2>3 DEF LinkEdges
  <2>4. QED
    BY <1>6, <2>1, <2>2, <2>3
<1>17. Halves(r)'
  <2>1. DrawnEdges' \cup EdgesLeft(r)' = Asked(read'[r])
    <3>1. DrawnEdges \cup EdgesLeft(r) = Asked(read[r])
      BY <1>3 DEF Drawing, Halves
    <3>2. QED
      BY <1>1, <1>8, <1>11, <1>16, <3>1
  <2>2. DrawnEdges' \cap EdgesLeft(r)' = {}
    BY <1>3, <1>11, <1>16 DEF Drawing, Halves
  <2>3. Entered(r)' = Entered(r)
    <3>1. CASE last
      BY <1>1, <1>2, <1>4, <1>5, <1>7, <1>14, <3>1 DEF Entered
    <3>2. CASE ~last
      BY <1>1, <1>2, <1>7, <1>14, <3>2 DEF Entered
    <3>3. QED
      BY <3>1, <3>2
  <2>4. Range(nodes') = {<<"turn", u>> : u \in Entered(r)'} \cup {e[3] : e \in DrawnEdges'}
                            \cup {nodes'[i] : i \in {otherId'[r]} \ {Null}}
    <3>1. {nodes[i] : i \in {otherId[r]} \ {Null}} = {l.node}
      BY <1>1, <1>4
    <3>2. {nodes'[i] : i \in {otherId'[r]} \ {Null}} = {}
      BY <1>1
    <3>3. {e[3] : e \in DrawnEdges'} = {e[3] : e \in DrawnEdges} \cup {l.node}
      <4>1. x[3] = l.node
        OBVIOUS
      <4> HIDE DEF x, l
      <4>2. QED
        BY <1>11, <4>1
    <3>4. Range(nodes) = {<<"turn", u>> : u \in Entered(r)} \cup {e[3] : e \in DrawnEdges}
                             \cup {nodes[i] : i \in {otherId[r]} \ {Null}}
      BY <1>3 DEF Drawing, Halves
    <3>5. QED
      BY <1>1, <2>3, <3>1, <3>2, <3>3, <3>4
  <2>5. QED
    BY <2>1, <2>2, <2>4 DEF Halves
<1>18. QED
  BY <1>11, <1>12, <1>13, <1>17 DEF Drawing

(* A graph all of whose edges are drawn is the one that was asked for.      *)
LEMMA DrawnIsRebuilt ==
    ASSUME NEW r \in Rebuilders, Drawing(r), pc[r] = "outcomes", due[r] = {},
           UNCHANGED graph, settled' = read[r]
    PROVE  GraphSettled' /\ Rebuilt'
<1>1. nodes' = nodes /\ edges' = edges
  BY DEF graph
<1>2. GraphSettled'
  BY <1>1 DEF GraphSettled, GraphWhole, Drawing, Reads
<1>3. otherId[r] = Null
  BY DEF Drawing, Holds
<1>4. DrawnEdges = Asked(read[r])
  <2>1. EdgesLeft(r) = {}
    BY DEF EdgesLeft
  <2>2. QED
    BY <2>1 DEF Drawing, Halves
<1>5. Range(nodes) = {<<"turn", t>> : t \in read[r].turns} \cup {e[3] : e \in Asked(read[r])}
  <2>1. Entered(r) = read[r].turns
    BY DEF Entered
  <2>2. {nodes[i] : i \in {otherId[r]} \ {Null}} = {}
    BY <1>3
  <2>3. QED
    BY <1>4, <2>1, <2>2 DEF Drawing, Halves
<1>6. {e[3] : e \in Asked(read[r])} = {e[3] : e \in Relation(read[r])}
  <2>1. ASSUME NEW x
        PROVE  /\ <<<<"turn", x[1]>>, x[2], x[3]>>[3] = x[3]
    OBVIOUS
  <2> DEFINE named(x) == <<<<"turn", x[1]>>, x[2], x[3]>>
  <2>2. Asked(read[r]) = {named(x) : x \in Relation(read[r])}
    BY DEF Asked
  <2>3. \A x : named(x)[3] = x[3]
    BY <2>1
  <2> HIDE DEF named
  <2>4. QED
    BY <2>2, <2>3
<1>7. BagToSet(edges) = DOMAIN edges
  BY DEF BagToSet
<1>8. {<<nodes[e.src], e.kind, nodes[e.dst]>> : e \in BagToSet(edges)} = Asked(read[r])
  BY <1>4, <1>7 DEF DrawnEdges
<1>9. IsInjective(nodes) /\ \A e \in BagToSet(edges) : edges[e] = 1
  BY <1>7 DEF Drawing, GraphWhole
<1>10. Relation(settled)' = Relation(read[r])
  BY DEF Relation, RelationOf, DecisionRelation, OutcomeRelation, RulesOf
<1>11. Rebuilt'
  <2>1. settled' # Null =>
          /\ Range(nodes') = {<<"turn", t>> : t \in read[r].turns} \cup {e[3] : e \in Relation(read[r])}
          /\ IsInjective(nodes')
          /\ {<<nodes'[e.src], e.kind, nodes'[e.dst]>> : e \in BagToSet(edges')}
                 = {<<<<"turn", e[1]>>, e[2], e[3]>> : e \in Relation(read[r])}
          /\ \A e \in BagToSet(edges') : edges'[e] = 1
    BY <1>1, <1>5, <1>6, <1>8, <1>9 DEF Asked
  <2>2. QED
    BY <1>10, <2>1 DEF Rebuilt
<1>12. QED
  BY <1>2, <1>11

(* A settled graph stays one for as long as nobody writes it. *)
LEMMA SameSettled ==
    ASSUME GraphSettled, Rebuilt, UNCHANGED <<graph, settled>>
    PROVE  GraphSettled' /\ Rebuilt'
<1>1. nodes' = nodes /\ edges' = edges /\ settled' = settled
  BY DEF graph
<1>2. GraphSettled'
  BY <1>1 DEF GraphSettled, GraphWhole
<1>3. Rebuilt'
  <2>1. Relation(settled)' = Relation(settled)
    BY <1>1 DEF Relation, RelationOf, DecisionRelation, OutcomeRelation, RulesOf
  <2>2. QED
    BY <1>1, <2>1 DEF Rebuilt
<1>4. QED
  BY <1>2, <1>3

(* The variables keep their types. *)
LEMMA GraphTypesKept == GraphTypes /\ [GraphNext]_graphVars => GraphTypes'
<1> SUFFICES ASSUME GraphTypes, [GraphNext]_graphVars PROVE GraphTypes'
  OBVIOUS
<1>1. CASE UNCHANGED graphVars
  BY <1>1 DEF GraphTypes, graphVars, ledger, graph, rebuilds
<1>2. ASSUME NEW t \in Listed, Record(t) \/ Close(t)
      PROVE  GraphTypes'
  BY <1>2 DEF GraphTypes, Record, Close, rebuilds
<1>3. ASSUME NEW r \in Rebuilders, Rebuild(r) \/ Die(r)
      PROVE  GraphTypes'
  <2>1. decisions' = decisions /\ closed' = closed
    BY <1>3 DEF Rebuild, Start, ReadDecisions, EnterTurn, ReadOutcomes, FindTurn, UpsertOther,
                AddEdge, Finish, Die, ledger
  <2>2. /\ \A s \in Rebuilders : pc'[s] \in {"idle", "delete", "decisions", "outcomes"}
        /\ DOMAIN pc' = Rebuilders /\ DOMAIN due' = Rebuilders /\ DOMAIN links' = Rebuilders
        /\ DOMAIN turnId' = Rebuilders /\ DOMAIN otherId' = Rebuilders /\ DOMAIN read' = Rebuilders
    <3>1. CASE Start(r)
      BY <3>1 DEF GraphTypes, Start
    <3>2. CASE ReadDecisions(r)
      BY <3>2 DEF GraphTypes, ReadDecisions
    <3>3. CASE EnterTurn(r)
      BY <3>3 DEF GraphTypes, EnterTurn
    <3>4. CASE ReadOutcomes(r)
      BY <3>4 DEF GraphTypes, ReadOutcomes
    <3>5. CASE FindTurn(r)
      BY <3>5 DEF GraphTypes, FindTurn
    <3>6. CASE UpsertOther(r)
      BY <3>6 DEF GraphTypes, UpsertOther
    <3>7. CASE AddEdge(r)
      BY <3>7 DEF GraphTypes, AddEdge
    <3>8. CASE Leave(r)
      BY <3>8 DEF GraphTypes, Leave
    <3>9. QED
      BY <1>3, <3>1, <3>2, <3>3, <3>4, <3>5, <3>6, <3>7, <3>8 DEF Rebuild, Finish, Die
  <2>3. disturbed' \in [Rebuilders -> BOOLEAN]
    <3>1. CASE Start(r)
      BY <3>1 DEF Start
    <3>2. CASE Disturb(r)
      BY <3>2 DEF Disturb
    <3>3. CASE UNCHANGED disturbed
      BY <3>3 DEF GraphTypes
    <3>4. CASE Leave(r)
      BY <3>4 DEF GraphTypes, Leave
    <3>5. QED
      BY <1>3, <3>1, <3>2, <3>3, <3>4 DEF Rebuild, ReadDecisions, EnterTurn, ReadOutcomes, FindTurn,
         UpsertOther, AddEdge, Finish, Die
  <2>4. QED
    BY <2>1, <2>2, <2>3 DEF GraphTypes
<1>4. QED
  BY <1>1, <1>2, <1>3 DEF GraphNext

(* What one rebuild does, to the others: it leaves the graph alone or        *)
(* disturbs them.                                                           *)
LEMMA OthersKept ==
    ASSUME GraphTypes, NEW r \in Rebuilders, NEW s \in Rebuilders, s # r,
           RebuildKept(s), Rebuild(r) \/ Die(r)
    PROVE  RebuildKept(s)'
<1>1. /\ pc'[s] = pc[s] /\ due'[s] = due[s] /\ links'[s] = links[s]
      /\ turnId'[s] = turnId[s] /\ otherId'[s] = otherId[s] /\ read'[s] = read[s]
  <2>1. CASE Start(r)
    BY <2>1 DEF GraphTypes, Start
  <2>2. CASE ReadDecisions(r)
    BY <2>2 DEF GraphTypes, ReadDecisions
  <2>3. CASE EnterTurn(r)
    BY <2>3 DEF GraphTypes, EnterTurn
  <2>4. CASE ReadOutcomes(r)
    BY <2>4 DEF GraphTypes, ReadOutcomes
  <2>5. CASE FindTurn(r)
    BY <2>5 DEF GraphTypes, FindTurn
  <2>6. CASE UpsertOther(r)
    BY <2>6 DEF GraphTypes, UpsertOther
  <2>7. CASE AddEdge(r)
    BY <2>7 DEF GraphTypes, AddEdge
  <2>8. CASE Leave(r)
    BY <2>8 DEF GraphTypes, Leave
  <2>9. QED
    BY <2>1, <2>2, <2>3, <2>4, <2>5, <2>6, <2>7, <2>8 DEF Rebuild, Finish, Die
<1>2. \/ UNCHANGED graph /\ (disturbed'[s] = disturbed[s])
      \/ pc[s] # "idle" => disturbed'[s]
  <2>1. CASE Start(r)
    BY <2>1 DEF Start
  <2>2. CASE Disturb(r)
    BY <2>2 DEF Disturb
  <2>3. CASE UNCHANGED graph /\ UNCHANGED disturbed
    BY <2>3
  <2>4. CASE Leave(r) /\ UNCHANGED graph
    BY <2>4 DEF GraphTypes, Leave
  <2>5. QED
    BY <2>1, <2>2, <2>3, <2>4 DEF Rebuild, ReadDecisions, EnterTurn, ReadOutcomes, FindTurn,
       UpsertOther, AddEdge, Finish, Die
<1>3. QED
  BY <1>1, <1>2, Untouched

(* What counts as settled is what the last rebuild read, if nobody wrote   *)
(* the graph beside it or since.                                           *)
LEMMA SettledKept ==
    ASSUME GraphTypes, NEW r \in Rebuilders, RebuildKept(r), GraphSettled, Rebuilt,
           Rebuild(r) \/ Die(r)
    PROVE  GraphSettled' /\ Rebuilt'
<1>1. CASE Start(r) \/ EnterTurn(r) \/ UpsertOther(r) \/ AddEdge(r)
  <2>1. settled' = Null
    BY <1>1 DEF Start, EnterTurn, UpsertOther, AddEdge, Disturb
  <2>2. QED
    BY <2>1 DEF GraphSettled, Rebuilt
<1>2. CASE ReadDecisions(r) \/ ReadOutcomes(r) \/ FindTurn(r) \/ Die(r)
  <2>1. UNCHANGED <<graph, settled>>
    BY <1>2 DEF ReadDecisions, ReadOutcomes, FindTurn, Die
  <2>2. QED
    BY <2>1, SameSettled
<1>3. CASE Finish(r)
  <2>1. CASE disturbed[r]
    <3>1. settled' = Null
      BY <1>3, <2>1 DEF Finish
    <3>2. QED
      BY <3>1 DEF GraphSettled, Rebuilt
  <2>2. CASE ~disturbed[r]
    <3>1. pc[r] = "outcomes" /\ due[r] = {} /\ settled' = read[r] /\ UNCHANGED graph
      BY <1>3, <2>2 DEF Finish
    <3>2. Drawing(r)
      BY <2>2, <3>1 DEF RebuildKept
    <3>3. QED
      BY <3>1, <3>2, DrawnIsRebuilt
  <2>3. QED
    BY <2>1, <2>2
<1>4. QED
  BY <1>1, <1>2, <1>3 DEF Rebuild

(* Nothing is drawn, nothing is settled. *)
LEMMA GraphBegins == InitGraph => GraphInv
<1> SUFFICES ASSUME InitGraph PROVE GraphInv
  OBVIOUS
<1>1. GraphTypes
  BY GraphAssumption DEF InitGraph, GraphTypes
<1>2. \A r \in Rebuilders : RebuildKept(r)
  BY DEF InitGraph, RebuildKept
<1>3. GraphSettled /\ Rebuilt
  BY DEF InitGraph, GraphSettled, Rebuilt
<1>4. QED
  BY <1>1, <1>2, <1>3 DEF GraphInv

(* Every write of the ledger, every commit of a rebuild and every death    *)
(* keeps the invariant.                                                    *)
LEMMA GraphStep == GraphInv /\ [GraphNext]_graphVars => GraphInv'
<1> SUFFICES ASSUME GraphInv, [GraphNext]_graphVars PROVE GraphInv'
  OBVIOUS
<1>1. GraphTypes /\ (\A r \in Rebuilders : RebuildKept(r)) /\ GraphSettled /\ Rebuilt
  BY DEF GraphInv
<1>2. GraphTypes'
  BY <1>1, GraphTypesKept
<1>3. ASSUME UNCHANGED <<graph, rebuilds, disturbed, settled>>
      PROVE  GraphInv'
  <2>1. ASSUME NEW r \in Rebuilders
        PROVE  RebuildKept(r)'
    <3>1. /\ pc'[r] = pc[r] /\ due'[r] = due[r] /\ links'[r] = links[r] /\ turnId'[r] = turnId[r]
          /\ otherId'[r] = otherId[r] /\ read'[r] = read[r] /\ disturbed'[r] = disturbed[r]
          /\ UNCHANGED graph
      BY <1>3 DEF rebuilds
    <3>2. QED
      BY <1>1, <3>1, Untouched
  <2>2. GraphSettled' /\ Rebuilt'
    BY <1>1, <1>3, SameSettled
  <2>3. QED
    BY <1>2, <2>1, <2>2 DEF GraphInv
<1>4. ASSUME NEW r \in Rebuilders, Rebuild(r) \/ Die(r)
      PROVE  GraphInv'
  <2>1. RebuildKept(r)'
    BY <1>1, <1>4, BeginKeeps, ReadDecisionsKeeps, EnterKeeps, ReadOutcomesKeeps, FindTurnKeeps,
       UpsertKeeps, AddEdgeKeeps, LeaveKeeps DEF Rebuild, Finish, Die
  <2>2. ASSUME NEW s \in Rebuilders, s # r
        PROVE  RebuildKept(s)'
    BY <1>1, <1>4, <2>2, OthersKept
  <2>3. GraphSettled' /\ Rebuilt'
    BY <1>1, <1>4, SettledKept
  <2>4. QED
    BY <1>2, <2>1, <2>2, <2>3 DEF GraphInv
<1>5. CASE UNCHANGED graphVars
  BY <1>3, <1>5 DEF graphVars
<1>6. ASSUME NEW t \in Listed, Record(t) \/ Close(t)
      PROVE  GraphInv'
  BY <1>3, <1>6 DEF Record, Close
<1>7. QED
  BY <1>4, <1>5, <1>6 DEF GraphNext

(* The invariant of the graph over the ledger, for any turns, rules,       *)
(* rebuilds beside each other, deaths and writes meanwhile.                *)
THEOREM GraphKept == GraphSpec => []GraphInv
<1>1. InitGraph => GraphInv
  BY GraphBegins
<1>2. GraphInv /\ [GraphNext]_graphVars => GraphInv'
  BY GraphStep
<1>3. QED
  BY <1>1, <1>2, PTL DEF GraphSpec

(* After a rebuild that no other disturbed the tables are what was read of *)
(* the ledger, every node and every edge once (graph_lite.py               *)
(* project_from_ledger), for every ledger and any number of rebuilds.      *)
THEOREM GraphRebuilt == GraphSpec => []Rebuilt
<1>1. GraphInv => Rebuilt
  BY DEF GraphInv
<1>2. QED
  BY <1>1, GraphKept, PTL

(* A function of the natural numbers given by its first value and the step *)
(* to the next: as far as n, and then all the way.                         *)
Steps(f, a, next, n) ==
    f[0] = a /\ \A m \in Nat : m < n => f[m + 1] = next[f[m]]

(* Two such functions agree as far as both go.                             *)
LEMMA StepsAgree ==
    ASSUME NEW a, NEW next, NEW f, NEW g, NEW n \in Nat, NEW p \in Nat,
           Steps(f, a, next, n), Steps(g, a, next, p)
    PROVE  \A m \in Nat : m <= n /\ m <= p => f[m] = g[m]
<1> DEFINE T == {m \in Nat : m <= n /\ m <= p => f[m] = g[m]}
<1>1. 0 \in T
  BY DEF Steps
<1>2. ASSUME NEW m \in T PROVE m + 1 \in T
  BY <1>2 DEF Steps
<1>3. T = Nat
  BY <1>1, <1>2, SetInduction
<1>4. QED
  BY <1>3

(* A step from values to values may be taken any number of times.          *)
LEMMA Iterated ==
    ASSUME NEW S, NEW a \in S, NEW next \in [S -> S]
    PROVE  \E f \in [Nat -> S] : f[0] = a /\ \A n \in Nat : f[n + 1] = next[f[n]]
<1> DEFINE T == {n \in Nat : \E f \in [Nat -> S] : Steps(f, a, next, n)}
<1>1. 0 \in T
  <2>1. Steps([m \in Nat |-> a], a, next, 0)
    BY DEF Steps
  <2>2. QED
    BY <2>1
<1>2. ASSUME NEW n \in T PROVE n + 1 \in T
  <2>1. PICK f \in [Nat -> S] : Steps(f, a, next, n)
    OBVIOUS
  <2> DEFINE g == [f EXCEPT ![n + 1] = next[f[n]]]
  <2>2. g \in [Nat -> S]
    OBVIOUS
  <2>3. Steps(g, a, next, n + 1)
    BY <2>1 DEF Steps
  <2> HIDE DEF g
  <2>4. n + 1 \in Nat /\ \E h \in [Nat -> S] : Steps(h, a, next, n + 1)
    BY <2>2, <2>3
  <2>5. QED
    BY <2>4
<1>3. T = Nat
  BY <1>1, <1>2, SetInduction
<1> DEFINE upTo(n) == CHOOSE f \in [Nat -> S] : Steps(f, a, next, n)
           whole == [n \in Nat |-> upTo(n)[n]]
<1>4. ASSUME NEW n \in Nat
      PROVE  upTo(n) \in [Nat -> S] /\ Steps(upTo(n), a, next, n)
  BY <1>3
<1> HIDE DEF upTo
<1>5. whole \in [Nat -> S]
  BY <1>4
<1>6. whole[0] = a
  BY <1>4 DEF Steps
<1>7. ASSUME NEW n \in Nat
      PROVE  whole[n + 1] = next[whole[n]]
  <2>1. upTo(n + 1)[n] = upTo(n)[n]
    BY <1>4, StepsAgree
  <2>2. upTo(n + 1)[n + 1] = next[upTo(n + 1)[n]]
    BY <1>4 DEF Steps
  <2>3. QED
    BY <2>1, <2>2
<1>8. QED
  BY <1>5, <1>6, <1>7

-----------------------------------------------------------------------------
(* What is at most one link away from some of the nodes.                   *)
Around(X) == X \cup UNION {Touching(m) : m \in X}

Named(V) == {nodes[j] : j \in V}

Settled == settled # Null /\ GraphWhole /\ Rebuilt

(* On a settled graph the neighbours of an id are the ids of what the      *)
(* ledger relates its node to.                                             *)
LEMMA NeighborsTouch ==
    ASSUME Settled, NEW j \in DOMAIN nodes
    PROVE  /\ Neighbors(j) \subseteq DOMAIN nodes
           /\ Named(Neighbors(j)) = Touching(nodes[j])
<1>1. /\ IsInjective(nodes) /\ nodes \in Seq(Names)
      /\ \A e \in DOMAIN edges : e.src \in DOMAIN nodes /\ e.dst \in DOMAIN nodes
  BY DEF Settled, GraphWhole
<1>2. BagToSet(edges) = DOMAIN edges
  BY DEF BagToSet
<1>3. {<<nodes[e.src], e.kind, nodes[e.dst]>> : e \in DOMAIN edges}
          = {<<<<"turn", f[1]>>, f[2], f[3]>> : f \in Relation(settled)}
  BY <1>2 DEF Settled, Rebuilt
<1>4. Neighbors(j) \subseteq DOMAIN nodes
  BY DEF Neighbors
<1>5. Named(Neighbors(j)) \subseteq Touching(nodes[j])
  <2> SUFFICES ASSUME NEW m \in Neighbors(j) PROVE nodes[m] \in Touching(nodes[j])
    BY DEF Named
  <2>1. PICK e \in DOMAIN edges : <<e.src, e.dst>> \in {<<j, m>>, <<m, j>>}
    BY <1>2 DEF Neighbors
  <2>2. PICK f \in Relation(settled) :
           nodes[e.src] = <<"turn", f[1]>> /\ nodes[e.dst] = f[3]
    <3>1. PICK f \in Relation(settled) :
             <<nodes[e.src], e.kind, nodes[e.dst]>> = <<<<"turn", f[1]>>, f[2], f[3]>>
      BY <1>3
    <3>2. QED
      BY <3>1
  <2>3. CASE e.src = j /\ e.dst = m
    BY <2>2, <2>3 DEF Touching
  <2>4. CASE e.src = m /\ e.dst = j
    BY <2>2, <2>4 DEF Touching
  <2>5. QED
    BY <2>1, <2>3, <2>4
<1>6. Touching(nodes[j]) \subseteq Named(Neighbors(j))
  <2>1. ASSUME NEW f \in Relation(settled)
        PROVE  \E e \in DOMAIN edges : nodes[e.src] = <<"turn", f[1]>> /\ nodes[e.dst] = f[3]
    <3>1. PICK e \in DOMAIN edges :
             <<nodes[e.src], e.kind, nodes[e.dst]>> = <<<<"turn", f[1]>>, f[2], f[3]>>
      BY <1>3
    <3>2. QED
      BY <3>1
  <2>2. ASSUME NEW f \in Relation(settled), f[3] = nodes[j]
        PROVE  <<"turn", f[1]>> \in Named(Neighbors(j))
    <3>1. PICK e \in DOMAIN edges : nodes[e.src] = <<"turn", f[1]>> /\ nodes[e.dst] = f[3]
      BY <2>1
    <3>2. e.dst = j /\ e.src \in DOMAIN nodes
      BY <1>1, <2>2, <3>1 DEF IsInjective
    <3>3. e.src \in Neighbors(j)
      BY <1>2, <3>2 DEF Neighbors
    <3>4. QED
      BY <3>1, <3>3 DEF Named
  <2>3. ASSUME NEW f \in Relation(settled), <<"turn", f[1]>> = nodes[j]
        PROVE  f[3] \in Named(Neighbors(j))
    <3>1. PICK e \in DOMAIN edges : nodes[e.src] = <<"turn", f[1]>> /\ nodes[e.dst] = f[3]
      BY <2>1
    <3>2. e.src = j /\ e.dst \in DOMAIN nodes
      BY <1>1, <2>3, <3>1 DEF IsInjective
    <3>3. e.dst \in Neighbors(j)
      BY <1>2, <3>2 DEF Neighbors
    <3>4. QED
      BY <3>1, <3>3 DEF Named
  <2>4. QED
    BY <2>2, <2>3 DEF Touching
<1>7. QED
  BY <1>4, <1>5, <1>6

(* Every node related to one of the graph is in the graph.                 *)
LEMMA AroundStays ==
    ASSUME Settled, NEW X \in SUBSET Range(nodes)
    PROVE  Around(X) \in SUBSET Range(nodes)
<1>1. ASSUME NEW x \in X
      PROVE  Touching(x) \subseteq Range(nodes)
  <2>1. PICK j \in DOMAIN nodes : x = nodes[j]
    BY DEF Range
  <2>2. QED
    BY <2>1, NeighborsTouch DEF Named, Range
<1>2. QED
  BY <1>1 DEF Around

(* What is at most d links away, d by d.                                   *)
LEMMA BallGrows ==
    ASSUME Settled, NEW node \in Range(nodes)
    PROVE  /\ Within(node)[0] = {node}
           /\ \A d \in Nat : /\ Within(node)[d] \in SUBSET Range(nodes)
                             /\ Within(node)[d + 1] = Around(Within(node)[d])
<1> DEFINE S == SUBSET Range(nodes)
           next == [X \in S |-> Around(X)]
<1>1. next \in [S -> S]
  BY AroundStays
<1>2. {node} \in S
  OBVIOUS
<1> HIDE DEF next, S
<1>3. PICK f \in [Nat -> S] : f[0] = {node} /\ \A n \in Nat : f[n + 1] = next[f[n]]
  BY <1>1, <1>2, Iterated
<1> DEFINE Body(b, d) == IF d = 0 THEN {node} ELSE b[d - 1] \cup UNION {Touching(m) : m \in b[d - 1]}
           ball == CHOOSE b : b = [d \in Nat |-> Body(b, d)]
<1>4. Within(node) = ball
  BY DEF Within
<1>5. ASSUME NEW d \in Nat
      PROVE  f[d] = Body(f, d)
  <2>1. CASE d = 0
    BY <1>3, <2>1
  <2>2. CASE d # 0
    <3>1. d - 1 \in Nat /\ (d - 1) + 1 = d
      BY <2>2
    <3>2. f[d] = next[f[d - 1]]
      BY <1>3, <3>1
    <3>3. f[d - 1] \in S
      BY <3>1
    <3>4. QED
      BY <2>2, <3>2, <3>3 DEF next, S, Around
  <2>3. QED
    BY <2>1, <2>2
<1>6. f = [d \in Nat |-> Body(f, d)]
  BY <1>5
<1>7. ball = [d \in Nat |-> Body(ball, d)]
  BY <1>6
<1> HIDE DEF ball
<1>8. \A d \in Nat : ball[d] = Body(ball, d)
  <2> HIDE DEF Body
  <2>1. QED
    BY <1>7
<1>9. ball[0] = {node}
  BY <1>8
<1>10. ASSUME NEW d \in Nat
      PROVE  ball[d + 1] = Around(ball[d])
  <2>1. ball[d + 1] = Body(ball, d + 1)
    <3> HIDE DEF Body
    <3>1. d + 1 \in Nat
      OBVIOUS
    <3>2. QED
      BY <1>8, <3>1
  <2>2. QED
    BY <2>1 DEF Around
<1> DEFINE T == {d \in Nat : ball[d] \in S}
<1>11. T = Nat
  <2>1. 0 \in T
    BY <1>2, <1>9
  <2>2. ASSUME NEW d \in T PROVE d + 1 \in T
    BY <1>10, AroundStays DEF S
  <2>3. QED
    BY <2>1, <2>2, SetInduction
<1>12. QED
  BY <1>4, <1>9, <1>10, <1>11 DEF S

(* The farther, the more is reached.                                       *)
LEMMA BallsNest ==
    ASSUME Settled, NEW node \in Range(nodes), NEW c \in Nat, NEW d \in Nat, c <= d
    PROVE  Within(node)[c] \subseteq Within(node)[d]
<1> DEFINE ball == Within(node)
           T == {n \in Nat : c <= n => ball[c] \subseteq ball[n]}
<1>1. \A n \in Nat : ball[n] \subseteq ball[n + 1]
  BY BallGrows DEF Around
<1> HIDE DEF ball
<1>2. 0 \in T
  OBVIOUS
<1>3. ASSUME NEW n \in T PROVE n + 1 \in T
  <2>1. CASE c = n + 1
    BY <2>1
  <2>2. CASE c # n + 1
    BY <1>1, <2>2
  <2>3. QED
    BY <2>1, <2>2
<1>4. T = Nat
  BY <1>2, <1>3, SetInduction
<1>5. QED
  BY <1>4 DEF ball

-----------------------------------------------------------------------------
(* What a search for k links holds: its queue, and the nodes found with    *)
(* their distances.                                                        *)
SearchState(k) ==
    [queue : Seq(DOMAIN nodes), hops : UNION {[V -> 0 .. k] : V \in SUBSET DOMAIN nodes}]

(* A node that was taken from the queue is done.                           *)
Done(s) == DOMAIN s.hops \ Range(s.queue)

(* Every distance is the number of links from i in the ledger.             *)
Measured(s, i) ==
    \A j \in DOMAIN s.hops :
        /\ nodes[j] \in Within(nodes[i])[s.hops[j]]
        /\ s.hops[j] > 0 => nodes[j] \notin Within(nodes[i])[s.hops[j] - 1]

(* The queue goes by distance, and holds no more than two.                 *)
InTurn(s) ==
    \A a, b \in DOMAIN s.queue : a < b =>
        /\ s.hops[s.queue[a]] <= s.hops[s.queue[b]]
        /\ s.hops[s.queue[b]] <= s.hops[s.queue[a]] + 1

(* What a search from i has found so far, when the nodes of a distance are *)
(* taken from the queue all that are no farther have been found.           *)
Searched(s, i, k) ==
    /\ i \in DOMAIN s.hops
    /\ Range(s.queue) \subseteq DOMAIN s.hops /\ IsInjective(s.queue)
    /\ Measured(s, i) /\ InTurn(s)
    /\ \A j \in Done(s) : s.hops[j] < k => Neighbors(j) \subseteq DOMAIN s.hops
    /\ s.queue # <<>> =>
          Within(nodes[i])[s.hops[Head(s.queue)]] \subseteq Named(DOMAIN s.hops)

(* The first of a sequence without repetitions, and the others.            *)
LEMMA FirstAndRest ==
    ASSUME NEW S, NEW seq \in Seq(S), seq # <<>>, IsInjective(seq)
    PROVE  /\ Tail(seq) \in Seq(S) /\ IsInjective(Tail(seq))
           /\ Len(seq) \in Nat /\ Len(Tail(seq)) = Len(seq) - 1
           /\ DOMAIN Tail(seq) = 1 .. Len(seq) - 1
           /\ Head(seq) = seq[1] /\ 1 \in DOMAIN seq
           /\ \A i \in DOMAIN Tail(seq) : i + 1 \in DOMAIN seq /\ Tail(seq)[i] = seq[i + 1]
           /\ Range(seq) = Range(Tail(seq)) \cup {Head(seq)}
           /\ Head(seq) \notin Range(Tail(seq)) /\ Head(seq) \in S
<1> DEFINE rest == Tail(seq)
<1>1. Len(seq) \in Nat /\ Len(seq) # 0 /\ DOMAIN seq = 1 .. Len(seq)
  OBVIOUS
<1>2. /\ rest \in Seq(S) /\ Len(rest) = Len(seq) - 1 /\ DOMAIN rest = 1 .. Len(seq) - 1
      /\ \A i \in DOMAIN rest : i + 1 \in DOMAIN seq /\ rest[i] = seq[i + 1]
  BY <1>1
<1>3. Head(seq) = seq[1] /\ 1 \in DOMAIN seq /\ seq[1] \in S
  BY <1>1
<1> HIDE DEF rest
<1>4. IsInjective(rest)
  <2> SUFFICES ASSUME NEW i \in DOMAIN rest, NEW j \in DOMAIN rest, rest[i] = rest[j]
               PROVE  i = j
    BY DEF IsInjective
  <2>1. i + 1 = j + 1
    BY <1>2 DEF IsInjective
  <2>2. i \in Int /\ j \in Int
    BY <1>1, <1>2
  <2>3. QED
    BY <2>1, <2>2
<1>5. Range(seq) = Range(rest) \cup {seq[1]} /\ seq[1] \notin Range(rest)
  <2>1. ASSUME NEW i \in DOMAIN seq, i # 1
        PROVE  seq[i] \in Range(rest)
    <3>1. i - 1 \in DOMAIN rest /\ (i - 1) + 1 = i
      BY <1>1, <1>2, <2>1
    <3>2. rest[i - 1] = seq[i]
      BY <1>2, <3>1
    <3>3. QED
      BY <3>1, <3>2 DEF Range
  <2>2. ASSUME NEW i \in DOMAIN rest
        PROVE  rest[i] \in Range(seq) /\ rest[i] # seq[1]
    <3>1. i \in 1 .. Len(seq) - 1 /\ i + 1 # 1
      BY <1>1, <1>2
    <3>2. rest[i] = seq[i + 1] /\ i + 1 \in DOMAIN seq
      BY <1>2
    <3>3. seq[i + 1] # seq[1]
      BY <1>1, <1>3, <3>1, <3>2 DEF IsInjective
    <3>4. QED
      BY <3>2, <3>3 DEF Range
  <2>3. seq[1] \in Range(seq)
    BY <1>3 DEF Range
  <2>4. \A x \in Range(seq) : x = seq[1] \/ x \in Range(rest)
    BY <2>1 DEF Range
  <2>5. \A x \in Range(rest) : x \in Range(seq) /\ x # seq[1]
    BY <2>2 DEF Range
  <2>6. QED
    BY <2>3, <2>4, <2>5
<1>6. QED
  BY <1>1, <1>2, <1>3, <1>4, <1>5 DEF rest

(* The members of a sequence over a set are of the set.                    *)
LEMMA RangeIn ==
    ASSUME NEW S, NEW seq \in Seq(S)
    PROVE  Range(seq) \subseteq S
  BY DEF Range

(* A search begins with its node, at no distance.                          *)
LEMMA SearchBegins ==
    ASSUME Settled, NEW i \in DOMAIN nodes, NEW k \in Nat
    PROVE  Reached(i) \in SearchState(k) /\ Searched(Reached(i), i, k)
<1> DEFINE s == Reached(i)
<1>1. s.queue = <<i>> /\ s.hops = [x \in {i} |-> 0]
  BY DEF Reached
<1>2. s \in SearchState(k)
  <2>1. [x \in {i} |-> 0] \in [{i} -> 0 .. k] /\ {i} \in SUBSET DOMAIN nodes
    OBVIOUS
  <2>2. [x \in {i} |-> 0] \in UNION {[V -> 0 .. k] : V \in SUBSET DOMAIN nodes}
    BY <2>1
  <2>3. QED
    BY <1>1, <2>2 DEF SearchState, Reached
<1>3. /\ DOMAIN s.hops = {i} /\ s.hops[i] = 0 /\ Head(s.queue) = i
      /\ DOMAIN s.queue = {1} /\ s.queue[1] = i
  BY <1>1
<1> HIDE DEF s
<1>4. Within(nodes[i])[0] = {nodes[i]}
  BY BallGrows DEF Range
<1>5. Range(s.queue) = {i} /\ IsInjective(s.queue) /\ Done(s) = {}
  BY <1>3 DEF Range, IsInjective, Done
<1>6. Measured(s, i) /\ InTurn(s)
  BY <1>3, <1>4 DEF Measured, InTurn
<1>7. QED
  BY <1>2, <1>3, <1>4, <1>5, <1>6 DEF Searched, Named, s

(* What a search holds, in parts.                                          *)
LEMMA StateParts ==
    ASSUME NEW k \in Nat, NEW s \in SearchState(k)
    PROVE  /\ s.queue \in Seq(DOMAIN nodes)
           /\ DOMAIN s.hops \subseteq DOMAIN nodes
           /\ \A j \in DOMAIN s.hops : s.hops[j] \in 0 .. k
           /\ s.hops \in [DOMAIN s.hops -> 0 .. k]
<1>1. s.queue \in Seq(DOMAIN nodes)
  BY DEF SearchState
<1>2. PICK V \in SUBSET DOMAIN nodes : s.hops \in [V -> 0 .. k]
  BY DEF SearchState
<1>3. QED
  BY <1>1, <1>2

(* The places of two sequences, one after the other.                       *)
LEMMA PlacesOfBoth ==
    ASSUME NEW S, NEW a \in Seq(S), NEW b \in Seq(S), NEW c, c = a \o b
    PROVE  /\ DOMAIN c = 1 .. Len(a) + Len(b) /\ Len(a) \in Nat /\ Len(b) \in Nat
           /\ DOMAIN b = 1 .. Len(b)
           /\ \A i \in DOMAIN c : i <= Len(a) => c[i] = a[i]
           /\ \A i \in DOMAIN c : i > Len(a) => c[i] = b[i - Len(a)]
<1>1. /\ DOMAIN c = 1 .. Len(a) + Len(b) /\ DOMAIN a = 1 .. Len(a) /\ DOMAIN b = 1 .. Len(b)
      /\ Len(a) \in Nat /\ Len(b) \in Nat
  OBVIOUS
<1>2. /\ \A j \in 1 .. Len(a) : c[j] = a[j]
      /\ \A j \in Len(a) + 1 .. Len(a) + Len(b) : c[j] = b[j - Len(a)]
  OBVIOUS
<1>3. QED
  BY <1>1, <1>2

(* What one round does to what was found: F is new.                        *)
Widened(s, t, F, k) ==
    /\ F \in SUBSET (DOMAIN nodes \ DOMAIN s.hops) /\ F \subseteq Neighbors(Head(s.queue))
    /\ F # {} => s.hops[Head(s.queue)] < k
    /\ s.hops[Head(s.queue)] < k => Neighbors(Head(s.queue)) \subseteq DOMAIN t.hops
    /\ DOMAIN t.hops = DOMAIN s.hops \cup F
    /\ \A j \in DOMAIN s.hops : t.hops[j] = s.hops[j]
    /\ \A j \in F : t.hops[j] = s.hops[Head(s.queue)] + 1
    /\ IsInjective(t.queue) /\ Range(t.queue) = (Range(s.queue) \ {Head(s.queue)}) \cup F
    /\ \A a \in DOMAIN t.queue :
          \/ a + 1 \in DOMAIN s.queue /\ t.queue[a] = s.queue[a + 1]
          \/ a >= Len(s.queue) /\ t.queue[a] \in F

(* One round takes the head from the queue and puts what is new behind the *)
(* rest.                                                                   *)
LEMMA OneRound ==
    ASSUME Settled, NEW k \in Nat, NEW s \in SearchState(k), s.queue # <<>>,
           Range(s.queue) \subseteq DOMAIN s.hops, IsInjective(s.queue)
    PROVE  /\ Dequeue(s, k) \in SearchState(k)
           /\ Widened(s, Dequeue(s, k), Fresh(s, k), k)
<1> DEFINE D == DOMAIN nodes
           V == DOMAIN s.hops
           n == Head(s.queue)
           F == Fresh(s, k)
           q == SetToSeq(F)
           rest == Tail(s.queue)
           t == Dequeue(s, k)
<1>1. /\ s.queue \in Seq(D) /\ V \subseteq D /\ s.hops \in [V -> 0 .. k]
      /\ \A j \in V : s.hops[j] \in 0 .. k
  BY StateParts
<1>2. /\ rest \in Seq(D) /\ IsInjective(rest) /\ Len(s.queue) \in Nat
      /\ Len(rest) = Len(s.queue) - 1 /\ DOMAIN rest = 1 .. Len(s.queue) - 1
      /\ \A a \in DOMAIN rest : a + 1 \in DOMAIN s.queue /\ rest[a] = s.queue[a + 1]
      /\ Range(s.queue) = Range(rest) \cup {n} /\ n \notin Range(rest)
  BY <1>1, FirstAndRest
<1>3. n \in V /\ s.hops[n] \in 0 .. k /\ n \in D
  BY <1>1, <1>2
<1>4. F = IF s.hops[n] >= k THEN {} ELSE Neighbors(n) \ V
  BY DEF Fresh
<1>5. /\ F \in SUBSET (D \ V) /\ F \subseteq Neighbors(n) /\ (F # {} => s.hops[n] < k)
      /\ (s.hops[n] < k => F = Neighbors(n) \ V)
  <2>1. Neighbors(n) \subseteq D
    BY <1>3, NeighborsTouch
  <2>2. QED
    BY <1>3, <1>4, <2>1
<1>6. IsFiniteSet(F)
  <2>1. nodes \in Seq(Names)
    BY DEF Settled, GraphWhole
  <2>2. D = 1 .. Len(nodes) /\ Len(nodes) \in Nat
    BY <2>1
  <2>3. IsFiniteSet(D)
    BY <2>2, FS_Interval
  <2>4. QED
    BY <1>5, <2>3, FS_Subset
<1>7. t = [queue |-> rest \o q, hops |-> Counted(s, F)]
  BY DEF Dequeue
<1> HIDE DEF F
<1>8. q \in Seq(F) /\ IsInjective(q) /\ Range(q) = F
  BY <1>6, SetInOrder
<1>9. q \in Seq(D)
  BY <1>5, <1>8
<1> HIDE DEF q, rest, t
<1>10. t.queue = rest \o q /\ t.hops = Counted(s, F)
  BY <1>7
<1>11. /\ DOMAIN t.hops = V \cup F
       /\ \A j \in V : t.hops[j] = s.hops[j]
       /\ \A j \in F : t.hops[j] = s.hops[n] + 1
  BY <1>5, <1>10 DEF Counted
<1>12. t.queue \in Seq(D) /\ Range(t.queue) = Range(rest) \cup F
  BY <1>2, <1>8, <1>9, <1>10, OneAfterOther
<1>13. IsInjective(t.queue)
  <2>1. \A a \in DOMAIN rest, b \in DOMAIN q : rest[a] # q[b]
    <3> SUFFICES ASSUME NEW a \in DOMAIN rest, NEW b \in DOMAIN q
                 PROVE  rest[a] # q[b]
      OBVIOUS
    <3>1. rest[a] \in Range(s.queue) /\ q[b] \in F
      BY <1>2, <1>8 DEF Range
    <3>2. QED
      BY <1>5, <3>1
  <2>2. QED
    BY <1>2, <1>8, <1>9, <1>10, <2>1, NoneTwice
<1>14. t \in SearchState(k)
  <2>1. \A j \in V \cup F : t.hops[j] \in 0 .. k
    <3>1. \A j \in F : t.hops[j] \in 0 .. k
      BY <1>3, <1>5, <1>11
    <3>2. QED
      BY <1>1, <1>11, <3>1
  <2>2. t.hops \in [V \cup F -> 0 .. k]
    BY <1>10, <1>11, <2>1 DEF Counted
  <2>3. V \cup F \in SUBSET D
    BY <1>1, <1>5
  <2>4. QED
    BY <1>7, <1>12, <2>2, <2>3 DEF SearchState, t
<1>15. ASSUME NEW a \in DOMAIN t.queue
       PROVE  \/ a + 1 \in DOMAIN s.queue /\ t.queue[a] = s.queue[a + 1]
              \/ a >= Len(s.queue) /\ t.queue[a] \in F
  <2>1. /\ DOMAIN t.queue = 1 .. Len(rest) + Len(q) /\ Len(q) \in Nat
        /\ DOMAIN q = 1 .. Len(q)
        /\ a <= Len(rest) => t.queue[a] = rest[a]
        /\ a > Len(rest) => t.queue[a] = q[a - Len(rest)]
    <3>1. t.queue = rest \o q
      BY <1>10
    <3>2. rest \in Seq(D) /\ q \in Seq(D)
      BY <1>2, <1>9
    <3> HIDE DEF D
    <3>3. /\ DOMAIN t.queue = 1 .. Len(rest) + Len(q) /\ Len(rest) \in Nat /\ Len(q) \in Nat
          /\ DOMAIN q = 1 .. Len(q)
          /\ \A j \in DOMAIN t.queue : j <= Len(rest) => t.queue[j] = rest[j]
          /\ \A j \in DOMAIN t.queue : j > Len(rest) => t.queue[j] = q[j - Len(rest)]
      BY <3>1, <3>2, PlacesOfBoth, SMTT(30)
    <3>4. QED
      BY <3>3
  <2>2. CASE a <= Len(rest)
    <3>1. a \in DOMAIN rest
      BY <1>2, <2>1, <2>2
    <3>2. QED
      BY <1>2, <2>1, <2>2, <3>1
  <2>3. CASE a > Len(rest)
    <3>1. a - Len(rest) \in DOMAIN q /\ a >= Len(s.queue)
      BY <1>2, <2>1, <2>3
    <3>2. QED
      BY <1>8, <2>1, <2>3, <3>1 DEF Range
  <2>4. a \in Int
    BY <1>2, <2>1
  <2>5. QED
    BY <1>2, <2>2, <2>3, <2>4
<1>16. Range(t.queue) = (Range(s.queue) \ {n}) \cup F
  BY <1>2, <1>12
<1>17. s.hops[n] < k => Neighbors(n) \subseteq DOMAIN t.hops
  BY <1>5, <1>11
<1>18. Widened(s, t, F, k)
  BY <1>5, <1>11, <1>13, <1>15, <1>16, <1>17 DEF Widened
<1>19. QED
  BY <1>14, <1>18 DEF t, F

(* The queue holds two distances at most, the nearer ones first.           *)
LEMMA HeadNearest ==
    ASSUME NEW k \in Nat, NEW s \in SearchState(k), s.queue # <<>>,
           Range(s.queue) \subseteq DOMAIN s.hops, IsInjective(s.queue), InTurn(s)
    PROVE  /\ Head(s.queue) \in DOMAIN s.hops
           /\ \A m \in Range(s.queue) : /\ s.hops[Head(s.queue)] <= s.hops[m]
                                        /\ s.hops[m] <= s.hops[Head(s.queue)] + 1
<1> DEFINE n == Head(s.queue)
<1>1. s.queue \in Seq(DOMAIN nodes) /\ \A j \in DOMAIN s.hops : s.hops[j] \in 0 .. k
  BY StateParts
<1>2. n = s.queue[1] /\ 1 \in DOMAIN s.queue
  BY <1>1, FirstAndRest
<1>3. n \in DOMAIN s.hops
  BY <1>2 DEF Range
<1> HIDE DEF n
<1>4. ASSUME NEW m \in Range(s.queue)
      PROVE  s.hops[n] <= s.hops[m] /\ s.hops[m] <= s.hops[n] + 1
  <2>1. PICK b \in DOMAIN s.queue : m = s.queue[b]
    BY DEF Range
  <2>2. s.hops[n] \in Int /\ s.hops[m] \in Int
    BY <1>1, <1>3
  <2>3. b \in Int /\ b >= 1
    BY <1>1
  <2>4. CASE b = 1
    BY <1>2, <2>1, <2>2, <2>4
  <2>5. CASE b > 1
    BY <1>2, <2>1, <2>5 DEF InTurn
  <2>6. QED
    BY <2>3, <2>4, <2>5
<1>5. QED
  BY <1>3, <1>4 DEF n

(* A node found anew is one link farther than the node it was found from.  *)
LEMMA MeasuredAgain ==
    ASSUME Settled, NEW i \in DOMAIN nodes, NEW k \in Nat,
           NEW s \in SearchState(k), NEW t \in SearchState(k), NEW F,
           Searched(s, i, k), s.queue # <<>>, Widened(s, t, F, k)
    PROVE  Measured(t, i)
<1> DEFINE n == Head(s.queue)
           h == s.hops[n]
           V == DOMAIN s.hops
           ball == Within(nodes[i])
<1>1. /\ n \in V /\ V \subseteq DOMAIN nodes /\ h \in 0 .. k
      /\ Measured(s, i) /\ ball[h] \subseteq Named(V)
  BY StateParts, HeadNearest DEF Searched
<1>2. h \in Nat /\ nodes[i] \in Range(nodes)
  BY <1>1 DEF Range
<1>3. ball[h + 1] = Around(ball[h])
  BY <1>2, BallGrows
<1>4. IsInjective(nodes)
  BY DEF Settled, GraphWhole
<1>5. /\ F \in SUBSET (DOMAIN nodes \ V) /\ F \subseteq Neighbors(n)
      /\ DOMAIN t.hops = V \cup F
      /\ \A j \in V : t.hops[j] = s.hops[j]
      /\ \A j \in F : t.hops[j] = h + 1
  BY DEF Widened
<1> HIDE DEF ball, h, V
<1>6. ASSUME NEW j \in V
      PROVE  /\ nodes[j] \in ball[t.hops[j]]
             /\ t.hops[j] > 0 => nodes[j] \notin ball[t.hops[j] - 1]
  BY <1>1, <1>5 DEF Measured, ball, V
<1>7. ASSUME NEW j \in F
      PROVE  /\ nodes[j] \in ball[t.hops[j]]
             /\ t.hops[j] > 0 => nodes[j] \notin ball[t.hops[j] - 1]
  <2>1. t.hops[j] = h + 1 /\ t.hops[j] - 1 = h
    BY <1>2, <1>5
  <2>2. nodes[n] \in ball[h]
    BY <1>1 DEF Measured, ball, V, h
  <2>3. nodes[j] \in Touching(nodes[n])
    BY <1>1, <1>5, NeighborsTouch DEF Named
  <2>4. nodes[j] \in ball[h + 1]
    BY <1>3, <2>2, <2>3 DEF Around
  <2>5. nodes[j] \notin ball[h]
    <3> SUFFICES ASSUME nodes[j] \in ball[h] PROVE FALSE
      OBVIOUS
    <3>1. PICK v \in V : nodes[j] = nodes[v]
      BY <1>1 DEF Named
    <3>2. j = v
      BY <1>1, <1>4, <1>5, <3>1 DEF IsInjective
    <3>3. QED
      BY <1>5, <3>2
  <2>6. QED
    BY <2>1, <2>4, <2>5
<1>8. QED
  BY <1>5, <1>6, <1>7 DEF Measured, ball

(* What was found anew is queued behind the rest; none of it is farther.   *)
LEMMA InTurnAgain ==
    ASSUME NEW i, NEW k \in Nat, NEW s \in SearchState(k), NEW t \in SearchState(k), NEW F,
           Searched(s, i, k), s.queue # <<>>, Widened(s, t, F, k)
    PROVE  /\ InTurn(t)
           /\ \A m \in Range(t.queue) : t.hops[m] \in {s.hops[Head(s.queue)],
                                                       s.hops[Head(s.queue)] + 1}
<1> DEFINE n == Head(s.queue)
           h == s.hops[n]
           V == DOMAIN s.hops
<1>1. /\ n \in V /\ (\A j \in V : s.hops[j] \in 0 .. k) /\ Range(s.queue) \subseteq V
      /\ s.queue \in Seq(DOMAIN nodes) /\ t.queue \in Seq(DOMAIN nodes) /\ InTurn(s)
  BY StateParts, HeadNearest DEF Searched
<1>2. h \in Int /\ DOMAIN s.queue = 1 .. Len(s.queue) /\ Len(s.queue) \in Nat
  BY <1>1
<1>3. \A m \in Range(s.queue) : h <= s.hops[m] /\ s.hops[m] <= h + 1 /\ s.hops[m] \in Int
  BY <1>1, HeadNearest DEF Searched
<1>4. /\ Range(t.queue) = (Range(s.queue) \ {n}) \cup F
      /\ \A j \in V : t.hops[j] = s.hops[j]
      /\ \A j \in F : t.hops[j] = h + 1
      /\ \A a \in DOMAIN t.queue : \/ a + 1 \in DOMAIN s.queue /\ t.queue[a] = s.queue[a + 1]
                                   \/ a >= Len(s.queue) /\ t.queue[a] \in F
  BY DEF Widened
<1> HIDE DEF h, V
<1>5. ASSUME NEW a \in DOMAIN t.queue, NEW b \in DOMAIN t.queue, a < b
      PROVE  /\ t.hops[t.queue[a]] <= t.hops[t.queue[b]]
             /\ t.hops[t.queue[b]] <= t.hops[t.queue[a]] + 1
  <2>1. a \in Int /\ b \in Int
    BY <1>1
  <2>2. ASSUME NEW c \in DOMAIN s.queue
        PROVE  /\ t.hops[s.queue[c]] = s.hops[s.queue[c]] /\ s.hops[s.queue[c]] \in Int
               /\ h <= s.hops[s.queue[c]] /\ s.hops[s.queue[c]] <= h + 1
    <3>1. s.queue[c] \in Range(s.queue)
      BY DEF Range
    <3>2. QED
      BY <1>1, <1>3, <1>4, <3>1
  <2>3. CASE t.queue[b] \in F /\ b >= Len(s.queue)
    <3>1. t.hops[t.queue[b]] = h + 1
      BY <1>4, <2>3
    <3>2. CASE t.queue[a] \in F
      <4>1. t.hops[t.queue[a]] = h + 1
        BY <1>4, <3>2
      <4>2. QED
        BY <1>2, <3>1, <4>1
    <3>3. CASE a + 1 \in DOMAIN s.queue /\ t.queue[a] = s.queue[a + 1]
      BY <1>2, <2>2, <3>1, <3>3
    <3>4. QED
      BY <1>4, <3>2, <3>3
  <2>4. CASE b + 1 \in DOMAIN s.queue /\ t.queue[b] = s.queue[b + 1]
    <3>1. ~(a >= Len(s.queue))
      BY <1>2, <1>5, <2>1, <2>4
    <3>2. a + 1 \in DOMAIN s.queue /\ t.queue[a] = s.queue[a + 1]
      BY <1>4, <3>1
    <3>3. a + 1 < b + 1
      BY <1>5, <2>1
    <3>4. /\ s.hops[s.queue[a + 1]] <= s.hops[s.queue[b + 1]]
          /\ s.hops[s.queue[b + 1]] <= s.hops[s.queue[a + 1]] + 1
      BY <1>1, <2>4, <3>2, <3>3 DEF InTurn
    <3>5. QED
      BY <2>2, <2>4, <3>2, <3>4
  <2>5. QED
    BY <1>4, <2>3, <2>4
<1>6. ASSUME NEW m \in Range(t.queue)
      PROVE  t.hops[m] \in {h, h + 1}
  <2>1. CASE m \in F
    BY <1>4, <2>1
  <2>2. CASE m \in Range(s.queue)
    BY <1>1, <1>2, <1>3, <1>4, <2>2
  <2>3. QED
    BY <1>4, <2>1, <2>2
<1>7. QED
  BY <1>5, <1>6 DEF InTurn, h

(* What is done stays done, and the head is done with the round.           *)
LEMMA DoneAfter ==
    ASSUME NEW i, NEW k \in Nat, NEW s \in SearchState(k), NEW t, NEW F,
           Searched(s, i, k), s.queue # <<>>, Widened(s, t, F, k)
    PROVE  /\ Done(t) = Done(s) \cup {Head(s.queue)} /\ Head(s.queue) \notin Done(s)
           /\ Range(t.queue) \subseteq DOMAIN t.hops
           /\ \A j \in Done(t) : t.hops[j] < k => Neighbors(j) \subseteq DOMAIN t.hops
<1> DEFINE n == Head(s.queue)
           V == DOMAIN s.hops
<1>1. n \in Range(s.queue) /\ n \in V /\ Range(s.queue) \subseteq V
  BY StateParts, HeadNearest, FirstAndRest DEF Searched
<1>2. \A j \in Done(s) : s.hops[j] < k => Neighbors(j) \subseteq V
  BY DEF Searched
<1>3. /\ DOMAIN t.hops = V \cup F /\ F \cap V = {}
      /\ Range(t.queue) = (Range(s.queue) \ {n}) \cup F
      /\ \A j \in V : t.hops[j] = s.hops[j]
      /\ s.hops[n] < k => Neighbors(n) \subseteq DOMAIN t.hops
  BY DEF Widened
<1> HIDE DEF n, V
<1>4. Done(t) = Done(s) \cup {n} /\ n \notin Done(s) /\ Range(t.queue) \subseteq DOMAIN t.hops
  BY <1>1, <1>3 DEF Done, V
<1>5. ASSUME NEW j \in Done(t), t.hops[j] < k
      PROVE  Neighbors(j) \subseteq DOMAIN t.hops
  <2>1. CASE j = n
    BY <1>1, <1>3, <1>5, <2>1
  <2>2. CASE j \in Done(s)
    <3>1. j \in V
      BY <2>2 DEF Done, V
    <3>2. QED
      BY <1>2, <1>3, <1>5, <2>2, <3>1
  <2>3. QED
    BY <1>4, <2>1, <2>2
<1>6. QED
  BY <1>4, <1>5 DEF n

(* When the first of a distance comes to the head, all nodes one link      *)
(* nearer are done, and so all of its distance are found.                  *)
LEMMA NearerFound ==
    ASSUME Settled, NEW i \in DOMAIN nodes, NEW k \in Nat,
           NEW s \in SearchState(k), NEW t \in SearchState(k), NEW F,
           Searched(s, i, k), s.queue # <<>>, Widened(s, t, F, k), t.queue # <<>>
    PROVE  Within(nodes[i])[t.hops[Head(t.queue)]] \subseteq Named(DOMAIN t.hops)
<1> DEFINE h == s.hops[Head(s.queue)]
           n == Head(t.queue)
           ball == Within(nodes[i])
<1>1. h \in Nat /\ ball[h] \subseteq Named(DOMAIN s.hops)
  BY StateParts, HeadNearest DEF Searched
<1>2. Measured(t, i) /\ InTurn(t) /\ \A m \in Range(t.queue) : t.hops[m] \in {h, h + 1}
  BY MeasuredAgain, InTurnAgain
<1>3. /\ \A j \in Done(t) : t.hops[j] < k => Neighbors(j) \subseteq DOMAIN t.hops
      /\ Range(t.queue) \subseteq DOMAIN t.hops
  BY DoneAfter
<1>4. /\ n \in Range(t.queue) /\ t.hops[n] \in 0 .. k
      /\ DOMAIN t.hops \subseteq DOMAIN nodes /\ \A j \in DOMAIN t.hops : t.hops[j] \in 0 .. k
      /\ \A m \in Range(t.queue) : t.hops[n] <= t.hops[m]
  <2>1. IsInjective(t.queue)
    BY DEF Widened
  <2>2. n \in Range(t.queue)
    BY <2>1, StateParts, FirstAndRest
  <2>3. QED
    BY <1>2, <1>3, <2>1, <2>2, StateParts, HeadNearest
<1>5. DOMAIN s.hops \subseteq DOMAIN t.hops
  BY DEF Widened
<1>6. Named(DOMAIN s.hops) \subseteq Named(DOMAIN t.hops)
  BY <1>5 DEF Named
<1>7. nodes[i] \in Range(nodes)
  BY DEF Range
<1>8. ball[h + 1] = Around(ball[h])
  BY <1>1, <1>7, BallGrows
<1> HIDE DEF h, n
<1>9. CASE t.hops[n] = h
  BY <1>1, <1>6, <1>9 DEF n
<1>10. CASE t.hops[n] = h + 1
  <2>1. ASSUME NEW y \in ball[h]
        PROVE  Touching(y) \subseteq Named(DOMAIN t.hops)
    <3>1. PICK j \in DOMAIN t.hops : y = nodes[j]
      BY <1>1, <1>6 DEF Named
    <3>2. t.hops[j] <= h
      <4> SUFFICES ASSUME ~(t.hops[j] <= h) PROVE FALSE
        OBVIOUS
      <4>1. t.hops[j] > 0 /\ t.hops[j] - 1 \in Nat /\ h <= t.hops[j] - 1
        BY <1>1, <1>4
      <4>2. ball[h] \subseteq ball[t.hops[j] - 1]
        BY <1>1, <1>7, <4>1, BallsNest
      <4>3. nodes[j] \notin ball[t.hops[j] - 1]
        BY <1>2, <4>1 DEF Measured
      <4>4. QED
        BY <2>1, <3>1, <4>2, <4>3
    <3>3. j \notin Range(t.queue)
      BY <1>1, <1>4, <1>10, <3>2
    <3>4. j \in Done(t) /\ t.hops[j] < k
      BY <1>1, <1>4, <1>10, <3>2, <3>3 DEF Done
    <3>5. Neighbors(j) \subseteq DOMAIN t.hops /\ j \in DOMAIN nodes
      BY <1>3, <1>4, <3>4
    <3>6. Named(Neighbors(j)) = Touching(y)
      BY <3>1, <3>5, NeighborsTouch
    <3>7. QED
      BY <3>5, <3>6 DEF Named
  <2>2. Around(ball[h]) \subseteq Named(DOMAIN t.hops)
    BY <1>1, <1>6, <2>1 DEF Around
  <2>3. QED
    BY <1>8, <1>10, <2>2 DEF n
<1>11. QED
  BY <1>2, <1>4, <1>9, <1>10

(* One round of the search keeps what was found so far right.              *)
LEMMA RoundKeeps ==
    ASSUME Settled, NEW i \in DOMAIN nodes, NEW k \in Nat,
           NEW s \in SearchState(k), Searched(s, i, k)
    PROVE  /\ Dequeue(s, k) \in SearchState(k) /\ Searched(Dequeue(s, k), i, k)
           /\ s.queue # <<>> => \E n \in DOMAIN nodes :
                  n \notin Done(s) /\ Done(Dequeue(s, k)) = Done(s) \cup {n}
<1>1. CASE s.queue = <<>>
  BY <1>1 DEF Dequeue
<1>2. CASE s.queue # <<>>
  <2> DEFINE t == Dequeue(s, k)
             F == Fresh(s, k)
  <2>1. t \in SearchState(k) /\ Widened(s, t, F, k)
    BY <1>2, OneRound DEF Searched
  <2> HIDE DEF t, F
  <2>2. Measured(t, i) /\ InTurn(t)
    BY <1>2, <2>1, MeasuredAgain, InTurnAgain
  <2>3. /\ Done(t) = Done(s) \cup {Head(s.queue)} /\ Head(s.queue) \notin Done(s)
        /\ Range(t.queue) \subseteq DOMAIN t.hops
        /\ \A j \in Done(t) : t.hops[j] < k => Neighbors(j) \subseteq DOMAIN t.hops
    BY <1>2, <2>1, DoneAfter
  <2>4. t.queue # <<>> =>
           Within(nodes[i])[t.hops[Head(t.queue)]] \subseteq Named(DOMAIN t.hops)
    BY <1>2, <2>1, NearerFound
  <2>5. i \in DOMAIN t.hops /\ IsInjective(t.queue)
    BY <2>1 DEF Widened, Searched
  <2>6. Searched(t, i, k)
    BY <2>2, <2>3, <2>4, <2>5 DEF Searched
  <2>7. Head(s.queue) \in DOMAIN nodes
    BY <1>2, StateParts, HeadNearest DEF Searched
  <2>8. QED
    BY <1>2, <2>1, <2>3, <2>6, <2>7 DEF t
<1>3. QED
  BY <1>1, <1>2

(* The rounds of a search, each of them right.                             *)
LEMMA SearchRounds ==
    ASSUME Settled, NEW i \in DOMAIN nodes, NEW k \in Nat
    PROVE  \A n \in Nat : /\ Search(i, k)[n] \in SearchState(k)
                          /\ Searched(Search(i, k)[n], i, k)
                          /\ Search(i, k)[n + 1] = Dequeue(Search(i, k)[n], k)
<1> DEFINE S == {s \in SearchState(k) : Searched(s, i, k)}
           next == [s \in S |-> Dequeue(s, k)]
           a == Reached(i)
<1>1. next \in [S -> S]
  BY RoundKeeps
<1>2. a \in S
  BY SearchBegins
<1> HIDE DEF next, S, a
<1>3. PICK f \in [Nat -> S] : f[0] = a /\ \A n \in Nat : f[n + 1] = next[f[n]]
  BY <1>1, <1>2, Iterated, SMTT(30)
<1> DEFINE Body(b, d) == IF d = 0 THEN a ELSE Dequeue(b[d - 1], k)
           round == CHOOSE b : b = [d \in Nat |-> Body(b, d)]
<1>4. Search(i, k) = round
  BY DEF Search, a
<1>5. ASSUME NEW d \in Nat
      PROVE  f[d] = Body(f, d)
  <2>1. CASE d = 0
    BY <1>3, <2>1
  <2>2. CASE d # 0
    <3>1. d - 1 \in Nat /\ (d - 1) + 1 = d
      BY <2>2
    <3>2. f[d] = next[f[d - 1]]
      BY <1>3, <3>1
    <3>3. f[d - 1] \in S
      BY <3>1
    <3>4. QED
      BY <2>2, <3>2, <3>3 DEF next
  <2>3. QED
    BY <2>1, <2>2
<1>6. f = [d \in Nat |-> Body(f, d)]
  BY <1>5
<1>7. round = [d \in Nat |-> Body(round, d)]
  BY <1>6
<1> HIDE DEF round
<1>8. \A d \in Nat : round[d] = Body(round, d)
  <2> HIDE DEF Body
  <2>1. QED
    BY <1>7
<1>9. round[0] = a
  BY <1>8
<1>10. ASSUME NEW d \in Nat
      PROVE  round[d + 1] = Dequeue(round[d], k)
  <2>1. round[d + 1] = Body(round, d + 1)
    <3> HIDE DEF Body
    <3>1. d + 1 \in Nat
      OBVIOUS
    <3>2. QED
      BY <1>8, <3>1
  <2>2. QED
    BY <2>1
<1> DEFINE T == {d \in Nat : round[d] \in S}
<1>11. T = Nat
  <2>1. 0 \in T
    BY <1>2, <1>9
  <2>2. ASSUME NEW d \in T PROVE d + 1 \in T
    <3>1. round[d] \in SearchState(k) /\ Searched(round[d], i, k)
      BY <2>2 DEF S
    <3>2. d + 1 \in Nat /\ round[d + 1] = Dequeue(round[d], k)
      BY <1>10, <2>2
    <3>3. round[d + 1] \in S
      BY <3>1, <3>2, RoundKeeps DEF S
    <3>4. QED
      BY <3>2, <3>3
  <2>3. QED
    BY <2>1, <2>2, SetInduction
<1>12. QED
  BY <1>4, <1>10, <1>11 DEF S

(* A round takes one node from the queue and none is queued twice: after   *)
(* as many rounds as there are nodes the queue is empty.                   *)
LEMMA SearchEnds ==
    ASSUME Settled, NEW i \in DOMAIN nodes, NEW k \in Nat
    PROVE  Search(i, k)[Len(nodes)].queue = <<>>
<1> DEFINE round == Search(i, k)
           D == DOMAIN nodes
           T == {n \in Nat : \/ round[n].queue = <<>>
                             \/ Cardinality(Done(round[n])) >= n}
<1>1. \A n \in Nat : /\ round[n] \in SearchState(k) /\ Searched(round[n], i, k)
                     /\ round[n + 1] = Dequeue(round[n], k)
  BY SearchRounds
<1>2. D = 1 .. Len(nodes) /\ Len(nodes) \in Nat /\ IsFiniteSet(D)
  <2>1. nodes \in Seq(Names)
    BY DEF Settled, GraphWhole
  <2>2. D = 1 .. Len(nodes) /\ Len(nodes) \in Nat
    BY <2>1
  <2>3. QED
    BY <2>2, FS_Interval
<1>3. Cardinality(D) = Len(nodes)
  <2>1. Cardinality(1 .. Len(nodes)) = IF 1 > Len(nodes) THEN 0 ELSE Len(nodes) - 1 + 1
    BY <1>2, FS_Interval
  <2>2. QED
    BY <1>2, <2>1
<1> HIDE DEF round, D
<1>4. ASSUME NEW n \in Nat
      PROVE  Done(round[n]) \in SUBSET D /\ IsFiniteSet(Done(round[n]))
             /\ Cardinality(Done(round[n])) \in Nat
  <2>1. Done(round[n]) \in SUBSET D
    BY <1>1, StateParts DEF Done, D
  <2>2. QED
    BY <1>2, <2>1, FS_Subset, FS_CardinalityType
<1>5. ASSUME NEW n \in Nat, round[n].queue # <<>>
      PROVE  /\ Cardinality(Done(round[n + 1])) = Cardinality(Done(round[n])) + 1
  <2>1. PICK x \in D : x \notin Done(round[n]) /\ Done(round[n + 1]) = Done(round[n]) \cup {x}
    <3>1. /\ round[n] \in SearchState(k) /\ Searched(round[n], i, k)
          /\ round[n + 1] = Dequeue(round[n], k)
      BY <1>1
    <3>2. \E x \in DOMAIN nodes :
             x \notin Done(round[n]) /\ Done(Dequeue(round[n], k)) = Done(round[n]) \cup {x}
      BY <1>5, <3>1, RoundKeeps
    <3>3. QED
      BY <3>1, <3>2 DEF D
  <2>2. QED
    BY <1>4, <2>1, FS_AddElement
<1>6. 0 \in T
  BY <1>4
<1>7. ASSUME NEW n \in T PROVE n + 1 \in T
  <2>1. CASE round[n].queue = <<>>
    <3>1. n + 1 \in Nat /\ round[n + 1] = round[n]
      <4>1. n \in Nat /\ n + 1 \in Nat
        BY <1>7
      <4>2. Dequeue(round[n], k) = round[n]
        BY <2>1 DEF Dequeue
      <4>3. QED
        BY <1>1, <4>1, <4>2
    <3>2. QED
      BY <2>1, <3>1
  <2>2. CASE round[n].queue # <<>>
    <3>1. Cardinality(Done(round[n])) >= n /\ n \in Nat /\ n + 1 \in Nat
      BY <1>7, <2>2
    <3>2. /\ Cardinality(Done(round[n + 1])) = Cardinality(Done(round[n])) + 1
          /\ Cardinality(Done(round[n])) \in Nat
      BY <1>4, <1>5, <2>2, <3>1
    <3>3. Cardinality(Done(round[n + 1])) >= n + 1
      BY <3>1, <3>2
    <3>4. QED
      BY <3>1, <3>3
  <2>3. QED
    BY <2>1, <2>2
<1>8. T = Nat
  BY <1>6, <1>7, SetInduction
<1>9. SUFFICES ASSUME round[Len(nodes)].queue # <<>> PROVE FALSE
  BY DEF round
<1>10. Cardinality(Done(round[Len(nodes)])) >= Len(nodes)
  BY <1>2, <1>8, <1>9
<1>11. Cardinality(Done(round[Len(nodes) + 1])) > Len(nodes)
  BY <1>2, <1>4, <1>5, <1>9, <1>10
<1>12. Cardinality(Done(round[Len(nodes) + 1])) <= Cardinality(D)
  <2>1. Len(nodes) + 1 \in Nat
    BY <1>2
  <2>2. QED
    BY <1>2, <1>4, <2>1, FS_Subset
<1>13. QED
  <2>1. Len(nodes) + 1 \in Nat
    BY <1>2
  <2>2. QED
    BY <1>2, <1>3, <1>4, <1>11, <1>12, <2>1

(* With nothing left in the queue exactly the ball is found.               *)
LEMMA AllFound ==
    ASSUME Settled, NEW i \in DOMAIN nodes, NEW k \in Nat,
           NEW s \in SearchState(k), Searched(s, i, k), s.queue = <<>>
    PROVE  Named(DOMAIN s.hops) = Within(nodes[i])[k]
<1> DEFINE ball == Within(nodes[i])
           V == DOMAIN s.hops
           T == {d \in Nat : d <= k => ball[d] \subseteq Named(V)}
<1>1. nodes[i] \in Range(nodes)
  BY DEF Range
<1>2. /\ V \subseteq DOMAIN nodes /\ (\A j \in V : s.hops[j] \in 0 .. k)
      /\ i \in V /\ Measured(s, i)
  BY StateParts DEF Searched
<1>3. ball[0] = {nodes[i]} /\ \A d \in Nat : ball[d + 1] = Around(ball[d])
  BY <1>1, BallGrows
<1>4. \A j \in V : s.hops[j] < k => Neighbors(j) \subseteq V
  BY DEF Searched, Done, Range
<1> HIDE DEF ball, V
<1>5. \A j \in V : /\ nodes[j] \in ball[s.hops[j]]
                   /\ s.hops[j] > 0 => nodes[j] \notin ball[s.hops[j] - 1]
  BY <1>2 DEF Measured, ball, V
<1>6. Named(V) \subseteq ball[k]
  <2> SUFFICES ASSUME NEW j \in V PROVE nodes[j] \in ball[k]
    BY DEF Named
  <2>1. s.hops[j] \in Nat /\ s.hops[j] <= k
    BY <1>2
  <2>2. ball[s.hops[j]] \subseteq ball[k]
    BY <1>1, <2>1, BallsNest DEF ball
  <2>3. QED
    BY <1>5, <2>2
<1>7. 0 \in T
  BY <1>2, <1>3 DEF Named
<1>8. ASSUME NEW d \in T PROVE d + 1 \in T
  <2> SUFFICES ASSUME d + 1 <= k PROVE ball[d + 1] \subseteq Named(V)
    OBVIOUS
  <2>1. ball[d] \subseteq Named(V) /\ d < k /\ d \in Nat
    BY <1>8
  <2>2. ASSUME NEW y \in ball[d]
        PROVE  Touching(y) \subseteq Named(V)
    <3>1. PICK j \in V : y = nodes[j]
      BY <2>1 DEF Named
    <3>2. s.hops[j] <= d
      <4> SUFFICES ASSUME ~(s.hops[j] <= d) PROVE FALSE
        OBVIOUS
      <4>1. s.hops[j] > 0 /\ s.hops[j] - 1 \in Nat /\ d <= s.hops[j] - 1
        BY <1>2, <2>1
      <4>2. ball[d] \subseteq ball[s.hops[j] - 1]
        BY <1>1, <2>1, <4>1, BallsNest DEF ball
      <4>3. QED
        BY <1>5, <2>2, <3>1, <4>1, <4>2
    <3>3. Neighbors(j) \subseteq V /\ j \in DOMAIN nodes
      BY <1>2, <1>4, <2>1, <3>2
    <3>4. Named(Neighbors(j)) = Touching(y)
      BY <3>1, <3>3, NeighborsTouch
    <3>5. QED
      BY <3>3, <3>4 DEF Named
  <2>3. QED
    BY <1>3, <2>1, <2>2 DEF Around
<1>9. T = Nat
  BY <1>7, <1>8, SetInduction
<1>10. ball[k] \subseteq Named(V)
  BY <1>9
<1>11. QED
  BY <1>6, <1>10 DEF ball, V

(* k_hop of a rebuilt graph finds what the ledger relates within k links,  *)
(* each at its smallest distance (graph_lite.py k_hop), for every ledger,  *)
(* every rule set and every number of links asked for.                     *)
THEOREM HopsAreShortest == GraphSpec => []HopsShortest
<1>1. GraphInv => HopsShortest
  <2> SUFFICES ASSUME GraphInv, settled # Null, NEW i \in DOMAIN nodes, NEW k \in 0 .. MaxHops
               PROVE  /\ {nodes[j] : j \in DOMAIN KHop(i, k)} = Within(nodes[i])[k]
                      /\ \A j \in DOMAIN KHop(i, k) : KHop(i, k)[j] > 0 =>
                             nodes[j] \notin Within(nodes[i])[KHop(i, k)[j] - 1]
    BY DEF HopsShortest
  <2>1. Settled /\ k \in Nat
    BY GraphAssumption DEF GraphInv, GraphSettled, Settled
  <2>2. PICK s \in SearchState(k) : /\ s = Search(i, k)[Len(nodes)] /\ Searched(s, i, k)
                                    /\ s.queue = <<>>
    <3>1. Len(nodes) \in Nat
      <4>1. nodes \in Seq(Names)
        BY <2>1 DEF Settled, GraphWhole
      <4>2. QED
        BY <4>1
    <3>2. QED
      BY <2>1, <3>1, SearchRounds, SearchEnds
  <2>3. KHop(i, k) = s.hops
    BY <2>2 DEF KHop
  <2>4. Named(DOMAIN s.hops) = Within(nodes[i])[k] /\ Measured(s, i)
    BY <2>1, <2>2, AllFound DEF Searched
  <2>5. QED
    BY <2>3, <2>4 DEF Measured, Named
<1>2. QED
  BY <1>1, GraphKept, PTL
=============================================================================
