-------------------------- MODULE RouterProxyProofs --------------------------
(***************************************************************************)
(* Theorems of RouterProxy, for any sets of sessions, requests, turns and  *)
(* observations.  Every handler changes at most one session, and changes   *)
(* it by a composition of a few operators on its record; the lemmas say    *)
(* what each operator preserves, the theorems put them together.           *)
(***************************************************************************)
EXTENDS RouterProxy, TLAPS

-----------------------------------------------------------------------------
(* The invariant of one session, apart from its handoff, and the handoff's.*)

Sound(x) ==
    /\ x \in SessionRecord
    /\ x.escalated /\ ~x.pinned => x.route \notin LocalRoutes
    /\ x.infra /\ ~x.pinned => x.route = "frontier"

HandoffOK(x) ==
    /\ x.pending # "none" => x.hit
    /\ x.pending = "user" => x.pinned
    /\ x.pending \in {"cheap-cloud", "frontier"} =>
          x.escalated /\ ~x.pinned /\ Rank(x.route) >= Rank(x.pending)

-----------------------------------------------------------------------------
(* The policy.                                                             *)

(* The cheapest feasible rung is feasible, or the frontier.                *)
LEMMA CheapestFeasibleRung ==
    ASSUME NEW tokens, NEW healthyMap
    PROVE  CheapestFeasible(tokens, healthyMap)
             \in Feasible(tokens, healthyMap) \cup {"frontier"}
<1> DEFINE fits == Feasible(tokens, healthyMap)
<1>1. CASE fits = {}
  BY <1>1 DEF CheapestFeasible
<1>2. CASE fits # {}
  <2>1. fits \subseteq {"local", "cheap_cloud", "frontier"}
    BY DEF Feasible, Rungs
  <2>2. /\ CostRank["local"] = 0
        /\ CostRank["cheap_cloud"] = 1
        /\ CostRank["frontier"] = 2
    BY DEF CostRank, Rungs
  <2>3. \E r \in fits : \A o \in fits : CostRank[r] <= CostRank[o]
    <3> HIDE DEF fits
    <3>1. CASE "local" \in fits
      BY <2>1, <2>2, <3>1
    <3>2. CASE "local" \notin fits /\ "cheap_cloud" \in fits
      BY <2>1, <2>2, <3>2
    <3>3. CASE "local" \notin fits /\ "cheap_cloud" \notin fits
      <4>1. fits = {"frontier"}
        BY <1>2, <2>1, <3>3
      <4> QED BY <2>2, <4>1
    <3> QED BY <3>1, <3>2, <3>3
  <2> QED BY <1>2, <2>3 DEF CheapestFeasible
<1> QED BY <1>1, <1>2

(* What RouteTurn can answer: a pinned turn stays local, and an escalated  *)
(* session that has left the local routes is not taken back to them.       *)
LEMMA RouteTurnAnswers ==
    ASSUME NEW f, NEW pinned \in BOOLEAN, NEW escalated \in BOOLEAN,
           NEW route \in StoreRoutes, NEW healthyMap
    PROVE  LET d == RouteTurn(f, pinned, escalated, route, healthyMap) IN
           /\ d.rung \in Rungs \cup StoreRoutes
           /\ pinned => d.rung = "local"
           /\ d.layer = "pin_context_conflict" => pinned
           /\ escalated /\ ~pinned /\ route \notin LocalRoutes =>
                 d.rung \notin LocalRoutes
<1> DEFINE cheapest == CheapestFeasible(f.tokens, healthyMap)
           judged   == Judge(f)
<1>1. judged.rung \in {"local", "frontier"} /\ judged.layer # "pin_context_conflict"
  BY DEF Judge, Route
<1>2. cheapest \in Feasible(f.tokens, healthyMap) \cup {"frontier"}
  BY CheapestFeasibleRung
<1>3. cheapest \in Rungs
  BY <1>2 DEF Feasible, Rungs
<1>4. "local" \notin Feasible(f.tokens, healthyMap) => cheapest \notin LocalRoutes
  <2>1. "local-code" \notin Rungs
    BY DEF Rungs
  <2> QED BY <1>2, <1>3, <2>1 DEF LocalRoutes
<1> HIDE DEF cheapest, judged
<1>5. RouteTurn(f, pinned, escalated, route, healthyMap) =
        IF pinned /\ ~Fits(f.tokens, "local") THEN Route("local", "pin_context_conflict")
        ELSE IF pinned THEN Route("local", "privacy")
        ELSE IF "local" \notin Feasible(f.tokens, healthyMap)
             THEN Route(cheapest, "feasibility")
        ELSE IF escalated
             THEN Route(IF route # "local" THEN route ELSE "frontier", "hysteresis")
        ELSE IF f.terse THEN Route(route, "continuation")
        ELSE judged
  BY DEF RouteTurn, cheapest, judged
<1> QED
  BY <1>1, <1>3, <1>4, <1>5 DEF Route, Rungs, StoreRoutes, LocalRoutes

-----------------------------------------------------------------------------
(* The operators on a session record.                                      *)

(* An observation only moves strikes, the error flag and the latch, and    *)
(* the latch only up.                                                      *)
LEMMA FeedKeeps ==
    ASSUME NEW x \in SessionRecord, NEW o \in Observations
    PROVE  LET y == Feed(x, o) IN
           /\ y \in SessionRecord
           /\ x.hit => y.hit
           /\ y.route = x.route /\ y.pinned = x.pinned /\ y.escalated = x.escalated
           /\ y.pending = x.pending /\ y.infra = x.infra /\ y.clean = x.clean
           /\ y.active = x.active /\ y.turns = x.turns
<1>1. UpTo(x.edit + o.edit, StrikeLimit) \in 0..StrikeLimit
  BY StrikeAssumption DEF UpTo, SessionRecord, Observations
<1>2. UpTo(x.parse + o.parse, StrikeLimit) \in 0..StrikeLimit
  BY StrikeAssumption DEF UpTo, SessionRecord, Observations
<1>3. o.error \in BOOLEAN /\ o.latch \in BOOLEAN
  BY DEF Observations
<1> QED BY <1>1, <1>2, <1>3 DEF Feed, SessionRecord

(* An escalation: one rung up, from a rung that has a next one.            *)
LEMMA RaiseKeeps ==
    ASSUME NEW x \in SessionRecord, x.route \in DOMAIN NextRung, x.hit, ~x.pinned,
           ~x.infra
    PROVE  Sound(Raise(x)) /\ HandoffOK(Raise(x))
<1>1. DOMAIN NextRung = {"local-code", "cheap-cloud"}
  BY DEF NextRung
<1>2. NextRung[x.route] \in {"cheap-cloud", "frontier"}
  BY <1>1 DEF NextRung
<1> DEFINE y == Raise(x)
<1>3. /\ y \in SessionRecord
      /\ y.route = NextRung[x.route] /\ y.pending = NextRung[x.route]
      /\ y.escalated /\ ~y.pinned /\ ~y.infra /\ y.hit
  BY <1>2 DEF Raise, SessionRecord, StoreRoutes, Handoffs
<1>4. Rank(y.route) \in Nat /\ y.pending = y.route
  BY <1>2, <1>3 DEF Rank, Lane, LocalRoutes, CostRank, Rungs
<1>5. Rank(y.route) >= Rank(y.pending)
  BY <1>4
<1> QED BY <1>2, <1>3, <1>5 DEF Sound, HandoffOK, LocalRoutes

(* An observation keeps both invariants of a session: a wire that fires    *)
(* escalates or surfaces once, and never takes a route down.               *)
LEMMA ObserveKeeps ==
    ASSUME NEW x, Sound(x), NEW o \in Observations
    PROVE  LET y == Observe(x, o) IN
           /\ Sound(y)
           /\ y.pinned = x.pinned /\ y.active = x.active /\ y.turns = x.turns
           /\ y.infra = x.infra
           /\ x.escalated => y.escalated
           /\ y.pending = "user" => y.pinned \/ x.pending = "user"
           /\ HandoffOK(x) => HandoffOK(y)
<1> DEFINE y == Feed(x, o)
           z == Observe(x, o)
<1>1. x \in SessionRecord
  BY DEF Sound
<1>2. /\ y \in SessionRecord
      /\ x.hit => y.hit
      /\ y.route = x.route /\ y.pinned = x.pinned /\ y.escalated = x.escalated
      /\ y.pending = x.pending /\ y.infra = x.infra
      /\ y.active = x.active /\ y.turns = x.turns
  BY <1>1, FeedKeeps
<1>3. Sound(y) /\ (HandoffOK(x) => HandoffOK(y))
  BY <1>2 DEF Sound, HandoffOK
<1>4. z = IF x.hit \/ ~y.hit THEN y
          ELSE IF y.pinned THEN [y EXCEPT !.pending = "user"]
          ELSE IF y.route \in DOMAIN NextRung THEN Raise(y)
          ELSE y
  BY DEF Observe
<1> HIDE DEF y, z
<1>5. CASE z = y
  BY <1>2, <1>3, <1>5 DEF z
<1>6. CASE ~x.hit /\ y.hit /\ y.pinned
  <2>1. z = [y EXCEPT !.pending = "user"]
    BY <1>4, <1>6
  <2>2. /\ z \in SessionRecord /\ z.pending = "user" /\ z.hit = y.hit
        /\ z.route = y.route /\ z.pinned = y.pinned /\ z.escalated = y.escalated
        /\ z.infra = y.infra /\ z.active = y.active /\ z.turns = y.turns
    BY <1>2, <2>1 DEF SessionRecord, Handoffs
  <2> QED BY <1>2, <1>3, <1>6, <2>2 DEF z, Sound, HandoffOK
<1>7. CASE ~x.hit /\ y.hit /\ ~y.pinned /\ y.route \in DOMAIN NextRung
  <2>1. z = Raise(y)
    BY <1>4, <1>7
  <2>2. ~y.infra
    BY <1>2, <1>3, <1>7 DEF Sound, NextRung, SessionRecord
  <2>3. Sound(z) /\ HandoffOK(z)
    BY <1>2, <1>7, <2>1, <2>2, RaiseKeeps
  <2>4. /\ z.pinned = y.pinned /\ z.active = y.active /\ z.turns = y.turns
        /\ z.infra = y.infra /\ z.escalated
    BY <1>2, <2>1 DEF Raise, SessionRecord
  <2>5. z.pending # "user"
    BY <1>7, <2>3, <2>4 DEF HandoffOK
  <2> QED BY <1>2, <2>3, <2>4, <2>5 DEF z
<1> QED BY <1>4, <1>5, <1>6, <1>7

(* The inbound code hands on a session without a handoff; a handoff for    *)
(* the user was only surfaced if the session is pinned.                    *)
LEMMA InboundKeeps ==
    ASSUME NEW x, Sound(x), HandoffOK(x), NEW secret \in BOOLEAN, NEW o \in Observations
    PROVE  LET y == Inbound(x, secret, o) IN
           /\ Sound(y) /\ HandoffOK(y) /\ y.pending = "none"
           /\ x.pinned => y.pinned
           /\ x.escalated => y.escalated
           /\ y.active = x.active /\ y.turns = x.turns
           /\ SurfacedToUser(x, secret, o) => y.pinned
<1> DEFINE w == IF secret THEN [x EXCEPT !.pinned = TRUE] ELSE x
           z == Observe(w, o)
           y == [z EXCEPT !.pending = "none"]
<1>1. /\ Sound(w) /\ (x.pinned => w.pinned) /\ w.escalated = x.escalated
      /\ w.active = x.active /\ w.turns = x.turns
      /\ w.pending = "user" => w.pinned
  <2>1. CASE secret
    <3>1. /\ w \in SessionRecord /\ w.pinned /\ w.escalated = x.escalated
          /\ w.active = x.active /\ w.turns = x.turns
      BY <2>1 DEF Sound, SessionRecord
    <3> QED BY <3>1 DEF Sound
  <2>2. CASE ~secret
    BY <2>2 DEF HandoffOK
  <2> QED BY <2>1, <2>2
<1> HIDE DEF w
<1>2. /\ Sound(z) /\ z.pinned = w.pinned /\ (w.escalated => z.escalated)
      /\ z.active = w.active /\ z.turns = w.turns
      /\ z.pending = "user" => z.pinned
  BY <1>1, ObserveKeeps
<1>3. z = Scanned(x, secret, o) /\ y = Inbound(x, secret, o)
  BY DEF Scanned, Inbound, Consumed, w
<1> HIDE DEF z
<1>4. /\ y \in SessionRecord /\ y.pending = "none" /\ y.pinned = z.pinned
      /\ y.escalated = z.escalated /\ y.route = z.route /\ y.infra = z.infra
      /\ y.active = z.active /\ y.turns = z.turns
  BY <1>2 DEF Sound, SessionRecord, Handoffs
<1> HIDE DEF y
<1>5. Sound(y) /\ HandoffOK(y)
  BY <1>2, <1>4 DEF Sound, HandoffOK
<1> QED BY <1>1, <1>2, <1>3, <1>4, <1>5 DEF SurfacedToUser

(* The post-call code observes, then sets only the clean mark.             *)
LEMMA PostCallKeeps ==
    ASSUME NEW x, Sound(x), HandoffOK(x), NEW o \in Observations, NEW ok \in BOOLEAN
    PROVE  LET y == PostCall(x, o, ok) IN
           /\ Sound(y) /\ HandoffOK(y)
           /\ y.pinned = x.pinned /\ y.active = x.active
           /\ x.escalated => y.escalated
<1> DEFINE z == Observe(x, o)
           clean == ok /\ ~z.hit /\ z.edit = 0 /\ ~z.error /\ ~z.infra
           y == [z EXCEPT !.clean = clean]
<1>1. /\ Sound(z) /\ HandoffOK(z) /\ z.pinned = x.pinned
      /\ z.active = x.active /\ (x.escalated => z.escalated)
  BY ObserveKeeps
<1>2. y = PostCall(x, o, ok)
  BY DEF PostCall
<1>3. clean \in BOOLEAN
  OBVIOUS
<1> HIDE DEF z, clean
<1>4. /\ y \in SessionRecord /\ y.pinned = z.pinned /\ y.escalated = z.escalated
      /\ y.route = z.route /\ y.infra = z.infra /\ y.active = z.active
      /\ y.pending = z.pending /\ y.hit = z.hit
  BY <1>1, <1>3 DEF Sound, SessionRecord
<1> HIDE DEF y
<1>5. Sound(y) /\ HandoffOK(y)
  BY <1>1, <1>4 DEF Sound, HandoffOK
<1> QED BY <1>1, <1>2, <1>4, <1>5

(* A fall-open moves the sticky route to the frontier, above any handoff.  *)
LEMMA SyncServedKeeps ==
    ASSUME NEW x, Sound(x), HandoffOK(x), NEW fellOpen \in BOOLEAN
    PROVE  LET y == SyncServed(x, fellOpen) IN
           /\ Sound(y) /\ HandoffOK(y)
           /\ y.pinned = x.pinned /\ y.active = x.active
           /\ y.escalated = x.escalated
<1> DEFINE y == [x EXCEPT !.route = "frontier", !.infra = TRUE]
<1>1. CASE ~fellOpen
  BY <1>1 DEF SyncServed
<1>2. CASE fellOpen
  <2>1. /\ y \in SessionRecord /\ y.route = "frontier" /\ y.infra
        /\ y.pinned = x.pinned /\ y.escalated = x.escalated
        /\ y.active = x.active /\ y.pending = x.pending /\ y.hit = x.hit
    BY DEF Sound, SessionRecord, StoreRoutes
  <2>2. y = SyncServed(x, fellOpen)
    BY <1>2 DEF SyncServed
  <2> HIDE DEF y
  <2>3. Sound(y)
    BY <2>1 DEF Sound, LocalRoutes
  <2>4. \A p \in {"cheap-cloud", "frontier"} : Rank("frontier") >= Rank(p)
    BY DEF Rank, Lane, LocalRoutes, CostRank, Rungs
  <2>5. HandoffOK(y)
    BY <2>1, <2>4 DEF HandoffOK
  <2> QED BY <2>1, <2>2, <2>3, <2>5
<1> QED BY <1>1, <1>2

(* Ending the episode of an escalated session frees it; otherwise it stays *)
(* off the local routes.                                                   *)
LEMMA TurnSessionKeeps ==
    ASSUME NEW x, Sound(x), x.pending = "none", NEW f
    PROVE  LET y == TurnSession(x, f) IN
           /\ y \in SessionRecord /\ y.pending = "none"
           /\ y.pinned = x.pinned /\ y.turns = x.turns
           /\ y.escalated /\ ~y.pinned => y.route \notin LocalRoutes
<1> DEFINE z == StartNewEpisode(x)
<1>1. /\ z \in SessionRecord /\ z.pending = "none" /\ z.pinned = x.pinned
      /\ z.turns = x.turns /\ ~z.escalated
  BY DEF Sound, StartNewEpisode, SessionRecord, StoreRoutes, LocalRoutes
<1> HIDE DEF z
<1>2. TurnSession(x, f) \in {x, z}
  BY DEF TurnSession, z
<1> QED BY <1>1, <1>2 DEF Sound

(* The two vocabularies agree on what is local.                            *)
LEMMA StoreRungRoutes ==
    ASSUME NEW rung \in Rungs \cup StoreRoutes
    PROVE  /\ StoreRung(rung) \in StoreRoutes
           /\ rung \notin LocalRoutes => StoreRung(rung) \notin LocalRoutes
           /\ Lane(rung) \in Rungs
           /\ rung \notin LocalRoutes => Lane(rung) # "local"
           /\ Lane("local") = "local" /\ Lane("local-code") = "local"
BY DEF StoreRung, StoreRoutes, LocalRoutes, Rungs, Lane

(* The session a user turn leaves: the strikes are new, the route is what  *)
(* the policy decided.                                                     *)
LEMMA NewTurnSound ==
    ASSUME NEW x \in SessionRecord, x.pending = "none",
           NEW rung \in Rungs \cup StoreRoutes, NEW q \in Requests,
           x.escalated /\ ~x.pinned => rung \notin LocalRoutes
    PROVE  LET y == NewTurn([x EXCEPT !.route = StoreRung(rung), !.active = q,
                                      !.turns = @ + 1]) IN
           /\ Sound(y) /\ HandoffOK(y)
           /\ y.pinned = x.pinned /\ y.escalated = x.escalated /\ y.active = q
<1> DEFINE w == [x EXCEPT !.route = StoreRung(rung), !.active = q, !.turns = @ + 1]
           y == NewTurn(w)
<1>a. StoreRung(rung) \in StoreRoutes
  BY StoreRungRoutes
<1>b. x.turns + 1 \in Nat
  BY DEF SessionRecord
<1>c. 0 \in 0..StrikeLimit
  BY StrikeAssumption
<1>1. /\ w \in SessionRecord /\ w.pending = "none" /\ w.route = StoreRung(rung)
      /\ w.pinned = x.pinned /\ w.escalated = x.escalated /\ w.active = q
  BY <1>a, <1>b DEF SessionRecord
<1> HIDE DEF w
<1>2. /\ y \in SessionRecord /\ y.pending = "none" /\ y.route = w.route
      /\ y.pinned = w.pinned /\ y.escalated = w.escalated /\ y.active = w.active
      /\ ~y.infra
  BY <1>1, <1>c DEF NewTurn, SessionRecord
<1> HIDE DEF y
<1>3. Sound(y) /\ HandoffOK(y)
  BY <1>1, <1>2, StoreRungRoutes DEF Sound, HandoffOK
<1> QED BY <1>1, <1>2, <1>3 DEF y, w

-----------------------------------------------------------------------------
(* The ledger's rows.                                                      *)

OpenIn(rows, r, s) == rows[r].status \in {"pending", "closed_turn"} /\ rows[r].sess = s

(* Attaching an outcome opens and closes no row.                           *)
LEMMA AttachedKeeps ==
    ASSUME NEW rows \in [Requests -> RowRecord], NEW active,
           NEW turn \in Requests \cup {None}
    PROVE  LET a == Attached(rows, active, turn) IN
           /\ a \in [Requests -> RowRecord]
           /\ \A r \in Requests, s \in Sessions : OpenIn(a, r, s) <=> OpenIn(rows, r, s)
<1> DEFINE a == Attached(rows, active, turn)
<1>1. CASE active \in Requests /\ rows[active].status \in {"pending", "closed_turn"}
  <2> DEFINE b == [rows[active] EXCEPT !.status = "closed_turn", !.from = turn]
  <2>1. a = [rows EXCEPT ![active] = b]
    BY <1>1 DEF Attached
  <2>2. b \in RowRecord /\ b.status = "closed_turn" /\ b.sess = rows[active].sess
    BY <1>1 DEF RowRecord
  <2> HIDE DEF a, b
  <2>3. a \in [Requests -> RowRecord]
    BY <2>1, <2>2
  <2>4. \A r \in Requests : a[r] = IF r = active THEN b ELSE rows[r]
    BY <2>1
  <2> QED BY <1>1, <2>2, <2>3, <2>4 DEF OpenIn, a
<1>2. CASE ~(active \in Requests /\ rows[active].status \in {"pending", "closed_turn"})
  BY <1>2 DEF Attached
<1> QED BY <1>1, <1>2

(* A user turn closes the session's open row for good and opens its own.   *)
LEMMA MintedKeeps ==
    ASSUME row \in [Requests -> RowRecord], OneOpenRow,
           NEW q \in Requests, NEW s \in Sessions, NEW index \in Nat
    PROVE  LET m == Minted(q, s, index) IN
           /\ m \in [Requests -> RowRecord]
           /\ \A r \in Requests : OpenIn(m, r, s) => r = q
           /\ \A r \in Requests, t \in Sessions :
                 t # s /\ OpenIn(m, r, t) => OpenIn(row, r, t)
<1> DEFINE m == Minted(q, s, index)
           closed(r) == [row[r] EXCEPT !.status = "closed_final"]
<1>1. \A r \in Requests :
        m[r] = IF r = q THEN NewRow(s, index)
               ELSE IF r \in LatestOpen(s) THEN closed(r)
               ELSE row[r]
  BY DEF Minted
<1>2. \A r \in Requests : closed(r) \in RowRecord /\ closed(r).status = "closed_final"
  BY DEF RowRecord
<1>3. NewRow(s, index) \in RowRecord /\ NewRow(s, index).sess = s
  BY DEF NewRow, RowRecord
<1>4. m \in [Requests -> RowRecord]
  <2>1. m = [r \in Requests |-> m[r]]
    BY DEF Minted
  <2>2. \A r \in Requests : m[r] \in RowRecord
    BY <1>1, <1>2, <1>3
  <2> HIDE DEF m
  <2> QED BY <2>1, <2>2
<1>5. ASSUME NEW r \in Requests, r # q, OpenIn(row, r, s)
      PROVE  r \in LatestOpen(s)
  <2>1. r \in OpenRows(s) /\ OpenRows(s) \subseteq {r}
    BY <1>5 DEF OneOpenRow, OpenRows, OpenIn
  <2>2. row[r].index \in Nat
    BY DEF RowRecord
  <2> QED BY <2>1, <2>2 DEF LatestOpen
<1> HIDE DEF m, closed
<1>6. ASSUME NEW r \in Requests, OpenIn(m, r, s)
      PROVE  r = q
  BY <1>1, <1>2, <1>5, <1>6 DEF OpenIn
<1>7. ASSUME NEW r \in Requests, NEW t \in Sessions, t # s, OpenIn(m, r, t)
      PROVE  OpenIn(row, r, t)
  BY <1>1, <1>2, <1>3, <1>7 DEF OpenIn
<1> QED BY <1>4, <1>6, <1>7 DEF m

-----------------------------------------------------------------------------
(* The inductive invariant.  To the invariants of RouterProxy it adds what *)
(* a request in flight may still do: a turn of a pinned session has no     *)
(* second attempt left, a turn of a raised one was not planned local.      *)

InFlight(r) == r.pc \in {"sending", "relaying"}

TripAllowed(r) ==
    InFlight(r) =>
      /\ r.sess \in Sessions
      /\ r.label \in Routed =>
            /\ r.phase = "pinned" => r.rung = "local" /\ ~r.backup /\ ~r.fellOpen
            /\ r.phase = "raised" => r.rung # "local"

OpensUp(r) ==
    LET bound == r.phase = "pinned" /\ r.label \in Routed IN
    r.rung \in {"local", "cheap_cloud"} =>
        /\ r.pc = "relaying" /\ ~r.ok => r.fellOpen \/ bound
        /\ r.pc = "sending" => r.backup \/ r.fellOpen \/ bound

RequestOK(r) == r \in RequestRecord /\ TripAllowed(r) /\ OpensUp(r)

Inv ==
    /\ session \in [Sessions -> SessionRecord]
    /\ \A s \in Sessions : Sound(session[s]) /\ HandoffOK(session[s])
    /\ healthy \in [Rungs -> BOOLEAN]
    /\ req \in [Requests -> RequestRecord]
    /\ \A q \in Requests : RequestOK(req[q])
    /\ row \in [Requests -> RowRecord]
    /\ OneOpenRow

(* It implies the invariants the runs check.                               *)
LEMMA InvImplies ==
    ASSUME Inv
    PROVE  /\ TypeOK /\ EscalatedOffLocal /\ PendingConsistent /\ FellOpenStaysOff
           /\ OneOpenRow /\ FailOpen
<1>1. TypeOK
  BY DEF Inv, TypeOK
<1>2. EscalatedOffLocal /\ FellOpenStaysOff
  BY DEF Inv, Sound, EscalatedOffLocal, FellOpenStaysOff
<1>3. PendingConsistent
  BY DEF Inv, HandoffOK, PendingConsistent
<1>4. FailOpen
  BY DEF Inv, RequestOK, OpensUp, FailOpen
<1> QED BY <1>1, <1>2, <1>3, <1>4 DEF Inv

(* A returned request binds nothing.                                       *)
LEMMA ReturnedOK == RequestOK(Returned) /\ Returned.pc = "done"
<1>1. Returned = [pc |-> "done", sess |-> None, label |-> "passthrough",
                  rung |-> "passthrough", backup |-> FALSE, fellOpen |-> FALSE,
                  ok |-> FALSE, phase |-> "free", turn |-> None]
  BY DEF Returned, NoLocals
<1>2. Returned \in RequestRecord
  BY <1>1 DEF RequestRecord, Labels, Routed, Phases
<1> QED BY <1>1, <1>2 DEF RequestOK, TripAllowed, OpensUp, InFlight

(* A plan that follows the session's phase makes an admissible request.    *)
LEMMA PlannedOK ==
    ASSUME NEW s \in Sessions, NEW label \in Labels,
           NEW rung \in Rungs \cup {"passthrough", "blocked"},
           NEW x \in SessionRecord, NEW turn \in Requests \cup {None},
           label \in Routed /\ rung # "blocked" =>
              /\ x.pinned => rung = "local"
              /\ x.escalated /\ ~x.pinned => rung # "local"
    PROVE  RequestOK(Planned(s, label, rung, x, turn))
<1> DEFINE r == Planned(s, label, rung, x, turn)
           bound == x.pinned /\ label \in Routed
<1>1. CASE rung = "blocked"
  BY <1>1, ReturnedOK DEF Planned
<1>2. CASE rung # "blocked"
  <2>1. bound \in BOOLEAN /\ FallsOpen(rung, bound) \in BOOLEAN /\ Phase(x) \in Phases
    BY DEF FallsOpen, Phase, Phases
  <2>2. r = [pc |-> "sending", sess |-> s, label |-> label, rung |-> rung,
             backup |-> FallsOpen(rung, bound), fellOpen |-> FALSE, ok |-> FALSE,
             phase |-> Phase(x), turn |-> turn]
    BY <1>2 DEF Planned
  <2>3. r \in RequestRecord
    BY <1>2, <2>1, <2>2 DEF RequestRecord
  <2>4. (Phase(x) = "pinned" <=> x.pinned)
        /\ (Phase(x) = "raised" <=> x.escalated /\ ~x.pinned)
    BY DEF Phase
  <2>5. /\ r.pc = "sending" /\ r.sess = s /\ r.label = label /\ r.rung = rung
        /\ r.backup = FallsOpen(rung, bound) /\ ~r.fellOpen /\ r.phase = Phase(x)
    BY <2>2
  <2>6. /\ bound => ~FallsOpen("local", bound)
        /\ ~bound => FallsOpen("local", bound)
        /\ FallsOpen("cheap_cloud", bound)
    BY DEF FallsOpen
  <2> HIDE DEF r
  <2>7. TripAllowed(r)
    BY <1>2, <2>4, <2>5, <2>6 DEF TripAllowed
  <2>8. OpensUp(r)
    BY <1>2, <2>4, <2>5, <2>6 DEF OpensUp
  <2> QED BY <2>3, <2>7, <2>8 DEF RequestOK, r
<1> QED BY <1>1, <1>2

(* A step that changes one session, one request and that session's rows.   *)
LEMMA StepKeeps ==
    ASSUME Inv, NEW q \in Requests, NEW s \in Sessions, NEW x, NEW r,
           Sound(x), HandoffOK(x), RequestOK(r),
           session' = [session EXCEPT ![s] = x],
           req' = [req EXCEPT ![q] = r],
           healthy' \in [Rungs -> BOOLEAN],
           row' \in [Requests -> RowRecord],
           \A p \in Requests : OpenIn(row', p, s) => p = x.active,
           \A p \in Requests, t \in Sessions :
              t # s /\ OpenIn(row', p, t) => OpenIn(row, p, t)
    PROVE  Inv'
<1>1. x \in SessionRecord /\ r \in RequestRecord
  BY DEF Sound, RequestOK
<1>2. /\ session' \in [Sessions -> SessionRecord]
      /\ \A t \in Sessions : session'[t] = IF t = s THEN x ELSE session[t]
  BY <1>1 DEF Inv
<1>3. /\ req' \in [Requests -> RequestRecord]
      /\ \A p \in Requests : req'[p] = IF p = q THEN r ELSE req[p]
  BY <1>1 DEF Inv
<1>4. \A t \in Sessions : Sound(session'[t]) /\ HandoffOK(session'[t])
  BY <1>2 DEF Inv
<1>5. \A p \in Requests : RequestOK(req'[p])
  BY <1>3 DEF Inv
<1>6. \A t \in Sessions, p \in Requests : OpenIn(row, p, t) => p = session[t].active
  BY DEF Inv, OneOpenRow, OpenRows, OpenIn
<1>7. \A t \in Sessions, p \in Requests : OpenIn(row', p, t) => p = session'[t].active
  BY <1>2, <1>6
<1>8. OneOpenRow'
  BY <1>7 DEF OneOpenRow, OpenRows, OpenIn
<1> QED BY <1>2, <1>3, <1>4, <1>5, <1>8 DEF Inv

-----------------------------------------------------------------------------
(* Planning.  What the three ways of planning have in common: x is the     *)
(* session the request was planned on, y the session the step leaves.      *)

Admitted(q, s, label, x, y, rung, turn) ==
    /\ x \in SessionRecord /\ rung \in Rungs \cup {"passthrough", "blocked"}
    /\ turn \in Requests \cup {None}
    /\ req[q].pc = "new"
    /\ req' = [req EXCEPT ![q] = Planned(s, label, rung, x, turn)]
    /\ session' = [session EXCEPT ![s] = y]
    /\ Sound(y) /\ HandoffOK(y)
    /\ Phase(y) = Phase(x)
    /\ session[s].pinned => x.pinned
    /\ label # "user_turn" /\ session[s].escalated => x.escalated
    /\ rung = "blocked" => x.pinned
    /\ label \in Routed /\ rung # "blocked" =>
          /\ x.pinned => rung = "local"
          /\ x.escalated /\ ~x.pinned => rung # "local"

(* The post-call of a blocked request; any other leaves y as it is.        *)
LEMMA BlockedPostCall ==
    ASSUME NEW y, Sound(y), HandoffOK(y), NEW rung, rung = "blocked" => y.pinned
    PROVE  LET z == IF rung = "blocked" THEN PostCall(y, Quiet, FALSE) ELSE y IN
           Sound(z) /\ HandoffOK(z) /\ Phase(z) = Phase(y) /\ z.active = y.active
<1>1. Quiet \in Observations
  BY DEF Quiet, Observations
<1> QED BY <1>1, PostCallKeeps DEF Phase

(* A user turn: a new row, new strikes, the policy's rung or a refusal.    *)
LEMMA PlanUserTurnStep ==
    ASSUME Inv, NEW q \in Requests, NEW s \in Sessions, NEW f \in Turns,
           NEW secret \in BOOLEAN, PlanUserTurn(q, s, f, secret)
    PROVE  Inv' /\ \E x, y, rung : Admitted(q, s, "user_turn", x, y, rung, q)
<1> DEFINE i == Inbound(session[s], secret, Quiet)
           x == TurnSession(i, f)
           d == Decision(x, f)
           surfaced == SurfacedToUser(session[s], secret, Quiet)
           rung == IF surfaced \/ d.layer = "pin_context_conflict"
                   THEN "blocked" ELSE Lane(d.rung)
           y == NewTurn([x EXCEPT !.route = StoreRung(d.rung), !.active = q,
                                  !.turns = @ + 1])
           z == IF rung = "blocked" THEN PostCall(y, Quiet, FALSE) ELSE y
           minted == Minted(q, s, x.turns)
<1>1. Quiet \in Observations
  BY DEF Quiet, Observations
<1>2. Sound(session[s]) /\ HandoffOK(session[s])
  BY DEF Inv
<1>3. /\ Sound(i) /\ i.pending = "none"
      /\ session[s].pinned => i.pinned
      /\ surfaced => i.pinned
  BY <1>1, <1>2, InboundKeeps
<1>4. /\ req[q].pc = "new"
      /\ req' = [req EXCEPT ![q] = Planned(s, "user_turn", rung, x, q)]
      /\ session' = [session EXCEPT ![s] = z]
      /\ row' = IF rung = "blocked" THEN Attached(minted, q, q) ELSE minted
      /\ healthy' = healthy
  BY DEF PlanUserTurn, Idle
<1> HIDE DEF i, surfaced
<1>5. /\ x \in SessionRecord /\ x.pending = "none" /\ x.pinned = i.pinned
      /\ x.escalated /\ ~x.pinned => x.route \notin LocalRoutes
  BY <1>3, TurnSessionKeeps
<1> HIDE DEF x
<1>6. /\ x.pinned \in BOOLEAN /\ x.escalated \in BOOLEAN /\ x.route \in StoreRoutes
      /\ x.turns \in Nat
  BY <1>5 DEF SessionRecord
<1>7. /\ d.rung \in Rungs \cup StoreRoutes
      /\ x.pinned => d.rung = "local"
      /\ d.layer = "pin_context_conflict" => x.pinned
      /\ x.escalated /\ ~x.pinned => d.rung \notin LocalRoutes
  BY <1>5, <1>6, RouteTurnAnswers DEF Decision
<1> HIDE DEF d
<1>8. /\ Sound(y) /\ HandoffOK(y)
      /\ y.pinned = x.pinned /\ y.escalated = x.escalated /\ y.active = q
  BY <1>5, <1>7, NewTurnSound
<1>9. /\ rung \in Rungs \cup {"blocked"}
      /\ rung = "blocked" => x.pinned
      /\ rung # "blocked" =>
            (x.pinned => rung = "local") /\ (x.escalated /\ ~x.pinned => rung # "local")
  <2>1. /\ Lane(d.rung) \in Rungs
        /\ d.rung \notin LocalRoutes => Lane(d.rung) # "local"
        /\ Lane("local") = "local"
    BY <1>7, StoreRungRoutes
  <2>2. "blocked" \notin Rungs
    BY DEF Rungs
  <2>3. CASE surfaced \/ d.layer = "pin_context_conflict"
    BY <1>3, <1>5, <1>7, <2>3
  <2>4. CASE ~(surfaced \/ d.layer = "pin_context_conflict")
    <3>1. rung = Lane(d.rung)
      BY <2>4
    <3> HIDE DEF rung
    <3> QED BY <1>7, <2>1, <2>2, <3>1
  <2> QED BY <2>3, <2>4
<1> HIDE DEF y, rung
<1>10. Sound(z) /\ HandoffOK(z) /\ Phase(z) = Phase(x) /\ z.active = q
  <2>1. Phase(y) = Phase(x)
    BY <1>8 DEF Phase
  <2> QED BY <1>8, <1>9, <2>1, BlockedPostCall
<1> HIDE DEF z
<1>11. RequestOK(Planned(s, "user_turn", rung, x, q))
  BY <1>5, <1>9, PlannedOK DEF Labels, Routed
<1>12. /\ minted \in [Requests -> RowRecord]
       /\ \A r \in Requests : OpenIn(minted, r, s) => r = q
       /\ \A r \in Requests, t \in Sessions :
             t # s /\ OpenIn(minted, r, t) => OpenIn(row, r, t)
  BY <1>6, MintedKeeps DEF Inv
<1> HIDE DEF minted
<1>13. /\ row' \in [Requests -> RowRecord]
       /\ \A r \in Requests, t \in Sessions : OpenIn(row', r, t) <=> OpenIn(minted, r, t)
  BY <1>4, <1>12, AttachedKeeps
<1>14. Inv'
  <2>1. healthy' \in [Rungs -> BOOLEAN]
    BY <1>4 DEF Inv
  <2>2. \A r \in Requests : OpenIn(row', r, s) => r = z.active
    BY <1>10, <1>12, <1>13
  <2>3. \A r \in Requests, t \in Sessions :
          t # s /\ OpenIn(row', r, t) => OpenIn(row, r, t)
    BY <1>12, <1>13
  <2> QED BY <1>4, <1>10, <1>11, <1>13, <2>1, <2>2, <2>3, StepKeeps
<1>15. Admitted(q, s, "user_turn", x, z, rung, q)
  BY <1>3, <1>4, <1>5, <1>9, <1>10 DEF Admitted
<1> QED BY <1>14, <1>15

(* A continuation's route: pinned sessions are put back on the local one.  *)
LEMMA FollowRouteKeeps ==
    ASSUME NEW x, Sound(x), x.pending = "none"
    PROVE  LET y == [x EXCEPT !.route = FollowRoute(x)] IN
           /\ Sound(y) /\ HandoffOK(y) /\ Phase(y) = Phase(x)
           /\ y.pinned = x.pinned /\ y.active = x.active
           /\ FollowRoute(x) \in StoreRoutes
           /\ x.pinned => FollowRoute(x) = "local-code"
           /\ x.escalated /\ ~x.pinned => FollowRoute(x) \notin LocalRoutes
<1> DEFINE y == [x EXCEPT !.route = FollowRoute(x)]
<1>1. /\ FollowRoute(x) \in StoreRoutes
      /\ x.pinned => FollowRoute(x) = "local-code"
      /\ ~x.pinned => FollowRoute(x) = x.route
  BY DEF FollowRoute, Sound, SessionRecord, StoreRoutes, LocalRoutes
<1>2. /\ y \in SessionRecord /\ y.route = FollowRoute(x) /\ y.pinned = x.pinned
      /\ y.escalated = x.escalated /\ y.infra = x.infra /\ y.active = x.active
      /\ y.pending = "none"
  BY <1>1 DEF Sound, SessionRecord
<1> HIDE DEF y
<1>3. Sound(y) /\ HandoffOK(y)
  BY <1>1, <1>2 DEF Sound, HandoffOK
<1> QED BY <1>1, <1>2, <1>3 DEF y, Phase, Sound

(* A continuation: the sticky route, or a refusal of a pinned session.     *)
LEMMA PlanContinuationStep ==
    ASSUME Inv, NEW q \in Requests, NEW s \in Sessions, NEW tokens,
           NEW secret \in BOOLEAN, NEW o \in Results,
           PlanContinuation(q, s, tokens, secret, o)
    PROVE  Inv' /\ \E x, y, rung, turn : Admitted(q, s, "continuation", x, y, rung, turn)
<1> DEFINE x == Inbound(session[s], secret, o)
           surfaced == SurfacedToUser(session[s], secret, o)
           large == x.pinned /\ ~Fits(tokens, "local")
           rung == IF surfaced \/ large THEN "blocked" ELSE Lane(FollowRoute(x))
           y == IF large THEN x ELSE [x EXCEPT !.route = FollowRoute(x)]
           z == IF rung = "blocked" THEN PostCall(y, Quiet, FALSE) ELSE y
<1>1. o \in Observations
  BY SignsAssumption
<1>2. Sound(session[s]) /\ HandoffOK(session[s])
  BY DEF Inv
<1>3. /\ Sound(x) /\ HandoffOK(x) /\ x.pending = "none"
      /\ session[s].pinned => x.pinned
      /\ session[s].escalated => x.escalated
      /\ x.active = session[s].active
      /\ surfaced => x.pinned
  BY <1>1, <1>2, InboundKeeps
<1>4. /\ req[q].pc = "new"
      /\ req' = [req EXCEPT ![q] = Planned(s, "continuation", rung, x, x.active)]
      /\ session' = [session EXCEPT ![s] = z]
      /\ row' = IF rung = "blocked" THEN Attached(row, x.active, x.active) ELSE row
      /\ healthy' = healthy
  BY DEF PlanContinuation, Idle
<1> HIDE DEF x, surfaced
<1>5. x \in SessionRecord /\ x.active \in Requests \cup {None}
  BY <1>3 DEF Sound, SessionRecord
<1>6. /\ Sound(y) /\ HandoffOK(y) /\ Phase(y) = Phase(x)
      /\ y.pinned = x.pinned /\ y.active = x.active
  BY <1>3, FollowRouteKeeps
<1>7. /\ rung \in Rungs \cup {"blocked"}
      /\ rung = "blocked" => x.pinned
      /\ rung # "blocked" =>
            (x.pinned => rung = "local") /\ (x.escalated /\ ~x.pinned => rung # "local")
  <2> DEFINE route == FollowRoute(x)
  <2>1. /\ route \in StoreRoutes
        /\ x.pinned => route = "local-code"
        /\ x.escalated /\ ~x.pinned => route \notin LocalRoutes
    BY <1>3, FollowRouteKeeps
  <2> HIDE DEF route
  <2>2. /\ Lane(route) \in Rungs
        /\ route \notin LocalRoutes => Lane(route) # "local"
        /\ Lane("local-code") = "local"
    BY <2>1, StoreRungRoutes
  <2>3. "blocked" \notin Rungs
    BY DEF Rungs
  <2>4. CASE surfaced \/ large
    BY <1>3, <2>4
  <2>5. CASE ~(surfaced \/ large)
    <3>1. rung = Lane(route)
      BY <2>5 DEF route
    <3> HIDE DEF rung
    <3> QED BY <2>1, <2>2, <2>3, <3>1
  <2> QED BY <2>4, <2>5
<1> HIDE DEF y, rung
<1>8. Sound(z) /\ HandoffOK(z) /\ Phase(z) = Phase(x) /\ z.active = x.active
  BY <1>6, <1>7, BlockedPostCall
<1> HIDE DEF z
<1>9. RequestOK(Planned(s, "continuation", rung, x, x.active))
  BY <1>5, <1>7, PlannedOK DEF Labels, Routed
<1>10. row \in [Requests -> RowRecord] /\ healthy' \in [Rungs -> BOOLEAN]
  BY <1>4 DEF Inv
<1>11. /\ row' \in [Requests -> RowRecord]
       /\ \A r \in Requests, t \in Sessions : OpenIn(row', r, t) <=> OpenIn(row, r, t)
  BY <1>4, <1>5, <1>10, AttachedKeeps
<1>12. \A r \in Requests : OpenIn(row, r, s) => r = z.active
  BY <1>3, <1>8 DEF Inv, OneOpenRow, OpenRows, OpenIn
<1>13. Inv'
  BY <1>4, <1>8, <1>9, <1>10, <1>11, <1>12, StepKeeps
<1>14. Admitted(q, s, "continuation", x, z, rung, x.active)
  BY <1>3, <1>4, <1>5, <1>7, <1>8 DEF Admitted
<1> QED BY <1>13, <1>14

(* Housekeeping: the inbound code and nothing else of the session.         *)
LEMMA PlanAsideStep ==
    ASSUME Inv, NEW q \in Requests, NEW s \in Sessions, NEW label \in Labels \ Routed,
           NEW secret \in BOOLEAN, NEW o \in Results \cup {Quiet},
           PlanAside(q, s, label, secret, o)
    PROVE  Inv' /\ \E x, y, rung, turn : Admitted(q, s, label, x, y, rung, turn)
<1> DEFINE x == Inbound(session[s], secret, o)
           surfaced == SurfacedToUser(session[s], secret, o)
           rung == IF surfaced THEN "blocked"
                   ELSE IF label = "utility" THEN "local" ELSE "passthrough"
<1>1. o \in Observations
  <2>1. Quiet \in Observations
    BY DEF Quiet, Observations
  <2> QED BY <2>1, SignsAssumption
<1>2. Sound(session[s]) /\ HandoffOK(session[s])
  BY DEF Inv
<1>3. /\ Sound(x) /\ HandoffOK(x)
      /\ session[s].pinned => x.pinned
      /\ session[s].escalated => x.escalated
      /\ x.active = session[s].active
      /\ surfaced => x.pinned
  BY <1>1, <1>2, InboundKeeps
<1>4. /\ req[q].pc = "new"
      /\ req' = [req EXCEPT ![q] = Planned(s, label, rung, x, x.active)]
      /\ session' = [session EXCEPT ![s] = x]
      /\ row' = row /\ healthy' = healthy
  BY DEF PlanAside, Idle
<1> HIDE DEF x, surfaced
<1>5. x \in SessionRecord /\ x.active \in Requests \cup {None}
  BY <1>3 DEF Sound, SessionRecord
<1>6. rung \in Rungs \cup {"passthrough", "blocked"} /\ (rung = "blocked" => x.pinned)
  BY <1>3 DEF Rungs
<1> HIDE DEF rung
<1>7. RequestOK(Planned(s, label, rung, x, x.active))
  BY <1>5, <1>6, PlannedOK
<1>8. /\ row' \in [Requests -> RowRecord] /\ healthy' \in [Rungs -> BOOLEAN]
      /\ \A r \in Requests : OpenIn(row', r, s) => r = x.active
      /\ \A r \in Requests, t \in Sessions : OpenIn(row', r, t) => OpenIn(row, r, t)
  BY <1>3, <1>4 DEF Inv, OneOpenRow, OpenRows, OpenIn
<1>9. Inv'
  BY <1>3, <1>4, <1>7, <1>8, StepKeeps
<1>10. Admitted(q, s, label, x, x, rung, x.active)
  BY <1>3, <1>4, <1>5, <1>6 DEF Admitted
<1> QED BY <1>9, <1>10

-----------------------------------------------------------------------------
(* Upstream.  Rows stay as they are, or the active one gets its outcome.   *)

(* Upstream steps own no rows: they leave them, or attach one outcome.     *)
LEMMA UpstreamRows ==
    ASSUME Inv, NEW s \in Sessions, NEW x, x.active = session[s].active, NEW active,
           NEW turn \in Requests \cup {None},
           row' = row \/ row' = Attached(row, active, turn)
    PROVE  /\ row' \in [Requests -> RowRecord]
           /\ \A p \in Requests : OpenIn(row', p, s) => p = x.active
           /\ \A p \in Requests, t \in Sessions :
                 t # s /\ OpenIn(row', p, t) => OpenIn(row, p, t)
<1>1. row \in [Requests -> RowRecord]
  BY DEF Inv
<1>2. /\ row' \in [Requests -> RowRecord]
      /\ \A r \in Requests, t \in Sessions : OpenIn(row', r, t) <=> OpenIn(row, r, t)
  BY <1>1, AttachedKeeps
<1>3. \A r \in Requests : OpenIn(row, r, s) => r = x.active
  BY DEF Inv, OneOpenRow, OpenRows, OpenIn
<1> QED BY <1>2, <1>3

(* Recording health keeps the registry a registry.                         *)
LEMMA ServedHealth ==
    ASSUME healthy \in [Rungs -> BOOLEAN], NEW r \in RequestRecord, NEW ok \in BOOLEAN
    PROVE  Served(r, ok) \in [Rungs -> BOOLEAN]
BY DEF Served, RequestRecord

(* A failed first attempt spends the request's only backup.                *)
LEMMA FallOpenStep ==
    ASSUME Inv, NEW q \in Requests, FallOpen(q)
    PROVE  Inv'
<1> DEFINE s == req[q].sess
           r == [req[q] EXCEPT !.backup = FALSE, !.fellOpen = TRUE]
<1>1. req[q] \in RequestRecord /\ RequestOK(req[q])
  BY DEF Inv
<1>2. /\ req[q].pc = "sending" /\ req[q].backup
      /\ req' = [req EXCEPT ![q] = r]
      /\ session' = session /\ healthy' = healthy /\ row' = row
  BY DEF FallOpen
<1>3. s \in Sessions
  BY <1>1, <1>2 DEF RequestOK, TripAllowed, InFlight
<1>4. /\ r \in RequestRecord /\ r.pc = "sending" /\ ~r.backup /\ r.fellOpen
      /\ r.sess = s /\ r.label = req[q].label /\ r.rung = req[q].rung
      /\ r.phase = req[q].phase
  BY <1>1, <1>2 DEF RequestRecord
<1> HIDE DEF r
<1>5. RequestOK(r)
  BY <1>1, <1>2, <1>3, <1>4 DEF RequestOK, TripAllowed, OpensUp, InFlight
<1>6. session' = [session EXCEPT ![s] = session[s]]
  BY <1>2, <1>3 DEF Inv
<1>7. /\ Sound(session[s]) /\ HandoffOK(session[s])
      /\ healthy' \in [Rungs -> BOOLEAN]
      /\ session[s].active \in Requests \cup {None}
  BY <1>2, <1>3 DEF Inv, SessionRecord
<1> HIDE DEF s
<1>8. /\ row' \in [Requests -> RowRecord]
      /\ \A p \in Requests : OpenIn(row', p, s) => p = session[s].active
      /\ \A p \in Requests, t \in Sessions :
            t # s /\ OpenIn(row', p, t) => OpenIn(row, p, t)
  BY <1>2, <1>3, <1>7, UpstreamRows
<1> QED BY <1>2, <1>3, <1>5, <1>6, <1>7, <1>8, StepKeeps

(* A relayed response records its rung, and its fall-open, if any.         *)
LEMMA AcquiredStep ==
    ASSUME Inv, NEW q \in Requests, NEW ok \in BOOLEAN, Acquired(q, ok)
    PROVE  Inv'
<1> DEFINE s == req[q].sess
           r == [req[q] EXCEPT !.pc = "relaying", !.ok = ok]
           x == SyncServed(session[s], req[q].fellOpen)
<1>1. req[q] \in RequestRecord /\ RequestOK(req[q])
  BY DEF Inv
<1>2. /\ req[q].pc = "sending" /\ (ok \/ ~req[q].backup)
      /\ req' = [req EXCEPT ![q] = r]
      /\ session' = [session EXCEPT ![s] = x]
      /\ healthy' = Served(req[q], ok) /\ row' = row
  BY DEF Acquired
<1>3. s \in Sessions /\ req[q].fellOpen \in BOOLEAN
  BY <1>1, <1>2 DEF RequestOK, TripAllowed, InFlight, RequestRecord
<1>4. /\ r \in RequestRecord /\ r.pc = "relaying" /\ r.ok = ok
      /\ r.backup = req[q].backup /\ r.fellOpen = req[q].fellOpen
      /\ r.sess = s /\ r.label = req[q].label /\ r.rung = req[q].rung
      /\ r.phase = req[q].phase
  BY <1>1 DEF RequestRecord
<1> HIDE DEF r
<1>5. RequestOK(r)
  BY <1>1, <1>2, <1>3, <1>4 DEF RequestOK, TripAllowed, OpensUp, InFlight
<1>6. /\ Sound(session[s]) /\ HandoffOK(session[s])
      /\ session[s].active \in Requests \cup {None}
  BY <1>3 DEF Inv, SessionRecord
<1>7. Sound(x) /\ HandoffOK(x) /\ x.active = session[s].active
  BY <1>3, <1>6, SyncServedKeeps
<1>8. healthy' \in [Rungs -> BOOLEAN]
  BY <1>1, <1>2, ServedHealth DEF Inv
<1> HIDE DEF s, x
<1>9. /\ row' \in [Requests -> RowRecord]
      /\ \A p \in Requests : OpenIn(row', p, s) => p = x.active
      /\ \A p \in Requests, t \in Sessions :
            t # s /\ OpenIn(row', p, t) => OpenIn(row, p, t)
  BY <1>2, <1>3, <1>6, <1>7, UpstreamRows
<1> QED BY <1>2, <1>3, <1>5, <1>7, <1>8, <1>9, StepKeeps

(* What the three ways of returning have in common: y is the session the   *)
(* answer of request q leaves.                                             *)
Answered(q, y) ==
    /\ InFlight(req[q])
    /\ req' = [req EXCEPT ![q] = Returned]
    /\ session' = [session EXCEPT ![req[q].sess] = y]
    /\ Sound(y)
    /\ y.pinned = session[req[q].sess].pinned
    /\ session[req[q].sess].escalated => y.escalated

(* The post-call of a routed request, or none, on a session x that differs *)
(* from the request's own by a fall-open at most.                          *)
LEMMA ReturnStep ==
    ASSUME Inv, NEW q \in Requests, InFlight(req[q]), NEW x, Sound(x), HandoffOK(x),
           x.active = session[req[q].sess].active,
           x.pinned = session[req[q].sess].pinned,
           x.escalated = session[req[q].sess].escalated,
           NEW o \in Observations, NEW ok \in BOOLEAN, Return(q, x, o, ok),
           healthy' \in [Rungs -> BOOLEAN]
    PROVE  Inv' /\ \E y : Answered(q, y)
<1> DEFINE s == req[q].sess
           y == IF req[q].label \in Routed THEN PostCall(x, o, ok) ELSE x
<1>1. req[q] \in RequestRecord /\ RequestOK(req[q])
  BY DEF Inv
<1>2. /\ req' = [req EXCEPT ![q] = Returned]
      /\ session' = [session EXCEPT ![s] = y]
      /\ row' = IF req[q].label \in Routed THEN Attached(row, x.active, req[q].turn)
                ELSE row
  BY DEF Return
<1>3. s \in Sessions /\ req[q].turn \in Requests \cup {None}
  BY <1>1 DEF RequestOK, TripAllowed, RequestRecord
<1>4. /\ Sound(y) /\ HandoffOK(y) /\ y.active = x.active
      /\ y.pinned = x.pinned /\ (x.escalated => y.escalated)
  BY PostCallKeeps
<1> HIDE DEF y
<1>5. /\ row' \in [Requests -> RowRecord]
      /\ \A p \in Requests : OpenIn(row', p, s) => p = y.active
      /\ \A p \in Requests, t \in Sessions :
            t # s /\ OpenIn(row', p, t) => OpenIn(row, p, t)
  <2>1. y.active = session[s].active
    BY <1>4
  <2> HIDE DEF s
  <2> QED BY <1>2, <1>3, <2>1, UpstreamRows
<1>6. Answered(q, y)
  BY <1>2, <1>4 DEF Answered
<1> HIDE DEF s
<1>7. Inv'
  BY <1>2, <1>3, <1>4, <1>5, ReturnedOK, StepKeeps
<1> QED BY <1>6, <1>7

(* What a request in flight gives a step that ends it.                     *)
LEMMA InFlightSession ==
    ASSUME Inv, NEW q \in Requests, InFlight(req[q])
    PROVE  /\ req[q] \in RequestRecord /\ req[q].fellOpen \in BOOLEAN
           /\ req[q].ok \in BOOLEAN
           /\ Sound(session[req[q].sess]) /\ HandoffOK(session[req[q].sess])
           /\ Quiet \in Observations
<1>1. req[q] \in RequestRecord /\ req[q].sess \in Sessions
  BY DEF Inv, RequestOK, TripAllowed
<1> QED BY <1>1 DEF Inv, RequestRecord, Quiet, Observations

(* A 502: the fall-open, if there was one, is recorded before the row.     *)
LEMMA NoResponseStep ==
    ASSUME Inv, NEW q \in Requests, NoResponse(q)
    PROVE  Inv' /\ \E y : Answered(q, y)
<1> DEFINE x == SyncServed(session[req[q].sess], req[q].fellOpen)
<1>1. /\ InFlight(req[q]) /\ healthy' = Served(req[q], FALSE)
      /\ Return(q, x, Quiet, FALSE)
  BY DEF NoResponse, InFlight
<1>2. /\ Sound(x) /\ HandoffOK(x)
      /\ x.pinned = session[req[q].sess].pinned
      /\ x.active = session[req[q].sess].active
      /\ x.escalated = session[req[q].sess].escalated
  BY <1>1, InFlightSession, SyncServedKeeps
<1>3. healthy' \in [Rungs -> BOOLEAN]
  BY <1>1, InFlightSession, ServedHealth DEF Inv
<1> HIDE DEF x
<1> QED BY <1>1, <1>2, <1>3, InFlightSession, ReturnStep

(* The end of a relay, and a relay that broke.                             *)
LEMMA RelayStep ==
    ASSUME Inv, NEW q \in Requests,
           RelayBroken(q) \/ \E o \in Responses \cup {Quiet} : Relayed(q, o)
    PROVE  Inv' /\ \E y : Answered(q, y)
<1> DEFINE x == session[req[q].sess]
<1>1. /\ InFlight(req[q]) /\ healthy' = healthy
      /\ \/ Return(q, x, Quiet, FALSE)
         \/ \E o \in Responses \cup {Quiet} : Return(q, x, o, req[q].ok)
  BY DEF RelayBroken, Relayed, InFlight
<1>2. Responses \subseteq Observations
  BY SignsAssumption
<1>3. healthy' \in [Rungs -> BOOLEAN]
  BY <1>1 DEF Inv
<1>4. /\ Sound(x) /\ HandoffOK(x) /\ req[q].ok \in BOOLEAN
      /\ Quiet \in Observations
  BY <1>1, InFlightSession
<1>5. CASE Return(q, x, Quiet, FALSE)
  BY <1>1, <1>3, <1>4, <1>5, ReturnStep
<1>6. ASSUME NEW o \in Responses \cup {Quiet}, Return(q, x, o, req[q].ok)
      PROVE  Inv' /\ \E y : Answered(q, y)
  <2>1. o \in Observations
    BY <1>2, <1>4
  <2> QED BY <1>1, <1>3, <1>4, <1>6, <2>1, ReturnStep
<1> QED BY <1>1, <1>5, <1>6

-----------------------------------------------------------------------------
(* The invariant.                                                          *)

(* Before the first request.                                               *)
LEMMA InitInv == Init => Inv
<1> SUFFICES ASSUME Init PROVE Inv
  OBVIOUS
<1>1. 0 \in 0..StrikeLimit
  BY StrikeAssumption
<1>2. FreshSession \in SessionRecord
  BY <1>1 DEF FreshSession, SessionRecord, StoreRoutes, LocalRoutes, Handoffs
<1>3. Sound(FreshSession) /\ HandoffOK(FreshSession)
  BY <1>2 DEF FreshSession, Sound, HandoffOK
<1>4. session \in [Sessions -> SessionRecord]
      /\ \A s \in Sessions : session[s] = FreshSession
  BY <1>2 DEF Init
<1>5. NewRequest \in RequestRecord /\ NewRequest.pc = "new"
  BY DEF NewRequest, NoLocals, RequestRecord, Labels, Routed, Phases
<1>6. RequestOK(NewRequest)
  BY <1>5 DEF RequestOK, TripAllowed, OpensUp, InFlight
<1>7. req \in [Requests -> RequestRecord] /\ \A q \in Requests : RequestOK(req[q])
  BY <1>5, <1>6 DEF Init
<1>8. NoRow \in RowRecord /\ NoRow.status = "absent"
  BY DEF NoRow, RowRecord
<1>9. row \in [Requests -> RowRecord] /\ OneOpenRow
  BY <1>8 DEF Init, OneOpenRow, OpenRows
<1>10. healthy \in [Rungs -> BOOLEAN]
  BY DEF Init
<1> QED BY <1>3, <1>4, <1>7, <1>9, <1>10 DEF Inv

(* Every step keeps it.                                                    *)
LEMMA NextInv == Inv /\ [Next]_vars => Inv'
<1> SUFFICES ASSUME Inv, [Next]_vars PROVE Inv'
  OBVIOUS
<1>1. ASSUME NEW q \in Requests, NEW s \in Sessions, NEW secret \in BOOLEAN,
             NEW f \in Turns, PlanUserTurn(q, s, f, secret)
      PROVE  Inv'
  BY <1>1, PlanUserTurnStep
<1>2. ASSUME NEW q \in Requests, NEW s \in Sessions, NEW secret \in BOOLEAN,
             NEW tokens, NEW o \in Results, PlanContinuation(q, s, tokens, secret, o)
      PROVE  Inv'
  BY <1>2, PlanContinuationStep
<1>3. ASSUME NEW q \in Requests, NEW s \in Sessions, NEW secret \in BOOLEAN,
             NEW label \in Labels \ Routed, NEW o \in Results \cup {Quiet},
             PlanAside(q, s, label, secret, o)
      PROVE  Inv'
  BY <1>3, PlanAsideStep
<1>4. ASSUME NEW q \in Requests, Upstream(q)
      PROVE  Inv'
  BY <1>4, FallOpenStep, AcquiredStep, NoResponseStep, RelayStep DEF Upstream
<1>5. ASSUME NEW rung \in Rungs, CooldownOver(rung)
      PROVE  Inv'
  <2>1. /\ session' = session /\ req' = req /\ row' = row
        /\ healthy' = [healthy EXCEPT ![rung] = TRUE]
    BY <1>5 DEF CooldownOver
  <2>2. healthy' \in [Rungs -> BOOLEAN]
    BY <2>1 DEF Inv
  <2> QED BY <2>1, <2>2 DEF Inv, OneOpenRow, OpenRows
<1>6. CASE UNCHANGED vars
  BY <1>6 DEF vars, Inv, OneOpenRow, OpenRows
<1> QED BY <1>1, <1>2, <1>3, <1>4, <1>5, <1>6 DEF Next, Plan

(* The inductive invariant holds of every reachable state.                 *)
THEOREM Invariance == Spec => []Inv
BY InitInv, NextInv, PTL DEF Spec

(* The state of the proxy stays well typed: in particular every route      *)
(* stored is one of the store's words, whichever layer decided it.         *)
THEOREM TypeCorrect == Spec => []TypeOK
BY Invariance, InvImplies, PTL

(* Hysteresis (state.py mark_escalated, live_router.py plan): an escalated *)
(* unpinned session is never stuck to a local route.                       *)
THEOREM HysteresisHolds == Spec => []EscalatedOffLocal
BY Invariance, InvImplies, PTL

(* The pending handoff (escalation_controller.py) always describes the     *)
(* session it waits in, however requests interleave.                       *)
THEOREM HandoffDescribesSession == Spec => []PendingConsistent
BY Invariance, InvImplies, PTL

(* After a transport fall-open (sync_served_route) the sticky route names  *)
(* the endpoint that answered.                                             *)
THEOREM FallOpenRemembered == Spec => []FellOpenStaysOff
BY Invariance, InvImplies, PTL

(* The ledger (memory_sqlite.py) never holds two open rows of one session, *)
(* nor an open row that is not the session's active one.                   *)
THEOREM LedgerOwned == Spec => []OneOpenRow
BY Invariance, InvImplies, PTL

(* Fail-open (_dispatch, liveplan_attempts, acquire_upstream): no request  *)
(* whose model was rewritten ends in an error before its body went to      *)
(* Anthropic with the client's model, the turns of pinned sessions aside.  *)
THEOREM AlwaysFallsOpen == Spec => []FailOpen
BY Invariance, InvImplies, PTL

-----------------------------------------------------------------------------
(* The contract.  The mapping, record by record.                           *)

(* The trip of a planned request, seen by the contract.                    *)
LEMMA PlannedTrip ==
    ASSUME NEW s, NEW label, NEW rung, NEW x, NEW turn
    PROVE  TripOf(Planned(s, label, rung, x, turn)) =
             IF rung = "blocked" THEN Contract!Answered
             ELSE Contract!Sent(IF rung = "local" THEN "local" ELSE "cloud",
                                s, Kind(label), Phase(x))
<1>1. TripOf(Returned) = Contract!Answered
  BY DEF TripOf, Returned, NoLocals, Contract!Answered
<1> QED BY <1>1 DEF TripOf, Planned, Contract!Sent

(* Changing one request, or one session, changes one trip, or one phase.   *)
LEMMA MapsUpdate ==
    ASSUME Inv
    PROVE  /\ \A q \in Requests : \A r : req' = [req EXCEPT ![q] = r] =>
                 TripMap' = [TripMap EXCEPT ![q] = TripOf(r)]
           /\ \A s \in Sessions : \A x : session' = [session EXCEPT ![s] = x] =>
                 PhaseMap' = [PhaseMap EXCEPT ![s] = Phase(x)]
           /\ \A q \in Requests : TripMap[q] = TripOf(req[q])
           /\ \A s \in Sessions : PhaseMap[s] = Phase(session[s])
<1>1. ASSUME NEW q \in Requests, NEW r, req' = [req EXCEPT ![q] = r]
      PROVE  TripMap' = [TripMap EXCEPT ![q] = TripOf(r)]
  <2>1. \A p \in Requests : req'[p] = IF p = q THEN r ELSE req[p]
    BY <1>1 DEF Inv
  <2>2. TripMap' = [p \in Requests |-> TripOf(req'[p])]
    BY DEF TripMap, TripOf
  <2>3. [TripMap EXCEPT ![q] = TripOf(r)]
          = [p \in Requests |-> IF p = q THEN TripOf(r) ELSE TripOf(req[p])]
    BY DEF TripMap
  <2> QED BY <2>1, <2>2, <2>3
<1>2. ASSUME NEW s \in Sessions, NEW x, session' = [session EXCEPT ![s] = x]
      PROVE  PhaseMap' = [PhaseMap EXCEPT ![s] = Phase(x)]
  <2>1. \A t \in Sessions : session'[t] = IF t = s THEN x ELSE session[t]
    BY <1>2 DEF Inv
  <2>2. PhaseMap' = [t \in Sessions |-> Phase(session'[t])]
    BY DEF PhaseMap, Phase
  <2>3. [PhaseMap EXCEPT ![s] = Phase(x)]
          = [t \in Sessions |-> IF t = s THEN Phase(x) ELSE Phase(session[t])]
    BY DEF PhaseMap
  <2> QED BY <2>1, <2>2, <2>3
<1> QED BY <1>1, <1>2 DEF TripMap, PhaseMap

(* A planned request is admitted, or refused.                              *)
LEMMA AdmittedMaps ==
    ASSUME Inv, NEW q \in Requests, NEW s \in Sessions, NEW label \in Labels,
           NEW x, NEW y, NEW rung, NEW turn,
           Admitted(q, s, label, x, y, rung, turn)
    PROVE  Contract!Next
<1> DEFINE r == Planned(s, label, rung, x, turn)
           kind == Kind(label)
           at == IF rung = "local" THEN "local" ELSE "cloud"
<1>1. /\ x \in SessionRecord /\ req[q].pc = "new"
      /\ req' = [req EXCEPT ![q] = r] /\ session' = [session EXCEPT ![s] = y]
      /\ Phase(y) = Phase(x)
      /\ session[s].pinned => x.pinned
      /\ label # "user_turn" /\ session[s].escalated => x.escalated
      /\ rung = "blocked" => x.pinned
      /\ label \in Routed /\ rung # "blocked" =>
            /\ x.pinned => rung = "local"
            /\ x.escalated /\ ~x.pinned => rung # "local"
  BY DEF Admitted
<1>2. /\ TripOf(r) = IF rung = "blocked" THEN Contract!Answered
                     ELSE Contract!Sent(at, s, kind, Phase(x))
  BY PlannedTrip
<1> HIDE DEF r
<1>3. /\ TripMap' = [TripMap EXCEPT ![q] = TripOf(r)]
      /\ PhaseMap' = [PhaseMap EXCEPT ![s] = Phase(x)]
      /\ TripMap[q] = TripOf(req[q])
      /\ PhaseMap[s] = Phase(session[s])
  <2>1. PhaseMap' = [PhaseMap EXCEPT ![s] = Phase(y)]
    BY <1>1, MapsUpdate
  <2>2. TripMap' = [TripMap EXCEPT ![q] = TripOf(r)]
    BY <1>1, MapsUpdate
  <2> QED BY <1>1, <2>1, <2>2, MapsUpdate
<1>4. TripMap[q] = Contract!Unsent
  BY <1>1, <1>3 DEF TripOf, Contract!Unsent
<1>5. /\ kind \in {"turn", "step", "aside"}
      /\ kind = "turn" <=> label = "user_turn"
      /\ kind # "aside" <=> label \in Routed
  BY DEF Kind, Labels, Routed
<1>6. /\ Phase(x) \in Contract!Phases
      /\ Phase(x) = "pinned" <=> x.pinned
      /\ Phase(x) = "raised" <=> x.escalated /\ ~x.pinned
      /\ Phase(session[s]) = "pinned" <=> session[s].pinned
      /\ Phase(session[s]) = "raised" <=> session[s].escalated /\ ~session[s].pinned
  BY DEF Phase, Contract!Phases
<1> HIDE DEF kind
<1>7. Contract!Shift(s, Phase(x), kind)
  BY <1>1, <1>3, <1>5, <1>6 DEF Contract!Shift
<1>8. CASE rung = "blocked"
  <2>1. Contract!Refuse(q)
    BY <1>1, <1>2, <1>3, <1>4, <1>5, <1>6, <1>7, <1>8 DEF Contract!Refuse
  <2> QED BY <2>1 DEF Contract!Next
<1>9. CASE rung # "blocked"
  <2>1. at \in Contract!Places(kind, Phase(x))
    BY <1>1, <1>5, <1>6, <1>9 DEF Contract!Places
  <2>2. TripMap' = [TripMap EXCEPT ![q] = Contract!Sent(at, s, kind, Phase(x))]
    BY <1>2, <1>3, <1>9
  <2> HIDE DEF at
  <2>3. Contract!Admit(q)
    BY <1>4, <1>5, <1>6, <1>7, <2>1, <2>2 DEF Contract!Admit, Contract!Phases
  <2> QED BY <2>3 DEF Contract!Next
<1> QED BY <1>8, <1>9

(* An answered request is answered; its session may have been raised.      *)
LEMMA AnsweredMaps ==
    ASSUME Inv, NEW q \in Requests, NEW y, Answered(q, y)
    PROVE  Contract!Next
<1> DEFINE s == req[q].sess
<1>1. /\ InFlight(req[q])
      /\ req' = [req EXCEPT ![q] = Returned]
      /\ session' = [session EXCEPT ![s] = y]
      /\ y.pinned = session[s].pinned
      /\ session[s].escalated => y.escalated
      /\ y \in SessionRecord
  BY DEF Answered, Sound
<1>2. s \in Sessions /\ req[q] \in RequestRecord
  BY <1>1 DEF Inv, RequestOK, TripAllowed
<1>3. /\ TripMap' = [TripMap EXCEPT ![q] = TripOf(Returned)]
      /\ PhaseMap' = [PhaseMap EXCEPT ![s] = Phase(y)]
      /\ TripMap[q] = TripOf(req[q])
      /\ PhaseMap[s] = Phase(session[s])
  <2> HIDE DEF s
  <2> QED BY <1>1, <1>2, MapsUpdate
<1>4. TripOf(Returned) = Contract!Answered
  BY DEF TripOf, Returned, NoLocals, Contract!Answered
<1>5. /\ TripMap[q].at \in {"local", "cloud"} /\ TripMap[q].sess = s
      /\ TripMap[q].kind = Kind(req[q].label)
  BY <1>1, <1>3 DEF TripOf, InFlight
<1> HIDE DEF s
<1>6. Phase(y) \in {Phase(session[s]), "raised"}
  BY <1>1 DEF Phase
<1>7. Contract!Shift(s, Phase(y), Kind(req[q].label))
  BY <1>1, <1>3 DEF Phase, Contract!Shift, Contract!Phases
<1>8. Contract!Answer(q)
  BY <1>3, <1>4, <1>5, <1>6, <1>7 DEF Contract!Answer
<1> QED BY <1>8 DEF Contract!Next

(* A fall-open diverts a local request, which was not bound to stay; for a *)
(* cheap cloud request it is invisible.                                    *)
LEMMA FallOpenMaps ==
    ASSUME Inv, NEW q \in Requests, FallOpen(q)
    PROVE  Contract!Next \/ UNCHANGED <<TripMap, PhaseMap>>
<1> DEFINE r == [req[q] EXCEPT !.backup = FALSE, !.fellOpen = TRUE]
<1>1. /\ req[q].pc = "sending" /\ req[q].backup
      /\ req' = [req EXCEPT ![q] = r]
      /\ session' = session
  BY DEF FallOpen
<1>2. req[q] \in RequestRecord /\ TripAllowed(req[q])
  BY DEF Inv, RequestOK
<1>3. /\ r.pc = "sending" /\ r.fellOpen /\ r.sess = req[q].sess
      /\ r.label = req[q].label /\ r.rung = req[q].rung /\ r.phase = req[q].phase
  BY <1>1, <1>2 DEF RequestRecord
<1> HIDE DEF r
<1>4. TripMap' = [TripMap EXCEPT ![q] = TripOf(r)] /\ TripMap[q] = TripOf(req[q])
  BY <1>1, MapsUpdate
<1>5. PhaseMap' = PhaseMap
  BY <1>1 DEF PhaseMap, Phase
<1> DEFINE t(at) == [at |-> at, sess |-> req[q].sess, kind |-> Kind(req[q].label),
                     under |-> req[q].phase]
<1>6. TripOf(r) = t("cloud")
  BY <1>3 DEF TripOf
<1>7. CASE req[q].rung = "local" /\ ~req[q].fellOpen
  <2>1. TripOf(req[q]) = t("local")
    BY <1>1, <1>7 DEF TripOf
  <2>2. TripMap' = [TripMap EXCEPT ![q].at = "cloud"]
    <3>1. [t("local") EXCEPT !.at = "cloud"] = t("cloud")
      OBVIOUS
    <3>2. TripMap[q] = t("local")
      BY <1>4, <2>1
    <3> HIDE DEF t
    <3>3. [TripMap EXCEPT ![q].at = "cloud"] = [TripMap EXCEPT ![q] = t("cloud")]
      BY <3>1, <3>2
    <3> QED BY <1>4, <1>6, <3>3
  <2>3. Kind(req[q].label) # "aside" <=> req[q].label \in Routed
    BY DEF Kind, Routed
  <2>4. "cloud" \in Contract!Places(Kind(req[q].label), req[q].phase)
    BY <1>1, <1>2, <1>7, <2>3 DEF TripAllowed, InFlight, Contract!Places
  <2>5. /\ TripMap[q].at = "local" /\ TripMap[q].kind = Kind(req[q].label)
        /\ TripMap[q].under = req[q].phase
    BY <1>4, <2>1
  <2>6. Contract!Divert(q)
    BY <1>5, <2>2, <2>4, <2>5 DEF Contract!Divert
  <2> QED BY <2>6 DEF Contract!Next
<1>8. CASE ~(req[q].rung = "local" /\ ~req[q].fellOpen)
  <2>1. TripOf(req[q]) = t("cloud")
    BY <1>1, <1>8 DEF TripOf
  <2>2. TripMap' = TripMap
    BY <1>4, <1>6, <2>1 DEF TripMap
  <2> QED BY <1>5, <2>2
<1> QED BY <1>7, <1>8

(* A response begins: the sticky route may move, the phase does not.       *)
LEMMA AcquiredMaps ==
    ASSUME Inv, NEW q \in Requests, NEW ok \in BOOLEAN, Acquired(q, ok)
    PROVE  UNCHANGED <<TripMap, PhaseMap>>
<1> DEFINE s == req[q].sess
           r == [req[q] EXCEPT !.pc = "relaying", !.ok = ok]
           x == SyncServed(session[s], req[q].fellOpen)
<1>1. /\ InFlight(req[q]) /\ req[q].pc = "sending"
      /\ req' = [req EXCEPT ![q] = r]
      /\ session' = [session EXCEPT ![s] = x]
  BY DEF Acquired, InFlight
<1>2. req[q] \in RequestRecord /\ s \in Sessions
  BY <1>1 DEF Inv, RequestOK, TripAllowed
<1>3. /\ r.pc = "relaying" /\ r.fellOpen = req[q].fellOpen /\ r.sess = req[q].sess
      /\ r.label = req[q].label /\ r.rung = req[q].rung /\ r.phase = req[q].phase
  BY <1>2 DEF RequestRecord
<1>4. x.pinned = session[s].pinned /\ x.escalated = session[s].escalated
  BY <1>1, InFlightSession, SyncServedKeeps
<1> HIDE DEF r, s, x
<1>5. /\ TripMap' = [TripMap EXCEPT ![q] = TripOf(r)] /\ TripMap[q] = TripOf(req[q])
      /\ PhaseMap' = [PhaseMap EXCEPT ![s] = Phase(x)]
      /\ PhaseMap[s] = Phase(session[s])
  BY <1>1, <1>2, MapsUpdate
<1>6. TripOf(r) = TripOf(req[q])
  BY <1>1, <1>3 DEF TripOf
<1>7. Phase(x) = Phase(session[s])
  BY <1>4 DEF Phase
<1> QED BY <1>5, <1>6, <1>7 DEF TripMap, PhaseMap

(* The initial states and the steps map.                                   *)
LEMMA InitMaps == Init => Contract!Init
<1>1. TripOf(NewRequest) = Contract!Unsent
  BY DEF TripOf, NewRequest, NoLocals, Contract!Unsent
<1>2. Phase(FreshSession) = "free"
  BY DEF Phase, FreshSession
<1> QED BY <1>1, <1>2 DEF Init, Contract!Init, TripMap, PhaseMap

(* A step of the proxy is a step of the contract, or none.                 *)
LEMMA NextMaps ==
    Inv /\ [Next]_vars => [Contract!Next]_<<PhaseMap, TripMap>>
<1> SUFFICES ASSUME Inv, [Next]_vars
             PROVE  Contract!Next \/ UNCHANGED <<TripMap, PhaseMap>>
  OBVIOUS
<1>a. Routed \subseteq Labels /\ "user_turn" \in Routed /\ "continuation" \in Routed
  BY DEF Labels, Routed
<1>1. ASSUME NEW q \in Requests, NEW s \in Sessions, NEW secret \in BOOLEAN,
             NEW f \in Turns, PlanUserTurn(q, s, f, secret)
      PROVE  Contract!Next
  BY <1>a, <1>1, PlanUserTurnStep, AdmittedMaps
<1>2. ASSUME NEW q \in Requests, NEW s \in Sessions, NEW secret \in BOOLEAN,
             NEW tokens, NEW o \in Results, PlanContinuation(q, s, tokens, secret, o)
      PROVE  Contract!Next
  BY <1>a, <1>2, PlanContinuationStep, AdmittedMaps
<1>3. ASSUME NEW q \in Requests, NEW s \in Sessions, NEW secret \in BOOLEAN,
             NEW label \in Labels \ Routed, NEW o \in Results \cup {Quiet},
             PlanAside(q, s, label, secret, o)
      PROVE  Contract!Next
  BY <1>3, PlanAsideStep, AdmittedMaps
<1>4. ASSUME NEW q \in Requests, Upstream(q)
      PROVE  Contract!Next \/ UNCHANGED <<TripMap, PhaseMap>>
  <2>1. CASE FallOpen(q)
    BY <2>1, FallOpenMaps
  <2>2. CASE \E ok \in BOOLEAN : Acquired(q, ok)
    BY <2>2, AcquiredMaps
  <2>3. CASE NoResponse(q)
    BY <2>3, NoResponseStep, AnsweredMaps
  <2>4. CASE RelayBroken(q) \/ \E o \in Responses \cup {Quiet} : Relayed(q, o)
    BY <2>4, RelayStep, AnsweredMaps
  <2> QED BY <1>4, <2>1, <2>2, <2>3, <2>4 DEF Upstream
<1>5. ASSUME NEW rung \in Rungs, CooldownOver(rung)
      PROVE  UNCHANGED <<TripMap, PhaseMap>>
  BY <1>5 DEF CooldownOver, TripMap, TripOf, PhaseMap, Phase
<1>6. CASE UNCHANGED vars
  BY <1>6 DEF vars, TripMap, TripOf, PhaseMap, Phase
<1> QED BY <1>1, <1>2, <1>3, <1>4, <1>5, <1>6 DEF Next, Plan

(* The proxy, with every interleaving, fall-open and late answer, does     *)
(* what the contract allows: pins are for good, only a user turn lowers a  *)
(* raised session, a pinned turn never leaves the machine, a raised one    *)
(* never runs on it, and only a pinned session's request is refused.       *)
THEOREM Refinement == Spec => ImplementsContract
<1>1. Spec => [][Contract!Next]_<<PhaseMap, TripMap>>
  BY Invariance, NextMaps, PTL DEF Spec
<1> QED BY <1>1, InitMaps, PTL DEF Spec, ImplementsContract, Contract!Spec
=============================================================================
