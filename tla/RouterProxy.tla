---------------------------- MODULE RouterProxy ----------------------------
(***************************************************************************)
(* The routing proxy: the handler of proxy/capture_proxy.py over one       *)
(* session store (router/state.py), one escalation controller              *)
(* (router/escalation_controller.py), the live router                      *)
(* (router/live_router.py), the health registry and the turn ledger.       *)
(*                                                                         *)
(* The proxy is one asyncio process: a handler runs without interruption   *)
(* between its awaits, so the steps are the stretches between awaits.  A   *)
(* request is read and planned in one step, each upstream attempt ends in  *)
(* one step, and the end of the relay runs the post-call code.  Requests,  *)
(* of one session or of several, interleave at every await.                *)
(***************************************************************************)
EXTENDS RungPolicy, Strikes, FiniteSets

CONSTANTS
    Sessions,     \* session keys
    Requests,     \* sequence numbers of wire requests; each names the ledger row it mints
    None,         \* no request
    Turns,        \* features of the user turns to try
    Results,      \* what the tool results of a request can show
    Responses     \* what an assistant response can show

ASSUME NoneAssumption   == None \notin Requests \cup Sessions
ASSUME SeqAssumption    == Requests \subseteq Nat
ASSUME TurnsAssumption  == Turns \subseteq TurnFeatures
ASSUME SignsAssumption  == Results \subseteq Observations /\ Responses \subseteq Observations

VARIABLES
    session,   \* [Sessions -> session record]: store, trip-wires, pending handoff, active row
    healthy,   \* [Rungs -> BOOLEAN]: the health registry
    req,       \* [Requests -> request record]: the handlers' local state
    row        \* [Requests -> row record]: the ledger

vars == <<session, healthy, req, row>>

-----------------------------------------------------------------------------
(* Values.                                                                 *)

Handoffs == {"none", "user", "cheap-cloud", "frontier"}
Routed   == {"user_turn", "continuation"}
Labels   == Routed \cup {"utility", "passthrough"}
Phases   == {"free", "raised", "pinned"}

SessionRecord ==
    [route: StoreRoutes, pinned: BOOLEAN, escalated: BOOLEAN, clean: BOOLEAN,
     edit: 0..StrikeLimit, parse: 0..StrikeLimit, error: BOOLEAN, hit: BOOLEAN,
     infra: BOOLEAN, pending: Handoffs, active: Requests \cup {None}, turns: Nat]

FreshSession ==
    [route |-> "local", pinned |-> FALSE, escalated |-> FALSE, clean |-> FALSE,
     edit |-> 0, parse |-> 0, error |-> FALSE, hit |-> FALSE,
     infra |-> FALSE, pending |-> "none", active |-> None, turns |-> 0]

(* The handler's locals; they are gone when it returns.  rung is the       *)
(* planned rung, backup whether the Anthropic attempt is still to come, ok *)
(* whether the answer's status is below 400.  phase and turn are history:  *)
(* the session's phase and active row when the request was planned.        *)
RequestRecord ==
    [pc: {"new", "sending", "relaying", "done"}, sess: Sessions \cup {None},
     label: Labels, rung: Rungs \cup {"passthrough"},
     backup: BOOLEAN, fellOpen: BOOLEAN, ok: BOOLEAN,
     phase: Phases, turn: Requests \cup {None}]

NoLocals(pc) ==
    [pc |-> pc, sess |-> None, label |-> "passthrough", rung |-> "passthrough",
     backup |-> FALSE, fellOpen |-> FALSE, ok |-> FALSE, phase |-> "free", turn |-> None]

NewRequest == NoLocals("new")
Returned   == NoLocals("done")

(* from is history: the turn whose request wrote the outcome last.         *)
RowRecord ==
    [status: {"absent", "pending", "closed_turn", "closed_final"},
     index: Nat, sess: Sessions \cup {None}, from: Requests \cup {None}]

NoRow == [status |-> "absent", index |-> 0, sess |-> None, from |-> None]

Phase(x) == IF x.pinned THEN "pinned" ELSE IF x.escalated THEN "raised" ELSE "free"

Lane(rung) == CASE rung \in LocalRoutes -> "local"
                [] rung = "cheap-cloud" -> "cheap_cloud"
                [] OTHER                -> rung

-----------------------------------------------------------------------------
(* The escalation controller: strikes accumulate to a latched hit, and the *)
(* first hit of a turn raises the sticky route one rung, or, in a pinned   *)
(* session, is handed to the user.                                         *)

NextRung == [r \in {"local-code", "cheap-cloud"} |->
                IF r = "local-code" THEN "cheap-cloud" ELSE "frontier"]

(* Mutant: an escalation that only marks the session. *)
RaiseFlagOnly(x) == [x EXCEPT !.escalated = TRUE, !.pending = NextRung[x.route]]

Raise(x) == [x EXCEPT !.route = NextRung[x.route], !.escalated = TRUE,
                      !.pending = NextRung[x.route]]

Observe(x, o) ==
    LET y == Feed(x, o)
    IN  IF x.hit \/ ~y.hit THEN y
        ELSE IF y.pinned THEN [y EXCEPT !.pending = "user"]
        ELSE IF y.route \in DOMAIN NextRung THEN Raise(y)
        ELSE y

(* A new turn's strikes; the pending handoff is not touched.               *)
NewTurn(x) == [x EXCEPT !.edit = 0, !.parse = 0, !.error = FALSE, !.hit = FALSE,
                        !.infra = FALSE]

StartNewEpisode(x) == [x EXCEPT !.route = "local", !.escalated = FALSE, !.clean = FALSE]

-----------------------------------------------------------------------------
(* Before the plan: the privacy scan pins the session, tool results are    *)
(* fed to the wires, and the pending handoff is consumed, whatever the     *)
(* request turns out to be.                                                *)

Scanned(x, secret, o) ==
    Observe(IF secret THEN [x EXCEPT !.pinned = TRUE] ELSE x, o)

(* Mutant: the handoff looked at and left. *)
ConsumedPeeked(x) == x

Consumed(x) == [x EXCEPT !.pending = "none"]

Inbound(x, secret, o) == Consumed(Scanned(x, secret, o))
SurfacedToUser(x, secret, o) == Scanned(x, secret, o).pending = "user"

(* After the response: its evidence, then whether the turn so far is clean *)
(* enough to end an episode.                                               *)
PostCall(x, o, ok) ==
    LET y == Observe(x, o)
    IN  [y EXCEPT !.clean = ok /\ ~y.hit /\ y.edit = 0 /\ ~y.error /\ ~y.infra]

(* A continuation of a pinned session stays local; any other follows the   *)
(* sticky route.                                                           *)
FollowRoute(x) == IF x.pinned THEN "local-code" ELSE x.route

(* Layered decision of a user turn, after an escalated session's episode   *)
(* may have ended.                                                         *)
TurnSession(x, f) ==
    IF x.escalated /\ EpisodeBoundary(x.clean, f) THEN StartNewEpisode(x) ELSE x

Decision(x, f) == RouteTurn(f, x.pinned, x.escalated, x.route, healthy)

(* Mutants: no second attempt for the cheap cloud rung; the pin forgotten. *)
FallsOpenLocalOnly(lane, pinned) == lane = "local" /\ ~pinned
FallsOpenAlways(lane, pinned) == lane \in {"local", "cheap_cloud"}

(* Rewritten rungs fall open to the client's model on Anthropic, except    *)
(* the local rung of a routed request in a pinned session.                 *)
FallsOpen(lane, pinned) == lane = "cheap_cloud" \/ (lane = "local" /\ ~pinned)

-----------------------------------------------------------------------------
(* The ledger: the rows of a session, at most one of them still open.      *)

OpenRows(s) == {r \in Requests : row[r].status \in {"pending", "closed_turn"}
                                   /\ row[r].sess = s}

LatestOpen(s) == {r \in OpenRows(s) : \A o \in OpenRows(s) : row[o].index <= row[r].index}

NewRow(s, index) == [status |-> "pending", index |-> index, sess |-> s, from |-> None]

(* Mutant: the previous turn not finalized. *)
MintedOnly(q, s, index) == [row EXCEPT ![q] = NewRow(s, index)]

(* finalize_turn, then record_decision, for the user turn of request q.    *)
Minted(q, s, index) ==
    [r \in Requests |->
        IF r = q THEN NewRow(s, index)
        ELSE IF r \in LatestOpen(s) THEN [row[r] EXCEPT !.status = "closed_final"]
        ELSE row[r]]

(* attach_outcome on the session's active row; closed_final is terminal.   *)
Attached(rows, active, turn) ==
    IF active \in Requests /\ rows[active].status \in {"pending", "closed_turn"}
    THEN [rows EXCEPT ![active].status = "closed_turn", ![active].from = turn]
    ELSE rows

-----------------------------------------------------------------------------
(* Planning a request: read, scan, observe, plan, all without an await.    *)

Idle(q) ==
    req[q].pc = "new" /\ \A p \in Requests : p < q => req[p].pc # "new"

Planned(s, label, rung, x, turn) ==
    IF rung = "blocked" THEN Returned
    ELSE [pc |-> "sending", sess |-> s, label |-> label, rung |-> rung,
          backup |-> FallsOpen(rung, x.pinned /\ label \in Routed),
          fellOpen |-> FALSE, ok |-> FALSE, phase |-> Phase(x), turn |-> turn]

PlanUserTurn(q, s, f, secret) ==
    LET x    == TurnSession(Inbound(session[s], secret, Quiet), f)
        d    == Decision(x, f)
        rung == IF SurfacedToUser(session[s], secret, Quiet)
                     \/ d.layer = "pin_context_conflict"
                THEN "blocked" ELSE Lane(d.rung)
        y    == NewTurn([x EXCEPT !.route = StoreRung(d.rung), !.active = q,
                                  !.turns = @ + 1])
        rows == Minted(q, s, x.turns)
    IN  /\ Idle(q)
        /\ req' = [req EXCEPT ![q] = Planned(s, "user_turn", rung, x, q)]
        /\ session' = [session EXCEPT ![s] =
                         IF rung = "blocked" THEN PostCall(y, Quiet, FALSE) ELSE y]
        /\ row' = IF rung = "blocked" THEN Attached(rows, q, q) ELSE rows
        /\ UNCHANGED healthy

PlanContinuation(q, s, tokens, secret, o) ==
    LET x     == Inbound(session[s], secret, o)
        large == x.pinned /\ ~Fits(tokens, "local")
        rung  == IF SurfacedToUser(session[s], secret, o) \/ large
                 THEN "blocked" ELSE Lane(FollowRoute(x))
        y     == IF large THEN x ELSE [x EXCEPT !.route = FollowRoute(x)]
    IN  /\ Idle(q)
        /\ req' = [req EXCEPT ![q] = Planned(s, "continuation", rung, x, x.active)]
        /\ session' = [session EXCEPT ![s] =
                         IF rung = "blocked" THEN PostCall(y, Quiet, FALSE) ELSE y]
        /\ row' = IF rung = "blocked" THEN Attached(row, x.active, x.active) ELSE row
        /\ UNCHANGED healthy

(* Housekeeping and unrouted calls.  They carry the session's key, so they *)
(* pass through the same inbound code: a compaction or token count repeats *)
(* the tool results of the conversation.  A handoff for the user blocks    *)
(* them, without any post-call.                                            *)
PlanAside(q, s, label, secret, o) ==
    LET x    == Inbound(session[s], secret, o)
        rung == IF SurfacedToUser(session[s], secret, o) THEN "blocked"
                ELSE IF label = "utility" THEN "local" ELSE "passthrough"
    IN  /\ Idle(q)
        /\ req' = [req EXCEPT ![q] = Planned(s, label, rung, x, x.active)]
        /\ session' = [session EXCEPT ![s] = x]
        /\ UNCHANGED <<healthy, row>>

-----------------------------------------------------------------------------
(* Upstream attempts.                                                      *)

(* The first of two attempts fails: connection, timeout or a status of at  *)
(* least 400.  The body goes to Anthropic with the client's model.         *)
FallOpen(q) ==
    /\ req[q].pc = "sending" /\ req[q].backup
    /\ req' = [req EXCEPT ![q] = [@ EXCEPT !.backup = FALSE, !.fellOpen = TRUE]]
    /\ UNCHANGED <<session, healthy, row>>

Served(r, ok) ==
    [g \in Rungs |->
        IF g = r.rung THEN ok /\ ~r.fellOpen
        ELSE IF g = "frontier" /\ r.fellOpen /\ ok THEN TRUE
        ELSE healthy[g]]

(* Mutant: the failure counted, the sticky route kept. *)
SyncServedCounted(x, fellOpen) == IF fellOpen THEN [x EXCEPT !.infra = TRUE] ELSE x

SyncServed(x, fellOpen) ==
    IF fellOpen THEN [x EXCEPT !.route = "frontier", !.infra = TRUE] ELSE x

(* A status below 400, or any status of the last attempt, is relayed.      *)
Acquired(q, ok) ==
    LET r == req[q]
    IN  /\ r.pc = "sending"
        /\ ok \/ ~r.backup
        /\ healthy' = Served(r, ok)
        /\ req' = [req EXCEPT ![q] = [@ EXCEPT !.pc = "relaying", !.ok = ok]]
        /\ session' = [session EXCEPT ![r.sess] = SyncServed(@, r.fellOpen)]
        /\ UNCHANGED row

(* Mutant: no post-call for an answer that is an error. *)
ReturnOkOnly(q, x, o, ok) ==
    LET r == req[q]
        observed == r.label \in Routed /\ ok
    IN  /\ req' = [req EXCEPT ![q] = Returned]
        /\ session' = [session EXCEPT ![r.sess] = IF observed THEN PostCall(x, o, ok) ELSE x]
        /\ row' = IF observed THEN Attached(row, x.active, r.turn) ELSE row

(* The handler returns, after the post-call code of a routed request.      *)
Return(q, x, o, ok) ==
    LET r == req[q]
    IN  /\ req' = [req EXCEPT ![q] = Returned]
        /\ session' = [session EXCEPT ![r.sess] =
                         IF r.label \in Routed THEN PostCall(x, o, ok) ELSE x]
        /\ row' = IF r.label \in Routed THEN Attached(row, x.active, r.turn) ELSE row

(* The last attempt has no response: the client gets 502 at once.          *)
NoResponse(q) ==
    LET r == req[q]
    IN  /\ r.pc = "sending" /\ ~r.backup
        /\ healthy' = Served(r, FALSE)
        /\ Return(q, SyncServed(session[r.sess], r.fellOpen), Quiet, FALSE)

(* The end of the relay.  An error response shows the wires nothing, nor   *)
(* does a relay that broke: its bytes are replaced by the 502.             *)
Relayed(q, o) ==
    LET r == req[q]
    IN  /\ r.pc = "relaying"
        /\ ~r.ok => o = Quiet
        /\ Return(q, session[r.sess], o, r.ok)
        /\ UNCHANGED healthy

RelayBroken(q) ==
    /\ req[q].pc = "relaying"
    /\ Return(q, session[req[q].sess], Quiet, FALSE)
    /\ UNCHANGED healthy

(* A cooldown ends: the registry lets a rung be tried again.               *)
CooldownOver(rung) ==
    /\ ~healthy[rung]
    /\ healthy' = [healthy EXCEPT ![rung] = TRUE]
    /\ UNCHANGED <<session, req, row>>

-----------------------------------------------------------------------------

Init ==
    /\ session = [s \in Sessions |-> FreshSession]
    /\ healthy = [rung \in Rungs |-> TRUE]
    /\ req = [q \in Requests |-> NewRequest]
    /\ row = [q \in Requests |-> NoRow]

Plan(q) ==
    \E s \in Sessions, secret \in BOOLEAN :
        \/ \E f \in Turns : PlanUserTurn(q, s, f, secret)
        \/ \E tokens \in {f.tokens : f \in Turns}, o \in Results :
               PlanContinuation(q, s, tokens, secret, o)
        \/ \E label \in Labels \ Routed, o \in Results \cup {Quiet} :
               PlanAside(q, s, label, secret, o)

Upstream(q) ==
    \/ FallOpen(q)
    \/ \E ok \in BOOLEAN : Acquired(q, ok)
    \/ NoResponse(q)
    \/ \E o \in Responses \cup {Quiet} : Relayed(q, o)
    \/ RelayBroken(q)

Next ==
    \/ \E q \in Requests : Plan(q) \/ Upstream(q)
    \/ \E rung \in Rungs : CooldownOver(rung)

Spec == Init /\ [][Next]_vars

(* Every upstream attempt and relay of an accepted request ends: a local   *)
(* attempt has a total timeout, and the Anthropic service is assumed to    *)
(* answer or to drop the connection.                                       *)
FairSpec == Spec /\ \A q \in Requests : WF_vars(Upstream(q))

-----------------------------------------------------------------------------
(* Properties.                                                             *)

TypeOK ==
    /\ session \in [Sessions -> SessionRecord]
    /\ healthy \in [Rungs -> BOOLEAN]
    /\ req \in [Requests -> RequestRecord]
    /\ row \in [Requests -> RowRecord]

(* Hysteresis: until the episode ends, an escalated session that is not    *)
(* pinned is not stuck to a local route, so neither a continuation nor the *)
(* policy's hysteresis layer can take it back to the rung that failed it.  *)
EscalatedOffLocal ==
    \A s \in Sessions :
        session[s].escalated /\ ~session[s].pinned => session[s].route \notin LocalRoutes

(* A handoff waiting between two requests still describes its session when *)
(* it is picked up, whatever other requests did since: its wire is still   *)
(* latched, a handoff to the user belongs to a pinned session, a handoff   *)
(* to a cloud rung to an escalated unpinned one that has not gone back     *)
(* below that rung.                                                        *)
Rank(route) == CostRank[Lane(route)]

PendingConsistent ==
    \A s \in Sessions : LET x == session[s] IN
        /\ x.pending # "none" => x.hit
        /\ x.pending = "user" => x.pinned
        /\ x.pending \in {"cheap-cloud", "frontier"} =>
              x.escalated /\ ~x.pinned /\ Rank(x.route) >= Rank(x.pending)

(* After a fall-open the rest of the turn does not go back to the endpoint *)
(* that just failed: the sticky route says where the answer came from      *)
(* until the next user turn, or a pin, decides anew.                       *)
FellOpenStaysOff ==
    \A s \in Sessions :
        session[s].infra /\ ~session[s].pinned => session[s].route = "frontier"

(* A session has at most one open ledger row, and it is the active one:    *)
(* no turn is left open when the next begins, and no outcome is attached   *)
(* to a row that is already final.                                         *)
OneOpenRow == \A s \in Sessions : OpenRows(s) \subseteq {session[s].active}

(* Fail-open as _dispatch has it: a request whose model was rewritten, for *)
(* a local rung or the cheap cloud one, is answered with an error only     *)
(* after the body went to Anthropic with the client's model, unless it is  *)
(* a turn of a pinned session. The body is the client's own or, if the     *)
(* request took a handoff to a rung, the transcript rebuilt for it.        *)
FailOpen ==
    \A q \in Requests : LET r == req[q] IN
        /\ r.pc = "relaying" /\ ~r.ok /\ r.rung \in {"local", "cheap_cloud"}
              => r.fellOpen \/ (r.phase = "pinned" /\ r.label \in Routed)
        /\ r.pc = "sending" /\ r.rung \in {"local", "cheap_cloud"}
              => r.backup \/ r.fellOpen \/ (r.phase = "pinned" /\ r.label \in Routed)

(* The proxy implements the contract: what a session's phase allows and    *)
(* forbids its requests, over their whole trip.                            *)
Kind(label) == CASE label = "user_turn"    -> "turn"
                 [] label = "continuation" -> "step"
                 [] OTHER                  -> "aside"

TripOf(r) ==
    CASE r.pc = "new"  -> [at |-> "unsent", sess |-> None,
                           kind |-> "aside", under |-> "free"]
      [] r.pc = "done" -> [at |-> "answered", sess |-> None,
                           kind |-> "aside", under |-> "free"]
      [] OTHER -> [at |-> IF r.rung = "local" /\ ~r.fellOpen THEN "local" ELSE "cloud",
                   sess |-> r.sess, kind |-> Kind(r.label), under |-> r.phase]

PhaseMap == [s \in Sessions |-> Phase(session[s])]
TripMap  == [q \in Requests |-> TripOf(req[q])]

Contract == INSTANCE RoutingContract WITH phase <- PhaseMap, trip <- TripMap

ImplementsContract == Contract!Spec

(* Every turn's row is closed: by its own answer, however the request      *)
(* ended, or by the turn that follows: with finitely many requests, the    *)
(* day comes from which none is open.                                      *)
RowsClose == <>[](\A q \in Requests : row[q].status # "pending")

-----------------------------------------------------------------------------
(* What the repository says and the code does not do.                      *)

(* ADRL-CAS-005: only an episode boundary lowers an escalated session's    *)
(* rung (a pin aside).                                                     *)
OnlyBoundaryLowers ==
    [][\A s \in Sessions :
          session[s].escalated /\ session'[s].escalated /\ ~session'[s].pinned
            => Rank(session'[s].route) >= Rank(session[s].route)]_vars

(* live_router.py:18 and capture_proxy.py:222-223: only local rungs have a *)
(* second attempt.                                                         *)
OnlyLocalFallsOpen == \A q \in Requests : req[q].fellOpen => req[q].rung = "local"

(* ADRL-SAF-004 (adr-index.md:155): a pinned session does not fall back to *)
(* the cloud. Its turns do not, its housekeeping does.                     *)
PinnedNeverFallsOpen == \A q \in Requests : req[q].fellOpen => req[q].phase # "pinned"

(* A handoff raised after a response reaches the request that crosses      *)
(* rungs: it is consumed by a request of a turn, not by housekeeping.      *)
HandoffReachesTheTurn ==
    [][\A s \in Sessions :
          session[s].pending \in {"cheap-cloud", "frontier"}
            /\ session'[s].pending = "none"
            => \E q \in Requests : req[q].pc = "new" /\ req'[q].label \in Routed]_vars

(* The outcome of a request is attached to the row its own turn minted.    *)
OutcomeOwnership == \A r \in Requests : row[r].from \in {None, r}
=============================================================================
