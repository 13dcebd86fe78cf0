-------------------------------- MODULE Retrieval --------------------------------
(***************************************************************************)
(* Routing by experience (retrieval_router.py) and its evaluation against   *)
(* the ledger (shadow_retrieval.py). Turns are routed one after the other;  *)
(* the answer of each ends, is refreshed, is made final by the next turn of *)
(* its session and verified, at any time later. What the resolver could     *)
(* have said when a turn was routed is kept, to be compared with what the   *)
(* evaluation makes of the ledger afterwards.                               *)
(*                                                                         *)
(* A turn is one half-life younger than the one before. Similarities are    *)
(* whole numbers; repeated instructions have the same, and which of them is *)
(* ranked first is left open (an argsort that is not stable).               *)
(***************************************************************************)
EXTENDS OutcomeLabels, Sequences, FiniteSets, Functions

CONSTANTS
    Order,       \* the turns as they are routed
    Worlds,      \* what they may be: turn -> session, source, rung, middle,
                 \* vector (an embedding is stored), query and document
                 \* (similarity to the other turns, by either prefix)
    Evidence,    \* what answers may show
    MaxVerified, \* bound: turns that carry a verifier's evidence
    TopK, MinNeighbors, Floor, MinFinalized   \* K, MIN_NEIGHBORS, MIN_SIMILARITY, ...

Turns == Range(Order)
Verifications == {[verified |-> TRUE, cause |-> Null],
                  [verified |-> FALSE, cause |-> "task_capability"],
                  [verified |-> FALSE, cause |-> "infrastructure"]}

ASSUME RetrievalAssumption ==
    /\ Order \in Seq(Turns) /\ \A i, j \in DOMAIN Order : Order[i] = Order[j] => i = j
    /\ MinFinalized \in Int /\ MinNeighbors <= TopK /\ 0 < Floor

VARIABLES
    world,
    clock,       \* turns routed
    rows,        \* turn -> its outcome row, Null before it is routed
    answered,    \* history: turn -> what the resolver could say of it
    moved        \* history: turn -> the earlier turns whose rows changed after
                 \* it was routed

retrievalVars == <<world, clock, rows, answered, moved>>

Ts(t) == CHOOSE i \in DOMAIN Order : Order[i] = t
Routed == {t \in Turns : Ts(t) <= clock}
OpenTurns == {t \in Routed : rows[t].status \in {"pending", "closed_turn"}}
ClosedTurns == {t \in Routed : rows[t].status \in {"closed_turn", "closed_final"}}

-----------------------------------------------------------------------------
(* similar_turns: only turns with a vector have a similarity. *)
Embedded(S) == {n \in S : world[n].vector}

(* the pool is ranked, most similar first, and cut to K: any K of the turns *)
(* of which none that is left out is more similar                           *)
Cuts(S, sim) == {C \in SUBSET S : /\ Cardinality(C) <= TopK
                                  /\ C # S => Cardinality(C) = TopK
                                  /\ \A n \in C, m \in S \ C : sim[n] >= sim[m]}

(* passes_filter: the floor, and the firewall for organic traffic *)
Passing(S, sim, source) ==
    {n \in S : /\ sim[n] >= Floor
               /\ ~(source = "organic" /\ world[n].source = "simulator")}

(* similarity times 1/2 per half-life of age, scaled to whole numbers *)
Weight(n, sim, now) == LET age == IF now > Ts(n) THEN now - Ts(n) ELSE 0
                       IN  sim[n] * 2 ^ (Len(Order) - age)

(* tally: at least half of the weight went hard *)
MostlyHard(hard, kept, sim, now) ==
    LET weight == [n \in kept |-> Weight(n, sim, now)]
        Votes(S) == FoldFunctionOnSet(+, 0, weight, S)
    IN  2 * Votes(hard) >= Votes(kept)

Decide(kept, sim, now) ==
    LET hard == {n \in kept : EffectiveHard(rows[n], world[n].rung)}
    IN  IF MostlyHard(hard, kept, sim, now) THEN "frontier" ELSE "local"

Vote(kept, sim, now) ==
    IF Cardinality(kept) < MinNeighbors THEN Null ELSE Decide(kept, sim, now)

(* Mutant: the best K are filtered, not the filtered cut to K. *)
BallotsCutFirst(S, sim, source) ==
    {Passing(C, sim, source) : C \in Cuts(Embedded(S), sim)}

(* evaluate_neighbors: those who may come to vote, and the verdicts of them *)
Ballots(S, sim, source) == Cuts(Passing(Embedded(S), sim, source), sim)

Evaluate(S, sim, source, now) ==
    {Vote(kept, sim, now) : kept \in Ballots(S, sim, source)}

(* RetrievalResolver: the ledger counts every finalized outcome. *)
Resolve(t) ==
    IF Cardinality(ClosedTurns) < MinFinalized THEN {"cold"}
    ELSE Evaluate(ClosedTurns, world[t].query, world[t].source, clock + 1)

(* _load_targets *)
Targets == {t \in ClosedTurns : world[t].middle /\ world[t].vector}

Before(t) == {u \in ClosedTurns : Ts(u) < Ts(t)}

(* Mutant: every other turn is a neighbour. *)
ShadowAnyTime(t) ==
    LET others == Embedded(ClosedTurns \ {t})
    IN  IF Cardinality(others) < MinFinalized THEN {}
        ELSE Ballots(others, world[t].document, world[t].source)

(* evaluate: the stored vector against the turns routed before, those of    *)
(* the same session too.                                                    *)
Shadow(t) ==
    LET past == Embedded(Before(t))
    IN  IF Cardinality(past) < MinFinalized THEN {}
        ELSE Ballots(past, world[t].document, world[t].source)

ShadowVerdict(t, kept) == Vote(kept, world[t].document, Ts(t))

-----------------------------------------------------------------------------
InitRetrieval ==
    /\ world \in Worlds
    /\ clock = 0
    /\ rows = [t \in Turns |-> Null]
    /\ answered = [t \in Turns |-> Null]
    /\ moved = [t \in Turns |-> {}]

MarkLater(t) ==
    moved' = [u \in Turns |->
        moved[u] \cup {v \in {t} : u \in Routed /\ Ts(v) < Ts(u)
                                  /\ rows'[v] # rows[v]}]

(* The next turn of a session makes its last open row final. *)
Finalize(t, retried) ==
    /\ rows' = [rows EXCEPT ![t] =
           [@ EXCEPT !.status = "closed_final", !.retried = retried,
                     !.signal = IF retried THEN TRUE ELSE rows[t].signal]]
    /\ MarkLater(t)
    /\ UNCHANGED <<world, clock, answered>>

Newest(S) == CHOOSE t \in S : \A u \in S : Ts(u) <= Ts(t)

OpenOf(session) == {t \in OpenTurns : world[t].session = session}

(* new_turn for the turn to come; its retry signal is the user's. *)
NextTurnBegins ==
    /\ clock < Len(Order)
    /\ LET open == OpenOf(world[Order[clock + 1]].session)
       IN  open # {} /\ \E retried \in BOOLEAN : Finalize(Newest(open), retried)

(* The turn is planned and recorded. *)
RouteNext ==
    /\ clock < Len(Order)
    /\ LET t == Order[clock + 1]
       IN  /\ OpenOf(world[t].session) = {}
           /\ answered' = [answered EXCEPT ![t] = Resolve(t)]
           /\ rows' = [rows EXCEPT ![t] =
                  [status |-> "pending", escalated |-> FALSE, retried |-> Null,
                   proxy |-> Null, signal |-> Null, verified |-> Null, cause |-> Null]]
    /\ clock' = clock + 1
    /\ UNCHANGED <<world, moved>>

(* An answer of the turn ends: the labels of what it showed so far. *)
Attach(t, e) ==
    /\ t \in OpenTurns
    /\ rows' = [rows EXCEPT ![t] =
           [@ EXCEPT !.status = "closed_turn", !.escalated = e.escalated,
                     !.proxy = ProxyHard(e), !.signal = TaskSignal(e)]]
    /\ MarkLater(t)
    /\ UNCHANGED <<world, clock, answered>>

Verify(t, v) ==
    /\ t \in Routed
    /\ Cardinality({t} \cup {u \in Routed : rows[u].verified # Null}) <= MaxVerified
    /\ rows' = [rows EXCEPT ![t] = [@ EXCEPT !.verified = v.verified,
                                             !.cause = v.cause]]
    /\ MarkLater(t)
    /\ UNCHANGED <<world, clock, answered>>

RetrievalNext ==
    \/ NextTurnBegins \/ RouteNext
    \/ \E t \in Turns :
          \/ \E e \in Evidence : Attach(t, e)
          \/ \E v \in Verifications : Verify(t, v)

RetrievalSpec == InitRetrieval /\ [][RetrievalNext]_retrievalVars

-----------------------------------------------------------------------------
(* Synthetic turns never give an organic turn an answer it could not have   *)
(* without them, nor take one from it, however many of them are more        *)
(* similar: past the cold start, which they may end, its answers are those  *)
(* of a ledger that never had them.                                         *)
FirewallHolds ==
    \A t \in Turns :
        LET organic == {u \in ClosedTurns : world[u].source # "simulator"}
        IN  world[t].source = "organic" /\ Cardinality(ClosedTurns) >= MinFinalized =>
                Resolve(t) = Evaluate(organic, world[t].query, "organic", clock + 1)

(* Of instructions that are equally similar it is not said which vote, so   *)
(* that a turn may have two answers: refuted by TLC.                        *)
OneAnswer == \A t \in Turns : Cardinality(Resolve(t)) = 1

RanksAlike(t) ==
    \A u \in Turns : Ts(u) < Ts(t) => world[t].query[u] = world[t].document[u]

(* Where both prefixes rank the earlier turns alike, the evaluation gives   *)
(* the router a verdict it could not have given only by the vote of a turn  *)
(* whose row changed after the turn was routed, or where the router had too *)
(* few outcomes to answer: turns routed since, and rows that closed or were *)
(* verified since and do not vote, never tell.                              *)
ShadowNeverBolder ==
    \A t \in Targets : \A kept \in Shadow(t) :
        RanksAlike(t) /\ kept \cap moved[t] = {} =>
            \/ ShadowVerdict(t, kept) \in answered[t] \cup {Null}
            \/ answered[t] = {"cold"}

(* "a neighbor is only eligible if it existed in memory when the target was *)
(* routed live" (shadow_retrieval.py:193-201, "approximated by decision     *)
(* ts"): refuted by TLC, a neighbour's answer may end after the target was  *)
(* routed.                                                                  *)
ShadowRepeats ==
    \A t \in Targets : \A kept \in Shadow(t) :
        RanksAlike(t) => \/ ShadowVerdict(t, kept) \in answered[t] \cup {Null}
                         \/ answered[t] = {"cold"}
===============================================================================
