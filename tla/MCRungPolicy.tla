---------------------------- MODULE MCRungPolicy ----------------------------
(***************************************************************************)
(* The policy over every registry the health monitor can present: late and *)
(* reordered answers open and half-open the circuits of the three rungs,   *)
(* and whatever a user turn then reads decides where it may go.            *)
(***************************************************************************)
EXTENDS RungPolicy, RungHealth

CONSTANTS Tokens    \* context sizes to try; both sides of every threshold

ASSUME TokensAssumption == Tokens \subseteq Nat
ASSUME RungsAssumption  == Rungs \subseteq Models

(* What a sentence adds to its score, and everything else of a turn.       *)
Sentences == [verb: DOMAIN VerbScore, broad: BOOLEAN, narrow: BOOLEAN]
Circumstances ==
    [tokens: Tokens, terse: BOOLEAN, interrupted: BOOLEAN,
     verdict: {"abstain", "easy", "hard"}, signals: {0}]

Said(sentence, c) ==
    [verb |-> sentence.verb, broad |-> sentence.broad, narrow |-> sentence.narrow,
     tokens |-> c.tokens, terse |-> c.terse, interrupted |-> c.interrupted,
     verdict |-> c.verdict, signals |-> c.signals]

(* A session the live router can present: an escalated session that is not *)
(* pinned has left the local routes (RouterProxy, EscalatedOffLocal).      *)
SessionInputs ==
    {s \in [pinned: BOOLEAN, escalated: BOOLEAN, route: StoreRoutes] :
        s.escalated /\ ~s.pinned => s.route \notin LocalRoutes}

Decision(turn, s, healthy) ==
    RouteTurn(turn, s.pinned, s.escalated, s.route, healthy)

Lane(rung) == CASE rung \in LocalRoutes  -> "local"
                [] rung = "cheap-cloud"  -> "cheap_cloud"
                [] OTHER                 -> rung

(* The score, the layer and the rung of every sentence said in one set of  *)
(* circumstances.                                                          *)
Outcomes(c, s, healthy) ==
    {LET turn == Said(sentence, c)
         decision == Decision(turn, s, healthy)
     IN  <<HeuristicScore(turn), decision.layer, Lane(decision.rung)>> :
        sentence \in Sentences}

FitsUnder(healthy) ==
    \A c \in Circumstances, s \in SessionInputs :
        \A o \in Outcomes(c, s, healthy) :
            /\ \/ Feasible(c.tokens, healthy) = {}
               \/ o[2] = "pin_context_conflict"
               \/ Fits(c.tokens, o[3])
            /\ o[3] = "local" => healthy["local"] \/ s.pinned

OrderedUnder(healthy) ==
    \A c \in Circumstances, s \in SessionInputs :
        LET outcomes == Outcomes(c, s, healthy)
        IN  \A easier, harder \in outcomes :
                easier[1] <= harder[1] =>
                    CostRank[easier[3]] <= CostRank[harder[3]]

(* Both questions answered once for every registry.                        *)
Answers == {<<h, FitsUnder(h), OrderedUnder(h)>> : h \in [Rungs -> BOOLEAN]}

Registry == [rung \in Rungs |-> Read[rung].healthy]

(* Whatever the monitor lets a turn read, the chosen rung holds the turn's *)
(* context with headroom.  The two ways out are the ones the code names: a *)
(* pinned turn that outgrew the local rung is surfaced as a conflict, and  *)
(* when no healthy rung holds the turn the frontier takes it.  A terse     *)
(* approval or a sticky escalated route must not carry a turn back to a    *)
(* window it has outgrown, nor any layer an unpinned turn to a local rung  *)
(* that is out.                                                            *)
WindowFits == \E ordered \in BOOLEAN : <<Registry, TRUE, ordered>> \in Answers

(* A turn that scores harder, everything else equal, is never given a      *)
(* cheaper rung, whichever circuits are open: the bands, the classifier    *)
(* and the retry rule agree on the direction.                              *)
HarderNeverCheaper == \E fits \in BOOLEAN : <<Registry, fits, TRUE>> \in Answers
=============================================================================
