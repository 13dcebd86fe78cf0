----------------------------- MODULE GraphProjection -----------------------------
(***************************************************************************)
(* The graph over the ledger (graph_lite.py): project_from_ledger deletes   *)
(* the two tables and draws them again from the decisions and the closed   *)
(* outcomes, one commit per node and per edge, while the proxy and the     *)
(* backfill go on writing the ledger. A rebuild may die anywhere, and a    *)
(* second one may run beside it. k_hop reads what is there.                *)
(*                                                                         *)
(* Ids: both tables are only ever emptied as a whole, so the id of a node  *)
(* is its place among the nodes; edges are a bag, the order of their ids   *)
(* being of interest to ancestry alone.                                    *)
(***************************************************************************)
EXTENDS Integers, Sequences, FiniteSets, Bags, SequencesExt

CONSTANTS
    Order,       \* the turns of the ledger, by their ts
    Of,          \* turn -> session, rung, rules, layer, escalated, wire
    Target,      \* ESCALATION_TARGET: rung -> the rung above, top rungs left out
    Old,         \* turns recorded before
    Rebuilders,  \* processes that run project_from_ledger
    MaxRuns, MaxHops,    \* bounds: rebuilds started, hops asked for
    Null

Listed == Range(Order)

ASSUME GraphAssumption ==
    /\ Order \in Seq(Listed) /\ \A i, j \in DOMAIN Order : Order[i] = Order[j] => i = j
    /\ Old \subseteq Listed
    /\ \A t \in Listed : IsFiniteSet(Of[t].rules)
    /\ Null \notin Nat /\ MaxHops \in Nat

VARIABLES
    decisions, closed,   \* turns in the ledger, turns whose outcome is closed
    nodes,       \* sequence of <<kind, key>>; the id is the place
    edges,       \* bag of [src, dst, kind], by ids
    pc,          \* rebuilder -> idle, decisions or outcomes
    due,         \* rebuilder -> turns still to draw, the one begun among them
    links,       \* rebuilder -> what is still to draw of the turn begun
    turnId, otherId,     \* rebuilder -> ids it holds, Null before they are known
    read,        \* history: rebuilder -> what it read of the ledger
    disturbed,   \* history: rebuilder -> another one wrote since its delete
    settled,     \* history: what the last rebuild read, if it ran alone
    runs

ledger == <<decisions, closed>>
graph == <<nodes, edges>>
rebuilds == <<pc, due, links, turnId, otherId, read, runs>>
graphVars == <<ledger, graph, rebuilds, disturbed, settled>>

-----------------------------------------------------------------------------
Link(kind, key, edge) == [node |-> <<kind, key>>, edge |-> edge]

(* Without a fired rule the deciding layer is the rule. *)
RulesOf(t) == IF Of[t].rules = {} THEN {Of[t].layer} ELSE Of[t].rules

DecisionLinks(t) ==
    <<Link("session", Of[t].session, "in_session"),
      Link("model", Of[t].rung, "routed_to")>>
    \o SetToSeq({Link("rule", r, "decided_by") : r \in RulesOf(t)})

OutcomeLinks(t) ==
    (IF Of[t].escalated /\ Of[t].rung \in DOMAIN Target
       THEN <<Link("model", Target[Of[t].rung], "escalated_to")>> ELSE <<>>)
    \o (IF Of[t].wire # Null
          THEN <<Link("tripwire", Of[t].wire, "tripped")>> ELSE <<>>)

Ts(t) == CHOOSE i \in DOMAIN Order : Order[i] = t

(* The decisions come by ts; the outcomes in some order, taken to be the same. *)
First(S) == CHOOSE t \in S : \A u \in S : Ts(t) <= Ts(u)

IdOf(node) == IF node \in Range(nodes)
                THEN CHOOSE i \in DOMAIN nodes : nodes[i] = node
                ELSE Len(nodes) + 1

-----------------------------------------------------------------------------
InitGraph ==
    /\ decisions = Old /\ closed = {}
    /\ nodes = <<>> /\ edges = EmptyBag
    /\ pc = [r \in Rebuilders |-> "idle"]
    /\ due = [r \in Rebuilders |-> {}]
    /\ links = [r \in Rebuilders |-> <<>>]
    /\ turnId = [r \in Rebuilders |-> Null]
    /\ otherId = [r \in Rebuilders |-> Null]
    /\ read = [r \in Rebuilders |-> Null]
    /\ disturbed = [r \in Rebuilders |-> FALSE]
    /\ settled = Null
    /\ runs = 0

Record(t) ==
    /\ t \notin decisions
    /\ decisions' = decisions \cup {t}
    /\ UNCHANGED <<closed, graph, rebuilds, disturbed, settled>>

Close(t) ==
    /\ t \in decisions \ closed
    /\ closed' = closed \cup {t}
    /\ UNCHANGED <<decisions, graph, rebuilds, disturbed, settled>>

(* Every commit of one rebuild is a disturbance to the others. *)
Disturb(r) ==
    /\ disturbed' = [s \in Rebuilders |-> disturbed[s] \/ (s # r /\ pc[s] # "idle")]
    /\ settled' = Null

(* Mutant: the tables are not emptied. *)
StartOnTop(r) ==
    /\ pc[r] = "idle" /\ runs < MaxRuns
    /\ runs' = runs + 1
    /\ pc' = [pc EXCEPT ![r] = "delete"]
    /\ disturbed' = [s \in Rebuilders |-> s # r /\ (disturbed[s] \/ pc[s] # "idle")]
    /\ settled' = Null
    /\ UNCHANGED <<ledger, graph, due, links, turnId, otherId, read>>

(* DELETE FROM edges; DELETE FROM nodes; commit *)
Start(r) ==
    /\ pc[r] = "idle" /\ runs < MaxRuns
    /\ runs' = runs + 1
    /\ pc' = [pc EXCEPT ![r] = "delete"]
    /\ nodes' = <<>> /\ edges' = EmptyBag
    /\ disturbed' = [s \in Rebuilders |-> s # r /\ (disturbed[s] \/ pc[s] # "idle")]
    /\ settled' = Null
    /\ UNCHANGED <<ledger, due, links, turnId, otherId, read>>

(* All decisions are fetched in one statement. *)
ReadDecisions(r) ==
    /\ pc[r] = "delete"
    /\ pc' = [pc EXCEPT ![r] = "decisions"]
    /\ due' = [due EXCEPT ![r] = decisions]
    /\ read' = [read EXCEPT ![r] = [turns |-> decisions, closed |-> {}]]
    /\ UNCHANGED <<ledger, graph, links, turnId, otherId, disturbed, settled, runs>>

Upserted(node) == IF node \in Range(nodes) THEN nodes ELSE Append(nodes, node)

(* upsert_node for the turn of a decision *)
EnterTurn(r) ==
    /\ pc[r] = "decisions" /\ due[r] # {} /\ turnId[r] = Null
    /\ LET t == First(due[r])
       IN  /\ turnId' = [turnId EXCEPT ![r] = IdOf(<<"turn", t>>)]
           /\ nodes' = Upserted(<<"turn", t>>)
           /\ links' = [links EXCEPT ![r] = DecisionLinks(t)]
    /\ Disturb(r)
    /\ UNCHANGED <<ledger, edges, pc, due, otherId, read, runs>>

(* The closed outcomes, read when the decisions are drawn; of most of them  *)
(* there is nothing to draw.                                                *)
ReadOutcomes(r) ==
    /\ pc[r] = "decisions" /\ due[r] = {}
    /\ pc' = [pc EXCEPT ![r] = "outcomes"]
    /\ due' = [due EXCEPT ![r] = {t \in closed : OutcomeLinks(t) # <<>>}]
    /\ read' = [read EXCEPT ![r] = [@ EXCEPT !.closed = closed]]
    /\ UNCHANGED <<ledger, graph, links, turnId, otherId, disturbed, settled, runs>>

(* get_node: a turn that is not drawn is passed over. *)
FindTurn(r) ==
    /\ pc[r] = "outcomes" /\ due[r] # {} /\ turnId[r] = Null
    /\ LET t == First(due[r])
       IN  IF <<"turn", t>> \in Range(nodes)
             THEN /\ turnId' = [turnId EXCEPT ![r] = IdOf(<<"turn", t>>)]
                  /\ links' = [links EXCEPT ![r] = OutcomeLinks(t)]
                  /\ UNCHANGED due
             ELSE due' = [due EXCEPT ![r] = @ \ {t}] /\ UNCHANGED <<turnId, links>>
    /\ UNCHANGED <<ledger, graph, pc, otherId, read, disturbed, settled, runs>>

UpsertOther(r) ==
    /\ turnId[r] # Null /\ otherId[r] = Null
    /\ LET node == Head(links[r]).node
       IN  /\ otherId' = [otherId EXCEPT ![r] = IdOf(node)]
           /\ nodes' = Upserted(node)
    /\ Disturb(r)
    /\ UNCHANGED <<ledger, edges, pc, due, links, turnId, read, runs>>

(* add_edge between the ids held; then the next link, or the next turn. *)
AddEdge(r) ==
    /\ otherId[r] # Null
    /\ edges' = edges (+) SetToBag({[src |-> turnId[r], dst |-> otherId[r],
                                     kind |-> Head(links[r]).edge]})
    /\ links' = [links EXCEPT ![r] = Tail(@)]
    /\ IF Len(links[r]) = 1
         THEN /\ due' = [due EXCEPT ![r] = @ \ {First(@)}]
              /\ turnId' = [turnId EXCEPT ![r] = Null]
         ELSE UNCHANGED <<due, turnId>>
    /\ otherId' = [otherId EXCEPT ![r] = Null]
    /\ Disturb(r)
    /\ UNCHANGED <<ledger, nodes, pc, read, runs>>

Leave(r) ==
    /\ pc' = [pc EXCEPT ![r] = "idle"]
    /\ due' = [due EXCEPT ![r] = {}]
    /\ links' = [links EXCEPT ![r] = <<>>]
    /\ turnId' = [turnId EXCEPT ![r] = Null]
    /\ otherId' = [otherId EXCEPT ![r] = Null]
    /\ read' = [read EXCEPT ![r] = Null]
    /\ disturbed' = [disturbed EXCEPT ![r] = FALSE]

Finish(r) ==
    /\ pc[r] = "outcomes" /\ due[r] = {}
    /\ Leave(r)
    /\ settled' = IF disturbed[r] THEN Null ELSE read[r]
    /\ UNCHANGED <<ledger, graph, runs>>

(* The process dies between two commits; its half stays. *)
Die(r) ==
    /\ pc[r] # "idle"
    /\ Leave(r)
    /\ UNCHANGED <<ledger, graph, settled, runs>>

Rebuild(r) ==
    \/ Start(r) \/ ReadDecisions(r) \/ EnterTurn(r) \/ ReadOutcomes(r)
    \/ FindTurn(r) \/ UpsertOther(r) \/ AddEdge(r) \/ Finish(r)

GraphNext ==
    \/ \E t \in Listed : Record(t) \/ Close(t)
    \/ \E r \in Rebuilders : Rebuild(r) \/ Die(r)

GraphSpec == InitGraph /\ [][GraphNext]_graphVars

-----------------------------------------------------------------------------
(* neighbors(..., direction="both") *)
Neighbors(n) ==
    {m \in DOMAIN nodes : \E e \in BagToSet(edges) :
        <<e.src, e.dst>> \in {<<n, m>>, <<m, n>>}}

Reached(n) == [queue |-> <<n>>, hops |-> [m \in {n} |-> 0]]

Fresh(s, k) ==
    LET n == Head(s.queue)
    IN  IF s.hops[n] >= k THEN {} ELSE Neighbors(n) \ DOMAIN s.hops

Counted(s, fresh) ==
    [m \in DOMAIN s.hops \cup fresh |->
        IF m \in fresh THEN s.hops[Head(s.queue)] + 1 ELSE s.hops[m]]

(* Mutant: the latest of the queue is taken first. *)
DequeueDeep(s, k) ==
    IF s.queue = <<>> THEN s
    ELSE [queue |-> SetToSeq(Fresh(s, k)) \o Tail(s.queue),
          hops |-> Counted(s, Fresh(s, k))]

(* one round of the search *)
Dequeue(s, k) ==
    IF s.queue = <<>> THEN s
    ELSE [queue |-> Tail(s.queue) \o SetToSeq(Fresh(s, k)),
          hops |-> Counted(s, Fresh(s, k))]

(* k_hop: breadth first, and every node is in the queue at most once. *)
Search(n, k) ==
    LET round[i \in Nat] == IF i = 0 THEN Reached(n) ELSE Dequeue(round[i - 1], k)
    IN  round

KHop(n, k) == Search(n, k)[Len(nodes)].hops

(* What a reader of the ledger would draw. *)
DecisionRelation(t) ==
    {<<t, "in_session", <<"session", Of[t].session>>>>,
     <<t, "routed_to", <<"model", Of[t].rung>>>>}
    \cup {<<t, "decided_by", <<"rule", rule>>>> : rule \in RulesOf(t)}

OutcomeRelation(t) ==
    (IF Of[t].escalated /\ Of[t].rung \in DOMAIN Target
       THEN {<<t, "escalated_to", <<"model", Target[Of[t].rung]>>>>} ELSE {})
    \cup (IF Of[t].wire # Null
             THEN {<<t, "tripped", <<"tripwire", Of[t].wire>>>>} ELSE {})

RelationOf(known, t) ==
    DecisionRelation(t) \cup (IF t \in known.closed THEN OutcomeRelation(t) ELSE {})

Relation(known) == UNION {RelationOf(known, t) : t \in known.turns}

(* After a rebuild that no other disturbed, whatever an earlier one left    *)
(* half drawn and whatever was written to the ledger meanwhile, the tables  *)
(* are the decisions it read and the outcomes of those it found closed:     *)
(* every node once, every edge once, every edge between the right nodes.    *)
Rebuilt ==
    settled # Null =>
        /\ Range(nodes) = {<<"turn", t>> : t \in settled.turns}
                           \cup {e[3] : e \in Relation(settled)}
        /\ IsInjective(nodes)
        /\ {<<nodes[e.src], e.kind, nodes[e.dst]>> : e \in BagToSet(edges)}
               = {<<<<"turn", e[1]>>, e[2], e[3]>> : e \in Relation(settled)}
        /\ \A e \in BagToSet(edges) : edges[e] = 1

Touching(node) ==
    {<<"turn", e[1]>> : e \in {f \in Relation(settled) : f[3] = node}}
    \cup {e[3] : e \in {f \in Relation(settled) : <<"turn", f[1]>> = node}}

(* nodes of the ledger's relation at most d links away *)
Within(node) ==
    LET ball[d \in Nat] == IF d = 0 THEN {node}
                           ELSE ball[d - 1] \cup UNION {Touching(m) : m \in ball[d - 1]}
    IN  ball

(* k_hop of a rebuilt graph gives, for every turn, exactly what is at most  *)
(* k links away in the ledger, each with its smallest number of links,      *)
(* however many ways lead there.                                            *)
HopsShortest ==
    settled # Null =>
        \A i \in DOMAIN nodes, k \in 0 .. MaxHops :
            LET hops == KHop(i, k)
            IN  /\ {nodes[j] : j \in DOMAIN hops} = Within(nodes[i])[k]
                /\ \A j \in DOMAIN hops : hops[j] > 0 =>
                       nodes[j] \notin Within(nodes[i])[hops[j] - 1]
===============================================================================
