--------------------------- MODULE MCRouteLedger ---------------------------
(***************************************************************************)
(* RouteLedger on a small ledger: live turns of one session, one turn of   *)
(* the same session in the corpus, and verification events for the first   *)
(* live turn.                                                              *)
(***************************************************************************)
EXTENDS RouteLedger

OneCorpusTurn == [r \in Corpus |-> [session |-> CHOOSE s \in Sessions : TRUE, index |-> 1]]
(* The second live turn is private.  AnyVerdict refutes                    *)
(* PrivateNeverEmbedded.                                                   *)
OnePrivate == [r \in Routes |-> {r = 2}]
AnyVerdict == [r \in Routes |-> BOOLEAN]
FirstTurn     == [j \in Jobs |-> 1]
=============================================================================
