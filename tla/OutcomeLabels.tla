------------------------------ MODULE OutcomeLabels ------------------------------
(***************************************************************************)
(* The labels of a finished turn (outcomes.py). Evidence is what the turn   *)
(* showed: the kind of the wire that tripped, counts, whether the rung's    *)
(* infrastructure failed. A row holds the labels as the ledger stores them, *)
(* Null where it holds none.                                                *)
(***************************************************************************)
EXTENDS Integers

CONSTANT Null

Runaway == 10   \* continuations of a runaway turn

Kinds == {"dialect", "difficulty", "cost", "quality"}

ProxyHard(e) ==
    \/ e.editFailures >= 1 \/ e.errors >= 1
    \/ e.kind = "quality"                      \* the interrupt wire
    \/ e.continuations >= Runaway

FailureCause(e) ==
    CASE e.kind = "dialect"                 -> "harness_dialect"
      [] e.kind \in {"difficulty", "cost"}  -> "task_capability"
      [] e.kind = "quality"                 -> "user_abort"
      [] OTHER -> IF e.infrastructure THEN "infrastructure" ELSE Null

TaskSignal(e) ==
    e.continuations >= Runaway \/ e.kind \in {"difficulty", "cost", "quality"}

WentHard(row) == TRUE \in {row.escalated, row.retried, row.proxy}

CheaperRungs == {"local", "local-code", "local-small", "cheap-cloud"}

(* A verified failure of the task is hard, a verified success of a cheaper  *)
(* rung is not; otherwise the task signal counts, and the legacy label      *)
(* where there is none.                                                     *)
EffectiveHard(row, rung) ==
    \/ row.verified = FALSE /\ row.cause \in {Null, "task_capability"}
    \/ /\ ~(row.verified = FALSE /\ row.cause \in {Null, "task_capability"})
       /\ ~(row.verified = TRUE /\ rung \in CheaperRungs)
       /\ IF row.signal = Null THEN WentHard(row) ELSE row.signal
===============================================================================
