--------------------------- MODULE EmbeddingsCall ---------------------------
(***************************************************************************)
(* POST /v1/embeddings (crates/gateway/src/embeddings.rs): one target, no  *)
(* retry, no breaker, no limiter, and three writes whose errors are        *)
(* dropped.  The client may go away at any await, which drops the call.    *)
(***************************************************************************)
EXTENDS Naturals

CONSTANT Request

VARIABLES
  at,     \* where each call is
  row,    \* ai_requests.status
  usage,  \* number of usage_records
  cost    \* number of cost_records

vars == <<at, row, usage, cost>>

Init ==
  /\ at = [r \in Request |-> "resolve"]
  /\ row = [r \in Request |-> "none"]
  /\ usage = [r \in Request |-> 0]
  /\ cost = [r \in Request |-> 0]

Goto(r, from, to) == at[r] = from /\ at' = [at EXCEPT ![r] = to]

\* No inputs, no route, a model that is not allowed, no target, no row.
Refuse(r) == Goto(r, "resolve", "done") /\ UNCHANGED <<row, usage, cost>>

CreateRow(r) ==
  /\ Goto(r, "resolve", "adapter")
  /\ row' = [row EXCEPT ![r] = "accepted"] /\ UNCHANGED <<usage, cost>>

\* get_for(): an error leaves the row as it is.
GetAdapter(r) ==
  /\ Goto(r, "adapter", "call") \/ Goto(r, "adapter", "done")
  /\ UNCHANGED <<row, usage, cost>>

Answer(r) ==
  /\ Goto(r, "call", "complete") \/ Goto(r, "call", "fail")
  /\ UNCHANGED <<row, usage, cost>>

\* A dropped error: the write may not have happened.
Written(table, r, value) == table' = [table EXCEPT ![r] = value] \/ UNCHANGED table

\* Mutant: metered first.
InsertUsageFirst(r) ==
  /\ Goto(r, "complete", "usage")
  /\ Written(usage, r, 1) /\ UNCHANGED <<row, cost>>

Finish(r) ==
  /\ Goto(r, "complete", "usage")
  /\ Written(row, r, "completed") /\ UNCHANGED <<usage, cost>>

InsertUsage(r) ==
  /\ Goto(r, "usage", "cost")
  /\ Written(usage, r, usage[r] + 1) /\ UNCHANGED <<row, cost>>

InsertCost(r) ==
  /\ Goto(r, "cost", "done")
  /\ Written(cost, r, cost[r] + 1) /\ UNCHANGED <<row, usage>>

FinishFailed(r) ==
  /\ Goto(r, "fail", "done")
  /\ Written(row, r, "failed") /\ UNCHANGED <<usage, cost>>

ClientGone(r) ==
  /\ at[r] # "done" /\ at' = [at EXCEPT ![r] = "done"]
  /\ UNCHANGED <<row, usage, cost>>

Next == \E r \in Request :
  \/ Refuse(r) \/ CreateRow(r) \/ GetAdapter(r) \/ Answer(r)
  \/ Finish(r) \/ InsertUsage(r) \/ InsertCost(r) \/ FinishFailed(r) \/ ClientGone(r)

Spec == Init /\ [][Next]_vars

-----------------------------------------------------------------------------

Ledger == INSTANCE RequestLedger

\* Embeddings write the ledger as a chat does: no meter without a row, one of
\* each, the outcome once and before anything is metered.
EmbeddingsLedger == Ledger!Spec
=============================================================================
