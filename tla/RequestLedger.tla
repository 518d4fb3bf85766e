--------------------------- MODULE RequestLedger ---------------------------
(***************************************************************************)
(* What the tables ai_requests, usage_records and cost_records promise     *)
(* about one another (crates/persistence/src/requests.rs), whatever path   *)
(* of the gateway writes them.  The abstract specification that            *)
(* ChatPipeline and ChatStream implement.                                  *)
(***************************************************************************)
EXTENDS Naturals

CONSTANT Request  \* requests, one per generated id

VARIABLES
  row,    \* ai_requests.status, "none" when there is no row
  usage,  \* number of usage_records of the request
  cost    \* number of cost_records of the request

vars == <<row, usage, cost>>

Terminal == {"completed", "failed", "client_cancelled"}

TypeOK ==
  /\ row \in [Request -> {"none", "accepted"} \union Terminal]
  /\ usage \in [Request -> Nat]
  /\ cost \in [Request -> Nat]

Init ==
  /\ row = [r \in Request |-> "none"]
  /\ usage = [r \in Request |-> 0]
  /\ cost = [r \in Request |-> 0]

\* create(): the row exists before any provider is called.
Accept(r) ==
  /\ row[r] = "none"
  /\ row' = [row EXCEPT ![r] = "accepted"]
  /\ UNCHANGED <<usage, cost>>

\* finish(): once, and before anything is metered.
Finish(r, status) ==
  /\ row[r] = "accepted"
  /\ usage[r] = 0 /\ cost[r] = 0
  /\ row' = [row EXCEPT ![r] = status]
  /\ UNCHANGED <<usage, cost>>

\* insert_usage(): once, never for a request its client cancelled.  The row may
\* still say accepted: finish() can fail and its error is dropped.
InsertUsage(r) ==
  /\ row[r] \in {"accepted", "completed", "failed"}
  /\ usage[r] = 0 /\ cost[r] = 0
  /\ usage' = [usage EXCEPT ![r] = 1]
  /\ UNCHANGED <<row, cost>>

\* insert_cost(): once, after insert_usage() was tried.
InsertCost(r) ==
  /\ row[r] \in {"accepted", "completed", "failed"}
  /\ cost[r] = 0
  /\ cost' = [cost EXCEPT ![r] = 1]
  /\ UNCHANGED <<row, usage>>

Next ==
  \E r \in Request : \/ Accept(r)
                     \/ \E status \in Terminal : Finish(r, status)
                     \/ InsertUsage(r)
                     \/ InsertCost(r)

Spec == Init /\ [][Next]_vars

=============================================================================
