---------------------------- MODULE ChatPipeline ----------------------------
(***************************************************************************)
(* Non-streaming chat completions: prepare() after the limiter, then       *)
(* execute_chat() with its candidate and attempt loops, then               *)
(* persist_success() or persist_failure() (crates/application/src/         *)
(* pipeline.rs), for requests of one application that run concurrently     *)
(* over shared breakers and one database.  Each action is what happens     *)
(* between two awaits that other tasks can observe.  The handler's future  *)
(* is dropped when the client disconnects, and the process may crash.      *)
(***************************************************************************)
EXTENDS BreakerState, Sequences, FiniteSets

CONSTANTS
  Request,     \* requests of the application
  Target,      \* (provider, model) pairs
  Idle,        \* no target
  Routes,      \* candidate lists resolve() may return, best priority first
  Attempts,    \* values of RetryConfig::attempts
  MaxAttempts, \* the upper clamp of Attempts, 10 in the code
  Category,    \* error categories of a provider call
  RetryOn,     \* the categories RetryConfig::allows
  Budget       \* monthly budget, in requests of cost one; 0 is no budget

ASSUME PipelineAssumption ==
  /\ Idle \notin Target
  /\ Routes \subseteq Seq(Target) \ {<<>>}
  /\ MaxAttempts \in Nat \ {0}
  /\ Attempts \subseteq 1 .. MaxAttempts
  /\ RetryOn \subseteq Category
  /\ Budget \in Nat

VARIABLES
  pc,       \* where the handler of each request is
  todo,     \* candidates not yet given up, the current one first
  left,     \* calls the current candidate may still get
  breaker,  \* the breaker of each target
  row,      \* ai_requests.status
  usage,    \* usage_records of the request
  cost,     \* cost_records of the request
  reply,    \* what the client was answered
  fault,    \* history: a write for the request failed and was only logged
  peak      \* history: most requests at once past the budget check, not billed

vars == <<pc, todo, left, breaker, row, usage, cost, reply, fault, peak>>

ledger == <<row, usage, cost>>

\* monthly_cost_for_application(): the cost rows joined with the requests.
Spent == Cardinality({r \in Request : cost[r] > 0})

Unbilled(where) ==
  Cardinality({r \in Request :
    where[r] \in {"passed", "walk", "call", "finish_ok", "usage", "cost"}})

\* A handler that is running: its future can be dropped.
Running(r) == pc[r] \notin {"done", "gone", "dead"}

Current(r) == Head(todo[r])

Init ==
  /\ pc = [r \in Request |-> "new"]
  /\ todo = [r \in Request |-> <<>>]
  /\ left = [r \in Request |-> 0]
  /\ breaker = [t \in Target |-> NewBreaker]
  /\ row = [r \in Request |-> "none"]
  /\ usage = [r \in Request |-> 0]
  /\ cost = [r \in Request |-> 0]
  /\ reply = [r \in Request |-> "none"]
  /\ fault = [r \in Request |-> FALSE]
  /\ peak = 0

-----------------------------------------------------------------------------
(* Faulty variants, each a plausible slip in pipeline.rs.                   *)

\* The budget is compared with > instead of >=.
BudgetSpentLate == Budget > 0 /\ Spent > Budget

\* The loop stays on the candidate it gives up.
GiveUpStaying(r) ==
  /\ pc' = [pc EXCEPT ![r] = "walk"]
  /\ left' = [left EXCEPT ![r] = 0]
  /\ UNCHANGED todo

\* Failover calls the next candidate without asking its breaker.
GiveUpUnchecked(r) ==
  /\ todo' = [todo EXCEPT ![r] = Tail(@)]
  /\ pc' = [pc EXCEPT ![r] = IF Len(todo[r]) > 1 THEN "call" ELSE "walk"]
  /\ left' = [left EXCEPT ![r] = IF Len(todo[r]) > 1 THEN 1 ELSE 0]

\* finish() is given the status of a success whatever happened.
FinishedAlwaysCompleted(r, status) == [row EXCEPT ![r] = "completed"]

\* A retried insert of the cost row is not idempotent.
BilledAgain(r) ==
  /\ cost' = [cost EXCEPT ![r] = @ + 1]
  /\ pc' \in {pc, [pc EXCEPT ![r] = "audit_ok"]}

-----------------------------------------------------------------------------

BudgetSpent == Budget > 0 /\ Spent >= Budget

\* One more attempt at the same target?
Retries(n, category) == n > 1 /\ category \in RetryOn

\* On to the next candidate.
GiveUp(r) ==
  /\ todo' = [todo EXCEPT ![r] = Tail(@)]
  /\ pc' = [pc EXCEPT ![r] = "walk"]
  /\ left' = [left EXCEPT ![r] = 0]

Finished(r, status) == [row EXCEPT ![r] = status]

\* The cost row is inserted and the handler moves on.
Billed(r) ==
  /\ cost' = [cost EXCEPT ![r] = @ + 1]
  /\ pc' = [pc EXCEPT ![r] = "audit_ok"]

Goto(r, next) == pc' = [pc EXCEPT ![r] = next]

\* The client is answered by prepare(), before any candidate is tried.
Refuse(r) ==
  /\ Goto(r, "done")
  /\ reply' = [reply EXCEPT ![r] = "refused"]

-----------------------------------------------------------------------------
(* prepare()                                                                *)

\* The monthly spend is read and compared.
CheckBudget(r) ==
  /\ pc[r] = "new"
  /\ IF BudgetSpent
     THEN Refuse(r) /\ UNCHANGED peak
     ELSE /\ Goto(r, "passed")
          /\ peak' = IF Unbilled(pc) + 1 > peak THEN Unbilled(pc) + 1 ELSE peak
          /\ UNCHANGED reply
  /\ UNCHANGED <<todo, left, breaker, ledger, fault>>

\* resolve() or authorize() refuses, there is no candidate, or the row cannot
\* be inserted.
RefuseRoute(r) ==
  /\ pc[r] = "passed"
  /\ Refuse(r)
  /\ UNCHANGED <<todo, left, breaker, ledger, fault, peak>>

\* create() inserts the row.
CreateRow(r) ==
  /\ pc[r] = "passed"
  /\ \E route \in Routes : todo' = [todo EXCEPT ![r] = route]
  /\ row' = [row EXCEPT ![r] = "accepted"]
  /\ Goto(r, "walk")
  /\ UNCHANGED <<left, breaker, usage, cost, reply, fault, peak>>

\* create() inserts the row but cannot read it back: prepare() reports an error
\* and nobody will finish the row.
CreateRowUnread(r) ==
  /\ pc[r] = "passed"
  /\ row' = [row EXCEPT ![r] = "accepted"]
  /\ fault' = [fault EXCEPT ![r] = TRUE]
  /\ Refuse(r)
  /\ UNCHANGED <<todo, left, breaker, usage, cost, peak>>

-----------------------------------------------------------------------------
(* The candidate loop                                                       *)

\* check() lets r through to its current candidate.
Admit(r) ==
  /\ pc[r] = "walk" /\ todo[r] # <<>>
  /\ Admits(breaker[Current(r)])
  /\ breaker' = [breaker EXCEPT ![Current(r)] = AfterCheck(@)]
  /\ \E n \in Attempts : left' = [left EXCEPT ![r] = n]
  /\ Goto(r, "call")
  /\ UNCHANGED <<todo, ledger, reply, fault, peak>>

\* check() answers Open: failover without a call.
Skip(r) ==
  /\ pc[r] = "walk" /\ todo[r] # <<>>
  /\ ~Admits(breaker[Current(r)])
  /\ GiveUp(r)
  /\ UNCHANGED <<breaker, ledger, reply, fault, peak>>

Exhausted(r) ==
  /\ pc[r] = "walk" /\ todo[r] = <<>>
  /\ Goto(r, "finish_err")
  /\ UNCHANGED <<todo, left, breaker, ledger, reply, fault, peak>>

\* registry.get_for() fails: the candidate is left, its breaker not told.
NoAdapter(r) ==
  /\ pc[r] = "call"
  /\ GiveUp(r)
  /\ UNCHANGED <<breaker, ledger, reply, fault, peak>>

CallOk(r) ==
  /\ pc[r] = "call"
  /\ breaker' = [breaker EXCEPT ![Current(r)] = AfterSuccess(@)]
  /\ Goto(r, "finish_ok")
  /\ left' = [left EXCEPT ![r] = 0]
  /\ UNCHANGED <<todo, ledger, reply, fault, peak>>

CallErr(r) ==
  /\ pc[r] = "call"
  /\ breaker' = [breaker EXCEPT ![Current(r)] = AfterFailure(@)]
  /\ \E category \in Category :
       IF Retries(left[r], category)
       THEN left' = [left EXCEPT ![r] = @ - 1] /\ UNCHANGED <<pc, todo>>
       ELSE GiveUp(r)
  /\ UNCHANGED <<ledger, reply, fault, peak>>

-----------------------------------------------------------------------------
(* persist_success() and persist_failure(): each write may fail, which is   *)
(* logged or dropped, and the next one is tried all the same.               *)

\* A write either takes effect or marks the request faulty.
Write(r, effect, skip) ==
  \/ effect /\ UNCHANGED fault
  \/ skip /\ fault' = [fault EXCEPT ![r] = TRUE]

FinishRow(r, from, status, next) ==
  /\ pc[r] = from
  /\ Write(r, row' = Finished(r, status), UNCHANGED row)
  /\ Goto(r, next)
  /\ UNCHANGED <<todo, left, breaker, usage, cost, reply, peak>>

FinishCompleted(r) == FinishRow(r, "finish_ok", "completed", "usage")
FinishFailed(r) == FinishRow(r, "finish_err", "failed", "audit_err")

InsertUsage(r) ==
  /\ pc[r] = "usage"
  /\ Write(r, usage' = [usage EXCEPT ![r] = @ + 1], UNCHANGED usage)
  /\ Goto(r, "cost")
  /\ UNCHANGED <<todo, left, breaker, row, cost, reply, peak>>

InsertCost(r) ==
  /\ pc[r] = "cost"
  /\ Write(r, Billed(r), UNCHANGED cost /\ Goto(r, "audit_ok"))
  /\ UNCHANGED <<todo, left, breaker, row, usage, reply, peak>>

\* emit_audit(), then the client is answered.
Answer(r) ==
  /\ pc[r] \in {"audit_ok", "audit_err"}
  /\ reply' = [reply EXCEPT ![r] = IF pc[r] = "audit_ok" THEN "ok" ELSE "error"]
  /\ Goto(r, "done")
  /\ UNCHANGED <<todo, left, breaker, ledger, fault, peak>>

-----------------------------------------------------------------------------
(* The environment                                                          *)

\* The client goes away and the server drops the handler where it waits.
Disconnect(r) ==
  /\ Running(r)
  /\ Goto(r, "gone")
  /\ left' = [left EXCEPT ![r] = 0]
  /\ UNCHANGED <<todo, breaker, ledger, reply, fault, peak>>

\* The process dies and starts again: handlers and breakers are gone, the
\* database stays.
Crash ==
  /\ \E r \in Request : Running(r) /\ pc[r] # "new"
  /\ pc' = [r \in Request |-> IF Running(r) /\ pc[r] # "new" THEN "dead" ELSE pc[r]]
  /\ left' = [r \in Request |-> 0]
  /\ breaker' = [t \in Target |-> NewBreaker]
  /\ UNCHANGED <<todo, ledger, reply, fault, peak>>

Tick ==
  /\ \E t \in Target : AfterTick(breaker[t]) # breaker[t]
  /\ breaker' = [t \in Target |-> AfterTick(breaker[t])]
  /\ UNCHANGED <<pc, todo, left, ledger, reply, fault, peak>>

\* The handler of r makes a step of its own.
Step(r) ==
  \/ CheckBudget(r) \/ RefuseRoute(r) \/ CreateRow(r) \/ CreateRowUnread(r)
  \/ Admit(r) \/ Skip(r) \/ Exhausted(r)
  \/ NoAdapter(r) \/ CallOk(r) \/ CallErr(r)
  \/ FinishCompleted(r) \/ FinishFailed(r)
  \/ InsertUsage(r) \/ InsertCost(r) \/ Answer(r)

Next ==
  \/ \E r \in Request : Step(r) \/ Disconnect(r)
  \/ Crash
  \/ Tick

Spec == Init /\ [][Next]_vars

\* A handler that is not dropped is scheduled; provider calls end by timeout_ms.
FairSpec == Spec /\ \A r \in Request : WF_vars(Step(r))

-----------------------------------------------------------------------------

\* The tables are written as RequestLedger says, under any interleaving, drop,
\* crash or failed write.
Ledger == INSTANCE RequestLedger
LedgerSpec == Ledger!Spec

\* The breakers are used as CircuitBreaker says: nothing is called without a
\* check, every retry, failover and drop is one of its callers' moves.
Breakers == INSTANCE CircuitBreaker WITH
  Caller <- Request,
  flight <- [r \in Request |-> IF pc[r] = "call" THEN Current(r) ELSE Idle]
BreakerSpec == Breakers!Spec

\* What the client was told is what the database says, unless a write failed:
\* 200 means completed, metered and billed once, an error means failed and
\* neither metered nor billed.
AnswerMatchesLedger ==
  \A r \in Request : ~fault[r] =>
    /\ reply[r] = "ok" => row[r] = "completed" /\ usage[r] = 1 /\ cost[r] = 1
    /\ reply[r] = "error" => row[r] = "failed" /\ usage[r] = 0 /\ cost[r] = 0
    /\ reply[r] = "refused" => row[r] = "none"

\* The budget is read long before the cost is written, so concurrent requests
\* pass it together; the overshoot is never more than the other requests that
\* were past the check and not yet billed at one time.
OvershootBounded ==
  Budget > 0 => (peak = 0 \/ Spent + 1 <= Budget + peak)

\* An accepted request reaches a terminal status unless its handler was dropped
\* or its write failed: the loops over candidates and attempts come to an end.
AcceptedSettles ==
  \A r \in Request :
    (row[r] = "accepted") ~>
      (row[r] \in {"completed", "failed"} \/ pc[r] \in {"gone", "dead"} \/ fault[r])

=============================================================================
