------------------------- MODULE ChatPipelineProofs -------------------------
(***************************************************************************)
(* ChatPipeline implements RequestLedger and CircuitBreaker, and           *)
(* AnswerMatchesLedger and OvershootBounded hold of it, for any requests,  *)
(* targets, routes, attempts, errors and budget.                           *)
(***************************************************************************)
EXTENDS ChatPipeline, FiniteSetTheorems, TLAPS

Asked == {"new", "passed"}
Trying == {"walk", "call", "finish_ok", "finish_err"}
Over == {"done", "gone", "dead"}
Places == Asked \union Trying \union Over \union {"usage", "cost", "audit_ok", "audit_err"}

Tables ==
  /\ pc \in [Request -> Places]
  /\ row \in [Request -> {"none", "accepted", "completed", "failed"}]
  /\ usage \in [Request -> Nat]
  /\ cost \in [Request -> Nat]
  /\ reply \in [Request -> {"none", "ok", "error", "refused"}]
  /\ fault \in [Request -> BOOLEAN]

\* What a handler may have written by the place it is at.
WrittenSoFar(r) ==
  /\ pc[r] \in Asked => row[r] = "none"
  /\ pc[r] \in Trying => row[r] = "accepted"
  /\ pc[r] \in {"usage", "cost"} => row[r] \in {"accepted", "completed"}
  /\ pc[r] \notin Over \union {"cost", "audit_ok"} => usage[r] = 0
  /\ pc[r] \notin Over \union {"audit_ok"} => cost[r] = 0
  /\ pc[r] # "done" => reply[r] = "none"

\* What it has written when no write failed.
WrittenWithoutFault(r) == ~fault[r] =>
  /\ pc[r] \in {"usage", "cost", "audit_ok"} => row[r] = "completed"
  /\ pc[r] \in {"cost", "audit_ok"} => usage[r] = 1
  /\ pc[r] = "audit_ok" => cost[r] = 1
  /\ pc[r] = "audit_err" => row[r] = "failed"

\* What it has told its client.
Answered(r) == ~fault[r] =>
  /\ reply[r] = "ok" => row[r] = "completed" /\ usage[r] = 1 /\ cost[r] = 1
  /\ reply[r] = "error" => row[r] = "failed" /\ usage[r] = 0 /\ cost[r] = 0
  /\ reply[r] = "refused" => row[r] = "none"

Consistent(r) == WrittenSoFar(r) /\ WrittenWithoutFault(r) /\ Answered(r)

IInv == Tables /\ \A r \in Request : Consistent(r)

-----------------------------------------------------------------------------

\* A request that has not been seen has written nothing.
LEMMA InitInvariant == Init => IInv
  BY DEF Init, IInv, Tables, Places, Asked, Trying, Over, Consistent, WrittenSoFar,
         WrittenWithoutFault, Answered

\* Steps of the candidate loop move a handler among the places where its row is
\* accepted and nothing else is written.
Tries(r) ==
  Admit(r) \/ Skip(r) \/ Exhausted(r) \/ NoAdapter(r) \/ CallOk(r) \/ CallErr(r)

LEMMA TriesMove ==
  ASSUME IInv, NEW r \in Request, Tries(r)
  PROVE  /\ pc[r] \in {"walk", "call"} /\ UNCHANGED <<row, usage, cost, reply, fault>>
         /\ \E place \in Trying : pc' = [pc EXCEPT ![r] = place]
<1>1. pc \in [Request -> Places]
  BY DEF IInv, Tables
<1>2. ASSUME CallErr(r) PROVE \E place \in Trying : pc' = [pc EXCEPT ![r] = place]
  <2>1. CASE UNCHANGED pc
    <3>1. pc[r] = "call" /\ pc' = [pc EXCEPT ![r] = "call"]
      BY <1>1, <1>2, <2>1 DEF CallErr
    <3> QED BY <3>1 DEF Trying
  <2>2. CASE pc' = [pc EXCEPT ![r] = "walk"]
    BY <2>2 DEF Trying
  <2> QED BY <1>2, <2>1, <2>2 DEF CallErr, GiveUp
<1> QED BY <1>2 DEF Tries, Admit, Skip, Exhausted, NoAdapter, CallOk, CallErr, GiveUp, Goto,
                    ledger, Trying

\* A step of one handler that leaves the other requests' rows alone.
LEMMA OneHandler ==
  ASSUME IInv, NEW r \in Request, Tables',
         \A q \in Request \ {r} :
           /\ pc'[q] = pc[q] /\ row'[q] = row[q] /\ usage'[q] = usage[q]
           /\ cost'[q] = cost[q] /\ reply'[q] = reply[q] /\ fault'[q] = fault[q],
         Consistent(r)'
  PROVE  IInv'
  BY DEF IInv, Consistent, WrittenSoFar, WrittenWithoutFault, Answered

\* Every step of a handler keeps what it has written in line with its place.
LEMMA HandlerInvariant == ASSUME IInv, NEW r \in Request, Step(r) \/ Disconnect(r) PROVE IInv'
<1> USE DEF Tables, Consistent, WrittenSoFar, WrittenWithoutFault, Answered,
            Places, Asked, Trying, Over, Goto, Refuse, ledger
<1>0. Tables /\ Consistent(r)
  BY DEF IInv
<1>1. CASE Tries(r)
  <2>1. PICK place \in Trying : pc' = [pc EXCEPT ![r] = place]
    BY <1>1, TriesMove
  <2>2. pc[r] \in {"walk", "call"} /\ UNCHANGED <<row, usage, cost, reply, fault>>
    BY <1>1, TriesMove
  <2>3. Tables' /\ Consistent(r)'
    BY <1>0, <2>1, <2>2
  <2> QED BY <1>0, <2>1, <2>2, <2>3, OneHandler
<1>2. CASE CheckBudget(r)
  <2>1. Tables' /\ Consistent(r)'
    BY <1>0, <1>2 DEF CheckBudget
  <2> QED BY <1>0, <1>2, <2>1, OneHandler DEF CheckBudget
<1>3. CASE RefuseRoute(r)
  <2>1. Tables' /\ Consistent(r)'
    BY <1>0, <1>3 DEF RefuseRoute
  <2> QED BY <1>0, <1>3, <2>1, OneHandler DEF RefuseRoute
<1>4. CASE CreateRow(r)
  <2>1. Tables' /\ Consistent(r)'
    BY <1>0, <1>4 DEF CreateRow
  <2> QED BY <1>0, <1>4, <2>1, OneHandler DEF CreateRow
<1>5. CASE CreateRowUnread(r)
  <2>1. Tables' /\ Consistent(r)'
    BY <1>0, <1>5 DEF CreateRowUnread
  <2> QED BY <1>0, <1>5, <2>1, OneHandler DEF CreateRowUnread
<1>6. CASE FinishCompleted(r)
  <2>1. Tables' /\ Consistent(r)'
    BY <1>0, <1>6 DEF FinishCompleted, FinishRow, Write, Finished
  <2> QED BY <1>0, <1>6, <2>1, OneHandler DEF FinishCompleted, FinishRow, Write, Finished
<1>7. CASE FinishFailed(r)
  <2>1. Tables' /\ Consistent(r)'
    BY <1>0, <1>7 DEF FinishFailed, FinishRow, Write, Finished
  <2> QED BY <1>0, <1>7, <2>1, OneHandler DEF FinishFailed, FinishRow, Write, Finished
<1>8. CASE InsertUsage(r)
  <2>1. CASE usage' = [usage EXCEPT ![r] = @ + 1] /\ UNCHANGED fault
    <3>1. Tables'
      BY <1>0, <1>8, <2>1 DEF InsertUsage
    <3>2. usage[r] = 0 /\ usage'[r] = 1
      BY <1>0, <1>8, <2>1 DEF InsertUsage
    <3>3. Consistent(r)'
      BY <1>0, <1>8, <2>1, <3>2 DEF InsertUsage
    <3> QED BY <1>0, <1>8, <2>1, <3>1, <3>3, OneHandler DEF InsertUsage
  <2>2. CASE UNCHANGED usage /\ fault' = [fault EXCEPT ![r] = TRUE]
    <3>1. Tables' /\ Consistent(r)'
      BY <1>0, <1>8, <2>2 DEF InsertUsage
    <3> QED BY <1>0, <1>8, <2>2, <3>1, OneHandler DEF InsertUsage
  <2> QED BY <1>8, <2>1, <2>2 DEF InsertUsage, Write
<1>9. CASE InsertCost(r)
  <2>1. CASE Billed(r) /\ UNCHANGED fault
    <3>1. Tables'
      BY <1>0, <1>9, <2>1 DEF InsertCost, Billed
    <3>2. cost[r] = 0 /\ cost'[r] = 1
      BY <1>0, <1>9, <2>1 DEF InsertCost, Billed
    <3>3. Consistent(r)'
      BY <1>0, <1>9, <2>1, <3>2 DEF InsertCost, Billed
    <3> QED BY <1>0, <1>9, <2>1, <3>1, <3>3, OneHandler DEF InsertCost, Billed
  <2>2. CASE UNCHANGED cost /\ Goto(r, "audit_ok") /\ fault' = [fault EXCEPT ![r] = TRUE]
    <3>1. Tables' /\ Consistent(r)'
      BY <1>0, <1>9, <2>2 DEF InsertCost
    <3> QED BY <1>0, <1>9, <2>2, <3>1, OneHandler DEF InsertCost
  <2> QED BY <1>9, <2>1, <2>2 DEF InsertCost, Write
<1>10. CASE Answer(r)
  <2>1. Tables' /\ Consistent(r)'
    BY <1>0, <1>10 DEF Answer
  <2> QED BY <1>0, <1>10, <2>1, OneHandler DEF Answer
<1>11. CASE Disconnect(r)
  <2>1. Tables' /\ Consistent(r)'
    BY <1>0, <1>11 DEF Disconnect, Running
  <2> QED BY <1>0, <1>11, <2>1, OneHandler DEF Disconnect
<1> QED BY <1>1, <1>2, <1>3, <1>4, <1>5, <1>6, <1>7, <1>8, <1>9, <1>10, <1>11 DEF Step, Tries

\* A crash stops handlers where they are.
LEMMA CrashInvariant == IInv /\ Crash => IInv'
<1> SUFFICES ASSUME IInv, Crash PROVE IInv'
  OBVIOUS
<1>1. /\ UNCHANGED <<row, usage, cost, reply, fault>>
      /\ pc' = [r \in Request |-> IF Running(r) /\ pc[r] # "new" THEN "dead" ELSE pc[r]]
  BY DEF Crash, ledger
<1>2. Tables'
  BY <1>1 DEF IInv, Tables, Places, Over
<1>3. ASSUME NEW r \in Request PROVE Consistent(r)'
  <2>1. pc'[r] = pc[r] \/ (pc'[r] = "dead" /\ pc[r] # "done")
    BY <1>1 DEF Running
  <2>2. Consistent(r)
    BY DEF IInv
  <2> QED BY <1>1, <2>1, <2>2 DEF Consistent, WrittenSoFar, WrittenWithoutFault, Answered,
                                  Asked, Trying, Over
<1> QED BY <1>2, <1>3 DEF IInv

\* Every step keeps the invariant.
LEMMA StepInvariant == IInv /\ [Next]_vars => IInv'
<1> SUFFICES ASSUME IInv, [Next]_vars PROVE IInv'
  OBVIOUS
<1>1. CASE Tick \/ UNCHANGED vars
  BY <1>1 DEF Tick, vars, ledger, IInv, Tables, Consistent, WrittenSoFar,
              WrittenWithoutFault, Answered
<1> QED BY <1>1, HandlerInvariant, CrashInvariant DEF Next

-----------------------------------------------------------------------------

\* The tables start empty, as the ledger does.
LEMMA InitMapped == Init => Ledger!Init
  BY DEF Init, Ledger!Init

\* A step of a handler is the ledger's step of that name, or writes nothing.
LEMMA StepMapped == IInv /\ [Next]_vars => [Ledger!Next]_(Ledger!vars)
<1> SUFFICES ASSUME IInv, [Next]_vars PROVE [Ledger!Next]_(Ledger!vars)
  OBVIOUS
<1> USE DEF Ledger!vars, ledger
<1>1. CASE UNCHANGED vars \/ Tick \/ Crash
  BY <1>1 DEF vars, Tick, Crash
<1>2. ASSUME NEW r \in Request,
             Tries(r) \/ CheckBudget(r) \/ RefuseRoute(r) \/ Answer(r) \/ Disconnect(r)
      PROVE  UNCHANGED <<row, usage, cost>>
  BY <1>2 DEF Tries, Admit, Skip, Exhausted, NoAdapter, CallOk, CallErr,
              CheckBudget, RefuseRoute, Answer, Disconnect
<1>3. ASSUME NEW r \in Request, CreateRow(r) \/ CreateRowUnread(r) PROVE Ledger!Accept(r)
  BY <1>3 DEF CreateRow, CreateRowUnread, IInv, Consistent, WrittenSoFar, Asked, Ledger!Accept
<1>4. ASSUME NEW r \in Request, FinishCompleted(r)
      PROVE  Ledger!Finish(r, "completed") \/ UNCHANGED <<row, usage, cost>>
  BY <1>4 DEF FinishCompleted, FinishRow, Write, Finished, IInv, Consistent, WrittenSoFar,
              Trying, Over, Ledger!Finish
<1>5. ASSUME NEW r \in Request, FinishFailed(r)
      PROVE  Ledger!Finish(r, "failed") \/ UNCHANGED <<row, usage, cost>>
  BY <1>5 DEF FinishFailed, FinishRow, Write, Finished, IInv, Consistent, WrittenSoFar,
              Trying, Over, Ledger!Finish
<1>6. ASSUME NEW r \in Request, InsertUsage(r)
      PROVE  Ledger!InsertUsage(r) \/ UNCHANGED <<row, usage, cost>>
  BY <1>6 DEF InsertUsage, Write, IInv, Consistent, WrittenSoFar, Over, Ledger!InsertUsage
<1>7. ASSUME NEW r \in Request, InsertCost(r)
      PROVE  Ledger!InsertCost(r) \/ UNCHANGED <<row, usage, cost>>
  BY <1>7 DEF InsertCost, Write, Billed, IInv, Consistent, WrittenSoFar, Over, Ledger!InsertCost
<1>8. {"completed", "failed"} \subseteq Ledger!Terminal
  BY DEF Ledger!Terminal
<1> QED BY <1>1, <1>2, <1>3, <1>4, <1>5, <1>6, <1>7, <1>8 DEF Next, Step, Tries, Ledger!Next

\* Non-streaming chats write the tables as the ledger says, under any
\* interleaving, drop, crash or failed write.
THEOREM ChatsImplementLedger == Spec => LedgerSpec
<1> QED BY InitInvariant, StepInvariant, InitMapped, StepMapped, PTL
        DEF Spec, LedgerSpec, Ledger!Spec

\* What a client was told is what the tables say, unless a write failed.
THEOREM AnswersMatchLedger == Spec => []AnswerMatchesLedger
<1>1. IInv => AnswerMatchesLedger
  BY DEF IInv, Consistent, Answered, AnswerMatchesLedger
<1> QED BY <1>1, InitInvariant, StepInvariant, PTL DEF Spec

-----------------------------------------------------------------------------
(* The breakers.                                                           *)

\* The loop has a candidate while it calls, and calls left only then.
LoopInv ==
  /\ todo \in [Request -> Seq(Target)]
  /\ left \in [Request -> 0 .. MaxAttempts]
  /\ \A r \in Request :
       /\ pc[r] = "call" => todo[r] # <<>>
       /\ pc[r] # "call" => left[r] = 0

\* What the module maps to the breaker's callers in flight.
Flight == [r \in Request |-> IF pc[r] = "call" THEN Current(r) ELSE Idle]

\* Before the first candidate nothing is called.
LEMMA LoopInit == Init => LoopInv
  BY PipelineAssumption DEF Init, LoopInv

\* The head of a route is a target, and its tail a route.
LEMMA RouteFacts ==
  ASSUME NEW s \in Seq(Target), s # <<>> PROVE Head(s) \in Target /\ Tail(s) \in Seq(Target)
  OBVIOUS

\* Leaving a candidate ends the calls to it.
LEMMA GiveUpKeeps ==
  ASSUME IInv, LoopInv, NEW r \in Request, todo[r] # <<>>, GiveUp(r) PROVE LoopInv'
<1>1. todo[r] \in Seq(Target) /\ Tail(todo[r]) \in Seq(Target)
  BY RouteFacts DEF LoopInv
<1>2. pc \in [Request -> Places]
  BY DEF IInv, Tables
<1>3. /\ todo' \in [Request -> Seq(Target)]
      /\ left' \in [Request -> 0 .. MaxAttempts]
  BY <1>1, PipelineAssumption DEF GiveUp, LoopInv
<1>4. ASSUME NEW q \in Request
      PROVE  (pc'[q] = "call" => todo'[q] # <<>>) /\ (pc'[q] # "call" => left'[q] = 0)
  BY <1>2 DEF GiveUp, LoopInv
<1> QED BY <1>3, <1>4 DEF LoopInv

\* Every step keeps the loop in order.
LEMMA LoopStep == IInv /\ LoopInv /\ [Next]_vars => LoopInv'
<1> SUFFICES ASSUME IInv, LoopInv, [Next]_vars PROVE LoopInv'
  OBVIOUS
<1>1. pc \in [Request -> Places]
  BY DEF IInv, Tables
<1>2. ASSUME NEW r \in Request, CheckBudget(r) \/ RefuseRoute(r) \/ CreateRowUnread(r)
             \/ FinishCompleted(r) \/ FinishFailed(r) \/ InsertUsage(r) \/ InsertCost(r)
             \/ Answer(r) \/ Exhausted(r)
      PROVE  LoopInv'
  <2>1. /\ UNCHANGED <<todo, left>> /\ pc[r] # "call"
        /\ \E place \in {"done", "passed", "usage", "audit_err", "cost", "audit_ok", "finish_err"} :
             pc' = [pc EXCEPT ![r] = place]
    BY <1>2 DEF CheckBudget, RefuseRoute, CreateRowUnread, FinishCompleted, FinishFailed,
                FinishRow, InsertUsage, InsertCost, Write, Billed, Answer, Exhausted, Goto, Refuse
  <2> QED BY <1>1, <2>1 DEF LoopInv
<1>3. ASSUME NEW r \in Request, CreateRow(r) PROVE LoopInv'
  <2>1. PICK route \in Routes : todo' = [todo EXCEPT ![r] = route]
    BY <1>3 DEF CreateRow
  <2>2. route \in Seq(Target)
    BY PipelineAssumption
  <2> QED BY <1>1, <1>3, <2>1, <2>2 DEF CreateRow, Goto, LoopInv
<1>4. ASSUME NEW r \in Request, Admit(r) PROVE LoopInv'
  <2>1. PICK n \in Attempts : left' = [left EXCEPT ![r] = n]
    BY <1>4 DEF Admit
  <2>2. n \in 0 .. MaxAttempts
    BY PipelineAssumption
  <2> QED BY <1>1, <1>4, <2>1, <2>2 DEF Admit, Goto, LoopInv
<1>5. ASSUME NEW r \in Request, Skip(r) \/ NoAdapter(r) PROVE LoopInv'
  BY <1>5, GiveUpKeeps DEF Skip, NoAdapter, LoopInv
<1>6. ASSUME NEW r \in Request, CallErr(r) PROVE LoopInv'
  <2>1. CASE GiveUp(r)
    BY <1>6, <2>1, GiveUpKeeps DEF CallErr, LoopInv
  <2>2. CASE left[r] > 1 /\ left' = [left EXCEPT ![r] = @ - 1] /\ UNCHANGED <<pc, todo>>
    <3>1. left' \in [Request -> 0 .. MaxAttempts]
      BY <2>2, PipelineAssumption DEF LoopInv
    <3> QED BY <1>6, <2>2, <3>1 DEF CallErr, LoopInv
  <2> QED BY <1>6, <2>1, <2>2 DEF CallErr, Retries
<1>7. ASSUME NEW r \in Request, CallOk(r) \/ Disconnect(r) PROVE LoopInv'
  <2>1. /\ UNCHANGED todo /\ left' = [left EXCEPT ![r] = 0]
        /\ \E place \in {"finish_ok", "gone"} : pc' = [pc EXCEPT ![r] = place]
    BY <1>7 DEF CallOk, Disconnect, Goto
  <2>2. left' \in [Request -> 0 .. MaxAttempts]
    BY <2>1, PipelineAssumption DEF LoopInv
  <2> QED BY <1>1, <2>1, <2>2 DEF LoopInv
<1>8. CASE Crash
  <2>1. left' \in [Request -> 0 .. MaxAttempts]
    BY <1>8, PipelineAssumption DEF Crash
  <2> QED BY <1>8, <2>1 DEF Crash, Running, LoopInv
<1>9. CASE Tick \/ UNCHANGED vars
  BY <1>9 DEF Tick, vars, LoopInv
<1> QED BY <1>2, <1>3, <1>4, <1>5, <1>6, <1>7, <1>8, <1>9 DEF Next, Step

\* A handler that is calling is in flight to a target, any other is idle.
LEMMA FlightFacts ==
  ASSUME IInv, LoopInv, NEW r \in Request
  PROVE  IF pc[r] = "call" THEN Flight[r] = Current(r) /\ Current(r) \in Target /\ Flight[r] # Idle
         ELSE Flight[r] = Idle /\ left[r] = 0
<1>1. pc[r] = "call" => Current(r) \in Target
  BY RouteFacts DEF LoopInv, Current
<1> QED BY <1>1, PipelineAssumption DEF Flight, LoopInv

\* A handler that stops calling is no longer in flight, the others are as before.
LEMMA FlightLeaves ==
  ASSUME IInv, NEW r \in Request, NEW place, place # "call",
         pc' = [pc EXCEPT ![r] = place], \A q \in Request \ {r} : todo'[q] = todo[q]
  PROVE  Flight' = [Flight EXCEPT ![r] = Idle]
<1>1. pc \in [Request -> Places]
  BY DEF IInv, Tables
<1> QED BY <1>1 DEF Flight, Current

\* The pipeline and the protocol mean the same breaker.
LEMMA SameBreaker ==
  ASSUME NEW b
  PROVE  /\ Breakers!NewBreaker = NewBreaker /\ (Breakers!Admits(b) <=> Admits(b))
         /\ Breakers!AfterCheck(b) = AfterCheck(b) /\ Breakers!AfterSuccess(b) = AfterSuccess(b)
         /\ Breakers!AfterFailure(b) = AfterFailure(b) /\ Breakers!AfterTick(b) = AfterTick(b)
  BY DEF NewBreaker, Admits, AfterCheck, AfterSuccess, AfterFailure, AfterTick,
         Breakers!NewBreaker, Breakers!Admits, Breakers!AfterCheck, Breakers!AfterSuccess,
         Breakers!AfterFailure, Breakers!AfterTick

\* Every step of a handler is one of a breaker's caller, or none.
LEMMA HandlerCalls ==
  ASSUME IInv, LoopInv, NEW r \in Request, Step(r) \/ Disconnect(r)
  PROVE  Breakers!Next \/ UNCHANGED <<breaker, Flight, left>>
<1> USE DEF Breakers!Leave
<1>1. pc \in [Request -> Places] /\ left \in [Request -> 0 .. MaxAttempts]
      /\ todo \in [Request -> Seq(Target)]
  BY DEF IInv, Tables, LoopInv
<1>2. CASE Admit(r)
  <2>1. PICK n \in Attempts : left' = [left EXCEPT ![r] = n]
    BY <1>2 DEF Admit
  <2>2. n \in 1 .. MaxAttempts /\ Current(r) \in Target
    BY <1>1, <1>2, RouteFacts, PipelineAssumption DEF Admit, Current
  <2>3. Flight' = [Flight EXCEPT ![r] = Current(r)]
    BY <1>1, <1>2 DEF Admit, Goto, Flight, Current
  <2>4. Flight[r] = Idle
    BY <1>2 DEF Flight, Admit
  <2>5. Breakers!Admit(r, Current(r), n)
    BY <1>2, <2>1, <2>3, <2>4, SameBreaker DEF Admit, Breakers!Admit, Flight
  <2> QED BY <2>2, <2>5 DEF Breakers!Next
<1>3. CASE CallOk(r)
  <2>1. Flight' = [Flight EXCEPT ![r] = Idle]
    BY <1>3, FlightLeaves DEF CallOk, Goto
  <2>2. Flight[r] = Current(r) /\ Flight[r] # Idle
    BY <1>3, FlightFacts DEF CallOk
  <2>3. Breakers!RecordSuccess(r)
    BY <1>3, <2>1, <2>2, SameBreaker DEF CallOk, Breakers!RecordSuccess, Flight
  <2> QED BY <2>3 DEF Breakers!Next
<1>4. CASE CallErr(r)
  <2>1. Flight[r] = Current(r) /\ Flight[r] # Idle
    BY <1>4, FlightFacts DEF CallErr
  <2>2. CASE GiveUp(r)
    <3>1. Flight' = [Flight EXCEPT ![r] = Idle]
      BY <1>1, <2>2, FlightLeaves DEF GiveUp
    <3>2. Breakers!RecordFailureAndLeave(r)
      BY <1>4, <2>1, <2>2, <3>1, SameBreaker DEF CallErr, GiveUp, Breakers!RecordFailureAndLeave, Flight
    <3> QED BY <3>2 DEF Breakers!Next
  <2>3. CASE left[r] > 1 /\ left' = [left EXCEPT ![r] = @ - 1] /\ UNCHANGED <<pc, todo>>
    <3>1. Flight' = Flight
      BY <2>3 DEF Flight, Current
    <3>2. Breakers!RecordFailureAndRetry(r)
      BY <1>4, <2>1, <2>3, <3>1, SameBreaker DEF CallErr, Breakers!RecordFailureAndRetry, Flight
    <3> QED BY <3>2 DEF Breakers!Next
  <2> QED BY <1>4, <2>2, <2>3 DEF CallErr, Retries
<1>5. CASE NoAdapter(r)
  <2>1. Flight' = [Flight EXCEPT ![r] = Idle]
    BY <1>1, <1>5, FlightLeaves DEF NoAdapter, GiveUp
  <2>2. Flight[r] # Idle
    BY <1>5, FlightFacts DEF NoAdapter
  <2>3. Breakers!Abandon(r)
    BY <1>5, <2>1, <2>2 DEF NoAdapter, GiveUp, Breakers!Abandon, Flight
  <2> QED BY <2>3 DEF Breakers!Next
<1>6. CASE Disconnect(r)
  <2>1. Flight' = [Flight EXCEPT ![r] = Idle]
    BY <1>6, FlightLeaves DEF Disconnect, Goto
  <2>2. CASE pc[r] = "call"
    <3>1. Flight[r] # Idle
      BY <2>2, FlightFacts
    <3>2. Breakers!Abandon(r)
      BY <1>6, <2>1, <3>1 DEF Disconnect, Breakers!Abandon, Flight
    <3> QED BY <3>2 DEF Breakers!Next
  <2>3. CASE pc[r] # "call"
    <3>1. Flight[r] = Idle /\ left[r] = 0
      BY <2>3, FlightFacts
    <3>2. Flight' = Flight
      BY <2>1, <3>1 DEF Flight
    <3>3. left' = left
      BY <1>1, <1>6, <3>1 DEF Disconnect
    <3> QED BY <1>6, <3>2, <3>3 DEF Disconnect
  <2> QED BY <2>2, <2>3
<1>7. CASE Skip(r)
  <2>1. Flight' = [Flight EXCEPT ![r] = Idle]
    BY <1>1, <1>7, FlightLeaves DEF Skip, GiveUp
  <2>2. Flight[r] = Idle /\ left[r] = 0
    BY <1>7, FlightFacts DEF Skip
  <2>3. Flight' = Flight /\ left' = left
    BY <1>1, <1>7, <2>1, <2>2 DEF Skip, GiveUp, Flight
  <2> QED BY <1>7, <2>3 DEF Skip
<1>8. CASE CreateRow(r)
  <2>1. Flight' = [Flight EXCEPT ![r] = Idle] /\ Flight[r] = Idle
    BY <1>1, <1>8, FlightLeaves DEF CreateRow, Goto, Flight
  <2>2. Flight' = Flight
    BY <2>1 DEF Flight
  <2> QED BY <1>8, <2>2 DEF CreateRow
<1>9. CASE CheckBudget(r) \/ RefuseRoute(r) \/ CreateRowUnread(r)
           \/ FinishCompleted(r) \/ FinishFailed(r) \/ InsertUsage(r) \/ InsertCost(r)
           \/ Answer(r) \/ Exhausted(r)
  <2>1. /\ UNCHANGED <<todo, left, breaker>> /\ pc[r] # "call"
        /\ \E place \in {"done", "passed", "usage", "audit_err", "cost", "audit_ok", "finish_err"} :
             pc' = [pc EXCEPT ![r] = place]
    BY <1>9 DEF CheckBudget, RefuseRoute, CreateRowUnread, FinishCompleted, FinishFailed,
                FinishRow, InsertUsage, InsertCost, Write, Billed, Answer, Exhausted, Goto, Refuse
  <2>2. Flight' = Flight
    BY <1>1, <2>1 DEF Flight, Current
  <2> QED BY <2>1, <2>2
<1> QED BY <1>2, <1>3, <1>4, <1>5, <1>6, <1>7, <1>8, <1>9 DEF Step

\* A crash restarts the breakers, time passes for them.
LEMMA BreakerMapped ==
  IInv /\ LoopInv /\ [Next]_vars => [Breakers!Next]_(Breakers!vars)
<1> SUFFICES ASSUME IInv, LoopInv, [Next]_vars PROVE [Breakers!Next]_(Breakers!vars)
  OBVIOUS
<1>1. ASSUME NEW r \in Request, Step(r) \/ Disconnect(r)
      PROVE  [Breakers!Next]_(Breakers!vars)
  BY <1>1, HandlerCalls DEF Breakers!vars, Flight
<1>2. CASE Crash
  <2>1. Flight' = [r \in Request |-> Idle]
    BY <1>2 DEF Crash, Running, Flight
  <2>2. Breakers!Restart
    BY <1>2, <2>1, SameBreaker DEF Crash, Breakers!Restart, Flight
  <2> QED BY <2>2 DEF Breakers!Next
<1>3. CASE Tick
  <2>1. Breakers!Tick
    BY <1>3, SameBreaker DEF Tick, Breakers!Tick, Current
  <2> QED BY <2>1 DEF Breakers!Next
<1>4. CASE UNCHANGED vars
  BY <1>4 DEF vars, Breakers!vars, Current
<1> QED BY <1>1, <1>2, <1>3, <1>4 DEF Next

\* No chat calls a target without a check, and every attempt, failover, drop and
\* crash is a move of the breakers' protocol.
THEOREM ChatsKeepToBreakers == Spec => BreakerSpec
<1>1. Init => Breakers!Init
  BY SameBreaker DEF Init, Breakers!Init
<1> QED BY <1>1, InitInvariant, StepInvariant, LoopInit, LoopStep, BreakerMapped, PTL
        DEF Spec, BreakerSpec, Breakers!Spec

-----------------------------------------------------------------------------
(* The budget.                                                             *)

Held == {"passed", "walk", "call", "finish_ok", "usage", "cost"}

\* The requests that are past the check and not billed, those that are billed
\* and those that have been seen at all.
Holding(where) == {r \in Request : where[r] \in Held}
Paid(costs) == {r \in Request : costs[r] > 0}
Seen(where) == {r \in Request : where[r] # "new"}

\* Spent alone is not inductive: a request that is past the check will be
\* billed, so it is counted from the check on.
Overshoot ==
  /\ IsFiniteSet(Seen(pc))
  /\ \A r \in Request : cost[r] > 0 => pc[r] # "new"
  /\ peak \in Nat
  /\ Unbilled(pc) <= peak
  /\ Budget > 0 => peak = 0 \/ Spent + Unbilled(pc) + 1 <= Budget + peak

\* The counts are those of finite sets.
LEMMA Counted ==
  ASSUME Overshoot
  PROVE  /\ IsFiniteSet(Holding(pc)) /\ IsFiniteSet(Paid(cost))
         /\ Unbilled(pc) = Cardinality(Holding(pc)) /\ Spent = Cardinality(Paid(cost))
         /\ Unbilled(pc) \in Nat /\ Spent \in Nat
<1>1. Holding(pc) \in SUBSET Seen(pc) /\ Paid(cost) \in SUBSET Seen(pc)
  BY DEF Overshoot, Holding, Paid, Seen, Held
<1>2. IsFiniteSet(Holding(pc)) /\ IsFiniteSet(Paid(cost))
  BY <1>1, FS_Subset DEF Overshoot
<1>3. Unbilled(pc) = Cardinality(Holding(pc)) /\ Spent = Cardinality(Paid(cost))
  BY DEF Unbilled, Holding, Held, Spent, Paid
<1> QED BY <1>2, <1>3, FS_CardinalityType

\* Before the first request nothing is held or billed.
LEMMA OvershootInit == Init => Overshoot
<1> SUFFICES ASSUME Init PROVE Overshoot
  OBVIOUS
<1>1. Seen(pc) = {} /\ Holding(pc) = {} /\ Paid(cost) = {} /\ peak = 0
  BY DEF Init, Seen, Holding, Paid, Held
<1>2. Unbilled(pc) = Cardinality(Holding(pc))
  BY DEF Unbilled, Holding, Held
<1>3. \A r \in Request : cost[r] = 0
  BY DEF Init
<1> QED BY <1>1, <1>2, <1>3, FS_EmptySet DEF Overshoot

\* A step that bills nobody and lets nobody past the check.
LEMMA QuietSteps ==
  ASSUME Overshoot, UNCHANGED <<cost, peak>>, Holding(pc') \subseteq Holding(pc),
         IsFiniteSet(Seen(pc')), Seen(pc) \subseteq Seen(pc')
  PROVE  Overshoot'
<1>1. /\ IsFiniteSet(Holding(pc)) /\ Unbilled(pc) = Cardinality(Holding(pc))
      /\ Unbilled(pc) \in Nat /\ Spent \in Nat
  BY Counted
<1>2. Unbilled(pc') = Cardinality(Holding(pc')) /\ Spent' = Spent
  BY DEF Unbilled, Holding, Held, Spent
<1>3. Unbilled(pc') \in Nat /\ Unbilled(pc') <= Unbilled(pc)
  <2>1. Holding(pc') \in SUBSET Holding(pc)
    OBVIOUS
  <2>2. IsFiniteSet(Holding(pc')) /\ Cardinality(Holding(pc')) <= Cardinality(Holding(pc))
    BY <1>1, <2>1, FS_Subset
  <2>3. Cardinality(Holding(pc')) \in Nat
    BY <2>2, FS_CardinalityType
  <2> QED BY <1>1, <1>2, <2>2, <2>3
<1>4. \A r \in Request : cost[r] > 0 => pc'[r] # "new"
  BY DEF Overshoot, Seen
<1>5. Unbilled(pc') <= peak /\ peak \in Nat
  BY <1>1, <1>3 DEF Overshoot
<1>6. Budget > 0 => peak = 0 \/ Spent + Unbilled(pc') + 1 <= Budget + peak
  BY <1>1, <1>3, PipelineAssumption DEF Overshoot
<1> QED BY <1>2, <1>4, <1>5, <1>6 DEF Overshoot

\* A handler that goes on without passing the check.
LEMMA MovesQuietly ==
  ASSUME IInv, Overshoot, NEW r \in Request, NEW place, pc' = [pc EXCEPT ![r] = place],
         place # "new", place \in Held => pc[r] \in Held, UNCHANGED <<cost, peak>>
  PROVE  Overshoot'
<1>1. pc \in [Request -> Places]
  BY DEF IInv, Tables
<1>2. Holding(pc') \subseteq Holding(pc) /\ Seen(pc') = Seen(pc) \union {r}
  BY <1>1 DEF Holding, Seen
<1>3. IsFiniteSet(Seen(pc'))
  BY <1>2, FS_AddElement DEF Overshoot
<1> QED BY <1>2, <1>3, QuietSteps

\* Passing the check takes a place below the budget.
LEMMA PassKeeps ==
  ASSUME IInv, Overshoot, NEW r \in Request, CheckBudget(r), ~BudgetSpent
  PROVE  Overshoot'
<1>1. pc \in [Request -> Places]
  BY DEF IInv, Tables
<1>2. /\ pc[r] = "new" /\ pc' = [pc EXCEPT ![r] = "passed"] /\ UNCHANGED cost
      /\ peak' = IF Unbilled(pc) + 1 > peak THEN Unbilled(pc) + 1 ELSE peak
  BY DEF CheckBudget, Goto, ledger
<1>3. /\ Holding(pc') = Holding(pc) \union {r} /\ r \notin Holding(pc)
      /\ Seen(pc') = Seen(pc) \union {r}
  BY <1>1, <1>2 DEF Holding, Seen, Held
<1>4. /\ IsFiniteSet(Holding(pc)) /\ Unbilled(pc) = Cardinality(Holding(pc))
      /\ Unbilled(pc) \in Nat /\ Spent \in Nat
  BY Counted
<1>5. Unbilled(pc') = Unbilled(pc) + 1
  <2>1. Unbilled(pc') = Cardinality(Holding(pc) \union {r})
    BY <1>3 DEF Unbilled, Holding, Held
  <2>2. Cardinality(Holding(pc) \union {r}) = Unbilled(pc) + 1
    BY <1>3, <1>4, FS_AddElement
  <2> QED BY <2>1, <2>2
<1>6. peak' \in Nat /\ Unbilled(pc') <= peak'
  BY <1>2, <1>4, <1>5 DEF Overshoot
<1>7. Budget > 0 => Spent + 1 <= Budget
  BY <1>4, PipelineAssumption DEF BudgetSpent
<1>8. Budget > 0 => Spent' + Unbilled(pc') + 1 <= Budget + peak'
  <2>1. Spent' = Spent
    BY <1>2 DEF Spent
  <2> QED BY <1>4, <1>5, <1>6, <1>7, <2>1, PipelineAssumption
<1>9. IsFiniteSet(Seen(pc'))
  BY <1>3, FS_AddElement DEF Overshoot
<1>10. \A q \in Request : cost'[q] > 0 => pc'[q] # "new"
  BY <1>1, <1>2 DEF Overshoot
<1> QED BY <1>6, <1>8, <1>9, <1>10 DEF Overshoot

\* Billing gives the place back for the money.
LEMMA BillKeeps ==
  ASSUME IInv, Overshoot, NEW r \in Request, pc[r] = "cost", Billed(r), UNCHANGED peak
  PROVE  Overshoot'
<1>1. pc \in [Request -> Places] /\ cost \in [Request -> Nat]
  BY DEF IInv, Tables
<1>2. pc' = [pc EXCEPT ![r] = "audit_ok"] /\ cost' = [cost EXCEPT ![r] = @ + 1]
  BY DEF Billed
<1>3. /\ Holding(pc') = Holding(pc) \ {r} /\ r \in Holding(pc)
      /\ Seen(pc') = Seen(pc)
  BY <1>1, <1>2 DEF Holding, Seen, Held
<1>4. Paid(cost') = Paid(cost) \union {r}
  BY <1>1, <1>2 DEF Paid
<1>5. /\ IsFiniteSet(Holding(pc)) /\ Unbilled(pc) = Cardinality(Holding(pc))
      /\ IsFiniteSet(Paid(cost)) /\ Spent = Cardinality(Paid(cost))
      /\ Unbilled(pc) \in Nat /\ Spent \in Nat
  BY Counted
<1>6. Unbilled(pc') = Unbilled(pc) - 1 /\ Unbilled(pc') \in Nat
  <2>1. Unbilled(pc') = Cardinality(Holding(pc) \ {r})
    BY <1>3 DEF Unbilled, Holding, Held
  <2>2. /\ IsFiniteSet(Holding(pc) \ {r})
        /\ Cardinality(Holding(pc) \ {r}) = Unbilled(pc) - 1
    BY <1>3, <1>5, FS_RemoveElement
  <2>3. Cardinality(Holding(pc) \ {r}) \in Nat
    BY <2>2, FS_CardinalityType
  <2> QED BY <2>1, <2>2, <2>3
<1>7. Spent' \in Nat /\ Spent' <= Spent + 1
  <2>1. Spent' = Cardinality(Paid(cost) \union {r})
    BY <1>4 DEF Spent, Paid
  <2>2. Cardinality(Paid(cost) \union {r}) = IF r \in Paid(cost) THEN Spent ELSE Spent + 1
    BY <1>5, FS_AddElement
  <2> QED BY <1>5, <2>1, <2>2
<1>8. peak' \in Nat /\ Unbilled(pc') <= peak'
  BY <1>5, <1>6 DEF Overshoot
<1>9. Budget > 0 => peak' = 0 \/ Spent' + Unbilled(pc') + 1 <= Budget + peak'
  BY <1>5, <1>6, <1>7, PipelineAssumption DEF Overshoot
<1>10. \A q \in Request : cost'[q] > 0 => pc'[q] # "new"
  BY <1>1, <1>2 DEF Overshoot
<1> QED BY <1>3, <1>8, <1>9, <1>10 DEF Overshoot

\* Every step keeps the account.
LEMMA OvershootStep == IInv /\ Overshoot /\ [Next]_vars => Overshoot'
<1> SUFFICES ASSUME IInv, Overshoot, [Next]_vars PROVE Overshoot'
  OBVIOUS
<1> USE DEF Goto, Refuse, ledger
<1>1. ASSUME NEW r \in Request, Tries(r) PROVE Overshoot'
  <2>1. PICK place \in Trying : pc' = [pc EXCEPT ![r] = place]
    BY <1>1, TriesMove
  <2>2. pc[r] \in Held /\ place # "new" /\ UNCHANGED cost
    BY <1>1, TriesMove DEF Trying, Held
  <2>3. UNCHANGED peak
    BY <1>1 DEF Tries, Admit, Skip, Exhausted, NoAdapter, CallOk, CallErr
  <2> QED BY <2>1, <2>2, <2>3, MovesQuietly
<1>2. ASSUME NEW r \in Request, CheckBudget(r) PROVE Overshoot'
  <2>1. CASE BudgetSpent
    <3>1. pc' = [pc EXCEPT ![r] = "done"] /\ UNCHANGED <<cost, peak>> /\ "done" \notin Held
      BY <1>2, <2>1 DEF CheckBudget, Held
    <3> QED BY <3>1, MovesQuietly
  <2> QED BY <1>2, <2>1, PassKeeps
<1>3. ASSUME NEW r \in Request,
             RefuseRoute(r) \/ CreateRow(r) \/ CreateRowUnread(r) \/ FinishCompleted(r)
             \/ FinishFailed(r) \/ InsertUsage(r) \/ Answer(r) \/ Disconnect(r)
      PROVE  Overshoot'
  <2>1. /\ UNCHANGED <<cost, peak>>
        /\ \E place \in {"done", "walk", "usage", "audit_err", "cost", "gone"} :
             /\ pc' = [pc EXCEPT ![r] = place]
             /\ place \in Held => pc[r] \in Held
    BY <1>3 DEF RefuseRoute, CreateRow, CreateRowUnread, FinishCompleted, FinishFailed,
                FinishRow, InsertUsage, Write, Answer, Disconnect, Held
  <2>2. PICK place \in {"done", "walk", "usage", "audit_err", "cost", "gone"} :
             /\ pc' = [pc EXCEPT ![r] = place]
             /\ place \in Held => pc[r] \in Held
    BY <2>1
  <2>3. place # "new"
    OBVIOUS
  <2> QED BY <2>1, <2>2, <2>3, MovesQuietly
<1>4. ASSUME NEW r \in Request, InsertCost(r) PROVE Overshoot'
  <2>1. CASE Billed(r)
    BY <1>4, <2>1, BillKeeps DEF InsertCost
  <2>2. CASE UNCHANGED cost /\ pc' = [pc EXCEPT ![r] = "audit_ok"]
    <3>1. UNCHANGED peak /\ "audit_ok" \notin Held
      BY <1>4 DEF InsertCost, Held
    <3> QED BY <2>2, <3>1, MovesQuietly
  <2> QED BY <1>4, <2>1, <2>2 DEF InsertCost, Write
<1>5. CASE Crash
  <2>1. /\ UNCHANGED <<cost, peak>>
        /\ pc' = [r \in Request |-> IF Running(r) /\ pc[r] # "new" THEN "dead" ELSE pc[r]]
    BY <1>5 DEF Crash
  <2>2. Holding(pc') \subseteq Holding(pc) /\ Seen(pc') = Seen(pc)
    BY <2>1 DEF Holding, Seen, Held
  <2> QED BY <2>1, <2>2, QuietSteps DEF Overshoot
<1>6. CASE Tick \/ UNCHANGED vars
  <2>1. UNCHANGED <<pc, cost, peak>>
    BY <1>6 DEF Tick, vars
  <2>2. pc' = pc
    BY <2>1
  <2> QED BY <2>1, <2>2, QuietSteps DEF Overshoot
<1> QED BY <1>1, <1>2, <1>3, <1>4, <1>5, <1>6 DEF Next, Step, Tries

\* Requests that pass the budget check together overspend by no more than the
\* most of them that were past it and not yet billed at one time.
THEOREM OvershootIsBounded == Spec => []OvershootBounded
<1>1. Overshoot => OvershootBounded
  <2> SUFFICES ASSUME Overshoot PROVE OvershootBounded
    OBVIOUS
  <2>1. Unbilled(pc) \in Nat /\ Spent \in Nat
    BY Counted
  <2> QED BY <2>1, PipelineAssumption DEF Overshoot, OvershootBounded
<1> QED BY <1>1, InitInvariant, StepInvariant, OvershootInit, OvershootStep, PTL DEF Spec
=============================================================================
