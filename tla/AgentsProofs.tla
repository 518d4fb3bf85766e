---------------------------- MODULE AgentsProofs ----------------------------
(***************************************************************************)
(* Theorems of Agents, for any versions, tools, calls, cases and costs.    *)
(* That rendering and runs end is liveness and stays with TLC.             *)
(***************************************************************************)
EXTENDS Agents, FiniteSetTheorems, WellFoundedInduction, TLAPS

\* A step of all three is for each a step of its own, or none.
LEMMA StepsOfParts ==
  ASSUME [Next]_vars
  PROVE  [P!Next]_(P!vars) /\ [R!Next]_(R!vars) /\ [E!Next]_(E!vars)
BY DEF Next, vars, publishing, running, evaluating, P!vars, P!versions, P!text, R!vars, R!locals,
   R!world, E!vars, E!loop

-----------------------------------------------------------------------------
(* The run of an agent.                                                    *)

Phases ==
  {"idle", "begun", "loop", "stepping", "calling", "writing", "completing", "failing",
   "out_of_calls", "out_of_steps", "done", "dropped"}
Statuses == {"none", "denied", "failed", "succeeded", "timeout"}
CallRows == [tool : Tools, status : Statuses]

RunTypes ==
  /\ phase \in Phases /\ version \in Versions /\ pending \in Statuses
  /\ step \in Int /\ spent \in Int /\ counted \in Nat
  /\ batch \in Seq(Tools) /\ executed \in Seq(Tools) /\ written \in Seq(CallRows)

\* The calls that are still to be dealt with are within the bound as well...
CallBound == version.max_tool_calls - 1 + R!Longest
Limits ==
  /\ step <= version.max_steps \/ step = 0
  /\ counted > 0 => counted <= CallBound
  /\ phase = "loop" /\ batch # <<>> => counted + Len(batch) <= CallBound
  /\ phase = "writing" => batch # <<>> /\ counted + Len(batch) <= CallBound + 1
  /\ phase \in {"begun", "loop", "stepping", "calling", "writing", "completing"} =>
       version.max_cost = R!NoLimit \/ spent <= version.max_cost
  /\ phase \in {"idle", "begun"} => spent = 0 /\ batch = <<>>

\* ...and the call that is being written is the last one that was executed.
RanOf(w) == {i \in 1 .. Len(w) : w[i].status # "denied"}
Matches(w, e) ==
  \A i \in RanOf(w) :
    LET n == Cardinality(RanOf(w) \intersect (1 .. i)) IN n \in 1 .. Len(e) /\ e[n] = w[i].tool
Recorded ==
  /\ \A i \in 1 .. Len(executed) : executed[i] \in offered
  /\ phase \in {"idle", "begun"} => executed = <<>> /\ written = <<>>
  /\ Matches(written, executed)
  /\ Len(executed) - Cardinality(RanOf(written)) \in {0, 1}
  /\ phase \in {"loop", "stepping", "calling", "completing", "out_of_calls", "out_of_steps"} =>
       Len(executed) = Cardinality(RanOf(written))
  /\ phase = "writing" =>
       IF pending = "denied" THEN Len(executed) = Cardinality(RanOf(written))
       ELSE /\ Len(executed) = Cardinality(RanOf(written)) + 1
            /\ executed[Len(executed)] = Head(batch)

RunInv == RunTypes /\ Limits /\ Recorded /\ R!RowTellsTheRun

LEMMA LongestBatch == R!Longest \in Nat /\ \A b \in Batches : Len(b) <= R!Longest
<1>1. \E n \in {Len(b) : b \in Batches} : \A b \in Batches : Len(b) <= n
  BY BatchesAssumption
<1>2. /\ R!Longest \in {Len(b) : b \in Batches} /\ \A b \in Batches : Len(b) <= R!Longest
  BY <1>1 DEF R!Longest
<1> QED BY <1>2, BatchesAssumption

\* The executed calls and their rows grow together.
LEMMA RowsGrow ==
  ASSUME NEW w \in Seq(CallRows), NEW r \in CallRows
  PROVE  /\ Append(w, r) \in Seq(CallRows)
         /\ RanOf(Append(w, r)) =
              IF r.status # "denied" THEN RanOf(w) \union {Len(w) + 1} ELSE RanOf(w)
         /\ \A i \in RanOf(w) :
              /\ Append(w, r)[i] = w[i] /\ i # Len(w) + 1
              /\ RanOf(Append(w, r)) \intersect (1 .. i) = RanOf(w) \intersect (1 .. i)
         /\ Append(w, r)[Len(w) + 1] = r
         /\ IsFiniteSet(RanOf(w)) /\ Cardinality(RanOf(w)) \in Nat /\ Len(w) + 1 \notin RanOf(w)
         /\ RanOf(w) \intersect (1 .. Len(w) + 1) = RanOf(w)
<1>1. /\ Len(w) \in Nat /\ Len(Append(w, r)) = Len(w) + 1
      /\ \A i \in 1 .. Len(w) : Append(w, r)[i] = w[i]
      /\ Append(w, r)[Len(w) + 1] = r /\ Append(w, r) \in Seq(CallRows)
  OBVIOUS
<1>2. \A i : i \in RanOf(Append(w, r)) <=>
               i \in RanOf(w) \/ (i = Len(w) + 1 /\ r.status # "denied")
  BY <1>1 DEF RanOf
<1>3. \A i \in RanOf(w) : i \in 1 .. Len(w)
  BY DEF RanOf
<1>4. \A i \in RanOf(w) : RanOf(Append(w, r)) \intersect (1 .. i) = RanOf(w) \intersect (1 .. i)
  <2> SUFFICES ASSUME NEW i \in RanOf(w), NEW j \in 1 .. i
               PROVE  j \in RanOf(Append(w, r)) <=> j \in RanOf(w)
    OBVIOUS
  <2>1. i \in 1 .. Len(w)
    BY <1>3
  <2>2. j # Len(w) + 1
    BY <1>1, <2>1
  <2> QED BY <1>2, <2>2
<1>5. IsFiniteSet(RanOf(w)) /\ Cardinality(RanOf(w)) \in Nat
  <2>1. IsFiniteSet(1 .. Len(w)) /\ RanOf(w) \in SUBSET (1 .. Len(w))
    BY <1>1, FS_Interval DEF RanOf
  <2> QED BY <2>1, FS_Subset, FS_CardinalityType
<1>6. RanOf(w) \intersect (1 .. Len(w) + 1) = RanOf(w) /\ Len(w) + 1 \notin RanOf(w)
  BY <1>1, <1>3
<1>7. RanOf(Append(w, r)) = IF r.status # "denied" THEN RanOf(w) \union {Len(w) + 1} ELSE RanOf(w)
  BY <1>2
<1> QED BY <1>1, <1>3, <1>4, <1>5, <1>6, <1>7

LEMMA MatchesGrow ==
  ASSUME NEW w \in Seq(CallRows), NEW e \in Seq(Tools), Matches(w, e)
  PROVE  /\ \A t \in Tools : Matches(w, Append(e, t))
         /\ \A r \in CallRows :
              r.status = "denied" => /\ Matches(Append(w, r), e)
                                     /\ Cardinality(RanOf(Append(w, r))) = Cardinality(RanOf(w))
         /\ \A r \in CallRows :
              /\ r.status # "denied" /\ Len(e) = Cardinality(RanOf(w)) + 1 /\ e[Len(e)] = r.tool
              => /\ Matches(Append(w, r), e)
                 /\ Cardinality(RanOf(Append(w, r))) = Cardinality(RanOf(w)) + 1
<1>1. ASSUME NEW t \in Tools PROVE Matches(w, Append(e, t))
  <2>1. /\ Len(Append(e, t)) = Len(e) + 1 /\ Len(e) \in Nat
        /\ \A n \in 1 .. Len(e) : Append(e, t)[n] = e[n]
    OBVIOUS
  <2> SUFFICES ASSUME NEW i \in RanOf(w)
               PROVE  LET n == Cardinality(RanOf(w) \intersect (1 .. i)) IN
                      n \in 1 .. Len(Append(e, t)) /\ Append(e, t)[n] = w[i].tool
    BY DEF Matches
  <2> DEFINE n == Cardinality(RanOf(w) \intersect (1 .. i))
  <2>2. n \in 1 .. Len(e) /\ e[n] = w[i].tool
    BY DEF Matches
  <2> HIDE DEF n
  <2>3. n \in 1 .. Len(Append(e, t)) /\ Append(e, t)[n] = w[i].tool
    BY <2>1, <2>2
  <2> QED BY <2>3 DEF n
<1>2. ASSUME NEW r \in CallRows, r.status = "denied"
      PROVE  /\ Matches(Append(w, r), e)
             /\ Cardinality(RanOf(Append(w, r))) = Cardinality(RanOf(w))
  BY <1>2, RowsGrow DEF Matches
<1>3. ASSUME NEW r \in CallRows, r.status # "denied", Len(e) = Cardinality(RanOf(w)) + 1,
             e[Len(e)] = r.tool
      PROVE  /\ Matches(Append(w, r), e)
             /\ Cardinality(RanOf(Append(w, r))) = Cardinality(RanOf(w)) + 1
  <2>1. Cardinality(RanOf(Append(w, r))) = Cardinality(RanOf(w)) + 1
    BY <1>3, RowsGrow, FS_AddElement
  <2>2. /\ RanOf(Append(w, r)) = RanOf(w) \union {Len(w) + 1}
        /\ RanOf(Append(w, r)) \intersect (1 .. Len(w) + 1) = RanOf(Append(w, r))
    BY <1>3, RowsGrow
  <2>3. Len(e) \in 1 .. Len(e)
    BY <1>3, RowsGrow
  <2> SUFFICES ASSUME NEW i \in RanOf(Append(w, r))
               PROVE  LET n == Cardinality(RanOf(Append(w, r)) \intersect (1 .. i)) IN
                      n \in 1 .. Len(e) /\ e[n] = Append(w, r)[i].tool
    BY <2>1 DEF Matches
  <2>4. CASE i \in RanOf(w)
    BY <2>4, RowsGrow DEF Matches
  <2>5. CASE i = Len(w) + 1
    <3>1. Cardinality(RanOf(Append(w, r)) \intersect (1 .. i)) = Len(e)
      BY <1>3, <2>1, <2>2, <2>5
    <3>2. Append(w, r)[i] = r
      BY <2>5, RowsGrow
    <3> QED BY <1>3, <2>3, <3>1, <3>2
  <2> QED BY <2>2, <2>4, <2>5
<1> QED BY <1>1, <1>2, <1>3

LEMMA RunStarts == R!Init => RunInv
<1> SUFFICES ASSUME R!Init PROVE RunInv
  OBVIOUS
<1>1. RunTypes
  BY DEF R!Init, RunTypes, Phases, Statuses
<1>2. Limits
  BY VersionsAssumption DEF R!Init, Limits, R!NoLimit
<1>3. RanOf(<<>>) = {} /\ Cardinality(RanOf(<<>>)) = 0 /\ Len(<<>>) = 0
  BY FS_EmptySet DEF RanOf
<1>4. Recorded
  <2>1. Matches(<<>>, <<>>)
    BY <1>3 DEF Matches
  <2> QED BY <1>3, <2>1 DEF R!Init, Recorded
<1>5. R!RowTellsTheRun
  BY DEF R!Init, R!RowTellsTheRun
<1> QED BY <1>1, <1>2, <1>4, <1>5 DEF RunInv

\* What the provers need of a state.
LEMMA RunFacts ==
  ASSUME RunInv
  PROVE  /\ version.max_steps \in Int /\ version.max_tool_calls \in Int
         /\ version.max_cost \in Nat \union {-1} /\ R!Longest \in Nat
         /\ Len(batch) \in Nat /\ (batch # <<>> => Len(batch) > 0 /\ Head(batch) \in Tools)
         /\ (batch # <<>> => Tail(batch) \in Seq(Tools) /\ Len(Tail(batch)) = Len(batch) - 1)
  BY LongestBatch, VersionsAssumption DEF RunInv, RunTypes

\* A step that goes to another phase and writes neither calls nor their rows.
LEMMA PhaseStep ==
  ASSUME RunInv,
         \/ R!Start \/ R!Offer \/ R!Error \/ R!NextStep \/ R!MarkRunning \/ R!LastStep
         \/ R!Dropped \/ R!Fail \/ R!RunOut \/ R!Complete
  PROVE  RunInv'
<1>1. RunTypes /\ Limits /\ Recorded /\ R!RowTellsTheRun
  BY DEF RunInv
<1>2. UNCHANGED <<version, spent, counted, batch, pending, written, executed>>
  BY DEF R!Start, R!Offer, R!Error, R!NextStep, R!MarkRunning, R!LastStep, R!Dropped, R!Fail,
     R!RunOut, R!Complete, R!locals
<1>3. /\ \/ step' = step /\ phase' # "stepping"
         \/ phase = "loop" /\ phase' = "stepping" /\ step' = step + 1 /\ step < version.max_steps
      /\ \/ offered' = offered
         \/ phase = "begun" /\ phase' = "loop"
      /\ \/ phase = "idle" /\ phase' = "begun"
         \/ phase = "begun" /\ phase' = "loop"
         \/ phase = "loop" /\ (phase' = "stepping" \/ phase' = "out_of_steps")
         \/ phase = "stepping" /\ phase' = "calling"
         \/ phase' \in {"failing", "done", "dropped"}
  BY DEF R!Start, R!Offer, R!Error, R!NextStep, R!MarkRunning, R!LastStep, R!Dropped, R!Fail,
     R!RunOut, R!Complete, R!locals
<1>4. RunTypes'
  <2>1. phase' \in Phases
    BY <1>3 DEF Phases
  <2>2. step' \in Int
    BY <1>1, <1>3 DEF RunTypes
  <2> QED BY <1>1, <1>2, <2>1, <2>2 DEF RunTypes
<1>5. Limits'
  <2>1. UNCHANGED <<version, CallBound>>
    BY <1>2 DEF CallBound
  <2>2. step' <= version'.max_steps \/ step' = 0
    <3>1. version.max_steps \in Int /\ step \in Int /\ version' = version
      BY <1>1, <1>2, RunFacts DEF RunTypes
    <3>2. step <= version.max_steps \/ step = 0
      BY <1>1 DEF Limits
    <3> QED BY <1>3, <3>1, <3>2
  <2>3. phase' = "begun" => version.max_cost = R!NoLimit \/ spent <= version.max_cost
    BY <1>1, <1>3, RunFacts DEF Limits, R!NoLimit
  <2> QED BY <1>1, <1>2, <1>3, <2>1, <2>2, <2>3 DEF Limits
<1>6. Recorded'
  <2>1. RanOf(<<>>) = {} /\ Cardinality({}) = 0 /\ Len(<<>>) = 0
    BY FS_EmptySet DEF RanOf
  <2>2. CASE phase = "begun" /\ phase' = "loop"
    BY <1>1, <1>2, <2>1, <2>2 DEF Recorded
  <2>3. CASE ~(phase = "begun" /\ phase' = "loop")
    BY <1>1, <1>2, <1>3, <2>3 DEF Recorded
  <2> QED BY <2>2, <2>3
<1>7. R!RowTellsTheRun'
  <2>1. CASE R!Start \/ R!Offer \/ R!Error \/ R!NextStep \/ R!MarkRunning \/ R!LastStep \/ R!Dropped
    <3>1. phase' # "done"
      BY <1>3, <2>1 DEF R!Start, R!Offer, R!Error, R!NextStep, R!MarkRunning, R!LastStep, R!Dropped
    <3> QED BY <3>1 DEF R!RowTellsTheRun
  <2>2. CASE R!Fail
    BY <2>2 DEF R!Fail, R!FinishRun, R!RowTellsTheRun
  <2>3. CASE R!RunOut
    BY <1>2, <2>3 DEF R!RunOut, R!FinishRun, R!RowTellsTheRun
  <2>4. CASE R!Complete
    BY <1>2, <2>4 DEF R!Complete, R!FinishRun, R!RowTellsTheRun
  <2> QED BY <2>1, <2>2, <2>3, <2>4
<1> QED BY <1>4, <1>5, <1>6, <1>7 DEF RunInv

LEMMA AnswerStep ==
  ASSUME RunInv, R!Exceed \/ R!AnswerInWords \/ R!AnswerWithCalls
  PROVE  RunInv'
<1>0. RunTypes /\ Limits /\ Recorded /\ R!RowTellsTheRun
  BY DEF RunInv
<1>1. /\ UNCHANGED <<version, offered, step, counted, pending, written, returned, executed>>
      /\ phase = "calling" /\ spent' \in Int
      /\ \/ phase' \in {"failing", "out_of_steps", "out_of_calls"} /\ batch' = batch
         \/ /\ phase' = "completing" /\ batch' = batch
            /\ version.max_cost = R!NoLimit \/ spent' <= version.max_cost
         \/ /\ phase' = "loop" /\ batch' \in Batches /\ counted < version.max_tool_calls
            /\ version.max_cost = R!NoLimit \/ spent' <= version.max_cost
  <2>1. ASSUME NEW cost \in Costs PROVE spent + cost \in Int
    BY <1>0, CostsAssumption DEF RunTypes
  <2>2. ASSUME NEW cost \in Costs, ~R!OverCost(cost)
        PROVE  version.max_cost = R!NoLimit \/ spent + cost <= version.max_cost
    BY <2>1, <2>2, RunFacts DEF R!OverCost, R!NoLimit
  <2>3. ~(counted >= version.max_tool_calls) => counted < version.max_tool_calls
    BY <1>0, RunFacts DEF RunTypes
  <2>4. CASE R!Exceed
    BY <2>1, <2>4 DEF R!Exceed
  <2>5. CASE R!AnswerInWords
    BY <2>1, <2>2, <2>5 DEF R!AnswerInWords
  <2>6. CASE R!AnswerWithCalls
    BY <2>1, <2>2, <2>3, <2>6 DEF R!AnswerWithCalls
  <2> QED BY <2>4, <2>5, <2>6
<1>2. batch' \in Seq(Tools)
  BY <1>0, <1>1, BatchesAssumption DEF RunTypes
<1>3. RunTypes'
  BY <1>0, <1>1, <1>2 DEF RunTypes, Phases
<1>4. Limits'
  <2>1. UNCHANGED <<version, step, counted, CallBound>>
    BY <1>1 DEF CallBound
  <2>2. CASE phase' = "loop"
    <3>1. Len(batch') \in Nat /\ Len(batch') <= R!Longest /\ counted < version.max_tool_calls
      BY <1>1, <1>2, <2>2, LongestBatch
    <3>2. counted + Len(batch') <= CallBound
      BY <1>0, <3>1, RunFacts DEF CallBound, RunTypes
    <3> QED BY <1>0, <1>1, <2>1, <2>2, <3>2 DEF Limits
  <2>3. CASE phase' # "loop"
    BY <1>0, <1>1, <2>1, <2>3 DEF Limits
  <2> QED BY <2>2, <2>3
<1>5. Recorded'
  BY <1>0, <1>1 DEF Recorded
<1>6. R!RowTellsTheRun'
  BY <1>1 DEF R!RowTellsTheRun
<1> QED BY <1>3, <1>4, <1>5, <1>6 DEF RunInv

LEMMA CallStep ==
  ASSUME RunInv, NEW t, R!Deny \/ R!Execute(t) \/ R!ExecuteMcp(t)
  PROVE  RunInv'
<1> USE RunFacts
<1>1. /\ UNCHANGED <<version, offered, step, spent, batch, row, written, returned, lost>>
      /\ phase = "loop" /\ phase' = "writing" /\ batch # <<>> /\ counted' = counted + 1
      /\ \/ pending' = "denied" /\ executed' = executed
         \/ /\ pending' \in Statuses \ {"denied"} /\ Head(batch) \in offered
            /\ executed' = Append(executed, Head(batch))
  BY DEF R!Deny, R!Execute, R!ExecuteMcp, R!Execution, Statuses
<1>2. executed' \in Seq(Tools) /\ pending' \in Statuses /\ Len(executed) \in Nat
  <2>1. executed \in Seq(Tools) /\ Head(batch) \in Tools
    BY <1>1 DEF RunInv, RunTypes
  <2>2. Append(executed, Head(batch)) \in Seq(Tools) /\ Len(executed) \in Nat
    BY <2>1
  <2> QED BY <1>1, <2>1, <2>2 DEF Statuses
<1>3. RunTypes'
  BY <1>1, <1>2 DEF RunInv, RunTypes, Phases
<1>4. Limits'
  BY <1>1 DEF RunInv, RunTypes, Limits, CallBound
<1>5. Recorded'
  <2>1. /\ Matches(written, executed) /\ Len(executed) = Cardinality(RanOf(written))
        /\ \A i \in 1 .. Len(executed) : executed[i] \in offered
        /\ written \in Seq(CallRows) /\ executed \in Seq(Tools)
    BY <1>1 DEF RunInv, RunTypes, Recorded
  <2>2. CASE pending' = "denied" /\ executed' = executed
    BY <1>1, <1>2, <2>1, <2>2 DEF Recorded
  <2>3. CASE /\ pending' # "denied" /\ Head(batch) \in offered
             /\ executed' = Append(executed, Head(batch))
    <3>1. /\ Len(executed') = Len(executed) + 1 /\ executed'[Len(executed')] = Head(batch)
          /\ \A i \in 1 .. Len(executed') : executed'[i] \in offered
      BY <1>1, <1>2, <2>1, <2>3
    <3>2. Matches(written, executed')
      BY <1>1, <2>1, <2>3, MatchesGrow
    <3> QED BY <1>1, <1>2, <2>1, <2>3, <3>1, <3>2 DEF Recorded
  <2> QED BY <1>1, <2>2, <2>3
<1>6. R!RowTellsTheRun'
  BY <1>1 DEF R!RowTellsTheRun
<1> QED BY <1>3, <1>4, <1>5, <1>6 DEF RunInv

LEMMA WriteStep == ASSUME RunInv, R!InsertToolCall PROVE RunInv'
<1> USE RunFacts
<1> DEFINE r == [tool |-> Head(batch), status |-> pending]
<1>1. /\ UNCHANGED <<version, offered, step, spent, counted, row, returned, lost, executed>>
      /\ phase = "writing" /\ phase' = "loop" /\ batch # <<>> /\ batch' = Tail(batch)
      /\ pending' = "none" /\ written' = Append(written, r)
  BY DEF R!InsertToolCall, RunInv, Limits
<1>2. r \in CallRows /\ r.status = pending /\ r.tool = Head(batch)
  BY <1>1 DEF RunInv, RunTypes, CallRows
<1> HIDE DEF r
<1>3. RunTypes'
  BY <1>1, <1>2 DEF RunInv, RunTypes, Phases, Statuses
<1>4. Limits'
  BY <1>1 DEF RunInv, RunTypes, Limits, CallBound
<1>5. Recorded'
  <2>1. /\ Matches(written, executed) /\ written \in Seq(CallRows) /\ executed \in Seq(Tools)
        /\ IF pending = "denied" THEN Len(executed) = Cardinality(RanOf(written))
           ELSE /\ Len(executed) = Cardinality(RanOf(written)) + 1
                /\ executed[Len(executed)] = Head(batch)
    BY <1>1 DEF RunInv, RunTypes, Recorded
  <2>2. Matches(written', executed) /\ Len(executed) = Cardinality(RanOf(written'))
    BY <1>1, <1>2, <2>1, MatchesGrow
  <2>3. Len(executed) \in Nat
    BY <2>1
  <2> QED BY <1>1, <2>2, <2>3 DEF RunInv, Recorded
<1>6. R!RowTellsTheRun'
  BY <1>1 DEF R!RowTellsTheRun
<1> QED BY <1>3, <1>4, <1>5, <1>6 DEF RunInv

LEMMA RunStep == RunInv /\ [R!Next]_(R!vars) => RunInv'
<1> SUFFICES ASSUME RunInv, [R!Next]_(R!vars) PROVE RunInv'
  OBVIOUS
<1>1. ASSUME UNCHANGED <<phase, R!locals, row, written, returned, lost, executed>> PROVE RunInv'
  BY <1>1 DEF RunInv, RunTypes, Limits, CallBound, Recorded, R!RowTellsTheRun, R!locals
<1>2. CASE UNCHANGED R!vars
  BY <1>1, <1>2 DEF R!vars
<1>3. ASSUME NEW t \in Tools, R!CreateTool(t) \/ R!DiscoverTool(t) \/ R!DeleteTool(t)
      PROVE  RunInv'
  BY <1>1, <1>3 DEF R!CreateTool, R!DiscoverTool, R!DeleteTool
<1>4. ASSUME NEW s \in Servers, R!CreateServer(s) \/ R!DeleteServer(s) PROVE RunInv'
  BY <1>1, <1>4 DEF R!CreateServer, R!DeleteServer
<1>5. ASSUME NEW t \in Tools, R!Execute(t) \/ R!ExecuteMcp(t) PROVE RunInv'
  BY <1>5, CallStep
<1> QED BY <1>2, <1>3, <1>4, <1>5, PhaseStep, AnswerStep, CallStep, WriteStep
        DEF R!Next, R!Loop

\* The limits of any version hold, for any tools, batches of calls and costs:
\* the steps exactly, the calls up to the end of a batch, the money up to one answer.
THEOREM RunsKeepToLimits == Spec => []LimitsHold
<1>1. Init => RunInv
  BY RunStarts DEF Init
<1>2. RunInv /\ [Next]_vars => RunInv'
  BY RunStep, StepsOfParts
<1>3. RunInv => LimitsHold
  BY DEF RunInv, Limits, CallBound, LimitsHold, R!LimitsHold
<1> QED BY <1>1, <1>2, <1>3, PTL DEF Spec

\* The tables tell what any run did and how it ended: each execution has its
\* row, in order, and the run's own row says what the caller was told.
THEOREM RunsAreRecorded == Spec => []RunIsRecorded
<1>1. Init => RunInv
  BY RunStarts DEF Init
<1>2. RunInv /\ [Next]_vars => RunInv'
  BY RunStep, StepsOfParts
<1>3. RunInv => RunIsRecorded
  <2> SUFFICES ASSUME RunInv PROVE R!ExecutionsAreRecorded
    BY DEF RunInv, RunIsRecorded, R!RunIsRecorded
  <2>1. \A S : R!Cardinality(S) = Cardinality(S)
    BY DEF R!Cardinality, Cardinality
  <2>2. R!Ran = RanOf(written) /\ DOMAIN executed = 1 .. Len(executed)
    BY DEF R!Ran, RanOf, RunInv, RunTypes
  <2>3. R!Range(executed) \subseteq offered
    BY <2>2 DEF R!Range, RunInv, Recorded
  <2> QED BY <2>1, <2>2, <2>3 DEF R!ExecutionsAreRecorded, R!RanTo, RunInv, Recorded, Matches
<1> QED BY <1>1, <1>2, <1>3, PTL DEF Spec

-----------------------------------------------------------------------------
(* Publishing.                                                             *)

VersionStatus == {"draft", "published", "deprecated"}
Doing == [pc : {"idle", "insert", "retire", "publish"}, of : Nat, current : Nat]

PublishTypes ==
  /\ status \in Seq(VersionStatus) /\ intended \in Nat
  /\ call \in [Calls -> Doing]

PublishedOf(s) == {v \in DOMAIN s : s[v] = "published"}
Writes(d) == d.pc \in {"retire", "publish"}

\* While a version is intended, it is published, or a call is about to
\* publish another in its place...
Intended ==
  /\ deleted => status = <<>> /\ intended = 0
  /\ \A c \in Calls : Writes(call[c]) /\ ~deleted => call[c].of \in DOMAIN status
  /\ intended # 0 /\ ~failed =>
       intended \in PublishedOf(status) \/ \E c \in Calls : call[c].pc = "publish"

\* ...and a call that nothing has disturbed retires all that is published
\* before it publishes its own.
Undisturbed ==
  ~disturbed =>
    /\ \A c, d \in Calls : Writes(call[c]) /\ Writes(call[d]) => c = d
    /\ (\A c \in Calls : ~Writes(call[c])) =>
         PublishedOf(status) = (IF intended = 0 THEN {} ELSE {intended})
    /\ \A c \in Calls :
         /\ call[c].pc = "retire" => PublishedOf(status) \subseteq {call[c].current}
         /\ call[c].pc = "publish" => PublishedOf(status) \subseteq {call[c].of}

PublishInv == PublishTypes /\ Intended /\ Undisturbed

\* The least and the greatest of some numbers.
LEMMA Least ==
  ASSUME NEW T, T \subseteq Nat, T # {}
  PROVE  \E x \in T : \A y \in T : x <= y
<1> DEFINE Before == OpToRel(<, Nat)
<1>1. IsWellFoundedOn(Before, Nat)
  BY NatLessThanWellFounded
<1>2. Before = {ss \in Nat \X Nat : ss[1] < ss[2]}
  BY DEF OpToRel
<1> HIDE DEF Before
<1>3. PICK x \in T : \A y \in T : ~(<<y, x>> \in Before)
  BY <1>1, WFMin
<1>4. ASSUME NEW y \in T PROVE x <= y
  <2>1. x \in Nat /\ y \in Nat
    OBVIOUS
  <2>2. <<y, x>> \in Nat \X Nat /\ <<y, x>>[1] = y /\ <<y, x>>[2] = x
    BY <2>1
  <2>3. ~(y < x)
    BY <1>2, <1>3, <2>2
  <2> QED BY <2>1, <2>3
<1> QED BY <1>3, <1>4

LEMMA Greatest ==
  ASSUME NEW T, NEW n \in Nat, T \subseteq 0 .. n, T # {}
  PROVE  \E x \in T : \A y \in T : y <= x
<1> DEFINE U == {n - x : x \in T}
<1>1. U \subseteq Nat /\ U # {}
  <2>1. PICK x \in T : TRUE
    OBVIOUS
  <2>2. n - x \in U
    BY <2>1
  <2>3. \A y \in T : n - y \in Nat
    OBVIOUS
  <2> QED BY <2>2, <2>3
<1>2. PICK m \in U : \A y \in U : m <= y
  BY <1>1, Least
<1>3. PICK x \in T : m = n - x
  OBVIOUS
<1>4. ASSUME NEW y \in T PROVE y <= x
  <2>1. n - y \in U
    OBVIOUS
  <2> QED BY <1>2, <1>3, <2>1
<1> QED BY <1>4

\* What is served is published, and nothing is only when nothing is.
LEMMA ServedIs ==
  ASSUME PublishTypes
  PROVE  /\ P!Published = PublishedOf(status)
         /\ P!Published = {} => P!Served = 0
         /\ P!Published # {} => P!Served \in P!Published /\ P!Served # 0
<1>1. P!Published = PublishedOf(status)
  BY DEF P!Published, PublishedOf
<1>2. P!Published = {} => P!Served = 0
  BY DEF P!Served
<1>3. ASSUME P!Published # {} PROVE P!Served \in P!Published /\ P!Served # 0
  <2>1. Len(status) \in Nat /\ P!Published \subseteq 1 .. Len(status)
    BY DEF PublishTypes, P!Published
  <2>2. P!Published \subseteq 0 .. Len(status)
    BY <2>1
  <2>3. \E v \in P!Published : \A w \in P!Published : w <= v
    BY <1>3, <2>1, <2>2, Greatest
  <2>4. P!Served \in P!Published
    BY <1>3, <2>3 DEF P!Served
  <2> QED BY <2>1, <2>4
<1> QED BY <1>1, <1>2, <1>3

\* What a write of a version's status, or a new version, does to the published ones.
LEMMA StatusSet ==
  ASSUME PublishTypes, NEW v \in Nat, NEW s \in VersionStatus, P!Set(v, s)
  PROVE  /\ status' \in Seq(VersionStatus) /\ DOMAIN status' = DOMAIN status
         /\ s = "deprecated" => PublishedOf(status') = PublishedOf(status) \ {v}
         /\ s = "published" /\ v \in DOMAIN status =>
              PublishedOf(status') = PublishedOf(status) \union {v}
         /\ v \notin DOMAIN status => status' = status
<1>1. CASE v \in DOMAIN status
  <2>1. status' = [status EXCEPT ![v] = s] /\ status \in Seq(VersionStatus)
    BY <1>1 DEF P!Set, PublishTypes
  <2>2. status' \in Seq(VersionStatus) /\ DOMAIN status' = DOMAIN status
    BY <1>1, <2>1
  <2>3. \A w \in DOMAIN status : status'[w] = IF w = v THEN s ELSE status[w]
    BY <1>1, <2>1
  <2> QED BY <1>1, <2>2, <2>3 DEF PublishedOf
<1>2. CASE v \notin DOMAIN status
  BY <1>2 DEF P!Set, PublishTypes, PublishedOf
<1> QED BY <1>1, <1>2

LEMMA DraftAdded ==
  ASSUME PublishTypes
  PROVE  /\ Append(status, "draft") \in Seq(VersionStatus)
         /\ PublishedOf(Append(status, "draft")) = PublishedOf(status)
         /\ \A v \in DOMAIN status : v \in DOMAIN Append(status, "draft")
<1>1. /\ status \in Seq(VersionStatus) /\ Len(status) \in Nat /\ DOMAIN status = 1 .. Len(status)
      /\ "draft" \in VersionStatus
  BY DEF PublishTypes, VersionStatus
<1>2. /\ Append(status, "draft") \in Seq(VersionStatus)
      /\ DOMAIN Append(status, "draft") = 1 .. Len(status) + 1
      /\ \A v \in 1 .. Len(status) : Append(status, "draft")[v] = status[v]
      /\ Append(status, "draft")[Len(status) + 1] = "draft"
  BY <1>1
<1>3. \A v \in DOMAIN Append(status, "draft") : v \in DOMAIN status \/ v = Len(status) + 1
  BY <1>1, <1>2
<1>4. \A v \in DOMAIN status : v \in DOMAIN Append(status, "draft")
  BY <1>1, <1>2
<1> QED BY <1>1, <1>2, <1>3, <1>4 DEF PublishedOf

LEMMA CallBecomes ==
  ASSUME PublishTypes, NEW c \in Calls, NEW pc \in {"idle", "insert", "retire", "publish"},
         NEW of \in Nat, NEW current \in Nat, P!Become(c, pc, of, current)
  PROVE  /\ call' \in [Calls -> Doing]
         /\ call'[c].pc = pc /\ call'[c].of = of /\ call'[c].current = current
         /\ \A d \in Calls : d # c => call'[d] = call[d]
<1> DEFINE r == [pc |-> pc, of |-> of, current |-> current]
<1>1. r \in Doing /\ r.pc = pc /\ r.of = of /\ r.current = current
  BY DEF Doing
<1>2. call' = [call EXCEPT ![c] = r]
  BY DEF P!Become
<1> HIDE DEF r
<1> QED BY <1>1, <1>2 DEF PublishTypes

LEMMA PublishStarts == P!Init => PublishInv
<1> SUFFICES ASSUME P!Init PROVE PublishInv
  OBVIOUS
<1>1. P!Idle \in Doing /\ P!Idle.pc = "idle"
  BY DEF P!Idle, Doing
<1>2. call = [c \in Calls |-> P!Idle] /\ status = <<"draft">> /\ intended = 0 /\ deleted = FALSE
  BY DEF P!Init
<1>3. PublishTypes
  BY <1>1, <1>2 DEF PublishTypes, VersionStatus
<1>4. PublishedOf(status) = {}
  BY <1>2 DEF PublishedOf
<1>5. \A c \in Calls : ~Writes(call[c]) /\ call[c].pc = "idle"
  BY <1>1, <1>2 DEF Writes
<1> QED BY <1>2, <1>3, <1>4, <1>5 DEF PublishInv, Intended, Undisturbed

LEMMA NumberStep ==
  ASSUME PublishInv, NEW c \in Calls, P!ReadNumber(c) \/ P!InsertVersion(c)
  PROVE  PublishInv'
<1>1. PublishTypes /\ Intended /\ Undisturbed
  BY DEF PublishInv
<1>2. UNCHANGED <<deleted, intended, disturbed, failed>>
  BY DEF P!ReadNumber, P!InsertVersion, P!versions
<1>3. \/ status' = status
      \/ status' = Append(status, "draft") /\ ~deleted
  BY DEF P!ReadNumber, P!InsertVersion, P!versions
<1>4. /\ status' \in Seq(VersionStatus) /\ PublishedOf(status') = PublishedOf(status)
      /\ \A v \in DOMAIN status : v \in DOMAIN status'
      /\ deleted => status' = status
  BY <1>1, <1>3, DraftAdded DEF PublishTypes
<1>5. /\ call' \in [Calls -> Doing] /\ ~Writes(call[c]) /\ ~Writes(call'[c])
      /\ call[c].pc # "publish"
      /\ \A d \in Calls : d # c => call'[d] = call[d]
  <2>1. PICK pc \in {"idle", "insert"}, of \in Nat : P!Become(c, pc, of, 0)
    <3>1. Len(status) + 1 \in Nat
      BY <1>1 DEF PublishTypes
    <3> QED BY <3>1 DEF P!ReadNumber, P!InsertVersion
  <2>2. call[c].pc \in {"idle", "insert"}
    BY DEF P!ReadNumber, P!InsertVersion
  <2> QED BY <1>1, <2>1, <2>2, CallBecomes DEF Writes
<1>6. PublishTypes'
  BY <1>1, <1>2, <1>4, <1>5 DEF PublishTypes
<1>7. \A d \in Calls : /\ Writes(call'[d]) <=> Writes(call[d])
                       /\ Writes(call'[d]) => call'[d] = call[d]
                       /\ call[d].pc = "publish" => call'[d] = call[d]
                       /\ call'[d].pc \in {"publish", "retire"} => call'[d] = call[d]
  BY <1>5 DEF Writes
<1>8. Intended'
  BY <1>1, <1>2, <1>4, <1>7 DEF Intended
<1>9. Undisturbed'
  BY <1>1, <1>2, <1>4, <1>7 DEF Undisturbed
<1> QED BY <1>6, <1>8, <1>9 DEF PublishInv

LEMMA BeginStep ==
  ASSUME PublishInv, NEW c \in Calls, NEW v, P!Publish(c, v)
  PROVE  PublishInv'
<1>1. PublishTypes /\ Intended /\ Undisturbed
  BY DEF PublishInv
<1>2. /\ UNCHANGED <<status, deleted, intended, failed>> /\ v \in DOMAIN status
      /\ call[c].pc = "idle" /\ disturbed' = (disturbed \/ P!Publishing # {})
  BY DEF P!Publish, P!versions
<1>3. P!Current(v) \in Nat /\ v \in Nat /\ DOMAIN status \subseteq Nat
  <2>1. DOMAIN status \subseteq Nat
    BY <1>1 DEF PublishTypes
  <2>2. P!Served \in Nat
    BY <1>1, <2>1, ServedIs DEF P!Published
  <2> QED BY <1>2, <2>1, <2>2 DEF P!Current
<1>4. /\ call' \in [Calls -> Doing]
      /\ call'[c].pc = (IF P!Current(v) = 0 THEN "publish" ELSE "retire")
      /\ call'[c].of = v /\ call'[c].current = P!Current(v)
      /\ \A d \in Calls : d # c => call'[d] = call[d]
  <2>1. PICK pc \in {"publish", "retire"} :
          pc = (IF P!Current(v) = 0 THEN "publish" ELSE "retire")
    OBVIOUS
  <2>2. P!Become(c, pc, v, P!Current(v))
    BY <2>1 DEF P!Publish
  <2> QED BY <1>1, <1>3, <2>1, <2>2, CallBecomes
<1>5. PublishTypes'
  BY <1>1, <1>2, <1>4 DEF PublishTypes
<1>6. Intended'
  <2>1. \A d \in Calls : d # c \/ ~Writes(call[d])
    BY <1>2 DEF Writes
  <2>2. \A d \in Calls : Writes(call'[d]) /\ ~deleted => call'[d].of \in DOMAIN status
    BY <1>1, <1>2, <1>4 DEF Intended
  <2>3. \A d \in Calls : call[d].pc = "publish" => call'[d].pc = "publish"
    BY <1>2, <1>4
  <2> QED BY <1>1, <1>2, <2>2, <2>3 DEF Intended
<1>7. Undisturbed'
  <2> SUFFICES ASSUME ~disturbed' PROVE Undisturbed'
    BY DEF Undisturbed
  <2>1. ~disturbed /\ \A d \in Calls : ~Writes(call[d])
    BY <1>2 DEF P!Publishing, Writes
  <2>2. PublishedOf(status) = (IF intended = 0 THEN {} ELSE {intended})
    BY <1>1, <2>1 DEF Undisturbed
  <2>3. \A d \in Calls : Writes(call'[d]) => d = c
    BY <1>4, <2>1
  <2>4. Writes(call'[c])
    BY <1>4 DEF Writes
  <2>5. /\ call'[c].pc = "retire" => PublishedOf(status) \subseteq {call'[c].current}
        /\ call'[c].pc = "publish" => PublishedOf(status) \subseteq {call'[c].of}
    <3>1. PublishedOf(status) \subseteq {P!Served}
      BY <1>1, <2>2, ServedIs
    <3>2. P!Served = 0 => PublishedOf(status) = {}
      BY <1>1, ServedIs
    <3> QED BY <1>4, <3>1, <3>2 DEF P!Current
  <2>6. \A d \in Calls : d # c => call'[d].pc \notin {"retire", "publish"}
    BY <2>3 DEF Writes
  <2> QED BY <1>2, <2>3, <2>4, <2>5, <2>6 DEF Undisturbed
<1> QED BY <1>5, <1>6, <1>7 DEF PublishInv

LEMMA WritesStep ==
  ASSUME PublishInv, NEW c \in Calls, P!Retire(c) \/ P!SetPublished(c) \/ P!WriteFails(c)
  PROVE  PublishInv'
<1>1. PublishTypes /\ Intended /\ Undisturbed
  BY DEF PublishInv
<1>2. /\ call[c] \in Doing /\ call[c].of \in Nat /\ call[c].current \in Nat
      /\ "deprecated" \in VersionStatus /\ "published" \in VersionStatus
  BY <1>1 DEF PublishTypes, Doing, VersionStatus
<1>3. CASE P!Retire(c)
  <2>1. /\ UNCHANGED <<deleted, intended, disturbed, failed>> /\ call[c].pc = "retire"
        /\ P!Set(call[c].current, "deprecated")
        /\ \/ deleted /\ P!Become(c, "idle", 0, 0)
           \/ P!Become(c, "publish", call[c].of, 0)
    BY <1>3 DEF P!Retire
  <2>2. /\ status' \in Seq(VersionStatus) /\ DOMAIN status' = DOMAIN status
        /\ PublishedOf(status') = PublishedOf(status) \ {call[c].current}
        /\ deleted => status' = <<>>
    <3>1. deleted => status = <<>> /\ DOMAIN status = {}
      BY <1>1 DEF Intended
    <3> QED BY <1>1, <1>2, <2>1, <3>1, StatusSet
  <2>3. /\ call' \in [Calls -> Doing]
        /\ \/ deleted /\ call'[c].pc = "idle"
           \/ call'[c].pc = "publish" /\ call'[c].of = call[c].of
        /\ \A d \in Calls : d # c => call'[d] = call[d]
    <3>1. ASSUME P!Become(c, "idle", 0, 0)
          PROVE  /\ call' \in [Calls -> Doing] /\ call'[c].pc = "idle"
                 /\ \A d \in Calls : d # c => call'[d] = call[d]
      BY <1>1, <3>1, CallBecomes
    <3>2. ASSUME P!Become(c, "publish", call[c].of, 0)
          PROVE  /\ call' \in [Calls -> Doing]
                 /\ call'[c].pc = "publish" /\ call'[c].of = call[c].of
                 /\ \A d \in Calls : d # c => call'[d] = call[d]
      BY <1>1, <1>2, <3>2, CallBecomes
    <3> QED BY <2>1, <3>1, <3>2
  <2>4. PublishTypes'
    BY <1>1, <2>1, <2>2, <2>3 DEF PublishTypes
  <2>5. Writes(call[c]) /\ \A d \in Calls : Writes(call'[d]) => Writes(call[d])
    BY <2>1, <2>3 DEF Writes
  <2>6. Intended'
    <3>1. \A d \in Calls : Writes(call'[d]) /\ ~deleted => call'[d].of \in DOMAIN status
      BY <1>1, <2>3, <2>5 DEF Intended
    <3>2. ASSUME intended # 0, ~failed
          PROVE  intended \in PublishedOf(status') \/ \E d \in Calls : call'[d].pc = "publish"
      <4>1. ~deleted
        BY <1>1, <3>2 DEF Intended
      <4> QED BY <2>3, <4>1
    <3>3. deleted => intended = 0
      BY <1>1 DEF Intended
    <3> QED BY <2>1, <2>2, <3>1, <3>2, <3>3 DEF Intended
  <2>7. Undisturbed'
    <3> SUFFICES ASSUME ~disturbed PROVE Undisturbed'
      BY <2>1 DEF Undisturbed
    <3>1. \A d \in Calls : Writes(call[d]) => d = c
      BY <1>1, <2>5 DEF Undisturbed
    <3>2. PublishedOf(status') = {}
      BY <1>1, <2>1, <2>2 DEF Undisturbed
    <3>3. (\A d \in Calls : ~Writes(call'[d])) => intended = 0
      BY <1>1, <2>3 DEF Intended, Writes
    <3> QED BY <2>1, <2>5, <3>1, <3>2, <3>3 DEF Undisturbed
  <2> QED BY <2>4, <2>6, <2>7 DEF PublishInv
<1>4. CASE P!SetPublished(c)
  <2>1. /\ UNCHANGED <<deleted, disturbed, failed>> /\ call[c].pc = "publish"
        /\ P!Set(call[c].of, "published") /\ P!Become(c, "idle", 0, 0)
        /\ intended' = IF deleted THEN 0 ELSE call[c].of
    BY <1>4 DEF P!SetPublished
  <2>2. /\ call' \in [Calls -> Doing] /\ ~Writes(call'[c])
        /\ \A d \in Calls : d # c => call'[d] = call[d]
    BY <1>1, <2>1, CallBecomes DEF Writes
  <2>3. /\ status' \in Seq(VersionStatus) /\ DOMAIN status' = DOMAIN status
        /\ deleted => status' = <<>> /\ PublishedOf(status') = {}
        /\ ~deleted => /\ PublishedOf(status') = PublishedOf(status) \union {call[c].of}
                       /\ call[c].of # 0
    <3>1. deleted => status = <<>> /\ DOMAIN status = {} /\ PublishedOf(<<>>) = {}
      BY <1>1 DEF Intended, PublishedOf
    <3>2. ~deleted => call[c].of \in DOMAIN status /\ call[c].of # 0
      BY <1>1, <2>1 DEF Intended, Writes, PublishTypes
    <3> QED BY <1>1, <1>2, <2>1, <3>1, <3>2, StatusSet
  <2>4. PublishTypes'
    BY <1>1, <1>2, <2>1, <2>2, <2>3 DEF PublishTypes
  <2>5. Writes(call[c]) /\ \A d \in Calls : Writes(call'[d]) => call'[d] = call[d] /\ d # c
    BY <2>1, <2>2 DEF Writes
  <2>6. Intended'
    BY <1>1, <2>1, <2>3, <2>5 DEF Intended
  <2>7. Undisturbed'
    <3> SUFFICES ASSUME ~disturbed PROVE Undisturbed'
      BY <2>1 DEF Undisturbed
    <3>1. \A d \in Calls : ~Writes(call'[d])
      BY <1>1, <2>5 DEF Undisturbed
    <3>2. PublishedOf(status) \subseteq {call[c].of}
      BY <1>1, <2>1 DEF Undisturbed
    <3>3. PublishedOf(status') = IF intended' = 0 THEN {} ELSE {intended'}
      BY <2>1, <2>3, <3>2
    <3>4. \A d \in Calls : call'[d].pc \notin {"retire", "publish"}
      BY <3>1 DEF Writes
    <3> QED BY <3>1, <3>3, <3>4 DEF Undisturbed
  <2> QED BY <2>4, <2>6, <2>7 DEF PublishInv
<1>5. CASE P!WriteFails(c)
  <2>1. /\ UNCHANGED <<status, deleted, intended>> /\ disturbed' /\ failed'
        /\ P!Become(c, "idle", 0, 0)
    BY <1>5 DEF P!WriteFails, P!versions
  <2>2. /\ call' \in [Calls -> Doing] /\ ~Writes(call'[c])
        /\ \A d \in Calls : d # c => call'[d] = call[d]
    BY <1>1, <2>1, CallBecomes DEF Writes
  <2>3. PublishTypes'
    BY <1>1, <2>1, <2>2 DEF PublishTypes
  <2>4. Intended'
    BY <1>1, <2>1, <2>2 DEF Intended
  <2> QED BY <2>1, <2>3, <2>4 DEF PublishInv, Undisturbed
<1> QED BY <1>3, <1>4, <1>5

LEMMA WithdrawStep ==
  ASSUME PublishInv, NEW v, P!Deprecate(v) \/ P!Delete
  PROVE  PublishInv'
<1>1. PublishTypes /\ Intended /\ Undisturbed
  BY DEF PublishInv
<1>2. CASE P!Deprecate(v)
  <2>1. /\ UNCHANGED <<deleted, call, failed>> /\ v \in DOMAIN status
        /\ P!Set(v, "deprecated") /\ intended' = IF intended = v THEN 0 ELSE intended
        /\ disturbed' = (disturbed \/ P!Publishing # {})
    BY <1>2 DEF P!Deprecate
  <2>2. /\ status' \in Seq(VersionStatus) /\ DOMAIN status' = DOMAIN status
        /\ PublishedOf(status') = PublishedOf(status) \ {v} /\ v \in Nat
    <3>1. v \in Nat /\ "deprecated" \in VersionStatus
      BY <1>1, <2>1 DEF PublishTypes, VersionStatus
    <3> QED BY <1>1, <2>1, <3>1, StatusSet
  <2>3. ~deleted
    BY <1>1, <2>1 DEF Intended
  <2>4. PublishTypes'
    BY <1>1, <2>1, <2>2 DEF PublishTypes
  <2>5. Intended'
    BY <1>1, <2>1, <2>2, <2>3 DEF Intended
  <2>6. Undisturbed'
    <3> SUFFICES ASSUME ~disturbed' PROVE Undisturbed'
      BY DEF Undisturbed
    <3>1. ~disturbed /\ \A d \in Calls : ~Writes(call[d])
      BY <2>1 DEF P!Publishing, Writes
    <3>2. PublishedOf(status) = (IF intended = 0 THEN {} ELSE {intended})
      BY <1>1, <3>1 DEF Undisturbed
    <3>3. PublishedOf(status') = (IF intended' = 0 THEN {} ELSE {intended'})
      BY <2>1, <2>2, <3>2
    <3>4. \A d \in Calls : call[d].pc \notin {"retire", "publish"}
      BY <3>1 DEF Writes
    <3> QED BY <2>1, <3>1, <3>3, <3>4 DEF Undisturbed
  <2> QED BY <2>4, <2>5, <2>6 DEF PublishInv
<1>3. CASE P!Delete
  <2>1. /\ UNCHANGED <<call, disturbed, failed>> /\ deleted' /\ status' = <<>> /\ intended' = 0
    BY <1>3 DEF P!Delete
  <2>2. PublishedOf(<<>>) = {} /\ <<>> \in Seq(VersionStatus)
    BY DEF PublishedOf
  <2>3. PublishTypes'
    BY <1>1, <2>1, <2>2 DEF PublishTypes
  <2> QED BY <1>1, <2>1, <2>2, <2>3 DEF PublishInv, Intended, Undisturbed
<1> QED BY <1>2, <1>3

LEMMA PublishStep == PublishInv /\ [P!Next]_(P!vars) => PublishInv'
<1> SUFFICES ASSUME PublishInv, [P!Next]_(P!vars) PROVE PublishInv'
  OBVIOUS
<1>1. ASSUME UNCHANGED <<status, deleted, call, intended, disturbed, failed>> PROVE PublishInv'
  BY <1>1 DEF PublishInv, PublishTypes, Intended, Undisturbed
<1>2. CASE UNCHANGED P!vars
  BY <1>1, <1>2 DEF P!vars, P!versions
<1>3. CASE P!Resolve \/ P!Replace
  BY <1>1, <1>3 DEF P!Resolve, P!Replace, P!versions
<1> QED BY <1>2, <1>3, NumberStep, BeginStep, WritesStep, WithdrawStep DEF P!Next

\* However publishes, deprecations and deletions of any number of calls
\* interleave, a version is served once one was published and none of the
\* writes failed; and it is the one that was published last while nothing overlaps.
THEOREM PublishesTakeEffect == Spec => []PublishTakesEffect
<1>1. Init => PublishInv
  BY PublishStarts DEF Init
<1>2. PublishInv /\ [Next]_vars => PublishInv'
  BY PublishStep, StepsOfParts
<1>3. PublishInv => PublishTakesEffect
  <2> SUFFICES ASSUME PublishInv, P!Publishing = {} PROVE P!PublishTakesEffect
    BY DEF PublishTakesEffect, P!PublishTakesEffect, P!SomethingIsServed
  <2>1. PublishTypes /\ Intended /\ Undisturbed
    BY DEF PublishInv
  <2>2. \A c \in Calls : ~Writes(call[c]) /\ call[c].pc # "publish"
    BY DEF P!Publishing, Writes
  <2>3. P!SomethingIsServed
    BY <2>1, <2>2, ServedIs DEF P!SomethingIsServed, Intended
  <2>4. ASSUME ~disturbed PROVE P!Served = intended /\ P!Cardinality(P!Published) <= 1
    <3>1. P!Published = (IF intended = 0 THEN {} ELSE {intended})
      BY <2>1, <2>2, <2>4, ServedIs DEF Undisturbed
    <3>2. P!Served = intended
      BY <2>1, <3>1, ServedIs
    <3>3. Cardinality({}) = 0 /\ Cardinality({intended}) = 1
      BY FS_EmptySet, FS_Singleton
    <3>4. \A S : P!Cardinality(S) = Cardinality(S)
      BY DEF P!Cardinality, Cardinality
    <3> QED BY <3>1, <3>2, <3>3, <3>4
  <2> QED BY <2>3, <2>4 DEF P!PublishTakesEffect
<1> QED BY <1>1, <1>2, <1>3, PTL DEF Spec

-----------------------------------------------------------------------------
(* An evaluation.                                                          *)

\* The sums of the first terms of a list: there are such, and no others.
SumsOf(f, s, n) ==
  /\ DOMAIN f = 0 .. n
  /\ f[0] = 0 /\ \A k \in 1 .. n : f[k] = f[k - 1] + s[k]

LEMMA SumsExist ==
  ASSUME NEW s \in Seq(Int)
  PROVE  \E f \in [0 .. Len(s) -> Int] : SumsOf(f, s, Len(s))
<1> DEFINE None == {n \in 0 .. Len(s) : ~ \E f \in [0 .. n -> Int] : SumsOf(f, s, n)}
<1> SUFFICES ASSUME None # {} PROVE FALSE
  OBVIOUS
<1>1. None \subseteq Nat
  OBVIOUS
<1>2. PICK n \in None : \A k \in None : n <= k
  BY <1>1, Least
<1>3. n # 0
  <2>1. [k \in 0 .. 0 |-> 0] \in [0 .. 0 -> Int] /\ SumsOf([k \in 0 .. 0 |-> 0], s, 0)
    BY DEF SumsOf
  <2> QED BY <2>1
<1>4. n \in 1 .. Len(s) /\ n - 1 \in 0 .. Len(s) /\ n - 1 \notin None
  BY <1>2, <1>3
<1>5. PICK f \in [0 .. n - 1 -> Int] : SumsOf(f, s, n - 1)
  BY <1>4
<1> DEFINE g == [k \in 0 .. n |-> IF k = n THEN f[n - 1] + s[n] ELSE f[k]]
<1>6. g \in [0 .. n -> Int]
  BY <1>4, <1>5
<1>7. SumsOf(g, s, n)
  BY <1>4, <1>5 DEF SumsOf
<1> QED BY <1>6, <1>7

LEMMA SumsAgree ==
  ASSUME NEW n \in Nat, NEW s, NEW t, \A k \in 1 .. n : s[k] = t[k],
         NEW f, NEW i \in Nat, n <= i, SumsOf(f, s, i), NEW g, NEW j \in Nat, n <= j, SumsOf(g, t, j)
  PROVE  f[n] = g[n]
<1> DEFINE Differ == {k \in 0 .. n : f[k] # g[k]}
<1> SUFFICES ASSUME Differ # {} PROVE FALSE
  OBVIOUS
<1>1. PICK m \in Differ : \A k \in Differ : m <= k
  <2>1. Differ \subseteq Nat
    OBVIOUS
  <2> QED BY <2>1, Least
<1>2. m # 0
  BY DEF SumsOf
<1>3. m \in 1 .. n /\ m - 1 \in 0 .. n /\ m - 1 \notin Differ
  BY <1>1, <1>2
<1>4. f[m] = f[m - 1] + s[m] /\ g[m] = g[m - 1] + t[m] /\ f[m - 1] = g[m - 1]
  BY <1>3 DEF SumsOf
<1> QED BY <1>3, <1>4

LEMMA SumIsSum ==
  ASSUME NEW s \in Seq(Int)
  PROVE  \E f \in [0 .. Len(s) -> Int] : SumsOf(f, s, Len(s)) /\ E!SumOf(s) = f[Len(s)]
<1> DEFINE Step(g) == [n \in 0 .. Len(s) |-> IF n = 0 THEN 0 ELSE g[n - 1] + s[n]]
<1> DEFINE f == CHOOSE g : g = Step(g)
<1>1. Len(s) \in Nat
  OBVIOUS
<1>2. PICK h \in [0 .. Len(s) -> Int] : SumsOf(h, s, Len(s))
  BY SumsExist
<1>3. h = Step(h)
  <2>1. DOMAIN h = 0 .. Len(s) /\ h = [n \in 0 .. Len(s) |-> h[n]]
    BY <1>2
  <2>2. \A n \in 0 .. Len(s) : h[n] = IF n = 0 THEN 0 ELSE h[n - 1] + s[n]
    BY <1>1, <1>2 DEF SumsOf
  <2> QED BY <2>1, <2>2
<1>4. f = Step(f)
  BY <1>3
<1>5. E!SumOf(s) = f[Len(s)]
  BY DEF E!SumOf
<1> HIDE DEF f
<1>6. SumsOf(f, s, Len(s))
  BY <1>1, <1>4 DEF SumsOf
<1>7. f[Len(s)] = h[Len(s)]
  BY <1>1, <1>2, <1>6, SumsAgree
<1> QED BY <1>2, <1>5, <1>7

LEMMA SumOfInts ==
  ASSUME NEW s \in Seq(Int)
  PROVE  E!SumOf(s) \in Int
BY SumIsSum

LEMMA SumOfNone == E!SumOf(<<>>) = 0
<1>1. <<>> \in Seq(Int) /\ Len(<<>>) = 0
  OBVIOUS
<1> QED BY <1>1, SumIsSum DEF SumsOf

LEMMA SumOfMore ==
  ASSUME NEW s \in Seq(Int), NEW x \in Int
  PROVE  E!SumOf(Append(s, x)) = E!SumOf(s) + x
<1> DEFINE t == Append(s, x)
<1> DEFINE n == Len(s)
<1>1. /\ t \in Seq(Int) /\ n \in Nat /\ Len(t) = n + 1 /\ t[n + 1] = x
      /\ \A k \in 1 .. n : s[k] = t[k]
  OBVIOUS
<1>2. PICK f : SumsOf(f, s, n) /\ E!SumOf(s) = f[n]
  BY SumIsSum
<1>3. PICK g : SumsOf(g, t, n + 1) /\ E!SumOf(t) = g[n + 1]
  BY <1>1, SumIsSum
<1> HIDE DEF t, n
<1>4. f[n] = g[n]
  BY <1>1, <1>2, <1>3, SumsAgree
<1>5. g[n + 1] = g[n] + x
  BY <1>1, <1>3 DEF SumsOf
<1> QED BY <1>2, <1>3, <1>4, <1>5 DEF t

Results == [ok : BOOLEAN, rule : Int, verdict : Int, cost : Int]
EvalTypes ==
  /\ total \in Nat /\ cases \in Nat /\ total_cost \in Int /\ scores \in Seq(Int)
  /\ results \in Seq(Results) /\ rows \in Seq(Results)

\* The loop's locals tally with the results it keeps.
ScoresOf(list) == [i \in DOMAIN list |-> E!ScoreOfRow(list[i])]
Tallies ==
  /\ total_cost = E!CostOf(results)
  /\ E!SumOf(scores) = E!SumOf(ScoresOf(results))
  /\ Len(scores) = Cardinality(E!AnsweredIn(results))

Progress ==
  /\ ~evalLost => rows = results
  /\ at = "idle" => summary.status = "none"
  /\ at = "idle" => results = <<>>
  /\ at = "asking" => Len(results) < total
  /\ at \in {"summing", "done"} => Len(results) = total
  /\ summary.status = "completed" =>
       /\ at = "done" /\ summary.cases = total /\ summary.cost = total_cost
       /\ summary.score = E!Average(scores)

EvalInv == EvalTypes /\ Tallies /\ Progress

\* What one more result adds to the tallies.
LEMMA MoreCost ==
  ASSUME NEW list \in Seq(Results), NEW r \in Results
  PROVE  E!CostOf(list) \in Int /\ E!CostOf(Append(list, r)) = E!CostOf(list) + r.cost
<1> DEFINE costs(l) == [i \in DOMAIN l |-> l[i].cost]
<1>1. costs(list) \in Seq(Int) /\ r.cost \in Int
  <2>1. \A x \in Results : x.cost \in Int
    BY DEF Results
  <2> QED BY <2>1
<1>2. costs(Append(list, r)) = Append(costs(list), r.cost)
  OBVIOUS
<1>3. \A l : E!CostOf(l) = E!SumOf(costs(l))
  BY DEF E!CostOf
<1> HIDE DEF costs
<1> QED BY <1>1, <1>2, <1>3, SumOfInts, SumOfMore

LEMMA ScoreIsInt ==
  ASSUME NEW r \in Results
  PROVE  E!ScoreOfRow(r) \in Int
<1>1. r.rule \in Int /\ r.verdict \in Int
  BY DEF Results
<1>2. (r.rule + 200 * r.verdict) \div 2 \in Int
  BY <1>1
<1> QED BY <1>1, <1>2 DEF E!ScoreOfRow, E!WithJudge

LEMMA MoreScore ==
  ASSUME NEW list \in Seq(Results), NEW r \in Results
  PROVE  /\ E!SumOf(ScoresOf(list)) \in Int
         /\ E!SumOf(ScoresOf(Append(list, r))) = E!SumOf(ScoresOf(list)) + E!ScoreOfRow(r)
<1>1. \A x \in Results : E!ScoreOfRow(x) \in Int
  BY ScoreIsInt
<1>2. ScoresOf(list) \in Seq(Int)
  BY <1>1 DEF ScoresOf
<1>3. ScoresOf(Append(list, r)) = Append(ScoresOf(list), E!ScoreOfRow(r))
  BY DEF ScoresOf
<1> QED BY <1>1, <1>2, <1>3, SumOfInts, SumOfMore

LEMMA MoreAnswered ==
  ASSUME NEW list \in Seq(Results), NEW r \in Results
  PROVE  /\ Cardinality(E!AnsweredIn(list)) \in Nat
         /\ Cardinality(E!AnsweredIn(Append(list, r)))
              = Cardinality(E!AnsweredIn(list)) + IF r.ok THEN 1 ELSE 0
<1> DEFINE S == E!AnsweredIn(list)
<1> DEFINE n == Len(list)
<1>1. S \subseteq 1 .. n /\ n \in Nat
  BY DEF E!AnsweredIn
<1>2. IsFiniteSet(S)
  <2>1. IsFiniteSet(1 .. n)
    BY <1>1, FS_Interval
  <2> QED BY <1>1, <2>1, FS_Subset
<1>3. E!AnsweredIn(Append(list, r)) = IF r.ok THEN S \union {n + 1} ELSE S
  BY DEF E!AnsweredIn
<1>4. n + 1 \notin S
  BY <1>1
<1> HIDE DEF S, n
<1>5. Cardinality(S \union {n + 1}) = Cardinality(S) + 1
  BY <1>2, <1>4, FS_AddElement
<1>6. Cardinality(S) \in Nat
  BY <1>2, FS_CardinalityType
<1> QED BY <1>3, <1>5, <1>6 DEF S

LEMMA EvalStarts == E!Init => EvalInv
<1> SUFFICES ASSUME E!Init PROVE EvalInv
  OBVIOUS
<1>1. /\ at = "idle" /\ cases = 0 /\ total = 0 /\ scores = <<>> /\ total_cost = 0
      /\ results = <<>> /\ rows = <<>> /\ summary = E!NoSummary /\ evalLost = FALSE
  BY DEF E!Init
<1>2. E!SumOf(<<>>) = 0 /\ E!AnsweredIn(<<>>) = {} /\ Cardinality({}) = 0
  BY SumOfNone, FS_EmptySet DEF E!AnsweredIn
<1>3. E!CostOf(<<>>) = E!SumOf(<<>>) /\ ScoresOf(<<>>) = <<>>
  <2>1. [i \in DOMAIN <<>> |-> <<>>[i].cost] = <<>>
    OBVIOUS
  <2> QED BY <2>1 DEF E!CostOf, ScoresOf
<1>4. Len(<<>>) = 0 /\ E!NoSummary.status = "none"
  BY DEF E!NoSummary
<1>5. EvalTypes
  <2>1. <<>> \in Seq(Int) /\ <<>> \in Seq(Results)
    OBVIOUS
  <2> QED BY <1>1, <2>1 DEF EvalTypes
<1>6. Tallies
  BY <1>1, <1>2, <1>3, <1>4 DEF Tallies
<1>7. Progress
  BY <1>1, <1>4 DEF Progress
<1> QED BY <1>5, <1>6, <1>7 DEF EvalInv

\* One more case is dealt with: it is answered, and scored, or it is not.
LEMMA KeepStep ==
  ASSUME EvalInv, at = "asking", NEW r \in Results, E!Keep(r),
         UNCHANGED <<cases, total, summary>>,
         total_cost' = total_cost + r.cost,
         IF r.ok THEN scores' = Append(scores, E!ScoreOfRow(r)) ELSE scores' = scores
  PROVE  EvalInv'
<1>1. EvalTypes /\ Tallies /\ Progress
  BY DEF EvalInv
<1>2. /\ results' = Append(results, r)
      /\ \/ rows' = Append(rows, r) /\ evalLost' = evalLost
         \/ rows' = rows /\ evalLost' = TRUE
      /\ at' = IF Len(results) + 1 = total THEN "summing" ELSE "asking"
  BY DEF E!Keep
<1>3. E!ScoreOfRow(r) \in Int /\ r.cost \in Int /\ r.ok \in BOOLEAN
  BY ScoreIsInt DEF Results
<1>4. EvalTypes'
  <2>1. results \in Seq(Results) /\ rows \in Seq(Results) /\ scores \in Seq(Int) /\ total_cost \in Int
    BY <1>1 DEF EvalTypes
  <2>2. \A list \in Seq(Results) : Append(list, r) \in Seq(Results)
    OBVIOUS
  <2>3. results' \in Seq(Results)
    BY <1>2, <2>1, <2>2
  <2>4. rows' \in Seq(Results)
    BY <1>2, <2>1, <2>2
  <2>5. \A list \in Seq(Int) : Append(list, E!ScoreOfRow(r)) \in Seq(Int)
    BY <1>3
  <2>6. scores' \in Seq(Int)
    BY <2>1, <2>5
  <2>7. total_cost' \in Int
    BY <1>3, <2>1
  <2> QED BY <1>1, <2>3, <2>4, <2>6, <2>7 DEF EvalTypes
<1>5. Tallies'
  <2>1. total_cost' = E!CostOf(results')
    BY <1>1, <1>2, MoreCost DEF EvalTypes, Tallies
  <2>2. E!SumOf(scores') = E!SumOf(ScoresOf(results'))
    <3>1. E!SumOf(ScoresOf(results')) = E!SumOf(scores) + E!ScoreOfRow(r) /\ E!SumOf(scores) \in Int
      BY <1>1, <1>2, MoreScore DEF EvalTypes, Tallies
    <3>2. CASE r.ok
      BY <1>1, <1>3, <3>1, <3>2, SumOfMore DEF EvalTypes
    <3>3. CASE ~r.ok
      <4>1. E!ScoreOfRow(r) = 0
        BY <3>3 DEF E!ScoreOfRow
      <4> QED BY <3>1, <3>3, <4>1
    <3> QED BY <3>2, <3>3
  <2>3. Len(scores') = Cardinality(E!AnsweredIn(results'))
    <3>1. Len(scores') = Len(scores) + IF r.ok THEN 1 ELSE 0
      BY <1>1, <1>3 DEF EvalTypes
    <3> QED BY <1>1, <1>2, <3>1, MoreAnswered DEF EvalTypes, Tallies
  <2> QED BY <2>1, <2>2, <2>3 DEF Tallies
<1>6. Progress'
  <2>1. Len(results') = Len(results) + 1 /\ Len(results) \in Nat /\ Len(results) < total
    BY <1>1, <1>2 DEF EvalTypes, Progress
  <2>2. summary.status # "completed"
    BY <1>1 DEF Progress
  <2>3. ~evalLost' => rows' = results'
    BY <1>1, <1>2 DEF Progress
  <2>4. total \in Nat
    BY <1>1 DEF EvalTypes
  <2> QED BY <1>2, <2>1, <2>2, <2>3, <2>4 DEF Progress
<1> QED BY <1>4, <1>5, <1>6 DEF EvalInv

LEMMA AnsweredStep == EvalInv /\ E!Answered => EvalInv'
<1> SUFFICES ASSUME EvalInv, E!Answered PROVE EvalInv'
  OBVIOUS
<1>1. PICK met \in E!Met, cost \in RunCosts,
           verdict \in IF judged THEN Verdicts \cup {E!NoVerdict} ELSE {E!NoVerdict} :
        /\ scores' = Append(scores, E!WithJudge(E!RuleScore(met), verdict))
        /\ total_cost' = total_cost + cost
        /\ E!Keep([ok |-> TRUE, rule |-> E!RuleScore(met), verdict |-> verdict, cost |-> cost])
  BY DEF E!Answered
<1> DEFINE r == [ok |-> TRUE, rule |-> E!RuleScore(met), verdict |-> verdict, cost |-> cost]
<1>2. E!RuleScore(met) \in Int
  <2> DEFINE base == IF met.exact THEN 1000 ELSE IF met.contains THEN 700 ELSE 0
  <2>1. base \in Int
    OBVIOUS
  <2>2. (base + 1000) \div 2 \in Int /\ base \div 2 \in Int
    BY <2>1
  <2> HIDE DEF base
  <2> QED BY <2>1, <2>2 DEF E!RuleScore, base
<1>3. verdict \in Int /\ cost \in Int
  BY EvaluationAssumption DEF E!NoVerdict
<1>4. r \in Results
  BY <1>2, <1>3 DEF Results
<1>5. r.ok /\ r.cost = cost /\ E!ScoreOfRow(r) = E!WithJudge(E!RuleScore(met), verdict)
  BY DEF E!ScoreOfRow
<1>6. at = "asking" /\ UNCHANGED <<cases, total, summary>>
  BY DEF E!Answered
<1> HIDE DEF r
<1> QED BY <1>1, <1>4, <1>5, <1>6, KeepStep DEF r

LEMMA UnansweredStep == EvalInv /\ E!Unanswered => EvalInv'
<1> SUFFICES ASSUME EvalInv, E!Unanswered PROVE EvalInv'
  OBVIOUS
<1> DEFINE r == [ok |-> FALSE, rule |-> 0, verdict |-> E!NoVerdict, cost |-> 0]
<1>1. at = "asking" /\ E!Keep(r) /\ UNCHANGED <<cases, total, scores, total_cost, summary>>
  BY DEF E!Unanswered
<1>2. r \in Results /\ ~r.ok /\ r.cost = 0
  BY DEF Results, E!NoVerdict
<1>3. total_cost' = total_cost + r.cost
  BY <1>1, <1>2 DEF EvalInv, EvalTypes
<1> HIDE DEF r
<1> QED BY <1>1, <1>2, <1>3, KeepStep

LEMMA EvalStep == EvalInv /\ [E!Next]_(E!vars) => EvalInv'
<1> SUFFICES ASSUME EvalInv, [E!Next]_(E!vars) PROVE EvalInv'
  OBVIOUS
<1>1. EvalTypes /\ Tallies /\ Progress
  BY DEF EvalInv
<1>2. CASE E!AddCase \/ E!DeleteCase
  <2>1. /\ cases' \in Nat
        /\ UNCHANGED <<at, total, scores, total_cost, results, rows, summary, evalLost>>
    BY <1>1, <1>2 DEF EvalTypes, E!AddCase, E!DeleteCase, E!loop
  <2> QED BY <1>1, <2>1 DEF EvalInv, EvalTypes, Tallies, Progress
<1>3. CASE E!Begin
  <2>1. /\ at = "idle" /\ cases > 0 /\ total' = cases /\ at' = "asking" /\ summary'.status = "running"
        /\ UNCHANGED <<cases, scores, total_cost, results, rows, evalLost>>
    BY <1>3 DEF E!Begin, E!NoSummary
  <2>2. EvalTypes' /\ Tallies'
    BY <1>1, <2>1 DEF EvalTypes, Tallies
  <2>3. Progress'
    <3>1. Len(results) = 0 /\ cases \in Nat
      BY <1>1, <2>1 DEF EvalTypes, Progress
    <3> QED BY <1>1, <2>1, <3>1 DEF Progress
  <2> QED BY <2>2, <2>3 DEF EvalInv
<1>4. CASE E!Summarise
  <2>1. /\ at = "summing" /\ at' = "done"
        /\ summary'.status = "completed" /\ summary'.cases = total
        /\ summary'.score = E!Average(scores) /\ summary'.cost = total_cost
        /\ UNCHANGED <<cases, total, scores, total_cost, results, rows, evalLost>>
    BY <1>4 DEF E!Summarise, E!loop
  <2>2. EvalTypes' /\ Tallies'
    BY <1>1, <2>1 DEF EvalTypes, Tallies
  <2>3. E!Average(scores') = E!Average(scores)
    BY <2>1
  <2>4. Progress'
    BY <1>1, <2>1, <2>3 DEF Progress
  <2> QED BY <2>2, <2>4 DEF EvalInv
<1>5. CASE E!Cut
  <2>1. /\ at \in {"asking", "summing"} /\ at' = "cut"
        /\ UNCHANGED <<cases, total, scores, total_cost, results, rows, summary, evalLost>>
    BY <1>5 DEF E!Cut, E!loop
  <2>2. EvalTypes' /\ Tallies'
    BY <1>1, <2>1 DEF EvalTypes, Tallies
  <2>3. summary.status # "completed"
    BY <1>1, <2>1 DEF Progress
  <2>4. Progress'
    BY <1>1, <2>1, <2>3 DEF Progress
  <2> QED BY <2>2, <2>4 DEF EvalInv
<1>6. CASE UNCHANGED E!vars
  BY <1>1, <1>6 DEF EvalInv, EvalTypes, Tallies, Progress, E!vars, E!loop
<1> QED BY <1>2, <1>3, <1>4, <1>5, <1>6, AnsweredStep, UnansweredStep DEF E!Next

\* Unless a row was lost, the summary of an evaluation can be recomputed from
\* the rows beside it, for any number of cases, any verdicts and costs.
THEOREM SummariesFollowRows == Spec => []SummaryFollowsRows
<1>1. Init => EvalInv
  BY EvalStarts DEF Init
<1>2. EvalInv /\ [Next]_vars => EvalInv'
  BY EvalStep, StepsOfParts
<1>3. EvalInv => SummaryFollowsRows
  <2> SUFFICES ASSUME EvalInv, summary.status = "completed", ~evalLost
               PROVE  E!SummaryFollowsRows
    BY DEF SummaryFollowsRows, E!SummaryFollowsRows
  <2>1. EvalTypes /\ Tallies /\ Progress
    BY DEF EvalInv
  <2>2. rows = results /\ summary.cases = Len(rows) /\ summary.cost = E!CostOf(rows)
    BY <2>1 DEF Tallies, Progress
  <2>3. summary.score = E!Average(scores)
    BY <2>1 DEF Progress
  <2>4. scores = <<>> <=> E!AnsweredIn(rows) = {}
    <3>1. IsFiniteSet(E!AnsweredIn(results))
      <4>1. E!AnsweredIn(results) \subseteq 1 .. Len(results) /\ Len(results) \in Nat
        BY <2>1 DEF EvalTypes, E!AnsweredIn
      <4>2. IsFiniteSet(1 .. Len(results))
        BY <4>1, FS_Interval
      <4> QED BY <4>1, <4>2, FS_Subset
    <3>2. Cardinality(E!AnsweredIn(results)) = 0 <=> E!AnsweredIn(results) = {}
      BY <3>1, FS_EmptySet
    <3>3. Len(scores) = 0 <=> scores = <<>>
      BY <2>1 DEF EvalTypes
    <3> QED BY <2>1, <2>2, <3>2, <3>3 DEF Tallies
  <2>5. E!MeanScore(rows) = E!Average(scores)
    <3>1. E!SumOf(ScoresOf(rows)) = E!SumOf(scores)
      BY <2>1, <2>2 DEF Tallies
    <3>2. \A S : E!Cardinality(S) = Cardinality(S)
      BY DEF E!Cardinality, Cardinality
    <3>3. E!Cardinality(E!AnsweredIn(rows)) = Len(scores)
      BY <2>1, <2>2, <3>2 DEF Tallies
    <3> QED BY <2>4, <3>1, <3>3 DEF E!MeanScore, E!Average, ScoresOf
  <2> QED BY <2>2, <2>3, <2>5 DEF E!SummaryFollowsRows
<1> QED BY <1>1, <1>2, <1>3, PTL DEF Spec
=============================================================================
