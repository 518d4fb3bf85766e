----------------------------- MODULE ChatStream -----------------------------
(***************************************************************************)
(* Streaming chat completions: execute_chat_stream() of crates/application *)
(* /src/pipeline.rs.  A spawned task walks the candidates, opens a         *)
(* provider stream, forwards its events through a bounded channel to the   *)
(* SSE response (crates/gateway/src/lib.rs, chat_stream) and persists the  *)
(* outcome; the client reads the channel or goes away at any moment, and   *)
(* the task notices only when it next sends.  prepare() is the one of      *)
(* ChatPipeline and is not repeated: a request starts here once prepare()  *)
(* accepted it.                                                            *)
(***************************************************************************)
EXTENDS BreakerState, Sequences, FiniteSets

CONSTANTS
  Request,     \* streaming requests
  Target,      \* (provider, model) pairs
  Idle,        \* no target
  Routes,      \* candidate lists resolve() may return, best priority first
  Attempts,    \* values of RetryConfig::attempts
  MaxAttempts, \* the upper clamp of Attempts, 10 in the code
  Category,    \* error categories of a provider call
  RetryOn,     \* the categories RetryConfig::allows
  Capacity,    \* of the channel, 64 in the code
  MaxEvents    \* bound of the model: deltas one provider stream carries

ASSUME StreamAssumption ==
  /\ Idle \notin Target
  /\ Routes \subseteq Seq(Target) \ {<<>>}
  /\ MaxAttempts \in Nat \ {0}
  /\ Attempts \subseteq 1 .. MaxAttempts
  /\ RetryOn \subseteq Category
  /\ Capacity \in Nat \ {0}
  /\ MaxEvents \in Nat

VARIABLES
  pc,       \* where the task of each request is
  todo,     \* candidates not yet given up, the current one first
  left,     \* calls the current candidate may still get
  breaker,  \* the breaker of each target
  opened,   \* provider streams opened so far: numbers the current one
  emitted,  \* content_emitted of the current stream
  deltas,   \* deltas of the current stream so far
  pending,  \* kind of the event the task is sending
  sent,     \* every event that entered the channel, in order
  got,      \* how many of them the client has read
  client,   \* the receiving half: "open", or "closed" when dropped
  row, usage, cost,  \* ai_requests.status, usage_records, cost_records
  fault     \* history: a write for the request failed and was only logged

streamVars == <<opened, emitted, deltas>>
channel == <<pending, sent, got, client>>
ledger == <<row, usage, cost>>
vars == <<pc, todo, left, breaker, streamVars, channel, ledger, fault>>

\* content: ContentDelta; side: ReasoningDelta, ToolCallStarted and
\* ToolCallArgumentsDelta; the last two end the client's stream.
Kinds == {"started", "content", "side", "completed", "failed"}
Last == {"completed", "failed"}

\* Between a check() that let the task through and its report.
Calling(r) ==
  \/ pc[r] \in {"open", "stream"}
  \/ pc[r] = "sending" /\ pending[r] \notin Last

Current(r) == Head(todo[r])

Queued(r) == Len(sent[r]) - got[r]

Init ==
  /\ pc = [r \in Request |-> "new"]
  /\ todo = [r \in Request |-> <<>>]
  /\ left = [r \in Request |-> 0]
  /\ breaker = [t \in Target |-> NewBreaker]
  /\ opened = [r \in Request |-> 0]
  /\ emitted = [r \in Request |-> FALSE]
  /\ deltas = [r \in Request |-> 0]
  /\ pending = [r \in Request |-> "started"]
  /\ sent = [r \in Request |-> <<>>]
  /\ got = [r \in Request |-> 0]
  /\ client = [r \in Request |-> "open"]
  /\ row = [r \in Request |-> "none"]
  /\ usage = [r \in Request |-> 0]
  /\ cost = [r \in Request |-> 0]
  /\ fault = [r \in Request |-> FALSE]

-----------------------------------------------------------------------------

Goto(r, next) == pc' = [pc EXCEPT ![r] = next]

\* Send the event, then go on where its kind says.
Send(r, kind) ==
  /\ Goto(r, "sending")
  /\ pending' = [pending EXCEPT ![r] = kind]
  /\ UNCHANGED <<sent, got, client>>

-----------------------------------------------------------------------------
(* Faulty variants, each a plausible slip in pipeline.rs.                   *)

\* The return after a failed event is missing.
AfterSendWalking(r) ==
  Goto(r, CASE pending[r] = "completed" -> "done"
            [] pending[r] = "failed" -> "walk"
            [] OTHER -> "stream")

\* A lost last event is taken for a cancellation.
AfterLostSendCancelling(r) == Goto(r, "finish_gone")

\* The failure path returns without a failed event.
SendLastUnlessFailed(r, from, kind) ==
  /\ pc[r] = from
  /\ IF kind = "failed" THEN Goto(r, "done") /\ UNCHANGED channel ELSE Send(r, kind)
  /\ UNCHANGED <<todo, left, breaker, streamVars, ledger, fault>>

\* Failover opens the next candidate without asking its breaker.
GiveUpUnchecked(r) ==
  /\ todo' = [todo EXCEPT ![r] = Tail(@)]
  /\ Goto(r, IF Len(todo[r]) > 1 THEN "open" ELSE "walk")
  /\ left' = [left EXCEPT ![r] = IF Len(todo[r]) > 1 THEN 1 ELSE 0]

\* An interrupted stream is not metered.
MetersCutNever(r) == FALSE

-----------------------------------------------------------------------------

Retries(n, category) == n > 1 /\ category \in RetryOn

\* On to the next candidate.
GiveUp(r) ==
  /\ todo' = [todo EXCEPT ![r] = Tail(@)]
  /\ Goto(r, "walk")
  /\ left' = [left EXCEPT ![r] = 0]

\* Once content went out, an error ends the request.
Cuts(r) == emitted[r]

\* output_chars > 0 for an interrupted stream: adapters emit no empty content.
MetersCut(r) == emitted[r]

-----------------------------------------------------------------------------
(* The candidate loop                                                       *)

\* prepare() has inserted the row; the task is spawned.
Start(r) ==
  /\ pc[r] = "new"
  /\ row' = [row EXCEPT ![r] = "accepted"]
  /\ \E route \in Routes : todo' = [todo EXCEPT ![r] = route]
  /\ Goto(r, "walk")
  /\ UNCHANGED <<left, breaker, streamVars, channel, usage, cost, fault>>

Admit(r) ==
  /\ pc[r] = "walk" /\ todo[r] # <<>>
  /\ Admits(breaker[Current(r)])
  /\ breaker' = [breaker EXCEPT ![Current(r)] = AfterCheck(@)]
  /\ \E n \in Attempts : left' = [left EXCEPT ![r] = n]
  /\ Goto(r, "open")
  /\ UNCHANGED <<todo, streamVars, channel, ledger, fault>>

Skip(r) ==
  /\ pc[r] = "walk" /\ todo[r] # <<>>
  /\ ~Admits(breaker[Current(r)])
  /\ GiveUp(r)
  /\ UNCHANGED <<breaker, streamVars, channel, ledger, fault>>

Exhausted(r) ==
  /\ pc[r] = "walk" /\ todo[r] = <<>>
  /\ Goto(r, "finish_err")
  /\ UNCHANGED <<todo, left, breaker, streamVars, channel, ledger, fault>>

\* registry.get_for() fails: the candidate is left, its breaker not told.
NoAdapter(r) ==
  /\ pc[r] = "open"
  /\ GiveUp(r)
  /\ UNCHANGED <<breaker, streamVars, channel, ledger, fault>>

\* A report of failure, then the same target again or the next candidate.
FailCall(r) ==
  /\ breaker' = [breaker EXCEPT ![Current(r)] = AfterFailure(@)]
  /\ \E category \in Category :
       IF Retries(left[r], category)
       THEN left' = [left EXCEPT ![r] = @ - 1] /\ Goto(r, "open") /\ UNCHANGED todo
       ELSE GiveUp(r)

\* chat_stream() fails before a stream exists.
OpenErr(r) ==
  /\ pc[r] = "open"
  /\ FailCall(r)
  /\ UNCHANGED <<streamVars, channel, ledger, fault>>

OpenOk(r) ==
  /\ pc[r] = "open"
  /\ opened' = [opened EXCEPT ![r] = @ + 1]
  /\ emitted' = [emitted EXCEPT ![r] = FALSE]
  /\ deltas' = [deltas EXCEPT ![r] = 0]
  /\ Send(r, "started")
  /\ UNCHANGED <<todo, left, breaker, ledger, fault>>

-----------------------------------------------------------------------------
(* The provider stream                                                      *)

Delta(r, kind) ==
  /\ pc[r] = "stream"
  /\ deltas[r] < MaxEvents
  /\ deltas' = [deltas EXCEPT ![r] = @ + 1]
  /\ emitted' = [emitted EXCEPT ![r] = @ \/ kind = "content"]
  /\ Send(r, kind)
  /\ UNCHANGED <<todo, left, breaker, opened, ledger, fault>>

ContentDelta(r) == Delta(r, "content")
SideDelta(r) == Delta(r, "side")

\* ProviderError after content: no replay, the request ends.
StreamCut(r) ==
  /\ pc[r] = "stream"
  /\ Cuts(r)
  /\ breaker' = [breaker EXCEPT ![Current(r)] = AfterFailure(@)]
  /\ left' = [left EXCEPT ![r] = 0]
  /\ Goto(r, "finish_cut")
  /\ UNCHANGED <<todo, streamVars, channel, ledger, fault>>

\* ProviderError before content: like a failed open.
StreamErr(r) ==
  /\ pc[r] = "stream"
  /\ ~Cuts(r)
  /\ FailCall(r)
  /\ UNCHANGED <<streamVars, channel, ledger, fault>>

\* The provider stream ends without an error, with or without a
\* ResponseCompleted.
StreamEnd(r) ==
  /\ pc[r] = "stream"
  /\ breaker' = [breaker EXCEPT ![Current(r)] = AfterSuccess(@)]
  /\ left' = [left EXCEPT ![r] = 0]
  /\ Goto(r, "finish_ok")
  /\ UNCHANGED <<todo, streamVars, channel, ledger, fault>>

-----------------------------------------------------------------------------
(* tx.send().await                                                          *)

\* The receiver is dropped: send() returns an error.
Gone(r) == client[r] = "closed"

AfterSend(r) == Goto(r, IF pending[r] \in Last THEN "done" ELSE "stream")

\* What a failed send means: the last event's is ignored, any other's is the
\* client's cancellation, which leaves the candidate loop without a report.
AfterLostSend(r) == Goto(r, IF pending[r] \in Last THEN "done" ELSE "finish_gone")

SendOk(r) ==
  /\ pc[r] = "sending"
  /\ ~Gone(r)
  /\ Queued(r) < Capacity
  /\ sent' = [sent EXCEPT ![r] = Append(@, [kind |-> pending[r], stream |-> opened[r]])]
  /\ AfterSend(r)
  /\ UNCHANGED <<todo, left, breaker, streamVars, pending, got, client, ledger, fault>>

SendLost(r) ==
  /\ pc[r] = "sending"
  /\ Gone(r)
  /\ AfterLostSend(r)
  /\ left' = [left EXCEPT ![r] = 0]
  /\ UNCHANGED <<todo, breaker, streamVars, channel, ledger, fault>>

-----------------------------------------------------------------------------
(* persist_stream_success(), persist_stream_failure(),                      *)
(* persist_client_cancelled(): each write may fail and the next is tried.   *)

Write(r, effect, skip) ==
  \/ effect /\ UNCHANGED fault
  \/ skip /\ fault' = [fault EXCEPT ![r] = TRUE]

FinishRow(r, from, status, next) ==
  /\ pc[r] = from
  /\ Write(r, row' = [row EXCEPT ![r] = status], UNCHANGED row)
  /\ Goto(r, next)
  /\ UNCHANGED <<todo, left, breaker, streamVars, channel, usage, cost>>

InsertUsage(r, from, next) ==
  /\ pc[r] = from
  /\ Write(r, usage' = [usage EXCEPT ![r] = @ + 1], UNCHANGED usage)
  /\ Goto(r, next)
  /\ UNCHANGED <<todo, left, breaker, streamVars, channel, row, cost>>

Billed(r, from, next) ==
  /\ cost' = [cost EXCEPT ![r] = @ + 1]
  /\ Goto(r, next)

InsertCost(r, from, next) ==
  /\ pc[r] = from
  /\ Write(r, Billed(r, from, next), UNCHANGED cost /\ Goto(r, next))
  /\ UNCHANGED <<todo, left, breaker, streamVars, channel, row, usage>>

\* emit_audit(), then the last event.
SendLast(r, from, kind) ==
  /\ pc[r] = from
  /\ Send(r, kind)
  /\ UNCHANGED <<todo, left, breaker, streamVars, ledger, fault>>

PersistSuccess(r) ==
  \/ FinishRow(r, "finish_ok", "completed", "usage_ok")
  \/ InsertUsage(r, "usage_ok", "cost_ok")
  \/ InsertCost(r, "cost_ok", "audit_ok")
  \/ SendLast(r, "audit_ok", "completed")

PersistFailure(r) ==
  \/ FinishRow(r, "finish_err", "failed", "audit_err")
  \/ FinishRow(r, "finish_cut", "failed",
               IF MetersCut(r) THEN "usage_cut" ELSE "audit_err")
  \/ InsertUsage(r, "usage_cut", "cost_cut")
  \/ InsertCost(r, "cost_cut", "audit_err")
  \/ SendLast(r, "audit_err", "failed")

PersistCancelled(r) ==
  \/ FinishRow(r, "finish_gone", "client_cancelled", "audit_gone")
  \/ /\ pc[r] = "audit_gone"
     /\ Goto(r, "done")
     /\ UNCHANGED <<todo, left, breaker, streamVars, channel, ledger, fault>>

-----------------------------------------------------------------------------
(* The client, time and crashes                                             *)

Receive(r) ==
  /\ client[r] = "open"
  /\ Queued(r) > 0
  /\ got' = [got EXCEPT ![r] = @ + 1]
  /\ UNCHANGED <<pc, todo, left, breaker, streamVars, pending, sent, client,
                 ledger, fault>>

\* The response body is dropped, and the receiver with what it had not read.
Hangup(r) ==
  /\ pc[r] \notin {"new", "dead"}
  /\ client[r] = "open"
  /\ client' = [client EXCEPT ![r] = "closed"]
  /\ UNCHANGED <<pc, todo, left, breaker, streamVars, pending, sent, got,
                 ledger, fault>>

\* The process dies and starts again: tasks, channels and breakers are gone.
Crash ==
  /\ \E r \in Request : pc[r] \notin {"new", "done", "dead"}
  /\ pc' = [r \in Request |->
              IF pc[r] \in {"new", "done"} THEN pc[r] ELSE "dead"]
  /\ left' = [r \in Request |-> 0]
  /\ breaker' = [t \in Target |-> NewBreaker]
  /\ client' = [r \in Request |-> IF pc[r] = "new" THEN client[r] ELSE "closed"]
  /\ UNCHANGED <<todo, streamVars, pending, sent, got, ledger, fault>>

Tick ==
  /\ \E t \in Target : AfterTick(breaker[t]) # breaker[t]
  /\ breaker' = [t \in Target |-> AfterTick(breaker[t])]
  /\ UNCHANGED <<pc, todo, left, streamVars, channel, ledger, fault>>

\* The task of r makes a step, or its provider does.
Step(r) ==
  \/ Start(r) \/ Admit(r) \/ Skip(r) \/ Exhausted(r)
  \/ NoAdapter(r) \/ OpenErr(r) \/ OpenOk(r)
  \/ ContentDelta(r) \/ SideDelta(r)
  \/ StreamCut(r) \/ StreamErr(r) \/ StreamEnd(r)
  \/ SendOk(r) \/ SendLost(r)
  \/ PersistSuccess(r) \/ PersistFailure(r) \/ PersistCancelled(r)

Next ==
  \/ \E r \in Request : Step(r) \/ Receive(r) \/ Hangup(r)
  \/ Crash
  \/ Tick

Spec == Init /\ [][Next]_vars

\* The task is scheduled and provider streams end by timeout_ms; a client that
\* stays reads what is queued for it.
FairSpec ==
  /\ Spec
  /\ \A r \in Request : WF_vars(Step(r)) /\ WF_vars(Receive(r))

-----------------------------------------------------------------------------

\* The tables are written as RequestLedger says.
Ledger == INSTANCE RequestLedger
LedgerSpec == Ledger!Spec

\* The breakers are used as CircuitBreaker says.
Breakers == INSTANCE CircuitBreaker WITH
  Caller <- Request,
  flight <- [r \in Request |-> IF Calling(r) THEN Current(r) ELSE Idle]
BreakerSpec == Breakers!Spec

\* A stream keeps to both protocols, whatever its client and provider do.
Protocols == LedgerSpec /\ BreakerSpec

\* "Once content is produced the model must not be switched and replayed
\* silently" (pipeline.rs:561): after a content event only events of the same
\* provider stream follow.
NoReplayAfterContent ==
  \A r \in Request : \A i, j \in DOMAIN sent[r] :
    (i < j /\ sent[r][i].kind = "content")
       => sent[r][j].stream = sent[r][i].stream

\* The events in the channel are well formed: every delta belongs to a stream
\* announced by a started event before it, nothing follows the last event, and
\* nothing of another stream follows content.
WellFormedStream == NoReplayAfterContent /\
  \A r \in Request : \A j \in DOMAIN sent[r] :
    /\ sent[r][j].kind \in Last => j = Len(sent[r])
    /\ sent[r][j].kind \in {"content", "side"} =>
         \E i \in 1 .. j - 1 : sent[r][i] = [kind |-> "started", stream |-> sent[r][j].stream]

\* A row says client_cancelled only when the client really went away, and then
\* no last event was promised to it.
CancelledOnlyIfGone ==
  \A r \in Request : row[r] = "client_cancelled" =>
    /\ client[r] = "closed"
    /\ \A i \in DOMAIN sent[r] : sent[r][i].kind \notin Last

\* What the client has been told is already durable: the last event follows the
\* writes, so it agrees with the tables unless a write failed, and content that
\* went out in an interrupted stream is metered and billed once; and a row that says
\* cancelled is one of a client that has gone and was promised nothing.
LastEventMatchesLedger == CancelledOnlyIfGone /\
  \A r \in Request : \A i \in DOMAIN sent[r] : ~fault[r] =>
    /\ sent[r][i].kind = "completed" =>
         row[r] = "completed" /\ usage[r] = 1 /\ cost[r] = 1
    /\ sent[r][i].kind = "failed" =>
         /\ row[r] = "failed"
         /\ (\E j \in 1 .. i : sent[r][j].kind = "content")
              => usage[r] = 1 /\ cost[r] = 1

\* Every accepted stream reaches a terminal row, also after a cancellation and
\* with a full channel, unless the process dies or the write fails.
AcceptedSettles ==
  \A r \in Request :
    (row[r] = "accepted") ~>
      (row[r] \notin {"none", "accepted"} \/ pc[r] = "dead" \/ fault[r])

\* A client that stays reads a last event, unless the process dies.
StayingClientIsAnswered ==
  \A r \in Request :
    (row[r] = "accepted") ~>
      \/ client[r] = "closed"
      \/ \E i \in 1 .. got[r] : sent[r][i].kind \in Last

\* A stream comes to its end on both sides: in the tables and for the client.
StreamsSettle == AcceptedSettles /\ StayingClientIsAnswered

=============================================================================
