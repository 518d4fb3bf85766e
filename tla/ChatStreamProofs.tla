-------------------------- MODULE ChatStreamProofs --------------------------
(***************************************************************************)
(* ChatStream implements RequestLedger and CircuitBreaker, its events are  *)
(* well formed and its last event agrees with the tables, for any requests, *)
(* targets, routes, attempts, errors, and a channel of any capacity.       *)
(***************************************************************************)
EXTENDS ChatStream, TLAPS

Places ==
  {"new", "walk", "open", "stream", "sending",
   "finish_ok", "usage_ok", "cost_ok", "audit_ok",
   "finish_err", "finish_cut", "usage_cut", "cost_cut", "audit_err",
   "finish_gone", "audit_gone", "done", "dead"}

Event == [kind : Kinds, stream : Nat]

Types ==
  /\ pc \in [Request -> Places]
  /\ opened \in [Request -> Nat]
  /\ emitted \in [Request -> BOOLEAN]
  /\ pending \in [Request -> Kinds]
  /\ sent \in [Request -> Seq(Event)]
  /\ client \in [Request -> {"open", "closed"}]
  /\ row \in [Request -> {"none", "accepted", "completed", "failed", "client_cancelled"}]
  /\ usage \in [Request -> Nat]
  /\ cost \in [Request -> Nat]
  /\ fault \in [Request -> BOOLEAN]

-----------------------------------------------------------------------------
(* What a sequence of events is.                                           *)

Has(s, kind) == \E i \in 1 .. Len(s) : s[i].kind = kind
HasLast(s) == Has(s, "completed") \/ Has(s, "failed")

Announced(s, n) == \E i \in 1 .. Len(s) : s[i] = [kind |-> "started", stream |-> n]

\* All content is of stream n.
ContentOf(s, n) == \A i \in 1 .. Len(s) : s[i].kind = "content" => s[i].stream = n

Formed(s) ==
  /\ \A i, j \in 1 .. Len(s) : (i < j /\ s[i].kind = "content") => s[j].stream = s[i].stream
  /\ \A j \in 1 .. Len(s) :
       /\ s[j].kind \in Last => j = Len(s)
       /\ s[j].kind \in {"content", "side"} =>
            \E i \in 1 .. j - 1 : s[i] = [kind |-> "started", stream |-> s[j].stream]

\* What one more event makes of a sequence.
LEMMA AppendFacts ==
  ASSUME NEW s \in Seq(Event), NEW e \in Event
  PROVE  /\ Append(s, e) \in Seq(Event) /\ Len(s) \in Nat /\ Len(Append(s, e)) = Len(s) + 1
         /\ \A i \in 1 .. Len(s) : Append(s, e)[i] = s[i]
         /\ Append(s, e)[Len(s) + 1] = e
         /\ 1 .. Len(s) + 1 = 1 .. Len(s) \union {Len(s) + 1}
  OBVIOUS

\* An event that may be sent leaves the sequence well formed and adds its kind.
LEMMA AppendEvent ==
  ASSUME NEW s \in Seq(Event), NEW e \in Event, Formed(s), ~HasLast(s), ContentOf(s, e.stream),
         e.kind \in {"content", "side"} => Announced(s, e.stream)
  PROVE  /\ Append(s, e) \in Seq(Event)
         /\ Formed(Append(s, e)) /\ ContentOf(Append(s, e), e.stream)
         /\ \A kind : Has(Append(s, e), kind) <=> Has(s, kind) \/ e.kind = kind
         /\ Announced(s, e.stream) \/ e.kind = "started" => Announced(Append(s, e), e.stream)
<1> DEFINE t == Append(s, e)
           n == Len(s)
<1>1. /\ t \in Seq(Event) /\ n \in Nat /\ Len(t) = n + 1
      /\ \A i \in 1 .. n : t[i] = s[i]
      /\ t[n + 1] = e
      /\ 1 .. n + 1 = 1 .. n \union {n + 1}
  BY AppendFacts
<1> HIDE DEF t
<1>2. ContentOf(t, e.stream)
  BY <1>1 DEF ContentOf
<1>3. \A kind : Has(t, kind) <=> Has(s, kind) \/ e.kind = kind
  BY <1>1 DEF Has
<1>4. Announced(s, e.stream) => Announced(t, e.stream)
  BY <1>1 DEF Announced
<1>5. e.kind = "started" => Announced(t, e.stream)
  <2>1. e.kind = "started" => e = [kind |-> "started", stream |-> e.stream]
    BY DEF Event
  <2> QED BY <1>1, <2>1 DEF Announced
<1>6. \A i, j \in 1 .. Len(t) : (i < j /\ t[i].kind = "content") => t[j].stream = t[i].stream
  <2> SUFFICES ASSUME NEW i \in 1 .. n + 1, NEW j \in 1 .. n + 1, i < j, t[i].kind = "content"
               PROVE  t[j].stream = t[i].stream
    BY <1>1
  <2>1. i \in 1 .. n /\ t[i] = s[i]
    BY <1>1
  <2>2. CASE j = n + 1
    BY <1>1, <2>1, <2>2 DEF ContentOf
  <2>3. CASE j \in 1 .. n
    BY <1>1, <2>1, <2>3 DEF Formed
  <2> QED BY <1>1, <2>2, <2>3
<1>7. \A j \in 1 .. Len(t) : t[j].kind \in Last => j = Len(t)
  BY <1>1 DEF HasLast, Has, Last
<1>8. \A j \in 1 .. Len(t) : t[j].kind \in {"content", "side"} =>
        \E i \in 1 .. j - 1 : t[i] = [kind |-> "started", stream |-> t[j].stream]
  <2> SUFFICES ASSUME NEW j \in 1 .. n + 1, t[j].kind \in {"content", "side"}
               PROVE  \E i \in 1 .. j - 1 : t[i] = [kind |-> "started", stream |-> t[j].stream]
    BY <1>1
  <2>1. CASE j = n + 1
    <3>1. PICK i \in 1 .. n : s[i] = [kind |-> "started", stream |-> e.stream]
      BY <1>1, <2>1 DEF Announced
    <3>2. i \in 1 .. j - 1 /\ t[i] = [kind |-> "started", stream |-> t[j].stream]
      BY <1>1, <2>1, <3>1
    <3> QED BY <3>2
  <2>2. CASE j \in 1 .. n
    <3>1. PICK i \in 1 .. j - 1 : s[i] = [kind |-> "started", stream |-> s[j].stream]
      BY <1>1, <2>2 DEF Formed
    <3>2. i \in 1 .. j - 1 /\ t[i] = [kind |-> "started", stream |-> t[j].stream]
      BY <1>1, <2>2, <3>1
    <3> QED BY <3>2
  <2> QED BY <1>1, <2>1, <2>2
<1>9. Formed(t)
  BY <1>6, <1>7, <1>8 DEF Formed
<1> QED BY <1>1, <1>2, <1>3, <1>4, <1>5, <1>9 DEF t

-----------------------------------------------------------------------------
(* The invariant.                                                          *)

\* The task has yet to write an outcome.
Trying(r) ==
  \/ pc[r] \in {"walk", "open", "stream", "finish_ok", "finish_err", "finish_cut", "finish_gone"}
  \/ pc[r] = "sending" /\ pending[r] \notin Last
Succeeded(r) == pc[r] = "audit_ok" \/ (pc[r] = "sending" /\ pending[r] = "completed")
Failing(r) == pc[r] = "audit_err" \/ (pc[r] = "sending" /\ pending[r] = "failed")

\* What a task may have written by the place it is at.
WrittenSoFar(r) ==
  /\ pc[r] = "new" => row[r] = "none"
  /\ Trying(r) => row[r] = "accepted"
  /\ pc[r] \in {"usage_ok", "cost_ok", "usage_cut", "cost_cut"} =>
       row[r] \in {"accepted", "completed", "failed"}
  /\ Trying(r) \/ pc[r] \in {"new", "usage_ok", "usage_cut"} => usage[r] = 0
  /\ Trying(r) \/ pc[r] \in {"new", "usage_ok", "usage_cut", "cost_ok", "cost_cut"} => cost[r] = 0

\* What it has written when no write failed.
WrittenWithoutFault(r) == ~fault[r] =>
  /\ pc[r] \in {"usage_ok", "cost_ok"} \/ Succeeded(r) => row[r] = "completed"
  /\ pc[r] \in {"usage_cut", "cost_cut"} \/ Failing(r) => row[r] = "failed"
  /\ pc[r] \in {"cost_ok", "cost_cut"} \/ Succeeded(r) => usage[r] = 1
  /\ Succeeded(r) => cost[r] = 1
  /\ Failing(r) /\ Has(sent[r], "content") => usage[r] = 1 /\ cost[r] = 1

\* What the channel has seen by the place the task is at: content only of the
\* stream it reads, and only while content_emitted remembers it.
Spoken(r) ==
  /\ pc[r] \in {"new", "walk", "open", "finish_err"} => ~Has(sent[r], "content")
  /\ pc[r] \in {"stream", "sending"} /\ (pc[r] = "sending" => pending[r] \notin Last) /\ ~emitted[r]
       => ~Has(sent[r], "content")
  /\ pc[r] = "sending" /\ pending[r] = "content" => emitted[r]
  /\ pc[r] = "finish_cut" => emitted[r]
  /\ pc[r] = "stream" \/ (pc[r] = "sending" /\ pending[r] \in {"content", "side"})
       => Announced(sent[r], opened[r])
  /\ Formed(sent[r]) /\ ContentOf(sent[r], opened[r])
  /\ pc[r] # "done" => ~HasLast(sent[r])

\* A cancellation is one of a client that has gone and was promised nothing.
Cancels(r) ==
  /\ pc[r] \in {"finish_gone", "audit_gone"} => client[r] = "closed"
  /\ row[r] = "client_cancelled" =>
       client[r] = "closed" /\ ~HasLast(sent[r]) /\ pc[r] \in {"audit_gone", "done", "dead"}

\* What the last event has told the client.
Told(r) == ~fault[r] =>
  /\ Has(sent[r], "completed") => row[r] = "completed" /\ usage[r] = 1 /\ cost[r] = 1
  /\ Has(sent[r], "failed") =>
       /\ row[r] = "failed"
       /\ Has(sent[r], "content") => usage[r] = 1 /\ cost[r] = 1

Consistent(r) ==
  WrittenSoFar(r) /\ WrittenWithoutFault(r) /\ Spoken(r) /\ Cancels(r) /\ Told(r)

IInv == Types /\ \A r \in Request : Consistent(r)

-----------------------------------------------------------------------------

\* A stream that was not started has sent and written nothing.
LEMMA InitInvariant == Init => IInv
<1> SUFFICES ASSUME Init PROVE IInv
  OBVIOUS
<1>1. Types
  BY DEF Init, Types, Places, Kinds
<1>2. ASSUME NEW r \in Request PROVE Consistent(r)
  <2>1. sent[r] = <<>> /\ Len(sent[r]) = 0
    BY DEF Init
  <2>2. /\ \A kind : ~Has(sent[r], kind)
        /\ Formed(sent[r]) /\ ContentOf(sent[r], opened[r])
    BY <2>1 DEF Has, Formed, ContentOf
  <2> QED BY <2>2 DEF Init, Consistent, WrittenSoFar, WrittenWithoutFault, Spoken, Cancels, Told,
                      Trying, Succeeded, Failing, HasLast
<1> QED BY <1>1, <1>2 DEF IInv

\* A step of one stream that leaves the other streams alone.
LEMMA OneTask ==
  ASSUME IInv, NEW r \in Request, Types',
         \A q \in Request \ {r} :
           /\ pc'[q] = pc[q] /\ opened'[q] = opened[q] /\ emitted'[q] = emitted[q]
           /\ pending'[q] = pending[q] /\ sent'[q] = sent[q] /\ client'[q] = client[q]
           /\ row'[q] = row[q] /\ usage'[q] = usage[q] /\ cost'[q] = cost[q]
           /\ fault'[q] = fault[q],
         Consistent(r)'
  PROVE  IInv'
  BY DEF IInv, Consistent, WrittenSoFar, WrittenWithoutFault, Spoken, Cancels, Told,
         Trying, Succeeded, Failing

\* Steps that only move the task: of the candidate loop, of a provider that fails
\* or ends, of a client found gone, and after a cancellation.
Moves(r) ==
  \/ Admit(r) \/ Skip(r) \/ Exhausted(r) \/ NoAdapter(r) \/ OpenErr(r)
  \/ StreamCut(r) \/ StreamErr(r) \/ StreamEnd(r) \/ SendLost(r)
  \/ pc[r] = "audit_gone" /\ Goto(r, "done")
     /\ UNCHANGED <<todo, left, breaker, streamVars, channel, ledger, fault>>

\* Where a failed call goes.
LEMMA FailCallMoves ==
  ASSUME NEW r \in Request, FailCall(r)
  PROVE  \E place \in {"walk", "open"} : pc' = [pc EXCEPT ![r] = place]
  BY DEF FailCall, GiveUp, Goto

\* Where those steps go, and on which condition.
LEMMA MovesTo ==
  ASSUME NEW r \in Request, Moves(r)
  PROVE  /\ UNCHANGED <<opened, emitted, pending, sent, client, row, usage, cost, fault>>
         /\ \E place \in Places :
              /\ pc' = [pc EXCEPT ![r] = place]
              /\ \/ pc[r] = "walk" /\ place \in {"open", "walk", "finish_err"}
                 \/ pc[r] = "open" /\ place \in {"walk", "open"}
                 \/ pc[r] = "stream" /\ emitted[r] /\ place = "finish_cut"
                 \/ pc[r] = "stream" /\ ~emitted[r] /\ place \in {"walk", "open"}
                 \/ pc[r] = "stream" /\ place = "finish_ok"
                 \/ /\ pc[r] = "sending" /\ client[r] = "closed"
                    /\ place = IF pending[r] \in Last THEN "done" ELSE "finish_gone"
                 \/ pc[r] = "audit_gone" /\ place = "done"
<1> USE DEF streamVars, channel, ledger, Goto, Places
<1>1. CASE Admit(r) \/ Skip(r) \/ Exhausted(r) \/ NoAdapter(r)
  BY <1>1 DEF Admit, Skip, Exhausted, NoAdapter, GiveUp
<1>2. CASE OpenErr(r) \/ StreamErr(r)
  BY <1>2, FailCallMoves DEF OpenErr, StreamErr, Cuts
<1>3. CASE StreamCut(r) \/ StreamEnd(r)
  BY <1>3 DEF StreamCut, StreamEnd, Cuts
<1>4. CASE SendLost(r)
  BY <1>4 DEF SendLost, Gone, AfterLostSend
<1> QED BY <1>1, <1>2, <1>3, <1>4 DEF Moves

LEMMA MovesKeep == ASSUME IInv, NEW r \in Request, Moves(r) PROVE IInv'
<1>1. Types /\ Consistent(r)
  BY DEF IInv
<1>2. UNCHANGED <<opened, emitted, pending, sent, client, row, usage, cost, fault>>
  BY MovesTo
<1>3. PICK place \in Places :
        /\ pc' = [pc EXCEPT ![r] = place]
        /\ \/ pc[r] = "walk" /\ place \in {"open", "walk", "finish_err"}
           \/ pc[r] = "open" /\ place \in {"walk", "open"}
           \/ pc[r] = "stream" /\ emitted[r] /\ place = "finish_cut"
           \/ pc[r] = "stream" /\ ~emitted[r] /\ place \in {"walk", "open"}
           \/ pc[r] = "stream" /\ place = "finish_ok"
           \/ /\ pc[r] = "sending" /\ client[r] = "closed"
              /\ place = IF pending[r] \in Last THEN "done" ELSE "finish_gone"
           \/ pc[r] = "audit_gone" /\ place = "done"
  BY MovesTo
<1>4. Types' /\ pc'[r] = place
  BY <1>1, <1>2, <1>3 DEF Types
<1>5. pending[r] \in Last <=> pending[r] \in {"completed", "failed"}
  BY DEF Last
<1> USE DEF Trying, Succeeded, Failing, Last
<1>6. WrittenSoFar(r)' /\ WrittenWithoutFault(r)'
  BY <1>1, <1>2, <1>3, <1>4 DEF Consistent, WrittenSoFar, WrittenWithoutFault
<1>7. Spoken(r)'
  BY <1>1, <1>2, <1>3, <1>4 DEF Consistent, Spoken
<1>8. Cancels(r)' /\ Told(r)'
  BY <1>1, <1>2, <1>3, <1>4 DEF Consistent, WrittenSoFar, Cancels, Told
<1>9. Consistent(r)'
  BY <1>6, <1>7, <1>8 DEF Consistent
<1> QED BY <1>1, <1>2, <1>3, <1>4, <1>9, OneTask DEF Types

\* The task is spawned: its row is accepted and nothing is sent.
LEMMA StartKeeps == ASSUME IInv, NEW r \in Request, Start(r) PROVE IInv'
<1> USE DEF streamVars, channel, ledger, Goto
<1>0. Types /\ Consistent(r)
  BY DEF IInv
<1>1. /\ pc[r] = "new" /\ pc' = [pc EXCEPT ![r] = "walk"] /\ row' = [row EXCEPT ![r] = "accepted"]
      /\ UNCHANGED <<opened, emitted, pending, sent, client, usage, cost, fault>>
  BY DEF Start
<1>2. Types'
  BY <1>0, <1>1 DEF Types, Places
<1>3. pc'[r] = "walk" /\ row'[r] = "accepted"
  BY <1>0, <1>1 DEF Types
<1>4. Consistent(r)'
  BY <1>0, <1>1, <1>3 DEF Consistent, WrittenSoFar, WrittenWithoutFault, Spoken, Cancels, Told,
                          Trying, Succeeded, Failing
<1> QED BY <1>1, <1>2, <1>4, OneTask DEF IInv, Types

\* A new stream: its announcement is due, and what was sent has no content.
LEMMA OpenOkKeeps == ASSUME IInv, NEW r \in Request, OpenOk(r) PROVE IInv'
<1> USE DEF streamVars, channel, ledger, Goto
<1>0. Types /\ Consistent(r)
  BY DEF IInv
<1>1. /\ pc[r] = "open" /\ pc' = [pc EXCEPT ![r] = "sending"]
      /\ pending' = [pending EXCEPT ![r] = "started"]
      /\ opened' = [opened EXCEPT ![r] = @ + 1] /\ emitted' = [emitted EXCEPT ![r] = FALSE]
      /\ UNCHANGED <<sent, client, row, usage, cost, fault>>
  BY DEF OpenOk, Send
<1>2. Types'
  BY <1>0, <1>1 DEF Types, Places, Kinds
<1>3. pc'[r] = "sending" /\ pending'[r] = "started" /\ emitted'[r] = FALSE
  BY <1>0, <1>1 DEF Types
<1>4. ~Has(sent[r], "content") /\ Formed(sent[r]) /\ ~HasLast(sent[r])
  BY <1>0, <1>1 DEF Consistent, Spoken
<1>5. ContentOf(sent[r], opened'[r])
  BY <1>4 DEF Has, ContentOf
<1>6. Spoken(r)'
  BY <1>1, <1>3, <1>4, <1>5 DEF Spoken
<1>7. WrittenSoFar(r)' /\ WrittenWithoutFault(r)' /\ Cancels(r)' /\ Told(r)'
  BY <1>0, <1>1, <1>3 DEF Consistent, WrittenSoFar, WrittenWithoutFault, Cancels, Told,
                          Trying, Succeeded, Failing, Last
<1>8. Consistent(r)'
  BY <1>6, <1>7 DEF Consistent
<1> QED BY <1>1, <1>2, <1>8, OneTask DEF IInv, Types

\* A delta is to be sent, and content is remembered before it is.
LEMMA DeltaKeeps ==
  ASSUME IInv, NEW r \in Request, NEW kind \in {"content", "side"}, Delta(r, kind) PROVE IInv'
<1> USE DEF streamVars, channel, ledger, Goto
<1>0. Types /\ Consistent(r)
  BY DEF IInv
<1>1. /\ pc[r] = "stream" /\ pc' = [pc EXCEPT ![r] = "sending"]
      /\ pending' = [pending EXCEPT ![r] = kind]
      /\ emitted' = [emitted EXCEPT ![r] = @ \/ kind = "content"]
      /\ UNCHANGED <<opened, sent, client, row, usage, cost, fault>>
  BY DEF Delta, Send
<1>2. Types'
  BY <1>0, <1>1 DEF Types, Places, Kinds
<1>3. pc'[r] = "sending" /\ pending'[r] = kind
  BY <1>0, <1>1 DEF Types
<1>4. emitted'[r] <=> emitted[r] \/ kind = "content"
  BY <1>0, <1>1 DEF Types
<1>5. Spoken(r)'
  BY <1>0, <1>1, <1>3, <1>4 DEF Consistent, Spoken, Last
<1>6. WrittenSoFar(r)' /\ WrittenWithoutFault(r)' /\ Cancels(r)' /\ Told(r)'
  BY <1>0, <1>1, <1>3 DEF Consistent, WrittenSoFar, WrittenWithoutFault, Cancels, Told,
                          Trying, Succeeded, Failing, Last
<1>7. Consistent(r)'
  BY <1>5, <1>6 DEF Consistent
<1> QED BY <1>1, <1>2, <1>7, OneTask DEF IInv, Types

\* The last event is due once the writes are over.
LEMMA SendLastKeeps ==
  ASSUME IInv, NEW r \in Request,
         SendLast(r, "audit_ok", "completed") \/ SendLast(r, "audit_err", "failed")
  PROVE  IInv'
<1> USE DEF streamVars, channel, ledger, Goto
<1>0. Types /\ Consistent(r)
  BY DEF IInv
<1>1. PICK kind \in Last :
        /\ pc[r] = IF kind = "completed" THEN "audit_ok" ELSE "audit_err"
        /\ pc' = [pc EXCEPT ![r] = "sending"]
        /\ pending' = [pending EXCEPT ![r] = kind]
        /\ UNCHANGED <<opened, emitted, sent, client, row, usage, cost, fault>>
  BY DEF SendLast, Send, Last
<1>2. Types'
  BY <1>0, <1>1 DEF Types, Places, Kinds, Last
<1>3. pc'[r] = "sending" /\ pending'[r] = kind
  BY <1>0, <1>1 DEF Types
<1>4. Consistent(r)'
  BY <1>0, <1>1, <1>3 DEF Consistent, WrittenSoFar, WrittenWithoutFault, Spoken, Cancels, Told,
                          Trying, Succeeded, Failing, Last
<1> QED BY <1>1, <1>2, <1>4, OneTask DEF IInv, Types

\* An event enters the channel: a delta or an announcement of the current
\* stream, or the last event.
LEMMA SendOkKeeps == ASSUME IInv, NEW r \in Request, SendOk(r) PROVE IInv'
<1> USE DEF streamVars, channel, ledger, Goto
<1>0. Types /\ Consistent(r)
  BY DEF IInv
<1> DEFINE e == [kind |-> pending[r], stream |-> opened[r]]
<1>1. /\ pc[r] = "sending"
      /\ pc' = [pc EXCEPT ![r] = IF pending[r] \in Last THEN "done" ELSE "stream"]
      /\ sent' = [sent EXCEPT ![r] = Append(@, e)]
      /\ UNCHANGED <<opened, emitted, pending, client, row, usage, cost, fault>>
  BY DEF SendOk, AfterSend
<1>2. e \in Event /\ e.kind = pending[r] /\ e.stream = opened[r] /\ sent[r] \in Seq(Event)
  BY <1>0 DEF Types, Event
<1>3. /\ Formed(sent[r]) /\ ~HasLast(sent[r]) /\ ContentOf(sent[r], e.stream)
      /\ e.kind \in {"content", "side"} => Announced(sent[r], e.stream)
  BY <1>0, <1>1, <1>2 DEF Consistent, Spoken
<1> HIDE DEF e
<1>4. /\ Append(sent[r], e) \in Seq(Event)
      /\ Formed(Append(sent[r], e)) /\ ContentOf(Append(sent[r], e), e.stream)
      /\ \A kind : Has(Append(sent[r], e), kind) <=> Has(sent[r], kind) \/ e.kind = kind
      /\ Announced(sent[r], e.stream) \/ e.kind = "started" => Announced(Append(sent[r], e), e.stream)
  BY <1>2, <1>3, AppendEvent
<1>5. sent'[r] = Append(sent[r], e)
  BY <1>0, <1>1 DEF Types
<1>6. Types'
  BY <1>0, <1>1, <1>4 DEF Types, Places
<1>7. pc'[r] = IF pending[r] \in Last THEN "done" ELSE "stream"
  BY <1>0, <1>1 DEF Types
<1>8. \A kind : Has(sent'[r], kind) <=> Has(sent[r], kind) \/ pending[r] = kind
  BY <1>2, <1>4, <1>5
<1>9. pending[r] \in {"started", "content", "side", "completed", "failed"}
  BY <1>0 DEF Types, Kinds
<1>10. ~Has(sent[r], "completed") /\ ~Has(sent[r], "failed")
  BY <1>3 DEF HasLast
<1>11. Spoken(r)'
  <2>1. Formed(sent'[r]) /\ ContentOf(sent'[r], opened'[r])
    BY <1>1, <1>2, <1>4, <1>5
  <2>2. pc'[r] = "stream" => Announced(sent'[r], opened'[r])
    BY <1>0, <1>1, <1>2, <1>3, <1>4, <1>5, <1>7, <1>9 DEF Last
  <2>3. pc'[r] = "stream" /\ ~emitted'[r] => ~Has(sent'[r], "content")
    BY <1>0, <1>1, <1>7, <1>8, <1>9 DEF Consistent, Spoken, Last
  <2>4. pc'[r] # "done" => ~HasLast(sent'[r])
    BY <1>7, <1>8, <1>10 DEF HasLast, Last
  <2> QED BY <1>7, <2>1, <2>2, <2>3, <2>4 DEF Spoken
<1>12. WrittenSoFar(r)' /\ WrittenWithoutFault(r)'
  BY <1>0, <1>1, <1>7, <1>9 DEF Consistent, WrittenSoFar, WrittenWithoutFault, Trying,
                                Succeeded, Failing, Last
<1>13. Cancels(r)'
  BY <1>0, <1>1, <1>7 DEF Consistent, Cancels
<1>14. Told(r)'
  BY <1>0, <1>1, <1>8, <1>9, <1>10 DEF Consistent, WrittenWithoutFault, Told, Succeeded, Failing
<1>15. Consistent(r)'
  BY <1>11, <1>12, <1>13, <1>14 DEF Consistent
<1> QED BY <1>1, <1>6, <1>15, OneTask DEF IInv, Types

\* The outcome of a row: what is written, and where the task goes then.
Outcome(r, from, status, next) ==
  \/ from = "finish_ok" /\ status = "completed" /\ next = "usage_ok"
  \/ from = "finish_err" /\ status = "failed" /\ next = "audit_err"
  \/ from = "finish_cut" /\ status = "failed" /\ emitted[r] /\ next = "usage_cut"
  \/ from = "finish_gone" /\ status = "client_cancelled" /\ next = "audit_gone"

\* A row gets its outcome once, or the write fails and the history says so.
LEMMA FinishKeeps ==
  ASSUME IInv, NEW r \in Request, NEW from, NEW status, NEW next,
         Outcome(r, from, status, next), FinishRow(r, from, status, next)
  PROVE  IInv'
<1> USE DEF streamVars, channel, ledger, Goto, Outcome
<1>0. Types /\ Consistent(r)
  BY DEF IInv
<1>1. /\ pc[r] = from /\ pc' = [pc EXCEPT ![r] = next]
      /\ UNCHANGED <<opened, emitted, pending, sent, client, usage, cost>>
  BY DEF FinishRow
<1>2. \/ row' = [row EXCEPT ![r] = status] /\ UNCHANGED fault
      \/ UNCHANGED row /\ fault' = [fault EXCEPT ![r] = TRUE]
  BY DEF FinishRow, Write
<1>3. Types'
  BY <1>0, <1>1, <1>2 DEF Types, Places
<1>4. /\ pc'[r] = next
      /\ (row'[r] = status /\ fault'[r] = fault[r]) \/ (row'[r] = row[r] /\ fault'[r] = TRUE)
  BY <1>0, <1>1, <1>2 DEF Types
<1>5. ~Has(sent[r], "completed") /\ ~Has(sent[r], "failed") /\ row[r] = "accepted"
  BY <1>0, <1>1 DEF Consistent, Spoken, HasLast, WrittenSoFar, Trying
<1>6. WrittenSoFar(r)' /\ WrittenWithoutFault(r)'
  BY <1>0, <1>1, <1>4 DEF Consistent, WrittenSoFar, WrittenWithoutFault, Spoken, Trying, Succeeded,
                          Failing
<1>7. Spoken(r)' /\ Cancels(r)' /\ Told(r)'
  BY <1>0, <1>1, <1>4, <1>5 DEF Consistent, Spoken, Cancels, Told, HasLast
<1>8. Consistent(r)'
  BY <1>6, <1>7 DEF Consistent
<1> QED BY <1>1, <1>2, <1>3, <1>8, OneTask DEF IInv, Types

\* A usage row is written once, or the write fails.
LEMMA UsageKeeps ==
  ASSUME IInv, NEW r \in Request,
         InsertUsage(r, "usage_ok", "cost_ok") \/ InsertUsage(r, "usage_cut", "cost_cut")
  PROVE  IInv'
<1> USE DEF streamVars, channel, ledger, Goto
<1>0. Types /\ Consistent(r)
  BY DEF IInv
<1>1. /\ \/ pc[r] = "usage_ok" /\ pc' = [pc EXCEPT ![r] = "cost_ok"]
         \/ pc[r] = "usage_cut" /\ pc' = [pc EXCEPT ![r] = "cost_cut"]
      /\ UNCHANGED <<opened, emitted, pending, sent, client, row, cost>>
  BY DEF InsertUsage
<1>2. \/ usage' = [usage EXCEPT ![r] = @ + 1] /\ UNCHANGED fault
      \/ UNCHANGED usage /\ fault' = [fault EXCEPT ![r] = TRUE]
  BY DEF InsertUsage, Write
<1>3. Types'
  <2>1. usage' \in [Request -> Nat]
    <3>1. usage \in [Request -> Nat] /\ usage[r] + 1 \in Nat
      BY <1>0 DEF Types
    <3>2. CASE usage' = [usage EXCEPT ![r] = @ + 1]
      BY <3>1, <3>2
    <3> QED BY <1>2, <3>1, <3>2
  <2>2. fault' \in [Request -> BOOLEAN]
    BY <1>0, <1>2 DEF Types
  <2>3. pc' \in [Request -> Places]
    BY <1>0, <1>1 DEF Types, Places
  <2> QED BY <1>0, <1>1, <2>1, <2>2, <2>3 DEF Types
<1>4. usage[r] = 0
  BY <1>0, <1>1 DEF Consistent, WrittenSoFar
<1>5. /\ \/ pc[r] = "usage_ok" /\ pc'[r] = "cost_ok"
         \/ pc[r] = "usage_cut" /\ pc'[r] = "cost_cut"
      /\ (usage'[r] = 1 /\ fault'[r] = fault[r]) \/ fault'[r] = TRUE
  BY <1>0, <1>1, <1>2, <1>4 DEF Types
<1>6. ~Has(sent[r], "completed") /\ ~Has(sent[r], "failed")
  BY <1>0, <1>1 DEF Consistent, Spoken, HasLast
<1>7. WrittenSoFar(r)' /\ WrittenWithoutFault(r)'
  BY <1>0, <1>1, <1>5 DEF Consistent, WrittenSoFar, WrittenWithoutFault, Trying, Succeeded, Failing
<1>8. Spoken(r)' /\ Cancels(r)' /\ Told(r)'
  BY <1>0, <1>1, <1>5, <1>6 DEF Consistent, Spoken, Cancels, Told, HasLast
<1>9. Consistent(r)'
  BY <1>7, <1>8 DEF Consistent
<1> QED BY <1>1, <1>2, <1>3, <1>9, OneTask DEF IInv, Types

\* A cost row is written once, or the write fails.
LEMMA CostKeeps ==
  ASSUME IInv, NEW r \in Request,
         InsertCost(r, "cost_ok", "audit_ok") \/ InsertCost(r, "cost_cut", "audit_err")
  PROVE  IInv'
<1> USE DEF streamVars, channel, ledger, Goto
<1>0. Types /\ Consistent(r)
  BY DEF IInv
<1>1. /\ \/ pc[r] = "cost_ok" /\ pc' = [pc EXCEPT ![r] = "audit_ok"]
         \/ pc[r] = "cost_cut" /\ pc' = [pc EXCEPT ![r] = "audit_err"]
      /\ UNCHANGED <<opened, emitted, pending, sent, client, row, usage>>
  BY DEF InsertCost, Write, Billed
<1>2. \/ cost' = [cost EXCEPT ![r] = @ + 1] /\ UNCHANGED fault
      \/ UNCHANGED cost /\ fault' = [fault EXCEPT ![r] = TRUE]
  BY DEF InsertCost, Write, Billed
<1>3. Types'
  <2>1. cost' \in [Request -> Nat]
    <3>1. cost \in [Request -> Nat] /\ cost[r] + 1 \in Nat
      BY <1>0 DEF Types
    <3>2. CASE cost' = [cost EXCEPT ![r] = @ + 1]
      BY <3>1, <3>2
    <3> QED BY <1>2, <3>1, <3>2
  <2>2. fault' \in [Request -> BOOLEAN]
    BY <1>0, <1>2 DEF Types
  <2>3. pc' \in [Request -> Places]
    BY <1>0, <1>1 DEF Types, Places
  <2> QED BY <1>0, <1>1, <2>1, <2>2, <2>3 DEF Types
<1>4. cost[r] = 0
  BY <1>0, <1>1 DEF Consistent, WrittenSoFar
<1>5. /\ \/ pc[r] = "cost_ok" /\ pc'[r] = "audit_ok"
         \/ pc[r] = "cost_cut" /\ pc'[r] = "audit_err"
      /\ (cost'[r] = 1 /\ fault'[r] = fault[r]) \/ fault'[r] = TRUE
  BY <1>0, <1>1, <1>2, <1>4 DEF Types
<1>6. ~Has(sent[r], "completed") /\ ~Has(sent[r], "failed")
  BY <1>0, <1>1 DEF Consistent, Spoken, HasLast
<1>7. WrittenSoFar(r)' /\ WrittenWithoutFault(r)'
  BY <1>0, <1>1, <1>5 DEF Consistent, WrittenSoFar, WrittenWithoutFault, Trying, Succeeded, Failing
<1>8. Spoken(r)' /\ Cancels(r)' /\ Told(r)'
  BY <1>0, <1>1, <1>5, <1>6 DEF Consistent, Spoken, Cancels, Told, HasLast
<1>9. Consistent(r)'
  BY <1>7, <1>8 DEF Consistent
<1> QED BY <1>1, <1>2, <1>3, <1>9, OneTask DEF IInv, Types

\* The client reads, or time passes.
LEMMA QuietKeeps ==
  ASSUME IInv,
         UNCHANGED <<pc, opened, emitted, pending, sent, client, row, usage, cost, fault>>
  PROVE  IInv'
  BY DEF IInv, Types, Consistent, WrittenSoFar, WrittenWithoutFault, Spoken, Cancels, Told,
         Trying, Succeeded, Failing

\* The client goes away.
LEMMA HangupKeeps == ASSUME IInv, NEW r \in Request, Hangup(r) PROVE IInv'
<1> USE DEF streamVars, channel, ledger
<1>0. Types /\ Consistent(r)
  BY DEF IInv
<1>1. /\ client' = [client EXCEPT ![r] = "closed"]
      /\ UNCHANGED <<pc, opened, emitted, pending, sent, row, usage, cost, fault>>
  BY DEF Hangup
<1>2. Types' /\ client'[r] = "closed"
  BY <1>0, <1>1 DEF Types
<1>3. Consistent(r)'
  BY <1>0, <1>1, <1>2 DEF Consistent, WrittenSoFar, WrittenWithoutFault, Spoken, Cancels, Told,
                          Trying, Succeeded, Failing
<1> QED BY <1>1, <1>2, <1>3, OneTask DEF IInv, Types

\* A crash stops the tasks where they are and closes their channels.
LEMMA CrashKeeps == IInv /\ Crash => IInv'
<1> SUFFICES ASSUME IInv, Crash PROVE IInv'
  OBVIOUS
<1>1. /\ UNCHANGED <<opened, emitted, pending, sent, row, usage, cost, fault>>
      /\ pc' = [r \in Request |-> IF pc[r] \in {"new", "done"} THEN pc[r] ELSE "dead"]
      /\ client' = [r \in Request |-> IF pc[r] = "new" THEN client[r] ELSE "closed"]
  BY DEF Crash, streamVars, ledger
<1>2. Types'
  BY <1>1 DEF IInv, Types, Places
<1>3. ASSUME NEW r \in Request PROVE Consistent(r)'
  <2>1. Consistent(r)
    BY DEF IInv
  <2>2. \/ pc[r] \in {"new", "done"} /\ pc'[r] = pc[r]
        \/ pc[r] \notin {"new", "done"} /\ pc'[r] = "dead" /\ client'[r] = "closed"
    BY <1>1
  <2>3. client'[r] = client[r] \/ client'[r] = "closed"
    BY <1>1
  <2>4. WrittenSoFar(r)' /\ WrittenWithoutFault(r)' /\ Told(r)'
    BY <1>1, <2>1, <2>2 DEF Consistent, WrittenSoFar, WrittenWithoutFault, Told,
                            Trying, Succeeded, Failing
  <2>5. Spoken(r)' /\ Cancels(r)'
    BY <1>1, <2>1, <2>2, <2>3 DEF Consistent, Spoken, Cancels
  <2> QED BY <2>4, <2>5 DEF Consistent
<1> QED BY <1>2, <1>3 DEF IInv

\* Every step of a task keeps the invariant.
LEMMA StepKeeps == ASSUME IInv, NEW r \in Request, Step(r) PROVE IInv'
<1>1. CASE Moves(r)
  BY <1>1, MovesKeep
<1>2. CASE Start(r) \/ OpenOk(r) \/ SendOk(r)
  BY <1>2, StartKeeps, OpenOkKeeps, SendOkKeeps
<1>3. CASE ContentDelta(r) \/ SideDelta(r)
  BY <1>3, DeltaKeeps DEF ContentDelta, SideDelta
<1>4. CASE PersistSuccess(r)
  <2>1. CASE FinishRow(r, "finish_ok", "completed", "usage_ok")
    BY <2>1, FinishKeeps DEF Outcome
  <2> QED BY <1>4, <2>1, UsageKeeps, CostKeeps, SendLastKeeps DEF PersistSuccess
<1>5. CASE PersistFailure(r)
  <2>1. CASE FinishRow(r, "finish_err", "failed", "audit_err")
    BY <2>1, FinishKeeps DEF Outcome
  <2>2. CASE FinishRow(r, "finish_cut", "failed", IF MetersCut(r) THEN "usage_cut" ELSE "audit_err")
    <3>1. emitted[r]
      BY <2>2 DEF FinishRow, IInv, Consistent, Spoken
    <3>2. FinishRow(r, "finish_cut", "failed", "usage_cut")
      BY <2>2, <3>1 DEF MetersCut
    <3> QED BY <3>1, <3>2, FinishKeeps DEF Outcome
  <2> QED BY <1>5, <2>1, <2>2, UsageKeeps, CostKeeps, SendLastKeeps DEF PersistFailure
<1>6. CASE PersistCancelled(r)
  <2>1. CASE FinishRow(r, "finish_gone", "client_cancelled", "audit_gone")
    BY <2>1, FinishKeeps DEF Outcome
  <2> QED BY <1>6, <2>1, MovesKeep DEF PersistCancelled, Moves
<1> QED BY <1>1, <1>2, <1>3, <1>4, <1>5, <1>6 DEF Step, Moves

\* Every step keeps the invariant.
LEMMA StepInvariant == IInv /\ [Next]_vars => IInv'
<1> SUFFICES ASSUME IInv, [Next]_vars PROVE IInv'
  OBVIOUS
<1>1. ASSUME NEW r \in Request, Receive(r) PROVE IInv'
  BY <1>1, QuietKeeps DEF Receive, streamVars, ledger
<1>2. CASE Tick \/ UNCHANGED vars
  BY <1>2, QuietKeeps DEF Tick, vars, streamVars, channel, ledger
<1> QED BY <1>1, <1>2, StepKeeps, HangupKeeps, CrashKeeps DEF Next

-----------------------------------------------------------------------------
(* The ledger.                                                             *)

\* Every write of a task is the ledger's step of that name, or failed.
LEMMA StepMapped == IInv /\ [Next]_vars => [Ledger!Next]_(Ledger!vars)
<1> SUFFICES ASSUME IInv, [Next]_vars PROVE [Ledger!Next]_(Ledger!vars)
  OBVIOUS
<1> USE DEF Ledger!vars, ledger
<1>1. CASE UNCHANGED vars \/ Tick \/ Crash
  BY <1>1 DEF vars, Tick, Crash
<1>2. ASSUME NEW r \in Request, Receive(r) \/ Hangup(r) \/ SendOk(r) \/ OpenOk(r)
             \/ ContentDelta(r) \/ SideDelta(r)
             \/ SendLast(r, "audit_ok", "completed") \/ SendLast(r, "audit_err", "failed")
      PROVE  UNCHANGED <<row, usage, cost>>
  BY <1>2 DEF Receive, Hangup, SendOk, OpenOk, ContentDelta, SideDelta, Delta, SendLast
<1>3. ASSUME NEW r \in Request, Moves(r) PROVE UNCHANGED <<row, usage, cost>>
  BY <1>3, MovesTo
<1>4. ASSUME NEW r \in Request, Start(r) PROVE Ledger!Accept(r)
  BY <1>4 DEF Start, IInv, Consistent, WrittenSoFar, Ledger!Accept
<1>5. ASSUME NEW r \in Request, NEW from \in {"finish_ok", "finish_err", "finish_cut", "finish_gone"},
             NEW status, NEW next, FinishRow(r, from, status, next)
      PROVE  Ledger!Finish(r, status) \/ UNCHANGED <<row, usage, cost>>
  <2>1. row[r] = "accepted" /\ usage[r] = 0 /\ cost[r] = 0
    BY <1>5 DEF FinishRow, IInv, Consistent, WrittenSoFar, Trying
  <2> QED BY <1>5, <2>1 DEF FinishRow, Write, Ledger!Finish
<1>6. ASSUME NEW r \in Request, NEW from \in {"usage_ok", "usage_cut"}, NEW next,
             InsertUsage(r, from, next)
      PROVE  Ledger!InsertUsage(r) \/ UNCHANGED <<row, usage, cost>>
  <2>1. row[r] \in {"accepted", "completed", "failed"} /\ usage[r] = 0 /\ cost[r] = 0
    BY <1>6 DEF InsertUsage, IInv, Consistent, WrittenSoFar
  <2> QED BY <1>6, <2>1 DEF InsertUsage, Write, Ledger!InsertUsage
<1>7. ASSUME NEW r \in Request, NEW from \in {"cost_ok", "cost_cut"}, NEW next,
             InsertCost(r, from, next)
      PROVE  Ledger!InsertCost(r) \/ UNCHANGED <<row, usage, cost>>
  <2>1. row[r] \in {"accepted", "completed", "failed"} /\ cost[r] = 0
    BY <1>7 DEF InsertCost, IInv, Consistent, WrittenSoFar
  <2> QED BY <1>7, <2>1 DEF InsertCost, Write, Billed, Ledger!InsertCost
<1>8. {"completed", "failed", "client_cancelled"} \subseteq Ledger!Terminal
  BY DEF Ledger!Terminal
<1>9. ASSUME NEW r \in Request, PersistSuccess(r) \/ PersistFailure(r) \/ PersistCancelled(r)
      PROVE  Ledger!Next \/ UNCHANGED <<row, usage, cost>>
  <2>1. CASE PersistSuccess(r)
    BY <2>1, <1>2, <1>5, <1>6, <1>7, <1>8 DEF PersistSuccess, Ledger!Next
  <2>2. CASE PersistFailure(r)
    BY <2>2, <1>2, <1>5, <1>6, <1>7, <1>8 DEF PersistFailure, Ledger!Next
  <2>3. CASE PersistCancelled(r)
    BY <2>3, <1>3, <1>5, <1>8 DEF PersistCancelled, Moves, Ledger!Next
  <2> QED BY <1>9, <2>1, <2>2, <2>3
<1>10. ASSUME NEW r \in Request, Step(r) PROVE Ledger!Next \/ UNCHANGED <<row, usage, cost>>
  BY <1>10, <1>2, <1>3, <1>4, <1>9 DEF Step, Moves, Ledger!Next
<1> QED BY <1>1, <1>2, <1>10 DEF Next

-----------------------------------------------------------------------------
(* The breakers.                                                           *)

\* The task has a candidate while it calls, and calls left only then.
LoopInv ==
  /\ todo \in [Request -> Seq(Target)]
  /\ left \in [Request -> 0 .. MaxAttempts]
  /\ \A r \in Request : IF Calling(r) THEN todo[r] # <<>> ELSE left[r] = 0

\* What the module maps to the breaker's callers in flight.
Flight == [r \in Request |-> IF Calling(r) THEN Current(r) ELSE Idle]

\* A step of r leaves the other tasks where they are.
Alone(r) ==
  \A q \in Request \ {r} : pc'[q] = pc[q] /\ pending'[q] = pending[q] /\ todo'[q] = todo[q]

\* Before the first candidate nothing is called.
LEMMA LoopInit == Init => LoopInv
<1> SUFFICES ASSUME Init PROVE LoopInv
  OBVIOUS
<1>1. left \in [Request -> 0 .. MaxAttempts] /\ todo \in [Request -> Seq(Target)]
  BY StreamAssumption DEF Init
<1> QED BY <1>1 DEF Init, LoopInv, Calling

\* The head of a route is a target, and its tail a route.
LEMMA RouteFacts ==
  ASSUME NEW s \in Seq(Target), s # <<>> PROVE Head(s) \in Target /\ Tail(s) \in Seq(Target)
  OBVIOUS

\* A task that is calling is in flight to a target, any other is idle.
LEMMA FlightFacts ==
  ASSUME LoopInv, NEW r \in Request
  PROVE  IF Calling(r) THEN Flight[r] = Current(r) /\ Current(r) \in Target /\ Flight[r] # Idle
         ELSE Flight[r] = Idle /\ left[r] = 0
<1>1. Calling(r) => Current(r) \in Target
  BY RouteFacts DEF LoopInv, Current
<1> QED BY <1>1, StreamAssumption DEF Flight, LoopInv

\* A task that goes on calling, or on not calling, stays in flight, or idle.
LEMMA FlightStays ==
  ASSUME LoopInv, NEW r \in Request, Alone(r), UNCHANGED <<todo, left>>, Calling(r)' <=> Calling(r)
  PROVE  LoopInv' /\ Flight' = Flight
  BY DEF LoopInv, Flight, Alone, Calling, Current

\* A task that stops calling is no longer in flight, the others are as before.
LEMMA FlightLeaves ==
  ASSUME LoopInv, NEW r \in Request, Alone(r), ~Calling(r)', todo' \in [Request -> Seq(Target)],
         left' = [left EXCEPT ![r] = 0]
  PROVE  LoopInv' /\ Flight' = [Flight EXCEPT ![r] = Idle]
<1>1. left' \in [Request -> 0 .. MaxAttempts]
  BY StreamAssumption DEF LoopInv
<1>2. ASSUME NEW q \in Request \ {r} PROVE (Calling(q)' <=> Calling(q)) /\ Current(q)' = Current(q)
  BY DEF Alone, Calling, Current
<1>3. Flight' = [Flight EXCEPT ![r] = Idle]
  BY <1>2 DEF Flight
<1>4. ASSUME NEW q \in Request PROVE IF Calling(q)' THEN todo'[q] # <<>> ELSE left'[q] = 0
  BY <1>2 DEF LoopInv, Alone
<1> QED BY <1>1, <1>3, <1>4 DEF LoopInv

\* Giving a candidate up is leaving it.
LEMMA GiveUpLeaves ==
  ASSUME IInv, LoopInv, NEW r \in Request, todo[r] # <<>>, GiveUp(r), UNCHANGED pending
  PROVE  LoopInv' /\ Flight' = [Flight EXCEPT ![r] = Idle] /\ left' = [left EXCEPT ![r] = 0]
<1>1. pc \in [Request -> Places]
  BY DEF IInv, Types
<1>2. todo' \in [Request -> Seq(Target)]
  BY RouteFacts DEF GiveUp, LoopInv
<1>3. pc'[r] = "walk" /\ Alone(r)
  BY <1>1 DEF GiveUp, Goto, Alone, LoopInv
<1>4. ~Calling(r)'
  BY <1>3 DEF Calling
<1> QED BY <1>2, <1>3, <1>4, FlightLeaves DEF GiveUp

\* The stream and the protocol mean the same breaker.
LEMMA SameBreaker ==
  ASSUME NEW b
  PROVE  /\ Breakers!NewBreaker = NewBreaker /\ (Breakers!Admits(b) <=> Admits(b))
         /\ Breakers!AfterCheck(b) = AfterCheck(b) /\ Breakers!AfterSuccess(b) = AfterSuccess(b)
         /\ Breakers!AfterFailure(b) = AfterFailure(b) /\ Breakers!AfterTick(b) = AfterTick(b)
  BY DEF NewBreaker, Admits, AfterCheck, AfterSuccess, AfterFailure, AfterTick,
         Breakers!NewBreaker, Breakers!Admits, Breakers!AfterCheck, Breakers!AfterSuccess,
         Breakers!AfterFailure, Breakers!AfterTick

\* The loop stays in order, and a breaker's caller makes a move or none does.
Lawful == LoopInv' /\ (Breakers!Next \/ UNCHANGED <<breaker, Flight, left>>)

\* A check lets the task through.
LEMMA AdmitLawful == ASSUME IInv, LoopInv, NEW r \in Request, Admit(r) PROVE Lawful
<1>1. pc \in [Request -> Places] /\ left \in [Request -> 0 .. MaxAttempts]
      /\ todo \in [Request -> Seq(Target)]
  BY DEF IInv, Types, LoopInv
<1>2. PICK n \in Attempts : left' = [left EXCEPT ![r] = n]
  BY DEF Admit
<1>3. n \in 1 .. MaxAttempts /\ n \in 0 .. MaxAttempts /\ Current(r) \in Target
  BY <1>1, RouteFacts, StreamAssumption DEF Admit, Current
<1>4. UNCHANGED <<todo, pending>> /\ todo[r] # <<>> /\ pc[r] = "walk" /\ pc' = [pc EXCEPT ![r] = "open"]
  BY DEF Admit, channel, Goto
<1>5. ~Calling(r) /\ Calling(r)' /\ \A q \in Request \ {r} : Calling(q)' <=> Calling(q)
  BY <1>1, <1>4 DEF Calling
<1>6. Flight' = [Flight EXCEPT ![r] = Current(r)]
  BY <1>4, <1>5 DEF Flight, Current
<1>7. Flight[r] = Idle
  BY <1>5 DEF Flight
<1>8. Breakers!Admit(r, Current(r), n)
  BY <1>2, <1>6, <1>7, SameBreaker DEF Admit, Breakers!Admit, Flight
<1>9. left' \in [Request -> 0 .. MaxAttempts]
  BY <1>1, <1>2, <1>3
<1>10. LoopInv'
  BY <1>1, <1>2, <1>4, <1>5, <1>9 DEF LoopInv
<1> QED BY <1>3, <1>8, <1>10 DEF Lawful, Breakers!Next

\* A failure is reported, before the next attempt or the next candidate.
LEMMA FailCallLawful ==
  ASSUME IInv, LoopInv, NEW r \in Request, Calling(r), FailCall(r), UNCHANGED pending
  PROVE  Lawful
<1>1. pc \in [Request -> Places] /\ left \in [Request -> 0 .. MaxAttempts]
  BY DEF IInv, Types, LoopInv
<1>2. Flight[r] = Current(r) /\ Flight[r] # Idle /\ todo[r] # <<>>
  BY FlightFacts DEF LoopInv
<1>3. breaker' = [breaker EXCEPT ![Flight[r]] = Breakers!AfterFailure(@)]
  BY <1>2, SameBreaker DEF FailCall
<1>4. CASE GiveUp(r)
  <2>1. LoopInv' /\ Flight' = [Flight EXCEPT ![r] = Idle] /\ left' = [left EXCEPT ![r] = 0]
    BY <1>2, <1>4, GiveUpLeaves
  <2>2. Breakers!RecordFailureAndLeave(r)
    BY <1>2, <1>3, <2>1 DEF Breakers!RecordFailureAndLeave, Breakers!Leave, Flight
  <2> QED BY <2>1, <2>2 DEF Lawful, Breakers!Next
<1>5. CASE left[r] > 1 /\ left' = [left EXCEPT ![r] = @ - 1] /\ Goto(r, "open") /\ UNCHANGED todo
  <2>1. Calling(r)' /\ \A q \in Request \ {r} : Calling(q)' <=> Calling(q)
    BY <1>1, <1>5 DEF Goto, Calling
  <2>2. Flight' = Flight
    BY <1>5, <2>1 DEF Flight, Current
  <2>3. left' \in [Request -> 0 .. MaxAttempts]
    BY <1>1, <1>5, StreamAssumption
  <2>4. LoopInv'
    BY <1>5, <2>1, <2>3 DEF LoopInv
  <2>5. Breakers!RecordFailureAndRetry(r)
    BY <1>2, <1>3, <1>5, <2>2 DEF Breakers!RecordFailureAndRetry, Flight
  <2> QED BY <2>4, <2>5 DEF Lawful, Breakers!Next
<1> QED BY <1>4, <1>5 DEF FailCall, Retries

\* A call ends, with a report or without one.
LEMMA LeaveLawful ==
  ASSUME IInv, LoopInv, NEW r \in Request,
         StreamCut(r) \/ StreamEnd(r) \/ NoAdapter(r)
         \/ (SendLost(r) /\ pending[r] \notin Last)
  PROVE  Lawful
<1>1. pc \in [Request -> Places] /\ todo \in [Request -> Seq(Target)]
  BY DEF IInv, Types, LoopInv
<1>2. Calling(r)
  BY DEF StreamCut, StreamEnd, NoAdapter, SendLost, Calling
<1>3. Flight[r] = Current(r) /\ Flight[r] # Idle /\ todo[r] # <<>>
  BY <1>2, FlightFacts DEF LoopInv
<1>4. LoopInv' /\ Flight' = [Flight EXCEPT ![r] = Idle] /\ left' = [left EXCEPT ![r] = 0]
  <2>1. CASE NoAdapter(r)
    BY <1>3, <2>1, GiveUpLeaves DEF NoAdapter, channel
  <2>2. CASE StreamCut(r) \/ StreamEnd(r) \/ (SendLost(r) /\ pending[r] \notin Last)
    <3>1. /\ \E place \in {"finish_cut", "finish_ok", "finish_gone"} : pc' = [pc EXCEPT ![r] = place]
          /\ UNCHANGED <<todo, pending>> /\ left' = [left EXCEPT ![r] = 0]
      BY <2>2 DEF StreamCut, StreamEnd, SendLost, AfterLostSend, Goto, channel
    <3>2. Alone(r) /\ ~Calling(r)'
      BY <1>1, <3>1 DEF Alone, Calling
    <3> QED BY <1>1, <3>1, <3>2, FlightLeaves
  <2> QED BY <2>1, <2>2
<1>5. CASE StreamCut(r)
  <2>1. Breakers!RecordFailureAndLeave(r)
    BY <1>3, <1>4, <1>5, SameBreaker
       DEF StreamCut, Breakers!RecordFailureAndLeave, Breakers!Leave, Flight
  <2> QED BY <1>4, <2>1 DEF Lawful, Breakers!Next
<1>6. CASE StreamEnd(r)
  <2>1. Breakers!RecordSuccess(r)
    BY <1>3, <1>4, <1>6, SameBreaker DEF StreamEnd, Breakers!RecordSuccess, Breakers!Leave, Flight
  <2> QED BY <1>4, <2>1 DEF Lawful, Breakers!Next
<1>7. CASE NoAdapter(r) \/ SendLost(r)
  <2>1. Breakers!Abandon(r)
    BY <1>3, <1>4, <1>7 DEF NoAdapter, SendLost, Breakers!Abandon, Breakers!Leave, Flight
  <2> QED BY <1>4, <2>1 DEF Lawful, Breakers!Next
<1> QED BY <1>5, <1>6, <1>7

\* Inside a call, and outside of one, no breaker moves.
LEMMA StayLawful ==
  ASSUME IInv, LoopInv, NEW r \in Request,
         Exhausted(r) \/ OpenOk(r) \/ ContentDelta(r) \/ SideDelta(r) \/ SendOk(r)
         \/ PersistSuccess(r) \/ PersistFailure(r) \/ PersistCancelled(r)
  PROVE  Lawful
<1> USE DEF Goto, Send, channel, streamVars
<1>1. pc \in [Request -> Places] /\ pending \in [Request -> Kinds]
  BY DEF IInv, Types
<1>2. CASE OpenOk(r) \/ ContentDelta(r) \/ SideDelta(r)
  <2>1. PICK kind \in {"started", "content", "side"} :
          /\ pc[r] \in {"open", "stream"} /\ pc' = [pc EXCEPT ![r] = "sending"]
          /\ pending' = [pending EXCEPT ![r] = kind] /\ UNCHANGED <<todo, left, breaker>>
    BY <1>2 DEF OpenOk, ContentDelta, SideDelta, Delta
  <2>2. Calling(r) /\ Calling(r)' /\ Alone(r)
    BY <1>1, <2>1 DEF Calling, Alone, Last
  <2> QED BY <2>1, <2>2, FlightStays DEF Lawful
<1>3. CASE SendOk(r)
  <2>1. /\ pc[r] = "sending" /\ UNCHANGED <<todo, left, breaker, pending>>
        /\ pc' = [pc EXCEPT ![r] = IF pending[r] \in Last THEN "done" ELSE "stream"]
    BY <1>3 DEF SendOk, AfterSend
  <2>2. (Calling(r)' <=> Calling(r)) /\ Alone(r)
    BY <1>1, <2>1 DEF Calling, Alone
  <2> QED BY <2>1, <2>2, FlightStays DEF Lawful
<1>4. CASE Exhausted(r) \/ PersistSuccess(r) \/ PersistFailure(r) \/ PersistCancelled(r)
  <2>1. /\ pc[r] \notin {"open", "stream", "sending"} /\ UNCHANGED <<todo, left, breaker>>
        /\ \/ UNCHANGED pending
              /\ \E place \in Places \ {"open", "stream", "sending"} : pc' = [pc EXCEPT ![r] = place]
           \/ /\ pc' = [pc EXCEPT ![r] = "sending"]
              /\ \E kind \in Last : pending' = [pending EXCEPT ![r] = kind]
    <3> USE DEF FinishRow, InsertUsage, InsertCost, Billed, Write, SendLast, Places, Last
    <3>1. CASE Exhausted(r)
      BY <3>1 DEF Exhausted
    <3>2. CASE PersistSuccess(r)
      BY <3>2 DEF PersistSuccess
    <3>3. CASE PersistFailure(r)
      BY <3>3 DEF PersistFailure
    <3>4. CASE PersistCancelled(r)
      BY <3>4 DEF PersistCancelled
    <3> QED BY <1>4, <3>1, <3>2, <3>3, <3>4
  <2>2. ~Calling(r) /\ ~Calling(r)' /\ Alone(r)
    BY <1>1, <2>1 DEF Calling, Alone
  <2> QED BY <2>1, <2>2, FlightStays DEF Lawful
<1> QED BY <1>2, <1>3, <1>4

\* A task that is not calling moves on without a report.
LEMMA IdleLawful ==
  ASSUME IInv, LoopInv, NEW r \in Request,
         Start(r) \/ Skip(r) \/ (SendLost(r) /\ pending[r] \in Last)
  PROVE  Lawful
<1> USE DEF Goto, channel
<1>1. pc \in [Request -> Places] /\ todo \in [Request -> Seq(Target)]
      /\ left \in [Request -> 0 .. MaxAttempts]
  BY DEF IInv, Types, LoopInv
<1>2. ~Calling(r) /\ UNCHANGED breaker
  BY DEF Start, Skip, SendLost, Calling
<1>3. Flight[r] = Idle /\ left[r] = 0
  BY <1>2, FlightFacts
<1>4. LoopInv' /\ Flight' = [Flight EXCEPT ![r] = Idle] /\ left' = [left EXCEPT ![r] = 0]
  <2>1. CASE Skip(r)
    BY <2>1, GiveUpLeaves DEF Skip
  <2>2. CASE Start(r)
    <3>1. PICK route \in Routes : todo' = [todo EXCEPT ![r] = route]
      BY <2>2 DEF Start
    <3>2. todo' \in [Request -> Seq(Target)] /\ left' = [left EXCEPT ![r] = 0]
      BY <1>1, <1>3, <2>2, <3>1, StreamAssumption DEF Start
    <3>3. Alone(r) /\ ~Calling(r)'
      BY <1>1, <2>2, <3>1 DEF Start, Alone, Calling
    <3> QED BY <3>2, <3>3, FlightLeaves
  <2>3. CASE SendLost(r) /\ pending[r] \in Last
    <3>1. Alone(r) /\ ~Calling(r)' /\ UNCHANGED todo /\ left' = [left EXCEPT ![r] = 0]
      BY <1>1, <2>3 DEF SendLost, AfterLostSend, Alone, Calling
    <3> QED BY <1>1, <3>1, FlightLeaves
  <2> QED BY <2>1, <2>2, <2>3
<1>5. Flight' = Flight /\ left' = left
  BY <1>1, <1>3, <1>4 DEF Flight
<1> QED BY <1>2, <1>4, <1>5 DEF Lawful

\* Every step keeps to the breakers' protocol.
LEMMA NextLawful ==
  IInv /\ LoopInv /\ [Next]_vars => LoopInv' /\ [Breakers!Next]_(Breakers!vars)
<1> SUFFICES ASSUME IInv, LoopInv, [Next]_vars
             PROVE  LoopInv' /\ [Breakers!Next]_(Breakers!vars)
  OBVIOUS
<1>1. Lawful => LoopInv' /\ [Breakers!Next]_(Breakers!vars)
  BY DEF Lawful, Breakers!vars, Flight
<1>2. ASSUME NEW r \in Request, Step(r) PROVE Lawful
  <2>1. CASE OpenErr(r) \/ StreamErr(r)
    <3>1. Calling(r) /\ FailCall(r) /\ UNCHANGED pending
      BY <2>1 DEF OpenErr, StreamErr, Calling, channel
    <3> QED BY <3>1, FailCallLawful
  <2> QED BY <1>2, <2>1, AdmitLawful, LeaveLawful, StayLawful, IdleLawful DEF Step
<1>3. CASE Crash
  <2>1. \A r \in Request : ~Calling(r)'
    BY <1>3 DEF Crash, Calling
  <2>2. Flight' = [r \in Request |-> Idle]
    BY <2>1 DEF Flight
  <2>3. left' \in [Request -> 0 .. MaxAttempts]
    BY <1>3, StreamAssumption DEF Crash
  <2>4. LoopInv'
    BY <1>3, <2>1, <2>3 DEF Crash, LoopInv
  <2>5. Breakers!Restart
    BY <1>3, <2>2, SameBreaker DEF Crash, Breakers!Restart, Flight
  <2> QED BY <2>4, <2>5 DEF Breakers!Next
<1>4. CASE Tick
  <2>1. UNCHANGED <<pc, pending, todo, left>>
    BY <1>4 DEF Tick, channel
  <2>2. LoopInv' /\ Flight' = Flight
    BY <2>1 DEF LoopInv, Flight, Calling, Current
  <2>3. Breakers!Tick
    BY <1>4, <2>2, SameBreaker DEF Tick, Breakers!Tick, Flight
  <2> QED BY <2>2, <2>3 DEF Breakers!Next
<1>5. CASE UNCHANGED vars \/ \E r \in Request : Receive(r) \/ Hangup(r)
  <2>1. UNCHANGED <<pc, pending, todo, left, breaker>>
    BY <1>5 DEF vars, channel, Receive, Hangup
  <2> QED BY <2>1 DEF LoopInv, Calling, Current, Breakers!vars
<1> QED BY <1>1, <1>2, <1>3, <1>4, <1>5 DEF Next

-----------------------------------------------------------------------------

\* Streams write the tables as the ledger says and use the breakers as their
\* protocol says, whatever clients, providers and writes do, and across crashes.
THEOREM StreamsKeepToProtocols == Spec => Protocols
<1>1. Init => Ledger!Init /\ Breakers!Init
  <2>1. Init => Breakers!Init
    BY SameBreaker DEF Init, Breakers!Init, Calling
  <2> QED BY <2>1 DEF Init, Ledger!Init
<1>2. Spec => LedgerSpec
  BY <1>1, InitInvariant, StepInvariant, StepMapped, PTL DEF Spec, LedgerSpec, Ledger!Spec
<1>3. Spec => BreakerSpec
  BY <1>1, InitInvariant, StepInvariant, LoopInit, NextLawful, PTL
     DEF Spec, BreakerSpec, Breakers!Spec
<1> QED BY <1>2, <1>3 DEF Protocols

\* The domain of a sequence of events.
LEMMA SentDomain == ASSUME IInv, NEW r \in Request PROVE DOMAIN sent[r] = 1 .. Len(sent[r])
  BY DEF IInv, Types

\* The events a client can read are well formed: nothing is replayed after
\* content and nothing follows the last event.
THEOREM StreamsAreWellFormed == Spec => []WellFormedStream
<1>1. IInv => WellFormedStream
  <2> SUFFICES ASSUME IInv, NEW r \in Request, Formed(sent[r])
               PROVE  /\ \A i, j \in DOMAIN sent[r] :
                           (i < j /\ sent[r][i].kind = "content")
                             => sent[r][j].stream = sent[r][i].stream
                      /\ \A j \in DOMAIN sent[r] :
                           /\ sent[r][j].kind \in Last => j = Len(sent[r])
                           /\ sent[r][j].kind \in {"content", "side"} =>
                                \E i \in 1 .. j - 1 :
                                  sent[r][i] = [kind |-> "started", stream |-> sent[r][j].stream]
    BY DEF WellFormedStream, NoReplayAfterContent, IInv, Consistent, Spoken
  <2> QED BY SentDomain DEF Formed
<1> QED BY <1>1, InitInvariant, StepInvariant, PTL DEF Spec

\* What the last event told the client is what the tables say, and a row that
\* says cancelled is one of a client that went away without a last event.
THEOREM LastEventsMatchLedger == Spec => []LastEventMatchesLedger
<1>1. IInv => LastEventMatchesLedger
  <2> SUFFICES ASSUME IInv PROVE LastEventMatchesLedger
    OBVIOUS
  <2>1. CancelledOnlyIfGone
    <3> SUFFICES ASSUME NEW r \in Request, row[r] = "client_cancelled"
                 PROVE  client[r] = "closed" /\ \A i \in DOMAIN sent[r] : sent[r][i].kind \notin Last
      BY DEF CancelledOnlyIfGone
    <3>1. client[r] = "closed" /\ ~HasLast(sent[r])
      BY DEF IInv, Consistent, Cancels
    <3> QED BY <3>1, SentDomain DEF HasLast, Has, Last
  <2>2. ASSUME NEW r \in Request, NEW i \in DOMAIN sent[r], ~fault[r]
        PROVE  /\ sent[r][i].kind = "completed" =>
                    row[r] = "completed" /\ usage[r] = 1 /\ cost[r] = 1
               /\ sent[r][i].kind = "failed" =>
                    /\ row[r] = "failed"
                    /\ (\E j \in 1 .. i : sent[r][j].kind = "content")
                         => usage[r] = 1 /\ cost[r] = 1
    <3>1. i \in 1 .. Len(sent[r]) /\ \A j \in 1 .. i : j \in 1 .. Len(sent[r])
      <4>1. sent[r] \in Seq(Event)
        BY DEF IInv, Types
      <4> QED BY <2>2, <4>1, SentDomain
    <3>2. Told(r)
      BY DEF IInv, Consistent
    <3> QED BY <2>2, <3>1, <3>2 DEF Told, Has
  <2> QED BY <2>1, <2>2 DEF LastEventMatchesLedger
<1> QED BY <1>1, InitInvariant, StepInvariant, PTL DEF Spec
=============================================================================
