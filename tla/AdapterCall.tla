---------------------------- MODULE AdapterCall -----------------------------
(***************************************************************************)
(* One call of a provider adapter, behind the ModelProvider trait of       *)
(* crates/provider-core: a chat, a stream, a list of models, embeddings or *)
(* a health check, against a vendor that answers, refuses, breaks off or   *)
(* cannot be reached.  A stream is read event by event; the network cuts   *)
(* it where it likes, between two events, inside one or inside a character *)
(* of more than one byte.  ProviderWire holds the translations.            *)
(***************************************************************************)
EXTENDS ProviderWire

CONSTANTS
  Requests,       \* message sequences a client of the gateway may send
  Answers,        \* answers a vendor may give
  Statuses,       \* HTTP statuses of a refusal
  PageLimit,      \* pages of models an adapter reads, 10 in the code
  VendorPages     \* bound of the model: pages a vendor has, at most

ASSUME AdapterAssumption ==
  /\ PageLimit \in Nat \ {0}
  /\ VendorPages \in Nat \ {0}

\* A message of a client: who speaks, the text, the calls it makes and the one
\* it answers.
MessageType == [role : STRING, text : STRING, calls : Seq(STRING), of : STRING]
ASSUME RequestsAssumption == Requests \subseteq Seq(MessageType)

\* An answer is blocks of text, of thinking and of calls, each in pieces, and a
\* reason to stop; "typed" says whether the pieces of a call repeat its type.
Block == [kind : {"text", "think", "call"}, id : STRING, pieces : Seq(STRING)]
AnswerType ==
  [blocks : Seq(Block), reason : {"stop", "tool_calls", "length", "content_filter"},
   typed : BOOLEAN]
ASSUME AnswersAssumption == Answers \subseteq AnswerType

VARIABLES
  op,        \* the trait's method, "none" between calls
  protocol,  \* of the adapter
  phase,     \* "idle", "sent", "reading" or "done"
  asked,     \* the conversation to send, until it is sent
  body,      \* the request made of it
  result,    \* what the caller gets back
  listed,    \* numbers of the pages of models read
  answer,    \* what the vendor is streaming
  arrived,   \* how many events of each part of the answer have arrived
  cut,       \* the part whose next event has arrived in part, and how
  given_up,  \* the vendor has sent an error object and sends no more
  garbled,   \* history: a character was cut
  parser,    \* the locals of the stream's loop
  emitted    \* the events it has yielded

stream == <<answer, arrived, cut, given_up, garbled, parser, emitted>>
vars == <<op, protocol, phase, asked, body, result, listed, stream>>

NoBody == [system |-> <<>>, turns |-> <<>>]
NoAnswer == [blocks |-> <<>>, reason |-> "stop", typed |-> TRUE]
NoCut == [part |-> -1, inside |-> FALSE]
Ok(value) == [outcome |-> "ok", value |-> value, category |-> "none"]
Failed(category) == [outcome |-> "failed", value |-> <<>>, category |-> category]
NoResult == [outcome |-> "none", value |-> <<>>, category |-> "none"]

Init ==
  /\ op = "none" /\ protocol = "openai" /\ phase = "idle"
  /\ asked = <<>> /\ body = NoBody /\ result = NoResult /\ listed = <<>>
  /\ answer = NoAnswer /\ arrived = <<>> /\ cut = NoCut
  /\ given_up = FALSE /\ garbled = FALSE
  /\ parser = NewParser /\ emitted = <<>>

-----------------------------------------------------------------------------
(* The vendor's stream.                                                    *)

\* Anthropic and Gemini send one block after the other; the OpenAI formats
\* number the calls, and their pieces may come in turn.
Interleaves == protocol \in {"openai", "responses"}

CallsBefore(k) ==
  Cardinality({j \in 1 .. k - 1 : answer.blocks[j].kind = "call"})

Piece(type, delta, index, piece) ==
  [Frame(type) EXCEPT !.delta = delta, !.index = index, !.text = <<piece>>]

Pieces(type, delta, index, block) ==
  [i \in 1 .. Len(block.pieces) |-> Piece(type, delta, index, block.pieces[i])]

Announced(type, index, block) ==
  [Frame(type) EXCEPT !.delta = IF block.kind = "call" THEN "call" ELSE "none",
                      !.index = index, !.id = block.id]

BlockFrames(k) ==
  LET b == answer.blocks[k]
      argsType == IF answer.typed THEN "chunk" ELSE "untyped"
      responsesType == [text |-> "response.output_text.delta",
                        think |-> "response.reasoning_summary_text.delta",
                        call |-> "response.function_call_arguments.delta"]
      delta == IF b.kind = "call" THEN "args" ELSE b.kind
  IN  CASE protocol = "openai" /\ b.kind = "call" ->
             <<Announced("chunk", CallsBefore(k), b)>>
             \o Pieces(argsType, "args", CallsBefore(k), b)
        [] protocol = "openai" /\ b.kind # "call" -> Pieces("chunk", b.kind, 0, b)
        [] protocol = "responses" ->
             <<Announced("response.output_item.added", k - 1, b)>>
             \o Pieces(responsesType[b.kind], delta, k - 1, b)
        [] protocol = "anthropic" ->
             <<Announced("content_block_start", k - 1, b)>>
             \o Pieces("content_block_delta", delta, k - 1, b)
             \o <<Frame("content_block_stop")>>
        [] protocol = "gemini" /\ b.kind = "call" ->
             <<[Announced("chunk", 0, b) EXCEPT !.text = b.pieces]>>
        [] protocol = "gemini" /\ b.kind # "call" -> Pieces("chunk", b.kind, 0, b)

Usage(input, output, cached) ==
  {[input |-> input, output |-> output, cached |-> cached]}

\* Before the blocks; Anthropic counts the prompt here and nowhere else.
HeadFrames ==
  CASE protocol = "openai" -> <<Frame("chunk")>>
    [] protocol = "responses" -> <<Frame("response.created")>>
    [] protocol = "anthropic" ->
         <<[Frame("message_start") EXCEPT !.usage = Usage(2, 1, 1)]>>
    [] protocol = "gemini" -> <<[Frame("chunk") EXCEPT !.usage = Usage(2, 0, 1)]>>

\* After the blocks: the reason and the usage.
TailFrames ==
  LET reason == Reason(protocol, answer.reason)
  IN  CASE protocol = "openai" ->
             <<[Frame("chunk") EXCEPT !.reason = reason],
               [Frame("chunk") EXCEPT !.usage = Usage(2, 3, 1)]>>
        [] protocol = "responses" ->
             <<[Frame(IF reason = "completed" THEN "response.completed"
                                              ELSE "response.incomplete")
                  EXCEPT !.reason = reason, !.usage = Usage(2, 3, 1)]>>
        [] protocol = "anthropic" ->
             <<[Frame("message_delta") EXCEPT !.reason = reason,
                                              !.usage = Usage(0, 3, 0)],
               Frame("message_stop")>>
        [] protocol = "gemini" ->
             <<[Frame("chunk") EXCEPT !.reason = reason, !.usage = Usage(2, 3, 1)]>>

Ending == Len(answer.blocks) + 1

FramesOf(k) ==
  CASE k = 0 -> HeadFrames [] k = Ending -> TailFrames [] OTHER -> BlockFrames(k)

Through(k) == arrived[k] = Len(FramesOf(k))

IsCall(k) == k \in 1 .. Ending - 1 /\ answer.blocks[k].kind = "call"

\* The vendor may send the next event of part k.
CanSend(k) ==
  /\ ~given_up
  /\ ~Through(k)
  /\ \A j \in 0 .. k - 1 : Through(j) \/ (/\ Interleaves
                                        /\ IsCall(j) /\ IsCall(k)
                                        /\ arrived[j] > 0)

NextFrame(k) == FramesOf(k)[arrived[k] + 1]

\* from_utf8_lossy() of a piece whose character came in two chunks.
Garbled(f) == IF f.text = <<>> THEN f ELSE [f EXCEPT !.text = <<"?">>]

-----------------------------------------------------------------------------
(* The call.                                                               *)

\* A caller calls the adapter, which writes the request and sends it.
\* Anthropic has no embeddings.
Begin(o, p, messages) ==
  /\ phase = "idle"
  /\ (messages # <<>>) <=> (o \in {"chat", "stream"})
  /\ op' = o
  /\ protocol' = p
  /\ asked' = ToCanonical(messages)
  /\ body' = IF o \in {"chat", "stream"} THEN Body(p, ToCanonical(messages)) ELSE NoBody
  /\ IF o = "embeddings" /\ p = "anthropic"
       THEN phase' = "done" /\ result' = Failed("invalid_request")
       ELSE phase' = "sent" /\ UNCHANGED result
  /\ UNCHANGED <<listed, stream>>

\* The request is on its way; the adapter keeps nothing of it.
Finish(outcome) ==
  /\ phase = "sent"
  /\ phase' = "done"
  /\ result' = outcome
  /\ asked' = <<>>
  /\ body' = NoBody
  /\ UNCHANGED <<op, protocol, listed, stream>>

\* transport_error(): a timeout, or no connection.  A health check reports
\* it, the other calls fail.
Unreachable(category) ==
  Finish(IF op = "health" THEN Ok(<<"unavailable", category>>) ELSE Failed(category))

Refuse(status, hint) ==
  Finish(IF op = "health"
           THEN Ok(<<"unavailable", HealthCategory(protocol, status)>>)
           ELSE Failed(StatusCategory(protocol, status, hint)))

\* A success whose body is no JSON; a health check does not read it.
Unreadable ==
  /\ op \in {"chat", "models", "embeddings"}
  /\ Finish(Failed("malformed_response"))

AnswerWhole(a) ==
  /\ op = "chat"
  /\ Finish(Ok(Whole(protocol, a)))

AnswerHealthy ==
  /\ op = "health"
  /\ Finish(Ok(<<"healthy", "none">>))

\* embeddings(): chat completions skip an item that is no vector, the other
\* two protocols leave its place empty.
AnswerVectorsSkipping(items) ==
  /\ op = "embeddings" /\ protocol = "openai"
  /\ Finish(Ok(SelectSeq(items, LAMBDA v : v # "unreadable")))

AnswerVectorsInPlace(items) ==
  /\ op = "embeddings" /\ protocol \in {"responses", "gemini"}
  /\ Finish(Ok(items))

\* list_models(): the OpenAI formats have one page.
AnswerList ==
  /\ op = "models" /\ protocol \in {"openai", "responses"}
  /\ Finish(Ok(<<1>>))

\* A page of the other two; they are asked on while there is a next one, ten
\* times at most.
TakePage(page, more) ==
  /\ op = "models"
  /\ phase = "sent"
  /\ listed' = Append(listed, page)
  /\ IF more /\ Len(listed') < PageLimit
       THEN UNCHANGED <<phase, result>>
       ELSE phase' = "done" /\ result' = Ok(listed')
  /\ UNCHANGED <<op, protocol, asked, body, stream>>

\* Anthropic says has_more and last_id: without the latter the first page
\* comes again.
AnswerPageAfter(pages, cursorLost) ==
  /\ protocol = "anthropic"
  /\ LET page == IF cursorLost THEN 1 ELSE Len(listed) + 1
     IN  TakePage(page, page < pages)

\* Gemini gives a token or none.
AnswerPageToken(pages) ==
  /\ protocol = "gemini"
  /\ TakePage(Len(listed) + 1, Len(listed) + 1 < pages)

OpenStream(a) ==
  /\ op = "stream"
  /\ phase = "sent"
  /\ phase' = "reading"
  /\ asked' = <<>>
  /\ body' = NoBody
  /\ answer' = a
  /\ arrived' = [k \in 0 .. Len(a.blocks) + 1 |-> 0]
  /\ UNCHANGED <<op, protocol, result, listed, cut, given_up, garbled, parser, emitted>>

-----------------------------------------------------------------------------
(* Reading the stream.                                                     *)

Read(f) ==
  LET r == OnFrame(protocol, parser, f)
  IN  /\ parser' = r.parser
      /\ emitted' = emitted \o r.out
      /\ IF Event("error") \in ToSet(r.out)
           THEN phase' = "done" /\ result' = Failed("provider_5xx")
           ELSE UNCHANGED <<phase, result>>

\* The rest of an event arrives, with its blank line.
Arrive(k) ==
  /\ phase = "reading"
  /\ cut.part \in {-1, k}
  /\ CanSend(k)
  /\ Read(IF cut.inside THEN Garbled(NextFrame(k)) ELSE NextFrame(k))
  /\ garbled' = (garbled \/ (cut.inside /\ NextFrame(k).text # <<>>))
  /\ arrived' = [arrived EXCEPT ![k] = @ + 1]
  /\ cut' = NoCut
  /\ UNCHANGED <<op, protocol, asked, body, listed, answer, given_up>>

\* A chunk of the network ends in the middle of an event.
ArrivePart(k, inside) ==
  /\ phase = "reading"
  /\ cut = NoCut
  /\ CanSend(k)
  /\ cut' = [part |-> k, inside |-> inside]
  /\ UNCHANGED <<op, protocol, phase, asked, body, result, listed, answer, arrived,
                 given_up, garbled, parser, emitted>>

\* The vendor reports an error in the stream.
ArriveError ==
  /\ phase = "reading"
  /\ ~given_up
  /\ Read(Frame("error"))
  /\ given_up' = TRUE
  /\ cut' = NoCut
  /\ UNCHANGED <<op, protocol, asked, body, listed, answer, arrived, garbled>>

\* The bytes end, wherever the vendor had got to: what is left in the
\* buffer is dropped.
End ==
  /\ phase = "reading"
  /\ emitted' = Append(emitted, [Event("completed") EXCEPT !.finish = parser.finish,
                                                          !.usage = parser.usage])
  /\ phase' = "done"
  /\ result' = Ok(<<>>)
  /\ UNCHANGED <<op, protocol, asked, body, listed, answer, arrived, cut, given_up,
                 garbled, parser>>

\* The connection breaks, or the call's timeout passes.
Break(category) ==
  /\ phase = "reading"
  /\ emitted' = Append(emitted, Event("error"))
  /\ phase' = "done"
  /\ result' = Failed(category)
  /\ UNCHANGED <<op, protocol, asked, body, listed, answer, arrived, cut, given_up,
                 garbled, parser>>

\* The caller has taken the result, and the adapter waits for another call.
Return ==
  /\ phase = "done"
  /\ op' = "none" /\ protocol' = "openai" /\ phase' = "idle"
  /\ asked' = <<>> /\ body' = NoBody /\ result' = NoResult /\ listed' = <<>>
  /\ answer' = NoAnswer /\ arrived' = <<>> /\ cut' = NoCut
  /\ given_up' = FALSE /\ garbled' = FALSE
  /\ parser' = NewParser /\ emitted' = <<>>

Next ==
  \/ \E o \in {"chat", "stream", "models", "embeddings", "health"}, p \in Protocol,
        m \in Requests \cup {<<>>} : Begin(o, p, m)
  \/ \E category \in {"timeout", "connection"} : Unreachable(category) \/ Break(category)
  \/ \E status \in Statuses, hint \in {"none", "length", "filter"} : Refuse(status, hint)
  \/ Unreadable
  \/ AnswerHealthy
  \/ \E a \in Answers : AnswerWhole(a) \/ OpenStream(a)
  \/ \E items \in [1 .. 2 -> {"vector", "unreadable"}] :
       AnswerVectorsSkipping(items) \/ AnswerVectorsInPlace(items)
  \/ AnswerList
  \/ \E pages \in 1 .. VendorPages :
       \/ AnswerPageToken(pages)
       \/ \E lost \in BOOLEAN : AnswerPageAfter(pages, lost)
  \/ \E k \in DOMAIN arrived :
       Arrive(k) \/ \E inside \in BOOLEAN : ArrivePart(k, inside)
  \/ ArriveError
  \/ End
  \/ Return

Spec == Init /\ [][Next]_vars

-----------------------------------------------------------------------------
(* Properties.                                                             *)

\* What a reader of the stream puts together from its events: the texts of a
\* kind (and, for arguments, of a call's index), and the calls announced.
Gathered(kind, index) ==
  FlattenSeq([i \in 1 .. Len(emitted) |->
                IF emitted[i].kind = kind /\ emitted[i].index = index
                  THEN emitted[i].text ELSE <<>>])

CallsGathered ==
  FlattenSeq([i \in 1 .. Len(emitted) |->
                IF emitted[i].kind = "call"
                  THEN <<[index |-> emitted[i].index, id |-> emitted[i].id]>> ELSE <<>>])

Streamed ==
  [content |-> Gathered("content", 0), reasoning |-> Gathered("reasoning", 0),
   calls |-> [n \in 1 .. Len(CallsGathered) |->
                [id |-> CallsGathered[n].id, args |-> Gathered("args", CallsGathered[n].index)]],
   finish |-> Last(emitted).finish]

Finished == phase = "done" /\ op = "stream" /\ answer # NoAnswer

\* An answer whose events have all arrived reads the same streamed and
\* whole: the same text, thoughts, calls with their arguments and reason,
\* however the pieces of several calls came in turn.  Not so for a
\* character cut by the network, for the arguments of a vendor that leaves
\* "type" out of a continued call, and for a Responses answer that stopped
\* early, whose last event has no case.
StreamAgreesWithWhole ==
  (/\ Finished
   /\ result.outcome = "ok"
   /\ \A k \in DOMAIN arrived : Through(k)
   /\ ~garbled
   /\ protocol = "openai" => answer.typed
   /\ protocol = "responses" => Reason(protocol, answer.reason) # "incomplete")
  => Streamed = Whole(protocol, answer)

\* The order the pipeline counts on: the stream starts once and before
\* anything else, arguments belong to a call that was announced, no two
\* calls share an index, and the last event, there unless the caller still
\* waits, is the only one that ends the stream.
WellFormedSource ==
  LET Kind(i) == emitted[i].kind
      Ends(i) == Kind(i) \in {"completed", "error"}
  IN  /\ \A i \in DOMAIN emitted :
           /\ ~Ends(i) => (Kind(i) = "started" <=> i = 1)
           /\ Ends(i) => i = Len(emitted)
           /\ Kind(i) = "args" =>
                \E j \in 1 .. i - 1 : Kind(j) = "call" /\ emitted[j].index = emitted[i].index
           /\ Kind(i) = "call" =>
                \A j \in 1 .. i - 1 : Kind(j) = "call" => emitted[j].index # emitted[i].index
      /\ Finished => emitted # <<>> /\ Ends(Len(emitted))

\* An end of stream is reported as a completion even when the vendor was
\* cut off; but a completion that gives a reason to stop has all of the
\* answer before it, in an order the pipeline can count on.
FinishMeansWhole == WellFormedSource /\
  \A i \in DOMAIN emitted :
    (emitted[i].kind = "completed" /\ emitted[i].finish # "none")
    => \A k \in 0 .. Ending - 1 : Through(k)

\* What the ledger is billed from: the usage a completion carries is no less,
\* in input and in output, than any report of the vendor that has arrived,
\* the first one too, which Anthropic alone sends and does not repeat.  The
\* report of a Responses answer that stopped early goes unread.
UsageCoversReports ==
  LET ReadFrames(k) == SubSeq(FramesOf(k), 1, arrived[k])
      Reports == UNION {f.usage : f \in UNION {ToSet(ReadFrames(k)) : k \in DOMAIN arrived}}
  IN  (/\ Finished
       /\ Last(emitted).kind = "completed"
       /\ protocol = "responses" => Reason(protocol, answer.reason) # "incomplete")
      => \A u \in Reports : \E v \in Last(emitted).usage :
           u.input <= v.input /\ u.output <= v.output

\* What turns say, and of it what has words, calls or results.
PartsIn(turns) == FlattenSeq([i \in 1 .. Len(turns) |-> turns[i].parts])
Worded(parts) ==
  FlattenSeq([i \in 1 .. Len(parts) |->
                IF parts[i] = Part("text", NoText) THEN <<>> ELSE <<parts[i]>>])

\* What a message says, and a conversation, with its system prompt or without.
SaidBy(m) ==
  (IF m.role = "tool" THEN <<Part("result", m.of)>> ELSE <<Part("text", m.text)>>) \o Calls(m)
Said(conversation, apart) ==
  FlattenSeq([i \in 1 .. Len(conversation) |->
                IF conversation[i].role = "system" /\ apart THEN <<>>
                                                            ELSE SaidBy(conversation[i])])

\* Three of the adapters read the calls of an assistant only.
OnlyAssistantsCall(conversation) ==
  \A i \in 1 .. Len(conversation) :
    conversation[i].role # "assistant" => conversation[i].calls = <<>>

\* The request says what the conversation said, every text, call and tool
\* result once and in order; Anthropic and Gemini get turns that alternate,
\* with the system prompt apart.  The calls are an assistant's.
ConversationKept ==
  LET apart == protocol \in {"anthropic", "gemini"}
  IN  phase = "sent" /\ body # NoBody /\ OnlyAssistantsCall(asked) =>
        /\ Worded(PartsIn(body.turns)) = Worded(Said(asked, apart))
        /\ apart => /\ body.system = SystemOf(asked)
                    /\ \A i \in 1 .. Len(body.turns) - 1 :
                         body.turns[i].role # body.turns[i + 1].role

=============================================================================
