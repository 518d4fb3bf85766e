---------------------------- MODULE ProviderWire ----------------------------
(***************************************************************************)
(* What the four adapters (crates/provider-openai-compatible,              *)
(* provider-openai-responses, provider-anthropic and provider-gemini) make *)
(* of a conversation, of a vendor's whole answer, of one event of its      *)
(* stream and of an HTTP status, and what the gateway (crates/gateway      *)
(* /src/lib.rs) makes of the result for its own client.  AdapterCall puts  *)
(* these functions in the order of a call.                                 *)
(*                                                                         *)
(* An answer is a sequence of blocks: text, thinking or a tool call, each  *)
(* with the pieces the vendor streams it in.                               *)
(***************************************************************************)
EXTENDS Sequences, Integers, SequencesExt, FiniteSetsExt

Protocol == {"openai", "responses", "anthropic", "gemini"}

-----------------------------------------------------------------------------
(* From a client's messages to a request body.                             *)

\* to_canonical(): a role the gateway does not know is a user's.  The
\* client's tool_choice and response_format are left behind.
ToCanonical(messages) ==
  [i \in DOMAIN messages |->
     IF messages[i].role \in {"system", "assistant", "tool"}
       THEN messages[i]
       ELSE [messages[i] EXCEPT !.role = "user"]]

\* A part of a request: what is said, and for a call or a result which one.
Part(kind, data) == [kind |-> kind, data |-> data]

Calls(m) == [i \in 1 .. Len(m.calls) |-> Part("call", m.calls[i])]

NoText == ""

TextUnlessEmpty(m) == IF m.text = NoText THEN <<>> ELSE <<Part("text", m.text)>>

\* What one message contributes, in order: an empty text of an assistant is
\* left out, of a user not.
PartsOf(m) ==
  CASE m.role = "assistant" -> TextUnlessEmpty(m) \o Calls(m)
    [] m.role = "tool" -> <<Part("result", m.of)>>
    [] OTHER -> <<Part("text", m.text)>>

\* push_block() that opens a new turn for every block.
PushNewTurn(turns, role, part) == Append(turns, [role |-> role, parts |-> <<part>>])

\* push_block(), push_part(): consecutive parts of one role are one turn.
PushPart(turns, role, part) ==
  IF turns # <<>> /\ Last(turns).role = role
    THEN [turns EXCEPT ![Len(turns)].parts = Append(@, part)]
    ELSE Append(turns, [role |-> role, parts |-> <<part>>])

\* Turns of the messages, the tool's taken for the user's.  The system
\* prompt leaves the conversation for a field of its own.
MergedTurns(conversation, assistant) ==
  LET RoleOf(m) == IF m.role = "assistant" THEN assistant ELSE "user"
      Pushed(m) == IF m.role = "system" THEN <<>>
                   ELSE [j \in 1 .. Len(PartsOf(m)) |->
                           [role |-> RoleOf(m), part |-> PartsOf(m)[j]]]
      pushes == FlattenSeq([i \in 1 .. Len(conversation) |-> Pushed(conversation[i])])
      turns[n \in 0 .. Len(pushes)] ==
        IF n = 0 THEN <<>> ELSE PushPart(turns[n - 1], pushes[n].role, pushes[n].part)
  IN  turns[Len(pushes)]

SystemOf(conversation) ==
  FlattenSeq([i \in 1 .. Len(conversation) |->
                IF conversation[i].role = "system" THEN <<conversation[i].text>> ELSE <<>>])

\* build_chat_body(): one entry per message, with all its fields.
ChatBody(conversation) ==
  [system |-> <<>>,
   turns |->
     [i \in 1 .. Len(conversation) |->
        LET m == conversation[i]
        IN  [role |-> m.role,
             parts |-> (IF m.role = "tool" THEN <<Part("result", m.of)>>
                                           ELSE <<Part("text", m.text)>>) \o Calls(m)]]]

\* build_responses_body(): one item per part, nothing merged.
ResponsesBody(conversation) ==
  LET Items(m) == [j \in 1 .. Len(PartsOf(m)) |->
                     [role |-> m.role, parts |-> <<PartsOf(m)[j]>>]]
  IN  [system |-> <<>>,
       turns |-> FlattenSeq([i \in 1 .. Len(conversation) |-> Items(conversation[i])])]

\* build_messages_body() and build_generate_body().
MessagesBody(conversation) ==
  [system |-> SystemOf(conversation), turns |-> MergedTurns(conversation, "assistant")]

GenerateBody(conversation) ==
  [system |-> SystemOf(conversation), turns |-> MergedTurns(conversation, "model")]

Body(p, conversation) ==
  CASE p = "openai" -> ChatBody(conversation)
    [] p = "responses" -> ResponsesBody(conversation)
    [] p = "anthropic" -> MessagesBody(conversation)
    [] p = "gemini" -> GenerateBody(conversation)

-----------------------------------------------------------------------------
(* From a vendor's whole answer to a canonical one.                        *)

\* Why the vendor stopped, in its own words.  One of chat completions and
\* of Responses has no word of its own for a tool call or a filter.
Reason(p, reason) ==
  CASE p = "openai" -> reason
    [] p = "anthropic" ->
         [stop |-> "end_turn", tool_calls |-> "tool_use", length |-> "max_tokens",
          content_filter |-> "refusal"][reason]
    [] p = "gemini" ->
         [stop |-> "STOP", tool_calls |-> "STOP", length |-> "MAX_TOKENS",
          content_filter |-> "SAFETY"][reason]
    [] p = "responses" ->
         [stop |-> "completed", tool_calls |-> "completed", length |-> "incomplete",
          content_filter |-> "incomplete"][reason]

MapStopReason ==
  [end_turn |-> "stop", stop_sequence |-> "stop", tool_use |-> "tool_calls",
   max_tokens |-> "length", refusal |-> "content_filter"]

MapFinishReason ==
  [STOP |-> "stop", MAX_TOKENS |-> "length", SAFETY |-> "content_filter",
   MALFORMED_FUNCTION_CALL |-> "tool_calls"]

\* finish_reason of a Responses answer: its calls count before its status.
ResponsesFinish(hasCalls, status) ==
  IF hasCalls THEN "tool_calls"
  ELSE CASE status = "completed" -> "stop"
         [] status = "incomplete" -> "length"
         [] OTHER -> "none"

Joined(answer, kind) ==
  FlattenSeq([k \in 1 .. Len(answer.blocks) |->
                IF answer.blocks[k].kind = kind THEN answer.blocks[k].pieces ELSE <<>>])

HasCalls(answer) == \E k \in 1 .. Len(answer.blocks) : answer.blocks[k].kind = "call"

\* The calls of an answer by the names of its blocks.  Empty arguments stand
\* for an empty object, which only the whole answers of Anthropic and Gemini
\* spell out.
CallsListed(answer, names) ==
  FlattenSeq([k \in 1 .. Len(answer.blocks) |->
                IF answer.blocks[k].kind = "call"
                  THEN <<[id |-> names[k], args |-> answer.blocks[k].pieces]>>
                  ELSE <<>>])

CallsAsNamed(answer) ==
  CallsListed(answer, [k \in 1 .. Len(answer.blocks) |-> answer.blocks[k].id])

\* Gemini names no calls: the adapter numbers them.
GeminiCallId(n) == "call_" \o ToString(n)

CallsNumbered(answer) ==
  LET Before(k) == {j \in 1 .. k - 1 : answer.blocks[j].kind = "call"}
  IN  CallsListed(answer, [k \in 1 .. Len(answer.blocks) |-> GeminiCallId(Cardinality(Before(k)))])

Canonical(answer, calls, finish) ==
  [content |-> Joined(answer, "text"), reasoning |-> Joined(answer, "think"),
   calls |-> calls, finish |-> finish]

\* response_to_canonical() of each adapter.
WholeChoice(answer) ==
  Canonical(answer, CallsAsNamed(answer), Reason("openai", answer.reason))

WholeItems(answer) ==
  Canonical(answer, CallsAsNamed(answer),
            ResponsesFinish(HasCalls(answer), Reason("responses", answer.reason)))

WholeMessage(answer) ==
  Canonical(answer, CallsAsNamed(answer), MapStopReason[Reason("anthropic", answer.reason)])

WholeCandidate(answer) ==
  Canonical(answer, CallsNumbered(answer), MapFinishReason[Reason("gemini", answer.reason)])

Whole(p, answer) ==
  CASE p = "openai" -> WholeChoice(answer)
    [] p = "responses" -> WholeItems(answer)
    [] p = "anthropic" -> WholeMessage(answer)
    [] p = "gemini" -> WholeCandidate(answer)

-----------------------------------------------------------------------------
(* One vendor event after the other: the loop of each chat_stream().       *)

\* A vendor event: its type, the block it belongs to, the piece it carries,
\* the call it announces, a reason to stop and a usage report (at most one).
Frame(type) == [type |-> type, index |-> 0, delta |-> "none", text |-> <<>>,
                id |-> "", reason |-> "", usage |-> {}]

\* An event of the canonical stream.
Event(kind) == [kind |-> kind, index |-> 0, text |-> <<>>, id |-> "",
                finish |-> "none", usage |-> {}]

Delta(kind, index, text) == <<[Event(kind) EXCEPT !.index = index, !.text = text]>>
CallStarted(index, id) == <<[Event("call") EXCEPT !.index = index, !.id = id]>>
UsageUpdated(usage) ==
  IF usage = {} THEN <<>> ELSE <<[Event("usage") EXCEPT !.usage = usage]>>
StartedUnless(started) == IF started THEN <<>> ELSE <<Event("started")>>

\* A stream that counts as stopped unless the vendor says otherwise.
NewParserStopped == [started |-> FALSE, finish |-> "stop", usage |-> {},
                     current |-> -1, indexes |-> <<>>, next |-> 0]

\* The locals of the loop.
NewParser == [started |-> FALSE, finish |-> "none", usage |-> {},
              current |-> -1,      \* current_block
              indexes |-> <<>>,    \* tool_indexes: position n holds output_index
              next |-> 0]          \* tool_index, next_tool_index

\* The last report as it comes.
MergedUsageLast(old, new) == new

\* A report never falls below the one before it: message_delta of Anthropic
\* repeats only the output.
MergedUsage(old, new) ==
  {[u EXCEPT !.input = Max({u.input} \cup {o.input : o \in old}),
             !.output = Max({u.output} \cup {o.output : o \in old})] : u \in new}

TakeUsage(old, new) == IF new = {} THEN old ELSE MergedUsage(old, new)

\* A chat completion chunk is read only if it parses: an error object does
\* not, nor does a continued call whose vendor leaves its "type" out.
OnChunk(s, f) ==
  IF f.type \in {"error", "untyped"}
    THEN [parser |-> s, out |-> <<>>]
    ELSE [parser |-> [s EXCEPT !.started = TRUE,
                               !.finish = IF f.reason = "" THEN @ ELSE f.reason,
                               !.usage = TakeUsage(@, f.usage)],
          out |-> StartedUnless(s.started)
                  \o (CASE f.delta = "think" -> Delta("reasoning", 0, f.text)
                        [] f.delta = "text" -> Delta("content", 0, f.text)
                        [] f.delta = "call" -> CallStarted(f.index, f.id)
                        [] f.delta = "args" -> Delta("args", f.index, f.text)
                        [] OTHER -> <<>>)
                  \o UsageUpdated(IF f.usage = {} THEN {} ELSE MergedUsage(s.usage, f.usage))]

NextCall(s) == s.next + 1

\* A generateContent chunk: usage and reason first, then its part; a call
\* comes whole.  Any object is a chunk, an error object too.
OnGenerated(s, f) ==
  [parser |-> [s EXCEPT !.started = TRUE,
                        !.finish = IF f.reason = "" THEN @ ELSE MapFinishReason[f.reason],
                        !.usage = TakeUsage(@, f.usage),
                        !.next = IF f.delta = "call" THEN NextCall(s) ELSE @],
   out |-> StartedUnless(s.started)
           \o UsageUpdated(IF f.usage = {} THEN {} ELSE MergedUsage(s.usage, f.usage))
           \o (CASE f.delta = "think" -> Delta("reasoning", 0, f.text)
                 [] f.delta = "text" -> Delta("content", 0, f.text)
                 [] f.delta = "call" ->
                      CallStarted(s.next, GeminiCallId(s.next))
                      \o (IF f.text = <<>> THEN <<>> ELSE Delta("args", s.next, f.text))
                 [] OTHER -> <<>>)]

\* A message event.  Argument deltas belong to the block opened last.
OnMessageEvent(s, f) ==
  CASE f.type = "message_start" /\ ~s.started ->
         [parser |-> [s EXCEPT !.started = TRUE, !.usage = f.usage],
          out |-> <<Event("started")>>]
    [] f.type = "content_block_start" ->
         [parser |-> [s EXCEPT !.current = f.index],
          out |-> IF f.delta = "call" THEN CallStarted(f.index, f.id) ELSE <<>>]
    [] f.type = "content_block_stop" ->
         [parser |-> [s EXCEPT !.current = -1], out |-> <<>>]
    [] f.type = "content_block_delta" ->
         [parser |-> s,
          out |-> CASE f.delta = "text" -> Delta("content", 0, f.text)
                    [] f.delta = "think" -> Delta("reasoning", 0, f.text)
                    [] OTHER -> Delta("args", IF s.current = -1 THEN 0 ELSE s.current, f.text)]
    [] f.type = "message_delta" ->
         [parser |-> [s EXCEPT !.finish = MapStopReason[f.reason],
                               !.usage = MergedUsage(@, f.usage)],
          out |-> UsageUpdated(MergedUsage(s.usage, f.usage))]
    [] f.type = "error" -> [parser |-> s, out |-> <<Event("error")>>]
    [] OTHER -> [parser |-> s, out |-> <<>>]

\* The output index taken for the tool index.
ToolIndexRaw(s, outputIndex) == outputIndex

\* The tool index an output index stands for, the first when it is unknown.
ToolIndex(s, outputIndex) ==
  IF Contains(s.indexes, outputIndex)
    THEN (CHOOSE n \in 1 .. Len(s.indexes) : s.indexes[n] = outputIndex) - 1
    ELSE 0

\* A Responses event.  response.incomplete has no case of its own.
OnResponseEvent(s, f) ==
  CASE f.type = "response.created" /\ ~s.started ->
         [parser |-> [s EXCEPT !.started = TRUE], out |-> <<Event("started")>>]
    [] f.type = "response.output_item.added" /\ f.delta = "call" ->
         [parser |-> [s EXCEPT !.indexes = Append(@, f.index), !.next = @ + 1],
          out |-> CallStarted(s.next, f.id)]
    [] f.type = "response.output_text.delta" ->
         [parser |-> s, out |-> Delta("content", 0, f.text)]
    [] f.type = "response.reasoning_summary_text.delta" ->
         [parser |-> s, out |-> Delta("reasoning", 0, f.text)]
    [] f.type = "response.function_call_arguments.delta" ->
         [parser |-> s, out |-> Delta("args", ToolIndex(s, f.index), f.text)]
    [] f.type = "response.completed" ->
         [parser |-> [s EXCEPT !.usage = f.usage,
                               !.finish = ResponsesFinish(s.next > 0, f.reason)],
          out |-> UsageUpdated(f.usage)]
    [] f.type \in {"response.failed", "error"} ->
         [parser |-> s, out |-> <<Event("error")>>]
    [] OTHER -> [parser |-> s, out |-> <<>>]

OnFrame(p, s, f) ==
  CASE p = "openai" -> OnChunk(s, f)
    [] p = "gemini" -> OnGenerated(s, f)
    [] p = "anthropic" -> OnMessageEvent(s, f)
    [] p = "responses" -> OnResponseEvent(s, f)

-----------------------------------------------------------------------------
(* Refusals.                                                               *)

\* map_status_error() of each adapter: the category of a refused call; hint
\* is what the text of the error gives away.
ByStatus(status, forbidden, other) ==
  CASE status = 401 -> "authentication"
    [] status = 403 -> forbidden
    [] status = 404 -> "model_not_found"
    [] status = 429 -> "rate_limited"
    [] status \in 500 .. 599 -> "provider_5xx"
    [] OTHER -> other

ByHint(hint) ==
  CASE hint = "length" -> "context_length_exceeded"
    [] hint = "filter" -> "content_filtered"
    [] OTHER -> "invalid_request"

ChatRefused(status, hint) ==
  ByStatus(status, "permission_denied",
           IF status = 400 THEN ByHint(hint) ELSE "invalid_request")

ResponsesRefused(status, hint) == ByStatus(status, "permission_denied", ByHint(hint))

MessagesRefused(status, hint) ==
  ByStatus(status, "permission_denied",
           IF hint = "filter" THEN "invalid_request" ELSE ByHint(hint))

GenerateRefused(status, hint) == ByStatus(status, "authentication", ByHint(hint))

StatusCategory(p, status, hint) ==
  CASE p = "openai" -> ChatRefused(status, hint)
    [] p = "responses" -> ResponsesRefused(status, hint)
    [] p = "anthropic" -> MessagesRefused(status, hint)
    [] p = "gemini" -> GenerateRefused(status, hint)

\* The category health_check() reports.
HealthCategory(p, status) ==
  CASE status = 401 -> "authentication"
    [] status = 403 -> IF p = "gemini" THEN "authentication" ELSE "permission_denied"
    [] status = 429 -> "rate_limited"
    [] status \in 500 .. 599 -> "provider_5xx"
    [] OTHER -> "invalid_request"

-----------------------------------------------------------------------------
(* What the gateway's client gets.                                         *)

\* to_wire_response(): the calls of the answer are not written.
ToWireResponse(canonical) ==
  [content |-> canonical.content, reasoning |-> canonical.reasoning, calls |-> <<>>,
   finish |-> IF canonical.finish = "none" THEN "stop" ELSE canonical.finish]

\* The chunk a pipeline event becomes; the last one always says "stop".
ToWireChunk(event) ==
  CASE event.kind = "completed" -> [event EXCEPT !.finish = "stop"]
    [] OTHER -> event
=============================================================================
