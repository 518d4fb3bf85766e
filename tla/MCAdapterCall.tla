--------------------------- MODULE MCAdapterCall ----------------------------
(* Requests of up to three messages, with empty texts, two calls in a
   message, a user's too, and tool results; answers of up to three blocks with one or two
   pieces, two of them tool calls, with arguments or without. *)
EXTENDS AdapterCall

Message(role, text, calls, of) == [role |-> role, text |-> text, calls |-> calls, of |-> of]

MCMessages ==
  {Message("system", "s", <<>>, ""),
   Message("user", "u", <<>>, ""),
   Message("user", "v", <<"w">>, ""),
   Message("developer", "", <<>>, ""),
   Message("assistant", "a", <<>>, ""),
   Message("assistant", "", <<"x", "y">>, ""),
   Message("assistant", "b", <<"z">>, ""),
   Message("tool", "r", <<>>, "x")}

MCRequests == UNION {[1 .. n -> MCMessages] : n \in 1 .. 3}

MCBlock(kind, id, pieces) == [kind |-> kind, id |-> id, pieces |-> pieces]

MCBlocks ==
  {<<MCBlock("text", "", <<"p", "q">>)>>,
   <<MCBlock("call", "x", <<"g">>), MCBlock("call", "y", <<"h", "i">>)>>,
   <<MCBlock("think", "", <<"t">>), MCBlock("text", "", <<"p">>), MCBlock("call", "x", <<"g", "h">>)>>,
   <<MCBlock("text", "", <<"p">>), MCBlock("call", "x", <<>>), MCBlock("call", "y", <<"h">>)>>}

MCAnswers ==
  {[blocks |-> b, reason |-> r, typed |-> t] : b \in MCBlocks,
     r \in {"stop", "tool_calls", "length", "content_filter"}, t \in BOOLEAN}
=============================================================================
