------------------------------- MODULE Agents -------------------------------
(***************************************************************************)
(* What the server keeps of prompts and agents: the versions of one of     *)
(* them, a run of an agent and an evaluation.  They read and write tables  *)
(* of their own, so that a step of all three is a step of one.             *)
(***************************************************************************)
EXTENDS Integers, Sequences, FiniteSets

CONSTANTS
  Kinds, Calls, Names, Templates, Bindings, MaxVersions, MaxText,        \* Publishing
  Tools, KindOf, Refused, Servers, ServerOf, Versions, Batches, Costs, MaxRows,  \* AgentRun
  MaxCases, Verdicts, RunCosts                                           \* EvalRun

\* Limits of steps and calls are any integers, a limit of cost is an amount or
\* none; an answer holds so many calls and no more.
ASSUME VersionsAssumption ==
  Versions \subseteq [allowed : SUBSET Tools, max_steps : Int, max_tool_calls : Int,
                      max_cost : Nat \union {-1}]
ASSUME BatchesAssumption ==
  /\ Batches \subseteq Seq(Tools)
  /\ \E b \in Batches : \A c \in Batches : Len(c) <= Len(b)
ASSUME CostsAssumption == Costs \subseteq Int
ASSUME EvaluationAssumption == Verdicts \subseteq Int /\ RunCosts \subseteq Int

VARIABLES
  kind, status, deleted, call, intended, disturbed, failed, template, bindings, warnings,
  phase, version, offered, step, spent, counted, batch, pending, row, written, returned, lost,
  executed, registry, serverRow, mcp_cache,
  at, cases, judged, total, rule, scores, total_cost, results, rows, summary, evalLost

publishing ==
  <<kind, status, deleted, call, intended, disturbed, failed, template, bindings, warnings>>
running ==
  <<phase, version, offered, step, spent, counted, batch, pending, row, written, returned, lost,
    executed, registry, serverRow, mcp_cache>>
evaluating ==
  <<at, cases, judged, total, rule, scores, total_cost, results, rows, summary, evalLost>>
vars == <<publishing, running, evaluating>>

P == INSTANCE Publishing
R == INSTANCE AgentRun
E == INSTANCE EvalRun

Init == P!Init /\ R!Init /\ E!Init

Next ==
  \/ P!Next /\ UNCHANGED <<running, evaluating>>
  \/ R!Next /\ UNCHANGED <<publishing, evaluating>>
  \/ E!Next /\ UNCHANGED <<publishing, running>>

Spec == Init /\ [][Next]_vars /\ WF_publishing(P!Replace) /\ WF_running(R!Loop)

-----------------------------------------------------------------------------

\* The properties of the parts, which say what they state, of all three.
PublishTakesEffect == P!PublishTakesEffect
RenderingEnds == P!RenderingEnds
LimitsHold == R!LimitsHold
RunIsRecorded == R!RunIsRecorded
RunsEnd == R!RunsEnd
SummaryFollowsRows == E!SummaryFollowsRows
=============================================================================
