------------------------------ MODULE MCAgents ------------------------------
(* Publication, an agent's run and an evaluation share no state: "focus"
   says which of them a behaviour is about, so that the run explores their
   sum and not their product.  Rendering has two maps of variables, of
   which the second is cyclic; the versions of the agent meet each limit at
   its boundary and have an empty list of tools or a short one. *)
EXTENDS Agents

VARIABLE focus

MCKindOf == [echo |-> "builtin", fetch |-> "http", post |-> "http", remote |-> "mcp"]
MCServerOf == [remote |-> "s"]
Version(allowed, steps, calls, cost) ==
  [allowed |-> allowed, max_steps |-> steps, max_tool_calls |-> calls, max_cost |-> cost]
MCVersions ==
  {Version({}, 2, 1, -1), Version({"echo", "remote"}, 2, 2, 1),
   Version({"remote", "post"}, 0, 1, 0), Version({"fetch"}, 1, 0, 1)}
MCBatches == {<<"remote">>, <<"fetch", "echo", "post">>}

MCTemplates == {<<"hi", "x", "z">>}
MCBindings == {[x |-> <<"y", "y">>, y |-> <<>>], [x |-> <<"y">>, y |-> <<"x", "v">>]}

MCInit ==
  /\ focus \in {"publishing", "run", "evaluation"}
  /\ Init
  /\ focus # "publishing" => kind = "agent" /\ bindings = [x |-> <<"y", "y">>, y |-> <<>>]
  /\ focus # "run" => version = Version({}, 2, 1, -1)
  /\ focus # "evaluation" => ~judged /\ rule = [keywords |-> FALSE, pattern |-> FALSE]

Publish(A) == focus = "publishing" /\ A /\ UNCHANGED <<focus, running, evaluating>>
Run(A) == focus = "run" /\ A /\ UNCHANGED <<focus, publishing, evaluating>>

MCNext ==
  \/ Publish(P!Next)
  \/ Run(R!Next)
  \/ focus = "evaluation" /\ E!Next /\ UNCHANGED <<focus, publishing, running>>

MCvars == <<focus, vars>>
MCSpec ==
  MCInit /\ [][MCNext]_MCvars /\ WF_MCvars(Publish(P!Replace)) /\ WF_MCvars(Run(R!Loop))
=============================================================================
