------------------------------ MODULE AgentRun ------------------------------
(***************************************************************************)
(* One run of an agent at a time (crates/application/src/agent_service.rs, *)
(* run_published() and execute_run()): the model is called, the tools it   *)
(* names are checked against the version's list and executed, and the loop *)
(* goes on until it answers in words or a limit is met.  Beside it tools   *)
(* and MCP servers are created and deleted.  Every write may fail, and the *)
(* admin handler that awaits the run is dropped when its client leaves.    *)
(***************************************************************************)
EXTENDS Integers, Sequences, FiniteSets, SequencesExt

CONSTANTS
  Tools,       \* keys of tools
  KindOf,      \* kind of each: "builtin", "http", "mcp" or another word
  Refused,     \* tools that fail before anything is sent: a builtin nobody
               \* wrote, an http tool that is not a GET or whose URL is barred
  Servers,     \* MCP servers
  ServerOf,    \* the server an mcp tool names
  Versions,    \* published versions, with their limits
  Batches,     \* tool calls an answer of the model may hold
  Costs,       \* microunits an answer may cost
  MaxRows      \* bound of the model: rows a server's key has had

NoLimit == -1

VARIABLES
  phase,      \* where the run is
  version,    \* the version it runs
  offered,    \* tools enabled at its start and on the version's list
  step, spent, counted,  \* the loop's locals
  batch,      \* calls of the last answer not yet dealt with
  pending,    \* status of the call dealt with but not written
  row,        \* the agent_runs row
  written,    \* its tool_calls rows
  returned,   \* what the caller gets
  lost,       \* history: a write that carried an outcome failed
  executed,   \* history: tools executed for the run
  registry,   \* tools that exist, all of them enabled
  serverRow,  \* each server's row, by its generation; 0 when there is none
  mcp_cache   \* the rows the executor remembers

locals == <<version, offered, step, spent, counted, batch, pending>>
world == <<registry, serverRow, mcp_cache>>
vars == <<phase, locals, row, written, returned, lost, executed, world>>

NoRow == [status |-> "none", code |-> "none", cost |-> 0]
NoReturn == [status |-> "none", cost |-> 0]

Init ==
  /\ phase = "idle"
  /\ version \in Versions
  /\ offered = {} /\ step = 0 /\ spent = 0 /\ counted = 0
  /\ batch = <<>> /\ pending = "none"
  /\ row = NoRow /\ written = <<>> /\ returned = NoReturn
  /\ lost = FALSE /\ executed = <<>>
  /\ registry = Tools
  /\ serverRow = [s \in Servers |-> 1] /\ mcp_cache = [s \in Servers |-> 0]

-----------------------------------------------------------------------------
(* The registry.  A server's key may be taken again after its deletion;    *)
(* the cache hears of neither.                                             *)

CreateTool(t) ==
  /\ t \notin registry /\ registry' = registry \cup {t}
  /\ UNCHANGED <<phase, locals, row, written, returned, lost, executed, serverRow, mcp_cache>>

\* discover_mcp_tools() asks a server that has a row, and skips the keys that
\* are taken.
DiscoverTool(t) ==
  /\ KindOf[t] = "mcp" /\ serverRow[ServerOf[t]] > 0
  /\ registry' = registry \cup {t}
  /\ UNCHANGED <<phase, locals, row, written, returned, lost, executed, serverRow, mcp_cache>>

DeleteTool(t) ==
  /\ t \in registry /\ registry' = registry \ {t}
  /\ UNCHANGED <<phase, locals, row, written, returned, lost, executed, serverRow, mcp_cache>>

DeleteServer(s) ==
  /\ serverRow[s] > 0 /\ serverRow' = [serverRow EXCEPT ![s] = -@]
  /\ UNCHANGED <<phase, locals, row, written, returned, lost, executed, registry, mcp_cache>>

CreateServer(s) ==
  /\ serverRow[s] < 0 /\ -serverRow[s] < MaxRows
  /\ serverRow' = [serverRow EXCEPT ![s] = 1 - @]
  /\ UNCHANGED <<phase, locals, row, written, returned, lost, executed, registry, mcp_cache>>

-----------------------------------------------------------------------------
(* The run's row.                                                          *)

FinishRun(status, code, cost) ==
  row' = [status |-> status, code |-> code, cost |-> cost]

\* Mutant: the row is left to the loop.
FailSilently ==
  /\ phase = "failing"
  /\ returned' = [status |-> "error", cost |-> 0]
  /\ phase' = "done"
  /\ UNCHANGED <<locals, row, written, lost, executed, world>>

\* run_published(): an error of the loop overwrites the row; that write's
\* own error is dropped.
Fail ==
  /\ phase = "failing"
  /\ \/ FinishRun("failed", "AGENT_FAILED", 0) /\ UNCHANGED lost
     \/ lost' = TRUE /\ UNCHANGED row
  /\ returned' = [status |-> "error", cost |-> 0]
  /\ phase' = "done"
  /\ UNCHANGED <<locals, written, executed, world>>

Start ==
  /\ phase = "idle"
  /\ FinishRun("running", "none", 0)
  /\ phase' = "begun"
  /\ UNCHANGED <<locals, written, returned, lost, executed, world>>

Allowed(t) == version.allowed = {} \/ t \in version.allowed

Offer ==
  /\ phase = "begun"
  /\ offered' = {t \in registry : Allowed(t)}
  /\ phase' = "loop"
  /\ UNCHANGED <<version, step, spent, counted, batch, pending, row, written, returned, lost,
                 executed, world>>

\* A read or a write whose error execute_run() passes on.
Error ==
  /\ phase \in {"begun", "stepping", "calling", "writing", "completing"}
  /\ phase' = "failing"
  /\ UNCHANGED <<locals, row, written, returned, lost, executed, world>>

-----------------------------------------------------------------------------
(* The loop.                                                               *)

NextStep ==
  /\ phase = "loop" /\ batch = <<>> /\ step < version.max_steps
  /\ step' = step + 1 /\ phase' = "stepping"
  /\ UNCHANGED <<version, offered, spent, counted, batch, pending, row, written, returned, lost,
                 executed, world>>

MarkRunning ==
  /\ phase = "stepping"
  /\ FinishRun("running", "none", spent)
  /\ phase' = "calling"
  /\ UNCHANGED <<locals, written, returned, lost, executed, world>>

\* Mutant: the guard looks at what was spent before the answer.
OverCostBefore(cost) == version.max_cost # NoLimit /\ spent > version.max_cost

OverCost(cost) == version.max_cost # NoLimit /\ spent + cost > version.max_cost

\* The pipeline answers.  The cost guard writes its outcome, whose error is
\* dropped, and then returns an error as well.
Exceed ==
  /\ phase = "calling"
  /\ \E cost \in Costs :
       /\ OverCost(cost)
       /\ spent' = spent + cost
       /\ \/ FinishRun("failed", "AGENT_MAX_COST", spent + cost) /\ UNCHANGED lost
          \/ lost' = TRUE /\ UNCHANGED row
  /\ phase' = "failing"
  /\ UNCHANGED <<version, offered, step, counted, batch, pending, written, returned, executed,
                 world>>

\* An answer without tool calls is the last one, with or without words.
AnswerInWords ==
  /\ phase = "calling"
  /\ \E cost \in Costs, words \in BOOLEAN :
       /\ ~OverCost(cost)
       /\ spent' = spent + cost
       /\ phase' = IF step >= version.max_steps /\ ~words THEN "out_of_steps" ELSE "completing"
  /\ UNCHANGED <<version, offered, step, counted, batch, pending, row, written, returned, lost,
                 executed, world>>

AnswerWithCalls ==
  /\ phase = "calling"
  /\ \E cost \in Costs, calls \in Batches :
       /\ ~OverCost(cost)
       /\ spent' = spent + cost
       /\ IF counted >= version.max_tool_calls
          THEN phase' = "out_of_calls" /\ UNCHANGED batch
          ELSE phase' = "loop" /\ batch' = calls
  /\ UNCHANGED <<version, offered, step, counted, pending, row, written, returned, lost, executed,
                 world>>

-----------------------------------------------------------------------------
(* The calls of an answer, one after the other.                            *)

Deny ==
  /\ phase = "loop" /\ batch # <<>> /\ Head(batch) \notin offered
  /\ counted' = counted + 1 /\ pending' = "denied" /\ phase' = "writing"
  /\ UNCHANGED <<version, offered, step, spent, batch, row, written, returned, lost, executed,
                 world>>

Execution(t) ==
  /\ phase = "loop" /\ batch # <<>> /\ Head(batch) = t /\ t \in offered
  /\ counted' = counted + 1 /\ phase' = "writing"
  /\ executed' = Append(executed, t)
  /\ UNCHANGED <<version, offered, step, spent, batch, row, written, returned, lost, registry,
                 serverRow>>

\* Builtin and http tools; a word that is no kind fails.
Execute(t) ==
  /\ KindOf[t] # "mcp" /\ Execution(t)
  /\ IF t \in Refused \/ KindOf[t] \notin {"builtin", "http"}
     THEN pending' = "failed"
     ELSE \/ pending' = "succeeded"
          \/ KindOf[t] = "http" /\ pending' \in {"failed", "timeout"}
  /\ UNCHANGED mcp_cache

\* The server is looked for in the cache, then in the table; a row that is
\* found there is cached.  What the cache says is called.
Known(t) ==
  LET s == ServerOf[t] IN IF mcp_cache[s] # 0 THEN mcp_cache[s] ELSE serverRow[s]

ExecuteMcp(t) ==
  /\ KindOf[t] = "mcp" /\ Execution(t)
  /\ IF Known(t) > 0
     THEN /\ mcp_cache' = [mcp_cache EXCEPT ![ServerOf[t]] = Known(t)]
          /\ pending' \in {"succeeded", "failed", "timeout"}
     ELSE pending' = "failed" /\ UNCHANGED mcp_cache

\* Mutant: the error of the write is dropped.
InsertToolCallBestEffort ==
  /\ phase = "writing"
  /\ \/ written' = Append(written, [tool |-> Head(batch), status |-> pending])
     \/ UNCHANGED written
  /\ batch' = Tail(batch) /\ pending' = "none" /\ phase' = "loop"
  /\ UNCHANGED <<version, offered, step, spent, counted, row, returned, lost, executed, world>>

InsertToolCall ==
  /\ phase = "writing"
  /\ written' = Append(written, [tool |-> Head(batch), status |-> pending])
  /\ batch' = Tail(batch) /\ pending' = "none" /\ phase' = "loop"
  /\ UNCHANGED <<version, offered, step, spent, counted, row, returned, lost, executed, world>>

-----------------------------------------------------------------------------
(* The ends.                                                               *)

LastStep ==
  /\ phase = "loop" /\ batch = <<>> /\ step >= version.max_steps
  /\ phase' = "out_of_steps"
  /\ UNCHANGED <<locals, row, written, returned, lost, executed, world>>

RunOut ==
  /\ phase \in {"out_of_calls", "out_of_steps"}
  /\ \/ FinishRun("failed", "AGENT_MAX_STEPS", spent) /\ UNCHANGED lost
     \/ lost' = TRUE /\ UNCHANGED row
  /\ returned' = [status |-> "failed", cost |-> spent]
  /\ phase' = "done"
  /\ UNCHANGED <<locals, written, executed, world>>

Complete ==
  /\ phase = "completing"
  /\ FinishRun("completed", "none", spent)
  /\ returned' = [status |-> "completed", cost |-> spent]
  /\ phase' = "done"
  /\ UNCHANGED <<locals, written, lost, executed, world>>

\* The client leaves: the future is dropped where it waits.
Dropped ==
  /\ phase \notin {"idle", "done", "dropped"}
  /\ phase' = "dropped"
  /\ UNCHANGED <<locals, row, written, returned, lost, executed, world>>

Loop ==
  \/ Offer \/ Fail \/ NextStep \/ MarkRunning \/ Exceed \/ AnswerInWords \/ AnswerWithCalls
  \/ Deny \/ InsertToolCall \/ LastStep \/ RunOut \/ Complete
  \/ \E t \in Tools : Execute(t) \/ ExecuteMcp(t)

Next ==
  \/ Start \/ Loop \/ Error \/ Dropped
  \/ \E t \in Tools : CreateTool(t) \/ DiscoverTool(t) \/ DeleteTool(t)
  \/ \E s \in Servers : CreateServer(s) \/ DeleteServer(s)

\* Every await of the loop ends: the pipeline's calls do, see
\* AcceptedSettles, and a tool's are cut by its timeout.
Spec == Init /\ [][Next]_vars /\ WF_vars(Loop)

-----------------------------------------------------------------------------
(* Properties.                                                             *)

Longest == CHOOSE n \in {Len(b) : b \in Batches} : \A b \in Batches : Len(b) <= n

\* The limits of a version hold as far as the code enforces them: the steps
\* exactly, the tool calls up to the end of the batch that crosses the limit,
\* and the money up to the one answer that crosses it, after which the model
\* is not asked again (the guards of execute_run()).
LimitsHold ==
  /\ step <= version.max_steps \/ step = 0
  /\ counted > 0 => counted <= version.max_tool_calls - 1 + Longest
  /\ phase \in {"loop", "stepping", "calling", "writing", "completing"} =>
       version.max_cost = NoLimit \/ spent <= version.max_cost

\* The rows of the run that stand for an execution, and how many there are up
\* to one of them.
Ran == {i \in DOMAIN written : written[i].status # "denied"}
RanTo(i) == Cardinality(Ran \intersect (1 .. i))

\* Every tool that was executed for a run was on its list and enabled when
\* the run began, and has its row beside the run, in order, but for the one
\* whose row is being written or could not be; and a row says denied
\* of none of them (the check, the execution and insert_tool_call() of the loop).
ExecutionsAreRecorded ==
  /\ Range(executed) \subseteq offered
  /\ \A i \in Ran : executed[RanTo(i)] = written[i].tool
  /\ Len(executed) - Cardinality(Ran) \in {0, 1}
  /\ phase \in {"loop", "stepping", "calling", "completing", "out_of_calls", "out_of_steps"} =>
       Len(executed) = Cardinality(Ran)

\* What the caller is told is what the row says, as long as no write of an
\* outcome was lost: a run that ended in words or at a limit has its cost on
\* its row; one that ended in an error has none, whatever it spent, not even
\* when the cost guard had just written it (finish_run() in run_published()).
RowTellsTheRun ==
  phase = "done" /\ ~lost =>
    \/ returned.status = row.status /\ row.cost = spent /\ returned.cost = spent
    \/ returned.status = "error" /\ row = [status |-> "failed", code |-> "AGENT_FAILED", cost |-> 0]

\* The tables tell what a run did and how it ended.
RunIsRecorded == ExecutionsAreRecorded /\ RowTellsTheRun

\* A run whose client stays ends, and its row with it unless that write is
\* lost: none is left running (the loop's limits and the failure path).
RunsEnd ==
  []<>(phase \in {"idle", "done", "dropped"} /\ (phase = "done" => row.status # "running" \/ lost))
=============================================================================
