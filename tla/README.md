# TLA+ verification of Enterprise AI Hub

Enterprise AI Hub is a Rust server that puts one OpenAI-compatible API in front of many model
providers. A request names a *virtual model*; the gateway resolves it to an ordered list of
(provider, model) candidates, calls them with retries, failover and circuit breakers, forwards a
stream if asked for one, and records the request, its usage and its cost. Around this core stand
administration services, agents, prompts, knowledge bases, evaluation, IAM and a Python runtime.

This directory holds TLA+ modules translated from the sources, TLC configurations that check them on
small instances, and theorems that TLAPS checks for every value of the constants. `PROJECT.json` maps
every definition to the lines it stands for, and lists components, runs, mutants, findings, hazards
and theorems. Paths below are relative to the repository.

Contents: 1 inventory · 2 modules and code · 3 runs, bounds and what they show · 4 fairness ·
5 proofs · 6 divergences between code and its documents · 7 what is not modelled · 8 plan.

## 1 Inventory

### The request path

**Circuit breaker** (`crates/application/src/breaker.rs`). State: a map from (provider, model key) to
`Closed`, `Open{opened_at}` or `HalfOpen{probe_in_flight}` with a count of consecutive failures, under
one mutex, in memory only. Operations: `check` (moves an expired `Open` to `HalfOpen` and claims the
trial call), `record_success`, `record_failure`. Its callers are the two pipelines: `check` once per
candidate, one report per attempt, and *no* report when no adapter can be built, the stream's client is
gone or the handler is dropped. Hard: reports arrive late and out of order, retries bypass `check`, the
trial claim has no owner. Correct when: the state follows the threshold, a half-open breaker always has
somebody who owes the report, a failing target is tried once per window, it does not stay shut.

**Rate limiter** (`limiter.rs`). State per subject: a queue of admission times and a count with the day
it is of, in memory. Operations: `check` (evict, compare, count) and `refund` (pop the newest time, one
off the count). Called by `prepare()`; later budget checks refund, all other failures do not. Hard:
refunds interleave with admissions of other requests and with midnight. Correct when: never more than
the limit is remembered, never more than was used, nobody is turned away early, limits are exact.

**Pipeline, non-streaming** (`pipeline.rs`: `prepare`, `execute_chat`, `persist_*`;
`crates/gateway/src/lib.rs`: `chat_non_stream`). State: local to the handler, plus the breakers and
three tables. Runs inside the HTTP handler's future, which the server drops at any `await` when the
client disconnects. Every write of the outcome may fail and is then only logged. Hard: check-then-act on
the monthly budget, nested retry and failover loops, partial persistence, cancellation, crash. Correct
when: the answer agrees with the tables, each request is metered and billed at most once, accepted
requests settle, the budget is overrun by a bounded amount only.

**Pipeline, streaming** (`pipeline.rs`: `execute_chat_stream`, `chat_stream` in the gateway). A spawned
task, a bounded channel of 64 events, an SSE response that reads it. The task learns of a disconnect
only from a failed `send`. Hard: back-pressure, cancellation at every event, mid-stream provider errors
before and after content, the last event against the writes. Correct when: no replay after content, a
well-formed sequence, a last event that is already durable, a settled row, an answered client.

**Request ledger** (`crates/persistence/src/requests.rs`). Tables `ai_requests`, `usage_records`,
`cost_records`; `create`, `finish`, `insert_usage`, `insert_cost`, monthly sum. No transaction spans
them. It is the contract between the pipelines and every report the console shows.

**Model resolution and routing tables** (`resolver.rs`, `services.rs`, `persistence/src/{virtual_models,
models,providers}.rs`). Tables of providers, models, virtual models and their targets. `resolve` reads
them in separate queries; administrators' calls write them with read-modify-write updates and a
target-list replacement that commits the deletion before the insertions. `simulate` shows the console
the order requests are said to take. Hard: every read of a resolution may see another version, two
administrators mix their lists. Correct when: what is switched off stays out, the table holds what was
asked for, the simulator tells the truth.

**Provider registry** (`registry.rs`, with `ProviderService` in `services.rs` and the default secret store in
`crates/secrets`). A cache of adapters by provider with a fingerprint of the row (its settings and
`updated_at`); built with the credential of the secret store, the system keyring with process memory behind it;
invalidated by updates. Hard: builds race updates and credential rotation, a rotation is two row writes around
a secret write and any of them may fail, the health probe touches the row, the keyring may be missing. Correct
when: a credential is out of use once its rotation has returned, the row's `credential_configured` is true
exactly if there is a credential.

**Provider adapters** (`crates/provider-{openai-compatible,openai-responses,anthropic,gemini}`). State: the
locals of a stream's loop (buffer, started, the calls announced, the usage so far). Operations: `chat`,
`chat_stream`, `embeddings`, `list_models`, `health_check`. Hard: a network that cuts frames anywhere, tool
calls whose pieces arrive in turn under the vendor's own indexes, usage in several reports, an end that is
not one, vendors that refuse turns which do not alternate. Correct when: the streamed answer is the whole
one, a reason to stop means nothing is missing, no usage report is forgotten, the request says what the
conversation said. **Gateway wire format** (`crates/gateway/src/lib.rs`): the translation before and after.

**Embeddings** (`crates/gateway/src/embeddings.rs`). A second path over the same ledger: one target, no
limiter, no breaker, three writes whose errors are dropped. Correct when: it writes the ledger as a chat does.

### Around it

**Agents** (`agent_service.rs`). State: versions, rows of runs and tool calls, the MCP server cache. Publish,
deprecate, run loop over steps and batches of tool calls. Hard: a publish is several writes, guards are
compared once per batch, the failure path overwrites the outcome, any write may be lost, tools and servers
change meanwhile. Correct when: the published version is served, limits hold, what was executed was allowed
and is recorded, what the caller hears is what the row says, a run ends.

**Prompts** (`prompt_service.rs`). State: versions. Publish and deprecate as agents do; rendering substitutes
variables and scans what it has inserted again. Correct when: the version published is served, rendering ends.

**Knowledge bases** (`knowledge_service.rs`). State: rows of bases, documents and chunks, files in the object
storage. Upload (hash, store, parse, chunk, embed, mark), deletion of documents and bases, rebinding to another
embedding model, query. Hard: every handler is a sequence of steps without a transaction and may stop after
each. Correct when: ready means whole, a query finds what is ready, one file is one document.

**Evaluation** (`eval_service.rs`). State: a run with its results. Hard: failed cases, a failed judge, lost rows.
Correct when: the summary can be recomputed from the rows.

**IAM and sessions, API keys, the admin API** (`iam_service.rs`, `services.rs`, `apps/server/src/admin.rs`,
`oidc.rs`). State: accounts with one role, sessions in memory, applications and keys. Password login, first
login by OIDC or by a trusted proxy, the routes with their permissions, authentication of keys. Hard: a
credential is looked up in several queries, each of which may end while another is read; routes, permissions
and roles are three lists that nothing keeps together. Correct when: an account changes only what its role is
for, a credential that has ended is not served.

**Runtime jobs** (`persistence/src/jobs.rs`). State: job rows. Enqueue, claim (two statements), finish, requeue.
**Runtime supervisor** (`crates/runtime-client`). State: process, restart counter, the runtime's state. Spawn,
handshake, health checks, backoff. **Backup** (`apps/server/src/backup.rs`). State: the archive, a staged file,
the target. Create, restore. Hard in all three: a crash between any two steps and a second actor beside the
first. **Pricing** (`crates/domain`): arithmetic only.

### How they interact

A gateway handler calls `prepare` (limiter, quota and budget reads, resolver, ledger `create`), then the
pipeline, which asks the breaker, takes an adapter from the registry, calls the provider and writes the
ledger. Limiter and breaker are shared in-memory state under a mutex that is never held across another
component's call; the database is shared state with one statement per step; the stream's task and the
response share a bounded channel. Administration services change the routing tables and invalidate the
registry. Agents, evaluations and knowledge bases call the pipeline or an adapter as clients of it and keep
tables of their own. The admin API checks the session and its permission before any service; the gateway
checks a key. A crash loses the in-memory state (breakers, limiter, sessions, caches) and keeps the tables.

## 2 Modules and code

| Module | Models | State and actions |
|---|---|---|
| `BreakerState` | one breaker, pure | a record `[state, probe, failures, age]`; `Admits`, `AfterCheck`, `AfterSuccess`, `AfterFailure`, `AfterTick` are `check`, `record_success`, `record_failure` and the clock |
| `CircuitBreaker` | the registry with its callers | `breaker`, `flight`, `left`; the *abstract specification* of how a pipeline may use a breaker: admit, report, report and retry, abandon, restart |
| `BreakerRecovery` | `CircuitBreaker` plus history | `leaked` (a trial call was abandoned), `sinceTrial`; the breaker's properties |
| `BreakerRecoveryProofs` | | theorems of `BreakerRecovery` |
| `RateLimiter` | `limiter.rs` for one subject and `prepare()` around it | `quota`, `events`, `day`, `count`, a clock, and where each request is; histories `at`, `crossed` |
| `RateLimiterProofs` | | theorems of `RateLimiter` |
| `RequestLedger` | what the three tables promise | `row`, `usage`, `cost` per request; the *abstract specification* of persistence |
| `ChatPipeline` | `prepare` after the limiter, `execute_chat`, `persist_success`, `persist_failure`, `chat_non_stream` | `pc` per handler, its candidates and attempts, the breakers, the ledger, the reply |
| `ChatPipelineProofs` | | both refinements, `AnswerMatchesLedger` and `OvershootBounded`, proved |
| `ChatStream` | `execute_chat_stream`, its three persistence functions, the reader of the channel | adds the provider stream, the channel (`sent`, `got`), the client |
| `ChatStreamProofs` | | both refinements and what the client may rely on, proved |
| `ModelRouting` | `resolve`, `authorize`, `simulate` and the edits of the routing tables | `status` of every row, `targets`, one pending task per administrator, the local state of each resolution |
| `ModelRoutingProofs` | | theorems of `ModelRouting` |
| `ProviderCache` | one provider: its row, its credential in the two stores, its cached adapter | one pending call per administrator (create, update with or without a key, delete), `caller` between reading the row, looking into the cache, resolving, inserting and calling; a restart |
| `ProviderWire` | what the adapters and the gateway make of a conversation, a whole answer, an event of a stream, an HTTP status; pure | functions of a protocol: `Body`, `Whole`, `OnFrame`, `ToCanonical`, ... |
| `AdapterCall` | one call of an adapter against a vendor and a network | `phase`, the request `body`, what has `arrived`, where it was `cut`, the `parser`'s locals, the events `emitted` |
| `ProviderProofs` | | theorems of `ProviderCache` and of `AdapterCall` |
| `EmbeddingsCall` | `execute_embeddings` | where each call is, and the ledger; instantiates `RequestLedger` |
| `Publishing` | versions of prompts and agents, rendering | `status` per version, one pending call per administrator between its reads and writes; the text being rendered |
| `AgentRun` | `run_published`, `execute_run`, tool execution | the loop's locals, the run's row, its tool calls, tools, servers and the MCP cache |
| `EvalRun` | `run` of the evaluation service | the loop's locals, rows, summary |
| `Agents` | `Publishing`, `AgentRun` and `EvalRun`, side by side | their variables; a step is a step of one of them |
| `AgentsProofs` | | theorems of `Agents` |
| `KnowledgeIngest` | the knowledge service | rows, chunks, objects; where each upload, the deletion and the query are |
| `AdminAccess` | logins, sessions, keys, the routes with their permissions | accounts, sessions, application, keys, one local state per call |
| `RuntimeJobs` | the job repository and any worker | jobs, where each worker is |
| `RuntimeSupervisor` | the supervisor's loop and the process | the loop, its counter, the process, its pipe |
| `BackupRestore` | backup and restore | archive, snapshot, target, where each command is |
| `Server` | `AdminAccess`, `RuntimeJobs`, `RuntimeSupervisor`, `BackupRestore`, `EmbeddingsCall` and `KnowledgeIngest`, side by side | their variables; a step is a step of one of them |
| `ServerProofs` | | theorems of `Server` |
| `MC*` | | values of the constants for TLC |

Composition: `ChatPipeline` and `ChatStream` take the breaker's effects from `BreakerState` and are each
shown and proved to implement both abstract specifications, by `INSTANCE RequestLedger` (the same variables) and
`INSTANCE CircuitBreaker WITH Caller <- Request, flight <- ...`, where `flight` is the current candidate
between `check()` and the report. `BreakerSpec` therefore carries every theorem about a breaker's callers
over to both pipelines, and `LedgerSpec` says that reports on the tables may rely on one contract.
`EmbeddingsCall` implements the same ledger. What other components see of a pipeline call is its outcome, so
`AgentRun` and `EvalRun` take a call as one step with the outcomes `ChatPipeline` allows. An adapter's
`FinishMeansWhole` contains the order of events that `ChatStream` takes for granted of its provider.

`Agents` (publication, a run, an evaluation) and `Server` (people and gateway keys, jobs, supervisor, backup,
embeddings, knowledge) compose parts that share no variable of the code: they instantiate each part, rename what
has one name in two of them, and a step of the whole is a step of one part that leaves the others alone. The
theorems are about these compositions. `MCAgents` and `MCServer` explore them with a variable `focus`, chosen at
the start, that says which part moves, so that TLC visits the sum of their state spaces and not the product;
since the parts are independent, every reachable state of each of them occurs.

What an action is. In `ChatPipeline` and `ChatStream` one action is the code between two awaits another
task can observe: one `check` or report (a mutex section), one SQL statement, one channel operation. A
write of an outcome either takes effect or fails (`fault`), and the code goes on either way, as
`let _ = ...` and the logged errors do. A provider call is its outcome: success or an error of a category;
a stream is a sequence of deltas that ends well or with an error. In the modules of services an action is one query or one write of a handler, a
call to a pipeline, or a point where the handler may stop; in `AdapterCall` it is one event of the vendor's stream
as the parser sees it. In `ModelRouting` an update is a read
followed by a write of the whole row, and the insertion of a target list is one step per row, because
`insert_targets()` has no transaction.

Data is reduced to what the properties tell apart: a cost is one unit, a message has a kind and the number
of the stream it came from, an error has a category that is or is not retried. `age` is the time since
`opened_at`, saturating at `OPEN_DURATION`, and the failure count saturates at `FailureCap`, above the
threshold; neither is distinguished further by `check` and `record_failure`.

In each module a section of *faulty variants* holds the mutated forms of definitions: each property is
violated by one of them under its own configuration, which shows that the property can fail.

## 3 Runs

Passing runs:

* **MCBreakerRecovery** (3 callers, 2 targets, threshold 2, window 2, 2 attempts). `ThresholdGoverns`:
  late reports never separate the state from the count. `TrialIsOwed`: a half-open breaker has a caller in
  flight that will end it, unless one leaked. `TrialsSpaced`: trial calls are a window apart unless a
  success came between. `RecoversUnlessLeaked` (liveness). Three callers are enough for a slow caller whose
  report is stale, one that trips the breaker and one that takes the trial; two attempts give a retry that
  passes a breaker which opened meanwhile.
* **MCRateLimiter** (5 requests, a window of 2, days of 4 ticks, 6 ticks, five quotas: both limits, each
  alone, a negative daily limit, a negative rpm). `WithinLimits`, `RejectsOnlyWhenFull`, and
  `ExactUnlessCrossed`: never more is remembered than was used, and both limits are exact as long as every
  refund takes back what its own request had counted. One midnight lies inside the run, and windows slide
  over it. More requests than the larger limit plus the refunds needed to cross make the limit reachable
  again after a refund.
* **MCChatPipeline** (2 requests, 2 targets in either order, 1 or 2 attempts, threshold 2, budget 1).
  `AnswerMatchesLedger`: 200 means completed, metered and billed once; an error means failed and neither.
  `OvershootBounded`: spend exceeds the budget by at most the requests that were past the check together.
  `LedgerSpec`, `BreakerSpec`: refinement. `AcceptedSettles`: liveness. Two requests with two attempts each
  reach every state of both breakers, including a trial call raced by the other request's stale report.
* **MCChatStream** (1 stream, 2 targets, 2 attempts, at most 2 deltas per provider stream, a channel of 2).
  `WellFormedStream` (no replay after content is part of it), `LastEventMatchesLedger` (what the client was
  told is durable, and a row says cancelled only if the client is gone), `Protocols` (both refinements),
  `StreamsSettle` (a settled row, an answered client). A capacity of 2 fills with a started event and one
  delta, so back-pressure and a hang-up with a waiting send occur; four provider streams can be opened by one
  request. One stream suffices for these: streams share nothing but the breakers.
* **MCChatStreamShared** (2 streams, 2 targets, 1 attempt, threshold 1, a channel of 1, no deltas).
  `BreakerSpec` for streams that share breakers: one is turned away after the other's failure, takes the
  trial call, fails over or reports after it.
* **MCModelRouting** (2 administrators with 4 calls in all, 1 resolution, 2 models of 2 providers under one
  key, 4 target lists, one with equal priorities and one that names a model twice). `OffIsNotRouted`: a model that was off when a
  resolution began and stayed off is not a candidate of it. `ConsoleAgrees`: the table holds the last list
  asked for unless edits overlapped or failed, and an undisturbed resolution yields the order the simulator
  shows while every provider is enabled. Four calls allow two overlapping edits and an enable and disable
  around them.
* **MCProviderCache** (2 administrators, 2 callers, 3 calls and recorded probes). `CallsUseRotated`: a caller
  that reads the row after a rotation has returned never calls with an older credential. What makes it true is
  the *second* write of the row: an adapter built with the old credential before it carries an older
  `updated_at`, however late it is cached. `MarkAgrees`: after calls that did not overlap or end half way, there
  is a credential exactly if the row says so. Both assume that the keyring answered always or never (`Steady`),
  and TLC stops at a state where it did not; the model also gives every write of the row a time stamp of its
  own, as microseconds of different round trips to SQLite have. Three calls are a rotation, another call that
  overlaps with it and a probe or a deletion; two callers are a slow build and one that meets its entry.
* **MCAdapterCall** (the four adapters; conversations of up to three of eight kinds of message; answers of up to
  three blocks with up to two pieces; seven statuses; two pages read of at most three).
  `StreamAgreesWithWhole`: what a reader puts together from the events is the answer read whole.
  `FinishMeansWhole`: a completion with a reason has everything before it, in an order the pipeline can count
  on. `UsageCoversReports`: no report of usage is forgotten. `ConversationKept`: nothing said is lost or said
  twice, turns alternate, if the calls are an assistant's. Two tool calls whose pieces arrive in turn, and a text or a thought before them, are
  the smallest answers in which an index can be wrong; three messages the smallest conversation in which two of
  a role meet after another.
* **MCAgents** (publication with 2 administrators and 3 versions; templates of three tokens over an acyclic and a
  cyclic map; one run against four versions that meet each limit at its boundary, four tools of every kind, one
  MCP server with two rows one after the other; 2 cases with a judge).
  `PublishTakesEffect`, `RenderingEnds` (liveness), `LimitsHold`, `RunIsRecorded`, `RunsEnd` (liveness),
  `SummaryFollowsRows`. A batch of three calls crosses a limit of one or two in its middle; three versions let a
  publish retire a version while another one publishes a third.
* **MCServer** (2 calls of one account, 1 session token; 2 gateway calls with 2 keys; 2 workers, 2 jobs, 3
  attempts; the supervisor with `MAX_RESTARTS` as in the code; a backup with 3 commits against 2 restores; 2
  embeddings calls; 2 uploads of 3 files). `RolesGovernChanges`: an account changes only what its role is for.
  `CredentialsEnd`: no call that arrives after its credential ended is served. `RunsAreBounded`,
  `RestartsAreBounded`, `RestoreIsWhole`, `EmbeddingsLedger` (refinement), `ReadyIsIndexed`, `QueryFindsReady`,
  `OneDocumentPerFile`. The target of a chunk is four bytes: two paragraphs of one byte are gathered, and one of the
  widths 1, 1, 1, 4, 1 is cut after seven bytes, the most a cut can reach over the target; a third file has no text.
  Each hazard of these parts is a race of two actors or a stop between two steps, so two
  of each suffice; a database of two pages is the smallest that can be torn. About four million states.

Violation runs, each one property that a document, comment or test states (section 6):
**MCBreakerRecoveryLeak** and **MCModelRoutingUpstream**.

`CHECK_DEADLOCK FALSE` stands where an instance ends because each request is made once (limiter, pipeline,
stream, agents, server) or because calls are bounded (routing). The breaker run and the adapter run check
deadlock. Symmetry is used for the requests of the limiter, two shared streams, administrators, callers of the
cache, and the calls and uploads of the server, only in runs without liveness.

Bounds that are not in the code: `FailureCap`, `MaxTime`, `MaxEvents`, `MaxCalls`, `MaxText`, `MaxVersions`,
`MaxRows`, `MaxCases`, `MaxTokens`, `MaxKeys`, `MaxJobs`, `MaxRequeues`, `MaxJobTime`, `MaxVersion`, `MaxBusy`,
`VendorPages`, the number of callers, requests, workers, restores, uploads and administrators; `Capacity`,
`OpenTicks`, `Window`, `FailureThreshold`, `SessionTtl`, `RetryDelay`, `HealthChecks`, `PipeSize`, `PageLimit`
and `Target` are the code's constants made small.

## 4 Fairness

* `BreakerRecovery.FairSpec`: time passes, and a call in flight is eventually reported, because adapters
  run every call under the provider's `timeout_ms`. An abandoned call is not in flight any more.
* `ChatPipeline.FairSpec`: weak fairness of each handler's own steps, which the tokio scheduler and the
  call timeout give. Nothing is assumed of disconnects, crashes or time: a skipped breaker is no wait.
* `ChatStream.FairSpec`: the same for the task and its provider, and for a client that stays: it reads what
  is queued. A client that neither reads nor hangs up would hold the task at `send` for ever: the code has no
  timeout there, and the assumption names it.
* `AgentRun.Spec`: weak fairness of the loop's own steps. Its awaits are calls of the pipeline, which settle,
  and tools, which are cut by their timeout. Nothing is assumed of the client or of administrators.
* `Publishing.Spec`: weak fairness of one replacement, a loop without an await that only the end of its work
  stops.

The limiter, routing, the adapter cache and the parts of the server have no liveness properties: every operation
there ends by itself, and no text promises that a retried job, a restarted runtime or a half-ingested document
gets anywhere.

## 5 Proofs

Every theorem is `Spec => []P` (or a refinement), for every value of the constants that the named assumptions
allow. Each rests on an inductive invariant: the initial states satisfy it, one step per action keeps it, and it
implies the property. What follows says what that invariant adds to the property and why it is needed.

### The request path

`BreakerRecoveryProofs`, for any number of callers and targets, any threshold, window and attempts:
`TypeCorrect`, `ThresholdGovernsAlways`, `TrialIsOwedAlways`, `TrialsSpacedAlways`. `TrialIsOwed` is not
inductive alone: a report must end the half-open state, and `record_failure` does so only because the count of
a half-open breaker is already at the threshold, which is `ThresholdGoverns`. The invariant joins both with the
types and `WindowFollowsTrial`: the age of an open breaker is at most the time since its last trial call.
`TrialsSpaced` follows from the last part, since `check` admits an open breaker only at full age.

`RateLimiterProofs`, for any quotas (also none, zero, negative), window and day length, and any requests:
`TypeCorrect`, `WithinLimitsAlways`, `LimitsAreExact`, `RejectionsAreDue`. The first two need no more than each
other: `check` compares before it counts, eviction and refund give a queue that is no longer. The other two
compare the queue with what happened, and a queue of times does not say whose they are. `Memory` therefore says it
in numbers. `Covered`: each entry and those behind it are no more than the requests let in since, so nothing is
remembered that did not happen. `Backed`: the requests let in since any moment of the window are no more than the
queue's entries, and the newest of these are as young; it holds until a refund takes back what another request
had counted (`crossed`), which is why `ExactUnlessCrossed` has that condition and `RejectsOnlyWhenFull` has none.
A refund removes one from both sides; it keeps `Covered` because what is removed is the newest entry.

`ChatPipelineProofs`, for any requests, targets, routes, attempts and errors: `ChatsImplementLedger`,
`AnswersMatchLedger`, `ChatsKeepToBreakers`, `OvershootIsBounded`. The invariant `Consistent` has three parts:
`WrittenSoFar`, what a handler may have written by the place it is at, which is what keeps a second usage or cost
row out; `WrittenWithoutFault`, what it has written if no write failed; and `Answered`, which the second part
implies at the moment of the answer. The breakers need another one, `LoopInv`: a handler that calls has a
candidate, and calls left only then; without it a step that is not in the loop would change what the protocol calls
`left`. `Flight` is the mapped caller, and `SameBreaker` says that both modules mean the same breaker. For the
budget, what was spent is not enough: a request that is past the check will be billed. `Overshoot` counts it from
the check on, so that the sum of both grows only at a check that has seen the budget unspent.

`ChatStreamProofs`, for any streams, targets, routes, number of deltas and capacity of the channel:
`StreamsKeepToProtocols` (both refinements), `StreamsAreWellFormed`, `LastEventsMatchLedger`. To the parts above the
invariant adds `Spoken`, which relates the events in the channel to the task: content is of the stream that is read
and `content_emitted` remembers it, a stream that is read was announced, no last event was sent before the task is
done. `AppendEvent` is the lemma about sequences: such an event leaves the sequence well formed. `Cancels` says that
a cancellation is one of a client that has gone, and `Told` is the conclusion.

`ModelRoutingProofs`, for any tables, lists, administrators and requests: `OffStaysOut`, `TargetsHoldTheList`,
`ConsoleTellsTheTruth`.
`Avoids` says that what is off since the resolution began is off now: a row is appended after its status was read,
and a switch to "on" takes its model out of `offSince` in the same step. `EditsFit` says what the table is in the
middle of an edit: the rows of the list that have been inserted. It holds while edits do not overlap; an overlap
sets `mixed`, and a call that begins alone after it establishes it anew, because it deletes what is there.
`TargetsHoldTheList` is the first half of `ConsoleAgrees`. The second half compares the resolver, which drops the rows
that are switched off and then walks what is left row by row, with the simulator, which filters the whole list at once.
Both read the rows in one order (`Ordered`), and what a loop keeps of an order is `Picked`, a recursive function.
`OrdersExist` shows by the least table without one that every finite table has an order, rows of one priority included.
`PickedIsLast` gives `Picked` as the last of a series of rounds, `PicksNext` that what is left of such a list begins with the next place that is kept, and
`PicksDone` that there is none when nothing is left. With them `WalkedTo` is kept: while nothing is written, a
resolution has walked to some place of the order, what it has still to look up is what is enabled behind it, and its candidates are what is
shown before it. At the end that is what the simulator shows.

`ProviderProofs` holds two components. Of the adapter cache, for any number of administrators, callers and calls:
`TypeCorrect`, `CallsUseRotatedAlways`, `MarkTellsTheTruth`. The invariant gives every version of the row the
number of credentials issued when it was written. The row's version knows every credential whose call has returned
(a rotation writes the row after the secret, and only then returns); a caller's version knows what it needs; a store
answers the newest credential or none; so what is inserted, and therefore what is cached under a version, is not
older than that version. `MarkInv` says what the one call under way knows at each of its places, the places between
which the mark and the stores disagree among them.

Of the adapters, for any answers of the four vendors, cut anywhere: `StreamsKeepOrder`, `ReasonsComeLast`,
`BillsCoverReports`, `StreamsReadAsWhole`. `StreamInv` relates three things: what has arrived (`Counted`; `InTurn`, a part begins when
those before it are through, but for tool calls, whose pieces may alternate), what the parser's locals know of it
(`Billed`: its usage is no less than any report that has arrived; `ReasonIsLast`), and what has been yielded
(`Open`, for each adapter in its own terms: the calls announced are those whose head has arrived, under the index
this adapter gives them). The first theorem is the invariant, the next two are what the pipeline needs of it. Under
them are lemmas of three layers: the frames a vendor sends for each part of an answer (`HeadSent`, `TailSent`,
`BlockSent`), what each parser does with such a frame (`ChunkRead`, `GeneratedRead`, `MessageRead`,
`ResponseRead`), and what appending an event does to the order of a stream.

`StreamsReadAsWhole` is about everything a reader puts together, and needs an invariant of its own beside
`StreamInv`, because the property speaks only of the end. `ReadInv` says at every moment what has been put together so
far. A *view* is what one reader looks for: the text, the thoughts, the arguments under one index, or the calls;
`Seen` is what a list of events shows in it, `To` what the first frames of one block should show. `Shown` says that
in every view what was seen is the concatenation of what each block should show by now. That one statement carries
calls whose pieces alternate: a piece of one call is added in the middle of the concatenation over the blocks but at
the end of the events, and both are the same because no other block shows anything in that call's view
(`FlattenGrows`), which in turn holds because no two calls share an index (`CallsAreNumbered`). The parsers' locals must be known
for it: `Counts` (the counter of Gemini and of Responses is the number of calls announced), `Indexed` (a position in
`tool_indexes` is the number of the call whose output index it holds), with `current` of Anthropic from `StreamInv`;
`Concluded` gives the reason. `Shows` and `Tells`, `Adds` are the layers below: `ShowsGrow` says what the n-th frame of a
block adds, `ChunkUtters`, `GeneratedUtters`, `MessageUtters` and `ResponseUtters` that each adapter's events for it show
that and nothing else. `ArriveBelieved` puts the two together. At the end every block shows all of its pieces, and
`TextsRead`, `ArgsRead` and `CallsRead` find in them what `response_to_canonical()` makes of the whole answer.
All this holds of what may be believed (`Trusted`): no character was cut and the vendor repeats the type of a call.

Of the requests, for conversations of any messages and any length: `RequestsKeepTheConversation`. Its invariant,
`Asking`, is short (the request under way is `Body` of the conversation asked); the work is in what `Body` computes.
Everything it says is a concatenation over messages, turns or parts, and `Each` is their common form. `JoinsExist` and
`FlattenIsLast` give `FlattenSeq` as the last of a series of partial results, `EachOfTwo` and `EachOfAll` say how
`Each` goes through a concatenation and through another `Each`. With them a body that maps messages to entries
(`ChatBodyKeeps`) or to items (`ResponsesBodyKeeps`) is compared with the conversation message by message
(`WordsOfMessage`). Merged turns are not of that form, because what a part does depends on the turn before it:
`PushKeeps` says that one push adds one part at the end and keeps turns alternating, and `TurnsKeep` carries it along
all pushes (`MergedKeeps`). The inductions, `Counting` and `Growing`, are those of the library in a form without an
operator parameter: over a set of numbers or of sequences that contains the first and goes on from each to the next.

### Around it

`AgentsProofs`, for any versions, tools, answers, costs, cases and number of administrators: `RunsKeepToLimits`,
`RunsAreRecorded`, `PublishesTakeEffect`, `SummariesFollowRows`. `Limits` counts the calls of the batch that are
still to come, because the limit is compared once per batch: at that moment the calls made and the whole batch
are within the bound. `Recorded` matches the calls' rows, the denied ones left out, with what was executed, one of
which may be without its row yet. `Intended` says that a version that is to be served is published or a call is
about to publish in its place; `Undisturbed`, that a call which is alone has retired all that was published before
it publishes. `Tallies` compares the evaluation's running sums with the sums over its results; sums are recursive
functions, and the lemmas about them (a sum of a longer list, a sum that does not depend on the list's end) are
proved by the least number at which they would fail.

`ServerProofs` begins with `StepsOfParts`: a step of the server is a step of a part or leaves it unchanged. Then,
for any number of actors and objects of each kind:

* `SupervisorGivesUp`. The code's counter is not the number of failures: it is one ahead of it after a process has
  answered. `AttemptCounts` relates the two, and the property follows from the counter's bound, `EndsAtBound`.
* `RestoresAreWhole`. A staged file is a prefix of the archive while it is read (`StagedFits`), the archive's
  pages and what is left of a running backup's snapshot are of one moment (`ArchiveIsOfOneMoment`), and a published
  target keeps others from publishing (`NothingPublished`).
* `EmbeddingsImplementLedger`, the refinement. A step maps to the ledger's step of its name or to a stutter (a write
  whose error is dropped). `WrittenSoFar` says what a call at each place has written: without it a step could
  insert a second meter.
* `RunsStayBounded`. A claim is two statements, so that the attempts of a row do not bound its runs: a worker that
  has selected a row will count an attempt more. `ClaimsFit` bounds the attempts together with the claims under
  way; `RowTellsTheWorker` is the exact bound of a job that no two workers have crossed on.
* `RolesAreKept`, `EndedMeansEnded`. What has ended stays ended, and a call that came too late meets it again at a
  look-up that is still before it (`EndWillShow`, one case per place of a call); the place of a call says which
  account, session or key it speaks of (`CallerKnown`).
* `ReadyMeansIndexed` for any text. `chunk_text()` is two loops, over the paragraphs and over the characters of one that
  is too long, and both are recursive functions. `FoldExists` and `Alike`, proved by induction over the numbers
  (`Counting`), give such a function step by step. `PlaceKeeps`, `CutKeeps` and `GatherKeeps` then say of each step
  that what is held is what was held and what was read, and that no chunk is longer than the target and the three
  bytes a character may reach over it; `ChunksHoldText` is the conclusion.
* `ReadyMeansIndexed`, `QueriesSeeWhatIsReady`, `FilesAreHeldOnce`. `UploadsFit` says, for each place of an upload,
  which chunks and which vectors are there; only a deletion touches them afterwards (`stripped`). `QuerySees`
  says that a document a query counts on is either still to be read or read as it is. `OneClaim` extends the
  uniqueness of a hash to uploads that have looked for it and not yet written their row.

### Assumptions

They are the named `ASSUME`s of the modules, which TLC evaluates on its instances:

* `BreakerAssumption`, `CallerAssumption`: a positive threshold, window and number of calls, a cap not below the
  threshold, an idle value that is no target. `LimiterAssumption`: a window, a positive day, limits that are integers
  or absent. `PipelineAssumption`, `StreamAssumption`: routes of one or more targets, a positive number of attempts, a
  channel of positive capacity. `RoutingAssumption`: models, providers and the virtual model are told apart, and lists
  of targets are lists of rows.
* `AdapterAssumption`, `AnswersAssumption`, `RequestsAssumption`: a positive number of pages; answers are sequences
  of blocks; requests are sequences of messages, each with a role, a text, calls and the call it answers.
* `VersionsAssumption`, `BatchesAssumption`, `CostsAssumption`, `EvaluationAssumption`: the types of an agent's
  version, of answers, costs and verdicts; one answer is the longest.
* `WorkersAssumption`, `AttemptsAssumption`, `DelayAssumption`, `TtlAssumption`, `RestartsAssumption`: finitely many
  workers, at least one attempt, numbers that are natural.
* `TextsAssumption`, `TargetAssumption`: a text is paragraphs of characters, each one to four bytes wide; a target that
  is not zero (the code's is 700 tokens of four bytes), without which a cut would make no way.

### Model-checked only

* Liveness: `RecoversUnlessLeaked`, `AcceptedSettles`, `StreamsSettle`, `RenderingEnds`, `RunsEnd`. The prover has
  neither fairness nor `ENABLED`.

Every safety property that a passing run checks is stated by a theorem.

No module uses a `RECURSIVE` operator, so that none is closed to proof.


## 6 Divergences

Shown by a run:

1. A trial call that is abandoned leaves its target shut until a restart (`OpensAndRecovers`).
2. The provider is called with the virtual model's key (`UpstreamKnowsTheModel`).

Seen while modelling, visible in the models, without a run of their own.

Request path:

* A disconnected non-streaming client leaves its row `accepted` for ever; `perf_e2e.rs:251` and `:285` expect it
  cancelled (`Disconnect` of `ChatPipeline`).
* Reasoning and tool-call deltas do not stop a replay, contrary to the intent at `pipeline.rs:561`; `WellFormedStream` is about
  content only.
* The resolver routes to a disabled provider (`resolver.rs:76`) that the simulator excludes (`services.rs:831`);
  `ConsoleAgrees` compares them while all are enabled.
* A refund takes the newest admission time for its own, so that the window forgets another request and more
  than rpm requests pass in a minute; a refund after midnight frees a place of the new day. `limiter.rs:46` speaks
  of requests per minute and per day without a condition (`ExactUnlessCrossed` has one).
* Only the two budget checks refund; `limiter.rs:93` says failed requests do not use up the quota.
* A cancelled stream is never metered; the comment at `pipeline.rs:666` says the usage produced is persisted.
* A provider is deleted with a model created after the count, although `services.rs:271` refuses a provider
  that has models.
* A keyring that fails during a rotation and answers again later returns the credential that was rotated
  away. Without a keyring a restart loses the credential of a row that stays marked.
* The cost record of embeddings has a total and components of zero; the Responses adapter's usage for embeddings
  puts the total into the output.

Adapters and gateway:

* Without "type" the continued pieces of an OpenAI tool call do not parse and are skipped. An error object in a
  stream of OpenAI or Gemini is ignored. A stream that ends early is a completion without a reason.
* A character of more than one byte that the network cuts is garbled (`provider-openai-compatible`, lib.rs:391), frames that end
  with CRLF blank lines never match, a trailing frame without a blank line is dropped.
* `response.incomplete` of the Responses API has no case: usage and reason are lost.
* Anthropic's cached tokens of the first report are overwritten; its list of models re-reads the first page when
  `last_id` is missing; a vendor with more than ten pages is cut without a word.
* Calls in a message that is not an assistant's pass the gateway and chat completions; the other three adapters
  leave them out (`OnlyAssistantsCall`).
* The gateway finishes every stream with "stop", drops tool calls of whole answers although `README.md:28` names
  them, and turns unknown roles into users.

Agents, evaluation, knowledge:

* The assistant's message goes back to the model without its tool calls (`agent_service.rs:752`); `timeout_ms` of a
  version is not used; `current_step` is never updated; no handler enables or disables a tool or a server; a deleted MCP server
  stays usable from the cache until the restart.
* Between the two writes of a publish no version is served. Two publishes that overlap can leave two.
* `max_tool_calls` is compared before a batch of any length; the failure path overwrites the outcome and the cost that the
  cost guard has just recorded.
* Cases that failed do not lower an evaluation's score; the judge's cost is not the run's; a judge's score is not bounded; a
  judge that fails counts as zero for half of the score.
* A failed document keeps its hash, so that its file is refused again; nothing picks up documents after a crash;
  `delete_kb` deletes the files before the rows; binding another model embeds nothing again.

Access and administration:

* A first login by proxy or OIDC creates the account before it asks whether it may enter. A name is unique across
  sources, so that another source's subject of that name is refused for ever. A crash between the account and its role
  leaves an account without a role that no handler can repair.
* An `expires_at` of a key that does not parse is no expiry. An application is created before its quota.
* `README.md:37` promises an audit of everything; deletions of agents, tools, servers, policies and data sets and the
  requeue of a job write no event.

Server:

* The repository has no worker for its jobs. `claim_due` overwrites the status it has read, `finish` and `requeue` look at
  none: `RunsAreBounded` says how far that goes.
* A process that completes its handshake and dies resets the counter: `lib.rs:62` of the runtime client allows no crash
  loop. Its stderr is a pipe that nobody reads while the runtime logs to it: once full, the process waits for ever and is
  shown as running. The state stays `running` during a backoff.
* A cut is made at the next boundary of characters, so that a chunk may have up to three bytes more than the target
  (`knowledge_service.rs:669`; `ChunkRows` and `ReadyIsIndexed` say `Target + 3`).
* A backup truncates the last archive before it writes the new one. A write-ahead log left beside the target of a
  restore is not looked at.

## 7 Not modelled

* Pricing (`crates/domain/src/{cost,pricing}.rs`): arithmetic in floating point, which TLA+ does not have.
* Policy and DLP: text patterns without a caller in the request path.
* The console, the desktop shell, the mock provider and the Python runtime: user interface, a test double, parsing
  of documents. Configuration, telemetry, object storage: input and output.
* The PostgreSQL repositories, other than the one operation that behaves differently (`Publishing`): the same
  operations in another dialect.
* The environment secret store; model discovery; single-row edits of columns that no modelled operation reads (names,
  descriptions, quotas, agents' and prompts' own columns).
* Operations without a caller: `reset` of limiter and breaker, `invalidate_all`, `update_resolved`,
  `RuntimeSupervisor::restart`, `discover_mcp_tools`, `resolve_published`; `set_status` and `set_password_hash` of accounts
  are called by tests only.

Inside the modelled parts: token counts and prices (a cost is one unit), audit events (no property reads
them), quota reads of the monthly token limit (the same check-then-act as the budget), the columns of routing
rows other than `enabled`, `priority` and the model's key, the statuses `routing` and `running` of requests, which no
code writes, signatures, hashes and cookies (taken to be what they are for), the text of a message (its identity) and
of a document (the widths of its characters, in order: `chunk_text()` counts bytes and cuts between characters), the
ranking of a query's hits and their cut to `top_k` (`QueryFindsReady` is about what was read before). A database error
of a resolution or of an edit of one row has no action in `ModelRouting`: the call ends without a write, which is the call
that stays where it is, since nothing there is fair; only the loop over targets, which has written some rows by then,
fails in an action of its own (`FailTargets`). `BackupRestore` has one backup at a time: two commands that write
one archive together are outside of it, and of `RestoreIsWhole`.

## 8 Plan

The model covers the system's own logic, and every safety property that a passing run checks is proved. What would
extend it: liveness, which section 5 leaves to TLC, for more than the small instances; two backups at once; and the
hazards of `PROJECT.json` that carry a note in place of a property.
