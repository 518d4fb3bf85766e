---------------------------- MODULE RuntimeJobs ----------------------------
(***************************************************************************)
(* The queue of runtime jobs (crates/persistence/src/jobs.rs): workers     *)
(* claim the oldest job that is due, with a SELECT and an UPDATE that      *)
(* does not look at the status again, and report how it went; an           *)
(* administrator may put any job back.  Who enqueues and works jobs is not *)
(* in the repository: any caller of JobRepository.                         *)
(***************************************************************************)
EXTENDS Integers, Sequences, FiniteSets

CONSTANTS
  Workers,
  MaxAttempts,  \* max_attempts of every row
  RetryDelay,   \* thirty seconds, in ticks
  MaxJobs,      \* bound of the model: rows
  MaxRequeues,  \* bound of the model: requeues
  MaxTime       \* bound of the model: ticks

VARIABLES
  jobs,      \* runtime_jobs in the order of created_at
  work,      \* what each worker is doing with which job
  now,       \* the clock
  requeues,  \* how often a job was put back
  crossed    \* history: the jobs of which two claims, or a claim and a requeue, overlapped

vars == <<jobs, work, now, requeues, crossed>>

Resting == [pc |-> "idle", job |-> 0]

Init ==
  /\ jobs = <<>> /\ work = [w \in Workers |-> Resting]
  /\ now = 0 /\ requeues = 0 /\ crossed = {}

Enqueue ==
  /\ Len(jobs) < MaxJobs
  /\ jobs' = Append(jobs, [status |-> "pending", attempt |-> 0, available_at |-> now, won |-> FALSE])
  /\ UNCHANGED <<work, now, requeues, crossed>>

Due == {j \in DOMAIN jobs : jobs[j].status = "pending" /\ jobs[j].available_at <= now}
Busy(j) == {w \in Workers : work[w].job = j}

\* claim_due(), its SELECT: ORDER BY created_at LIMIT 1.
Select(w) == \E j \in Due :
  /\ work[w].pc = "idle" /\ \A k \in Due : j <= k
  /\ work' = [work EXCEPT ![w] = [pc |-> "claiming", job |-> j]]
  /\ crossed' = IF Busy(j) = {} THEN crossed ELSE crossed \union {j}
  /\ UNCHANGED <<jobs, now, requeues>>

\* claim_due(), its UPDATE.
Claim(w) ==
  /\ work[w].pc = "claiming"
  /\ work' = [work EXCEPT ![w].pc = "running"]
  /\ jobs' = [jobs EXCEPT ![work[w].job].status = "running", ![work[w].job].attempt = @ + 1]
  /\ UNCHANGED <<now, requeues, crossed>>

Report(w, row) ==
  /\ work[w].pc = "running"
  /\ jobs' = [jobs EXCEPT ![work[w].job] = row]
  /\ work' = [work EXCEPT ![w] = Resting]
  /\ UNCHANGED <<now, requeues, crossed>>

\* Mutant: the attempt that has just failed is not counted.
RetriesOneMore(job) == job.attempt <= MaxAttempts

Retries(job) == job.attempt < MaxAttempts

\* finish(): a failure is tried again later, while attempts are left.
Finish(w) ==
  LET job == jobs[work[w].job] IN
  \/ Report(w, [job EXCEPT !.status = "succeeded", !.won = TRUE])
  \/ Report(w, [job EXCEPT !.status = IF Retries(job) THEN "pending" ELSE "failed",
                           !.available_at = now + RetryDelay])

\* The worker dies, or its query fails: its row stays as it is.
Die(w) ==
  /\ work[w].pc # "idle"
  /\ work' = [work EXCEPT ![w] = Resting]
  /\ UNCHANGED <<jobs, now, requeues, crossed>>

\* requeue(), whatever the row says.
Requeue(j) ==
  /\ j \in DOMAIN jobs /\ requeues < MaxRequeues
  /\ requeues' = requeues + 1
  /\ jobs' = [jobs EXCEPT ![j] = [status |-> "pending", attempt |-> 0, available_at |-> now,
                                  won |-> FALSE]]
  /\ crossed' = IF Busy(j) = {} THEN crossed \ {j} ELSE crossed \union {j}
  /\ UNCHANGED <<work, now>>

Tick == now < MaxTime /\ now' = now + 1 /\ UNCHANGED <<jobs, work, requeues, crossed>>

Next ==
  \/ Enqueue \/ Tick
  \/ \E w \in Workers : Select(w) \/ Claim(w) \/ Finish(w) \/ Die(w)
  \/ \E j \in 1 .. MaxJobs : Requeue(j)

Spec == Init /\ [][Next]_vars

-----------------------------------------------------------------------------

\* A job is run at most MaxAttempts times before it is put back, one worker at
\* a time, and once it has succeeded it is not run again; when two claims of it
\* overlap, or it is put back while it is worked on, each worker can add one
\* run more and a success can be undone, but no further than that (claim_due()
\* does not look at the status it overwrites).
RunsAreBounded == \A j \in DOMAIN jobs :
  /\ jobs[j].attempt <= MaxAttempts + Cardinality(Workers) - 1
  /\ j \notin crossed =>
       /\ jobs[j].attempt <= MaxAttempts
       /\ Cardinality(Busy(j)) <= 1
       /\ jobs[j].won => jobs[j].status = "succeeded"
=============================================================================
