------------------------- MODULE RuntimeSupervisor -------------------------
(***************************************************************************)
(* The supervisor of the managed Python runtime (crates/runtime-client):   *)
(* the loop of spawn(), one start by run_one(), and the process, which     *)
(* may exit at any moment.  Its stderr is a pipe that nobody reads: once   *)
(* that is full of log lines the process waits for ever in its next one.   *)
(* restart() is called from nowhere.                                       *)
(***************************************************************************)
EXTENDS Integers

CONSTANTS
  MAX_RESTARTS,
  HealthChecks,  \* how often run_one() asks for the health of a new process
  PipeSize       \* log lines that the pipe of stderr holds

VARIABLES
  state,     \* RuntimeState, as GET /api/v1/runtime shows it
  at,        \* where the loop is
  attempt,   \* starts since the last process that was healthy
  checks,    \* health checks of this start
  process,   \* "none", or what the process has become
  logged,    \* lines in the pipe of its stderr
  failures   \* history: starts in a row that never became healthy

vars == <<state, at, attempt, checks, process, logged, failures>>

Init ==
  /\ state = "starting" /\ at = "start" /\ attempt = 0 /\ checks = 0
  /\ process = "none" /\ logged = 0 /\ failures = 0

\* The top of the loop; the program may not be there at all.
Start ==
  /\ at = "start"
  /\ state' = "starting" /\ checks' = 0 /\ logged' = 0
  /\ \/ at' = "handshake" /\ process' = "alive"
     \/ at' = "failed" /\ process' = "none"
  /\ UNCHANGED <<attempt, failures>>

\* A line PORT= arrives within fifteen seconds.
Handshake ==
  /\ at = "handshake" /\ process = "alive" /\ at' = "health"
  /\ UNCHANGED <<state, attempt, checks, process, logged, failures>>

\* It does not: the pipe is closed, or time is up and the process is killed.
NoHandshake ==
  /\ at = "handshake" /\ at' = "failed" /\ process' = "none"
  /\ UNCHANGED <<state, attempt, checks, logged, failures>>

Healthy ==
  /\ at = "health" /\ process = "alive" /\ checks < HealthChecks
  /\ at' = "serving" /\ state' = "running"
  /\ failures' = 0
  /\ UNCHANGED <<attempt, checks, process, logged>>

Unhealthy ==
  /\ at = "health" /\ checks < HealthChecks
  /\ checks' = checks + 1
  /\ IF checks' < HealthChecks THEN UNCHANGED <<at, process>>
     ELSE at' = "failed" /\ process' = "none"
  /\ UNCHANGED <<state, attempt, logged, failures>>

\* Mutant: a start that fails is not told from a process that has served.
AttemptAfterReset(served) == 1

\* Ok of run_one() sets the counter back before it is raised.
AttemptAfter(served) == IF served THEN 1 ELSE attempt + 1

\* The bottom of the loop.
Return(served) ==
  /\ attempt' = AttemptAfter(served)
  /\ failures' = IF served THEN 0 ELSE failures + 1
  /\ process' = "none"
  /\ IF attempt' > MAX_RESTARTS THEN at' = "ended" /\ state' = "failed"
     ELSE at' = "backoff" /\ UNCHANGED state
  /\ UNCHANGED <<checks, logged>>

StartFailed == at = "failed" /\ Return(FALSE)
ProcessExited == at = "serving" /\ process = "dead" /\ Return(TRUE)

\* 1000 * 2^min(attempt, 4) milliseconds.
Backoff ==
  /\ at = "backoff" /\ at' = "start"
  /\ UNCHANGED <<state, attempt, checks, process, logged, failures>>

\* The process exits by itself.
Exit ==
  /\ process = "alive" /\ process' = "dead"
  /\ UNCHANGED <<state, at, attempt, checks, logged, failures>>

Log ==
  /\ process = "alive" /\ at # "handshake"
  /\ IF logged < PipeSize THEN logged' = logged + 1 /\ UNCHANGED process
     ELSE process' = "blocked" /\ UNCHANGED logged
  /\ UNCHANGED <<state, at, attempt, checks, failures>>

Next ==
  \/ Start \/ Handshake \/ NoHandshake \/ Healthy \/ Unhealthy
  \/ StartFailed \/ ProcessExited \/ Backoff \/ Exit \/ Log

Spec == Init /\ [][Next]_vars

-----------------------------------------------------------------------------

\* The runtime is given up after at most MAX_RESTARTS + 1 starts in a row that
\* never answered, and not before MAX_RESTARTS of them; then no process is left
\* behind, and at most one is there before ("exceeded MAX_RESTARTS restarts",
\* lib.rs:125).  A process that answered once and dies starts the count again.
RestartsAreBounded ==
  /\ failures <= MAX_RESTARTS + 1
  /\ state = "failed" <=> at = "ended"
  /\ state = "failed" => failures >= MAX_RESTARTS /\ process = "none"
  /\ process # "none" => at \in {"handshake", "health", "serving"}
=============================================================================
