--------------------------- MODULE CircuitBreaker ---------------------------
(***************************************************************************)
(* The breaker registry with its callers: requests that ask check() before *)
(* they call a target (provider x model), call it up to MaxAttempts times  *)
(* without asking again, and report each outcome with record_success() or  *)
(* record_failure() -- or leave without any report, which the pipeline     *)
(* does when no adapter can be built and when its client disconnects.      *)
(* It is the abstract specification of how ChatPipeline and ChatStream may *)
(* use a breaker; BreakerRecovery states what it guarantees.               *)
(***************************************************************************)
EXTENDS BreakerState

CONSTANTS
  Caller,      \* the requests in flight
  Target,      \* (provider_id, model_key) pairs
  Idle,        \* not a target: the caller is not between check and report
  MaxAttempts  \* bound on RetryConfig::attempts, 10 in the code

ASSUME CallerAssumption ==
  /\ Idle \notin Target
  /\ MaxAttempts \in Nat \ {0}

VARIABLES
  breaker,  \* the map entry of each target (a missing entry is a new breaker)
  flight,   \* the target each caller was let through to, or Idle
  left      \* how many calls a caller in flight may still make

vars == <<breaker, flight, left>>

Init ==
  /\ breaker = [t \in Target |-> NewBreaker]
  /\ flight = [c \in Caller |-> Idle]
  /\ left = [c \in Caller |-> 0]

-----------------------------------------------------------------------------

\* c goes back to its own code.
Leave(c) ==
  /\ flight' = [flight EXCEPT ![c] = Idle]
  /\ left' = [left EXCEPT ![c] = 0]

\* check() answers Allow: c may call t up to n times.
Admit(c, t, n) ==
  /\ flight[c] = Idle
  /\ Admits(breaker[t])
  /\ breaker' = [breaker EXCEPT ![t] = AfterCheck(@)]
  /\ flight' = [flight EXCEPT ![c] = t]
  /\ left' = [left EXCEPT ![c] = n]

\* A call of c returned a response; the request moves on to persistence.
RecordSuccess(c) ==
  /\ flight[c] # Idle
  /\ breaker' = [breaker EXCEPT ![flight[c]] = AfterSuccess(@)]
  /\ Leave(c)

\* A call of c failed and c calls the same target again: no second check().
RecordFailureAndRetry(c) ==
  /\ flight[c] # Idle
  /\ left[c] > 1
  /\ breaker' = [breaker EXCEPT ![flight[c]] = AfterFailure(@)]
  /\ left' = [left EXCEPT ![c] = @ - 1]
  /\ UNCHANGED flight

\* A call of c failed and c fails over to its next candidate, or gives up.
RecordFailureAndLeave(c) ==
  /\ flight[c] # Idle
  /\ breaker' = [breaker EXCEPT ![flight[c]] = AfterFailure(@)]
  /\ Leave(c)

\* c leaves without a report: get_for() failed, the client went away or the
\* handler's future was dropped.
Abandon(c) ==
  /\ flight[c] # Idle
  /\ Leave(c)
  /\ UNCHANGED breaker

\* The breakers live in memory: a restart of the process forgets them.
Restart ==
  /\ breaker' = [t \in Target |-> NewBreaker]
  /\ flight' = [c \in Caller |-> Idle]
  /\ left' = [c \in Caller |-> 0]

Tick ==
  /\ breaker' = [t \in Target |-> AfterTick(breaker[t])]
  /\ UNCHANGED <<flight, left>>

Next ==
  \/ \E c \in Caller : \/ \E t \in Target, n \in 1 .. MaxAttempts : Admit(c, t, n)
                       \/ RecordSuccess(c)
                       \/ RecordFailureAndRetry(c)
                       \/ RecordFailureAndLeave(c)
                       \/ Abandon(c)
  \/ Restart
  \/ Tick

Spec == Init /\ [][Next]_vars

=============================================================================
