---------------------------- MODULE BreakerState ----------------------------
(***************************************************************************)
(* The state of one circuit breaker and the pure effect of every method of *)
(* CircuitBreakerRegistry on it (crates/application/src/breaker.rs).  The  *)
(* registry's mutex makes each method one atomic step on one map entry, so *)
(* the modules that use a breaker (CircuitBreaker, ChatPipeline,           *)
(* ChatStream) take the effects from here and add who calls them and when. *)
(***************************************************************************)
EXTENDS Naturals

CONSTANTS
  FailureThreshold, \* FAILURE_THRESHOLD: failures in a row that open a breaker
  OpenTicks,        \* OPEN_DURATION, in ticks of the model's clock
  FailureCap        \* bound of the model: the failure count saturates here

ASSUME BreakerAssumption ==
  /\ FailureThreshold \in Nat \ {0}
  /\ OpenTicks \in Nat \ {0}
  /\ FailureCap \in Nat
  /\ FailureThreshold <= FailureCap

\* probe is the flag of State::HalfOpen; age is how many ticks opened_at lies
\* back, which is read only in State::Open and counts no further than OpenTicks.
Breaker == [state    : {"closed", "open", "half_open"},
            probe    : BOOLEAN,
            failures : 0 .. FailureCap,
            age      : 0 .. OpenTicks]

NewBreaker == [state |-> "closed", probe |-> FALSE, failures |-> 0, age |-> 0]

-----------------------------------------------------------------------------
(* Faulty variants of the definitions below: a property that none of them   *)
(* breaks would say nothing about the code.                                 *)

\* An open breaker whose window is over is never tried again.
AdmitsOnlyClosed(b) == b.state = "closed"

\* Success closes the breaker but forgets the failures counted so far.
AfterSuccessKeepingCount(b) ==
  [state |-> "closed", probe |-> FALSE, failures |-> b.failures, age |-> 0]

\* == instead of >=: the failure of a trial call does not open again.
AfterFailureAtThresholdOnly(b) ==
  LET n == IF b.failures < FailureCap THEN b.failures + 1 ELSE FailureCap
  IN  IF n = FailureThreshold
      THEN [state |-> "open", probe |-> FALSE, failures |-> n, age |-> 0]
      ELSE [b EXCEPT !.failures = n]

\* A failed trial opens the breaker without restarting the window.
AfterFailureKeepingWindow(b) ==
  LET n == IF b.failures < FailureCap THEN b.failures + 1 ELSE FailureCap
  IN  IF n >= FailureThreshold
      THEN [state |-> "open", probe |-> FALSE, failures |-> n, age |-> b.age]
      ELSE [b EXCEPT !.failures = n]

-----------------------------------------------------------------------------

\* check() answers Allow in exactly these states, Open in the others.
Admits(b) ==
  \/ b.state = "closed"
  \/ b.state = "open" /\ b.age = OpenTicks
  \/ b.state = "half_open" /\ ~b.probe

\* The caller that check() lets through a breaker that is not closed becomes
\* the trial call of a half-open breaker.
AfterCheck(b) ==
  IF Admits(b) /\ b.state # "closed"
  THEN [b EXCEPT !.state = "half_open", !.probe = TRUE]
  ELSE b

\* record_success(): closes from every state, also an open one.
AfterSuccess(b) == NewBreaker

\* record_failure(): from the threshold on every failure (re)opens the breaker
\* and restarts its window, whatever its state was.
AfterFailure(b) ==
  LET n == IF b.failures < FailureCap THEN b.failures + 1 ELSE FailureCap
  IN  IF n >= FailureThreshold
      THEN [state |-> "open", probe |-> FALSE, failures |-> n, age |-> 0]
      ELSE [b EXCEPT !.failures = n]

\* One tick of Instant::now() as opened_at.elapsed() sees it.
AfterTick(b) ==
  IF b.state = "open" /\ b.age < OpenTicks THEN [b EXCEPT !.age = @ + 1] ELSE b

=============================================================================
