-------------------------- MODULE BreakerRecovery --------------------------
(***************************************************************************)
(* CircuitBreaker with two history variables, and what the registry        *)
(* guarantees: when a breaker is closed, that a trial call is owed to a    *)
(* half-open one, how often a failing target is tried, and that it is not  *)
(* shut off for ever.                                                      *)
(***************************************************************************)
EXTENDS CircuitBreaker

VARIABLES
  leaked,     \* a caller left the target in half-open without a report
  sinceTrial  \* ticks since a breaker that was not closed last let a call through

hvars == <<leaked, sinceTrial>>
allVars == <<vars, hvars>>

TypeOK ==
  /\ breaker \in [Target -> Breaker]
  /\ flight \in [Caller -> Target \union {Idle}]
  /\ left \in [Caller -> 0 .. MaxAttempts]
  /\ leaked \in [Target -> BOOLEAN]
  /\ sinceTrial \in [Target -> 0 .. OpenTicks]

HInit ==
  /\ Init
  /\ leaked = [t \in Target |-> FALSE]
  /\ sinceTrial = [t \in Target |-> OpenTicks]

HAdmit(c, t, n) ==
  /\ Admit(c, t, n)
  /\ sinceTrial' = IF breaker[t].state = "closed" THEN sinceTrial
                   ELSE [sinceTrial EXCEPT ![t] = 0]
  /\ UNCHANGED leaked

HRecordSuccess(c) ==
  /\ RecordSuccess(c)
  /\ leaked' = [leaked EXCEPT ![flight[c]] = FALSE]
  /\ sinceTrial' = [sinceTrial EXCEPT ![flight[c]] = OpenTicks]

HRecordFailure(c) ==
  /\ RecordFailureAndRetry(c) \/ RecordFailureAndLeave(c)
  /\ leaked' = [leaked EXCEPT ![flight[c]] = FALSE]
  /\ UNCHANGED sinceTrial

HAbandon(c) ==
  /\ Abandon(c)
  /\ leaked' = IF breaker[flight[c]].state = "half_open"
               THEN [leaked EXCEPT ![flight[c]] = TRUE] ELSE leaked
  /\ UNCHANGED sinceTrial

HRestart ==
  /\ Restart
  /\ leaked' = [t \in Target |-> FALSE]
  /\ sinceTrial' = [t \in Target |-> OpenTicks]

HTick ==
  /\ Tick
  /\ sinceTrial' = [t \in Target |-> IF sinceTrial[t] < OpenTicks
                                     THEN sinceTrial[t] + 1 ELSE OpenTicks]
  /\ UNCHANGED leaked

HNext ==
  \/ \E c \in Caller : \/ \E t \in Target, n \in 1 .. MaxAttempts : HAdmit(c, t, n)
                       \/ HRecordSuccess(c)
                       \/ HRecordFailure(c)
                       \/ HAbandon(c)
  \/ HRestart
  \/ HTick

HSpec == HInit /\ [][HNext]_allVars

\* Time passes, and a call in flight returns: every adapter call runs under the
\* provider's timeout_ms.
FairSpec ==
  /\ HSpec
  /\ WF_allVars(HTick)
  /\ \A c \in Caller : WF_allVars(HRecordSuccess(c) \/ HRecordFailure(c))

-----------------------------------------------------------------------------
\* A breaker is closed exactly while its run of failures is below the
\* threshold: stale reports of slow calls never leave it closed with a run that
\* should have opened it, nor open with a run a success has ended (breaker.rs
\* record_success, record_failure).
ThresholdGoverns ==
  \A t \in Target :
    (breaker[t].state = "closed") <=> (breaker[t].failures < FailureThreshold)

\* Half-open is never a dead end by itself: somebody in flight still owes the
\* report that will end it, unless a caller left the target unreported.
TrialIsOwed ==
  \A t \in Target :
    breaker[t].state = "half_open" =>
      /\ breaker[t].probe
      /\ leaked[t] \/ \E c \in Caller : flight[c] = t

\* A failing target is tried at most once per open window: two trial calls are
\* at least OPEN_DURATION apart unless a success came between, whatever other
\* callers report meanwhile.
TrialsSpaced ==
  [][\A t \in Target :
       (breaker[t].state = "open" /\ breaker'[t].state = "half_open")
         => sinceTrial[t] = OpenTicks]_allVars

\* A target never stays closed to traffic for ever, as long as no caller
\* leaves its trial call unreported.
RecoversUnlessLeaked ==
  \A t \in Target : [](~leaked[t]) => []<>Admits(breaker[t])

\* "opens_after_threshold_and_recovers" (breaker.rs:142), with no condition on
\* how callers leave: an opened breaker lets traffic through again.
OpensAndRecovers ==
  \A t \in Target : []<>Admits(breaker[t])

=============================================================================
