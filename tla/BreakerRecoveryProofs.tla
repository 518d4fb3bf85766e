------------------------ MODULE BreakerRecoveryProofs ------------------------
(***************************************************************************)
(* What BreakerRecovery states holds for every number of callers and targets, *)
(* every threshold and every window, proved from one inductive invariant.  *)
(***************************************************************************)
EXTENDS BreakerRecovery, TLAPS

\* The time since an open breaker opened is part of the time since its last
\* trial call: what makes TrialsSpaced inductive.
WindowFollowsTrial ==
  \A t \in Target : breaker[t].state = "open" => breaker[t].age <= sinceTrial[t]

IInv ==
  /\ TypeOK
  /\ ThresholdGoverns
  /\ TrialIsOwed
  /\ WindowFollowsTrial

-----------------------------------------------------------------------------

\* Every method of the registry takes a breaker to a breaker.
LEMMA BreakerOpsType ==
  ASSUME NEW b \in Breaker
  PROVE  /\ NewBreaker \in Breaker
         /\ AfterCheck(b) \in Breaker
         /\ AfterSuccess(b) \in Breaker
         /\ AfterFailure(b) \in Breaker
         /\ AfterTick(b) \in Breaker
<1> USE BreakerAssumption
<1>1. NewBreaker \in Breaker
  BY DEF NewBreaker, Breaker
<1>2. AfterCheck(b) \in Breaker
  BY DEF AfterCheck, Breaker
<1>3. AfterSuccess(b) \in Breaker
  BY <1>1 DEF AfterSuccess
<1>4. AfterFailure(b) \in Breaker
  BY DEF AfterFailure, Breaker
<1>5. AfterTick(b) \in Breaker
  BY DEF AfterTick, Breaker
<1> QED
  BY <1>1, <1>2, <1>3, <1>4, <1>5

\* The threshold rule of one breaker.
Ruled(b) == (b.state = "closed") <=> (b.failures < FailureThreshold)

\* No method of the registry breaks the threshold rule, and a report always
\* ends the half-open state of a breaker that obeys it.
LEMMA BreakerOpsRule ==
  ASSUME NEW b \in Breaker, Ruled(b)
  PROVE  /\ Ruled(NewBreaker)
         /\ Ruled(AfterCheck(b))
         /\ Ruled(AfterSuccess(b))
         /\ Ruled(AfterFailure(b))
         /\ Ruled(AfterTick(b))
         /\ AfterSuccess(b).state = "closed"
         /\ AfterFailure(b).state \in {"closed", "open"}
         /\ AfterFailure(b).state = "open" => AfterFailure(b).age = 0
<1> USE BreakerAssumption
<1>1. /\ Ruled(NewBreaker)
      /\ Ruled(AfterSuccess(b))
      /\ AfterSuccess(b).state = "closed"
  BY DEF Ruled, NewBreaker, AfterSuccess
<1>2. Ruled(AfterCheck(b))
  BY DEF Ruled, AfterCheck, Breaker
<1>3. /\ Ruled(AfterFailure(b))
      /\ AfterFailure(b).state \in {"closed", "open"}
      /\ AfterFailure(b).state = "open" => AfterFailure(b).age = 0
  BY DEF Ruled, AfterFailure, Breaker
<1>4. Ruled(AfterTick(b))
  BY DEF Ruled, AfterTick, Breaker
<1> QED
  BY <1>1, <1>2, <1>3, <1>4

-----------------------------------------------------------------------------

LEMMA InitInvariant == HInit => IInv
<1> SUFFICES ASSUME HInit PROVE IInv
  OBVIOUS
<1>1. NewBreaker \in Breaker /\ NewBreaker.state = "closed"
      /\ NewBreaker.failures = 0
  BY BreakerAssumption DEF NewBreaker, Breaker
<1>2. TypeOK
  BY <1>1, BreakerAssumption, CallerAssumption DEF HInit, Init, TypeOK
<1>3. ThresholdGoverns
  BY <1>1, BreakerAssumption DEF HInit, Init, ThresholdGoverns
<1>4. TrialIsOwed /\ WindowFollowsTrial
  BY <1>1 DEF HInit, Init, TrialIsOwed, WindowFollowsTrial
<1> QED
  BY <1>2, <1>3, <1>4 DEF IInv

\* What a report by c on its target t leaves of the invariant, whatever the
\* other variables become: shared by the three actions that report.
LEMMA ReportKeepsInvariant ==
  ASSUME IInv, NEW c \in Caller, NEW b \in Breaker,
         flight[c] # Idle,
         Ruled(b), b.state # "half_open", b.state = "open" => b.age = 0,
         breaker' = [breaker EXCEPT ![flight[c]] = b],
         leaked' = [leaked EXCEPT ![flight[c]] = FALSE],
         sinceTrial' \in [Target -> 0 .. OpenTicks],
         \A u \in Target : u # flight[c] => sinceTrial'[u] = sinceTrial[u],
         flight' \in {flight, [flight EXCEPT ![c] = Idle]},
         left' \in [Caller -> 0 .. MaxAttempts]
  PROVE  IInv'
<1> USE BreakerAssumption, CallerAssumption DEF IInv
<1>1. flight[c] \in Target
  BY DEF TypeOK
<1>2. TypeOK'
  BY <1>1 DEF TypeOK
<1>3. ThresholdGoverns'
  BY <1>1 DEF TypeOK, ThresholdGoverns, Ruled
<1>4. TrialIsOwed'
  <2> SUFFICES ASSUME NEW u \in Target, breaker'[u].state = "half_open"
               PROVE  breaker'[u].probe
                      /\ (leaked'[u] \/ \E d \in Caller : flight'[d] = u)
    BY DEF TrialIsOwed
  <2>1. u # flight[c] /\ breaker'[u] = breaker[u] /\ leaked'[u] = leaked[u]
    BY <1>1 DEF TypeOK
  <2>2. \A d \in Caller : flight[d] = u => flight'[d] = u
    BY <2>1 DEF TypeOK
  <2> QED
    BY <2>1, <2>2 DEF TrialIsOwed
<1>5. WindowFollowsTrial'
  <2> SUFFICES ASSUME NEW u \in Target, breaker'[u].state = "open"
               PROVE  breaker'[u].age <= sinceTrial'[u]
    BY DEF WindowFollowsTrial
  <2>1. CASE u = flight[c]
    <3>1. breaker'[u] = b
      BY <2>1 DEF TypeOK
    <3>2. sinceTrial'[u] \in 0 .. OpenTicks
      OBVIOUS
    <3> QED
      BY <3>1, <3>2
  <2>2. CASE u # flight[c]
    BY <2>2, <1>1 DEF TypeOK, WindowFollowsTrial
  <2> QED
    BY <2>1, <2>2
<1> QED
  BY <1>2, <1>3, <1>4, <1>5

LEMMA AdmitKeepsInvariant ==
  ASSUME IInv, NEW c \in Caller, NEW t \in Target, NEW n \in 1 .. MaxAttempts,
         HAdmit(c, t, n)
  PROVE  IInv'
<1> USE BreakerAssumption, CallerAssumption DEF IInv
<1>1. /\ AfterCheck(breaker[t]) \in Breaker
      /\ Ruled(AfterCheck(breaker[t]))
  BY BreakerOpsType, BreakerOpsRule DEF TypeOK, ThresholdGoverns, Ruled
<1>2. TypeOK'
  BY <1>1 DEF TypeOK, HAdmit, Admit
<1>3. ThresholdGoverns'
  BY <1>1 DEF TypeOK, ThresholdGoverns, Ruled, HAdmit, Admit
<1>4. TrialIsOwed'
  <2> SUFFICES ASSUME NEW u \in Target, breaker'[u].state = "half_open"
               PROVE  breaker'[u].probe
                      /\ (leaked'[u] \/ \E d \in Caller : flight'[d] = u)
    BY DEF TrialIsOwed
  <2>1. CASE u = t
    <3>1. breaker'[u] = AfterCheck(breaker[t]) /\ flight'[c] = u
      BY <2>1 DEF HAdmit, Admit, TypeOK
    <3>2. AfterCheck(breaker[t]).state = "half_open" => AfterCheck(breaker[t]).probe
      BY DEF AfterCheck, Admits, Breaker, TypeOK
    <3> QED
      BY <3>1, <3>2
  <2>2. CASE u # t
    <3>1. breaker'[u] = breaker[u] /\ leaked'[u] = leaked[u]
      BY <2>2 DEF HAdmit, Admit, TypeOK
    <3>2. \A d \in Caller : flight[d] = u => flight'[d] = u
      BY DEF HAdmit, Admit, TypeOK
    <3> QED
      BY <3>1, <3>2 DEF TrialIsOwed
  <2> QED
    BY <2>1, <2>2
<1>5. WindowFollowsTrial'
  <2> SUFFICES ASSUME NEW u \in Target, breaker'[u].state = "open"
               PROVE  breaker'[u].age <= sinceTrial'[u]
    BY DEF WindowFollowsTrial
  <2>1. CASE u = t
    <3>1. AfterCheck(breaker[t]).state # "open"
      BY <2>1 DEF HAdmit, Admit, TypeOK, AfterCheck, Breaker, Admits
    <3> QED
      BY <3>1, <2>1 DEF HAdmit, Admit, TypeOK
  <2>2. CASE u # t
    BY <2>2 DEF HAdmit, Admit, TypeOK, WindowFollowsTrial
  <2> QED
    BY <2>1, <2>2
<1> QED
  BY <1>2, <1>3, <1>4, <1>5

LEMMA AbandonKeepsInvariant ==
  ASSUME IInv, NEW c \in Caller, HAbandon(c)
  PROVE  IInv'
<1> USE BreakerAssumption, CallerAssumption DEF IInv
<1>1. flight[c] \in Target
  BY DEF TypeOK, HAbandon, Abandon, Leave
<1>2. TypeOK'
  BY <1>1 DEF TypeOK, HAbandon, Abandon, Leave
<1>3. ThresholdGoverns' /\ WindowFollowsTrial'
  BY DEF ThresholdGoverns, WindowFollowsTrial, HAbandon, Abandon, Leave
<1>4. TrialIsOwed'
  <2> SUFFICES ASSUME NEW u \in Target, breaker[u].state = "half_open"
               PROVE  breaker[u].probe
                      /\ (leaked'[u] \/ \E d \in Caller : flight'[d] = u)
    BY DEF TrialIsOwed, HAbandon, Abandon, Leave
  <2>1. CASE u = flight[c]
    BY <2>1, <1>1 DEF HAbandon, Abandon, Leave, TypeOK, TrialIsOwed
  <2>2. CASE u # flight[c]
    <3>1. \A d \in Caller : flight[d] = u => flight'[d] = u
      BY <2>2 DEF HAbandon, Abandon, Leave, TypeOK
    <3>2. leaked[u] => leaked'[u]
      BY <2>2 DEF HAbandon, Abandon, Leave, TypeOK
    <3> QED
      BY <3>1, <3>2 DEF TrialIsOwed
  <2> QED
    BY <2>1, <2>2
<1> QED
  BY <1>2, <1>3, <1>4

LEMMA TickKeepsInvariant ==
  ASSUME IInv, HTick
  PROVE  IInv'
<1> USE BreakerAssumption, CallerAssumption DEF IInv
<1>1. \A u \in Target : breaker'[u] = AfterTick(breaker[u])
  BY DEF HTick, Tick
<1>2. \A u \in Target : /\ AfterTick(breaker[u]) \in Breaker
                        /\ Ruled(AfterTick(breaker[u]))
  BY BreakerOpsType, BreakerOpsRule DEF TypeOK, ThresholdGoverns, Ruled
<1>3. \A u \in Target : /\ AfterTick(breaker[u]).state = breaker[u].state
                        /\ AfterTick(breaker[u]).probe = breaker[u].probe
  BY DEF AfterTick, TypeOK, Breaker
<1>4. TypeOK'
  BY <1>2 DEF HTick, Tick, TypeOK
<1>5. ThresholdGoverns'
  BY <1>1, <1>2 DEF ThresholdGoverns, Ruled
<1>6. TrialIsOwed'
  BY <1>1, <1>3 DEF HTick, Tick, TrialIsOwed
<1>7. WindowFollowsTrial'
  <2> SUFFICES ASSUME NEW u \in Target, breaker'[u].state = "open"
               PROVE  breaker'[u].age <= sinceTrial'[u]
    BY DEF WindowFollowsTrial
  <2>1. breaker[u].state = "open" /\ breaker[u].age <= sinceTrial[u]
    BY <1>1, <1>3 DEF WindowFollowsTrial
  <2>2. /\ breaker[u] \in Breaker
        /\ sinceTrial[u] \in 0 .. OpenTicks
        /\ sinceTrial'[u] = IF sinceTrial[u] < OpenTicks
                            THEN sinceTrial[u] + 1 ELSE OpenTicks
    BY DEF HTick, Tick, TypeOK
  <2>3. CASE breaker[u].age < OpenTicks
    <3>1. breaker'[u].age = breaker[u].age + 1
      BY <1>1, <2>1, <2>2, <2>3 DEF AfterTick, Breaker
    <3>2. breaker[u].age \in 0 .. OpenTicks
      BY <2>2 DEF Breaker
    <3>3. ASSUME NEW a \in 0 .. OpenTicks, NEW s \in 0 .. OpenTicks,
                 a < OpenTicks, a <= s
          PROVE  a + 1 <= IF s < OpenTicks THEN s + 1 ELSE OpenTicks
      BY <3>3
    <3>4. breaker[u].age + 1 <= IF sinceTrial[u] < OpenTicks
                                THEN sinceTrial[u] + 1 ELSE OpenTicks
      BY <3>2, <3>3, <2>1, <2>2, <2>3
    <3> QED
      BY <3>1, <3>4, <2>2
  <2>4. CASE ~(breaker[u].age < OpenTicks)
    <3>1. breaker'[u] = breaker[u]
      BY <1>1, <2>4 DEF AfterTick
    <3> QED
      BY <3>1, <2>1, <2>2 DEF Breaker
  <2> QED
    BY <2>3, <2>4
<1> QED
  BY <1>4, <1>5, <1>6, <1>7

LEMMA StepInvariant == IInv /\ [HNext]_allVars => IInv'
<1> SUFFICES ASSUME IInv, [HNext]_allVars PROVE IInv'
  OBVIOUS
<1> USE BreakerAssumption, CallerAssumption
<1>0. \A c \in Caller : flight[c] # Idle =>
        /\ flight[c] \in Target
        /\ breaker[flight[c]] \in Breaker
        /\ Ruled(breaker[flight[c]])
  BY DEF IInv, TypeOK, ThresholdGoverns, Ruled
<1>1. ASSUME NEW c \in Caller, NEW t \in Target, NEW n \in 1 .. MaxAttempts,
             HAdmit(c, t, n)
      PROVE  IInv'
  BY <1>1, AdmitKeepsInvariant
<1>2. ASSUME NEW c \in Caller, HRecordSuccess(c) PROVE IInv'
  <2> DEFINE b == AfterSuccess(breaker[flight[c]])
  <2>1. b \in Breaker /\ Ruled(b) /\ b.state = "closed"
    BY <1>2, <1>0, BreakerOpsType, BreakerOpsRule DEF HRecordSuccess, RecordSuccess, Leave
  <2>2. /\ breaker' = [breaker EXCEPT ![flight[c]] = b]
        /\ sinceTrial' \in [Target -> 0 .. OpenTicks]
        /\ \A u \in Target : u # flight[c] => sinceTrial'[u] = sinceTrial[u]
        /\ left' \in [Caller -> 0 .. MaxAttempts]
    BY <1>2 DEF HRecordSuccess, RecordSuccess, Leave, IInv, TypeOK
  <2> HIDE DEF b
  <2> QED
    BY <1>2, <2>1, <2>2, ReportKeepsInvariant DEF HRecordSuccess, RecordSuccess, Leave
<1>3. ASSUME NEW c \in Caller, HRecordFailure(c)
      PROVE  IInv'
  <2> DEFINE b == AfterFailure(breaker[flight[c]])
  <2>1. /\ b \in Breaker /\ Ruled(b) /\ b.state \in {"closed", "open"}
        /\ b.state = "open" => b.age = 0
    BY <1>3, <1>0, BreakerOpsType, BreakerOpsRule
       DEF HRecordFailure, RecordFailureAndRetry, RecordFailureAndLeave, Leave
  <2>2. /\ flight[c] # Idle
        /\ breaker' = [breaker EXCEPT ![flight[c]] = b]
        /\ leaked' = [leaked EXCEPT ![flight[c]] = FALSE]
        /\ sinceTrial' = sinceTrial
        /\ flight' \in {flight, [flight EXCEPT ![c] = Idle]}
    BY <1>3 DEF HRecordFailure, RecordFailureAndRetry, RecordFailureAndLeave, Leave
  <2>3. left' \in [Caller -> 0 .. MaxAttempts]
    BY <1>3 DEF HRecordFailure, RecordFailureAndRetry, RecordFailureAndLeave, Leave, IInv, TypeOK
  <2>4. sinceTrial' \in [Target -> 0 .. OpenTicks]
    BY <2>2 DEF IInv, TypeOK
  <2> HIDE DEF b
  <2> QED
    BY <2>1, <2>2, <2>3, <2>4, ReportKeepsInvariant
<1>4. ASSUME NEW c \in Caller, HAbandon(c) PROVE IInv'
  BY <1>4, AbandonKeepsInvariant
<1>5. CASE HRestart
  <2>1. NewBreaker \in Breaker /\ NewBreaker.state = "closed"
        /\ NewBreaker.failures = 0
    BY DEF NewBreaker, Breaker
  <2> QED
    BY <1>5, <2>1 DEF HRestart, Restart, IInv, TypeOK, ThresholdGoverns, TrialIsOwed,
                      WindowFollowsTrial
<1>6. CASE HTick
  BY <1>6, TickKeepsInvariant
<1>7. CASE UNCHANGED allVars
  BY <1>7 DEF allVars, hvars, vars, IInv, TypeOK, ThresholdGoverns, TrialIsOwed,
              WindowFollowsTrial
<1> QED
  BY <1>1, <1>2, <1>3, <1>4, <1>5, <1>6, <1>7 DEF HNext

\* The inductive invariant holds in every reachable state.
THEOREM Invariance == HSpec => []IInv
<1> QED
  BY InitInvariant, StepInvariant, PTL DEF HSpec

-----------------------------------------------------------------------------

\* Every variable of the registry and of its callers keeps its type, with the
\* capped failure count and clock (breaker.rs 28-52).
THEOREM TypeCorrect == HSpec => []TypeOK
<1>1. IInv => TypeOK
  BY DEF IInv
<1> QED
  BY <1>1, Invariance, PTL

\* A breaker is closed exactly while its run of failures is below the
\* threshold, for any number of callers with reports outstanding.
THEOREM ThresholdGovernsAlways == HSpec => []ThresholdGoverns
<1>1. IInv => ThresholdGoverns
  BY DEF IInv
<1> QED
  BY <1>1, Invariance, PTL

\* A half-open breaker always has somebody in flight who owes it a report, or a
\* caller that left without one: the leak is the only way to get stuck.
THEOREM TrialIsOwedAlways == HSpec => []TrialIsOwed
<1>1. IInv => TrialIsOwed
  BY DEF IInv
<1> QED
  BY <1>1, Invariance, PTL

\* Two trial calls of a target with no success between are a whole open window
\* apart.
THEOREM TrialsSpacedAlways == HSpec => TrialsSpaced
<1>1. ASSUME IInv, [HNext]_allVars, NEW t \in Target,
             breaker[t].state = "open", breaker'[t].state = "half_open"
      PROVE  sinceTrial[t] = OpenTicks
  <2> USE BreakerAssumption, CallerAssumption
  <2>1. breaker[t] \in Breaker /\ breaker[t].age <= sinceTrial[t]
        /\ sinceTrial[t] \in 0 .. OpenTicks
    BY <1>1 DEF IInv, TypeOK, WindowFollowsTrial
  <2>2. PICK c \in Caller, u \in Target, n \in 1 .. MaxAttempts : HAdmit(c, u, n)
    <3>1. ASSUME NEW c \in Caller, flight[c] # Idle
          PROVE  /\ AfterSuccess(breaker[flight[c]]).state # "half_open"
                 /\ AfterFailure(breaker[flight[c]]).state # "half_open"
      BY <3>1, <1>1, BreakerOpsRule
         DEF IInv, TypeOK, ThresholdGoverns, Ruled
    <3>2. ASSUME NEW c \in Caller,
                 HRecordSuccess(c) \/ HRecordFailure(c)
          PROVE  FALSE
      BY <3>1, <3>2, <1>1
         DEF HRecordSuccess, RecordSuccess, Leave, HRecordFailure, RecordFailureAndRetry, RecordFailureAndLeave, Leave,
             IInv, TypeOK
    <3>3. ASSUME NEW c \in Caller, HAbandon(c) PROVE FALSE
      BY <3>3, <1>1 DEF HAbandon, Abandon, Leave
    <3>4. CASE HRestart
      BY <3>4, <1>1 DEF HRestart, Restart, NewBreaker
    <3>5. CASE HTick
      BY <3>5, <1>1, <2>1 DEF HTick, Tick, AfterTick, Breaker
    <3>6. CASE UNCHANGED allVars
      BY <3>6, <1>1 DEF allVars, hvars, vars
    <3> QED
      BY <1>1, <3>2, <3>3, <3>4, <3>5, <3>6 DEF HNext
  <2>3. u = t
    BY <2>2, <1>1 DEF HAdmit, Admit, IInv, TypeOK
  <2>4. breaker[t].age = OpenTicks
    BY <2>2, <2>3, <1>1 DEF HAdmit, Admit, Admits
  <2> QED
    BY <2>1, <2>4 DEF Breaker
<1>2. IInv /\ [HNext]_allVars =>
        [\A t \in Target :
           (breaker[t].state = "open" /\ breaker'[t].state = "half_open")
             => sinceTrial[t] = OpenTicks]_allVars
  BY <1>1
<1> QED
  BY <1>2, Invariance, PTL DEF HSpec, TrialsSpaced

=============================================================================
