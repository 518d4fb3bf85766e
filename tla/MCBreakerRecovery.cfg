\* Three callers, two targets, threshold two. A liveness property is checked,
\* so that there is no symmetry.
SPECIFICATION FairSpec
CONSTANTS
  Caller = {c1, c2, c3}
  Target = {t1, t2}
  Idle = Idle
  FailureThreshold = 2
  FailureCap = 3
  OpenTicks = 2
  MaxAttempts = 2
INVARIANTS ThresholdGoverns TrialIsOwed
PROPERTIES TrialsSpaced RecoversUnlessLeaked
