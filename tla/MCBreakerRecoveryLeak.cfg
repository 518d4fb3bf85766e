\* The recovery the test promises, without the condition on callers.
SPECIFICATION FairSpec
CONSTANTS
  Caller = {c1, c2, c3}
  Target = {t1}
  Idle = Idle
  FailureThreshold = 2
  FailureCap = 3
  OpenTicks = 2
  MaxAttempts = 2
PROPERTIES OpensAndRecovers
