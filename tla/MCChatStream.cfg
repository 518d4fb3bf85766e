\* One stream over two targets, two attempts each, a channel of two.
SPECIFICATION FairSpec
CONSTANTS
  Request = {r1}
  t1 = t1
  t2 = t2
  Target = {t1, t2}
  Idle = Idle
  Routes <- MCFailover
  Attempts = {2}
  MaxAttempts = 2
  Category = {transient, permanent}
  RetryOn = {transient}
  Capacity = 2
  MaxEvents = 2
  FailureThreshold = 2
  FailureCap = 3
  OpenTicks = 1
\* Every stream runs once: when it is over nothing is left to do.
CHECK_DEADLOCK FALSE
INVARIANTS WellFormedStream LastEventMatchesLedger
PROPERTIES Protocols StreamsSettle
