\* Two streams share the breakers of two targets, which open on the first failure.
SPECIFICATION Spec
CONSTANTS
  Request = {r1, r2}
  t1 = t1
  t2 = t2
  Target = {t1, t2}
  Idle = Idle
  Routes <- MCFailover
  Attempts = {1}
  MaxAttempts = 2
  Category = {transient, permanent}
  RetryOn = {transient}
  Capacity = 1
  MaxEvents = 0
  FailureThreshold = 1
  FailureCap = 1
  OpenTicks = 1
SYMMETRY MCSymmetry
\* Every stream runs once: when it is over nothing is left to do.
CHECK_DEADLOCK FALSE
PROPERTIES BreakerSpec
