\* Two requests over two shared targets, a budget of one. Liveness is checked,
\* so that there is no symmetry.
SPECIFICATION FairSpec
CONSTANTS
  Request = {r1, r2}
  t1 = t1
  t2 = t2
  Target = {t1, t2}
  Idle = Idle
  Routes <- MCRoutes
  Attempts = {1, 2}
  MaxAttempts = 2
  Category = {transient, permanent}
  RetryOn = {transient}
  Budget = 1
  FailureThreshold = 2
  FailureCap = 3
  OpenTicks = 1
\* Every request is made once: when all are over nothing is left to do.
CHECK_DEADLOCK FALSE
INVARIANTS AnswerMatchesLedger OvershootBounded
PROPERTIES LedgerSpec BreakerSpec AcceptedSettles
