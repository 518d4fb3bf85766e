\* Five quotas, one midnight, windows that slide over it.
SPECIFICATION Spec
CONSTANTS
  Request = {r1, r2, r3, r4, r5}
  Quotas <- MCQuotas
  NoLimit = NoLimit
  Window = 2
  DayTicks = 4
  MaxTime = 6
SYMMETRY MCSymmetry
\* The instance ends: each request is made once and the clock stops.
CHECK_DEADLOCK FALSE
INVARIANTS WithinLimits ExactUnlessCrossed
PROPERTIES RejectsOnlyWhenFull
