\* Two administrators, two callers, three calls.
SPECIFICATION CacheSpec
CONSTANTS
  Admin = {a1, a2}
  Caller = {r1, r2}
  MaxCalls = 3
\* Nothing is claimed once the keyring came or went: TLC stops there.
CONSTRAINT Steady
SYMMETRY MCSymmetry
INVARIANTS CallsUseRotated MarkAgrees
