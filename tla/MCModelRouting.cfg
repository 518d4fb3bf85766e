\* Two administrators edit while one request is resolved.
SPECIFICATION Spec
CONSTANTS
  Admin = {a1, a2}
  Request = {r1}
  m1 = m1
  m2 = m2
  p1 = p1
  p2 = p2
  Model = {m1, m2}
  Provider = {p1, p2}
  ProviderOf <- MCProviderOf
  KeyOf <- MCKeyOf
  Vm = Vm
  VmKey = "vm"
  TargetLists <- MCLists
  AllowDirect = TRUE
  Restricted = FALSE
  VmAllowed = FALSE
  MaxCalls = 4
SYMMETRY MCSymmetry
\* Rows are never created anew: in the end nothing is left to edit.
CHECK_DEADLOCK FALSE
INVARIANTS OffIsNotRouted ConsoleAgrees
