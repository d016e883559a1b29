CONSTANTS
  p1 = p1
  p2 = p2
  c1 = c1
  c2 = c2
  c3 = c3
  NoCaller = NoCaller
  Proc = {p1}
  Caller = {c1, c2}
  ProcOf <- TwoZero
  MaxGrant = 2
  Faults = {}
  Rotation = {"rotate"}
  Formats = {"oauth"}
SPECIFICATION Spec
SYMMETRY MCSymmetry
INVARIANTS NextCallRefreshes
