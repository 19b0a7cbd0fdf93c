SPECIFICATION Spec
CONSTANTS
  c1 = c1
  c2 = c2
  c3 = c3
  p1 = p1
  p2 = p2
  Cid = {c1, c2, c3}
  Path = {p1, p2}
  Req = {r1, r2}
  Settings <- SharedSettings
  MaxRefs = 3
SYMMETRY Symmetry
CHECK_DEADLOCK FALSE
INVARIANTS KeptIsMounted
