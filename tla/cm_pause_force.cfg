SPECIFICATION Spec
CONSTANTS
  c1 = c1
  c2 = c2
  e1 = e1
  Cid = {c1}
  Eid = {e1}
  InitId = init
  Ref = {r1, r2, r3}
  NoRef = NoRef
  Thread = {t1, t2}
  Waiter = {w1}
  Settings <- PauseSettings
SYMMETRY Symmetry
INVARIANT ExitCleansUp
