SPECIFICATION FairSpec
CONSTANTS
  p1 = p1
  p2 = p2
  p3 = p3
  Cid = {c1}
  Exec = {e1}
  Pid = {p1, p2, p3}
  Req = {r1, r2}
  Settings <- Requests
  NoPid = NoPid
  NoCid = NoCid
  Free = Free
  Handler = Handler
CHECK_DEADLOCK FALSE
INVARIANTS TypeOK ExitKept NoZombieForgotten AnswerIsExit LostRaceAnswered FrozenForAReason
PROPERTIES ImplementsProcessLife LockReleased WaitReturns ReadWoken
