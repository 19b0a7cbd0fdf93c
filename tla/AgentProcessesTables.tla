------------------------ MODULE AgentProcessesTables ------------------------
(* Proofs about AgentProcesses, part 2: containers, their tables and freezers.     *)
EXTENDS AgentProcessesExits

USE ProcessAssumption
-----------------------------------------------------------------------------
(* Containers, their tables and their freezers *)

\* A step that changes one request, which starts no child.
LEMMA TableFrame ==
  ASSUME TableInv, ctr' = ctr, table' = table, \A c \in Cid : frozen'[c] => frozen[c],
         NEW r \in Req, \A s \in Req \ {r} : req'[s] = req[s],
         req'[r].pc \notin {"made", "open", "exec", "destroy"},
         req'[r].pc \in {"hook", "hookwait"} => req'[r].then \notin {"made", "destroy"}
  PROVE  TableInv'
<1>1. \A s \in Req : /\ Child(s)' => s # r /\ Child(s)
                     /\ Removing(s)' => s # r /\ Removing(s)
  BY Zenon DEF Child, Removing
<1> QED
  BY ZenonT(60), <1>1 DEF TableInv

\* A step that leaves the requests where they are.
LEMMA TableSame ==
  ASSUME TableInv, ctr' = ctr, table' = table, frozen' = frozen,
         \A s \in Req : /\ req'[s].pc = req[s].pc /\ req'[s].then = req[s].then
                        /\ req'[s].c = req[s].c /\ req'[s].e = req[s].e
  PROVE  TableInv'
<1>1. \A s \in Req : (Child(s)' => Child(s)) /\ (Removing(s)' => Removing(s))
  BY Zenon DEF Child, Removing
<1>2. \A s \in Req : /\ Child(s)' /\ req'[s].pc # "exec" => ctr'[req'[s].c] = "none"
                     /\ Removing(s)' => ctr'[req'[s].c] # "none"
  BY ZenonT(60), <1>1 DEF TableInv
<1>3. \A s \in Req : /\ req'[s].pc = "exec" => ctr'[req'[s].c] # "none" /\ table'[req'[s].c][req'[s].e] = NoPid
                     /\ req'[s].pc = "open" => ctr'[req'[s].c] = "created"
  BY ZenonT(60) DEF TableInv
<1> QED
  BY Zenon, <1>2, <1>3 DEF TableInv

\* A step that leaves no request with the mutex.
LEMMA TableFree ==
  ASSUME \A s \in Req : req'[s].pc \notin Holds,
         \A c \in Cid : ctr'[c] = "none" => ~frozen'[c] /\ \A e \in Eid : table'[c][e] = NoPid
  PROVE  TableInv'
  BY Zenon DEF TableInv, Child, Removing, Holds

\* A step that thaws, or freezes nothing.
LEMMA FrozenFrame ==
  ASSUME FrozenForAReason, ctr' = ctr, \A c \in Cid : frozen'[c] => frozen[c],
         \A s \in Req : req[s].pc \in {"pids", "kill", "thaw"} =>
                          req'[s].pc \in {"pids", "kill", "thaw"} /\ req'[s].c = req[s].c
  PROVE  FrozenForAReason'
  BY DEF FrozenForAReason

\* A step after which each container still frozen keeps its reason, or is paused or stopped.
LEMMA FrozenMoves ==
  ASSUME FrozenForAReason,
         \A d \in Cid : frozen'[d] =>
           \/ ctr'[d] \in {"paused", "stopped"}
           \/ /\ frozen[d] /\ (ctr'[d] = ctr[d] \/ ctr[d] = "created")
              /\ \A s \in Req : req[s].c = d /\ req[s].pc \in {"pids", "kill", "thaw"} =>
                                  req'[s].c = d /\ req'[s].pc \in {"pids", "kill", "thaw"}
  PROVE  FrozenForAReason'
<1>1. ASSUME NEW d \in Cid, frozen'[d], ctr'[d] \notin {"paused", "stopped"}
      PROVE  \E s \in Req : req'[s].c = d /\ req'[s].pc \in {"pids", "kill", "thaw"}
  <2>1. frozen[d] /\ ctr[d] \notin {"paused", "stopped"}
    BY Zenon, <1>1
  <2>2. PICK s \in Req : req[s].c = d /\ req[s].pc \in {"pids", "kill", "thaw"}
    BY Zenon, <2>1 DEF FrozenForAReason
  <2> QED
    BY Zenon, <1>1, <2>2
<1> QED
  BY Zenon, <1>1 DEF FrozenForAReason

\* Nobody else has the mutex.
LEMMA OneHolder ==
  ASSUME LockInv, NEW r \in Req, lock = r
  PROVE  \A s \in Req \ {r} : req[s].pc \notin Holds
  BY Zenon DEF LockInv

\* When the mutex is free, nobody has it.
LEMMA NoHolder ==
  ASSUME LockInv, lock = Free
  PROVE  \A s \in Req : req[s].pc \notin Holds
  BY Zenon, ProcessAssumption DEF LockInv

\* Every step keeps TableInv.
LEMMA TableStep ==
  ASSUME TypeOK, LockInv, CtrInv, TableInv, [Next]_vars
  PROVE  TableInv'
<1>1. ASSUME NEW r \in Req, CreateOk(r)
      PROVE  TableInv'
  <2>1. \A s \in Req \ {r} : req[s].pc \notin Holds
    BY Zenon, <1>1, LockInv, OneHolder DEF CreateOk, LockInv, Holds
  <2>2. /\ \A s \in Req \ {r} : req'[s] = req[s]
        /\ req'[r].pc = "idle"
    BY Zenon, <1>1, HandType DEF CreateOk, Done, Request, Idle
  <2>3. \A c \in Cid : ctr'[c] = "none" => ~frozen'[c] /\ \A e \in Eid : table'[c][e] = NoPid
    BY ZenonT(60), <1>1, TypeOK, TableInv DEF CreateOk, TypeOK, TableInv
  <2>4. \A s \in Req : req'[s].pc \notin Holds
    BY Zenon, <2>1, <2>2 DEF Holds
  <2> QED
    BY Zenon, <2>3, <2>4, TableFree
<1>2. ASSUME NEW r \in Req, CreateFail(r)
      PROVE  TableInv'
  <2>1. /\ \A s \in Req \ {r} : req'[s] = req[s]
        /\ req'[r].pc \notin {"made", "open", "exec", "destroy"}
        /\ req'[r].pc \in {"hook", "hookwait"} => req'[r].then \notin {"made", "destroy"}
    BY <1>2, HandType DEF CreateFail, Go, After, Request, Idle
  <2>2. ctr' = ctr /\ table' = table /\ \A c \in Cid : frozen'[c] => frozen[c]
    BY Zenon, <1>2 DEF CreateFail
  <2> QED
    BY Zenon, <2>1, <2>2, TableInv, TableFrame
<1>3. ASSUME NEW r \in Req, CreateUndone(r)
      PROVE  TableInv'
  <2>1. /\ \A s \in Req \ {r} : req'[s] = req[s]
        /\ req'[r].pc \notin {"made", "open", "exec", "destroy"}
        /\ req'[r].pc \in {"hook", "hookwait"} => req'[r].then \notin {"made", "destroy"}
    BY Zenon, <1>3, HandType DEF CreateUndone, Done, Request, Idle
  <2>2. ctr' = ctr /\ table' = table /\ \A c \in Cid : frozen'[c] => frozen[c]
    BY Zenon, <1>3 DEF CreateUndone
  <2> QED
    BY Zenon, <2>1, <2>2, TableInv, TableFrame
<1>4. ASSUME NEW r \in Req, ExecOk(r)
      PROVE  TableInv'
  <2>1. \A s \in Req \ {r} : req[s].pc \notin Holds
    BY Zenon, <1>4, LockInv, OneHolder DEF ExecOk, LockInv, Holds
  <2>2. /\ \A s \in Req \ {r} : req'[s] = req[s]
        /\ req'[r].pc = "idle"
    BY Zenon, <1>4, HandType DEF ExecOk, Done, Request, Idle
  <2>3. \A c \in Cid : ctr'[c] = "none" => ~frozen'[c] /\ \A e \in Eid : table'[c][e] = NoPid
    BY ZenonT(60), <1>4, TypeOK, TableInv DEF ExecOk, TypeOK, TableInv
  <2>4. \A s \in Req : req'[s].pc \notin Holds
    BY Zenon, <2>1, <2>2 DEF Holds
  <2> QED
    BY Zenon, <2>3, <2>4, TableFree
<1>5. ASSUME NEW r \in Req, ExecFail(r)
      PROVE  TableInv'
  <2>1. /\ \A s \in Req \ {r} : req'[s] = req[s]
        /\ req'[r].pc \notin {"made", "open", "exec", "destroy"}
        /\ req'[r].pc \in {"hook", "hookwait"} => req'[r].then \notin {"made", "destroy"}
    BY Zenon, <1>5, HandType DEF ExecFail, Done, Request, Idle
  <2>2. ctr' = ctr /\ table' = table /\ \A c \in Cid : frozen'[c] => frozen[c]
    BY Zenon, <1>5 DEF ExecFail
  <2> QED
    BY Zenon, <2>1, <2>2, TableInv, TableFrame
<1>6. ASSUME NEW r \in Req, StartOpen(r)
      PROVE  TableInv'
  <2>1. \A s \in Req \ {r} : req[s].pc \notin Holds
    BY Zenon, <1>6, LockInv, OneHolder DEF StartOpen, LockInv, Holds
  <2>2. /\ \A s \in Req \ {r} : req'[s] = req[s]
        /\ req'[r].pc \in {"started", "hook"} /\ (req'[r].pc = "hook" => req'[r].then = "started")
    BY <1>6, HandType DEF StartOpen, Go, After, Request, Idle
  <2>3. \A c \in Cid : ctr'[c] = "none" => ~frozen'[c] /\ \A e \in Eid : table'[c][e] = NoPid
    BY ZenonT(60), <1>6, TypeOK, TableInv DEF StartOpen, TypeOK, TableInv
  <2>4. \A s \in Req : ~Child(s)' /\ ~Removing(s)' /\ req'[s].pc \notin {"exec", "open"}
    BY Zenon, <2>1, <2>2 DEF Holds, Child, Removing
  <2> QED
    BY Zenon, <2>3, <2>4 DEF TableInv
<1>7. ASSUME NEW r \in Req, StartEnd(r)
      PROVE  TableInv'
  <2>1. /\ \A s \in Req \ {r} : req'[s] = req[s]
        /\ req'[r].pc \notin {"made", "open", "exec", "destroy"}
        /\ req'[r].pc \in {"hook", "hookwait"} => req'[r].then \notin {"made", "destroy"}
    BY Zenon, <1>7, HandType DEF StartEnd, Done, Request, Idle
  <2>2. ctr' = ctr /\ table' = table /\ \A c \in Cid : frozen'[c] => frozen[c]
    BY Zenon, <1>7 DEF StartEnd
  <2> QED
    BY Zenon, <2>1, <2>2, TableInv, TableFrame
<1>8. ASSUME NEW r \in Req, SignalFreeze(r)
      PROVE  TableInv'
  <2>1. \A s \in Req : req[s].pc \notin Holds
    BY Zenon, <1>8, LockInv, NoHolder DEF SignalFreeze
  <2>2. /\ \A s \in Req \ {r} : req'[s].pc = req[s].pc
        /\ req'[r].pc = "pids"
    BY Zenon, <1>8, HandType DEF SignalFreeze, Request, Idle
  <2>3. \A d \in Cid : ctr'[d] = "none" => ~frozen'[d] /\ \A f \in Eid : table'[d][f] = NoPid
    BY SMTT(30), <1>8, TypeOK, TableInv, CtrInv DEF SignalFreeze, TypeOK, TableInv, CtrInv
  <2>4. \A s \in Req : req'[s].pc \notin Holds
    BY Zenon, <2>1, <2>2 DEF Holds
  <2> QED
    BY Zenon, <2>3, <2>4, TableFree
<1>9. ASSUME NEW r \in Req, SignalPids(r)
      PROVE  TableInv'
  <2>1. /\ \A s \in Req \ {r} : req'[s] = req[s]
        /\ req'[r].pc \notin {"made", "open", "exec", "destroy"}
        /\ req'[r].pc \in {"hook", "hookwait"} => req'[r].then \notin {"made", "destroy"}
    <3>1. CASE ctr[req[r].c] = "none"
      BY <1>9, <3>1, HandType DEF SignalPids, Done, Idle
    <3>2. CASE ctr[req[r].c] # "none"
      <4>1. req' = [req EXCEPT ![r] = [@ EXCEPT !.pc = "kill", !.pids = In(req[r].c)]]
        BY Zenon, <1>9, <3>2 DEF SignalPids
      <4> QED
        BY <1>9, <4>1, HandType DEF Request
    <3> QED
      BY Zenon, <3>1, <3>2
  <2>2. ctr' = ctr /\ table' = table /\ \A c \in Cid : frozen'[c] => frozen[c]
    BY Zenon, <1>9 DEF SignalPids
  <2> QED
    BY Zenon, <2>1, <2>2, TableInv, TableFrame
<1>10. ASSUME NEW r \in Req, SignalKill(r)
      PROVE  TableInv'
  <2>1. /\ \A s \in Req \ {r} : req'[s] = req[s]
        /\ req'[r].pc \notin {"made", "open", "exec", "destroy"}
        /\ req'[r].pc \in {"hook", "hookwait"} => req'[r].then \notin {"made", "destroy"}
    BY <1>10, HandType DEF SignalKill, Request, Idle
  <2>2. ctr' = ctr /\ table' = table /\ \A c \in Cid : frozen'[c] => frozen[c]
    BY Zenon, <1>10 DEF SignalKill
  <2> QED
    BY Zenon, <2>1, <2>2, TableInv, TableFrame
<1>11. ASSUME NEW r \in Req, SignalThaw(r)
      PROVE  TableInv'
  <2>1. /\ \A s \in Req \ {r} : req'[s] = req[s]
        /\ req'[r].pc \notin {"made", "open", "exec", "destroy"}
        /\ req'[r].pc \in {"hook", "hookwait"} => req'[r].then \notin {"made", "destroy"}
    BY Zenon, <1>11, HandType DEF SignalThaw, Done, Request, Idle
  <2>2. ctr' = ctr /\ table' = table /\ \A c \in Cid : frozen'[c] => frozen[c]
    BY Zenon, <1>11, TypeOK DEF SignalThaw, TypeOK
  <2> QED
    BY Zenon, <2>1, <2>2, TableInv, TableFrame
<1>12. ASSUME NEW r \in Req, WaitSignalled(r)
      PROVE  TableInv'
  <2>1. /\ \A s \in Req \ {r} : req'[s] = req[s]
        /\ req'[r].pc \notin {"made", "open", "exec", "destroy"}
        /\ req'[r].pc \in {"hook", "hookwait"} => req'[r].then \notin {"made", "destroy"}
    BY Zenon, <1>12, HandType DEF WaitSignalled, Request, Idle
  <2>2. ctr' = ctr /\ table' = table /\ \A c \in Cid : frozen'[c] => frozen[c]
    BY Zenon, <1>12 DEF WaitSignalled
  <2> QED
    BY Zenon, <2>1, <2>2, TableInv, TableFrame
<1>13. ASSUME NEW r \in Req, WaitWon(r)
      PROVE  TableInv'
  <2>1. \A s \in Req : req[s].pc \notin Holds
    BY Zenon, <1>13, LockInv, NoHolder DEF WaitWon
  <2>2. /\ \A s \in Req \ {r} : req'[s].pc = req[s].pc
        /\ req'[r].pc = "idle"
    BY ZenonT(60), <1>13, HandType DEF WaitWon, Woken, Request, Idle
  <2>3. \A d \in Cid : ctr'[d] = "none" => ~frozen'[d] /\ \A f \in Eid : table'[d][f] = NoPid
    BY <1>13, TypeOK, TableInv DEF WaitWon, TypeOK, TableInv
  <2>4. \A s \in Req : req'[s].pc \notin Holds
    BY Zenon, <2>1, <2>2 DEF Holds
  <2> QED
    BY Zenon, <2>3, <2>4, TableFree
<1>14. ASSUME NEW r \in Req, WaitLost(r)
      PROVE  TableInv'
  <2>1. /\ \A s \in Req \ {r} : req'[s] = req[s]
        /\ req'[r].pc \notin {"made", "open", "exec", "destroy"}
        /\ req'[r].pc \in {"hook", "hookwait"} => req'[r].then \notin {"made", "destroy"}
    BY Zenon, <1>14, HandType DEF WaitLost, Done, Request, Idle
  <2>2. ctr' = ctr /\ table' = table /\ \A c \in Cid : frozen'[c] => frozen[c]
    BY Zenon, <1>14 DEF WaitLost
  <2> QED
    BY Zenon, <2>1, <2>2, TableInv, TableFrame
<1>15. ASSUME NEW r \in Req, ReadSelect(r)
      PROVE  TableInv'
  <2>1. /\ \A s \in Req \ {r} : req'[s] = req[s]
        /\ req'[r].pc \notin {"made", "open", "exec", "destroy"}
        /\ req'[r].pc \in {"hook", "hookwait"} => req'[r].then \notin {"made", "destroy"}
    BY Zenon, <1>15, HandType DEF ReadSelect, Request, Idle
  <2>2. ctr' = ctr /\ table' = table /\ \A c \in Cid : frozen'[c] => frozen[c]
    BY Zenon, <1>15 DEF ReadSelect
  <2> QED
    BY Zenon, <2>1, <2>2, TableInv, TableFrame
<1>16. ASSUME NEW r \in Req, ReadEnd(r)
      PROVE  TableInv'
  <2>1. /\ \A s \in Req \ {r} : req'[s] = req[s]
        /\ req'[r].pc \notin {"made", "open", "exec", "destroy"}
        /\ req'[r].pc \in {"hook", "hookwait"} => req'[r].then \notin {"made", "destroy"}
    BY Zenon, <1>16, HandType DEF ReadEnd, Done, Request, Idle
  <2>2. ctr' = ctr /\ table' = table /\ \A c \in Cid : frozen'[c] => frozen[c]
    BY Zenon, <1>16 DEF ReadEnd
  <2> QED
    BY Zenon, <2>1, <2>2, TableInv, TableFrame
<1>17. ASSUME NEW r \in Req, RemoveDestroy(r)
      PROVE  TableInv'
  <2>0. [req EXCEPT ![r] = Idle] \in [Req -> Request] /\ req[r].c \in Cid
    BY Zenon, <1>17, HandType, IdleType, CtrInv DEF RemoveDestroy, CtrInv
  <2>1. \A s \in Req \ {r} : req[s].pc \notin Holds
    BY Zenon, <1>17, LockInv, OneHolder DEF RemoveDestroy, LockInv, Holds
  <2>2. CASE DropContainer([req EXCEPT ![r] = Idle], req[r].c)
    <3>1. \A s \in Req : req'[s].pc = [req EXCEPT ![r] = Idle][s].pc
      BY Zenon, <2>0, <2>2, DropFrame
    <3>2. \A d \in Cid : ctr'[d] = "none" => ~frozen'[d] /\ \A f \in Eid : table'[d][f] = NoPid
      BY ZenonT(60), <2>2, TypeOK, TableInv DEF DropContainer, TypeOK, TableInv
    <3>3. \A s \in Req : req'[s].pc \notin Holds
      BY Zenon, <2>1, <3>1, HandType DEF Holds, Idle
    <3> QED
      BY Zenon, <3>2, <3>3, TableFree
  <2>3. CASE Done(r) \/ req' = [req EXCEPT ![r].pc = "resources"]
    <3>1. \A s \in Req : req'[s].pc \notin Holds
      <4>1. \A s \in Req \ {r} : req'[s] = req[s]
        BY Zenon, <2>3, HandType DEF Done
      <4>2. req'[r].pc \in {"idle", "resources"}
        BY <2>3, HandType DEF Done, Idle, Request
      <4> QED
        BY Zenon, <2>1, <4>1, <4>2 DEF Holds
    <3>2. CASE ctr' = [ctr EXCEPT ![req[r].c] = "stopped"] /\ UNCHANGED <<table, frozen>>
      <4>1. \A d \in Cid : ctr'[d] = "none" => ~frozen'[d] /\ \A f \in Eid : table'[d][f] = NoPid
        BY Zenon, <3>2, TypeOK, TableInv DEF TypeOK, TableInv
      <4> QED
        BY Zenon, <3>1, <4>1, TableFree
    <3>3. CASE UNCHANGED <<ctr, table, frozen>>
      <4>1. \A d \in Cid : ctr'[d] = "none" => ~frozen'[d] /\ \A f \in Eid : table'[d][f] = NoPid
        BY Zenon, <3>3, TableInv DEF TableInv
      <4> QED
        BY Zenon, <3>1, <4>1, TableFree
    <3>4. CASE DropContainer([req EXCEPT ![r] = Idle], req[r].c)
      BY Zenon, <2>2, <3>4
    <3> QED
      BY Zenon, <1>17, <3>2, <3>3, <3>4 DEF RemoveDestroy
  <2> QED
    BY Zenon, <1>17, <2>2, <2>3 DEF RemoveDestroy
<1>18. ASSUME NEW r \in Req, RemoveResources(r)
      PROVE  TableInv'
  <2>1. \A s \in Req : req[s].pc \notin Holds
    BY Zenon, <1>18, LockInv, NoHolder DEF RemoveResources
  <2>2. \A s \in Req : req'[s].pc = [req EXCEPT ![r] = Idle][s].pc
    <3>1. [req EXCEPT ![r] = Idle] \in [Req -> Request] /\ req[r].c \in Cid
      BY Zenon, <1>18, HandType, IdleType, CtrInv DEF RemoveResources, CtrInv
    <3> QED
      BY ZenonT(60), <1>18, <3>1, DropFrame DEF RemoveResources
  <2>3. \A d \in Cid : ctr'[d] = "none" => ~frozen'[d] /\ \A f \in Eid : table'[d][f] = NoPid
    BY <1>18, TypeOK, TableInv DEF RemoveResources, DropContainer, TypeOK, TableInv
  <2>4. \A s \in Req : req'[s].pc \notin Holds
    BY Zenon, <2>1, <2>2, HandType DEF Holds, Idle
  <2> QED
    BY Zenon, <2>3, <2>4, TableFree
<1>19. ASSUME NEW r \in Req, HookEnd(r)
      PROVE  TableInv'
  <2>1. \A s \in Req \ {r} : req[s].pc \notin Holds
    BY Zenon, <1>19, LockInv, OneHolder DEF HookEnd, LockInv, Holds
  <2>2. /\ \A s \in Req \ {r} : req'[s] = req[s]
        /\ req'[r].c = req[r].c
        /\ req'[r].pc = req[r].then
    BY <1>19, HandType DEF HookEnd, Request
  <2>3. req[r].pc \in {"hook", "hookwait"} /\ req[r].then \in {"made", "undone", "started", "destroy"}
    BY Zenon, <1>19, LockInv DEF HookEnd, LockInv
  <2>4. ctr' = ctr /\ table' = table /\ frozen' = frozen
    BY Zenon, <1>19 DEF HookEnd
  <2>5. \A s \in Req : Child(s)' => s = r /\ Child(r)
    <3>1. \A s \in Req \ {r} : ~Child(s)'
      BY Zenon, <2>1, <2>2 DEF Child, Holds
    <3>2. Child(r)' => req[r].then = "made"
      BY Zenon, <2>2, <2>3 DEF Child
    <3> QED
      BY Zenon, <2>3, <3>1, <3>2 DEF Child
  <2>6. /\ \A s \in Req : req'[s].pc \notin {"exec", "open"}
        /\ \A s \in Req : Removing(s)' => s = r /\ Removing(r)
    <3>1. \A s \in Req \ {r} : ~Removing(s)' /\ req'[s].pc \notin {"exec", "open"}
      BY Zenon, <2>1, <2>2 DEF Removing, Holds
    <3>2. (Removing(r)' => Removing(r)) /\ req'[r].pc \notin {"exec", "open"}
      BY Zenon, <2>2, <2>3 DEF Removing
    <3> QED
      BY Zenon, <3>1, <3>2
  <2>7. /\ \A c \in Cid : ctr[c] = "none" => ~frozen[c] /\ \A e \in Eid : table[c][e] = NoPid
        /\ Child(r) /\ req[r].pc # "exec" => ctr[req[r].c] = "none"
        /\ Removing(r) => ctr[req[r].c] # "none"
    BY Zenon, TableInv DEF TableInv
  <2>8. \A s \in Req : /\ Child(s)' => ctr'[req'[s].c] = "none"
                       /\ Removing(s)' => ctr'[req'[s].c] # "none"
    BY Zenon, <2>2, <2>3, <2>4, <2>5, <2>6, <2>7
  <2> QED
    BY Zenon, <2>4, <2>6, <2>7, <2>8 DEF TableInv
<1>20. ASSUME NEW r \in Req, NEW p \in Pid, HookSpawn(r, p)
      PROVE  TableInv'
  <2>1. \A s \in Req \ {r} : req[s].pc \notin Holds
    BY Zenon, <1>20, LockInv, OneHolder DEF HookSpawn, LockInv, Holds
  <2>2. /\ \A s \in Req \ {r} : req'[s] = req[s]
        /\ req'[r].c = req[r].c
        /\ req'[r].pc = "hookwait" /\ req'[r].then = req[r].then
    BY <1>20, HandType DEF HookSpawn, Request
  <2>3. req[r].pc \in {"hook", "hookwait"} /\ req[r].then \in {"made", "undone", "started", "destroy"}
    BY Zenon, <1>20, LockInv DEF HookSpawn, LockInv
  <2>4. ctr' = ctr /\ table' = table /\ frozen' = frozen
    BY Zenon, <1>20 DEF HookSpawn
  <2>5. \A s \in Req : Child(s)' => s = r /\ Child(r)
    <3>1. \A s \in Req \ {r} : ~Child(s)'
      BY Zenon, <2>1, <2>2 DEF Child, Holds
    <3>2. Child(r)' => req[r].then = "made"
      BY Zenon, <2>2, <2>3 DEF Child
    <3> QED
      BY Zenon, <2>3, <3>1, <3>2 DEF Child
  <2>6. /\ \A s \in Req : req'[s].pc \notin {"exec", "open"}
        /\ \A s \in Req : Removing(s)' => s = r /\ Removing(r)
    <3>1. \A s \in Req \ {r} : ~Removing(s)' /\ req'[s].pc \notin {"exec", "open"}
      BY Zenon, <2>1, <2>2 DEF Removing, Holds
    <3>2. (Removing(r)' => Removing(r)) /\ req'[r].pc \notin {"exec", "open"}
      BY Zenon, <2>2, <2>3 DEF Removing
    <3> QED
      BY Zenon, <3>1, <3>2
  <2>7. /\ \A c \in Cid : ctr[c] = "none" => ~frozen[c] /\ \A e \in Eid : table[c][e] = NoPid
        /\ Child(r) /\ req[r].pc # "exec" => ctr[req[r].c] = "none"
        /\ Removing(r) => ctr[req[r].c] # "none"
    BY Zenon, TableInv DEF TableInv
  <2>8. \A s \in Req : /\ Child(s)' => ctr'[req'[s].c] = "none"
                       /\ Removing(s)' => ctr'[req'[s].c] # "none"
    BY Zenon, <2>2, <2>3, <2>4, <2>5, <2>6, <2>7
  <2> QED
    BY Zenon, <2>4, <2>6, <2>7, <2>8 DEF TableInv
<1>21. ASSUME NEW r \in Req, NEW c \in Cid, NEW p \in Pid, CreateBegin(r, c, p)
      PROVE  TableInv'
  <2>1. \A s \in Req : req[s].pc \notin Holds
    BY Zenon, <1>21, LockInv, NoHolder DEF CreateBegin
  <2>2. /\ \A s \in Req \ {r} : req'[s] = req[s]
        /\ req'[r].c = c /\ req'[r].pc \in {"made", "hook"}
        /\ req'[r].pc = "hook" => req'[r].then = "made"
    BY Zenon, <1>21, HandType DEF CreateBegin, After, Request, Idle
  <2>3. ctr' = ctr /\ table' = table /\ frozen' = frozen /\ ctr[c] = "none"
    BY Zenon, <1>21 DEF CreateBegin
  <2>4. \A s \in Req \ {r} : ~Child(s)' /\ ~Removing(s)' /\ req'[s].pc \notin {"exec", "open"}
    BY Zenon, <2>1, <2>2 DEF Holds, Child, Removing
  <2> QED
    BY Zenon, <2>2, <2>3, <2>4, TableInv DEF TableInv, Child, Removing
<1>22. ASSUME NEW r \in Req, NEW c \in Cid, NEW e \in Exec, NEW p \in Pid, ExecBegin(r, c, e, p)
      PROVE  TableInv'
  <2>1. \A s \in Req : req[s].pc \notin Holds
    BY Zenon, <1>22, LockInv, NoHolder DEF ExecBegin
  <2>2. /\ \A s \in Req \ {r} : req'[s] = req[s]
        /\ req'[r].c = c /\ req'[r].pc = "exec" /\ req'[r].e = e
    BY Zenon, <1>22, HandType DEF ExecBegin, Request, Idle
  <2>3. ctr' = ctr /\ table' = table /\ frozen' = frozen /\ ctr[c] # "none" /\ table[c][e] = NoPid
    BY Zenon, <1>22 DEF ExecBegin
  <2>4. \A s \in Req \ {r} : ~Child(s)' /\ ~Removing(s)' /\ req'[s].pc \notin {"exec", "open"}
    BY Zenon, <2>1, <2>2 DEF Holds, Child, Removing
  <2> QED
    BY Zenon, <2>2, <2>3, <2>4, TableInv DEF TableInv, Child, Removing
<1>23. ASSUME NEW r \in Req, NEW c \in Cid, StartBegin(r, c)
      PROVE  TableInv'
  <2>1. \A s \in Req : req[s].pc \notin Holds
    BY Zenon, <1>23, LockInv, NoHolder DEF StartBegin
  <2>2. /\ \A s \in Req \ {r} : req'[s] = req[s]
        /\ req'[r].c = c /\ req'[r].pc = "open"
    BY Zenon, <1>23, HandType DEF StartBegin, Request, Idle
  <2>3. ctr' = ctr /\ table' = table /\ frozen' = frozen /\ ctr[c] = "created"
    BY Zenon, <1>23 DEF StartBegin
  <2>4. \A s \in Req \ {r} : ~Child(s)' /\ ~Removing(s)' /\ req'[s].pc \notin {"exec", "open"}
    BY Zenon, <2>1, <2>2 DEF Holds, Child, Removing
  <2> QED
    BY Zenon, <2>2, <2>3, <2>4, TableInv DEF TableInv, Child, Removing
<1>24. ASSUME NEW r \in Req, NEW c \in Cid, RemoveBegin(r, c)
      PROVE  TableInv'
  <2>1. \A s \in Req : req[s].pc \notin Holds
    BY Zenon, <1>24, LockInv, NoHolder DEF RemoveBegin
  <2>2. /\ \A s \in Req \ {r} : req'[s] = req[s]
        /\ req'[r].c = c /\ req'[r].pc \in {"destroy", "hook"}
        /\ req'[r].pc = "hook" => req'[r].then = "destroy"
    BY Zenon, <1>24, HandType DEF RemoveBegin, After, Request, Idle
  <2>3. ctr' = ctr /\ table' = table /\ frozen' = frozen /\ ctr[c] # "none"
    BY Zenon, <1>24 DEF RemoveBegin
  <2>4. \A s \in Req \ {r} : ~Child(s)' /\ ~Removing(s)' /\ req'[s].pc \notin {"exec", "open"}
    BY Zenon, <2>1, <2>2 DEF Holds, Child, Removing
  <2> QED
    BY Zenon, <2>2, <2>3, <2>4, TableInv DEF TableInv, Child, Removing
<1>25. ASSUME NEW r \in Req, NEW c \in Cid, NEW e \in Eid, WaitBegin(r, c, e)
      PROVE  TableInv'
  <2>1. /\ \A s \in Req \ {r} : req'[s] = req[s]
        /\ req'[r].pc \notin {"made", "open", "exec", "destroy"}
        /\ req'[r].pc \in {"hook", "hookwait"} => req'[r].then \notin {"made", "destroy"}
    BY Zenon, <1>25, HandType DEF WaitBegin, Request, Idle
  <2>2. ctr' = ctr /\ table' = table /\ \A d \in Cid : frozen'[d] => frozen[d]
    BY Zenon, <1>25 DEF WaitBegin
  <2> QED
    BY Zenon, <2>1, <2>2, TableInv, TableFrame
<1>26. ASSUME NEW r \in Req, NEW c \in Cid, NEW e \in Eid, ReadBegin(r, c, e)
      PROVE  TableInv'
  <2>1. /\ \A s \in Req \ {r} : req'[s] = req[s]
        /\ req'[r].pc \notin {"made", "open", "exec", "destroy"}
        /\ req'[r].pc \in {"hook", "hookwait"} => req'[r].then \notin {"made", "destroy"}
    BY Zenon, <1>26, HandType DEF ReadBegin, Request, Idle
  <2>2. ctr' = ctr /\ table' = table /\ \A d \in Cid : frozen'[d] => frozen[d]
    BY Zenon, <1>26 DEF ReadBegin
  <2> QED
    BY Zenon, <2>1, <2>2, TableInv, TableFrame
<1>27. ASSUME NEW r \in Req, NEW c \in Cid, NEW e \in Eid, NEW k \in BOOLEAN, SignalBegin(r, c, e, k)
      PROVE  TableInv'
  <2>1. /\ \A s \in Req \ {r} : req'[s] = req[s]
        /\ req'[r].pc \notin {"made", "open", "exec", "destroy"}
        /\ req'[r].pc \in {"hook", "hookwait"} => req'[r].then \notin {"made", "destroy"}
    <3>1. CASE e = InitE
      <4>1. req' = [req EXCEPT ![r] = [Idle EXCEPT !.pc = "freeze", !.c = c, !.k = k]]
        BY Zenon, <1>27, <3>1 DEF SignalBegin
      <4> QED
        BY Zenon, <4>1, HandType DEF Idle
    <3>2. CASE e # InitE
      BY <1>27, <3>2, HandType DEF SignalBegin, Done, Idle
    <3> QED
      BY Zenon, <3>1, <3>2
  <2>2. ctr' = ctr /\ table' = table /\ \A d \in Cid : frozen'[d] => frozen[d]
    BY Zenon, <1>27 DEF SignalBegin
  <2> QED
    BY Zenon, <2>1, <2>2, TableInv, TableFrame
<1>28. ASSUME NEW c \in Cid, Pause(c)
      PROVE  TableInv'
  <2>1. \A s \in Req : req[s].pc \notin Holds
    BY Zenon, <1>28, LockInv, NoHolder DEF Pause
  <2>2. req' = req
    BY Zenon, <1>28 DEF Pause
  <2>3. \A d \in Cid : ctr'[d] = "none" => ~frozen'[d] /\ \A f \in Eid : table'[d][f] = NoPid
    BY ZenonT(60), <1>28, TypeOK, TableInv DEF Pause, TypeOK, TableInv
  <2>4. \A s \in Req : req'[s].pc \notin Holds
    BY Zenon, <2>1, <2>2 DEF Holds
  <2> QED
    BY Zenon, <2>3, <2>4, TableFree
<1>29. ASSUME NEW c \in Cid, Resume(c)
      PROVE  TableInv'
  <2>1. \A s \in Req : req[s].pc \notin Holds
    BY Zenon, <1>29, LockInv, NoHolder DEF Resume
  <2>2. req' = req
    BY Zenon, <1>29 DEF Resume
  <2>3. \A d \in Cid : ctr'[d] = "none" => ~frozen'[d] /\ \A f \in Eid : table'[d][f] = NoPid
    BY ZenonT(60), <1>29, TypeOK, TableInv DEF Resume, TypeOK, TableInv
  <2>4. \A s \in Req : req'[s].pc \notin Holds
    BY Zenon, <2>1, <2>2 DEF Holds
  <2> QED
    BY Zenon, <2>3, <2>4, TableFree
<1>30. ASSUME HandlerRecv
      PROVE  TableInv'
  <2>1. req' = req /\ ctr' = ctr /\ table' = table /\ frozen' = frozen
    BY Zenon, <1>30 DEF HandlerRecv
  <2> QED
    BY Zenon, <2>1, TableInv, TableSame
<1>31. ASSUME NEW p \in Pid, HandlerReap(p)
      PROVE  TableInv'
  <2>1. req' = req /\ ctr' = ctr /\ table' = table /\ frozen' = frozen
    BY Zenon, <1>31 DEF HandlerReap
  <2> QED
    BY Zenon, <2>1, TableInv, TableSame
<1>32. ASSUME HandlerEnd
      PROVE  TableInv'
  <2>1. req' = req /\ ctr' = ctr /\ table' = table /\ frozen' = frozen
    BY Zenon, <1>32 DEF HandlerEnd
  <2> QED
    BY Zenon, <2>1, TableInv, TableSame
<1>33. ASSUME HandlerFind
      PROVE  TableInv'
  <2>1. \A s \in Req : /\ req'[s].pc = req[s].pc /\ req'[s].then = req[s].then
                      /\ req'[s].c = req[s].c /\ req'[s].e = req[s].e
    BY <1>33, HandType DEF HandlerFind, Tell, Woken, Request
  <2>2. ctr' = ctr /\ table' = table /\ frozen' = frozen
    BY Zenon, <1>33 DEF HandlerFind
  <2> QED
    BY Zenon, <2>1, <2>2, TableInv, TableSame
<1>34. ASSUME HandlerDrained
      PROVE  TableInv'
  <2>1. \A s \in Req : /\ req'[s].pc = req[s].pc /\ req'[s].then = req[s].then
                      /\ req'[s].c = req[s].c /\ req'[s].e = req[s].e
    BY <1>34, HandType DEF HandlerDrained, Tell, Woken, Request
  <2>2. ctr' = ctr /\ table' = table /\ frozen' = frozen
    BY Zenon, <1>34 DEF HandlerDrained
  <2> QED
    BY Zenon, <2>1, <2>2, TableInv, TableSame
<1>35. ASSUME NEW p \in Pid, ChildReady(p)
      PROVE  TableInv'
  <2>1. \A s \in Req : /\ req'[s].pc = req[s].pc /\ req'[s].then = req[s].then
                      /\ req'[s].c = req[s].c /\ req'[s].e = req[s].e
    BY <1>35, HandType DEF ChildReady, Request
  <2>2. ctr' = ctr /\ table' = table /\ frozen' = frozen
    BY Zenon, <1>35 DEF ChildReady
  <2> QED
    BY Zenon, <2>1, <2>2, TableInv, TableSame
<1>36. ASSUME NEW p \in Pid, ChildOpens(p)
      PROVE  TableInv'
  <2>1. req' = req /\ ctr' = ctr /\ table' = table /\ frozen' = frozen
    BY Zenon, <1>36 DEF ChildOpens
  <2> QED
    BY Zenon, <2>1, TableInv, TableSame
<1>37. ASSUME NEW p \in Pid, Exit(p)
      PROVE  TableInv'
  <2>1. req' = req /\ ctr' = ctr /\ table' = table /\ frozen' = frozen
    BY Zenon, <1>37 DEF Exit
  <2> QED
    BY Zenon, <2>1, TableInv, TableSame
<1>38. ASSUME NEW p \in Pid, HeirExit(p)
      PROVE  TableInv'
  <2>1. req' = req /\ ctr' = ctr /\ table' = table /\ frozen' = frozen
    BY Zenon, <1>38 DEF HeirExit
  <2> QED
    BY Zenon, <2>1, TableInv, TableSame
<1>39. ASSUME UNCHANGED vars
      PROVE  TableInv'
  <2>1. req' = req /\ ctr' = ctr /\ table' = table /\ frozen' = frozen
    BY Zenon, <1>39 DEF vars
  <2> QED
    BY Zenon, <2>1, TableInv, TableSame
<1> QED
  BY ZenonT(60), <1>1, <1>2, <1>3, <1>4, <1>5, <1>6, <1>7, <1>8, <1>9, <1>10, <1>11, <1>12, <1>13,
     <1>14, <1>15, <1>16, <1>17, <1>18, <1>19, <1>20, <1>21, <1>22, <1>23, <1>24, <1>25,
     <1>26, <1>27, <1>28, <1>29, <1>30, <1>31, <1>32, <1>33, <1>34, <1>35, <1>36, <1>37,
     <1>38, <1>39
  DEF Next, Begin, Locking, Running, Fail, Handle, Eid
\* Every step keeps FrozenForAReason.
LEMMA FrozenStep ==
  ASSUME TypeOK, CtrInv, TableInv, FrozenForAReason, [Next]_vars
  PROVE  FrozenForAReason'
<1>1. ASSUME NEW r \in Req, CreateOk(r)
      PROVE  FrozenForAReason'
  <2>1. /\ \A s \in Req \ {r} : req'[s].pc = req[s].pc /\ req'[s].c = req[s].c
        /\ req[r].pc = "made"
    BY Zenon, <1>1, HandType DEF CreateOk, Done, Request
  <2>2. \A d \in Cid : /\ (frozen'[d] => frozen[d]) /\ (d # req[r].c => ctr'[d] = ctr[d]) /\ (d = req[r].c => ~frozen[d])
    BY ZenonT(60), <1>1, TypeOK, TableInv, CtrInv DEF CreateOk, TypeOK, TableInv, CtrInv, Child
  <2> QED
    BY Zenon, <2>1, <2>2, FrozenForAReason, FrozenMoves
<1>2. ASSUME NEW r \in Req, CreateFail(r)
      PROVE  FrozenForAReason'
  <2>1. /\ \A s \in Req \ {r} : req'[s] = req[s]
        /\ req[r].pc \notin {"pids", "kill", "thaw"}
    BY Zenon, <1>2, HandType DEF CreateFail, Go, After
  <2>2. ctr' = ctr /\ frozen' = frozen
    BY Zenon, <1>2 DEF CreateFail
  <2> QED
    BY Zenon, <2>1, <2>2, FrozenForAReason, FrozenFrame
<1>3. ASSUME NEW r \in Req, CreateUndone(r)
      PROVE  FrozenForAReason'
  <2>1. /\ \A s \in Req \ {r} : req'[s] = req[s]
        /\ req[r].pc \notin {"pids", "kill", "thaw"}
    BY Zenon, <1>3, HandType DEF CreateUndone, Done
  <2>2. ctr' = ctr /\ frozen' = frozen
    BY Zenon, <1>3 DEF CreateUndone
  <2> QED
    BY Zenon, <2>1, <2>2, FrozenForAReason, FrozenFrame
<1>4. ASSUME NEW r \in Req, ExecOk(r)
      PROVE  FrozenForAReason'
  <2>1. /\ \A s \in Req \ {r} : req'[s] = req[s]
        /\ req[r].pc \notin {"pids", "kill", "thaw"}
    BY Zenon, <1>4, HandType DEF ExecOk, Done
  <2>2. ctr' = ctr /\ frozen' = frozen
    BY Zenon, <1>4 DEF ExecOk
  <2> QED
    BY Zenon, <2>1, <2>2, FrozenForAReason, FrozenFrame
<1>5. ASSUME NEW r \in Req, ExecFail(r)
      PROVE  FrozenForAReason'
  <2>1. /\ \A s \in Req \ {r} : req'[s] = req[s]
        /\ req[r].pc \notin {"pids", "kill", "thaw"}
    BY Zenon, <1>5, HandType DEF ExecFail, Done
  <2>2. ctr' = ctr /\ frozen' = frozen
    BY Zenon, <1>5 DEF ExecFail
  <2> QED
    BY Zenon, <2>1, <2>2, FrozenForAReason, FrozenFrame
<1>6. ASSUME NEW r \in Req, StartOpen(r)
      PROVE  FrozenForAReason'
  <2>1. /\ \A s \in Req \ {r} : req'[s].pc = req[s].pc /\ req'[s].c = req[s].c
        /\ req[r].pc = "open"
    BY Zenon, <1>6, HandType DEF StartOpen, Go, After, Request
  <2>2. \A d \in Cid : /\ (frozen'[d] => frozen[d]) /\ (d # req[r].c => ctr'[d] = ctr[d]) /\ (d = req[r].c => ctr[d] = "created")
    BY Zenon, <1>6, TypeOK, TableInv, CtrInv DEF StartOpen, TypeOK, TableInv, CtrInv
  <2> QED
    BY Zenon, <2>1, <2>2, FrozenForAReason, FrozenMoves
<1>7. ASSUME NEW r \in Req, StartEnd(r)
      PROVE  FrozenForAReason'
  <2>1. /\ \A s \in Req \ {r} : req'[s] = req[s]
        /\ req[r].pc \notin {"pids", "kill", "thaw"}
    BY Zenon, <1>7, HandType DEF StartEnd, Done
  <2>2. ctr' = ctr /\ frozen' = frozen
    BY Zenon, <1>7 DEF StartEnd
  <2> QED
    BY Zenon, <2>1, <2>2, FrozenForAReason, FrozenFrame
<1>8. ASSUME NEW r \in Req, SignalFreeze(r)
      PROVE  FrozenForAReason'
  <2>1. /\ \A s \in Req \ {r} : req'[s].pc = req[s].pc /\ req'[s].c = req[s].c
        /\ req[r].pc = "freeze" /\ req'[r].pc = "pids" /\ req'[r].c = req[r].c
    BY SMTT(30), <1>8, HandType DEF SignalFreeze, Request
  <2>2. ctr' = ctr /\ \A d \in Cid : d # req[r].c => (frozen'[d] => frozen[d])
    BY <1>8, TypeOK, TableInv, CtrInv DEF SignalFreeze, TypeOK, TableInv, CtrInv
  <2> QED
    BY <2>1, <2>2, FrozenForAReason DEF FrozenForAReason
<1>9. ASSUME NEW r \in Req, SignalPids(r)
      PROVE  FrozenForAReason'
  <2>1. ctr' = ctr /\ frozen' = frozen /\ req[r].c \in Cid
    BY Zenon, <1>9, CtrInv DEF SignalPids, CtrInv
  <2>2. CASE ctr[req[r].c] = "none"
    <3>1. \A s \in Req \ {r} : req'[s] = req[s]
      BY Zenon, <1>9, <2>2, HandType DEF SignalPids, Done
    <3>2. ~frozen[req[r].c]
      BY Zenon, <2>1, <2>2, TableInv DEF TableInv
    <3> QED
      BY <2>1, <3>1, <3>2, FrozenForAReason DEF FrozenForAReason
  <2>3. CASE ctr[req[r].c] # "none"
    <3>1. req' = [req EXCEPT ![r] = [@ EXCEPT !.pc = "kill", !.pids = In(req[r].c)]]
      BY Zenon, <1>9, <2>3 DEF SignalPids
    <3>2. /\ \A s \in Req \ {r} : req'[s] = req[s]
          /\ req'[r].pc = "kill" /\ req'[r].c = req[r].c
      BY ZenonT(60), <3>1, HandType DEF Request
    <3> QED
      BY Zenon, <2>1, <3>2, FrozenForAReason, FrozenFrame
  <2> QED
    BY Zenon, <2>2, <2>3
<1>10. ASSUME NEW r \in Req, SignalKill(r)
      PROVE  FrozenForAReason'
  <2>1. /\ \A s \in Req \ {r} : req'[s].pc = req[s].pc /\ req'[s].c = req[s].c
        /\ req'[r].pc = "thaw" /\ req'[r].c = req[r].c
    BY <1>10, HandType DEF SignalKill, Request
  <2>2. ctr' = ctr /\ frozen' = frozen
    BY Zenon, <1>10, TypeOK, TableInv, CtrInv DEF SignalKill, TypeOK, TableInv, CtrInv
  <2> QED
    BY Zenon, <2>1, <2>2, FrozenForAReason, FrozenMoves
<1>11. ASSUME NEW r \in Req, SignalThaw(r)
      PROVE  FrozenForAReason'
  <2>1. /\ \A s \in Req \ {r} : req'[s].pc = req[s].pc /\ req'[s].c = req[s].c
        /\ req[r].pc = "thaw"
    BY Zenon, <1>11, HandType DEF SignalThaw, Done, Request
  <2>2. ctr' = ctr /\ \A d \in Cid : (d # req[r].c => (frozen'[d] => frozen[d])) /\ (d = req[r].c => ~frozen'[d])
    BY Zenon, <1>11, TypeOK, TableInv, CtrInv DEF SignalThaw, TypeOK, TableInv, CtrInv
  <2> QED
    BY Zenon, <2>1, <2>2, FrozenForAReason, FrozenMoves
<1>12. ASSUME NEW r \in Req, WaitSignalled(r)
      PROVE  FrozenForAReason'
  <2>1. /\ \A s \in Req \ {r} : req'[s] = req[s]
        /\ req[r].pc \notin {"pids", "kill", "thaw"}
    BY Zenon, <1>12, HandType DEF WaitSignalled
  <2>2. ctr' = ctr /\ frozen' = frozen
    BY Zenon, <1>12 DEF WaitSignalled
  <2> QED
    BY Zenon, <2>1, <2>2, FrozenForAReason, FrozenFrame
<1>13. ASSUME NEW r \in Req, WaitWon(r)
      PROVE  FrozenForAReason'
  <2>1. /\ \A s \in Req \ {r} : req'[s].pc = req[s].pc /\ req'[s].c = req[s].c
        /\ req[r].pc = "look"
    BY <1>13, HandType DEF WaitWon, Woken, Request
  <2>2. ctr' = ctr /\ frozen' = frozen
    BY Zenon, <1>13, TypeOK, TableInv, CtrInv DEF WaitWon, TypeOK, TableInv, CtrInv
  <2> QED
    BY Zenon, <2>1, <2>2, FrozenForAReason, FrozenMoves
<1>14. ASSUME NEW r \in Req, WaitLost(r)
      PROVE  FrozenForAReason'
  <2>1. /\ \A s \in Req \ {r} : req'[s] = req[s]
        /\ req[r].pc \notin {"pids", "kill", "thaw"}
    BY Zenon, <1>14, HandType DEF WaitLost, Done
  <2>2. ctr' = ctr /\ frozen' = frozen
    BY Zenon, <1>14 DEF WaitLost
  <2> QED
    BY Zenon, <2>1, <2>2, FrozenForAReason, FrozenFrame
<1>15. ASSUME NEW r \in Req, ReadSelect(r)
      PROVE  FrozenForAReason'
  <2>1. /\ \A s \in Req \ {r} : req'[s] = req[s]
        /\ req[r].pc \notin {"pids", "kill", "thaw"}
    BY Zenon, <1>15, HandType DEF ReadSelect
  <2>2. ctr' = ctr /\ frozen' = frozen
    BY Zenon, <1>15 DEF ReadSelect
  <2> QED
    BY Zenon, <2>1, <2>2, FrozenForAReason, FrozenFrame
<1>16. ASSUME NEW r \in Req, ReadEnd(r)
      PROVE  FrozenForAReason'
  <2>1. /\ \A s \in Req \ {r} : req'[s] = req[s]
        /\ req[r].pc \notin {"pids", "kill", "thaw"}
    BY Zenon, <1>16, HandType DEF ReadEnd, Done
  <2>2. ctr' = ctr /\ frozen' = frozen
    BY Zenon, <1>16 DEF ReadEnd
  <2> QED
    BY Zenon, <2>1, <2>2, FrozenForAReason, FrozenFrame
<1>17. ASSUME NEW r \in Req, RemoveDestroy(r)
      PROVE  FrozenForAReason'
  <2>1. [req EXCEPT ![r] = Idle] \in [Req -> Request] /\ req[r].c \in Cid /\ req[r].pc = "destroy"
    BY Zenon, <1>17, HandType, IdleType, CtrInv DEF RemoveDestroy, CtrInv
  <2>2. CASE DropContainer([req EXCEPT ![r] = Idle], req[r].c)
    <3>1. \A s \in Req \ {r} : req'[s].pc = req[s].pc /\ req'[s].c = req[s].c
      <4>1. \A s \in Req : /\ req'[s].pc = [req EXCEPT ![r] = Idle][s].pc
                          /\ req'[s].c = [req EXCEPT ![r] = Idle][s].c
        BY ZenonT(60), <2>1, <2>2, DropFrame
      <4> QED
        BY Zenon, <4>1, HandType
    <3>2. \A d \in Cid : (d # req[r].c => (frozen'[d] => frozen[d]) /\ ctr'[d] = ctr[d]) /\ (d = req[r].c => ~frozen'[d])
      BY Zenon, <2>1, <2>2, TypeOK DEF DropContainer, TypeOK
    <3> QED
      BY Zenon, <2>1, <3>1, <3>2, FrozenForAReason, FrozenMoves
  <2>3. CASE Done(r) \/ req' = [req EXCEPT ![r].pc = "resources"]
    <3>1. \A s \in Req \ {r} : req'[s] = req[s]
      BY Zenon, <2>3, HandType DEF Done
    <3>2. CASE ctr' = [ctr EXCEPT ![req[r].c] = "stopped"] /\ UNCHANGED <<table, frozen>>
      <4>1. frozen' = frozen /\ \A d \in Cid : (d # req[r].c => ctr'[d] = ctr[d]) /\ (d = req[r].c => ctr'[d] = "stopped")
        BY Zenon, <3>2, TypeOK DEF TypeOK
      <4> QED
        BY Zenon, <2>1, <3>1, <4>1, FrozenForAReason, FrozenMoves
    <3>3. CASE UNCHANGED <<ctr, table, frozen>>
      BY Zenon, <2>1, <3>1, <3>3, FrozenForAReason, FrozenFrame
    <3>4. CASE DropContainer([req EXCEPT ![r] = Idle], req[r].c)
      BY Zenon, <2>2, <3>4
    <3> QED
      BY Zenon, <1>17, <3>2, <3>3, <3>4 DEF RemoveDestroy
  <2> QED
    BY Zenon, <1>17, <2>2, <2>3 DEF RemoveDestroy
<1>18. ASSUME NEW r \in Req, RemoveResources(r)
      PROVE  FrozenForAReason'
  <2>1. [req EXCEPT ![r] = Idle] \in [Req -> Request] /\ req[r].c \in Cid /\ req[r].pc = "resources"
    BY Zenon, <1>18, HandType, IdleType, CtrInv DEF RemoveResources, CtrInv
  <2>2. DropContainer([req EXCEPT ![r] = Idle], req[r].c)
    BY Zenon, <1>18 DEF RemoveResources
  <2> QED
    <3>1. \A s \in Req \ {r} : req'[s].pc = req[s].pc /\ req'[s].c = req[s].c
      <4>1. \A s \in Req : /\ req'[s].pc = [req EXCEPT ![r] = Idle][s].pc
                          /\ req'[s].c = [req EXCEPT ![r] = Idle][s].c
        BY ZenonT(60), <2>1, <2>2, DropFrame
      <4> QED
        BY Zenon, <4>1, HandType
    <3>2. \A d \in Cid : (d # req[r].c => (frozen'[d] => frozen[d]) /\ ctr'[d] = ctr[d]) /\ (d = req[r].c => ~frozen'[d])
      BY Zenon, <2>1, <2>2, TypeOK DEF DropContainer, TypeOK
    <3> QED
      BY Zenon, <2>1, <3>1, <3>2, FrozenForAReason, FrozenMoves
<1>19. ASSUME NEW r \in Req, HookEnd(r)
      PROVE  FrozenForAReason'
  <2>1. /\ \A s \in Req \ {r} : req'[s] = req[s]
        /\ req[r].pc \notin {"pids", "kill", "thaw"}
    BY Zenon, <1>19, HandType DEF HookEnd
  <2>2. ctr' = ctr /\ frozen' = frozen
    BY Zenon, <1>19 DEF HookEnd
  <2> QED
    BY Zenon, <2>1, <2>2, FrozenForAReason, FrozenFrame
<1>20. ASSUME NEW r \in Req, NEW p \in Pid, HookSpawn(r, p)
      PROVE  FrozenForAReason'
  <2>1. /\ \A s \in Req \ {r} : req'[s] = req[s]
        /\ req[r].pc \notin {"pids", "kill", "thaw"}
    BY Zenon, <1>20, HandType DEF HookSpawn
  <2>2. ctr' = ctr /\ frozen' = frozen
    BY Zenon, <1>20 DEF HookSpawn
  <2> QED
    BY Zenon, <2>1, <2>2, FrozenForAReason, FrozenFrame
<1>21. ASSUME NEW r \in Req, NEW c \in Cid, NEW p \in Pid, CreateBegin(r, c, p)
      PROVE  FrozenForAReason'
  <2>1. /\ \A s \in Req \ {r} : req'[s] = req[s]
        /\ req[r].pc \notin {"pids", "kill", "thaw"}
    BY Zenon, <1>21, HandType DEF CreateBegin, After
  <2>2. ctr' = ctr /\ frozen' = frozen
    BY Zenon, <1>21 DEF CreateBegin
  <2> QED
    BY Zenon, <2>1, <2>2, FrozenForAReason, FrozenFrame
<1>22. ASSUME NEW r \in Req, NEW c \in Cid, NEW e \in Exec, NEW p \in Pid, ExecBegin(r, c, e, p)
      PROVE  FrozenForAReason'
  <2>1. /\ \A s \in Req \ {r} : req'[s] = req[s]
        /\ req[r].pc \notin {"pids", "kill", "thaw"}
    BY Zenon, <1>22, HandType DEF ExecBegin
  <2>2. ctr' = ctr /\ frozen' = frozen
    BY Zenon, <1>22 DEF ExecBegin
  <2> QED
    BY Zenon, <2>1, <2>2, FrozenForAReason, FrozenFrame
<1>23. ASSUME NEW r \in Req, NEW c \in Cid, StartBegin(r, c)
      PROVE  FrozenForAReason'
  <2>1. /\ \A s \in Req \ {r} : req'[s] = req[s]
        /\ req[r].pc \notin {"pids", "kill", "thaw"}
    BY Zenon, <1>23, HandType DEF StartBegin
  <2>2. ctr' = ctr /\ frozen' = frozen
    BY Zenon, <1>23 DEF StartBegin
  <2> QED
    BY Zenon, <2>1, <2>2, FrozenForAReason, FrozenFrame
<1>24. ASSUME NEW r \in Req, NEW c \in Cid, RemoveBegin(r, c)
      PROVE  FrozenForAReason'
  <2>1. /\ \A s \in Req \ {r} : req'[s] = req[s]
        /\ req[r].pc \notin {"pids", "kill", "thaw"}
    BY Zenon, <1>24, HandType DEF RemoveBegin, After
  <2>2. ctr' = ctr /\ frozen' = frozen
    BY Zenon, <1>24 DEF RemoveBegin
  <2> QED
    BY Zenon, <2>1, <2>2, FrozenForAReason, FrozenFrame
<1>25. ASSUME NEW r \in Req, NEW c \in Cid, NEW e \in Eid, WaitBegin(r, c, e)
      PROVE  FrozenForAReason'
  <2>1. /\ \A s \in Req \ {r} : req'[s] = req[s]
        /\ req[r].pc \notin {"pids", "kill", "thaw"}
    BY Zenon, <1>25, HandType DEF WaitBegin
  <2>2. ctr' = ctr /\ frozen' = frozen
    BY Zenon, <1>25 DEF WaitBegin
  <2> QED
    BY Zenon, <2>1, <2>2, FrozenForAReason, FrozenFrame
<1>26. ASSUME NEW r \in Req, NEW c \in Cid, NEW e \in Eid, ReadBegin(r, c, e)
      PROVE  FrozenForAReason'
  <2>1. /\ \A s \in Req \ {r} : req'[s] = req[s]
        /\ req[r].pc \notin {"pids", "kill", "thaw"}
    BY Zenon, <1>26, HandType DEF ReadBegin
  <2>2. ctr' = ctr /\ frozen' = frozen
    BY Zenon, <1>26 DEF ReadBegin
  <2> QED
    BY Zenon, <2>1, <2>2, FrozenForAReason, FrozenFrame
<1>27. ASSUME NEW r \in Req, NEW c \in Cid, NEW e \in Eid, NEW k \in BOOLEAN, SignalBegin(r, c, e, k)
      PROVE  FrozenForAReason'
  <2>1. /\ \A s \in Req \ {r} : req'[s] = req[s]
        /\ req[r].pc \notin {"pids", "kill", "thaw"}
    BY Zenon, <1>27, HandType DEF SignalBegin, Done
  <2>2. ctr' = ctr /\ frozen' = frozen
    BY Zenon, <1>27 DEF SignalBegin
  <2> QED
    BY Zenon, <2>1, <2>2, FrozenForAReason, FrozenFrame
<1>28. ASSUME NEW c \in Cid, Pause(c)
      PROVE  FrozenForAReason'
  <2>1. req' = req /\ \A d \in Cid : (d # c => (frozen'[d] => frozen[d]) /\ ctr'[d] = ctr[d]) /\ (d = c => ctr'[d] = "paused")
    BY Zenon, <1>28, TypeOK DEF Pause, TypeOK
  <2> QED
    BY Zenon, <2>1, FrozenForAReason, FrozenMoves
<1>29. ASSUME NEW c \in Cid, Resume(c)
      PROVE  FrozenForAReason'
  <2>1. req' = req /\ \A d \in Cid : (d # c => (frozen'[d] => frozen[d]) /\ ctr'[d] = ctr[d]) /\ (d = c => ~frozen'[d])
    BY Zenon, <1>29, TypeOK DEF Resume, TypeOK
  <2> QED
    BY Zenon, <2>1, FrozenForAReason, FrozenMoves
<1>30. ASSUME HandlerRecv
      PROVE  FrozenForAReason'
  <2>1. req' = req /\ ctr' = ctr /\ frozen' = frozen
    BY Zenon, <1>30 DEF HandlerRecv
  <2> QED
    BY Zenon, <2>1, FrozenForAReason, FrozenFrame
<1>31. ASSUME NEW p \in Pid, HandlerReap(p)
      PROVE  FrozenForAReason'
  <2>1. req' = req /\ ctr' = ctr /\ frozen' = frozen
    BY Zenon, <1>31 DEF HandlerReap
  <2> QED
    BY Zenon, <2>1, FrozenForAReason, FrozenFrame
<1>32. ASSUME HandlerEnd
      PROVE  FrozenForAReason'
  <2>1. req' = req /\ ctr' = ctr /\ frozen' = frozen
    BY Zenon, <1>32 DEF HandlerEnd
  <2> QED
    BY Zenon, <2>1, FrozenForAReason, FrozenFrame
<1>33. ASSUME HandlerFind
      PROVE  FrozenForAReason'
  <2>1. \A s \in Req : req'[s].pc = req[s].pc /\ req'[s].c = req[s].c
    BY <1>33, HandType DEF HandlerFind, Tell, Woken, Request
  <2>2. ctr' = ctr /\ frozen' = frozen
    BY Zenon, <1>33 DEF HandlerFind
  <2> QED
    BY Zenon, <2>1, <2>2, FrozenForAReason, FrozenFrame
<1>34. ASSUME HandlerDrained
      PROVE  FrozenForAReason'
  <2>1. \A s \in Req : req'[s].pc = req[s].pc /\ req'[s].c = req[s].c
    BY <1>34, HandType DEF HandlerDrained, Tell, Woken, Request
  <2>2. ctr' = ctr /\ frozen' = frozen
    BY Zenon, <1>34 DEF HandlerDrained
  <2> QED
    BY Zenon, <2>1, <2>2, FrozenForAReason, FrozenFrame
<1>35. ASSUME NEW p \in Pid, ChildReady(p)
      PROVE  FrozenForAReason'
  <2>1. \A s \in Req : req'[s].pc = req[s].pc /\ req'[s].c = req[s].c
    BY <1>35, HandType DEF ChildReady, Request
  <2>2. ctr' = ctr /\ frozen' = frozen
    BY Zenon, <1>35 DEF ChildReady
  <2> QED
    BY Zenon, <2>1, <2>2, FrozenForAReason, FrozenFrame
<1>36. ASSUME NEW p \in Pid, ChildOpens(p)
      PROVE  FrozenForAReason'
  <2>1. req' = req /\ ctr' = ctr /\ frozen' = frozen
    BY Zenon, <1>36 DEF ChildOpens
  <2> QED
    BY Zenon, <2>1, FrozenForAReason, FrozenFrame
<1>37. ASSUME NEW p \in Pid, Exit(p)
      PROVE  FrozenForAReason'
  <2>1. req' = req /\ ctr' = ctr /\ frozen' = frozen
    BY Zenon, <1>37 DEF Exit
  <2> QED
    BY Zenon, <2>1, FrozenForAReason, FrozenFrame
<1>38. ASSUME NEW p \in Pid, HeirExit(p)
      PROVE  FrozenForAReason'
  <2>1. req' = req /\ ctr' = ctr /\ frozen' = frozen
    BY Zenon, <1>38 DEF HeirExit
  <2> QED
    BY Zenon, <2>1, FrozenForAReason, FrozenFrame
<1>39. ASSUME UNCHANGED vars
      PROVE  FrozenForAReason'
  <2>1. req' = req /\ ctr' = ctr /\ frozen' = frozen
    BY Zenon, <1>39 DEF vars
  <2> QED
    BY Zenon, <2>1, FrozenForAReason, FrozenFrame
<1> QED
  BY Zenon, <1>1, <1>2, <1>3, <1>4, <1>5, <1>6, <1>7, <1>8, <1>9, <1>10, <1>11, <1>12, <1>13,
     <1>14, <1>15, <1>16, <1>17, <1>18, <1>19, <1>20, <1>21, <1>22, <1>23, <1>24, <1>25,
     <1>26, <1>27, <1>28, <1>29, <1>30, <1>31, <1>32, <1>33, <1>34, <1>35, <1>36, <1>37,
     <1>38, <1>39
  DEF Next, Begin, Locking, Running, Fail, Handle, Eid
=============================================================================
