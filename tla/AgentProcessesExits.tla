------------------------ MODULE AgentProcessesExits ------------------------
(* Proofs about AgentProcesses, part 1: the types of its variables, who holds the *)
(* sandbox mutex, and children, pids and the exits of processes.                  *)
EXTENDS AgentProcesses, TLAPS

USE ProcessAssumption
-----------------------------------------------------------------------------
(* Types *)

\* The record of a request that is not there is well typed.
LEMMA IdleType == Idle \in Request
  BY Zenon DEF Idle, Request, Steps, Eid

\* The fields of a request.
LEMMA ReqType ==
  ASSUME TypeOK, NEW r \in Req
  PROVE  /\ req[r] \in Request
         /\ req[r].p \in Pid \cup {NoPid} /\ req[r].q \in Pid \cup {NoPid}
         /\ req[r].c \in Cid \cup {NoCid} /\ req[r].e \in Eid /\ req[r].pids \subseteq Pid
<1>1. req[r] \in Request
  BY Zenon DEF TypeOK
<1> QED
  BY Zenon, <1>1 DEF Request

\* A request that goes on after its hook is well typed.
LEMMA AfterType ==
  ASSUME NEW rec \in Request, NEW next \in Steps
  PROVE  After(rec, next) \in Request
<1>1. [rec EXCEPT !.pc = "hook", !.then = next] \in Request
  BY ZenonT(60) DEF Request, Steps
<1>2. [rec EXCEPT !.pc = next] \in Request
  BY Zenon DEF Request
<1> QED
  BY Zenon, <1>1, <1>2 DEF After

\* So is one that goes on with the pids it has read, or with its hook.
LEMMA MovesType ==
  ASSUME NEW rec \in Request, NEW x \in Steps
  PROVE  /\ \A S \in SUBSET Pid : [rec EXCEPT !.pc = x, !.pids = S] \in Request
         /\ \A q \in Pid \cup {NoPid} : [rec EXCEPT !.pc = x, !.q = q] \in Request
         /\ [rec EXCEPT !.pc = x, !.then = "idle", !.q = NoPid] \in Request
<1>1. ASSUME NEW S \in SUBSET Pid
      PROVE  [rec EXCEPT !.pc = x, !.pids = S] \in Request
  BY Zenon DEF Request
<1>2. ASSUME NEW q \in Pid \cup {NoPid}
      PROVE  [rec EXCEPT !.pc = x, !.q = q] \in Request
  BY Zenon DEF Request
<1>3. "idle" \in Steps
  BY Zenon DEF Steps
<1>4. [rec EXCEPT !.pc = x, !.then = "idle", !.q = NoPid] \in Request
  BY Zenon, <1>3 DEF Request
<1> QED
  BY Zenon, <1>1, <1>2, <1>4

\* So is one whose channel has been told something.
LEMMA ChanType ==
  ASSUME NEW rec \in Request, NEW x \in {"none", "up", "open", "closed", "unset", "code", "woken"}
  PROVE  [rec EXCEPT !.chan = x] \in Request
  BY Zenon DEF Request

\* notify_waiters only changes channels.
LEMMA WokenType ==
  ASSUME NEW R \in [Req -> Request], NEW p
  PROVE  Woken(R, p) \in [Req -> Request]
<1>1. \A s \in Req : [R[s] EXCEPT !.chan = "woken"] \in Request
  BY Zenon, ChanType
<1> QED
  BY Zenon, <1>1 DEF Woken

\* Dropping a container only closes channels.
LEMMA DropType ==
  ASSUME NEW R \in [Req -> Request], NEW c, DropContainer(R, c)
  PROVE  req' \in [Req -> Request]
<1>1. \A s \in Req : [R[s] EXCEPT !.chan = "closed"] \in Request
  BY Zenon, ChanType
<1> QED
  BY Zenon, <1>1 DEF DropContainer

\* What Kill leaves of the kernel's state is well typed.
LEMMA KillType ==
  ASSUME TypeOK, NEW S, NEW K, Kill(S, K)
  PROVE  /\ killed' \in [Pid -> BOOLEAN] /\ heir' \in [Pid -> BOOLEAN]
         /\ home' \in [Pid -> Cid \cup {NoCid}] /\ proc' = proc
  BY Zenon DEF Kill, TypeOK

\* Every step keeps the types.
LEMMA TypeStep ==
  ASSUME TypeOK, [Next]_vars
  PROVE  TypeOK'
<1>1. ASSUME NEW r \in Req, CreateOk(r)
      PROVE  TypeOK'
  <2>1. Idle \in Request
    BY Zenon, IdleType
  <2>2. req' \in [Req -> Request]
    BY Zenon, <1>1, <2>1, TypeOK DEF CreateOk, Done, TypeOK
  <2>3. table' \in [Cid -> [Eid -> Pid \cup {NoPid}]]
    BY Zenon, <1>1, ReqType, TypeOK DEF CreateOk, TypeOK, Eid
  <2> QED
    BY Zenon, <1>1, <2>2, <2>3, TypeOK DEF CreateOk, TypeOK, kernel, hand, CtrState, ProcState
<1>2. ASSUME NEW r \in Req, CreateFail(r)
      PROVE  TypeOK'
  <2>1. req[r] \in Request
    BY Zenon, TypeOK DEF TypeOK
  <2>2. After(req[r], "undone") \in Request
    BY Zenon, <2>1, AfterType DEF Steps
  <2>3. req' \in [Req -> Request]
    BY Zenon, <1>2, <2>1, <2>2, TypeOK DEF CreateFail, Go, TypeOK
  <2> QED
    BY Zenon, <1>2, <2>3, TypeOK DEF CreateFail, Kill, Alive, TypeOK, kernel, hand, CtrState, ProcState
<1>3. ASSUME NEW r \in Req, CreateUndone(r)
      PROVE  TypeOK'
  <2>1. Idle \in Request
    BY Zenon, IdleType
  <2>2. req' \in [Req -> Request]
    BY Zenon, <1>3, <2>1, TypeOK DEF CreateUndone, Done, TypeOK
  <2> QED
    BY Zenon, <1>3, <2>2, TypeOK DEF CreateUndone, TypeOK, kernel, hand, CtrState, ProcState
<1>4. ASSUME NEW r \in Req, ExecOk(r)
      PROVE  TypeOK'
  <2>1. Idle \in Request
    BY Zenon, IdleType
  <2>2. req' \in [Req -> Request]
    BY Zenon, <1>4, <2>1, TypeOK DEF ExecOk, Done, TypeOK
  <2>3. table' \in [Cid -> [Eid -> Pid \cup {NoPid}]]
    BY Zenon, <1>4, ReqType, TypeOK DEF ExecOk, TypeOK, Eid
  <2> QED
    BY Zenon, <1>4, <2>2, <2>3, TypeOK DEF ExecOk, TypeOK, kernel, hand, CtrState, ProcState
<1>5. ASSUME NEW r \in Req, ExecFail(r)
      PROVE  TypeOK'
  <2>1. Idle \in Request
    BY Zenon, IdleType
  <2>2. req' \in [Req -> Request]
    BY Zenon, <1>5, <2>1, TypeOK DEF ExecFail, Done, TypeOK
  <2> QED
    BY Zenon, <1>5, <2>2, TypeOK DEF ExecFail, Kill, Alive, TypeOK, kernel, hand, CtrState, ProcState
<1>6. ASSUME NEW r \in Req, StartOpen(r)
      PROVE  TypeOK'
  <2>1. req[r] \in Request
    BY Zenon, TypeOK DEF TypeOK
  <2>2. After(req[r], "started") \in Request
    BY Zenon, <2>1, AfterType DEF Steps
  <2>3. req' \in [Req -> Request]
    BY Zenon, <1>6, <2>1, <2>2, TypeOK DEF StartOpen, Go, TypeOK
  <2> QED
    BY Zenon, <1>6, <2>3, TypeOK DEF StartOpen, TypeOK, kernel, hand, CtrState, ProcState
<1>7. ASSUME NEW r \in Req, StartEnd(r)
      PROVE  TypeOK'
  <2>1. Idle \in Request
    BY Zenon, IdleType
  <2>2. req' \in [Req -> Request]
    BY Zenon, <1>7, <2>1, TypeOK DEF StartEnd, Done, TypeOK
  <2> QED
    BY Zenon, <1>7, <2>2, TypeOK DEF StartEnd, TypeOK, kernel, hand, CtrState, ProcState
<1>8. ASSUME NEW r \in Req, SignalFreeze(r)
      PROVE  TypeOK'
  <2>1. [req[r] EXCEPT !.pc = "pids"] \in Request
    BY ReqType, TypeOK DEF Request, Steps
  <2>2. req' \in [Req -> Request]
    BY Zenon, <1>8, <2>1, TypeOK DEF SignalFreeze, TypeOK
  <2> QED
    BY Zenon, <1>8, <2>2, TypeOK DEF SignalFreeze, TypeOK, kernel, hand, CtrState, ProcState
<1>9. ASSUME NEW r \in Req, SignalPids(r)
      PROVE  TypeOK'
  <2>1. Idle \in Request
    BY Zenon, IdleType
  <2>2. [req[r] EXCEPT !.pc = "kill", !.pids = In(req[r].c)] \in Request
    <3>1. In(req[r].c) \in SUBSET Pid /\ "kill" \in Steps
      BY Zenon DEF In, Steps
    <3> QED
      BY Zenon, <3>1, ReqType, TypeOK, MovesType
  <2>3. req' \in [Req -> Request]
    BY Zenon, <1>9, <2>1, <2>2, TypeOK DEF SignalPids, Done, TypeOK
  <2> QED
    BY Zenon, <1>9, <2>3, TypeOK DEF SignalPids, In, Writer, Alive, TypeOK, kernel, hand,
       CtrState, ProcState
<1>10. ASSUME NEW r \in Req, SignalKill(r)
      PROVE  TypeOK'
  <2>1. [req[r] EXCEPT !.pc = "thaw", !.pids = {}] \in Request
    <3>1. {} \in SUBSET Pid /\ "thaw" \in Steps
      BY Zenon DEF Steps
    <3> QED
      BY Zenon, <3>1, ReqType, TypeOK, MovesType
  <2>2. req' \in [Req -> Request]
    BY Zenon, <1>10, <2>1, TypeOK DEF SignalKill, TypeOK
  <2>3. kernel' = kernel \/ Kill(req[r].pids, req[r].pids)
    BY Zenon, <1>10, TypeOK DEF SignalKill
  <2>4. killed' \in [Pid -> BOOLEAN] /\ heir' \in [Pid -> BOOLEAN] /\ home' \in [Pid -> Cid \cup {NoCid}] /\ proc' \in [Pid -> ProcState]
    BY Zenon, <1>10, <2>3, KillType, TypeOK DEF TypeOK, kernel
  <2> QED
    BY Zenon, <1>10, <2>2, <2>3, <2>4, TypeOK DEF SignalKill, TypeOK, kernel, hand, CtrState, ProcState
<1>11. ASSUME NEW r \in Req, SignalThaw(r)
      PROVE  TypeOK'
  <2>1. Idle \in Request
    BY Zenon, IdleType
  <2>2. req' \in [Req -> Request]
    BY Zenon, <1>11, <2>1, TypeOK DEF SignalThaw, Done, TypeOK
  <2> QED
    BY Zenon, <1>11, <2>2, TypeOK DEF SignalThaw, TypeOK, kernel, hand, CtrState, ProcState
<1>12. ASSUME NEW r \in Req, WaitSignalled(r)
      PROVE  TypeOK'
  <2>1. [req[r] EXCEPT !.pc = "look"] \in Request
    BY ReqType, TypeOK DEF Request, Steps
  <2>2. req' \in [Req -> Request]
    BY Zenon, <1>12, <2>1, TypeOK DEF WaitSignalled, TypeOK
  <2> QED
    BY Zenon, <1>12, <2>2, TypeOK DEF WaitSignalled, TypeOK, kernel, hand, CtrState, ProcState
<1>13. ASSUME NEW r \in Req, WaitWon(r)
      PROVE  TypeOK'
  <2>1. \A s \in Req : [req[s] EXCEPT !.chan = Value(req[r].p)] \in Request
    BY Zenon, TypeOK, ChanType DEF TypeOK, Value
  <2> DEFINE told == [s \in Req |->
                     IF s = r THEN Idle
                     ELSE IF req[s].p = req[r].p /\ req[s].chan = "open"
                          THEN [req[s] EXCEPT !.chan = Value(req[r].p)] ELSE req[s]]
  <2>2. told \in [Req -> Request]
    BY Zenon, <2>1, TypeOK, IdleType DEF TypeOK
  <2>3. Woken(told, req[r].p) \in [Req -> Request]
    BY Zenon, <2>2, WokenType
  <2> HIDE DEF told
  <2>4. req' \in [Req -> Request]
    BY Zenon, <1>13, <2>1, <2>2, <2>3, TypeOK DEF WaitWon, told, TypeOK
  <2>5. table' \in [Cid -> [Eid -> Pid \cup {NoPid}]]
    BY ZenonT(60), <1>13, TypeOK DEF WaitWon, TypeOK
  <2> QED
    BY Zenon, <1>13, <2>4, <2>5, TypeOK DEF WaitWon, Value, TypeOK, kernel, hand, CtrState, ProcState
<1>14. ASSUME NEW r \in Req, WaitLost(r)
      PROVE  TypeOK'
  <2>1. Idle \in Request
    BY Zenon, IdleType
  <2>2. req' \in [Req -> Request]
    BY Zenon, <1>14, <2>1, TypeOK DEF WaitLost, Done, TypeOK
  <2> QED
    BY Zenon, <1>14, <2>2, TypeOK DEF WaitLost, TypeOK, kernel, hand, CtrState, ProcState
<1>15. ASSUME NEW r \in Req, ReadSelect(r)
      PROVE  TypeOK'
  <2>1. [req[r] EXCEPT !.pc = "read"] \in Request
    BY ReqType, TypeOK DEF Request, Steps
  <2>2. req' \in [Req -> Request]
    BY Zenon, <1>15, <2>1, TypeOK DEF ReadSelect, TypeOK
  <2> QED
    BY Zenon, <1>15, <2>2, TypeOK DEF ReadSelect, TypeOK, kernel, hand, CtrState, ProcState
<1>16. ASSUME NEW r \in Req, ReadEnd(r)
      PROVE  TypeOK'
  <2>1. Idle \in Request
    BY Zenon, IdleType
  <2>2. req' \in [Req -> Request]
    BY Zenon, <1>16, <2>1, TypeOK DEF ReadEnd, Done, TypeOK
  <2> QED
    BY Zenon, <1>16, <2>2, TypeOK DEF ReadEnd, TypeOK, kernel, hand, CtrState, ProcState
<1>17. ASSUME NEW r \in Req, RemoveDestroy(r)
      PROVE  TypeOK'
  <2>1. [req[r] EXCEPT !.pc = "resources"] \in Request
    BY ReqType, TypeOK DEF Request, Steps
  <2>2. Idle \in Request
    BY Zenon, IdleType
  <2>3. [req EXCEPT ![r] = Idle] \in [Req -> Request]
    BY Zenon, IdleType, TypeOK DEF TypeOK
  <2>4. \A R \in [Req -> Request] : \A d : DropContainer(R, d) => req' \in [Req -> Request]
    BY Zenon, DropType
  <2>5. req' \in [Req -> Request]
    BY Zenon, <1>17, <2>1, <2>2, <2>3, <2>4, TypeOK DEF RemoveDestroy, Done, TypeOK
  <2>6. killed' \in [Pid -> BOOLEAN] /\ heir' \in [Pid -> BOOLEAN] /\ home' \in [Pid -> Cid \cup {NoCid}] /\ proc' = proc
    BY ZenonT(60), <1>17, TypeOK DEF RemoveDestroy, Kill, TypeOK, kernel
  <2>7. ctr' \in [Cid -> CtrState] /\ frozen' \in [Cid -> BOOLEAN] /\ exit' \in [Pid -> BOOLEAN]
    BY ZenonT(60), <1>17, TypeOK DEF RemoveDestroy, DropContainer, TypeOK, CtrState
  <2>8. table' \in [Cid -> [Eid -> Pid \cup {NoPid}]]
    BY <1>17, TypeOK DEF RemoveDestroy, DropContainer, TypeOK
  <2> QED
    BY Zenon, <1>17, <2>5, <2>6, <2>7, <2>8, TypeOK DEF RemoveDestroy, Kill, In, DropContainer,
       Alive, TypeOK, kernel, hand, CtrState, ProcState
<1>18. ASSUME NEW r \in Req, RemoveResources(r)
      PROVE  TypeOK'
  <2>1. Idle \in Request
    BY Zenon, IdleType
  <2>2. [req EXCEPT ![r] = Idle] \in [Req -> Request]
    BY Zenon, IdleType, TypeOK DEF TypeOK
  <2>3. \A R \in [Req -> Request] : \A d : DropContainer(R, d) => req' \in [Req -> Request]
    BY Zenon, DropType
  <2>4. req' \in [Req -> Request]
    BY Zenon, <1>18, <2>1, <2>2, <2>3, TypeOK DEF RemoveResources, TypeOK
  <2> QED
    BY Zenon, <1>18, <2>4, TypeOK DEF RemoveResources, DropContainer, TypeOK, kernel, hand,
       CtrState, ProcState
<1>19. ASSUME NEW r \in Req, HookEnd(r)
      PROVE  TypeOK'
  <2>1. [req[r] EXCEPT !.pc = req[r].then, !.then = "idle", !.q = NoPid] \in Request
    <3>1. req[r] \in Request /\ req[r].then \in Steps
      BY Zenon, TypeOK, ReqType DEF Request
    <3> QED
      BY Zenon, <3>1, MovesType
  <2>2. req' \in [Req -> Request]
    BY Zenon, <1>19, <2>1, TypeOK DEF HookEnd, TypeOK
  <2> QED
    BY Zenon, <1>19, <2>2, TypeOK DEF HookEnd, TypeOK, kernel, hand, CtrState, ProcState
<1>20. ASSUME NEW r \in Req, NEW p \in Pid, HookSpawn(r, p)
      PROVE  TypeOK'
  <2>1. [req[r] EXCEPT !.pc = "hookwait", !.q = p] \in Request
    <3>1. "hookwait" \in Steps
      BY Zenon DEF Steps
    <3> QED
      BY Zenon, <3>1, ReqType, TypeOK, MovesType
  <2>2. req' \in [Req -> Request]
    BY Zenon, <1>20, <2>1, TypeOK DEF HookSpawn, TypeOK
  <2> QED
    BY Zenon, <1>20, <2>2, TypeOK DEF HookSpawn, Spawn, TypeOK, kernel, hand, CtrState, ProcState
<1>21. ASSUME NEW r \in Req, NEW c \in Cid, NEW p \in Pid, CreateBegin(r, c, p)
      PROVE  TypeOK'
  <2>1. [Idle EXCEPT !.c = c, !.p = p] \in Request
    BY Zenon, TypeOK, IdleType DEF TypeOK, Request
  <2>2. After([Idle EXCEPT !.c = c, !.p = p], "made") \in Request
    BY Zenon, <2>1, AfterType DEF Steps
  <2>3. req' \in [Req -> Request]
    BY Zenon, <1>21, <2>1, <2>2, TypeOK DEF CreateBegin, TypeOK
  <2> QED
    BY Zenon, <1>21, <2>3, TypeOK DEF CreateBegin, Spawn, TypeOK, kernel, hand, CtrState, ProcState
<1>22. ASSUME NEW r \in Req, NEW c \in Cid, NEW e \in Exec, NEW p \in Pid, ExecBegin(r, c, e, p)
      PROVE  TypeOK'
  <2>1. [Idle EXCEPT !.pc = "exec", !.c = c, !.e = e, !.p = p] \in Request
    BY Zenon, IdleType DEF Request, Steps, Eid
  <2>2. req' \in [Req -> Request]
    BY Zenon, <1>22, <2>1, TypeOK DEF ExecBegin, TypeOK
  <2> QED
    BY Zenon, <1>22, <2>2, TypeOK DEF ExecBegin, Spawn, TypeOK, kernel, hand, CtrState, ProcState
<1>23. ASSUME NEW r \in Req, NEW c \in Cid, StartBegin(r, c)
      PROVE  TypeOK'
  <2>1. [Idle EXCEPT !.pc = "open", !.c = c] \in Request
    BY Zenon, IdleType DEF Request, Steps
  <2>2. req' \in [Req -> Request]
    BY Zenon, <1>23, <2>1, TypeOK DEF StartBegin, TypeOK
  <2> QED
    BY Zenon, <1>23, <2>2, TypeOK DEF StartBegin, TypeOK, kernel, hand, CtrState, ProcState
<1>24. ASSUME NEW r \in Req, NEW c \in Cid, RemoveBegin(r, c)
      PROVE  TypeOK'
  <2>1. [Idle EXCEPT !.c = c] \in Request
    BY Zenon, TypeOK, IdleType DEF TypeOK, Request
  <2>2. After([Idle EXCEPT !.c = c], "destroy") \in Request
    BY Zenon, <2>1, AfterType DEF Steps
  <2>3. req' \in [Req -> Request]
    BY Zenon, <1>24, <2>1, <2>2, TypeOK DEF RemoveBegin, TypeOK
  <2> QED
    BY Zenon, <1>24, <2>3, TypeOK DEF RemoveBegin, Kill, Alive, Entries, TypeOK, kernel, hand,
       CtrState, ProcState
<1>25. ASSUME NEW r \in Req, NEW c \in Cid, NEW e \in Eid, WaitBegin(r, c, e)
      PROVE  TypeOK'
  <2>1. table[c][e] \in Pid \cup {NoPid}
    BY TypeOK DEF TypeOK
  <2>2. [Idle EXCEPT !.pc = "wait", !.c = c, !.p = table[c][e], !.chan = "open"] \in Request
    BY Zenon, <2>1, IdleType DEF Request, Steps
  <2>3. req' \in [Req -> Request]
    BY Zenon, <1>25, <2>1, <2>2, TypeOK DEF WaitBegin, TypeOK
  <2> QED
    BY Zenon, <1>25, <2>3, TypeOK DEF WaitBegin, TypeOK, kernel, hand, CtrState, ProcState
<1>26. ASSUME NEW r \in Req, NEW c \in Cid, NEW e \in Eid, ReadBegin(r, c, e)
      PROVE  TypeOK'
  <2>1. table[c][e] \in Pid \cup {NoPid}
    BY TypeOK DEF TypeOK
  <2>2. [Idle EXCEPT !.pc = "read0", !.c = c, !.p = table[c][e]] \in Request
    BY Zenon, <2>1, IdleType DEF Request, Steps
  <2>3. req' \in [Req -> Request]
    BY Zenon, <1>26, <2>1, <2>2, TypeOK DEF ReadBegin, TypeOK
  <2> QED
    BY Zenon, <1>26, <2>3, TypeOK DEF ReadBegin, TypeOK, kernel, hand, CtrState, ProcState
<1>27. ASSUME NEW r \in Req, NEW c \in Cid, NEW e \in Eid, NEW k \in BOOLEAN, SignalBegin(r, c, e, k)
      PROVE  TypeOK'
  <2>1. Idle \in Request
    BY Zenon, IdleType
  <2>2. [Idle EXCEPT !.pc = "freeze", !.c = c, !.k = k] \in Request
    BY Zenon, IdleType DEF Request, Steps
  <2>3. req' \in [Req -> Request]
    BY Zenon, <1>27, <2>1, <2>2, TypeOK DEF SignalBegin, Done, TypeOK
  <2> QED
    BY Zenon, <1>27, <2>3, TypeOK DEF SignalBegin, Kill, Alive, TypeOK, kernel, hand, CtrState,
       ProcState
<1>28. ASSUME NEW c \in Cid, Pause(c)
      PROVE  TypeOK'
  BY Zenon, <1>28, TypeOK DEF Pause, kernel, hand, TypeOK, CtrState, ProcState
<1>29. ASSUME NEW c \in Cid, Resume(c)
      PROVE  TypeOK'
  BY Zenon, <1>29, TypeOK DEF Resume, kernel, hand, TypeOK, CtrState, ProcState
<1>30. ASSUME HandlerRecv
      PROVE  TypeOK'
  BY Zenon, <1>30, TypeOK DEF HandlerRecv, kernel, hand, TypeOK, CtrState, ProcState
<1>31. ASSUME NEW p \in Pid, HandlerReap(p)
      PROVE  TypeOK'
  BY Zenon, <1>31, TypeOK DEF HandlerReap, kernel, hand, TypeOK, CtrState, ProcState
<1>32. ASSUME HandlerEnd
      PROVE  TypeOK'
  BY Zenon, <1>32, TypeOK DEF HandlerEnd, kernel, hand, TypeOK, CtrState, ProcState
<1>33. ASSUME HandlerFind
      PROVE  TypeOK'
  <2>1. Woken(req, hpid) \in [Req -> Request]
    BY Zenon, TypeOK, WokenType DEF TypeOK
  <2>2. req' \in [Req -> Request]
    BY Zenon, <1>33, <2>1, TypeOK DEF HandlerFind, Tell, TypeOK
  <2> QED
    BY Zenon, <1>33, <2>2, TypeOK DEF HandlerFind, Tell, TypeOK, kernel, hand, CtrState, ProcState
<1>34. ASSUME HandlerDrained
      PROVE  TypeOK'
  <2>1. Woken(req, hpid) \in [Req -> Request]
    BY Zenon, TypeOK, WokenType DEF TypeOK
  <2>2. req' \in [Req -> Request]
    BY Zenon, <1>34, <2>1, TypeOK DEF HandlerDrained, Tell, TypeOK
  <2> QED
    BY Zenon, <1>34, <2>2, TypeOK DEF HandlerDrained, Tell, TypeOK, kernel, hand, CtrState, ProcState
<1>35. ASSUME NEW p \in Pid, ChildReady(p)
      PROVE  TypeOK'
  <2>1. \A s \in Req : [req[s] EXCEPT !.chan = "up"] \in Request
    BY Zenon, TypeOK, ChanType DEF TypeOK
  <2>2. req' \in [Req -> Request]
    BY <1>35, <2>1, TypeOK DEF ChildReady, TypeOK
  <2> QED
    BY Zenon, <1>35, <2>2, TypeOK DEF ChildReady, TypeOK, kernel, hand, CtrState, ProcState
<1>36. ASSUME NEW p \in Pid, ChildOpens(p)
      PROVE  TypeOK'
  BY Zenon, <1>36, TypeOK DEF ChildOpens, kernel, hand, TypeOK, CtrState, ProcState
<1>37. ASSUME NEW p \in Pid, Exit(p)
      PROVE  TypeOK'
  BY Zenon, <1>37, TypeOK DEF Exit, Alive, kernel, hand, TypeOK, CtrState, ProcState
<1>38. ASSUME NEW p \in Pid, HeirExit(p)
      PROVE  TypeOK'
  BY Zenon, <1>38, TypeOK DEF HeirExit, kernel, hand, TypeOK, CtrState, ProcState
<1>39. ASSUME UNCHANGED vars
      PROVE  TypeOK'
  BY Zenon, <1>39, TypeOK DEF vars, kernel, hand, TypeOK, CtrState, ProcState
<1> QED
  BY ZenonT(60), <1>1, <1>2, <1>3, <1>4, <1>5, <1>6, <1>7, <1>8, <1>9, <1>10, <1>11, <1>12, <1>13,
     <1>14, <1>15, <1>16, <1>17, <1>18, <1>19, <1>20, <1>21, <1>22, <1>23, <1>24, <1>25,
     <1>26, <1>27, <1>28, <1>29, <1>30, <1>31, <1>32, <1>33, <1>34, <1>35, <1>36, <1>37,
     <1>38, <1>39
  DEF Next, Begin, Locking, Running, Fail, Handle, Eid
-----------------------------------------------------------------------------
(* The sandbox mutex *)

\* What the steps below need of TypeOK, without the rest of it.
LEMMA HandType ==
  ASSUME TypeOK
  PROVE  /\ req \in [Req -> Request]
         /\ hpc \in {"idle", "loop", "reaped", "drain"} /\ hpid \in Pid \cup {NoPid}
  BY Zenon DEF TypeOK

\* Every step keeps LockInv.
LEMMA LockStep ==
  ASSUME TypeOK, LockInv, [Next]_vars
  PROVE  LockInv'
<1>1. ASSUME NEW r \in Req, CreateOk(r)
      PROVE  LockInv'
  BY Zenon, <1>1, HandType, LockInv DEF CreateOk, Done, kernel, hand, LockInv, Holds, Request, Idle
<1>2. ASSUME NEW r \in Req, CreateFail(r)
      PROVE  LockInv'
  BY <1>2, HandType, LockInv DEF CreateFail, Go, After, kernel, hand, LockInv, Holds,
     Request, Idle
<1>3. ASSUME NEW r \in Req, CreateUndone(r)
      PROVE  LockInv'
  BY Zenon, <1>3, HandType, LockInv DEF CreateUndone, Done, kernel, hand, LockInv, Holds, Request, Idle
<1>4. ASSUME NEW r \in Req, ExecOk(r)
      PROVE  LockInv'
  BY Zenon, <1>4, HandType, LockInv DEF ExecOk, Done, kernel, hand, LockInv, Holds, Request, Idle
<1>5. ASSUME NEW r \in Req, ExecFail(r)
      PROVE  LockInv'
  BY Zenon, <1>5, HandType, LockInv DEF ExecFail, Done, kernel, hand, LockInv, Holds, Request, Idle
<1>6. ASSUME NEW r \in Req, StartOpen(r)
      PROVE  LockInv'
  BY <1>6, HandType, LockInv DEF StartOpen, Go, After, kernel, hand, LockInv, Holds,
     Request, Idle
<1>7. ASSUME NEW r \in Req, StartEnd(r)
      PROVE  LockInv'
  BY Zenon, <1>7, HandType, LockInv DEF StartEnd, Done, kernel, hand, LockInv, Holds, Request, Idle
<1>8. ASSUME NEW r \in Req, SignalFreeze(r)
      PROVE  LockInv'
  BY <1>8, HandType, LockInv DEF SignalFreeze, kernel, hand, LockInv, Holds, Request, Idle
<1>9. ASSUME NEW r \in Req, SignalPids(r)
      PROVE  LockInv'
  BY <1>9, HandType, LockInv DEF SignalPids, Done, kernel, hand, LockInv, Holds, Request, Idle
<1>10. ASSUME NEW r \in Req, SignalKill(r)
      PROVE  LockInv'
  BY <1>10, HandType, LockInv DEF SignalKill, kernel, hand, LockInv, Holds, Request, Idle
<1>11. ASSUME NEW r \in Req, SignalThaw(r)
      PROVE  LockInv'
  BY Zenon, <1>11, HandType, LockInv DEF SignalThaw, Done, kernel, hand, LockInv, Holds, Request, Idle
<1>12. ASSUME NEW r \in Req, WaitSignalled(r)
      PROVE  LockInv'
  BY SMTT(30), <1>12, HandType, LockInv DEF WaitSignalled, kernel, hand, LockInv, Holds, Request, Idle
<1>13. ASSUME NEW r \in Req, WaitWon(r)
      PROVE  LockInv'
  BY <1>13, HandType, LockInv DEF WaitWon, Woken, kernel, hand, LockInv, Holds, Request, Idle
<1>14. ASSUME NEW r \in Req, WaitLost(r)
      PROVE  LockInv'
  BY Zenon, <1>14, HandType, LockInv DEF WaitLost, Done, kernel, hand, LockInv, Holds, Request, Idle
<1>15. ASSUME NEW r \in Req, ReadSelect(r)
      PROVE  LockInv'
  BY <1>15, HandType, LockInv DEF ReadSelect, kernel, hand, LockInv, Holds, Request, Idle
<1>16. ASSUME NEW r \in Req, ReadEnd(r)
      PROVE  LockInv'
  BY Zenon, <1>16, HandType, LockInv DEF ReadEnd, Done, kernel, hand, LockInv, Holds, Request, Idle
<1>17. ASSUME NEW r \in Req, RemoveDestroy(r)
      PROVE  LockInv'
  BY SMTT(30), <1>17, HandType, LockInv DEF RemoveDestroy, Done, DropContainer, kernel, hand, LockInv,
     Holds, Request, Idle
<1>18. ASSUME NEW r \in Req, RemoveResources(r)
      PROVE  LockInv'
  BY <1>18, HandType, LockInv DEF RemoveResources, DropContainer, kernel, hand, LockInv,
     Holds, Request, Idle
<1>19. ASSUME NEW r \in Req, HookEnd(r)
      PROVE  LockInv'
  BY <1>19, HandType, LockInv DEF HookEnd, kernel, hand, LockInv, Holds, Request, Idle
<1>20. ASSUME NEW r \in Req, NEW p \in Pid, HookSpawn(r, p)
      PROVE  LockInv'
  BY <1>20, HandType, LockInv DEF HookSpawn, kernel, hand, LockInv, Holds, Request, Idle
<1>21. ASSUME NEW r \in Req, NEW c \in Cid, NEW p \in Pid, CreateBegin(r, c, p)
      PROVE  LockInv'
  BY Zenon, <1>21, HandType, LockInv DEF CreateBegin, After, kernel, hand, LockInv, Holds, Request,
     Idle
<1>22. ASSUME NEW r \in Req, NEW c \in Cid, NEW e \in Exec, NEW p \in Pid, ExecBegin(r, c, e, p)
      PROVE  LockInv'
  BY ZenonT(60), <1>22, HandType, LockInv DEF ExecBegin, kernel, hand, LockInv, Holds, Request, Idle
<1>23. ASSUME NEW r \in Req, NEW c \in Cid, StartBegin(r, c)
      PROVE  LockInv'
  BY Zenon, <1>23, HandType, LockInv DEF StartBegin, kernel, hand, LockInv, Holds, Request, Idle
<1>24. ASSUME NEW r \in Req, NEW c \in Cid, RemoveBegin(r, c)
      PROVE  LockInv'
  BY Zenon, <1>24, HandType, LockInv DEF RemoveBegin, After, kernel, hand, LockInv, Holds, Request,
     Idle
<1>25. ASSUME NEW r \in Req, NEW c \in Cid, NEW e \in Eid, WaitBegin(r, c, e)
      PROVE  LockInv'
  BY <1>25, HandType, LockInv DEF WaitBegin, kernel, hand, LockInv, Holds, Request, Idle
<1>26. ASSUME NEW r \in Req, NEW c \in Cid, NEW e \in Eid, ReadBegin(r, c, e)
      PROVE  LockInv'
  BY <1>26, HandType, LockInv DEF ReadBegin, kernel, hand, LockInv, Holds, Request, Idle
<1>27. ASSUME NEW r \in Req, NEW c \in Cid, NEW e \in Eid, NEW k \in BOOLEAN, SignalBegin(r, c, e, k)
      PROVE  LockInv'
  <2>1. /\ \A s \in Req \ {r} : req'[s] = req[s]
        /\ req'[r].pc \in {"idle", "freeze"} /\ req'[r].p = NoPid
    <3>1. CASE e = InitE
      <4>1. req' = [req EXCEPT ![r] = [Idle EXCEPT !.pc = "freeze", !.c = c, !.k = k]]
        BY Zenon, <1>27, <3>1 DEF SignalBegin
      <4> QED
        BY Zenon, <4>1, HandType DEF Idle
    <3>2. CASE e # InitE
      BY <1>27, <3>2, HandType DEF SignalBegin, Done, Idle
    <3> QED
      BY Zenon, <3>1, <3>2
  <2>2. lock' = lock /\ hpc' = hpc /\ hpid' = hpid
    BY Zenon, <1>27 DEF SignalBegin, hand
  <2> QED
    BY Zenon, <2>1, <2>2, LockInv DEF LockInv, Holds
<1>28. ASSUME NEW c \in Cid, Pause(c)
      PROVE  LockInv'
  BY Zenon, <1>28, HandType, LockInv DEF Pause, kernel, hand, LockInv, Holds, Request, Idle
<1>29. ASSUME NEW c \in Cid, Resume(c)
      PROVE  LockInv'
  BY Zenon, <1>29, HandType, LockInv DEF Resume, kernel, hand, LockInv, Holds, Request, Idle
<1>30. ASSUME HandlerRecv
      PROVE  LockInv'
  BY Zenon, <1>30, HandType, LockInv DEF HandlerRecv, kernel, hand, LockInv, Holds, Request, Idle
<1>31. ASSUME NEW p \in Pid, HandlerReap(p)
      PROVE  LockInv'
  BY Zenon, <1>31, HandType, LockInv DEF HandlerReap, kernel, hand, LockInv, Holds, Request, Idle
<1>32. ASSUME HandlerEnd
      PROVE  LockInv'
  BY Zenon, <1>32, HandType, LockInv DEF HandlerEnd, kernel, hand, LockInv, Holds, Request, Idle
<1>33. ASSUME HandlerFind
      PROVE  LockInv'
  BY <1>33, HandType, LockInv DEF HandlerFind, Tell, Woken, kernel, hand, LockInv, Holds,
     Request, Idle
<1>34. ASSUME HandlerDrained
      PROVE  LockInv'
  BY <1>34, HandType, LockInv DEF HandlerDrained, Tell, Woken, kernel, hand, LockInv, Holds,
     Request, Idle
<1>35. ASSUME NEW p \in Pid, ChildReady(p)
      PROVE  LockInv'
  BY <1>35, HandType, LockInv DEF ChildReady, kernel, hand, LockInv, Holds, Request, Idle
<1>36. ASSUME NEW p \in Pid, ChildOpens(p)
      PROVE  LockInv'
  BY Zenon, <1>36, HandType, LockInv DEF ChildOpens, kernel, hand, LockInv, Holds, Request, Idle
<1>37. ASSUME NEW p \in Pid, Exit(p)
      PROVE  LockInv'
  BY Zenon, <1>37, HandType, LockInv DEF Exit, kernel, hand, LockInv, Holds, Request, Idle
<1>38. ASSUME NEW p \in Pid, HeirExit(p)
      PROVE  LockInv'
  BY Zenon, <1>38, HandType, LockInv DEF HeirExit, kernel, hand, LockInv, Holds, Request, Idle
<1>39. ASSUME UNCHANGED vars
      PROVE  LockInv'
  BY Zenon, <1>39, HandType, LockInv DEF vars, kernel, hand, LockInv, Holds, Request, Idle
<1> QED
  BY Zenon, <1>1, <1>2, <1>3, <1>4, <1>5, <1>6, <1>7, <1>8, <1>9, <1>10, <1>11, <1>12, <1>13,
     <1>14, <1>15, <1>16, <1>17, <1>18, <1>19, <1>20, <1>21, <1>22, <1>23, <1>24, <1>25,
     <1>26, <1>27, <1>28, <1>29, <1>30, <1>31, <1>32, <1>33, <1>34, <1>35, <1>36, <1>37,
     <1>38, <1>39
  DEF Next, Begin, Locking, Running, Fail, Handle, Eid
-----------------------------------------------------------------------------
(* Children and pids *)

\* A request that starts no child, and leaves the others' children and hooks alone.
LEMMA ChildFrame ==
  ASSUME ChildInv, HookInv, NEW r \in Req,
         \A s \in Req \ {r} : /\ req'[s].pc = req[s].pc /\ req'[s].then = req[s].then
                              /\ req'[s].p = req[s].p /\ req'[s].q = req[s].q,
         req'[r].pc \notin {"made", "exec", "hookwait"}, req'[r].pc = "hook" => req'[r].then # "made",
         req'[r].p \in {NoPid, req[r].p} \cup AllEntries,
         AllEntries' \subseteq AllEntries, hpid' = hpid,
         \A q \in Pid : proc'[q] = "free" => proc[q] = "free"
  PROVE  ChildInv' /\ HookInv'
<1>1. \A s \in Req : Child(s)' => s # r /\ Child(s)
  BY Zenon DEF Child
<1>2. ChildInv'
  BY <1>1 DEF ChildInv
<1>3. HookInv'
  BY DEF HookInv
<1> QED
  BY Zenon, <1>2, <1>3

\* The tables stay as they are.
LEMMA SlotSame ==
  ASSUME table' = table
  PROVE  AllEntries' = AllEntries /\ (SlotInv => SlotInv')
  BY DEF AllEntries, Entries, SlotInv

\* A signal ends no process by itself.
LEMMA KillKeepsProc ==
  ASSUME NEW S, NEW K, Kill(S, K)
  PROVE  proc' = proc
  BY Zenon DEF Kill

\* DropContainer leaves the requests where they are and closes the channels of its processes.
LEMMA DropFrame ==
  ASSUME TypeOK, NEW R \in [Req -> Request], NEW c \in Cid, DropContainer(R, c)
  PROVE  /\ \A s \in Req : /\ req'[s].pc = R[s].pc /\ req'[s].then = R[s].then
                           /\ req'[s].p = R[s].p /\ req'[s].q = R[s].q /\ req'[s].c = R[s].c
                           /\ \/ req'[s].chan = R[s].chan /\ (R[s].chan = "open" => R[s].p \notin Entries(c))
                              \/ req'[s].chan = "closed" /\ R[s].chan = "open"
<1>1. ASSUME NEW s \in Req
      PROVE  /\ req'[s].pc = R[s].pc /\ req'[s].then = R[s].then
             /\ req'[s].p = R[s].p /\ req'[s].q = R[s].q /\ req'[s].c = R[s].c
             /\ \/ req'[s].chan = R[s].chan /\ (R[s].chan = "open" => R[s].p \notin Entries(c))
                \/ req'[s].chan = "closed" /\ R[s].chan = "open"
  <2>1. R[s] \in Request
    BY Zenon
  <2>2. req' = [t \in Req |-> IF R[t].chan = "open" /\ R[t].p \in Entries(c)
                              THEN [R[t] EXCEPT !.chan = "closed"] ELSE R[t]]
    BY Zenon DEF DropContainer
  <2>3. CASE R[s].chan = "open" /\ R[s].p \in Entries(c)
    <3>1. req'[s] = [R[s] EXCEPT !.chan = "closed"]
      BY Zenon, <2>2, <2>3
    <3> QED
      BY Zenon, <2>1, <2>3, <3>1 DEF Request
  <2>4. CASE ~(R[s].chan = "open" /\ R[s].p \in Entries(c))
    BY Zenon, <2>2, <2>4
  <2> QED
    BY Zenon, <2>3, <2>4
<1> QED
  BY Zenon, <1>1

\* It empties the table of the container, and forgets the exits of its processes.
LEMMA DropTable ==
  ASSUME TypeOK, NEW R, NEW c \in Cid, DropContainer(R, c)
  PROVE  /\ \A d \in Cid, e \in Eid : table'[d][e] = IF d = c THEN NoPid ELSE table[d][e]
         /\ \A p \in Pid : exit'[p] = (exit[p] /\ p \notin Entries(c))
<1>1. \A d \in Cid, e \in Eid : table'[d][e] = IF d = c THEN NoPid ELSE table[d][e]
  BY Zenon DEF DropContainer, TypeOK
<1>2. \A p \in Pid : exit'[p] = (exit[p] /\ p \notin Entries(c))
  BY Zenon DEF DropContainer
<1> QED
  BY Zenon, <1>1, <1>2

\* Removing entries.
LEMMA FewerEntries ==
  ASSUME SlotInv, \A d \in Cid, e \in Eid : table'[d][e] \in {NoPid, table[d][e]}
  PROVE  SlotInv' /\ AllEntries' \subseteq AllEntries
<1>1. SlotInv'
  BY DEF SlotInv
<1>2. AllEntries' \subseteq AllEntries
  BY DEF AllEntries, Entries
<1> QED
  BY Zenon, <1>1, <1>2

\* So none of the container's processes is known afterwards.
LEMMA DropEntries ==
  ASSUME TypeOK, SlotInv, NEW c \in Cid,
         \A d \in Cid, e \in Eid : table'[d][e] = IF d = c THEN NoPid ELSE table[d][e]
  PROVE  AllEntries' \subseteq AllEntries \ Entries(c) /\ AllEntries \subseteq Pid
<1>1. AllEntries \subseteq Pid
  BY DEF AllEntries, Entries, TypeOK
<1>2. ASSUME NEW p \in AllEntries'
      PROVE  p \in AllEntries \ Entries(c)
  <2>1. PICK d \in Cid, e \in Eid : p = table'[d][e] /\ p # NoPid
    BY <1>2 DEF AllEntries, Entries
  <2>2. d # c /\ p = table[d][e]
    BY Zenon, <2>1
  <2> QED
    BY <2>1, <2>2, SlotInv DEF AllEntries, Entries, SlotInv
<1> QED
  BY Zenon, <1>1, <1>2

\* Every step keeps CtrInv.
LEMMA CtrStep ==
  ASSUME TypeOK, CtrInv, [Next]_vars
  PROVE  CtrInv'
<1>1. ASSUME NEW r \in Req, CreateOk(r)
      PROVE  CtrInv'
  BY Zenon, <1>1, HandType, CtrInv DEF CreateOk, Done, kernel, hand, CtrInv, Request, Idle
<1>2. ASSUME NEW r \in Req, CreateFail(r)
      PROVE  CtrInv'
  BY <1>2, HandType, CtrInv DEF CreateFail, Go, After, kernel, hand, CtrInv, Request, Idle
<1>3. ASSUME NEW r \in Req, CreateUndone(r)
      PROVE  CtrInv'
  BY Zenon, <1>3, HandType, CtrInv DEF CreateUndone, Done, kernel, hand, CtrInv, Request, Idle
<1>4. ASSUME NEW r \in Req, ExecOk(r)
      PROVE  CtrInv'
  BY Zenon, <1>4, HandType, CtrInv DEF ExecOk, Done, kernel, hand, CtrInv, Request, Idle
<1>5. ASSUME NEW r \in Req, ExecFail(r)
      PROVE  CtrInv'
  BY Zenon, <1>5, HandType, CtrInv DEF ExecFail, Done, kernel, hand, CtrInv, Request, Idle
<1>6. ASSUME NEW r \in Req, StartOpen(r)
      PROVE  CtrInv'
  BY <1>6, HandType, CtrInv DEF StartOpen, Go, After, kernel, hand, CtrInv, Request, Idle
<1>7. ASSUME NEW r \in Req, StartEnd(r)
      PROVE  CtrInv'
  BY Zenon, <1>7, HandType, CtrInv DEF StartEnd, Done, kernel, hand, CtrInv, Request, Idle
<1>8. ASSUME NEW r \in Req, SignalFreeze(r)
      PROVE  CtrInv'
  BY <1>8, HandType, CtrInv DEF SignalFreeze, kernel, hand, CtrInv, Request, Idle
<1>9. ASSUME NEW r \in Req, SignalPids(r)
      PROVE  CtrInv'
  BY <1>9, HandType, CtrInv DEF SignalPids, Done, kernel, hand, CtrInv, Request, Idle
<1>10. ASSUME NEW r \in Req, SignalKill(r)
      PROVE  CtrInv'
  BY <1>10, HandType, CtrInv DEF SignalKill, kernel, hand, CtrInv, Request, Idle
<1>11. ASSUME NEW r \in Req, SignalThaw(r)
      PROVE  CtrInv'
  BY Zenon, <1>11, HandType, CtrInv DEF SignalThaw, Done, kernel, hand, CtrInv, Request, Idle
<1>12. ASSUME NEW r \in Req, WaitSignalled(r)
      PROVE  CtrInv'
  BY SMTT(30), <1>12, HandType, CtrInv DEF WaitSignalled, kernel, hand, CtrInv, Request, Idle
<1>13. ASSUME NEW r \in Req, WaitWon(r)
      PROVE  CtrInv'
  BY <1>13, HandType, CtrInv DEF WaitWon, Woken, kernel, hand, CtrInv, Request, Idle
<1>14. ASSUME NEW r \in Req, WaitLost(r)
      PROVE  CtrInv'
  BY Zenon, <1>14, HandType, CtrInv DEF WaitLost, Done, kernel, hand, CtrInv, Request, Idle
<1>15. ASSUME NEW r \in Req, ReadSelect(r)
      PROVE  CtrInv'
  BY <1>15, HandType, CtrInv DEF ReadSelect, kernel, hand, CtrInv, Request, Idle
<1>16. ASSUME NEW r \in Req, ReadEnd(r)
      PROVE  CtrInv'
  BY Zenon, <1>16, HandType, CtrInv DEF ReadEnd, Done, kernel, hand, CtrInv, Request, Idle
<1>17. ASSUME NEW r \in Req, RemoveDestroy(r)
      PROVE  CtrInv'
  <2>0. req[r] \in Request /\ [req EXCEPT ![r] = Idle] \in [Req -> Request] /\ req[r].c \in Cid
    BY Zenon, <1>17, HandType, IdleType, CtrInv DEF RemoveDestroy, CtrInv
  <2>1. CASE DropContainer([req EXCEPT ![r] = Idle], req[r].c)
    <3>1. \A s \in Req : /\ req'[s].pc = [req EXCEPT ![r] = Idle][s].pc
                        /\ req'[s].c = [req EXCEPT ![r] = Idle][s].c
      BY ZenonT(60), <2>0, <2>1, TypeOK, DropFrame
    <3> QED
      BY Zenon, <3>1, HandType, CtrInv DEF CtrInv, Idle
  <2>2. CASE Done(r)
    BY Zenon, <2>2, HandType, CtrInv DEF Done, Idle, CtrInv
  <2>3. CASE req' = [req EXCEPT ![r].pc = "resources"]
    BY Zenon, <2>0, <2>3, HandType, CtrInv DEF Request, CtrInv
  <2> QED
    BY Zenon, <1>17, <2>1, <2>2, <2>3 DEF RemoveDestroy
<1>18. ASSUME NEW r \in Req, RemoveResources(r)
      PROVE  CtrInv'
  <2>0. [req EXCEPT ![r] = Idle] \in [Req -> Request] /\ req[r].c \in Cid
    BY Zenon, <1>18, HandType, IdleType, CtrInv DEF RemoveResources, CtrInv
  <2>1. \A s \in Req : /\ req'[s].pc = [req EXCEPT ![r] = Idle][s].pc
                      /\ req'[s].c = [req EXCEPT ![r] = Idle][s].c
    BY ZenonT(60), <1>18, <2>0, TypeOK, DropFrame DEF RemoveResources
  <2> QED
    BY Zenon, <2>1, HandType, CtrInv DEF CtrInv, Idle
<1>19. ASSUME NEW r \in Req, HookEnd(r)
      PROVE  CtrInv'
  BY <1>19, HandType, CtrInv DEF HookEnd, kernel, hand, CtrInv, Request, Idle
<1>20. ASSUME NEW r \in Req, NEW p \in Pid, HookSpawn(r, p)
      PROVE  CtrInv'
  BY <1>20, HandType, CtrInv DEF HookSpawn, kernel, hand, CtrInv, Request, Idle
<1>21. ASSUME NEW r \in Req, NEW c \in Cid, NEW p \in Pid, CreateBegin(r, c, p)
      PROVE  CtrInv'
  BY Zenon, <1>21, HandType, CtrInv DEF CreateBegin, After, kernel, hand, CtrInv, Request, Idle
<1>22. ASSUME NEW r \in Req, NEW c \in Cid, NEW e \in Exec, NEW p \in Pid, ExecBegin(r, c, e, p)
      PROVE  CtrInv'
  BY Zenon, <1>22, HandType, CtrInv DEF ExecBegin, kernel, hand, CtrInv, Request, Idle
<1>23. ASSUME NEW r \in Req, NEW c \in Cid, StartBegin(r, c)
      PROVE  CtrInv'
  BY Zenon, <1>23, HandType, CtrInv DEF StartBegin, kernel, hand, CtrInv, Request, Idle
<1>24. ASSUME NEW r \in Req, NEW c \in Cid, RemoveBegin(r, c)
      PROVE  CtrInv'
  BY Zenon, <1>24, HandType, CtrInv DEF RemoveBegin, After, kernel, hand, CtrInv, Request, Idle
<1>25. ASSUME NEW r \in Req, NEW c \in Cid, NEW e \in Eid, WaitBegin(r, c, e)
      PROVE  CtrInv'
  BY Zenon, <1>25, HandType, CtrInv DEF WaitBegin, kernel, hand, CtrInv, Request, Idle
<1>26. ASSUME NEW r \in Req, NEW c \in Cid, NEW e \in Eid, ReadBegin(r, c, e)
      PROVE  CtrInv'
  BY Zenon, <1>26, HandType, CtrInv DEF ReadBegin, kernel, hand, CtrInv, Request, Idle
<1>27. ASSUME NEW r \in Req, NEW c \in Cid, NEW e \in Eid, NEW k \in BOOLEAN, SignalBegin(r, c, e, k)
      PROVE  CtrInv'
  <2>1. /\ \A s \in Req \ {r} : req'[s] = req[s]
        /\ req'[r].pc \in {"idle", "freeze"} /\ req'[r].p = NoPid
    <3>1. CASE e = InitE
      <4>1. req' = [req EXCEPT ![r] = [Idle EXCEPT !.pc = "freeze", !.c = c, !.k = k]]
        BY Zenon, <1>27, <3>1 DEF SignalBegin
      <4> QED
        BY Zenon, <4>1, HandType DEF Idle
    <3>2. CASE e # InitE
      BY <1>27, <3>2, HandType DEF SignalBegin, Done, Idle
    <3> QED
      BY Zenon, <3>1, <3>2
  <2>2. req'[r].c \in Cid \cup {NoCid} /\ (req'[r].pc = "freeze" => req'[r].c = c)
    <3>1. CASE e = InitE
      <4>1. req' = [req EXCEPT ![r] = [Idle EXCEPT !.pc = "freeze", !.c = c, !.k = k]]
        BY Zenon, <1>27, <3>1 DEF SignalBegin
      <4> QED
        BY Zenon, <4>1, HandType DEF Idle
    <3>2. CASE e # InitE
      BY <1>27, <3>2, HandType DEF SignalBegin, Done, Idle
    <3> QED
      BY Zenon, <3>1, <3>2
  <2> QED
    BY Zenon, <2>1, <2>2, CtrInv DEF CtrInv
<1>28. ASSUME NEW c \in Cid, Pause(c)
      PROVE  CtrInv'
  BY Zenon, <1>28, HandType, CtrInv DEF Pause, kernel, hand, CtrInv, Request, Idle
<1>29. ASSUME NEW c \in Cid, Resume(c)
      PROVE  CtrInv'
  BY Zenon, <1>29, HandType, CtrInv DEF Resume, kernel, hand, CtrInv, Request, Idle
<1>30. ASSUME HandlerRecv
      PROVE  CtrInv'
  BY Zenon, <1>30, HandType, CtrInv DEF HandlerRecv, kernel, hand, CtrInv, Request, Idle
<1>31. ASSUME NEW p \in Pid, HandlerReap(p)
      PROVE  CtrInv'
  BY Zenon, <1>31, HandType, CtrInv DEF HandlerReap, kernel, hand, CtrInv, Request, Idle
<1>32. ASSUME HandlerEnd
      PROVE  CtrInv'
  BY Zenon, <1>32, HandType, CtrInv DEF HandlerEnd, kernel, hand, CtrInv, Request, Idle
<1>33. ASSUME HandlerFind
      PROVE  CtrInv'
  BY <1>33, HandType, CtrInv DEF HandlerFind, Tell, Woken, kernel, hand, CtrInv, Request, Idle
<1>34. ASSUME HandlerDrained
      PROVE  CtrInv'
  BY <1>34, HandType, CtrInv DEF HandlerDrained, Tell, Woken, kernel, hand, CtrInv, Request,
     Idle
<1>35. ASSUME NEW p \in Pid, ChildReady(p)
      PROVE  CtrInv'
  BY <1>35, HandType, CtrInv DEF ChildReady, kernel, hand, CtrInv, Request, Idle
<1>36. ASSUME NEW p \in Pid, ChildOpens(p)
      PROVE  CtrInv'
  BY Zenon, <1>36, HandType, CtrInv DEF ChildOpens, kernel, hand, CtrInv, Request, Idle
<1>37. ASSUME NEW p \in Pid, Exit(p)
      PROVE  CtrInv'
  BY Zenon, <1>37, HandType, CtrInv DEF Exit, kernel, hand, CtrInv, Request, Idle
<1>38. ASSUME NEW p \in Pid, HeirExit(p)
      PROVE  CtrInv'
  BY Zenon, <1>38, HandType, CtrInv DEF HeirExit, kernel, hand, CtrInv, Request, Idle
<1>39. ASSUME UNCHANGED vars
      PROVE  CtrInv'
  BY Zenon, <1>39, HandType, CtrInv DEF vars, kernel, hand, CtrInv, Request, Idle
<1> QED
  BY Zenon, <1>1, <1>2, <1>3, <1>4, <1>5, <1>6, <1>7, <1>8, <1>9, <1>10, <1>11, <1>12, <1>13,
     <1>14, <1>15, <1>16, <1>17, <1>18, <1>19, <1>20, <1>21, <1>22, <1>23, <1>24, <1>25,
     <1>26, <1>27, <1>28, <1>29, <1>30, <1>31, <1>32, <1>33, <1>34, <1>35, <1>36, <1>37,
     <1>38, <1>39
  DEF Next, Begin, Locking, Running, Fail, Handle, Eid

\* The handler goes on to no drain, and no container comes or goes.
Aside ==
  /\ hpc' = "drain" => hpc = "drain"
  /\ \/ UNCHANGED ctr
     \/ \E c \in Cid : Pause(c) \/ Resume(c)
     \/ \E r \in Req : StartOpen(r)

\* Steps that move no process out of the kernel's table, and leave the agent's alone.
LEMMA Quiet ==
  ASSUME \/ \E r \in Req : \/ CreateFail(r) \/ CreateUndone(r) \/ ExecFail(r) \/ StartEnd(r)
                           \/ SignalFreeze(r) \/ SignalPids(r) \/ SignalKill(r) \/ SignalThaw(r)
                           \/ WaitSignalled(r) \/ WaitLost(r) \/ ReadSelect(r) \/ ReadEnd(r)
         \/ \E r \in Req, c \in Cid : StartBegin(r, c) \/ RemoveBegin(r, c)
         \/ \E r \in Req, c \in Cid, e \in Eid : WaitBegin(r, c, e) \/ ReadBegin(r, c, e)
         \/ \E r \in Req, c \in Cid, e \in Eid, k \in BOOLEAN : SignalBegin(r, c, e, k)
         \/ \E c \in Cid : Pause(c) \/ Resume(c)
         \/ HandlerRecv \/ HandlerEnd \/ (\E p \in Pid : HeirExit(p)) \/ UNCHANGED vars
  PROVE  UNCHANGED <<table, exit, proc, hpid>> /\ Aside
<1>1. ASSUME NEW r \in Req, CreateFail(r) \/ ExecFail(r) \/ SignalKill(r)
      PROVE  UNCHANGED <<table, exit, proc, hpid>> /\ Aside
  BY Zenon, <1>1, KillKeepsProc DEF Aside, CreateFail, ExecFail, SignalKill, kernel, hand
<1>2. ASSUME NEW r \in Req,
             CreateUndone(r) \/ StartEnd(r) \/ SignalFreeze(r) \/ SignalPids(r) \/ SignalThaw(r)
      PROVE  UNCHANGED <<table, exit, proc, hpid>> /\ Aside
  BY Zenon, <1>2 DEF Aside, CreateUndone, StartEnd, SignalFreeze, SignalPids, SignalThaw, kernel, hand
<1>3. ASSUME NEW r \in Req, WaitSignalled(r) \/ WaitLost(r) \/ ReadSelect(r) \/ ReadEnd(r)
      PROVE  UNCHANGED <<table, exit, proc, hpid>> /\ Aside
  BY Zenon, <1>3 DEF Aside, WaitSignalled, WaitLost, ReadSelect, ReadEnd, kernel, hand
<1>4. ASSUME NEW r \in Req, NEW c \in Cid, StartBegin(r, c) \/ RemoveBegin(r, c)
      PROVE  UNCHANGED <<table, exit, proc, hpid>> /\ Aside
  BY Zenon, <1>4, KillKeepsProc DEF Aside, StartBegin, RemoveBegin, kernel, hand
<1>5. ASSUME NEW r \in Req, NEW c \in Cid, NEW e \in Eid, WaitBegin(r, c, e) \/ ReadBegin(r, c, e)
      PROVE  UNCHANGED <<table, exit, proc, hpid>> /\ Aside
  BY Zenon, <1>5 DEF Aside, WaitBegin, ReadBegin, kernel, hand
<1>6. ASSUME NEW r \in Req, NEW c \in Cid, NEW e \in Eid, NEW k \in BOOLEAN, SignalBegin(r, c, e, k)
      PROVE  UNCHANGED <<table, exit, proc, hpid>> /\ Aside
  BY Zenon, <1>6, KillKeepsProc DEF Aside, SignalBegin, hand
<1>7. ASSUME (\E c \in Cid : Pause(c) \/ Resume(c)) \/ (\E p \in Pid : HeirExit(p))
      PROVE  UNCHANGED <<table, exit, proc, hpid>> /\ Aside
  BY Zenon, <1>7 DEF Aside, Pause, Resume, HeirExit, kernel, hand
<1>8. ASSUME HandlerRecv \/ HandlerEnd \/ UNCHANGED vars
      PROVE  UNCHANGED <<table, exit, proc, hpid>> /\ Aside
  BY Zenon, <1>8 DEF Aside, HandlerRecv, HandlerEnd, vars, kernel, hand
<1> QED
  BY Zenon, <1>1, <1>2, <1>3, <1>4, <1>5, <1>6, <1>7, <1>8

\* Steps of a process's life: none is reaped, and the agent's tables stay as they are.
LEMMA Lives ==
  ASSUME TypeOK,
         \/ \E r \in Req : StartOpen(r) \/ \E p \in Pid : HookSpawn(r, p)
         \/ \E r \in Req, c \in Cid, p \in Pid : CreateBegin(r, c, p) \/ \E e \in Exec : ExecBegin(r, c, e, p)
         \/ \E p \in Pid : ChildReady(p) \/ ChildOpens(p) \/ Exit(p)
  PROVE  /\ UNCHANGED <<table, exit, hpid>> /\ Aside
         /\ \A q \in Pid : proc'[q] = "free" => proc[q] = "free"
         /\ \A q \in Pid : q \in AllEntries \cup {hpid} /\ proc[q] = "free" => proc'[q] = "free"
<1>1. proc \in [Pid -> ProcState]
  BY Zenon DEF TypeOK
<1>2. ASSUME NEW r \in Req, StartOpen(r)
      PROVE  /\ UNCHANGED <<table, exit, hpid>> /\ Aside
             /\ \A q \in Pid : proc'[q] = "free" => proc[q] = "free"
             /\ \A q \in Pid : q \in AllEntries \cup {hpid} /\ proc[q] = "free" => proc'[q] = "free"
  BY Zenon, <1>1, <1>2 DEF Aside, StartOpen, hand
<1>3. ASSUME NEW r \in Req, NEW p \in Pid, HookSpawn(r, p)
      PROVE  /\ UNCHANGED <<table, exit, hpid>> /\ Aside
             /\ \A q \in Pid : proc'[q] = "free" => proc[q] = "free"
             /\ \A q \in Pid : q \in AllEntries \cup {hpid} /\ proc[q] = "free" => proc'[q] = "free"
  BY Zenon, <1>1, <1>3 DEF Aside, HookSpawn, Spawn, PidFree, hand
<1>4. ASSUME NEW r \in Req, NEW c \in Cid, NEW p \in Pid,
             CreateBegin(r, c, p) \/ \E e \in Exec : ExecBegin(r, c, e, p)
      PROVE  /\ UNCHANGED <<table, exit, hpid>> /\ Aside
             /\ \A q \in Pid : proc'[q] = "free" => proc[q] = "free"
             /\ \A q \in Pid : q \in AllEntries \cup {hpid} /\ proc[q] = "free" => proc'[q] = "free"
  BY ZenonT(60), <1>1, <1>4 DEF Aside, CreateBegin, ExecBegin, Spawn, PidFree, hand
<1>5. ASSUME NEW p \in Pid, ChildReady(p)
      PROVE  /\ UNCHANGED <<table, exit, hpid>> /\ Aside
             /\ \A q \in Pid : proc'[q] = "free" => proc[q] = "free"
             /\ \A q \in Pid : q \in AllEntries \cup {hpid} /\ proc[q] = "free" => proc'[q] = "free"
  BY Zenon, <1>1, <1>5 DEF Aside, ChildReady, hand
<1>6. ASSUME NEW p \in Pid, ChildOpens(p) \/ Exit(p)
      PROVE  /\ UNCHANGED <<table, exit, hpid>> /\ Aside
             /\ \A q \in Pid : proc'[q] = "free" => proc[q] = "free"
             /\ \A q \in Pid : q \in AllEntries \cup {hpid} /\ proc[q] = "free" => proc'[q] = "free"
  BY Zenon, <1>1, <1>6 DEF Aside, ChildOpens, Exit, Alive, hand
<1> QED
  BY Zenon, <1>2, <1>3, <1>4, <1>5, <1>6

\* A step that leaves the tables, children and hooks of all requests alone.
LEMMA ChildSame ==
  ASSUME ChildInv, HookInv, SlotInv, table' = table, hpid' = hpid,
         \A q \in Pid : proc'[q] = "free" => proc[q] = "free",
         \A s \in Req : /\ req'[s].pc = req[s].pc /\ req'[s].then = req[s].then
                        /\ req'[s].p = req[s].p /\ req'[s].q = req[s].q
  PROVE  ChildInv' /\ HookInv' /\ SlotInv'
<1>1. AllEntries' = AllEntries
  BY DEF AllEntries, Entries
<1>2. \A s \in Req : Child(s)' <=> Child(s)
  BY Zenon DEF Child
<1>3. ChildInv'
  BY <1>1, <1>2 DEF ChildInv
<1>4. HookInv'
  BY <1>1 DEF HookInv
<1>5. SlotInv'
  BY DEF SlotInv
<1> QED
  BY Zenon, <1>3, <1>4, <1>5

\* A request that holds the mutex is the only one with a child or a hook.
LEMMA OnlyChild ==
  ASSUME LockInv, NEW r, lock = r
  PROVE  \A s \in Req \ {r} : ~Child(s) /\ req[s].pc # "hookwait"
  BY Zenon DEF LockInv, Holds, Child

\* Every step keeps ChildInv, HookInv and SlotInv.
LEMMA ChildStep ==
  ASSUME TypeOK, LockInv, CtrInv, ChildInv, HookInv, SlotInv, [Next]_vars
  PROVE  (ChildInv /\ HookInv /\ SlotInv)'
<1>0. req \in [Req -> Request] /\ proc \in [Pid -> ProcState]
  BY Zenon DEF TypeOK
<1>1. ASSUME NEW r \in Req, CreateOk(r) \/ ExecOk(r)
      PROVE  (ChildInv /\ HookInv /\ SlotInv)'
  <2>1. /\ \A s \in Req \ {r} : req'[s] = req[s]
        /\ req'[r].pc = "idle"
    BY <1>0, <1>1 DEF CreateOk, ExecOk, Done, Idle
  <2>2. \A s \in Req : ~Child(s)' /\ req'[s].pc # "hookwait"
    <3>1. lock = r
      BY Zenon, <1>1, LockInv DEF CreateOk, ExecOk, LockInv, Holds
    <3> QED
      BY Zenon, <2>1, <3>1, OnlyChild DEF Child
  <2>3. PICK c \in Cid, e \in Eid : table' = [table EXCEPT ![c][e] = req[r].p]
    <3>1. req[r].c \in Cid /\ req[r].e \in Eid /\ InitE \in Eid
      BY Zenon, <1>1, CtrInv, TypeOK, ReqType DEF CreateOk, ExecOk, CtrInv, Eid
    <3> QED
      BY Zenon, <1>1, <3>1 DEF CreateOk, ExecOk
  <2>4. req[r].p \notin AllEntries
    BY Zenon, <1>1, ChildInv DEF CreateOk, ExecOk, ChildInv, Child
  <2>5. \A d \in Cid, f \in Eid : table'[d][f] = IF d = c /\ f = e THEN req[r].p ELSE table[d][f]
    BY <2>3, TypeOK DEF TypeOK
  <2>6. \A d \in Cid, f \in Eid : table[d][f] # NoPid => table[d][f] # req[r].p
    BY <2>4 DEF AllEntries, Entries
  <2>7. ASSUME NEW d \in Cid, NEW g \in Cid, NEW f \in Eid, NEW h \in Eid,
               table'[d][f] # NoPid, table'[d][f] = table'[g][h]
        PROVE  d = g /\ f = h
    <3>1. table[d][f] # NoPid /\ table[d][f] = table[g][h] => d = g /\ f = h
      BY SlotInv DEF SlotInv
    <3> QED
      BY <2>5, <2>6, <2>7, <3>1
  <2>8. SlotInv'
    BY <2>7 DEF SlotInv
  <2> QED
    BY Zenon, <2>2, <2>8 DEF ChildInv, HookInv
<1>2. ASSUME NEW r \in Req,
             \/ CreateUndone(r) \/ ExecFail(r) \/ StartEnd(r) \/ SignalThaw(r) \/ WaitLost(r) \/ ReadEnd(r)
      PROVE  (ChildInv /\ HookInv /\ SlotInv)'
  <2>1. Done(r)
    BY Zenon, <1>2 DEF CreateUndone, ExecFail, StartEnd, SignalThaw, WaitLost, ReadEnd
  <2>2. /\ \A s \in Req \ {r} : req'[s] = req[s]
        /\ req'[r].pc = "idle" /\ req'[r].p = NoPid
    BY Zenon, <1>0, <2>1 DEF Done, Idle
  <2>3. UNCHANGED <<table, exit, proc, hpid>>
    BY Zenon, <1>2, Quiet
  <2> QED
    BY Zenon, <2>2, <2>3, ChildInv, HookInv, SlotInv, ChildFrame, SlotSame
<1>3. ASSUME NEW r \in Req, SignalFreeze(r) \/ SignalKill(r) \/ WaitSignalled(r) \/ ReadSelect(r)
      PROVE  (ChildInv /\ HookInv /\ SlotInv)'
  <2>1. /\ \A s \in Req \ {r} : req'[s] = req[s]
        /\ req'[r].pc \in {"pids", "thaw", "look", "read"} /\ req'[r].p = req[r].p
    BY <1>0, <1>3 DEF SignalFreeze, SignalKill, WaitSignalled, ReadSelect, Request
  <2>2. UNCHANGED <<table, exit, proc, hpid>>
    BY Zenon, <1>3, Quiet
  <2> QED
    BY Zenon, <2>1, <2>2, ChildInv, HookInv, SlotInv, ChildFrame, SlotSame
<1>4. ASSUME NEW r \in Req, CreateFail(r)
      PROVE  (ChildInv /\ HookInv /\ SlotInv)'
  <2>1. /\ \A s \in Req \ {r} : req'[s] = req[s]
        /\ req'[r].pc \in {"hook", "undone"} /\ (req'[r].pc = "hook" => req'[r].then = "undone")
        /\ req'[r].p = req[r].p
    BY <1>0, <1>4 DEF CreateFail, Go, After, Request
  <2>2. UNCHANGED <<table, exit, proc, hpid>>
    BY Zenon, <1>4, Quiet
  <2> QED
    BY Zenon, <2>1, <2>2, ChildInv, HookInv, SlotInv, ChildFrame, SlotSame
<1>5. ASSUME NEW r \in Req, StartOpen(r)
      PROVE  (ChildInv /\ HookInv /\ SlotInv)'
  <2>1. /\ \A s \in Req \ {r} : req'[s] = req[s]
        /\ req'[r].pc \in {"hook", "started"} /\ (req'[r].pc = "hook" => req'[r].then = "started")
        /\ req'[r].p = req[r].p
    BY <1>0, <1>5 DEF StartOpen, Go, After, Request
  <2>2. /\ UNCHANGED <<table, exit, hpid>>
        /\ \A q \in Pid : proc'[q] = "free" => proc[q] = "free"
    BY Zenon, <1>5, TypeOK, Lives
  <2> QED
    BY Zenon, <2>1, <2>2, ChildInv, HookInv, SlotInv, ChildFrame, SlotSame
<1>9. ASSUME NEW r \in Req, SignalPids(r)
      PROVE  (ChildInv /\ HookInv /\ SlotInv)'
  <2>1. /\ \A s \in Req \ {r} : req'[s] = req[s]
        /\ req'[r].pc \in {"idle", "kill"} /\ req'[r].p \in {NoPid, req[r].p}
    <3>1. CASE ctr[req[r].c] = "none"
      BY <1>9, <3>1, HandType DEF SignalPids, Done, Idle
    <3>2. CASE ctr[req[r].c] # "none"
      <4>1. req' = [req EXCEPT ![r] = [@ EXCEPT !.pc = "kill", !.pids = In(req[r].c)]]
        BY Zenon, <1>9, <3>2 DEF SignalPids
      <4> QED
        BY <4>1, HandType DEF Request
    <3> QED
      BY Zenon, <3>1, <3>2
  <2>2. proc' = proc /\ hpid' = hpid /\ table' = table
    BY Zenon, <1>9, KillKeepsProc DEF SignalPids, kernel, hand
  <2>3. ChildInv' /\ HookInv'
    BY SMTT(30), <2>1, <2>2, ChildInv, HookInv, ChildFrame DEF AllEntries, Entries
  <2>4. SlotInv'
    BY <2>2, SlotInv DEF SlotInv
  <2> QED
    BY Zenon, <2>3, <2>4
<1>13. ASSUME NEW r \in Req, WaitWon(r)
      PROVE  (ChildInv /\ HookInv /\ SlotInv)'
  <2>1. /\ \A s \in Req \ {r} : /\ req'[s].pc = req[s].pc /\ req'[s].then = req[s].then
                              /\ req'[s].p = req[s].p /\ req'[s].q = req[s].q
        /\ req'[r].pc = "idle" /\ req'[r].p = NoPid
    BY <1>13, HandType DEF WaitWon, Woken, Idle, Request
  <2>2. proc' = proc /\ hpid' = hpid
    BY Zenon, <1>13 DEF WaitWon, kernel, hand
  <2>3. \A d \in Cid, e \in Eid : table'[d][e] \in {NoPid, table[d][e]}
    BY Zenon, <1>13, TypeOK DEF WaitWon, TypeOK
  <2>4. SlotInv' /\ AllEntries' \subseteq AllEntries
    BY Zenon, <2>3, SlotInv, FewerEntries
  <2> QED
    BY ZenonT(60), <2>1, <2>2, <2>4, ChildInv, HookInv, ChildFrame
<1>17. ASSUME NEW r \in Req, RemoveDestroy(r)
      PROVE  (ChildInv /\ HookInv /\ SlotInv)'
  <2>0. req[r] \in Request /\ [req EXCEPT ![r] = Idle] \in [Req -> Request]
    BY Zenon, HandType, IdleType
  <2>1. /\ \A s \in Req \ {r} : /\ req'[s].pc = req[s].pc /\ req'[s].then = req[s].then
                              /\ req'[s].p = req[s].p /\ req'[s].q = req[s].q
        /\ req'[r].pc \in {"idle", "resources"} /\ req'[r].p \in {NoPid, req[r].p}
    <3>1. CASE DropContainer([req EXCEPT ![r] = Idle], req[r].c)
      <4>1. req[r].c \in Cid
        BY Zenon, <1>17, CtrInv DEF RemoveDestroy, CtrInv
      <4>2. \A s \in Req : /\ req'[s].pc = [req EXCEPT ![r] = Idle][s].pc
                          /\ req'[s].then = [req EXCEPT ![r] = Idle][s].then
                          /\ req'[s].p = [req EXCEPT ![r] = Idle][s].p
                          /\ req'[s].q = [req EXCEPT ![r] = Idle][s].q
        BY ZenonT(60), <2>0, <3>1, <4>1, TypeOK, DropFrame
      <4> QED
        BY Zenon, <4>2, HandType DEF Idle
    <3>2. CASE Done(r)
      BY Zenon, <3>2, HandType DEF Done, Idle
    <3>3. CASE req' = [req EXCEPT ![r].pc = "resources"]
      BY Zenon, <3>3, <2>0, HandType DEF Request
    <3> QED
      BY Zenon, <1>17, <3>1, <3>2, <3>3 DEF RemoveDestroy
  <2>2. proc' = proc /\ hpid' = hpid
    BY Zenon, <1>17, KillKeepsProc DEF RemoveDestroy, kernel, hand
  <2>3. \A d \in Cid, e \in Eid : table'[d][e] \in {NoPid, table[d][e]}
    <3>1. req[r].c \in Cid
      BY Zenon, <1>17, CtrInv DEF RemoveDestroy, CtrInv
    <3> QED
      BY <1>17, <3>1, TypeOK, DropTable DEF RemoveDestroy
  <2>4. SlotInv' /\ AllEntries' \subseteq AllEntries
    BY Zenon, <2>3, SlotInv, FewerEntries
  <2> QED
    BY Zenon, <2>1, <2>2, <2>4, ChildInv, HookInv, ChildFrame
<1>18. ASSUME NEW r \in Req, RemoveResources(r)
      PROVE  (ChildInv /\ HookInv /\ SlotInv)'
  <2>0. [req EXCEPT ![r] = Idle] \in [Req -> Request] /\ req[r].c \in Cid
    BY Zenon, <1>18, HandType, IdleType, CtrInv DEF RemoveResources, CtrInv
  <2>1. /\ \A s \in Req \ {r} : /\ req'[s].pc = req[s].pc /\ req'[s].then = req[s].then
                              /\ req'[s].p = req[s].p /\ req'[s].q = req[s].q
        /\ req'[r].pc = "idle" /\ req'[r].p = NoPid
    <3>1. \A s \in Req : /\ req'[s].pc = [req EXCEPT ![r] = Idle][s].pc
                        /\ req'[s].then = [req EXCEPT ![r] = Idle][s].then
                        /\ req'[s].p = [req EXCEPT ![r] = Idle][s].p
                        /\ req'[s].q = [req EXCEPT ![r] = Idle][s].q
      BY ZenonT(60), <1>18, <2>0, TypeOK, DropFrame DEF RemoveResources
    <3> QED
      BY Zenon, <3>1, HandType DEF Idle
  <2>2. proc' = proc /\ hpid' = hpid
    BY Zenon, <1>18 DEF RemoveResources, kernel, hand
  <2>3. \A d \in Cid, e \in Eid : table'[d][e] \in {NoPid, table[d][e]}
    BY <1>18, <2>0, TypeOK, DropTable DEF RemoveResources
  <2>4. SlotInv' /\ AllEntries' \subseteq AllEntries
    BY Zenon, <2>3, SlotInv, FewerEntries
  <2> QED
    BY Zenon, <2>1, <2>2, <2>4, ChildInv, HookInv, ChildFrame
<1>19. ASSUME NEW r \in Req, HookEnd(r)
      PROVE  (ChildInv /\ HookInv /\ SlotInv)'
  <2>1. /\ \A s \in Req \ {r} : req'[s] = req[s]
        /\ req'[r].pc = req[r].then /\ req'[r].p = req[r].p
    BY <1>0, <1>19 DEF HookEnd, Request
  <2>2. req[r].then \in {"made", "undone", "started", "destroy"} /\ lock = r
    BY Zenon, <1>19, LockInv DEF HookEnd, LockInv, Holds
  <2>3. UNCHANGED <<table, hpid>>
    BY Zenon, <1>19 DEF HookEnd, hand
  <2>4. \A q \in Pid : proc'[q] = "free" => proc[q] = "free" \/ q = req[r].q
    BY Zenon, <1>0, <1>19 DEF HookEnd
  <2>5. \A s \in Req : req'[s].pc # "hookwait" /\ (Child(s)' => s = r /\ Child(r))
    <3>1. \A s \in Req \ {r} : ~Child(s)' /\ req'[s].pc # "hookwait"
      BY Zenon, <2>1, <2>2, LockInv, OnlyChild DEF Child
    <3>2. req'[r].pc # "hookwait" /\ (Child(r)' => req[r].then = "made")
      BY Zenon, <2>1, <2>2 DEF Child
    <3>3. req[r].pc = "hookwait"
      BY Zenon, <1>19 DEF HookEnd
    <3> QED
      BY Zenon, <3>1, <3>2, <3>3 DEF Child
  <2>6. AllEntries' = AllEntries /\ \A s \in Req : req[s].p # req[r].q
    BY <1>19, <2>3, HookInv DEF HookEnd, HookInv, AllEntries, Entries
  <2>7. ChildInv'
    BY <2>1, <2>3, <2>4, <2>5, <2>6, ChildInv DEF ChildInv
  <2> QED
    BY Zenon, <2>3, <2>5, <2>7, SlotInv, SlotSame DEF HookInv
<1>20. ASSUME NEW r \in Req, NEW p \in Pid, HookSpawn(r, p)
      PROVE  (ChildInv /\ HookInv /\ SlotInv)'
  <2>1. /\ \A s \in Req \ {r} : req'[s] = req[s]
        /\ req'[r].pc = "hookwait" /\ req'[r].then = req[r].then
        /\ req'[r].p = req[r].p /\ req'[r].q = p
    BY ZenonT(60), <1>0, <1>20 DEF HookSpawn, Request
  <2>2. /\ UNCHANGED <<table, exit, hpid>>
        /\ \A q \in Pid : proc'[q] = "free" => proc[q] = "free"
    BY Zenon, <1>20, TypeOK, Lives
  <2>3. p \notin AllEntries /\ \A s \in Req : req[s].p # p
    BY Zenon, <1>20 DEF HookSpawn, Spawn, PidFree
  <2>4. \A s \in Req \ {r} : ~Child(s) /\ req[s].pc # "hookwait"
    BY Zenon, <1>20, LockInv, OnlyChild DEF HookSpawn, LockInv, Holds
  <2>5. AllEntries' = AllEntries
    BY <2>2 DEF AllEntries, Entries
  <2>6. \A s \in Req : Child(s)' => s = r /\ Child(r)
    <3>1. \A s \in Req \ {r} : ~Child(s)'
      BY Zenon, <2>1, <2>4 DEF Child
    <3>2. Child(r)' => req[r].then = "made"
      BY Zenon, <2>1 DEF Child
    <3>3. req[r].pc = "hook"
      BY Zenon, <1>20 DEF HookSpawn
    <3> QED
      BY Zenon, <3>1, <3>2, <3>3 DEF Child
  <2>7. ChildInv'
    BY <2>1, <2>2, <2>5, <2>6, ChildInv DEF ChildInv
  <2>8. HookInv'
    BY Zenon, <2>1, <2>3, <2>4, <2>5 DEF HookInv
  <2> QED
    BY Zenon, <2>2, <2>7, <2>8, SlotInv, SlotSame
<1>21. ASSUME NEW r \in Req, NEW c \in Cid, NEW p \in Pid,
              CreateBegin(r, c, p) \/ \E e \in Exec : ExecBegin(r, c, e, p)
      PROVE  (ChildInv /\ HookInv /\ SlotInv)'
  <2>1. /\ \A s \in Req \ {r} : req'[s] = req[s]
        /\ req'[r].pc # "hookwait" /\ req'[r].p = p
    <3>1. CASE CreateBegin(r, c, p)
      BY Zenon, <1>0, <3>1 DEF CreateBegin, After, Idle
    <3>2. ASSUME NEW e \in Exec, ExecBegin(r, c, e, p)
          PROVE  /\ \A s \in Req \ {r} : req'[s] = req[s]
                 /\ req'[r].pc # "hookwait" /\ req'[r].p = p
      BY Zenon, <1>0, <3>2 DEF ExecBegin, Idle
    <3> QED
      BY Zenon, <1>21, <3>1, <3>2
  <2>2. UNCHANGED <<table, exit, hpid>>
    BY Zenon, <1>21, TypeOK, Lives
  <2>3. p \notin AllEntries /\ (\A s \in Req : req[s].p # p) /\ proc'[p] = "setup"
    BY Zenon, <1>0, <1>21 DEF CreateBegin, ExecBegin, Spawn, PidFree
  <2>4. \A s \in Req : ~Child(s) /\ req[s].pc # "hookwait"
    BY Zenon, <1>21, LockInv DEF CreateBegin, ExecBegin, LockInv, Holds, Child
  <2>5. AllEntries' = AllEntries
    BY <2>2 DEF AllEntries, Entries
  <2>6. \A s \in Req : Child(s)' => s = r
    BY Zenon, <2>1, <2>4 DEF Child
  <2>7. ChildInv'
    BY Zenon, <2>1, <2>2, <2>3, <2>5, <2>6 DEF ChildInv
  <2>8. HookInv'
    BY Zenon, <2>1, <2>4 DEF HookInv
  <2> QED
    BY Zenon, <2>2, <2>7, <2>8, SlotInv, SlotSame
<1>23. ASSUME NEW r \in Req, NEW c \in Cid, StartBegin(r, c) \/ RemoveBegin(r, c)
      PROVE  (ChildInv /\ HookInv /\ SlotInv)'
  <2>1. /\ \A s \in Req \ {r} : req'[s] = req[s]
        /\ req'[r].pc \in {"open", "hook", "destroy"} /\ (req'[r].pc = "hook" => req'[r].then = "destroy")
        /\ req'[r].p = NoPid
    <3>1. CASE StartBegin(r, c)
      BY Zenon, <1>0, <3>1 DEF StartBegin, Idle
    <3>2. CASE RemoveBegin(r, c)
      BY Zenon, <1>0, <3>2 DEF RemoveBegin, After, Idle
    <3> QED
      BY Zenon, <1>23, <3>1, <3>2
  <2>2. UNCHANGED <<table, exit, proc, hpid>>
    BY Zenon, <1>23, Quiet
  <2> QED
    BY Zenon, <2>1, <2>2, ChildInv, HookInv, SlotInv, ChildFrame, SlotSame
<1>25. ASSUME NEW r \in Req, NEW c \in Cid, NEW e \in Eid, WaitBegin(r, c, e) \/ ReadBegin(r, c, e)
      PROVE  (ChildInv /\ HookInv /\ SlotInv)'
  <2>1. /\ \A s \in Req \ {r} : req'[s] = req[s]
        /\ req'[r].pc \in {"wait", "read0"} /\ req'[r].p = table[c][e]
    <3>1. CASE WaitBegin(r, c, e)
      BY Zenon, <1>0, <3>1 DEF WaitBegin, Idle
    <3>2. CASE ReadBegin(r, c, e)
      BY Zenon, <1>0, <3>2 DEF ReadBegin, Idle
    <3> QED
      BY Zenon, <1>25, <3>1, <3>2
  <2>2. UNCHANGED <<table, exit, proc, hpid>>
    BY Zenon, <1>25, Quiet
  <2>3. table[c][e] \in {NoPid} \cup AllEntries
    BY DEF AllEntries, Entries
  <2> QED
    BY Zenon, <2>1, <2>2, <2>3, ChildInv, HookInv, SlotInv, ChildFrame, SlotSame
<1>27. ASSUME NEW r \in Req, NEW c \in Cid, NEW e \in Eid, NEW k \in BOOLEAN, SignalBegin(r, c, e, k)
      PROVE  (ChildInv /\ HookInv /\ SlotInv)'
  <2>1. /\ \A s \in Req \ {r} : req'[s] = req[s]
        /\ req'[r].pc \in {"idle", "freeze"} /\ req'[r].p = NoPid
    <3>1. CASE e = InitE
      <4>1. req' = [req EXCEPT ![r] = [Idle EXCEPT !.pc = "freeze", !.c = c, !.k = k]]
        BY Zenon, <1>27, <3>1 DEF SignalBegin
      <4> QED
        BY Zenon, <4>1, HandType DEF Idle
    <3>2. CASE e # InitE
      BY <1>27, <3>2, HandType DEF SignalBegin, Done, Idle
    <3> QED
      BY Zenon, <3>1, <3>2
  <2>2. proc' = proc /\ hpid' = hpid /\ table' = table
    BY Zenon, <1>27, KillKeepsProc DEF SignalBegin, kernel, hand
  <2>3. ChildInv' /\ HookInv'
    BY <2>1, <2>2, ChildInv, HookInv, ChildFrame DEF AllEntries, Entries
  <2>4. SlotInv'
    BY <2>2, SlotInv DEF SlotInv
  <2> QED
    BY Zenon, <2>3, <2>4
<1>28. ASSUME \/ (\E c \in Cid : Pause(c) \/ Resume(c)) \/ (\E p \in Pid : HeirExit(p))
              \/ HandlerRecv \/ HandlerEnd \/ UNCHANGED vars
      PROVE  (ChildInv /\ HookInv /\ SlotInv)'
  <2>1. req' = req
    BY Zenon, <1>28 DEF Pause, Resume, HeirExit, HandlerRecv, HandlerEnd, vars
  <2>2. UNCHANGED <<table, exit, proc, hpid>>
    BY Zenon, <1>28, Quiet
  <2> QED
    BY Zenon, <2>1, <2>2, ChildInv, HookInv, SlotInv, ChildSame
<1>31. ASSUME NEW p \in Pid, HandlerReap(p)
      PROVE  (ChildInv /\ HookInv /\ SlotInv)'
  <2>1. req' = req /\ table' = table /\ hpid' = p /\ hpid = NoPid
    BY Zenon, <1>31, LockInv DEF HandlerReap, LockInv
  <2>2. \A q \in Pid : proc'[q] = "free" => proc[q] = "free" \/ q = p
    BY Zenon, <1>0, <1>31 DEF HandlerReap
  <2>3. AllEntries' = AllEntries /\ \A s \in Req : Child(s)' <=> Child(s)
    BY <2>1 DEF AllEntries, Entries, Child
  <2>4. ChildInv'
    BY Zenon, <2>1, <2>2, <2>3, ChildInv DEF ChildInv
  <2>5. HookInv'
    BY Zenon, <2>1, <2>3, HookInv DEF HookInv
  <2> QED
    BY Zenon, <2>1, <2>4, <2>5, SlotInv, SlotSame
<1>33. ASSUME HandlerFind \/ HandlerDrained
      PROVE  (ChildInv /\ HookInv /\ SlotInv)'
  <2>1. \A s \in Req : req'[s].pc = req[s].pc /\ req'[s].then = req[s].then
    BY <1>0, <1>33 DEF HandlerFind, HandlerDrained, Tell, Woken, Request
  <2>2. \A s \in Req : ~Child(s) /\ req[s].pc # "hookwait"
    BY Zenon, <1>33, LockInv DEF HandlerFind, HandlerDrained, LockInv, Holds, Child
  <2>3. \A s \in Req : ~Child(s)' /\ req'[s].pc # "hookwait"
    BY Zenon, <2>1, <2>2 DEF Child
  <2>4. table' = table
    BY Zenon, <1>33 DEF HandlerFind, HandlerDrained
  <2> QED
    BY Zenon, <2>3, <2>4, SlotInv, SlotSame DEF ChildInv, HookInv
<1>35. ASSUME NEW p \in Pid, ChildReady(p)
      PROVE  (ChildInv /\ HookInv /\ SlotInv)'
  <2>1. \A s \in Req : /\ req'[s].pc = req[s].pc /\ req'[s].then = req[s].then
                       /\ req'[s].p = req[s].p /\ req'[s].q = req[s].q
    BY <1>0, <1>35 DEF ChildReady, Request
  <2>2. /\ UNCHANGED <<table, exit, hpid>>
        /\ \A q \in Pid : proc'[q] = "free" => proc[q] = "free"
    BY Zenon, <1>35, TypeOK, Lives
  <2> QED
    BY Zenon, <2>1, <2>2, ChildInv, HookInv, SlotInv, ChildSame
<1>36. ASSUME NEW p \in Pid, ChildOpens(p) \/ Exit(p)
      PROVE  (ChildInv /\ HookInv /\ SlotInv)'
  <2>1. req' = req
    BY Zenon, <1>36 DEF ChildOpens, Exit
  <2>2. /\ UNCHANGED <<table, exit, hpid>>
        /\ \A q \in Pid : proc'[q] = "free" => proc[q] = "free"
    BY Zenon, <1>36, TypeOK, Lives
  <2> QED
    BY Zenon, <2>1, <2>2, ChildInv, HookInv, SlotInv, ChildSame
<1> QED
  BY Zenon, <1>1, <1>2, <1>3, <1>4, <1>5, <1>9, <1>13, <1>17, <1>18, <1>19, <1>20, <1>21, <1>23,
     <1>25, <1>27, <1>28, <1>31, <1>33, <1>35, <1>36
  DEF Next, Begin, Locking, Running, Fail, Handle, Eid

\* A step that reaps nothing and leaves the tables and the exits alone.
LEMMA ExitSame ==
  ASSUME TypeOK, ExitKept, UNCHANGED <<table, exit, hpid>>,
         \A p \in Pid : proc'[p] = "free" => proc[p] = "free"
  PROVE  ExitKept'
<1>1. AllEntries' = AllEntries /\ AllEntries \subseteq Pid
  BY DEF AllEntries, Entries, TypeOK
<1> QED
  BY Zenon, <1>1 DEF ExitKept

\* Every step keeps ExitKept.
LEMMA ExitStep ==
  ASSUME TypeOK, LockInv, CtrInv, ChildInv, HookInv, SlotInv, ExitKept, [Next]_vars
  PROVE  ExitKept'
<1>0. req \in [Req -> Request] /\ proc \in [Pid -> ProcState]
  BY Zenon DEF TypeOK
<1>1. ASSUME NEW r \in Req, CreateOk(r) \/ ExecOk(r)
      PROVE  ExitKept'
  <2>1. req[r].c \in Cid /\ req[r].e \in Eid /\ InitE \in Eid
    BY Zenon, <1>1, CtrInv, TypeOK, ReqType DEF CreateOk, ExecOk, CtrInv, Eid
  <2>2. PICK c \in Cid, e \in Eid : table' = [table EXCEPT ![c][e] = req[r].p]
    BY Zenon, <1>1, <2>1 DEF CreateOk, ExecOk
  <2>3. \A d \in Cid, f \in Eid : table'[d][f] \in {table[d][f], req[r].p}
    BY <2>2, TypeOK DEF TypeOK
  <2>4. ASSUME NEW q \in AllEntries'
        PROVE  q \in AllEntries \cup {req[r].p}
    <3>1. PICK d \in Cid, f \in Eid : q = table'[d][f] /\ q # NoPid
      BY ZenonT(60), <2>4 DEF AllEntries, Entries
    <3>2. CASE q = table[d][f]
      BY <3>1, <3>2 DEF AllEntries, Entries
    <3> QED
      BY Zenon, <2>3, <3>1, <3>2
  <2>5. proc[req[r].p] = "free" => hpid = req[r].p
    BY Zenon, <1>1, ChildInv DEF CreateOk, ExecOk, ChildInv, Child
  <2>6. exit' = exit /\ proc' = proc /\ hpid' = hpid
    BY Zenon, <1>1 DEF CreateOk, ExecOk, kernel, hand
  <2> QED
    BY Zenon, <2>4, <2>5, <2>6, ExitKept DEF ExitKept
<1>2. ASSUME UNCHANGED <<table, exit, proc, hpid>>
      PROVE  ExitKept'
  BY Zenon, <1>2, TypeOK, ExitKept, ExitSame
<1>3. ASSUME UNCHANGED <<table, exit, hpid>>, \A q \in Pid : proc'[q] = "free" => proc[q] = "free"
      PROVE  ExitKept'
  BY Zenon, <1>3, TypeOK, ExitKept, ExitSame
<1>13. ASSUME NEW r \in Req, WaitWon(r)
      PROVE  ExitKept'
  <2>1. /\ \A q \in Pid : q # req[r].p => exit'[q] = exit[q]
        /\ proc' = proc /\ hpid' = hpid
    BY Zenon, <1>13, TypeOK DEF WaitWon, kernel, hand, TypeOK
  <2>2. \A d \in Cid, e \in Eid : table'[d][e] = IF d = req[r].c /\ table[d][e] = req[r].p THEN NoPid ELSE table[d][e]
    BY Zenon, <1>13, TypeOK DEF WaitWon, TypeOK
  <2>3. \A d \in Cid, e \in Eid : table'[d][e] \in {NoPid, table[d][e]} /\ table'[d][e] # req[r].p
    <3>1. req[r].c \in Cid /\ req[r].p # NoPid /\ \E f \in Eid : table[req[r].c][f] = req[r].p
      BY Zenon, <1>13, CtrInv DEF WaitWon, CtrInv, Entries
    <3> QED
      BY <2>2, <3>1, SlotInv DEF SlotInv
  <2>4. AllEntries' \subseteq AllEntries \ {req[r].p} /\ AllEntries \subseteq Pid
    BY <2>3, TypeOK DEF AllEntries, Entries, TypeOK
  <2> QED
    BY Zenon, <2>1, <2>4, ExitKept DEF ExitKept
<1>17. ASSUME NEW r \in Req, RemoveDestroy(r)
      PROVE  ExitKept'
  <2>0. [req EXCEPT ![r] = Idle] \in [Req -> Request] /\ req[r].c \in Cid
    BY Zenon, <1>17, HandType, IdleType, CtrInv DEF RemoveDestroy, CtrInv
  <2>1. proc' = proc /\ hpid' = hpid
    BY Zenon, <1>17, KillKeepsProc DEF RemoveDestroy, kernel, hand
  <2>2. CASE table' = table /\ exit' = exit
    BY <2>1, <2>2, ExitKept DEF ExitKept, AllEntries, Entries
  <2>3. CASE DropContainer([req EXCEPT ![r] = Idle], req[r].c)
    <3>1. /\ \A d \in Cid, e \in Eid : table'[d][e] = IF d = req[r].c THEN NoPid ELSE table[d][e]
        /\ \A p \in Pid : exit'[p] = (exit[p] /\ p \notin Entries(req[r].c))
      BY Zenon, <2>0, <2>3, TypeOK, DropTable
    <3>2. AllEntries' \subseteq AllEntries \ Entries(req[r].c) /\ AllEntries \subseteq Pid
      BY Zenon, <2>0, <3>1, SlotInv, TypeOK, DropEntries
    <3> QED
      BY Zenon, <2>1, <3>1, <3>2, ExitKept DEF ExitKept
  <2> QED
    BY Zenon, <1>17, <2>2, <2>3 DEF RemoveDestroy
<1>18. ASSUME NEW r \in Req, RemoveResources(r)
      PROVE  ExitKept'
  <2>0. [req EXCEPT ![r] = Idle] \in [Req -> Request] /\ req[r].c \in Cid
    BY Zenon, <1>18, HandType, IdleType, CtrInv DEF RemoveResources, CtrInv
  <2>1. proc' = proc /\ hpid' = hpid
    BY Zenon, <1>18 DEF RemoveResources, kernel, hand
  <2>2. /\ \A d \in Cid, e \in Eid : table'[d][e] = IF d = req[r].c THEN NoPid ELSE table[d][e]
        /\ \A p \in Pid : exit'[p] = (exit[p] /\ p \notin Entries(req[r].c))
    BY Zenon, <1>18, <2>0, TypeOK, DropTable DEF RemoveResources
  <2>3. AllEntries' \subseteq AllEntries \ Entries(req[r].c) /\ AllEntries \subseteq Pid
    BY Zenon, <2>0, <2>2, SlotInv, TypeOK, DropEntries
  <2> QED
    BY Zenon, <2>1, <2>2, <2>3, ExitKept DEF ExitKept
<1>19. ASSUME NEW r \in Req, HookEnd(r)
      PROVE  ExitKept'
  <2>1. UNCHANGED <<table, exit, hpid>>
    BY Zenon, <1>19 DEF HookEnd, hand
  <2>2. \A q \in Pid : proc'[q] = "free" => proc[q] = "free" \/ q = req[r].q
    BY Zenon, <1>0, <1>19 DEF HookEnd
  <2>3. req[r].q \notin AllEntries
    BY Zenon, <1>19, HookInv DEF HookEnd, HookInv
  <2>4. AllEntries' = AllEntries /\ AllEntries \subseteq Pid
    BY <2>1, TypeOK DEF AllEntries, Entries, TypeOK
  <2> QED
    BY Zenon, <2>1, <2>2, <2>3, <2>4, ExitKept DEF ExitKept
<1>31. ASSUME NEW p \in Pid, HandlerReap(p)
      PROVE  ExitKept'
  <2>1. table' = table /\ exit' = exit /\ hpid' = p /\ hpid = NoPid
    BY Zenon, <1>31, LockInv DEF HandlerReap, LockInv
  <2>2. \A q \in Pid : proc'[q] = "free" => proc[q] = "free" \/ q = p
    BY Zenon, <1>0, <1>31 DEF HandlerReap
  <2>3. AllEntries' = AllEntries /\ AllEntries \subseteq Pid
    BY <2>1, TypeOK DEF AllEntries, Entries, TypeOK
  <2> QED
    BY Zenon, <2>1, <2>2, <2>3, ExitKept DEF ExitKept
<1>33. ASSUME HandlerFind \/ HandlerDrained
      PROVE  ExitKept'
  <2>1. proc' = proc /\ table' = table
    BY Zenon, <1>33 DEF HandlerFind, HandlerDrained, kernel
  <2>2. AllEntries' = AllEntries /\ AllEntries \subseteq Pid
    BY <2>1, TypeOK DEF AllEntries, Entries, TypeOK
  <2>3. \A p \in AllEntries : exit[p] \/ hpid = p => exit'[p] \/ hpid' = p
    BY Zenon, <1>33, <2>2, TypeOK DEF HandlerFind, HandlerDrained, Tell, TypeOK
  <2> QED
    BY Zenon, <2>1, <2>2, <2>3, ExitKept DEF ExitKept
<1>40. ASSUME \/ \E r \in Req : StartOpen(r) \/ \E p \in Pid : HookSpawn(r, p)
              \/ \E r \in Req, c \in Cid, p \in Pid : CreateBegin(r, c, p) \/ \E e \in Exec : ExecBegin(r, c, e, p)
              \/ \E p \in Pid : ChildReady(p) \/ ChildOpens(p) \/ Exit(p)
      PROVE  ExitKept'
  BY Zenon, <1>3, <1>40, TypeOK, Lives
<1>41. ASSUME \/ \E r \in Req : \/ CreateFail(r) \/ CreateUndone(r) \/ ExecFail(r) \/ StartEnd(r)
                                \/ SignalFreeze(r) \/ SignalPids(r) \/ SignalKill(r) \/ SignalThaw(r)
                                \/ WaitSignalled(r) \/ WaitLost(r) \/ ReadSelect(r) \/ ReadEnd(r)
              \/ \E r \in Req, c \in Cid : StartBegin(r, c) \/ RemoveBegin(r, c)
              \/ \E r \in Req, c \in Cid, e \in Eid : WaitBegin(r, c, e) \/ ReadBegin(r, c, e)
              \/ \E r \in Req, c \in Cid, e \in Eid, k \in BOOLEAN : SignalBegin(r, c, e, k)
              \/ \E c \in Cid : Pause(c) \/ Resume(c)
              \/ HandlerRecv \/ HandlerEnd \/ (\E p \in Pid : HeirExit(p)) \/ UNCHANGED vars
      PROVE  ExitKept'
  BY Zenon, <1>2, <1>41, Quiet
<1> QED
  BY ZenonT(60), <1>1, <1>13, <1>17, <1>18, <1>19, <1>31, <1>33, <1>40, <1>41
  DEF Next, Begin, Locking, Running, Fail, Handle, Eid

\* Every step keeps NoZombieForgotten.
LEMMA ZombieStep ==
  ASSUME TypeOK, NoZombieForgotten, [Next]_vars
  PROVE  NoZombieForgotten'
<1>1. ASSUME NEW r \in Req, CreateOk(r)
      PROVE  NoZombieForgotten'
  BY Zenon, <1>1, TypeOK, NoZombieForgotten DEF CreateOk, kernel, hand, TypeOK, NoZombieForgotten
<1>2. ASSUME NEW r \in Req, CreateFail(r)
      PROVE  NoZombieForgotten'
  BY Zenon, <1>2, TypeOK, NoZombieForgotten DEF CreateFail, Kill, Alive, kernel, hand, TypeOK,
     NoZombieForgotten
<1>3. ASSUME NEW r \in Req, CreateUndone(r)
      PROVE  NoZombieForgotten'
  BY Zenon, <1>3, TypeOK, NoZombieForgotten DEF CreateUndone, kernel, hand, TypeOK, NoZombieForgotten
<1>4. ASSUME NEW r \in Req, ExecOk(r)
      PROVE  NoZombieForgotten'
  BY Zenon, <1>4, TypeOK, NoZombieForgotten DEF ExecOk, kernel, hand, TypeOK, NoZombieForgotten
<1>5. ASSUME NEW r \in Req, ExecFail(r)
      PROVE  NoZombieForgotten'
  BY Zenon, <1>5, TypeOK, NoZombieForgotten DEF ExecFail, Kill, Alive, kernel, hand, TypeOK,
     NoZombieForgotten
<1>6. ASSUME NEW r \in Req, StartOpen(r)
      PROVE  NoZombieForgotten'
  BY Zenon, <1>6, TypeOK, NoZombieForgotten DEF StartOpen, kernel, hand, TypeOK, NoZombieForgotten
<1>7. ASSUME NEW r \in Req, StartEnd(r)
      PROVE  NoZombieForgotten'
  BY Zenon, <1>7, TypeOK, NoZombieForgotten DEF StartEnd, kernel, hand, TypeOK, NoZombieForgotten
<1>8. ASSUME NEW r \in Req, SignalFreeze(r)
      PROVE  NoZombieForgotten'
  BY Zenon, <1>8, TypeOK, NoZombieForgotten DEF SignalFreeze, kernel, hand, TypeOK, NoZombieForgotten
<1>9. ASSUME NEW r \in Req, SignalPids(r)
      PROVE  NoZombieForgotten'
  BY Zenon, <1>9, TypeOK, NoZombieForgotten DEF SignalPids, In, Alive, kernel, hand, TypeOK,
     NoZombieForgotten
<1>10. ASSUME NEW r \in Req, SignalKill(r)
      PROVE  NoZombieForgotten'
  BY Zenon, <1>10, TypeOK, NoZombieForgotten DEF SignalKill, Kill, Alive, kernel, hand, TypeOK,
     NoZombieForgotten
<1>11. ASSUME NEW r \in Req, SignalThaw(r)
      PROVE  NoZombieForgotten'
  BY Zenon, <1>11, TypeOK, NoZombieForgotten DEF SignalThaw, kernel, hand, TypeOK, NoZombieForgotten
<1>12. ASSUME NEW r \in Req, WaitSignalled(r)
      PROVE  NoZombieForgotten'
  BY Zenon, <1>12, TypeOK, NoZombieForgotten DEF WaitSignalled, kernel, hand, TypeOK, NoZombieForgotten
<1>13. ASSUME NEW r \in Req, WaitWon(r)
      PROVE  NoZombieForgotten'
  BY Zenon, <1>13, TypeOK, NoZombieForgotten DEF WaitWon, kernel, hand, TypeOK, NoZombieForgotten
<1>14. ASSUME NEW r \in Req, WaitLost(r)
      PROVE  NoZombieForgotten'
  BY Zenon, <1>14, TypeOK, NoZombieForgotten DEF WaitLost, kernel, hand, TypeOK, NoZombieForgotten
<1>15. ASSUME NEW r \in Req, ReadSelect(r)
      PROVE  NoZombieForgotten'
  BY Zenon, <1>15, TypeOK, NoZombieForgotten DEF ReadSelect, kernel, hand, TypeOK, NoZombieForgotten
<1>16. ASSUME NEW r \in Req, ReadEnd(r)
      PROVE  NoZombieForgotten'
  BY Zenon, <1>16, TypeOK, NoZombieForgotten DEF ReadEnd, kernel, hand, TypeOK, NoZombieForgotten
<1>17. ASSUME NEW r \in Req, RemoveDestroy(r)
      PROVE  NoZombieForgotten'
  BY Zenon, <1>17, TypeOK, NoZombieForgotten DEF RemoveDestroy, Kill, In, DropContainer, Alive,
     kernel, hand, TypeOK, NoZombieForgotten
<1>18. ASSUME NEW r \in Req, RemoveResources(r)
      PROVE  NoZombieForgotten'
  BY Zenon, <1>18, TypeOK, NoZombieForgotten DEF RemoveResources, DropContainer, kernel, hand,
     TypeOK, NoZombieForgotten
<1>19. ASSUME NEW r \in Req, HookEnd(r)
      PROVE  NoZombieForgotten'
  BY Zenon, <1>19, TypeOK, NoZombieForgotten DEF HookEnd, kernel, hand, TypeOK, NoZombieForgotten
<1>20. ASSUME NEW r \in Req, NEW p \in Pid, HookSpawn(r, p)
      PROVE  NoZombieForgotten'
  BY Zenon, <1>20, TypeOK, NoZombieForgotten DEF HookSpawn, Spawn, kernel, hand, TypeOK,
     NoZombieForgotten
<1>21. ASSUME NEW r \in Req, NEW c \in Cid, NEW p \in Pid, CreateBegin(r, c, p)
      PROVE  NoZombieForgotten'
  BY Zenon, <1>21, TypeOK, NoZombieForgotten DEF CreateBegin, Spawn, kernel, hand, TypeOK,
     NoZombieForgotten
<1>22. ASSUME NEW r \in Req, NEW c \in Cid, NEW e \in Exec, NEW p \in Pid, ExecBegin(r, c, e, p)
      PROVE  NoZombieForgotten'
  BY Zenon, <1>22, TypeOK, NoZombieForgotten DEF ExecBegin, Spawn, kernel, hand, TypeOK,
     NoZombieForgotten
<1>23. ASSUME NEW r \in Req, NEW c \in Cid, StartBegin(r, c)
      PROVE  NoZombieForgotten'
  BY Zenon, <1>23, TypeOK, NoZombieForgotten DEF StartBegin, kernel, hand, TypeOK, NoZombieForgotten
<1>24. ASSUME NEW r \in Req, NEW c \in Cid, RemoveBegin(r, c)
      PROVE  NoZombieForgotten'
  BY Zenon, <1>24, TypeOK, NoZombieForgotten DEF RemoveBegin, Kill, Alive, Entries, kernel, hand,
     TypeOK, NoZombieForgotten
<1>25. ASSUME NEW r \in Req, NEW c \in Cid, NEW e \in Eid, WaitBegin(r, c, e)
      PROVE  NoZombieForgotten'
  BY Zenon, <1>25, TypeOK, NoZombieForgotten DEF WaitBegin, kernel, hand, TypeOK, NoZombieForgotten
<1>26. ASSUME NEW r \in Req, NEW c \in Cid, NEW e \in Eid, ReadBegin(r, c, e)
      PROVE  NoZombieForgotten'
  BY Zenon, <1>26, TypeOK, NoZombieForgotten DEF ReadBegin, kernel, hand, TypeOK, NoZombieForgotten
<1>27. ASSUME NEW r \in Req, NEW c \in Cid, NEW e \in Eid, NEW k \in BOOLEAN, SignalBegin(r, c, e, k)
      PROVE  NoZombieForgotten'
  BY Zenon, <1>27, TypeOK, NoZombieForgotten DEF SignalBegin, Kill, Alive, kernel, hand, TypeOK,
     NoZombieForgotten
<1>28. ASSUME NEW c \in Cid, Pause(c)
      PROVE  NoZombieForgotten'
  BY Zenon, <1>28, TypeOK, NoZombieForgotten DEF Pause, kernel, hand, TypeOK, NoZombieForgotten
<1>29. ASSUME NEW c \in Cid, Resume(c)
      PROVE  NoZombieForgotten'
  BY Zenon, <1>29, TypeOK, NoZombieForgotten DEF Resume, kernel, hand, TypeOK, NoZombieForgotten
<1>30. ASSUME HandlerRecv
      PROVE  NoZombieForgotten'
  BY Zenon, <1>30, TypeOK, NoZombieForgotten DEF HandlerRecv, kernel, hand, TypeOK, NoZombieForgotten
<1>31. ASSUME NEW p \in Pid, HandlerReap(p)
      PROVE  NoZombieForgotten'
  BY Zenon, <1>31, TypeOK, NoZombieForgotten DEF HandlerReap, kernel, hand, TypeOK, NoZombieForgotten
<1>32. ASSUME HandlerEnd
      PROVE  NoZombieForgotten'
  BY Zenon, <1>32, TypeOK, NoZombieForgotten DEF HandlerEnd, kernel, hand, TypeOK, NoZombieForgotten
<1>33. ASSUME HandlerFind
      PROVE  NoZombieForgotten'
  BY Zenon, <1>33, TypeOK, NoZombieForgotten DEF HandlerFind, Tell, kernel, hand, TypeOK,
     NoZombieForgotten
<1>34. ASSUME HandlerDrained
      PROVE  NoZombieForgotten'
  BY Zenon, <1>34, TypeOK, NoZombieForgotten DEF HandlerDrained, Tell, kernel, hand, TypeOK,
     NoZombieForgotten
<1>35. ASSUME NEW p \in Pid, ChildReady(p)
      PROVE  NoZombieForgotten'
  BY Zenon, <1>35, TypeOK, NoZombieForgotten DEF ChildReady, kernel, hand, TypeOK, NoZombieForgotten
<1>36. ASSUME NEW p \in Pid, ChildOpens(p)
      PROVE  NoZombieForgotten'
  BY Zenon, <1>36, TypeOK, NoZombieForgotten DEF ChildOpens, kernel, hand, TypeOK, NoZombieForgotten
<1>37. ASSUME NEW p \in Pid, Exit(p)
      PROVE  NoZombieForgotten'
  BY Zenon, <1>37, TypeOK, NoZombieForgotten DEF Exit, Alive, kernel, hand, TypeOK, NoZombieForgotten
<1>38. ASSUME NEW p \in Pid, HeirExit(p)
      PROVE  NoZombieForgotten'
  BY Zenon, <1>38, TypeOK, NoZombieForgotten DEF HeirExit, kernel, hand, TypeOK, NoZombieForgotten
<1>39. ASSUME UNCHANGED vars
      PROVE  NoZombieForgotten'
  BY Zenon, <1>39, TypeOK, NoZombieForgotten DEF vars, kernel, hand, TypeOK, NoZombieForgotten
<1> QED
  BY Zenon, <1>1, <1>2, <1>3, <1>4, <1>5, <1>6, <1>7, <1>8, <1>9, <1>10, <1>11, <1>12, <1>13,
     <1>14, <1>15, <1>16, <1>17, <1>18, <1>19, <1>20, <1>21, <1>22, <1>23, <1>24, <1>25,
     <1>26, <1>27, <1>28, <1>29, <1>30, <1>31, <1>32, <1>33, <1>34, <1>35, <1>36, <1>37,
     <1>38, <1>39
  DEF Next, Begin, Locking, Running, Fail, Handle, Eid
=============================================================================
