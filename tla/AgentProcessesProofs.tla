------------------------ MODULE AgentProcessesProofs ------------------------
(* What AgentProcesses guarantees for any number of containers, execs, pids and    *)
(* requests, in every setting: the last part of its inductive invariant, about the *)
(* answers of WaitProcess, and the theorems.                                       *)
EXTENDS AgentProcessesTables

USE ProcessAssumption
-----------------------------------------------------------------------------
(* The answers of WaitProcess *)

\* A step that leaves the processes known and their exits as they are, and that begins
\* no wait.
LEMMA WaitFrame ==
  ASSUME WaitChannel, AnswerIsExit, table' = table,
         \A p \in Pid : exit[p] => exit'[p],
         NEW r \in Req, \A s \in Req \ {r} : req'[s] = req[s],
         req'[r].pc \notin {"wait", "look"}, req'[r].chan # "open"
  PROVE  (WaitChannel /\ AnswerIsExit)'
<1>1. AllEntries' = AllEntries
  BY DEF AllEntries, Entries
<1>2. ASSUME NEW s \in Req, req'[s].chan = "open"
      PROVE  req'[s].pc \in {"wait", "look"} /\ (req[s].p \in Entries(req[s].c))'
  <2>1. req'[s] = req[s]
    BY Zenon, <1>2
  <2>2. req[s].pc \in {"wait", "look"} /\ req[s].p \in Entries(req[s].c)
    BY Zenon, <1>2, <2>1 DEF WaitChannel
  <2> QED
    BY Zenon, <2>1, <2>2 DEF Entries
<1>3. \A s \in Req : req'[s].pc \in {"wait", "look"} => req'[s] = req[s]
  BY Zenon
<1>4. WaitChannel'
  BY Zenon, <1>2, <1>3 DEF WaitChannel
<1>5. ASSUME NEW s \in Req, req'[s].pc = "look"
      PROVE  req'[s].chan # "unset" /\ (req'[s].p \in AllEntries => exit'[req'[s].p])
  <2>1. req[s].pc = "look" /\ req'[s].p = req[s].p /\ req'[s].chan = req[s].chan
    BY Zenon, <1>3, <1>5
  <2>2. req[s].p \in Pid /\ req[s].chan # "unset" /\ (req[s].p \in AllEntries => exit[req[s].p])
    BY Zenon, <2>1 DEF WaitChannel, AnswerIsExit
  <2> QED
    BY Zenon, <2>1, <2>2
<1>6. AnswerIsExit'
  BY Zenon, <1>1, <1>5 DEF AnswerIsExit
<1> QED
  BY Zenon, <1>4, <1>6

\* A step that leaves the waits as they are.
LEMMA WaitSame ==
  ASSUME WaitChannel, AnswerIsExit, table' = table,
         \A p \in Pid : exit[p] => exit'[p],
         \A s \in Req : /\ req'[s].pc = req[s].pc /\ req'[s].c = req[s].c /\ req'[s].p = req[s].p
                        /\ \/ req'[s].chan = req[s].chan
                           \/ req[s].pc \notin {"wait", "look"} /\ req'[s].chan # "open"
  PROVE  (WaitChannel /\ AnswerIsExit)'
<1>1. AllEntries' = AllEntries
  BY DEF AllEntries, Entries
<1>2. ASSUME NEW s \in Req, req'[s].chan = "open"
      PROVE  req'[s].pc \in {"wait", "look"} /\ (req[s].p \in Entries(req[s].c))'
  <2>1. req'[s].pc = req[s].pc /\ req'[s].c = req[s].c /\ req'[s].p = req[s].p /\ req[s].chan = "open"
    BY Zenon, <1>2
  <2>2. req[s].pc \in {"wait", "look"} /\ req[s].p \in Entries(req[s].c)
    BY Zenon, <2>1 DEF WaitChannel
  <2> QED
    BY <2>1, <2>2 DEF Entries
<1>3. \A s \in Req : req'[s].pc \in {"wait", "look"} =>
                       req[s].pc = req'[s].pc /\ req'[s].p = req[s].p /\ req'[s].chan = req[s].chan
  BY Zenon
<1>4. WaitChannel'
  BY Zenon, <1>2, <1>3 DEF WaitChannel
<1>5. ASSUME NEW s \in Req, req'[s].pc = "look"
      PROVE  req'[s].chan # "unset" /\ (req'[s].p \in AllEntries => exit'[req'[s].p])
  <2>1. req[s].pc = "look" /\ req'[s].p = req[s].p /\ req'[s].chan = req[s].chan
    BY Zenon, <1>3, <1>5
  <2>2. req[s].p \in Pid /\ req[s].chan # "unset" /\ (req[s].p \in AllEntries => exit[req[s].p])
    BY Zenon, <2>1 DEF WaitChannel, AnswerIsExit
  <2> QED
    BY Zenon, <2>1, <2>2
<1>6. AnswerIsExit'
  BY Zenon, <1>1, <1>5 DEF AnswerIsExit
<1> QED
  BY Zenon, <1>4, <1>6

\* A pid that enters a table has no wait of its own yet.
LEMMA WaitGrow ==
  ASSUME TypeOK, CtrInv, WaitChannel, AnswerIsExit, exit' = exit,
         NEW r \in Req, NEW e \in Eid, req[r].c \in Cid, req[r].p \in Pid,
         \A s \in Req \ {r} : req'[s] = req[s] /\ req[s].p # req[r].p,
         req'[r].pc = "idle", req'[r].chan = "none",
         table[req[r].c][e] = NoPid,
         table' = [table EXCEPT ![req[r].c][e] = req[r].p]
  PROVE  (WaitChannel /\ AnswerIsExit)'
<1>1. \A d \in Cid, f \in Eid : table'[d][f] = IF d = req[r].c /\ f = e THEN req[r].p ELSE table[d][f]
  BY Zenon DEF TypeOK
<1>2. \A d \in Cid : Entries(d) \subseteq Entries(d)'
  BY <1>1 DEF Entries, AllEntries
<1>3. AllEntries' \subseteq AllEntries \cup {req[r].p}
  BY <1>1 DEF Entries, AllEntries
<1>4. WaitChannel'
  BY Zenon, <1>2, CtrInv DEF WaitChannel, CtrInv
<1>5. AnswerIsExit'
  BY Zenon, <1>3 DEF AnswerIsExit
<1> QED
  BY Zenon, <1>4, <1>5

\* A container that goes closes the channels of its processes.
LEMMA WaitDrop ==
  ASSUME TypeOK, CtrInv, SlotInv, WaitChannel, AnswerIsExit, NEW r \in Req, NEW c \in Cid,
         DropContainer([req EXCEPT ![r] = Idle], c)
  PROVE  (WaitChannel /\ AnswerIsExit)'
<1> DEFINE R == [req EXCEPT ![r] = Idle]
<1>1. R \in [Req -> Request] /\ DropContainer(R, c)
  BY Zenon, HandType, IdleType
<1>3. \A s \in Req : R[s] = IF s = r THEN Idle ELSE req[s]
  BY Zenon, HandType
<1>4. Idle.pc = "idle" /\ Idle.chan = "none"
  BY Zenon DEF Idle
<1> HIDE DEF R
<1>2. \A s \in Req : /\ req'[s].pc = R[s].pc /\ req'[s].p = R[s].p /\ req'[s].c = R[s].c
                    /\ \/ req'[s].chan = R[s].chan /\ (R[s].chan = "open" => R[s].p \notin Entries(c))
                       \/ req'[s].chan = "closed" /\ R[s].chan = "open"
  BY SMTT(30), <1>1, DropFrame, TypeOK
<1>7. /\ \A s \in Req : req'[s].pc \in {"wait", "look"} => s # r
      /\ \A s \in Req \ {r} : /\ req'[s].pc = req[s].pc /\ req'[s].p = req[s].p
                             /\ req'[s].chan \in {req[s].chan, "closed"}
  <2>1. \A s \in Req \ {r} : R[s] = req[s]
    BY Zenon, <1>3
  <2>2. R[r] = Idle
    BY Zenon, <1>3
  <2>3. req'[r].pc = "idle"
    BY Zenon, <1>2, <1>4, <2>2
  <2>4. \A s \in Req \ {r} : req'[s].chan = R[s].chan \/ req'[s].chan = "closed"
    BY Zenon, <1>2
  <2> QED
    BY ZenonT(60), <1>2, <2>1, <2>3, <2>4
<1>5. /\ \A d \in Cid, e \in Eid : table'[d][e] = IF d = c THEN NoPid ELSE table[d][e]
      /\ \A p \in Pid : exit'[p] = (exit[p] /\ p \notin Entries(c))
  BY Zenon, DropTable
<1>6. AllEntries' \subseteq AllEntries \ Entries(c) /\ AllEntries \subseteq Pid
  BY Zenon, <1>5, DropEntries
<1>8. ASSUME NEW s \in Req, req'[s].chan = "open"
      PROVE  req'[s].pc \in {"wait", "look"} /\ (req[s].p \in Entries(req[s].c))'
  <2>1. s # r /\ req[s].chan = "open" /\ req[s].p \notin Entries(c)
    BY Zenon, <1>2, <1>3, <1>4, <1>8
  <2>2. req[s].pc \in {"wait", "look"} /\ req[s].p \in Entries(req[s].c) /\ req[s].c \in Cid
    BY Zenon, <2>1, WaitChannel, CtrInv DEF WaitChannel, CtrInv
  <2>3. req'[s].pc = req[s].pc /\ req'[s].p = req[s].p /\ req'[s].c = req[s].c
    BY Zenon, <1>2, <1>3, <2>1
  <2>4. PICK e \in Eid : req[s].p = table[req[s].c][e] /\ req[s].p # NoPid
    BY Zenon, <2>2 DEF Entries
  <2>5. req[s].c # c
    BY Zenon, <2>1, <2>2
  <2>6. req'[s].p = table'[req'[s].c][e] /\ req'[s].p # NoPid
    BY Zenon, <1>5, <2>2, <2>3, <2>4, <2>5
  <2> QED
    BY Zenon, <2>2, <2>3, <2>6 DEF Entries
<1>9. WaitChannel'
  <2>1. ASSUME NEW s \in Req, req'[s].pc \in {"wait", "look"}
        PROVE  req'[s].p \in Pid /\ req'[s].chan \in {"open", "closed", "code"}
    BY Zenon, <1>7, <2>1, WaitChannel DEF WaitChannel
  <2> QED
    BY Zenon, <1>8, <2>1 DEF WaitChannel
<1>10. ASSUME NEW s \in Req, req'[s].pc = "look"
       PROVE  req'[s].chan # "unset" /\ (req'[s].p \in AllEntries' => exit'[req'[s].p])
  <2>1. s # r /\ req[s].pc = "look" /\ req'[s].p = req[s].p /\ req[s].p \in Pid /\ req[s].chan # "unset"
    <3>1. s # r /\ req[s].pc = "look" /\ req'[s].p = req[s].p
      BY Zenon, <1>7, <1>10
    <3> QED
      BY Zenon, <3>1, WaitChannel DEF WaitChannel
  <2> QED
    BY Zenon, <1>2, <1>3, <1>5, <1>6, <2>1, AnswerIsExit DEF AnswerIsExit
<1>11. AnswerIsExit'
  BY Zenon, <1>10 DEF AnswerIsExit
<1> QED
  BY Zenon, <1>9, <1>11

\* Every step keeps WaitChannel and AnswerIsExit.
LEMMA AnswerStep ==
  ASSUME TypeOK, CtrInv, ChildInv, SlotInv, TableInv, WaitChannel, AnswerIsExit, [Next]_vars
  PROVE  (WaitChannel /\ AnswerIsExit)'
<1>1. ASSUME NEW r \in Req, CreateOk(r)
      PROVE  (WaitChannel /\ AnswerIsExit)'
  <2>1. /\ req[r].pc = "made" /\ table' = [table EXCEPT ![req[r].c][InitE] = req[r].p]
        /\ exit' = exit /\ req' = [req EXCEPT ![r] = Idle]
    BY Zenon, <1>1 DEF CreateOk, Done
  <2>2. req[r].c \in Cid /\ InitE \in Eid /\ req[r].p \in Pid
    BY Zenon, <2>1, CtrInv, ChildInv, HandType DEF CtrInv, ChildInv, Child, Request, Eid
  <2>3. \A s \in Req \ {r} : req'[s] = req[s] /\ req[s].p # req[r].p
    BY <2>1, ChildInv DEF ChildInv, Child
  <2>4. req'[r].pc = "idle" /\ req'[r].chan = "none"
    BY Zenon, <2>1, HandType DEF Idle
  <2>5. table[req[r].c][InitE] = NoPid
    BY Zenon, <2>1, <2>2, TableInv DEF TableInv, Child
  <2> QED
    BY Zenon, <2>1, <2>2, <2>3, <2>4, <2>5, TypeOK, CtrInv, WaitChannel, AnswerIsExit, WaitGrow
<1>2. ASSUME NEW r \in Req, CreateFail(r)
      PROVE  (WaitChannel /\ AnswerIsExit)'
  <2>1. /\ \A s \in Req \ {r} : req'[s] = req[s]
        /\ req'[r].pc \notin {"wait", "look"} /\ req'[r].chan # "open"
    BY ZenonT(60), <1>2, HandType, WaitChannel DEF CreateFail, Go, After, Request, Idle, WaitChannel
  <2>2. table' = table /\ exit' = exit
    BY Zenon, <1>2 DEF CreateFail
  <2> QED
    BY Zenon, <2>1, <2>2, WaitChannel, AnswerIsExit, WaitFrame
<1>3. ASSUME NEW r \in Req, CreateUndone(r)
      PROVE  (WaitChannel /\ AnswerIsExit)'
  <2>1. /\ \A s \in Req \ {r} : req'[s] = req[s]
        /\ req'[r].pc \notin {"wait", "look"} /\ req'[r].chan # "open"
    BY Zenon, <1>3, HandType, WaitChannel DEF CreateUndone, Done, Request, Idle, WaitChannel
  <2>2. table' = table /\ exit' = exit
    BY Zenon, <1>3 DEF CreateUndone
  <2> QED
    BY Zenon, <2>1, <2>2, WaitChannel, AnswerIsExit, WaitFrame
<1>4. ASSUME NEW r \in Req, ExecOk(r)
      PROVE  (WaitChannel /\ AnswerIsExit)'
  <2>1. /\ req[r].pc = "exec" /\ table' = [table EXCEPT ![req[r].c][req[r].e] = req[r].p]
        /\ exit' = exit /\ req' = [req EXCEPT ![r] = Idle]
    BY Zenon, <1>4 DEF ExecOk, Done
  <2>2. req[r].c \in Cid /\ req[r].e \in Eid /\ req[r].p \in Pid
    BY Zenon, <2>1, CtrInv, ChildInv, HandType DEF CtrInv, ChildInv, Child, Request, Eid
  <2>3. \A s \in Req \ {r} : req'[s] = req[s] /\ req[s].p # req[r].p
    BY <2>1, ChildInv DEF ChildInv, Child
  <2>4. req'[r].pc = "idle" /\ req'[r].chan = "none"
    BY Zenon, <2>1, HandType DEF Idle
  <2>5. table[req[r].c][req[r].e] = NoPid
    BY Zenon, <2>1, <2>2, TableInv DEF TableInv, Child
  <2> QED
    BY Zenon, <2>1, <2>2, <2>3, <2>4, <2>5, TypeOK, CtrInv, WaitChannel, AnswerIsExit, WaitGrow
<1>5. ASSUME NEW r \in Req, ExecFail(r)
      PROVE  (WaitChannel /\ AnswerIsExit)'
  <2>1. /\ \A s \in Req \ {r} : req'[s] = req[s]
        /\ req'[r].pc \notin {"wait", "look"} /\ req'[r].chan # "open"
    BY Zenon, <1>5, HandType, WaitChannel DEF ExecFail, Done, Request, Idle, WaitChannel
  <2>2. table' = table /\ exit' = exit
    BY Zenon, <1>5 DEF ExecFail
  <2> QED
    BY Zenon, <2>1, <2>2, WaitChannel, AnswerIsExit, WaitFrame
<1>6. ASSUME NEW r \in Req, StartOpen(r)
      PROVE  (WaitChannel /\ AnswerIsExit)'
  <2>1. /\ \A s \in Req \ {r} : req'[s] = req[s]
        /\ req'[r].pc \notin {"wait", "look"} /\ req'[r].chan # "open"
    BY Zenon, <1>6, HandType, WaitChannel DEF StartOpen, Go, After, Request, Idle, WaitChannel
  <2>2. table' = table /\ exit' = exit
    BY Zenon, <1>6 DEF StartOpen
  <2> QED
    BY Zenon, <2>1, <2>2, WaitChannel, AnswerIsExit, WaitFrame
<1>7. ASSUME NEW r \in Req, StartEnd(r)
      PROVE  (WaitChannel /\ AnswerIsExit)'
  <2>1. /\ \A s \in Req \ {r} : req'[s] = req[s]
        /\ req'[r].pc \notin {"wait", "look"} /\ req'[r].chan # "open"
    BY Zenon, <1>7, HandType, WaitChannel DEF StartEnd, Done, Request, Idle, WaitChannel
  <2>2. table' = table /\ exit' = exit
    BY Zenon, <1>7 DEF StartEnd
  <2> QED
    BY Zenon, <2>1, <2>2, WaitChannel, AnswerIsExit, WaitFrame
<1>8. ASSUME NEW r \in Req, SignalFreeze(r)
      PROVE  (WaitChannel /\ AnswerIsExit)'
  <2>1. /\ \A s \in Req \ {r} : req'[s] = req[s]
        /\ req'[r].pc \notin {"wait", "look"} /\ req'[r].chan # "open"
    BY ZenonT(60), <1>8, HandType, WaitChannel DEF SignalFreeze, Request, Idle, WaitChannel
  <2>2. table' = table /\ exit' = exit
    BY Zenon, <1>8 DEF SignalFreeze
  <2> QED
    BY Zenon, <2>1, <2>2, WaitChannel, AnswerIsExit, WaitFrame
<1>9. ASSUME NEW r \in Req, SignalPids(r)
      PROVE  (WaitChannel /\ AnswerIsExit)'
  <2>1. /\ \A s \in Req \ {r} : req'[s] = req[s]
        /\ req'[r].pc \notin {"wait", "look"} /\ req'[r].chan # "open"
    <3>1. CASE ctr[req[r].c] = "none"
      BY <1>9, <3>1, HandType DEF SignalPids, Done, Idle
    <3>2. CASE ctr[req[r].c] # "none"
      <4>1. req' = [req EXCEPT ![r] = [@ EXCEPT !.pc = "kill", !.pids = In(req[r].c)]]
        BY Zenon, <1>9, <3>2 DEF SignalPids
      <4> QED
        BY <1>9, <4>1, HandType, WaitChannel DEF Request, WaitChannel, SignalPids
    <3> QED
      BY Zenon, <3>1, <3>2
  <2>2. table' = table /\ exit' = exit
    BY Zenon, <1>9 DEF SignalPids
  <2> QED
    BY Zenon, <2>1, <2>2, WaitChannel, AnswerIsExit, WaitFrame
<1>10. ASSUME NEW r \in Req, SignalKill(r)
      PROVE  (WaitChannel /\ AnswerIsExit)'
  <2>1. /\ \A s \in Req \ {r} : req'[s] = req[s]
        /\ req'[r].pc \notin {"wait", "look"} /\ req'[r].chan # "open"
    BY <1>10, HandType, WaitChannel DEF SignalKill, Request, Idle, WaitChannel
  <2>2. table' = table /\ exit' = exit
    BY Zenon, <1>10 DEF SignalKill
  <2> QED
    BY Zenon, <2>1, <2>2, WaitChannel, AnswerIsExit, WaitFrame
<1>11. ASSUME NEW r \in Req, SignalThaw(r)
      PROVE  (WaitChannel /\ AnswerIsExit)'
  <2>1. /\ \A s \in Req \ {r} : req'[s] = req[s]
        /\ req'[r].pc \notin {"wait", "look"} /\ req'[r].chan # "open"
    BY Zenon, <1>11, HandType, WaitChannel DEF SignalThaw, Done, Request, Idle, WaitChannel
  <2>2. table' = table /\ exit' = exit
    BY Zenon, <1>11 DEF SignalThaw
  <2> QED
    BY Zenon, <2>1, <2>2, WaitChannel, AnswerIsExit, WaitFrame
<1>12. ASSUME NEW r \in Req, WaitSignalled(r)
      PROVE  (WaitChannel /\ AnswerIsExit)'
  <2>1. /\ \A s \in Req \ {r} : req'[s] = req[s]
        /\ req'[r].pc = "look" /\ req'[r].c = req[r].c /\ req'[r].p = req[r].p /\ req'[r].chan = req[r].chan
    BY <1>12, HandType DEF WaitSignalled, Request
  <2>2. req[r].pc = "wait" /\ table' = table /\ exit' = exit /\ (exit[req[r].p] \/ req[r].p \notin AllEntries)
    BY Zenon, <1>12 DEF WaitSignalled
  <2>3. AllEntries' = AllEntries
    BY <2>2 DEF AllEntries, Entries
  <2>4. \A s \in Req : /\ req'[s].c = req[s].c /\ req'[s].p = req[s].p /\ req'[s].chan = req[s].chan
                       /\ req'[s].pc = req[s].pc \/ (s = r /\ req'[s].pc = "look")
    BY Zenon, <2>1
  <2>5. ASSUME NEW s \in Req, req'[s].chan = "open"
        PROVE  req'[s].pc \in {"wait", "look"} /\ (req[s].p \in Entries(req[s].c))'
    <3>1. req[s].pc \in {"wait", "look"} /\ req[s].p \in Entries(req[s].c)
      BY Zenon, <2>4, <2>5, WaitChannel DEF WaitChannel
    <3> QED
      BY <2>2, <2>4, <3>1 DEF Entries
  <2>6. \A s \in Req : req'[s].pc \in {"wait", "look"} => req[s].pc \in {"wait", "look"}
    BY Zenon, <2>2, <2>4
  <2>7. WaitChannel'
    BY Zenon, <2>4, <2>5, <2>6, WaitChannel DEF WaitChannel
  <2>8. req[r].chan # "unset"
    BY Zenon, <2>2, WaitChannel DEF WaitChannel
  <2>9. AnswerIsExit'
    BY SMTT(30), <2>1, <2>2, <2>3, <2>8, AnswerIsExit DEF AnswerIsExit
  <2> QED
    BY Zenon, <2>7, <2>9
<1>13. ASSUME NEW r \in Req, WaitWon(r)
      PROVE  (WaitChannel /\ AnswerIsExit)'
  <2> DEFINE p == req[r].p
  <2>1. req[r].pc = "look" /\ p \in Entries(req[r].c) /\ req[r].c \in Cid /\ p \in Pid /\ p # NoPid
    BY Zenon, <1>13, CtrInv, WaitChannel DEF WaitWon, CtrInv, WaitChannel, Entries
  <2>2. p \in AllEntries /\ exit[p]
    BY ZenonT(60), <2>1, AnswerIsExit DEF AnswerIsExit, AllEntries
  <2>3. /\ req'[r].pc = "idle"
        /\ \A s \in Req \ {r} : req'[s].pc = req[s].pc /\ req'[s].p = req[s].p /\ req'[s].c = req[s].c
    BY <1>13, HandType DEF WaitWon, Woken, Idle, Request
  <2>4. ASSUME NEW s \in Req
        PROVE  /\ s = r => req'[s].chan = "none"
               /\ s # r /\ req'[s].chan = "open" => req[s].chan = "open" /\ req[s].p # p
               /\ s # r /\ req[s].pc \in {"wait", "look"} => req'[s].chan \in {"code", req[s].chan}
    <3> DEFINE told == [t \in Req |-> IF t = r THEN Idle
                                     ELSE IF req[t].p = p /\ req[t].chan = "open"
                                          THEN [req[t] EXCEPT !.chan = "code"] ELSE req[t]]
    <3>1. req' = IF setting.passfd THEN told ELSE Woken(told, p)
      BY Zenon, <1>13, <2>2 DEF WaitWon, Value
    <3>2. told[s] \in Request
      BY HandType, IdleType DEF Request
    <3>3. /\ s = r => told[s].chan = "none" /\ told[s].pc = "idle"
          /\ s # r => told[s].pc = req[s].pc
          /\ s # r /\ told[s].chan = "open" => req[s].chan = "open" /\ req[s].p # p
          /\ s # r => told[s].chan \in {"code", req[s].chan}
      BY HandType DEF Request, Idle
    <3> HIDE DEF told
    <3>4. req'[s] = told[s] \/ (told[s].pc = "read" /\ req'[s] = [told[s] EXCEPT !.chan = "woken"])
      BY Zenon, <3>1 DEF Woken
    <3>5. req'[s].chan = told[s].chan \/ (told[s].pc = "read" /\ req'[s].chan = "woken")
      BY Zenon, <3>2, <3>4 DEF Request
    <3> QED
      BY Zenon, <3>3, <3>5
  <2>5. \A d \in Cid, e \in Eid : table'[d][e] = IF d = req[r].c /\ table[d][e] = p THEN NoPid ELSE table[d][e]
    BY Zenon, <1>13, TypeOK DEF WaitWon, TypeOK
  <2>6. \A q \in Pid : q # p => exit'[q] = exit[q]
    BY Zenon, <1>13, TypeOK DEF WaitWon, TypeOK
  <2> HIDE DEF p
  <2>7. \A d \in Cid : Entries(d)' = Entries(d) \ {p}
    <3>1. \A d \in Cid, e \in Eid : table[d][e] = p => d = req[r].c
      BY <2>1, SlotInv DEF SlotInv, Entries
    <3> QED
      BY <2>1, <2>5, <3>1 DEF Entries
  <2>8. AllEntries' = AllEntries \ {p}
    BY <2>7 DEF AllEntries
  <2>9. ASSUME NEW s \in Req, req'[s].chan = "open"
        PROVE  req'[s].pc \in {"wait", "look"} /\ (req[s].p \in Entries(req[s].c))'
    <3>1. s # r /\ req[s].chan = "open" /\ req[s].p # p
      BY Zenon, <2>4, <2>9
    <3>2. req[s].pc \in {"wait", "look"} /\ req[s].p \in Entries(req[s].c) /\ req[s].c \in Cid
      BY Zenon, <3>1, WaitChannel, CtrInv DEF WaitChannel, CtrInv
    <3> QED
      BY Zenon, <2>3, <2>7, <3>1, <3>2
  <2>10. WaitChannel'
    BY Zenon, <2>3, <2>4, <2>9, WaitChannel DEF WaitChannel
  <2>11. ASSUME NEW s \in Req, req'[s].pc = "look"
         PROVE  req'[s].chan # "unset" /\ (req'[s].p \in AllEntries' => exit'[req'[s].p])
    <3>1. s # r /\ req[s].pc = "look" /\ req'[s].p = req[s].p /\ req[s].p \in Pid /\ req[s].chan # "unset"
      BY Zenon, <2>3, <2>11, WaitChannel DEF WaitChannel
    <3> QED
      BY Zenon, <2>4, <2>6, <2>8, <3>1, AnswerIsExit DEF AnswerIsExit
  <2>12. AnswerIsExit'
    BY Zenon, <2>11 DEF AnswerIsExit
  <2> QED
    BY Zenon, <2>10, <2>12
<1>14. ASSUME NEW r \in Req, WaitLost(r)
      PROVE  (WaitChannel /\ AnswerIsExit)'
  <2>1. /\ \A s \in Req \ {r} : req'[s] = req[s]
        /\ req'[r].pc \notin {"wait", "look"} /\ req'[r].chan # "open"
    BY Zenon, <1>14, HandType, WaitChannel DEF WaitLost, Done, Request, Idle, WaitChannel
  <2>2. table' = table /\ exit' = exit
    BY Zenon, <1>14 DEF WaitLost
  <2> QED
    BY Zenon, <2>1, <2>2, WaitChannel, AnswerIsExit, WaitFrame
<1>15. ASSUME NEW r \in Req, ReadSelect(r)
      PROVE  (WaitChannel /\ AnswerIsExit)'
  <2>1. /\ \A s \in Req \ {r} : req'[s] = req[s]
        /\ req'[r].pc \notin {"wait", "look"} /\ req'[r].chan # "open"
    BY <1>15, HandType, WaitChannel DEF ReadSelect, Request, Idle, WaitChannel
  <2>2. table' = table /\ exit' = exit
    BY Zenon, <1>15 DEF ReadSelect
  <2> QED
    BY Zenon, <2>1, <2>2, WaitChannel, AnswerIsExit, WaitFrame
<1>16. ASSUME NEW r \in Req, ReadEnd(r)
      PROVE  (WaitChannel /\ AnswerIsExit)'
  <2>1. /\ \A s \in Req \ {r} : req'[s] = req[s]
        /\ req'[r].pc \notin {"wait", "look"} /\ req'[r].chan # "open"
    BY Zenon, <1>16, HandType, WaitChannel DEF ReadEnd, Done, Request, Idle, WaitChannel
  <2>2. table' = table /\ exit' = exit
    BY Zenon, <1>16 DEF ReadEnd
  <2> QED
    BY Zenon, <2>1, <2>2, WaitChannel, AnswerIsExit, WaitFrame
<1>17. ASSUME NEW r \in Req, RemoveDestroy(r)
      PROVE  (WaitChannel /\ AnswerIsExit)'
  <2>1. req[r].pc = "destroy" /\ req[r].c \in Cid /\ req[r] \in Request /\ req[r].chan # "open"
    BY Zenon, <1>17, HandType, CtrInv, WaitChannel DEF RemoveDestroy, CtrInv, WaitChannel
  <2>2. CASE DropContainer([req EXCEPT ![r] = Idle], req[r].c)
    BY Zenon, <2>1, <2>2, TypeOK, CtrInv, SlotInv, WaitChannel, AnswerIsExit, WaitDrop
  <2>3. CASE Done(r) /\ table' = table /\ exit' = exit
    <3>1. /\ \A s \in Req \ {r} : req'[s] = req[s]
          /\ req'[r].pc \notin {"wait", "look"} /\ req'[r].chan # "open"
      BY Zenon, <2>3, HandType DEF Done, Idle
    <3> QED
      BY Zenon, <2>3, <3>1, WaitChannel, AnswerIsExit, WaitFrame
  <2>4. CASE req' = [req EXCEPT ![r].pc = "resources"] /\ table' = table /\ exit' = exit
    <3>1. /\ \A s \in Req \ {r} : req'[s] = req[s]
          /\ req'[r].pc \notin {"wait", "look"} /\ req'[r].chan # "open"
      BY Zenon, <2>1, <2>4, HandType DEF Request
    <3> QED
      BY Zenon, <2>4, <3>1, WaitChannel, AnswerIsExit, WaitFrame
  <2> QED
    BY Zenon, <1>17, <2>2, <2>3, <2>4 DEF RemoveDestroy
<1>18. ASSUME NEW r \in Req, RemoveResources(r)
      PROVE  (WaitChannel /\ AnswerIsExit)'
  <2>1. req[r].c \in Cid /\ DropContainer([req EXCEPT ![r] = Idle], req[r].c)
    BY Zenon, <1>18, CtrInv DEF RemoveResources, CtrInv
  <2> QED
    BY Zenon, <2>1, TypeOK, CtrInv, SlotInv, WaitChannel, AnswerIsExit, WaitDrop
<1>19. ASSUME NEW r \in Req, HookEnd(r)
      PROVE  (WaitChannel /\ AnswerIsExit)'
  <2>1. /\ \A s \in Req \ {r} : req'[s] = req[s]
        /\ req'[r].pc \notin {"wait", "look"} /\ req'[r].chan # "open"
    BY <1>19, HandType, WaitChannel DEF HookEnd, Request, Idle, WaitChannel
  <2>2. table' = table /\ exit' = exit
    BY Zenon, <1>19 DEF HookEnd
  <2> QED
    BY Zenon, <2>1, <2>2, WaitChannel, AnswerIsExit, WaitFrame
<1>20. ASSUME NEW r \in Req, NEW p \in Pid, HookSpawn(r, p)
      PROVE  (WaitChannel /\ AnswerIsExit)'
  <2>1. /\ \A s \in Req \ {r} : req'[s] = req[s]
        /\ req'[r].pc \notin {"wait", "look"} /\ req'[r].chan # "open"
    BY ZenonT(60), <1>20, HandType, WaitChannel DEF HookSpawn, Request, Idle, WaitChannel
  <2>2. table' = table /\ exit' = exit
    BY Zenon, <1>20 DEF HookSpawn
  <2> QED
    BY Zenon, <2>1, <2>2, WaitChannel, AnswerIsExit, WaitFrame
<1>21. ASSUME NEW r \in Req, NEW c \in Cid, NEW p \in Pid, CreateBegin(r, c, p)
      PROVE  (WaitChannel /\ AnswerIsExit)'
  <2>1. /\ \A s \in Req \ {r} : req'[s] = req[s]
        /\ req'[r].pc \notin {"wait", "look"} /\ req'[r].chan # "open"
    BY Zenon, <1>21, HandType, WaitChannel DEF CreateBegin, After, Request, Idle, WaitChannel
  <2>2. table' = table /\ exit' = exit
    BY Zenon, <1>21 DEF CreateBegin
  <2> QED
    BY Zenon, <2>1, <2>2, WaitChannel, AnswerIsExit, WaitFrame
<1>22. ASSUME NEW r \in Req, NEW c \in Cid, NEW e \in Exec, NEW p \in Pid, ExecBegin(r, c, e, p)
      PROVE  (WaitChannel /\ AnswerIsExit)'
  <2>1. /\ \A s \in Req \ {r} : req'[s] = req[s]
        /\ req'[r].pc \notin {"wait", "look"} /\ req'[r].chan # "open"
    BY <1>22, HandType, WaitChannel DEF ExecBegin, Request, Idle, WaitChannel
  <2>2. table' = table /\ exit' = exit
    BY Zenon, <1>22 DEF ExecBegin
  <2> QED
    BY Zenon, <2>1, <2>2, WaitChannel, AnswerIsExit, WaitFrame
<1>23. ASSUME NEW r \in Req, NEW c \in Cid, StartBegin(r, c)
      PROVE  (WaitChannel /\ AnswerIsExit)'
  <2>1. /\ \A s \in Req \ {r} : req'[s] = req[s]
        /\ req'[r].pc \notin {"wait", "look"} /\ req'[r].chan # "open"
    BY Zenon, <1>23, HandType, WaitChannel DEF StartBegin, Request, Idle, WaitChannel
  <2>2. table' = table /\ exit' = exit
    BY Zenon, <1>23 DEF StartBegin
  <2> QED
    BY Zenon, <2>1, <2>2, WaitChannel, AnswerIsExit, WaitFrame
<1>24. ASSUME NEW r \in Req, NEW c \in Cid, RemoveBegin(r, c)
      PROVE  (WaitChannel /\ AnswerIsExit)'
  <2>1. /\ \A s \in Req \ {r} : req'[s] = req[s]
        /\ req'[r].pc \notin {"wait", "look"} /\ req'[r].chan # "open"
    BY Zenon, <1>24, HandType, WaitChannel DEF RemoveBegin, After, Request, Idle, WaitChannel
  <2>2. table' = table /\ exit' = exit
    BY Zenon, <1>24 DEF RemoveBegin
  <2> QED
    BY Zenon, <2>1, <2>2, WaitChannel, AnswerIsExit, WaitFrame
<1>25. ASSUME NEW r \in Req, NEW c \in Cid, NEW e \in Eid, WaitBegin(r, c, e)
      PROVE  (WaitChannel /\ AnswerIsExit)'
  <2>1. /\ req' = [req EXCEPT ![r] = [Idle EXCEPT !.pc = "wait", !.c = c, !.p = table[c][e], !.chan = "open"]]
        /\ table[c][e] # NoPid /\ table' = table /\ exit' = exit
    BY Zenon, <1>25 DEF WaitBegin
  <2>2. /\ \A s \in Req \ {r} : req'[s] = req[s]
        /\ req'[r].pc = "wait" /\ req'[r].c = c /\ req'[r].p = table[c][e] /\ req'[r].chan = "open"
    BY Zenon, <2>1, HandType DEF Idle
  <2>3. table[c][e] \in Pid /\ table[c][e] \in Entries(c)
    BY SMTT(30), <2>1, TypeOK DEF TypeOK, Entries
  <2>4. WaitChannel'
    BY SMTT(30), <2>1, <2>2, <2>3, WaitChannel DEF WaitChannel, Entries
  <2>5. AnswerIsExit'
    BY <2>1, <2>2, AnswerIsExit DEF AnswerIsExit, AllEntries, Entries
  <2> QED
    BY Zenon, <2>4, <2>5
<1>26. ASSUME NEW r \in Req, NEW c \in Cid, NEW e \in Eid, ReadBegin(r, c, e)
      PROVE  (WaitChannel /\ AnswerIsExit)'
  <2>1. /\ \A s \in Req \ {r} : req'[s] = req[s]
        /\ req'[r].pc \notin {"wait", "look"} /\ req'[r].chan # "open"
    BY Zenon, <1>26, HandType, WaitChannel DEF ReadBegin, Request, Idle, WaitChannel
  <2>2. table' = table /\ exit' = exit
    BY Zenon, <1>26 DEF ReadBegin
  <2> QED
    BY Zenon, <2>1, <2>2, WaitChannel, AnswerIsExit, WaitFrame
<1>27. ASSUME NEW r \in Req, NEW c \in Cid, NEW e \in Eid, NEW k \in BOOLEAN, SignalBegin(r, c, e, k)
      PROVE  (WaitChannel /\ AnswerIsExit)'
  <2>1. /\ \A s \in Req \ {r} : req'[s] = req[s]
        /\ req'[r].pc \notin {"wait", "look"} /\ req'[r].chan # "open"
    <3>1. CASE e = InitE
      <4>1. req' = [req EXCEPT ![r] = [Idle EXCEPT !.pc = "freeze", !.c = c, !.k = k]]
        BY Zenon, <1>27, <3>1 DEF SignalBegin
      <4> QED
        BY Zenon, <4>1, HandType DEF Idle
    <3>2. CASE e # InitE
      BY <1>27, <3>2, HandType DEF SignalBegin, Done, Idle
    <3> QED
      BY Zenon, <3>1, <3>2
  <2>2. table' = table /\ exit' = exit
    BY Zenon, <1>27 DEF SignalBegin
  <2> QED
    BY Zenon, <2>1, <2>2, WaitChannel, AnswerIsExit, WaitFrame
<1>28. ASSUME NEW c \in Cid, Pause(c)
      PROVE  (WaitChannel /\ AnswerIsExit)'
  <2>1. req' = req /\ table' = table /\ exit' = exit
    BY Zenon, <1>28 DEF Pause
  <2> QED
    BY Zenon, <2>1, WaitChannel, AnswerIsExit, WaitSame
<1>29. ASSUME NEW c \in Cid, Resume(c)
      PROVE  (WaitChannel /\ AnswerIsExit)'
  <2>1. req' = req /\ table' = table /\ exit' = exit
    BY Zenon, <1>29 DEF Resume
  <2> QED
    BY Zenon, <2>1, WaitChannel, AnswerIsExit, WaitSame
<1>30. ASSUME HandlerRecv
      PROVE  (WaitChannel /\ AnswerIsExit)'
  <2>1. req' = req /\ table' = table /\ exit' = exit
    BY Zenon, <1>30 DEF HandlerRecv
  <2> QED
    BY Zenon, <2>1, WaitChannel, AnswerIsExit, WaitSame
<1>31. ASSUME NEW p \in Pid, HandlerReap(p)
      PROVE  (WaitChannel /\ AnswerIsExit)'
  <2>1. req' = req /\ table' = table /\ exit' = exit
    BY Zenon, <1>31 DEF HandlerReap
  <2> QED
    BY Zenon, <2>1, WaitChannel, AnswerIsExit, WaitSame
<1>32. ASSUME HandlerEnd
      PROVE  (WaitChannel /\ AnswerIsExit)'
  <2>1. req' = req /\ table' = table /\ exit' = exit
    BY Zenon, <1>32 DEF HandlerEnd
  <2> QED
    BY Zenon, <2>1, WaitChannel, AnswerIsExit, WaitSame
<1>33. ASSUME HandlerFind
      PROVE  (WaitChannel /\ AnswerIsExit)'
  <2>1. \A s \in Req : /\ req'[s].pc = req[s].pc /\ req'[s].c = req[s].c /\ req'[s].p = req[s].p
                      /\ \/ req'[s].chan = req[s].chan
                         \/ req[s].pc \notin {"wait", "look"} /\ req'[s].chan # "open"
    BY <1>33, HandType DEF HandlerFind, Tell, Woken, Request
  <2>2. table' = table /\ \A p \in Pid : exit[p] => exit'[p]
    BY Zenon, <1>33, TypeOK DEF HandlerFind, Tell, TypeOK
  <2> QED
    BY Zenon, <2>1, <2>2, WaitChannel, AnswerIsExit, WaitSame
<1>34. ASSUME HandlerDrained
      PROVE  (WaitChannel /\ AnswerIsExit)'
  <2>1. \A s \in Req : /\ req'[s].pc = req[s].pc /\ req'[s].c = req[s].c /\ req'[s].p = req[s].p
                      /\ \/ req'[s].chan = req[s].chan
                         \/ req[s].pc \notin {"wait", "look"} /\ req'[s].chan # "open"
    BY <1>34, HandType DEF HandlerDrained, Tell, Woken, Request
  <2>2. table' = table /\ \A p \in Pid : exit[p] => exit'[p]
    BY Zenon, <1>34, TypeOK DEF HandlerDrained, Tell, TypeOK
  <2> QED
    BY Zenon, <2>1, <2>2, WaitChannel, AnswerIsExit, WaitSame
<1>35. ASSUME NEW p \in Pid, ChildReady(p)
      PROVE  (WaitChannel /\ AnswerIsExit)'
  <2>1. \A s \in Req : /\ req'[s].pc = req[s].pc /\ req'[s].c = req[s].c /\ req'[s].p = req[s].p
                      /\ \/ req'[s].chan = req[s].chan
                         \/ req[s].pc \notin {"wait", "look"} /\ req'[s].chan # "open"
    BY <1>35, HandType, WaitChannel DEF ChildReady, Request, WaitChannel
  <2>2. table' = table /\ \A q \in Pid : exit[q] => exit'[q]
    BY Zenon, <1>35, TypeOK DEF ChildReady, TypeOK
  <2> QED
    BY Zenon, <2>1, <2>2, WaitChannel, AnswerIsExit, WaitSame
<1>36. ASSUME NEW p \in Pid, ChildOpens(p)
      PROVE  (WaitChannel /\ AnswerIsExit)'
  <2>1. req' = req /\ table' = table /\ exit' = exit
    BY Zenon, <1>36 DEF ChildOpens
  <2> QED
    BY Zenon, <2>1, WaitChannel, AnswerIsExit, WaitSame
<1>37. ASSUME NEW p \in Pid, Exit(p)
      PROVE  (WaitChannel /\ AnswerIsExit)'
  <2>1. req' = req /\ table' = table /\ exit' = exit
    BY Zenon, <1>37 DEF Exit
  <2> QED
    BY Zenon, <2>1, WaitChannel, AnswerIsExit, WaitSame
<1>38. ASSUME NEW p \in Pid, HeirExit(p)
      PROVE  (WaitChannel /\ AnswerIsExit)'
  <2>1. req' = req /\ table' = table /\ exit' = exit
    BY Zenon, <1>38 DEF HeirExit
  <2> QED
    BY Zenon, <2>1, WaitChannel, AnswerIsExit, WaitSame
<1>39. ASSUME UNCHANGED vars
      PROVE  (WaitChannel /\ AnswerIsExit)'
  <2>1. req' = req /\ table' = table /\ exit' = exit
    BY Zenon, <1>39 DEF vars
  <2> QED
    BY Zenon, <2>1, WaitChannel, AnswerIsExit, WaitSame
<1> QED
  BY ZenonT(60), <1>1, <1>2, <1>3, <1>4, <1>5, <1>6, <1>7, <1>8, <1>9, <1>10, <1>11, <1>12, <1>13,
     <1>14, <1>15, <1>16, <1>17, <1>18, <1>19, <1>20, <1>21, <1>22, <1>23, <1>24, <1>25,
     <1>26, <1>27, <1>28, <1>29, <1>30, <1>31, <1>32, <1>33, <1>34, <1>35, <1>36, <1>37,
     <1>38, <1>39
  DEF Next, Begin, Locking, Running, Fail, Handle, Eid

-----------------------------------------------------------------------------
(* The life of a process *)

\* Putting an entry into a free slot.
LEMMA PutEntry ==
  ASSUME TypeOK, CtrInv, ChildInv, TableInv, NEW r \in Req, CreateOk(r) \/ ExecOk(r)
  PROVE  \E c \in Cid, e \in Eid :
           /\ req[r].p \in Pid /\ req[r].p \notin AllEntries
           /\ proc[req[r].p] = "free" => hpid = req[r].p
           /\ table[c][e] = NoPid /\ table'[c][e] = req[r].p
           /\ \A d \in Cid, f \in Eid : d # c \/ f # e => table'[d][f] = table[d][f]
           /\ \/ ctr[c] = "none" /\ ctr' = [ctr EXCEPT ![c] = "created"] /\ e = InitE
              \/ ctr[c] # "none" /\ ctr' = ctr
           /\ UNCHANGED <<exit, proc, hand>>
<1>1. req[r].c \in Cid /\ req[r].e \in Eid /\ InitE \in Eid
  BY Zenon, CtrInv, TypeOK, ReqType DEF CreateOk, ExecOk, CtrInv, Eid
<1>2. table \in [Cid -> [Eid -> Pid \cup {NoPid}]] /\ UNCHANGED <<exit, proc, hand>>
  BY Zenon DEF TypeOK, CreateOk, ExecOk, kernel
<1>3. /\ req[r].p \in Pid /\ req[r].p \notin AllEntries
      /\ proc[req[r].p] = "free" => hpid = req[r].p
  BY Zenon, ChildInv DEF CreateOk, ExecOk, ChildInv, Child
<1>4. CASE CreateOk(r)
  <2>1. ctr[req[r].c] = "none" /\ table[req[r].c][InitE] = NoPid
    BY Zenon, <1>1, <1>4, TableInv DEF TableInv, CreateOk, Child
  <2>2. table' = [table EXCEPT ![req[r].c][InitE] = req[r].p] /\ ctr' = [ctr EXCEPT ![req[r].c] = "created"]
    BY Zenon, <1>4 DEF CreateOk
  <2>3. /\ table'[req[r].c][InitE] = req[r].p
        /\ \A d \in Cid, f \in Eid : d # req[r].c \/ f # InitE => table'[d][f] = table[d][f]
    BY Zenon, <1>1, <1>2, <2>2
  <2>4. /\ table[req[r].c][InitE] = NoPid /\ table'[req[r].c][InitE] = req[r].p
        /\ \A d \in Cid, f \in Eid : d # req[r].c \/ f # InitE => table'[d][f] = table[d][f]
        /\ \/ ctr[req[r].c] = "none" /\ ctr' = [ctr EXCEPT ![req[r].c] = "created"] /\ InitE = InitE
           \/ ctr[req[r].c] # "none" /\ ctr' = ctr
    BY Zenon, <2>1, <2>2, <2>3
  <2> QED
    BY SMTT(30), <1>1, <1>2, <1>3, <2>4
<1>5. CASE ExecOk(r)
  <2>1. ctr[req[r].c] # "none" /\ table[req[r].c][req[r].e] = NoPid /\ ctr' = ctr
    BY Zenon, <1>1, <1>5, TableInv DEF TableInv, ExecOk
  <2>2. table' = [table EXCEPT ![req[r].c][req[r].e] = req[r].p]
    BY Zenon, <1>5 DEF ExecOk
  <2>3. /\ table'[req[r].c][req[r].e] = req[r].p
        /\ \A d \in Cid, f \in Eid : d # req[r].c \/ f # req[r].e => table'[d][f] = table[d][f]
    BY Zenon, <1>1, <1>2, <2>2
  <2>4. /\ table[req[r].c][req[r].e] = NoPid /\ table'[req[r].c][req[r].e] = req[r].p
        /\ \A d \in Cid, f \in Eid : d # req[r].c \/ f # req[r].e => table'[d][f] = table[d][f]
        /\ \/ ctr[req[r].c] = "none" /\ ctr' = [ctr EXCEPT ![req[r].c] = "created"] /\ req[r].e = InitE
           \/ ctr[req[r].c] # "none" /\ ctr' = ctr
    BY Zenon, <2>1, <2>2, <2>3
  <2> QED
    BY SMTT(30), <1>1, <1>2, <1>3, <2>4
<1> QED
  BY Zenon, <1>4, <1>5

\* Taking one out, and its exit with it.
LEMMA TakeEntry ==
  ASSUME TypeOK, CtrInv, SlotInv, NEW r \in Req, WaitWon(r)
  PROVE  \E c \in Cid, e \in Eid :
           /\ req[r].p \in Pid /\ table[c][e] = req[r].p /\ table'[c][e] = NoPid
           /\ \A d \in Cid, f \in Eid : d # c \/ f # e => table'[d][f] = table[d][f]
           /\ \A d \in Cid, f \in Eid : table[d][f] = req[r].p => d = c /\ f = e
           /\ exit' = [exit EXCEPT ![req[r].p] = FALSE]
           /\ UNCHANGED <<ctr, proc, hand>>
<1>1. req[r].c \in Cid /\ table \in [Cid -> [Eid -> Pid \cup {NoPid}]]
  BY Zenon, CtrInv DEF TypeOK, WaitWon, CtrInv
<1>2. PICK e \in Eid : table[req[r].c][e] = req[r].p /\ req[r].p # NoPid
  BY Zenon DEF WaitWon, Entries
<1>3. req[r].p \in Pid
  BY Zenon, <1>1, <1>2
<1>4. \A d \in Cid, f \in Eid : table[d][f] = req[r].p => d = req[r].c /\ f = e
  <2> SUFFICES ASSUME NEW d \in Cid, NEW f \in Eid, table[d][f] = req[r].p
               PROVE  req[r].c = d /\ e = f
    BY Zenon
  <2>1. table[req[r].c][e] # NoPid /\ table[req[r].c][e] = table[d][f]
    BY Zenon, <1>2
  <2> QED
    BY SMTT(30), <1>1, <2>1, SlotInv DEF SlotInv
<1>5. \A d \in Cid, f \in Eid :
        table'[d][f] = IF d = req[r].c /\ table[d][f] = req[r].p THEN NoPid ELSE table[d][f]
  BY Zenon, <1>1 DEF WaitWon
<1>6. table'[req[r].c][e] = NoPid
  BY Zenon, <1>1, <1>2, <1>5
<1>7. \A d \in Cid, f \in Eid : d # req[r].c \/ f # e => table'[d][f] = table[d][f]
  BY Zenon, <1>4, <1>5
<1>8. exit' = [exit EXCEPT ![req[r].p] = FALSE] /\ UNCHANGED <<ctr, proc, hand>>
  BY Zenon DEF WaitWon, kernel
<1> QED
  BY Zenon, <1>1, <1>2, <1>3, <1>4, <1>6, <1>7, <1>8

\* An entry is in a slot of a table.
LEMMA EntryIs ==
  ASSUME NEW p
  PROVE  /\ p \in AllEntries <=> p # NoPid /\ \E c \in Cid, e \in Eid : table[c][e] = p
         /\ p \in AllEntries' <=> p # NoPid /\ \E c \in Cid, e \in Eid : table'[c][e] = p
  BY SMTT(30) DEF AllEntries, Entries

\* Steps that reap nothing and record nothing.
LEMMA ReapSame ==
  ASSUME TypeOK, ReapInv, UNCHANGED <<table, exit, hpid>>, Aside,
         \A q \in Pid : q \in AllEntries \cup {hpid} /\ proc[q] = "free" => proc'[q] = "free"
  PROVE  ReapInv'
<1>1. AllEntries' = AllEntries
  BY Zenon, SlotSame
<1>2. hpid \in Pid \cup {NoPid}
  BY Zenon DEF TypeOK
<1>3. hpc' = "drain" => hpc = "drain"
  BY Zenon DEF Aside
<1> QED
  BY Zenon, <1>1, <1>2, <1>3 DEF ReapInv

\* A container that goes takes its entries and their exits along, and no others.
LEMMA ReapDrop ==
  ASSUME TypeOK, ReapInv, hpc # "drain", UNCHANGED <<proc, hand>>, NEW c \in Cid,
         NEW R, DropContainer(R, c)
  PROVE  ReapInv'
<1>1. /\ \A d \in Cid, e \in Eid : table'[d][e] = IF d = c THEN NoPid ELSE table[d][e]
      /\ \A p \in Pid : exit'[p] = (exit[p] /\ p \notin Entries(c))
  BY Zenon, DropTable
<1>2. ASSUME NEW p \in Pid, exit'[p]
      PROVE  p \in AllEntries' /\ proc'[p] = "free"
  <2>1. p \in AllEntries /\ proc[p] = "free" /\ p \notin Entries(c)
    BY Zenon, <1>1, <1>2 DEF ReapInv
  <2>2. PICK d \in Cid, e \in Eid : table[d][e] = p /\ p # NoPid
    BY Zenon, <2>1, EntryIs
  <2>3. d # c
    BY Zenon, <2>1, <2>2 DEF Entries
  <2>4. table'[d][e] = p
    BY Zenon, <1>1, <2>2, <2>3
  <2>5. p \in AllEntries'
    BY Zenon, <2>2, <2>4, EntryIs
  <2> QED
    BY Zenon, <2>1, <2>5
<1> QED
  BY Zenon, <1>2 DEF ReapInv, hand

\* What is recorded is the exit of the child that was reaped, if it is in a table.
LEMMA ReapTell ==
  ASSUME TypeOK, ReapInv, Tell, hpid \in AllEntries, UNCHANGED <<table, proc>>
  PROVE  ReapInv'
<1>1. AllEntries' = AllEntries
  BY Zenon, SlotSame
<1>2. hpid # NoPid /\ exit \in [Pid -> BOOLEAN]
  BY Zenon, EntryIs DEF TypeOK
<1>3. \A p \in Pid : exit'[p] => exit[p] \/ p = hpid
  BY Zenon, <1>2 DEF Tell
<1> QED
  BY Zenon, <1>1, <1>2, <1>3 DEF ReapInv, Tell

\* Every step keeps ReapInv.
LEMMA ReapStep ==
  ASSUME TypeOK, LockInv, CtrInv, ChildInv, SlotInv, TableInv, ReapInv, [Next]_vars
  PROVE  ReapInv'
<1>0. req \in [Req -> Request] /\ proc \in [Pid -> ProcState] /\ exit \in [Pid -> BOOLEAN]
  BY Zenon DEF TypeOK
<1>1. ASSUME NEW r \in Req, CreateOk(r) \/ ExecOk(r)
      PROVE  ReapInv'
  <2>1. PICK c \in Cid, e \in Eid :
           /\ table[c][e] = NoPid /\ UNCHANGED <<exit, proc, hand>>
           /\ \A d \in Cid, f \in Eid : d # c \/ f # e => table'[d][f] = table[d][f]
    BY ZenonT(60), <1>1, PutEntry
  <2>2. ASSUME NEW p \in AllEntries
        PROVE  p \in AllEntries'
    <3>1. PICK d \in Cid, f \in Eid : table[d][f] = p /\ p # NoPid
      BY Zenon, <2>2, EntryIs
    <3>2. table'[d][f] = p
      BY Zenon, <2>1, <3>1
    <3> QED
      BY Zenon, <3>1, <3>2, EntryIs
  <2> QED
    BY Zenon, <2>1, <2>2 DEF ReapInv, hand
<1>2. ASSUME NEW r \in Req, WaitWon(r)
      PROVE  ReapInv'
  <2>1. PICK c \in Cid, e \in Eid :
           /\ req[r].p \in Pid /\ table[c][e] = req[r].p /\ table'[c][e] = NoPid
           /\ \A d \in Cid, f \in Eid : d # c \/ f # e => table'[d][f] = table[d][f]
           /\ \A d \in Cid, f \in Eid : table[d][f] = req[r].p => d = c /\ f = e
           /\ exit' = [exit EXCEPT ![req[r].p] = FALSE]
           /\ UNCHANGED <<ctr, proc, hand>>
    BY Zenon, <1>2, TakeEntry
  <2>2. ASSUME NEW p \in AllEntries, p # req[r].p
        PROVE  p \in AllEntries'
    <3>1. PICK d \in Cid, f \in Eid : table[d][f] = p /\ p # NoPid
      BY Zenon, <2>2, EntryIs
    <3>2. table'[d][f] = p
      BY Zenon, <2>1, <2>2, <3>1
    <3> QED
      BY Zenon, <3>1, <3>2, EntryIs
  <2>3. \A p \in Pid : exit'[p] => exit[p] /\ p # req[r].p
    BY Zenon, <1>0, <2>1
  <2>4. hpc # "drain"
    BY Zenon, <1>2, ProcessAssumption, LockInv DEF WaitWon, LockInv
  <2> QED
    BY Zenon, <2>1, <2>2, <2>3, <2>4 DEF ReapInv, hand
<1>3. ASSUME NEW r \in Req, RemoveDestroy(r)
      PROVE  ReapInv'
  <2>1. req[r].c \in Cid /\ hpc # "drain" /\ UNCHANGED <<proc, hand>>
    BY Zenon, <1>3, ProcessAssumption, LockInv, CtrInv, KillKeepsProc
    DEF RemoveDestroy, LockInv, CtrInv, Holds, kernel
  <2>2. CASE UNCHANGED <<table, exit>>
    BY Zenon, <2>1, <2>2, SlotSame DEF ReapInv, hand
  <2>3. CASE DropContainer([req EXCEPT ![r] = Idle], req[r].c)
    BY Zenon, <2>1, <2>3, ReapDrop
  <2> QED
    BY Zenon, <1>3, <2>2, <2>3 DEF RemoveDestroy
<1>4. ASSUME NEW r \in Req, RemoveResources(r)
      PROVE  ReapInv'
  <2>1. req[r].c \in Cid /\ hpc # "drain" /\ UNCHANGED <<proc, hand>>
    BY Zenon, <1>4, ProcessAssumption, LockInv, CtrInv DEF RemoveResources, LockInv, CtrInv, kernel
  <2> QED
    BY Zenon, <1>4, <2>1, ReapDrop DEF RemoveResources
<1>5. ASSUME NEW r \in Req, HookEnd(r)
      PROVE  ReapInv'
  <2>1. UNCHANGED <<table, exit, hpid>> /\ Aside
    BY Zenon, <1>5 DEF HookEnd, Aside, hand
  <2>2. \A q \in Pid : proc[q] = "free" => proc'[q] = "free"
    BY Zenon, <1>0, <1>5 DEF HookEnd
  <2> QED
    BY Zenon, <2>1, <2>2, ReapSame
<1>6. ASSUME NEW p \in Pid, HandlerReap(p)
      PROVE  ReapInv'
  <2>1. UNCHANGED <<table, exit>> /\ hpid' = p /\ hpc' = "reaped" /\ proc' = [proc EXCEPT ![p] = "free"]
    BY Zenon, <1>6 DEF HandlerReap
  <2>2. AllEntries' = AllEntries
    BY Zenon, <2>1, SlotSame
  <2>3. proc'[p] = "free" /\ \A q \in Pid : proc[q] = "free" => proc'[q] = "free"
    BY Zenon, <1>0, <2>1
  <2> QED
    BY Zenon, <2>1, <2>2, <2>3 DEF ReapInv
<1>7. ASSUME HandlerFind
      PROVE  ReapInv'
  <2>1. UNCHANGED <<table, proc>> /\ AllEntries' = AllEntries
    BY Zenon, <1>7, SlotSame DEF HandlerFind, kernel
  <2>2. CASE Tell /\ hpid \in AllEntries
    BY Zenon, <2>1, <2>2, ReapTell
  <2>3. CASE ~(Tell /\ hpid \in AllEntries)
    <3>1. exit' = exit /\ (hpid' = NoPid \/ hpid' = hpid) /\ (hpc' = "drain" => hpid' = hpid /\ hpid \in AllEntries)
      BY Zenon, <1>7, <2>3 DEF HandlerFind
    <3> QED
      BY Zenon, <2>1, <3>1 DEF ReapInv
  <2> QED
    BY Zenon, <2>2, <2>3
<1>8. ASSUME HandlerDrained
      PROVE  ReapInv'
  BY Zenon, <1>8, ReapTell DEF HandlerDrained, ReapInv, kernel
<1>9. ASSUME \/ \E r \in Req : StartOpen(r) \/ \E p \in Pid : HookSpawn(r, p)
             \/ \E r \in Req, c \in Cid, p \in Pid : CreateBegin(r, c, p) \/ \E e \in Exec : ExecBegin(r, c, e, p)
             \/ \E p \in Pid : ChildReady(p) \/ ChildOpens(p) \/ Exit(p)
      PROVE  ReapInv'
  BY Zenon, <1>9, Lives, ReapSame
<1>10. ASSUME \/ \E r \in Req : \/ CreateFail(r) \/ CreateUndone(r) \/ ExecFail(r) \/ StartEnd(r)
                                \/ SignalFreeze(r) \/ SignalPids(r) \/ SignalKill(r) \/ SignalThaw(r)
                                \/ WaitSignalled(r) \/ WaitLost(r) \/ ReadSelect(r) \/ ReadEnd(r)
              \/ \E r \in Req, c \in Cid : StartBegin(r, c) \/ RemoveBegin(r, c)
              \/ \E r \in Req, c \in Cid, e \in Eid : WaitBegin(r, c, e) \/ ReadBegin(r, c, e)
              \/ \E r \in Req, c \in Cid, e \in Eid, k \in BOOLEAN : SignalBegin(r, c, e, k)
              \/ \E c \in Cid : Pause(c) \/ Resume(c)
              \/ HandlerRecv \/ HandlerEnd \/ (\E p \in Pid : HeirExit(p)) \/ UNCHANGED vars
      PROVE  ReapInv'
  BY Zenon, <1>10, Quiet, ReapSame
<1> QED
  BY ZenonT(60), <1>1, <1>2, <1>3, <1>4, <1>5, <1>6, <1>7, <1>8, <1>9, <1>10
  DEF Next, Begin, Locking, Running, Fail, Handle, Eid

\* The stages are a function of the slots.
LEMMA StagesIs ==
  /\ Stages = [c \in Cid |-> [e \in Eid |-> Stages[c][e]]]
  /\ Stages' = [c \in Cid |-> [e \in Eid |-> Stages'[c][e]]]
  BY Zenon DEF Stages

\* The stage of a slot, before and after a step.
LEMMA StageIs ==
  ASSUME NEW c \in Cid, NEW e \in Eid
  PROVE  /\ Stages[c][e] = IF table[c][e] = NoPid THEN "none"
                           ELSE IF exit[table[c][e]] THEN "exited"
                           ELSE IF proc[table[c][e]] = "free" THEN "reaped" ELSE "running"
         /\ Stages'[c][e] = IF table'[c][e] = NoPid THEN "none"
                            ELSE IF exit'[table'[c][e]] THEN "exited"
                            ELSE IF proc'[table'[c][e]] = "free" THEN "reaped" ELSE "running"
  BY Zenon DEF Stages

\* A slot with the same process, neither reaped nor recorded by the step.
LEMMA StageSame ==
  ASSUME TypeOK, NEW c \in Cid, NEW e \in Eid, table'[c][e] = table[c][e],
         \A p \in Pid : p = table[c][e] => exit'[p] = exit[p] /\ (proc'[p] = "free" <=> proc[p] = "free")
  PROVE  Stages'[c][e] = Stages[c][e]
<1>1. table[c][e] \in Pid \cup {NoPid}
  <2>1. table \in [Cid -> [Eid -> Pid \cup {NoPid}]]
    BY Zenon DEF TypeOK
  <2> QED
    BY Zenon, <2>1
<1> DEFINE p == table[c][e]
<1>2. p # NoPid => exit'[p] = exit[p] /\ (proc'[p] = "free" <=> proc[p] = "free")
  BY Zenon, <1>1
<1>3. /\ Stages[c][e] = IF p = NoPid THEN "none"
                        ELSE IF exit[p] THEN "exited" ELSE IF proc[p] = "free" THEN "reaped" ELSE "running"
      /\ Stages'[c][e] = IF p = NoPid THEN "none"
                         ELSE IF exit'[p] THEN "exited" ELSE IF proc'[p] = "free" THEN "reaped" ELSE "running"
  BY SMTT(30), StageIs
<1> HIDE DEF p
<1> QED
  BY Zenon, <1>2, <1>3

\* One slot goes on, the others stay.
LEMMA LifeMove ==
  ASSUME NEW c \in Cid, NEW e \in Eid, ctr'[c] # "none",
         \A d \in Cid, f \in Eid : d # c \/ f # e => Stages'[d][f] = Stages[d][f]
  PROVE  Life!Move(c, e, Stages[c][e], Stages'[c][e])
<1>1. c \in Sandboxed'
  BY Zenon DEF Sandboxed
<1>2. Stages' = [Stages EXCEPT ![c][e] = Stages'[c][e]]
  <2> DEFINE S == Stages
             T == Stages'
  <2>1. S = [d \in Cid |-> [f \in Eid |-> S[d][f]]] /\ T = [d \in Cid |-> [f \in Eid |-> T[d][f]]]
    BY Zenon, StagesIs
  <2>2. \A d \in Cid, f \in Eid : d # c \/ f # e => T[d][f] = S[d][f]
    BY Zenon
  <2> HIDE DEF S, T
  <2> DEFINE row == [S[c] EXCEPT ![e] = T[c][e]]
  <2>3. row = T[c]
    <3>1. S[c] = [f \in Eid |-> S[c][f]] /\ T[c] = [f \in Eid |-> T[c][f]]
      BY Zenon, <2>1
    <3> QED
      BY SMTT(30), <2>2, <3>1
  <2> HIDE DEF row
  <2>4. T = [S EXCEPT ![c] = row]
    <3>1. \A d \in Cid \ {c} : T[d] = S[d]
      BY SMTT(30), <2>1, <2>2
    <3>2. S = [d \in Cid |-> S[d]] /\ T = [d \in Cid |-> T[d]]
      BY Zenon, <2>1
    <3> QED
      BY SMTT(30), <2>3, <3>1, <3>2
  <2>5. T = [S EXCEPT ![c][e] = T[c][e]]
    BY Zenon, <2>4 DEF row
  <2> QED
    BY Zenon, <2>5 DEF S, T
<1> QED
  BY Zenon, <1>1, <1>2 DEF Life!Move

\* Nothing of it changes.
LEMMA LifeSame ==
  ASSUME TypeOK, UNCHANGED <<table, exit>>, Sandboxed' = Sandboxed,
         \A p \in Pid : p \in AllEntries => (proc'[p] = "free" <=> proc[p] = "free")
  PROVE  UNCHANGED <<Sandboxed, Stages>>
<1>1. \A c \in Cid, e \in Eid : Stages'[c][e] = Stages[c][e]
  <2> SUFFICES ASSUME NEW c \in Cid, NEW e \in Eid
               PROVE  Stages'[c][e] = Stages[c][e]
    BY Zenon
  <2>1. \A p \in Pid : p = table[c][e] => p \in AllEntries
    BY Zenon, EntryIs, ProcessAssumption
  <2> QED
    BY Zenon, <2>1, StageSame
<1>2. Stages' = Stages
  BY SMTT(30), <1>1, StagesIs
<1> QED
  BY Zenon, <1>2

\* Pauses, resumes and starts leave the sandbox its containers.
LEMMA SameCtrs ==
  ASSUME TypeOK, CtrInv, TableInv, Aside
  PROVE  Sandboxed' = Sandboxed
<1>1. ctr \in [Cid -> CtrState]
  BY Zenon DEF TypeOK
<1>2. CASE UNCHANGED ctr
  BY Zenon, <1>2 DEF Sandboxed
<1>3. ASSUME NEW c \in Cid, Pause(c) \/ Resume(c)
      PROVE  Sandboxed' = Sandboxed
  <2>1. \A d \in Cid : ctr'[d] = "none" <=> ctr[d] = "none"
    BY Zenon, <1>1, <1>3 DEF Pause, Resume
  <2> QED
    BY Zenon, <2>1 DEF Sandboxed
<1>4. ASSUME NEW r \in Req, StartOpen(r)
      PROVE  Sandboxed' = Sandboxed
  <2>1. ctr[req[r].c] = "created" /\ ctr' = [ctr EXCEPT ![req[r].c] = "running"]
    BY Zenon, <1>4, TableInv DEF StartOpen, TableInv
  <2>2. \A d \in Cid : ctr'[d] = "none" <=> ctr[d] = "none"
    BY Zenon, <1>1, <2>1
  <2> QED
    BY Zenon, <2>2 DEF Sandboxed
<1> QED
  BY Zenon, <1>2, <1>3, <1>4 DEF Aside

\* A start that succeeds.
LEMMA LifeStart ==
  ASSUME TypeOK, CtrInv, ChildInv, TableInv, ReapInv, NEW r \in Req, CreateOk(r) \/ ExecOk(r)
  PROVE  Life!Next
<1>1. PICK c \in Cid, e \in Eid :
         /\ req[r].p \in Pid /\ req[r].p \notin AllEntries
         /\ table[c][e] = NoPid /\ table'[c][e] = req[r].p
         /\ \A d \in Cid, f \in Eid : d # c \/ f # e => table'[d][f] = table[d][f]
         /\ \/ ctr[c] = "none" /\ ctr' = [ctr EXCEPT ![c] = "created"] /\ e = InitE
            \/ ctr[c] # "none" /\ ctr' = ctr
         /\ UNCHANGED <<exit, proc, hand>>
  BY ZenonT(60), PutEntry
<1>2. ~exit[req[r].p] /\ req[r].p # NoPid /\ ctr \in [Cid -> CtrState]
  BY Zenon, <1>1, ReapInv, ProcessAssumption DEF ReapInv, TypeOK
<1>3. Stages[c][e] = "none" /\ (Stages'[c][e] = "running" \/ Stages'[c][e] = "reaped")
  BY SMTT(30), <1>1, <1>2, StageIs
<1>4. \A d \in Cid, f \in Eid : d # c \/ f # e => Stages'[d][f] = Stages[d][f]
  BY Zenon, <1>1, StageSame
<1>5. ctr'[c] # "none"
  BY Zenon, <1>1, <1>2
<1>6. Life!Start(c, e)
  BY Zenon, <1>3, <1>4, <1>5, LifeMove DEF Life!Start
<1>7. CASE ctr[c] = "none" /\ ctr' = [ctr EXCEPT ![c] = "created"] /\ e = InitE
  <2>1. \A d \in Cid : ctr'[d] # "none" <=> ctr[d] # "none" \/ d = c
    BY Zenon, <1>2, <1>7
  <2>2. c \notin Sandboxed /\ Sandboxed' = Sandboxed \cup {c}
    BY Zenon, <1>7, <2>1 DEF Sandboxed
  <2> QED
    BY Zenon, <1>6, <1>7, <2>2 DEF Life!Next, Life!Create
<1>8. CASE ctr' = ctr
  <2>1. Sandboxed' = Sandboxed
    BY Zenon, <1>8 DEF Sandboxed
  <2> QED
    BY Zenon, <1>6, <2>1 DEF Life!Next, Life!StartExec
<1> QED
  BY Zenon, <1>1, <1>7, <1>8

\* A wait that finds its process takes it out of the table, with its exit recorded.
LEMMA LifeCollect ==
  ASSUME TypeOK, CtrInv, SlotInv, TableInv, AnswerIsExit, NEW r \in Req, WaitWon(r)
  PROVE  Life!Next
<1>1. PICK c \in Cid, e \in Eid :
         /\ req[r].p \in Pid /\ table[c][e] = req[r].p /\ table'[c][e] = NoPid
         /\ \A d \in Cid, f \in Eid : d # c \/ f # e => table'[d][f] = table[d][f]
         /\ \A d \in Cid, f \in Eid : table[d][f] = req[r].p => d = c /\ f = e
         /\ exit' = [exit EXCEPT ![req[r].p] = FALSE]
         /\ UNCHANGED <<ctr, proc, hand>>
  BY Zenon, TakeEntry
<1>2. req[r].p # NoPid /\ exit \in [Pid -> BOOLEAN]
  BY Zenon, <1>1, ProcessAssumption DEF TypeOK
<1>3. exit[req[r].p]
  <2>1. req[r].p \in AllEntries
    BY Zenon, <1>1, <1>2, EntryIs
  <2> QED
    BY Zenon, <2>1, AnswerIsExit DEF WaitWon, AnswerIsExit
<1>4. Stages[c][e] = "exited" /\ Stages'[c][e] = "none"
  BY SMTT(30), <1>1, <1>2, <1>3, StageIs
<1>5. ASSUME NEW d \in Cid, NEW f \in Eid, d # c \/ f # e
      PROVE  Stages'[d][f] = Stages[d][f]
  <2>1. table[d][f] # req[r].p /\ table'[d][f] = table[d][f]
    BY Zenon, <1>1, <1>5
  <2>2. \A p \in Pid : p = table[d][f] => exit'[p] = exit[p]
    BY Zenon, <1>1, <1>2, <2>1
  <2> QED
    BY Zenon, <1>1, <2>1, <2>2, StageSame
<1>6. ctr'[c] # "none" /\ Sandboxed' = Sandboxed
  BY Zenon, <1>1, <1>2, TableInv DEF TableInv, Sandboxed
<1>7. Life!Move(c, e, "exited", "none")
  BY Zenon, <1>4, <1>5, <1>6, LifeMove
<1> QED
  BY Zenon, <1>6, <1>7 DEF Life!Next, Life!Collect

\* A container that goes takes its processes along, and no others.
LEMMA LifeDrop ==
  ASSUME TypeOK, SlotInv, NEW c \in Cid, NEW R, DropContainer(R, c), UNCHANGED proc
  PROVE  Life!Next
<1>1. /\ \A d \in Cid, e \in Eid : table'[d][e] = IF d = c THEN NoPid ELSE table[d][e]
      /\ \A p \in Pid : exit'[p] = (exit[p] /\ p \notin Entries(c))
  BY Zenon, DropTable
<1>2. ASSUME NEW d \in Cid, NEW e \in Eid
      PROVE  Stages'[d][e] = IF d = c THEN "none" ELSE Stages[d][e]
  <2>1. CASE d = c
    <3>1. table'[d][e] = NoPid
      BY Zenon, <1>1, <2>1
    <3>2. Stages'[d][e] = "none"
      BY Zenon, <3>1, StageIs
    <3> QED
      BY Zenon, <2>1, <3>2
  <2>2. CASE d # c
    <3>1. table'[d][e] = table[d][e]
      BY Zenon, <1>1, <2>2
    <3>2. ASSUME NEW p \in Pid, p = table[d][e]
          PROVE  exit'[p] = exit[p]
      <4>1. ASSUME NEW f \in Eid, table[c][f] = p
            PROVE  FALSE
        <5>1. table[d][e] # NoPid /\ table[d][e] = table[c][f]
          BY Zenon, <3>2, <4>1, ProcessAssumption
        <5>2. d = c
          BY SMTT(30), <5>1, SlotInv DEF SlotInv
        <5> QED
          BY Zenon, <2>2, <5>2
      <4>2. p \notin Entries(c)
        BY Zenon, <4>1 DEF Entries
      <4>3. exit[p] \in BOOLEAN
        BY Zenon DEF TypeOK
      <4> QED
        BY SMTT(30), <1>1, <4>2, <4>3
    <3>3. Stages'[d][e] = Stages[d][e]
      BY Zenon, <3>1, <3>2, StageSame
    <3> QED
      BY Zenon, <2>2, <3>3
  <2> QED
    BY Zenon, <2>1, <2>2
<1>3. Stages' = [Stages EXCEPT ![c] = [e \in Eid |-> "none"]]
  <2> DEFINE S == Stages
             T == Stages'
  <2>1. S = [d \in Cid |-> [f \in Eid |-> S[d][f]]] /\ T = [d \in Cid |-> [f \in Eid |-> T[d][f]]]
    BY Zenon, StagesIs
  <2>2. \A d \in Cid, e \in Eid : T[d][e] = IF d = c THEN "none" ELSE S[d][e]
    BY Zenon, <1>2
  <2> HIDE DEF S, T
  <2>3. [S EXCEPT ![c] = [e \in Eid |-> "none"]] = [d \in Cid |-> [f \in Eid |-> T[d][f]]]
    BY SMTT(30), <2>1, <2>2
  <2>4. T = [S EXCEPT ![c] = [e \in Eid |-> "none"]]
    BY Zenon, <2>1, <2>3
  <2> QED
    BY Zenon, <2>4 DEF S, T
<1>4. Sandboxed' = Sandboxed \ {c}
  <2>1. \A d \in Cid : ctr'[d] # "none" <=> ctr[d] # "none" /\ d # c
    BY Zenon DEF DropContainer, TypeOK
  <2> QED
    BY Zenon, <2>1 DEF Sandboxed
<1> QED
  BY Zenon, <1>3, <1>4 DEF Life!Next, Life!Remove

\* The handler reaps a child.
LEMMA LifeReap ==
  ASSUME TypeOK, SlotInv, TableInv, ReapInv, NEW p \in Pid, HandlerReap(p)
  PROVE  [Life!Next]_<<Sandboxed, Stages>>
<1>1. /\ UNCHANGED <<ctr, table, exit>> /\ proc' = [proc EXCEPT ![p] = "free"]
      /\ proc[p] = "zombie" /\ proc \in [Pid -> ProcState]
  BY Zenon DEF HandlerReap, TypeOK
<1>2. Sandboxed' = Sandboxed
  BY Zenon, <1>1 DEF Sandboxed
<1>3. CASE p \notin AllEntries
  <2>1. \A q \in Pid : q \in AllEntries => (proc'[q] = "free" <=> proc[q] = "free")
    BY Zenon, <1>1, <1>3
  <2> QED
    BY Zenon, <1>1, <1>2, <2>1, LifeSame
<1>4. CASE p \in AllEntries
  <2>1. PICK c \in Cid, e \in Eid : table[c][e] = p /\ p # NoPid
    BY Zenon, <1>4, EntryIs
  <2>2. ~exit[p] /\ proc'[p] = "free" /\ proc[p] # "free" /\ table'[c][e] = p /\ ~exit'[p]
    BY Zenon, <1>1, <2>1, ReapInv DEF ReapInv
  <2>3. Stages[c][e] = "running" /\ Stages'[c][e] = "reaped"
    BY SMTT(30), <2>1, <2>2, StageIs
  <2>4. ASSUME NEW d \in Cid, NEW f \in Eid, d # c \/ f # e
        PROVE  Stages'[d][f] = Stages[d][f]
    <3>1. table[d][f] # p
      BY SMTT(30), <2>1, <2>4, SlotInv DEF SlotInv
    <3>2. \A q \in Pid : q = table[d][f] => (proc'[q] = "free" <=> proc[q] = "free")
      BY Zenon, <1>1, <3>1
    <3> QED
      BY Zenon, <1>1, <3>2, StageSame
  <2>5. ctr'[c] # "none"
    BY Zenon, <1>1, <2>1, TableInv DEF TableInv
  <2>6. Life!Move(c, e, "running", "reaped")
    BY Zenon, <2>3, <2>4, <2>5, LifeMove
  <2> QED
    BY Zenon, <1>2, <2>6 DEF Life!Next, Life!Reap
<1> QED
  BY Zenon, <1>3, <1>4

\* The handler records the exit of the child that it has reaped.
LEMMA LifeRecord ==
  ASSUME TypeOK, SlotInv, TableInv, ReapInv, Tell, hpid \in AllEntries, UNCHANGED <<ctr, table, proc>>
  PROVE  [Life!Next]_<<Sandboxed, Stages>>
<1>1. PICK c \in Cid, e \in Eid : table[c][e] = hpid /\ hpid # NoPid
  BY Zenon, EntryIs
<1>2. /\ hpid \in Pid /\ exit \in [Pid -> BOOLEAN] /\ exit' = [exit EXCEPT ![hpid] = TRUE]
      /\ Sandboxed' = Sandboxed /\ proc[hpid] = "free"
  BY Zenon, <1>1, ReapInv DEF TypeOK, Tell, Sandboxed, ReapInv
<1>3. CASE exit[hpid]
  <2>1. exit' = exit
    BY SMTT(30), <1>2, <1>3
  <2> QED
    BY Zenon, <1>2, <2>1, LifeSame
<1>4. CASE ~exit[hpid]
  <2>1. exit'[hpid] /\ table'[c][e] = hpid
    BY Zenon, <1>1, <1>2
  <2>2. Stages[c][e] = "reaped" /\ Stages'[c][e] = "exited"
    BY SMTT(30), <1>1, <1>2, <1>4, <2>1, StageIs
  <2>3. ASSUME NEW d \in Cid, NEW f \in Eid, d # c \/ f # e
        PROVE  Stages'[d][f] = Stages[d][f]
    <3>1. table[d][f] # hpid
      BY SMTT(30), <1>1, <2>3, SlotInv DEF SlotInv
    <3>2. \A q \in Pid : q = table[d][f] => exit'[q] = exit[q]
      BY Zenon, <1>2, <3>1
    <3> QED
      BY Zenon, <3>2, StageSame
  <2>4. ctr'[c] # "none"
    BY Zenon, <1>1, TableInv DEF TableInv
  <2>5. Life!Move(c, e, "reaped", "exited")
    BY Zenon, <2>2, <2>3, <2>4, LifeMove
  <2> QED
    BY Zenon, <1>2, <2>5 DEF Life!Next, Life!Record
<1> QED
  BY Zenon, <1>3, <1>4

\* Every step is one of ProcessLife, or changes nothing of it.
LEMMA LifeStep ==
  ASSUME TypeOK, LockInv, CtrInv, ChildInv, HookInv, SlotInv, TableInv, AnswerIsExit, ReapInv,
         [Next]_vars
  PROVE  [Life!Next]_<<Sandboxed, Stages>>
<1>1. ASSUME NEW r \in Req, CreateOk(r) \/ ExecOk(r)
      PROVE  Life!Next
  BY Zenon, <1>1, LifeStart
<1>2. ASSUME NEW r \in Req, WaitWon(r)
      PROVE  Life!Next
  BY Zenon, <1>2, LifeCollect
<1>3. ASSUME NEW r \in Req, RemoveDestroy(r)
      PROVE  [Life!Next]_<<Sandboxed, Stages>>
  <2>1. req[r].c \in Cid /\ UNCHANGED proc /\ ctr[req[r].c] # "none"
    BY Zenon, <1>3, CtrInv, TableInv, KillKeepsProc
    DEF RemoveDestroy, CtrInv, TableInv, Removing, kernel
  <2>2. CASE UNCHANGED <<table, exit>> /\ (ctr' = ctr \/ ctr' = [ctr EXCEPT ![req[r].c] = "stopped"])
    <3>1. \A d \in Cid : ctr'[d] # "none" <=> ctr[d] # "none"
      BY Zenon, <2>1, <2>2 DEF TypeOK
    <3>2. Sandboxed' = Sandboxed
      BY Zenon, <3>1 DEF Sandboxed
    <3> QED
      BY Zenon, <2>1, <2>2, <3>2, LifeSame
  <2>3. CASE DropContainer([req EXCEPT ![r] = Idle], req[r].c)
    BY Zenon, <2>1, <2>3, LifeDrop
  <2> QED
    BY Zenon, <1>3, <2>2, <2>3 DEF RemoveDestroy
<1>4. ASSUME NEW r \in Req, RemoveResources(r)
      PROVE  Life!Next
  <2>1. req[r].c \in Cid /\ UNCHANGED proc /\ DropContainer([req EXCEPT ![r] = Idle], req[r].c)
    BY Zenon, <1>4, CtrInv DEF RemoveResources, CtrInv, kernel
  <2> QED
    BY Zenon, <2>1, LifeDrop
<1>5. ASSUME NEW r \in Req, HookEnd(r)
      PROVE  UNCHANGED <<Sandboxed, Stages>>
  <2>1. UNCHANGED <<table, exit, ctr>> /\ proc' = [proc EXCEPT ![req[r].q] = "free"] /\ req[r].q \notin AllEntries
    BY Zenon, <1>5, HookInv DEF HookEnd, HookInv
  <2>2. \A p \in Pid : p \in AllEntries => (proc'[p] = "free" <=> proc[p] = "free")
    BY Zenon, <2>1 DEF TypeOK
  <2>3. Sandboxed' = Sandboxed
    BY Zenon, <2>1 DEF Sandboxed
  <2> QED
    BY Zenon, <2>1, <2>2, <2>3, LifeSame
<1>6. ASSUME NEW p \in Pid, HandlerReap(p)
      PROVE  [Life!Next]_<<Sandboxed, Stages>>
  BY Zenon, <1>6, LifeReap
<1>7. ASSUME HandlerFind
      PROVE  [Life!Next]_<<Sandboxed, Stages>>
  <2>1. UNCHANGED <<ctr, table, proc>> /\ Sandboxed' = Sandboxed
    BY Zenon, <1>7 DEF HandlerFind, kernel, Sandboxed
  <2>2. CASE Tell /\ hpid \in AllEntries
    BY Zenon, <2>1, <2>2, LifeRecord
  <2>3. CASE ~(Tell /\ hpid \in AllEntries)
    <3>1. exit' = exit
      BY Zenon, <1>7, <2>3 DEF HandlerFind
    <3> QED
      BY Zenon, <2>1, <3>1, LifeSame
  <2> QED
    BY Zenon, <2>2, <2>3
<1>8. ASSUME HandlerDrained
      PROVE  [Life!Next]_<<Sandboxed, Stages>>
  BY Zenon, <1>8, ReapInv, LifeRecord DEF HandlerDrained, ReapInv, kernel
<1>9. ASSUME \/ \E r \in Req : StartOpen(r) \/ \E p \in Pid : HookSpawn(r, p)
             \/ \E r \in Req, c \in Cid, p \in Pid : CreateBegin(r, c, p) \/ \E e \in Exec : ExecBegin(r, c, e, p)
             \/ \E p \in Pid : ChildReady(p) \/ ChildOpens(p) \/ Exit(p)
      PROVE  UNCHANGED <<Sandboxed, Stages>>
  <2>1. /\ UNCHANGED <<table, exit>> /\ Aside
        /\ \A q \in Pid : q \in AllEntries => (proc'[q] = "free" <=> proc[q] = "free")
    BY Zenon, <1>9, Lives
  <2> QED
    BY Zenon, <2>1, SameCtrs, LifeSame
<1>10. ASSUME \/ \E r \in Req : \/ CreateFail(r) \/ CreateUndone(r) \/ ExecFail(r) \/ StartEnd(r)
                                \/ SignalFreeze(r) \/ SignalPids(r) \/ SignalKill(r) \/ SignalThaw(r)
                                \/ WaitSignalled(r) \/ WaitLost(r) \/ ReadSelect(r) \/ ReadEnd(r)
              \/ \E r \in Req, c \in Cid : StartBegin(r, c) \/ RemoveBegin(r, c)
              \/ \E r \in Req, c \in Cid, e \in Eid : WaitBegin(r, c, e) \/ ReadBegin(r, c, e)
              \/ \E r \in Req, c \in Cid, e \in Eid, k \in BOOLEAN : SignalBegin(r, c, e, k)
              \/ \E c \in Cid : Pause(c) \/ Resume(c)
              \/ HandlerRecv \/ HandlerEnd \/ (\E p \in Pid : HeirExit(p)) \/ UNCHANGED vars
      PROVE  UNCHANGED <<Sandboxed, Stages>>
  <2>1. UNCHANGED <<table, exit, proc>> /\ Aside
    BY Zenon, <1>10, Quiet
  <2> QED
    BY Zenon, <2>1, SameCtrs, LifeSame
<1> QED
  BY ZenonT(60), <1>1, <1>2, <1>3, <1>4, <1>5, <1>6, <1>7, <1>8, <1>9, <1>10
  DEF Next, Begin, Locking, Running, Fail, Handle, Eid
-----------------------------------------------------------------------------
(* The theorems *)

\* What every step preserves, all of it together.
Inv ==
  /\ TypeOK /\ LockInv /\ CtrInv /\ ChildInv /\ HookInv /\ SlotInv /\ TableInv
  /\ WaitChannel /\ AnswerIsExit /\ ExitKept /\ NoZombieForgotten /\ FrozenForAReason
  /\ ReapInv

\* It holds before the first request.
LEMMA InitInv ==
  ASSUME Init
  PROVE  Inv
<1>1. req \in [Req -> Request]
  BY Zenon, IdleType DEF Init
<1>2. TypeOK
  BY Zenon, <1>1, ProcessAssumption DEF Init, TypeOK, CtrState, ProcState
<1>3. \A r \in Req : /\ req[r].pc = "idle" /\ req[r].chan = "none"
  BY Zenon DEF Init, Idle
<1>4. \A c \in Cid, e \in Eid : table[c][e] = NoPid
  BY Zenon DEF Init
<1>5. LockInv
  BY Zenon, <1>3, ProcessAssumption DEF Init, LockInv, Holds
<1>6. CtrInv /\ ChildInv /\ HookInv /\ SlotInv
  BY Zenon, <1>3, <1>4 DEF CtrInv, ChildInv, HookInv, SlotInv, Child
<1>7. TableInv
  BY Zenon, <1>3, <1>4 DEF Init, TableInv, Child, Removing
<1>8. WaitChannel /\ AnswerIsExit
  BY Zenon, <1>3 DEF WaitChannel, AnswerIsExit
<1>9. AllEntries = {}
  BY Zenon, <1>4 DEF AllEntries, Entries
<1>10. ExitKept
  BY Zenon, <1>9 DEF ExitKept
<1>11. NoZombieForgotten /\ FrozenForAReason
  BY Zenon DEF Init, NoZombieForgotten, FrozenForAReason
<1>12. ReapInv
  BY Zenon DEF Init, ReapInv
<1> QED
  BY Zenon, <1>2, <1>5, <1>6, <1>7, <1>8, <1>10, <1>11, <1>12 DEF Inv

\* Every step of every request, of the handler and of the guest keeps it.
LEMMA StepInv ==
  ASSUME Inv, [Next]_vars
  PROVE  Inv'
<1>1. TypeOK'
  BY Zenon, TypeStep DEF Inv
<1>2. LockInv' /\ CtrInv'
  BY Zenon, LockStep, CtrStep DEF Inv
<1>3. ChildInv' /\ HookInv' /\ SlotInv'
  BY Zenon, ChildStep DEF Inv
<1>4. TableInv'
  BY Zenon, TableStep DEF Inv
<1>5. WaitChannel' /\ AnswerIsExit'
  BY Zenon, AnswerStep DEF Inv
<1>6. ExitKept' /\ NoZombieForgotten'
  BY Zenon, ExitStep, ZombieStep DEF Inv
<1>7. FrozenForAReason'
  BY Zenon, FrozenStep DEF Inv
<1>8. ReapInv'
  BY Zenon, ReapStep DEF Inv
<1> QED
  BY Zenon, <1>1, <1>2, <1>3, <1>4, <1>5, <1>6, <1>7, <1>8 DEF Inv

\* So it holds in every state.
LEMMA AlwaysInv == Spec => []Inv
  BY InitInv, StepInv, PTL DEF Spec

\* Every state of the agent is well typed, for every set of containers, execs, pids and
\* requests, with and without hooks and passfd.
THEOREM TypesKept == Spec => []TypeOK
<1>1. Inv => TypeOK
  BY Zenon DEF Inv
<1> QED
  BY <1>1, AlwaysInv, PTL

\* No reaped exit is lost, however the handler's search for the process and the start of the
\* process interleave: container.rs:1447 and signal.rs:50.
THEOREM NoExitLost == Spec => []ExitKept
<1>1. Inv => ExitKept
  BY Zenon DEF Inv
<1> QED
  BY <1>1, AlwaysInv, PTL

\* No zombie is forgotten, however many exits one SIGCHLD stands for: signal.rs:24.
THEOREM NoZombieLeft == Spec => []NoZombieForgotten
<1>1. Inv => NoZombieForgotten
  BY Zenon DEF Inv
<1> QED
  BY <1>1, AlwaysInv, PTL

\* However many WaitProcess requests race for a process, one that goes on has the exit code
\* that the handler stored: rpc.rs:619-655.
THEOREM WaitsAnswered == Spec => []AnswerIsExit
<1>1. Inv => AnswerIsExit
  BY Zenon DEF Inv
<1> QED
  BY <1>1, AlwaysInv, PTL

\* The requests that lose the race and find the process gone have their answer in the
\* channel, so that none blocks with the sandbox mutex: rpc.rs:631-638.
THEOREM LosersAnswered == Spec => []LostRaceAnswered
<1>1. Inv => LostRaceAnswered
  BY Zenon DEF Inv, WaitChannel, LostRaceAnswered
<1> QED
  BY <1>1, AlwaysInv, PTL

\* However many signals, pauses, resumes and removals interleave, no container stays frozen
\* without a reason: rpc.rs:535-567.
THEOREM FreezerReleased == Spec => []FrozenForAReason
<1>1. Inv => FrozenForAReason
  BY Zenon DEF Inv
<1> QED
  BY <1>1, AlwaysInv, PTL

\* The agent implements ProcessLife: however creates, execs, waits and removes interleave with
\* the handler, an exit is recorded of a process that has been reaped and still has its slot,
\* and its slot is freed by a wait that has the exit, or with its container (signal.rs:29-76,
\* rpc.rs:619-655).
THEOREM AgentImplementsProcessLife == Spec => ImplementsProcessLife
<1>1. Init => Life!Init
  <2> SUFFICES ASSUME Init
               PROVE  Life!Init
    BY Zenon
  <2>1. \A c \in Cid : ctr[c] = "none" /\ \A e \in Eid : table[c][e] = NoPid
    BY Zenon DEF Init
  <2> QED
    BY Zenon, <2>1 DEF Life!Init, Sandboxed, Stages
<1>2. Inv /\ [Next]_vars => [Life!Next]_<<Sandboxed, Stages>>
  BY Zenon, LifeStep DEF Inv
<1> QED
  BY <1>1, <1>2, AlwaysInv, PTL DEF Spec, ImplementsProcessLife, Life!Spec
=============================================================================
