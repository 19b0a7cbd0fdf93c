----------------------- MODULE ContainerManagerProofs -----------------------
(***************************************************************************)
(* Proofs about the container manager, for all containers, execs, objects, *)
(* threads and waiters, both io modes and any client.                      *)
(***************************************************************************)
EXTENDS ContainerManager, TLAPS

\* A wait thread that has not ended has a Process.
ThreadsHaveRefs == \A t \in Thread : pc[t] # "idle" => tref[t] \in Ref

TypeInv == TypeOK /\ ThreadsHaveRefs

\* The types of the guest's part of the state.
GuestOK ==
  /\ gctr \in [Cid -> GuestState]
  /\ gproc \in [Cid -> [AllEid -> RefOrNone]]
  /\ galive \subseteq Ref

\* The init process is not an exec.
LEMMA ExecIsNotInit == InitId \in AllEid /\ \A e \in Eid : e \in AllEid /\ e # InitId
  BY Zenon, ConstantsAssumption DEF AllEid

\* A free object is in no slot, and no thread has it.
LEMMA FreeSlot ==
  ASSUME NEW r \in Ref, Free(r)
  PROVE  /\ \A c \in Cid, e \in AllEid : procs[c][e] # r
         /\ \A t \in Thread : tref[t] # r
  <1>1. r # NoRef
    BY Zenon, ConstantsAssumption
  <1> QED  BY Zenon, <1>1 DEF Free, RefsOf

\* A process slot that is in use holds an object.
LEMMA RefOfSlot ==
  ASSUME TypeInv, NEW c \in Cid, NEW e \in AllEid, procs[c][e] # NoRef
  PROVE  procs[c][e] \in Ref
  BY DEF TypeInv, TypeOK, RefOrNone

\* So does the agent's slot of a process.
LEMMA GuestSlot ==
  ASSUME TypeInv, NEW c \in Cid, NEW e \in AllEid, gproc[c][e] # NoRef
  PROVE  gproc[c][e] \in Ref
  BY DEF TypeInv, TypeOK, RefOrNone

\* The agent's table of processes keeps its type when a process is forgotten.
LEMMA GuestForgets ==
  ASSUME TypeInv, NEW c \in Cid, NEW e \in AllEid, NEW r,
         gproc' = [gproc EXCEPT ![c][e] = IF @ = r THEN NoRef ELSE @]
  PROVE  gproc' \in [Cid -> [AllEid -> RefOrNone]]
  <1>1. gproc \in [Cid -> [AllEid -> RefOrNone]]
    BY Zenon DEF TypeInv, TypeOK
  <1>2. NoRef \in RefOrNone
    BY Zenon DEF RefOrNone
  <1> QED  BY Zenon, <1>1, <1>2

\* The ids of a wait thread's process.
LEMMA ThreadKey ==
  ASSUME TypeInv, NEW t \in Thread, pc[t] # "idle"
  PROVE  tref[t] \in Ref /\ TCid(t) \in Cid /\ TEid(t) \in AllEid
  BY Zenon DEF TypeInv, TypeOK, ThreadsHaveRefs, TCid, TEid

\* What remove_container leaves of the guest has the guest's types.
LEMMA GuestGoneTypes ==
  ASSUME GuestOK, NEW c \in Cid, GuestGone(c)
  PROVE  GuestOK'
  BY Zenon DEF GuestOK, GuestGone, NoProcs, RefOrNone, GuestState

\* So has what a create leaves behind whose reply was lost.
LEMMA GuestLeftOverTypes ==
  ASSUME GuestOK, setting \in Settings, NEW c \in Cid, GuestLeftOver(c)
  PROVE  GuestOK'
  <1>1. PICK r \in setting.refs :
          /\ gproc' = [gproc EXCEPT ![c] = [NoProcs EXCEPT ![InitId] = r]]
          /\ galive' = galive \cup {r}
    BY Zenon DEF GuestLeftOver
  <1>2. r \in Ref
    BY ConstantsAssumption DEF Setting
  <1>3. [NoProcs EXCEPT ![InitId] = r] \in [AllEid -> RefOrNone]
    BY Zenon, <1>2 DEF NoProcs, RefOrNone, AllEid
  <1> QED  BY <1>1, <1>2, <1>3 DEF GuestLeftOver, GuestOK, GuestState

\* Killing some processes keeps the guest's types.
LEMMA KillGuestTypes ==
  ASSUME GuestOK, NEW S, KillGuest(S)
  PROVE  GuestOK'
  BY Zenon DEF GuestOK, KillGuest

\* stop_process keeps the types of what it writes.
LEMMA StopProcessTypes ==
  ASSUME TypeInv, NEW c \in Cid, NEW e \in AllEid, Registered(c), StopProcess(c, e)
  PROVE  /\ status' \in [Ref -> ProcessStatus]
         /\ cleaned' \in [Ref -> 0..MaxCleaned]
         /\ GuestOK'
         /\ UNCHANGED vmUp
  <1>0. GuestOK
    BY Zenon DEF TypeInv, TypeOK, GuestOK
  <1>1. CASE UNCHANGED <<status, cleaned, guest>>
    BY Zenon, <1>0, <1>1 DEF TypeInv, TypeOK, guest, GuestOK
  <1>2. CASE /\ e = InitId
             /\ status' = [status EXCEPT ![procs[c][e]] = "Stopped"]
             /\ cleaned' = [cleaned EXCEPT ![procs[c][e]] = OnceMore(@)]
             /\ \/ vmUp /\ GuestGone(c)
                \/ Sigkill(c, e)
    <2>1. status' \in [Ref -> ProcessStatus]
      BY Zenon, <1>2 DEF TypeInv, TypeOK, ProcessStatus
    <2>2. cleaned' \in [Ref -> 0..MaxCleaned]
      <3>1. procs[c][e] \in Ref
        BY Zenon, <1>2, RefOfSlot DEF Registered
      <3>2. cleaned \in [Ref -> 0..MaxCleaned] /\ cleaned' = [cleaned EXCEPT ![procs[c][e]] = OnceMore(@)]
        BY Zenon, <1>2 DEF TypeInv, TypeOK
      <3> QED  BY <3>1, <3>2 DEF OnceMore, MaxCleaned
    <2>3. GuestOK' /\ UNCHANGED vmUp
      BY Zenon, <1>0, <1>2, GuestGoneTypes, KillGuestTypes DEF Sigkill, GuestGone, KillGuest
    <2> QED  BY Zenon, <2>1, <2>2, <2>3
  <1>3. CASE /\ status' = [r \in Ref |-> IF r = procs[c][e] THEN "Stopped" ELSE status[r]]
             /\ Sigkill(c, e)
             /\ UNCHANGED cleaned
    <2>1. /\ status' \in [Ref -> ProcessStatus]
          /\ cleaned' \in [Ref -> 0..MaxCleaned]
      BY Zenon, <1>3 DEF TypeInv, TypeOK, ProcessStatus
    <2>2. GuestOK' /\ UNCHANGED vmUp
      BY Zenon, <1>0, <1>3, KillGuestTypes DEF Sigkill, KillGuest
    <2> QED  BY Zenon, <2>1, <2>2
  <1> QED  BY Zenon, <1>1, <1>2, <1>3 DEF StopProcess

\* Dropping objects keeps the type of the notifiers.
LEMMA DiscardTypes ==
  ASSUME TypeInv, NEW S
  PROVE  Discard(S) \in [Ref -> NotifierPlace]
  BY Zenon DEF TypeInv, TypeOK, Discard, NotifierPlace

\* No cleanup is a number of cleanups.
LEMMA NoneCleaned == 0 \in 0..MaxCleaned
  BY DEF MaxCleaned

\* Process::new keeps the types of the fields of a Process.
LEMMA NewProcessTypes ==
  ASSUME TypeInv, NEW r \in Ref, NEW c \in Cid, NEW e \in AllEid, NEW S, NewProcess(r, c, e, S)
  PROVE  /\ key' \in [Ref -> Cid \X AllEid]
         /\ status' \in [Ref -> ProcessStatus]
         /\ code' \in [Ref -> Code]
         /\ notifier' \in [Ref -> NotifierPlace]
         /\ cleaned' \in [Ref -> 0..MaxCleaned]
  BY Zenon, DiscardTypes, NoneCleaned DEF TypeInv, TypeOK, NewProcess, ProcessStatus, Code, NotifierPlace

\* The types of the wait threads' part of the state.
ThreadsOK ==
  /\ notifier \in [Ref -> NotifierPlace]
  /\ pc \in [Thread -> PCs]
  /\ tref \in [Thread -> RefOrNone]
  /\ tcode \in [Thread -> Code]
  /\ holds \subseteq Thread
  /\ ThreadsHaveRefs

\* The tail of start keeps the threads' types.
LEMMA StartIoTypes ==
  ASSUME TypeInv, NEW r \in Ref, NEW b, StartIo(r, b)
  PROVE  ThreadsOK'
  <1> USE DEF TypeInv, TypeOK, ThreadsHaveRefs, ThreadsOK, NotifierPlace
  <1>1. CASE UNCHANGED <<threads, notifier>>
    BY Zenon, <1>1 DEF threads
  <1>2. CASE SpawnWait(r)
    BY <1>2 DEF SpawnWait, PCs, RefOrNone
  <1> QED  BY Zenon, <1>1, <1>2 DEF StartIo

\* The end of a thread keeps the threads' types.
LEMMA EndThreadTypes ==
  ASSUME TypeInv, NEW t \in Thread, EndThread(t)
  PROVE  ThreadsOK'
  BY Zenon DEF TypeInv, TypeOK, ThreadsHaveRefs, EndThread, ThreadsOK, PCs, RefOrNone, Code,
         NotifierPlace

\* Every step keeps the types.
LEMMA TypeStep == TypeInv /\ [Next]_vars => TypeInv'
  <1> SUFFICES ASSUME TypeInv, [Next]_vars PROVE TypeInv'
    BY Zenon
  <1> USE DEF TypeInv, TypeOK, ThreadsHaveRefs, ProcessStatus, NotifierPlace, GuestState,
              host, threads, guest
  <1>s. setting' = setting
    BY Zenon DEF Next, vars
  <1> USE <1>s
  <1>0. CASE UNCHANGED vars
    BY Zenon, <1>0 DEF vars, state
  <1>1. ASSUME NEW c \in Cid, CreateContainer(c) PROVE TypeInv'
    <2>1. PICK r \in Ref : /\ NewProcess(r, c, InitId, RefsOf(procs[c]))
                           /\ procs' = [procs EXCEPT ![c] = [NoProcs EXCEPT ![InitId] = r]]
                           /\ gproc' = [gproc EXCEPT ![c] = [NoProcs EXCEPT ![InitId] = r]]
                           /\ galive' = galive \cup {r}
      BY Zenon, <1>1 DEF CreateContainer
    <2>2. InitId \in AllEid
      BY Zenon DEF AllEid
    <2>3. [NoProcs EXCEPT ![InitId] = r] \in [AllEid -> RefOrNone]
      BY Zenon, <2>2 DEF NoProcs, RefOrNone
    <2>4. /\ key' \in [Ref -> Cid \X AllEid]
          /\ status' \in [Ref -> ProcessStatus]
          /\ code' \in [Ref -> Code]
          /\ notifier' \in [Ref -> NotifierPlace]
          /\ cleaned' \in [Ref -> 0..MaxCleaned]
      BY Zenon, <2>1, <2>2, NewProcessTypes
    <2> QED  BY <1>1, <2>1, <2>3, <2>4 DEF CreateContainer
  <1>2. ASSUME NEW c \in Cid, CreateFails(c) PROVE TypeInv'
    BY Zenon, <1>2, GuestGoneTypes, GuestLeftOverTypes
       DEF CreateFails, GuestOK, GuestGone, GuestLeftOver
  <1>3. ASSUME NEW c \in Cid, StartContainer(c) PROVE TypeInv'
    BY Zenon, <1>3, RefOfSlot, StartIoTypes DEF StartContainer, ThreadsOK, InnerFree, Registered, AllEid
  <1>4. ASSUME NEW c \in Cid, StartContainerFails(c) PROVE TypeInv'
    BY Zenon, <1>4, StopProcessTypes DEF StartContainerFails, GuestOK, InnerFree, AllEid
  <1>5. ASSUME NEW c \in Cid, StartContainerTimesOut(c) PROVE TypeInv'
    BY Zenon, <1>5 DEF StartContainerTimesOut
  <1>6. ASSUME NEW c \in Cid, PauseBegin(c) PROVE TypeInv'
    BY Zenon, <1>6 DEF PauseBegin
  <1>7. ASSUME NEW c \in Cid, PauseEnd(c) PROVE TypeInv'
    BY Zenon, <1>7 DEF PauseEnd
  <1>8. ASSUME NEW c \in Cid, ResumeBegin(c) PROVE TypeInv'
    BY Zenon, <1>8 DEF ResumeBegin
  <1>9. ASSUME NEW c \in Cid, ResumeEnd(c) PROVE TypeInv'
    BY Zenon, <1>9 DEF ResumeEnd
  <1>10. ASSUME NEW c \in Cid, UpdateContainer(c) PROVE TypeInv'
    BY Zenon, <1>10 DEF UpdateContainer
  <1>11. ASSUME NEW c \in Cid, DeleteContainer(c) PROVE TypeInv'
    BY Zenon, <1>11, DiscardTypes DEF DeleteContainer, NoProcs, RefOrNone
  <1>12. ASSUME NEW c \in Cid, NEW e \in Eid, ExecProcess(c, e) PROVE TypeInv'
    <2>1. PICK r \in Ref : /\ NewProcess(r, c, e, {procs[c][e]})
                           /\ procs' = [procs EXCEPT ![c][e] = r]
      BY Zenon, <1>12 DEF ExecProcess
    <2>2. e \in AllEid
      BY Zenon DEF AllEid
    <2>3. /\ key' \in [Ref -> Cid \X AllEid]
          /\ status' \in [Ref -> ProcessStatus]
          /\ code' \in [Ref -> Code]
          /\ notifier' \in [Ref -> NotifierPlace]
          /\ cleaned' \in [Ref -> 0..MaxCleaned]
      BY Zenon, <2>1, <2>2, NewProcessTypes
    <2>4. procs' \in [Cid -> [AllEid -> RefOrNone]]
      BY Zenon, <2>1, <2>2 DEF RefOrNone
    <2> QED  BY Zenon, <1>12, <2>3, <2>4 DEF ExecProcess
  <1>13. ASSUME NEW c \in Cid, NEW e \in Eid, DeleteExec(c, e) PROVE TypeInv'
    BY Zenon, <1>13, DiscardTypes DEF DeleteExec, RefOrNone
  <1>14. ASSUME NEW c \in Cid, NEW e \in Eid, StartExec(c, e) PROVE TypeInv'
    <2>1. e \in AllEid /\ procs[c][e] \in Ref
      BY Zenon, <1>14, RefOfSlot DEF StartExec, AllEid
    <2>2. gproc' \in [Cid -> [AllEid -> RefOrNone]] /\ galive' \subseteq Ref
      BY Zenon, <1>14, <2>1 DEF StartExec, RefOrNone
    <2>3. status' \in [Ref -> ProcessStatus]
      BY Zenon, <1>14 DEF StartExec
    <2>4. ThreadsOK'
      BY Zenon, <1>14, <2>1, StartIoTypes DEF StartExec
    <2> QED  BY Zenon, <1>14, <2>2, <2>3, <2>4 DEF StartExec, ThreadsOK
  <1>15. ASSUME NEW c \in Cid, NEW e \in Eid, StartExecFails(c, e) PROVE TypeInv'
    BY Zenon, <1>15, StopProcessTypes DEF StartExecFails, GuestOK, InnerFree, AllEid
  <1>16. ASSUME NEW c \in Cid, NEW e \in Eid, StartExecTimesOut(c, e) PROVE TypeInv'
    <2>1. e \in AllEid /\ procs[c][e] \in Ref
      BY Zenon, <1>16, RefOfSlot DEF StartExecTimesOut, AllEid
    <2>2. gproc' \in [Cid -> [AllEid -> RefOrNone]] /\ galive' \subseteq Ref
      BY <1>16, <2>1 DEF StartExecTimesOut, RefOrNone
    <2>3. status' \in [Ref -> ProcessStatus]
      BY ZenonT(60), <1>16 DEF StartExecTimesOut
    <2> QED  BY Zenon, <1>16, <2>2, <2>3 DEF StartExecTimesOut
  <1>17. ASSUME NEW c \in Cid, NEW e \in AllEid, NEW term \in BOOLEAN, KillProcess(c, e, term) PROVE TypeInv'
    BY Zenon, <1>17 DEF KillProcess, KillGuest
  <1>18. ASSUME NEW c \in Cid, NEW e \in AllEid, ProcessExit(c, e) PROVE TypeInv'
    BY Zenon, <1>18 DEF ProcessExit, KillGuest
  <1>19. ASSUME NEW w \in Waiter, NEW c \in Cid, NEW e \in AllEid, WaitBegin(w, c, e) PROVE TypeInv'
    BY ZenonT(60), <1>19 DEF WaitBegin
  <1>20. ASSUME NEW w \in Waiter, WaitReturn(w) PROVE TypeInv'
    BY ZenonT(60), <1>20 DEF WaitReturn, RefOrNone
  <1>21. ASSUME NEW t \in Thread, IoEnd(t) PROVE TypeInv'
    BY ZenonT(60), <1>21 DEF IoEnd, PCs, Code
  <1>22. ASSUME NEW t \in Thread, WaitSent(t) PROVE TypeInv'
    <2>1. TCid(t) \in Cid /\ TEid(t) \in AllEid
      BY ZenonT(60), <1>22, ThreadKey DEF WaitSent
    <2>2. gproc[TCid(t)][TEid(t)] \in Code
      BY ZenonT(60), <1>22, <2>1, GuestSlot DEF WaitSent, Code
    <2>3. tcode' \in [Thread -> Code] /\ pc' \in [Thread -> PCs]
      BY ZenonT(60), <1>22, <2>2 DEF WaitSent, PCs
    <2>4. ThreadsHaveRefs'
      BY ZenonT(60), <1>22 DEF WaitSent
    <2> QED  BY ZenonT(60), <1>22, <2>3, <2>4 DEF WaitSent
  <1>23. ASSUME NEW t \in Thread, WaitOk(t) PROVE TypeInv'
    <2>1. TCid(t) \in Cid /\ TEid(t) \in AllEid
      BY ZenonT(60), <1>23, ThreadKey DEF WaitOk
    <2>2. gproc' \in [Cid -> [AllEid -> RefOrNone]]
      BY ZenonT(60), <1>23, <2>1, GuestForgets DEF WaitOk
    <2>3. pc' \in [Thread -> PCs]
      BY ZenonT(60), <1>23 DEF WaitOk, PCs
    <2>4. ThreadsHaveRefs'
      BY ZenonT(60), <1>23 DEF WaitOk
    <2> QED  BY ZenonT(60), <1>23, <2>2, <2>3, <2>4 DEF WaitOk
  <1>24. ASSUME NEW t \in Thread, WaitFails(t) PROVE TypeInv'
    <2>1. CASE EndThread(t)
      <3>1. ThreadsOK'
        BY Zenon, <2>1, EndThreadTypes
      <3> QED  BY ZenonT(60), <1>24, <3>1 DEF WaitFails, ThreadsOK
    <2>2. CASE /\ pc' = [pc EXCEPT ![t] = "stop"]
               /\ tcode' = [tcode EXCEPT ![t] = "unknown"]
               /\ UNCHANGED <<tref, holds, notifier>>
      <3>1. pc' \in [Thread -> PCs] /\ tcode' \in [Thread -> Code]
        BY Zenon, <2>2 DEF PCs, Code
      <3>2. tref[t] \in Ref
        BY Zenon, <1>24, ThreadKey DEF WaitFails
      <3>3. ThreadsHaveRefs'
        BY Zenon, <2>2, <3>2
      <3> QED  BY Zenon, <1>24, <2>2, <3>1, <3>3 DEF WaitFails
    <2> QED  BY ZenonT(60), <1>24, <2>1, <2>2 DEF WaitFails
  <1>25. ASSUME NEW t \in Thread, StopStep(t) PROVE TypeInv'
    BY ZenonT(60), <1>25, ThreadKey, StopProcessTypes DEF StopStep, GuestOK, InnerFree, PCs
  <1>26. ASSUME NEW t \in Thread, StopMissing(t) PROVE TypeInv'
    BY ZenonT(60), <1>26, EndThreadTypes DEF StopMissing, ThreadsOK, PCs
  <1>27. ASSUME NEW t \in Thread, Record(t) PROVE TypeInv'
    BY ZenonT(60), <1>27 DEF Record, PCs, Code
  <1>28. ASSUME NEW t \in Thread, Publish(t) PROVE TypeInv'
    BY ZenonT(60), <1>28 DEF Publish, PCs, Code
  <1>29. ASSUME NEW t \in Thread, Notify(t) PROVE TypeInv'
    BY Zenon, <1>29, EndThreadTypes DEF Notify, ThreadsOK
  <1>30. CASE VmDies
    BY Zenon, <1>30 DEF VmDies
  <1> HIDE DEF TypeInv, vars
  <1> QED
    BY Zenon, <1>0, <1>1, <1>2, <1>3, <1>4, <1>5, <1>6, <1>7, <1>8, <1>9, <1>10, <1>11, <1>12, <1>13, <1>14, <1>15, <1>16, <1>17, <1>18, <1>19, <1>20, <1>21, <1>22, <1>23, <1>24, <1>25, <1>26, <1>27, <1>28, <1>29, <1>30
    DEF Next, Step, ContainerStep, ExecStep, ProcessStep, ThreadStep

\* The types hold initially.
LEMMA TypeInit == Init => TypeInv
  <1> SUFFICES ASSUME Init PROVE TypeInv
    BY Zenon
  <1>1. NoProcs \in [AllEid -> RefOrNone]
    BY Zenon DEF NoProcs, RefOrNone
  <1>2. (CHOOSE c \in Cid : TRUE) \in Cid /\ InitId \in AllEid
    BY Zenon, ConstantsAssumption DEF AllEid
  <1>3. /\ procs \in [Cid -> [AllEid -> RefOrNone]]
        /\ key \in [Ref -> Cid \X AllEid]
        /\ status \in [Ref -> ProcessStatus]
        /\ code \in [Ref -> Code]
        /\ notifier \in [Ref -> NotifierPlace]
        /\ cleaned \in [Ref -> 0..MaxCleaned]
    BY Zenon, <1>1, <1>2, NoneCleaned DEF Init, ProcessStatus, Code, NotifierPlace
  <1>4. /\ lock \in [Cid -> {"free", "pause", "resume"}]
        /\ pc \in [Thread -> PCs]
        /\ tref \in [Thread -> RefOrNone]
        /\ tcode \in [Thread -> Code]
        /\ waiting \in [Waiter -> RefOrNone]
        /\ gctr \in [Cid -> GuestState]
        /\ gproc \in [Cid -> [AllEid -> RefOrNone]]
        /\ ThreadsHaveRefs
    BY Zenon, <1>1 DEF Init, PCs, RefOrNone, Code, GuestState, ThreadsHaveRefs
  <1> QED  BY Zenon, <1>3, <1>4 DEF Init, TypeInv, TypeOK

\* Every reachable state has the types that TypeOK gives the fields of the Process
\* objects, the maps, the wait threads and the guest.
THEOREM TypeCorrect == Spec => []TypeOK
  <1>1. TypeInv => TypeOK
    BY Zenon DEF TypeInv
  <1> QED  BY TypeInit, TypeStep, <1>1, PTL DEF Spec
-----------------------------------------------------------------------------
(* cleanup_container runs at most once for a container.                    *)

\* A step that touches none of the variables of CleanupInv keeps it.
LEMMA CleanupFrame ==
  ASSUME CleanupInv, UNCHANGED <<procs, key, status, cleaned, lock, gctr>>
  PROVE  CleanupInv'
  BY Zenon DEF CleanupInv, AtMostOnce, Registered, Status

\* So does one that, of those variables, changes only the status of processes, and
\* makes no init process Running or Paused.
LEMMA CleanupStatus ==
  ASSUME CleanupInv, UNCHANGED <<procs, key, cleaned, lock, gctr>>,
         \A d \in Cid : Registered(d) => status'[procs[d][InitId]] \in {Status(d, InitId), "Stopped"}
  PROVE  CleanupInv'
  BY Zenon DEF CleanupInv, AtMostOnce, Registered, Status

\* So does one that, of those variables, changes only what the guest has under ids that are
\* not registered, or removes it.
LEMMA CleanupGuest ==
  ASSUME CleanupInv, UNCHANGED <<procs, key, status, cleaned, lock>>,
         \A d \in Cid : Registered(d) => gctr'[d] \in {gctr[d], "none"}
  PROVE  CleanupInv'
  BY Zenon DEF CleanupInv, AtMostOnce, Registered, Status

\* Container c keeps its part of CleanupInv: in terms of what the steps change.
CleanupOf(c) ==
  /\ lock[c] # "free" => Registered(c)
  /\ Registered(c) /\ (lock[c] # "free" \/ Status(c, InitId) \in {"Running", "Paused"})
       => gctr[c] # "created" /\ cleaned[procs[c][InitId]] = 0
  /\ Registered(c) /\ cleaned[procs[c][InitId]] # 0 => gctr[c] # "created"

\* CleanupInv, container by container.
LEMMA CleanupSplit ==
  CleanupInv <=> /\ \A c \in Cid, e \in AllEid : procs[c][e] # NoRef => key[procs[c][e]] = <<c, e>>
                 /\ \A c \in Cid : CleanupOf(c)
                 /\ AtMostOnce
  BY Zenon DEF CleanupInv, CleanupOf

\* The same for the next state.
LEMMA CleanupJoin ==
  ASSUME \A c \in Cid, e \in AllEid : procs'[c][e] # NoRef => key'[procs'[c][e]] = <<c, e>>,
         \A c \in Cid : CleanupOf(c)',
         AtMostOnce'
  PROVE  CleanupInv'
  BY Zenon DEF CleanupInv, CleanupOf

\* A container whose lock, status, cleanup and guest side stay keeps its part.
LEMMA CleanupOfFrame ==
  ASSUME NEW d \in Cid, CleanupOf(d), lock'[d] = lock[d], gctr'[d] = gctr[d],
         Registered(d)' <=> Registered(d),
         Registered(d) => Status(d, InitId)' = Status(d, InitId),
         Registered(d) => cleaned'[procs'[d][InitId]] = cleaned[procs[d][InitId]]
  PROVE  CleanupOf(d)'
  BY Zenon DEF CleanupOf

\* An init process belongs to one container.
LEMMA OtherInit ==
  ASSUME TypeInv, CleanupInv, NEW c \in Cid, Registered(c), NEW d \in Cid \ {c}, Registered(d)
  PROVE  procs[d][InitId] \in Ref \ {procs[c][InitId]}
  <1>1. key[procs[c][InitId]] = <<c, InitId>> /\ key[procs[d][InitId]] = <<d, InitId>>
    BY Zenon, ExecIsNotInit DEF CleanupInv, Registered
  <1> QED  BY SMTT(30), <1>1, RefOfSlot, ExecIsNotInit DEF Registered

\* A step that starts, pauses or resumes a container that has not been cleaned up, and
\* that the agent has started, keeps CleanupInv.
LEMMA CleanupRun ==
  ASSUME TypeInv, CleanupInv, NEW c \in Cid, Registered(c),
         UNCHANGED <<procs, key, cleaned>>,
         cleaned[procs[c][InitId]] = 0, gctr'[c] # "created",
         \A r \in Ref \ {procs[c][InitId]} : status'[r] = status[r],
         \A d \in Cid \ {c} : lock'[d] = lock[d] /\ gctr'[d] = gctr[d]
  PROVE  CleanupInv'
  <1>1. ASSUME NEW d \in Cid \ {c} PROVE CleanupOf(d)'
    <2>1. CleanupOf(d)
      BY Zenon, CleanupSplit
    <2>2. Registered(d) => Status(d, InitId)' = Status(d, InitId)
      BY Zenon, OtherInit DEF Status
    <2> QED  BY Zenon, <2>1, <2>2, CleanupOfFrame DEF Registered
  <1>2. CleanupOf(c)'
    BY Zenon DEF CleanupOf, Registered
  <1>3. \A d \in Cid, e \in AllEid : procs'[d][e] # NoRef => key'[procs'[d][e]] = <<d, e>>
    BY Zenon DEF CleanupInv
  <1>4. AtMostOnce'
    BY Zenon DEF CleanupInv, AtMostOnce
  <1> QED  BY Zenon, <1>1, <1>2, <1>3, <1>4, CleanupJoin

\* stop_process keeps CleanupInv: it cleans up a Running container, which has not
\* been cleaned up and is not waiting to be started in the guest.
LEMMA CleanupStop ==
  ASSUME TypeInv, CleanupInv, NEW c \in Cid, NEW e \in AllEid, InnerFree(c),
         StopProcess(c, e), UNCHANGED <<procs, key, lock>>
  PROVE  CleanupInv'
  <1>1. CASE UNCHANGED <<status, cleaned, guest>>
    BY Zenon, <1>1, CleanupFrame DEF guest
  <1>2. CASE /\ Status(c, InitId) = "Running" /\ e = InitId
             /\ status' = [status EXCEPT ![procs[c][e]] = "Stopped"]
             /\ cleaned' = [cleaned EXCEPT ![procs[c][e]] = OnceMore(@)]
             /\ \/ vmUp /\ GuestGone(c)
                \/ Sigkill(c, e)
    <2>1. gctr' = gctr \/ gctr' = [gctr EXCEPT ![c] = "none"]
      BY Zenon, <1>2 DEF GuestGone, Sigkill, KillGuest
    <2>2. procs[c][InitId] \in Ref
      BY Zenon, RefOfSlot DEF InnerFree, Registered, AllEid
    <2> DEFINE r == procs[c][InitId]
    <2>3. cleaned[r] = 0 /\ gctr[c] # "created" /\ lock[c] = "free" /\ key[r] = <<c, InitId>>
      BY Zenon, <1>2 DEF CleanupInv, InnerFree, Registered, Status
    <2>4. /\ \A x \in Ref \ {r} : cleaned'[x] = cleaned[x] /\ status'[x] = status[x]
          /\ cleaned'[r] = 1 /\ status'[r] = "Stopped"
      <3>1. status \in [Ref -> ProcessStatus] /\ cleaned \in [Ref -> 0..MaxCleaned]
        BY Zenon DEF TypeInv, TypeOK
      <3>2. /\ status' = [status EXCEPT ![r] = "Stopped"]
            /\ cleaned' = [cleaned EXCEPT ![r] = OnceMore(cleaned[r])]
        BY Zenon, <1>2
      <3>3. r \in Ref /\ cleaned[r] = 0
        BY Zenon, <2>2, <2>3
      <3> HIDE DEF r
      <3> QED  BY <3>1, <3>2, <3>3 DEF OnceMore, MaxCleaned
    <2>5. gctr'[c] # "created" /\ \A d \in Cid \ {c} : gctr'[d] = gctr[d]
      BY Zenon, <2>1, <2>3 DEF TypeInv, TypeOK
    <2>6. \A d \in Cid \ {c} : procs[d][InitId] # NoRef => procs[d][InitId] \in Ref \ {r}
      BY <2>3, RefOfSlot DEF CleanupInv, AllEid
    <2> HIDE DEF r
    <2>7. AtMostOnce'
      BY <2>4, CleanupSplit DEF AtMostOnce
    <2>8. ASSUME NEW d \in Cid, Registered(d)',
                 lock'[d] # "free" \/ Status(d, InitId)' \in {"Running", "Paused"}
          PROVE  gctr'[d] # "created" /\ cleaned'[procs'[d][InitId]] = 0
      <3>1. CASE d = c
        BY Zenon, <2>3, <2>4, <2>8, <3>1 DEF Status, r
      <3>2. CASE d # c
        BY Zenon, <2>4, <2>5, <2>6, <2>8, <3>2 DEF CleanupInv, Registered, Status
      <3> QED  BY Zenon, <3>1, <3>2
    <2>9. ASSUME NEW d \in Cid, Registered(d)', cleaned'[procs'[d][InitId]] # 0
          PROVE  gctr'[d] # "created"
      <3>1. CASE d = c
        BY Zenon, <2>5, <3>1
      <3>2. CASE d # c
        BY Zenon, <2>4, <2>5, <2>6, <2>9, <3>2 DEF CleanupInv, Registered
      <3> QED  BY Zenon, <3>1, <3>2
    <2> QED
      BY Zenon, <2>7, <2>8, <2>9 DEF CleanupInv, Registered, Status
  <1>3. CASE /\ e # InitId
             /\ status' = [r \in Ref |-> IF r = procs[c][e] THEN "Stopped" ELSE status[r]]
             /\ Sigkill(c, e)
             /\ UNCHANGED cleaned
    <2>1. gctr' = gctr
      BY Zenon, <1>3 DEF Sigkill, KillGuest
    <2>2. \A d \in Cid : Registered(d) => status'[procs[d][InitId]] \in {Status(d, InitId), "Stopped"}
      BY Zenon, <1>3, RefOfSlot DEF Registered, Status, AllEid
    <2> QED  BY Zenon, <1>3, <2>1, <2>2, CleanupStatus
  <1> QED  BY Zenon, <1>1, <1>2, <1>3 DEF StopProcess

\* Every step keeps CleanupInv, if nobody creates a container under an id in use.
LEMMA CleanupStep == Fresh /\ TypeInv /\ CleanupInv /\ [Next]_vars => CleanupInv'
  <1> SUFFICES ASSUME Fresh, TypeInv, CleanupInv, [Next]_vars PROVE CleanupInv'
    BY Zenon
  <1>0. CASE UNCHANGED vars
    BY Zenon, <1>0, CleanupFrame DEF vars, state, host, guest
  <1>1. ASSUME NEW c \in Cid, CreateContainer(c) PROVE CleanupInv'
    <2>1. PICK r \in Ref : /\ NewProcess(r, c, InitId, RefsOf(procs[c]))
                           /\ procs' = [procs EXCEPT ![c] = [NoProcs EXCEPT ![InitId] = r]]
      BY Zenon, <1>1 DEF CreateContainer
    <2>2. \A d \in Cid, x \in AllEid : procs[d][x] # r
      BY Zenon, <2>1, FreeSlot DEF NewProcess
    <2>3. /\ procs'[c][InitId] = r
          /\ \A x \in AllEid : procs'[c][x] \in {r, NoRef} /\ (procs'[c][x] = r => x = InitId)
          /\ \A d \in Cid \ {c}, x \in AllEid : procs'[d][x] = procs[d][x]
      BY Zenon, <2>1, ConstantsAssumption DEF TypeInv, TypeOK, NoProcs, AllEid
    <2>4. /\ key'[r] = <<c, InitId>> /\ status'[r] = "Created" /\ cleaned'[r] = 0
          /\ \A x \in Ref \ {r} : key'[x] = key[x] /\ status'[x] = status[x] /\ cleaned'[x] = cleaned[x]
      BY Zenon, <2>1 DEF NewProcess, TypeInv, TypeOK
    <2>5. lock' = lock /\ lock[c] = "free" /\ \A d \in Cid \ {c} : gctr'[d] = gctr[d]
      BY ZenonT(60), <1>1 DEF CreateContainer, WriteLockFree, TypeInv, TypeOK
    <2>6. \A d \in Cid, x \in AllEid : procs'[d][x] # NoRef => key'[procs'[d][x]] = <<d, x>>
      <3> SUFFICES ASSUME NEW d \in Cid, NEW x \in AllEid, procs'[d][x] # NoRef
                   PROVE  key'[procs'[d][x]] = <<d, x>>
        BY Zenon
      <3>1. CASE d = c
        BY Zenon, <3>1, <2>3, <2>4
      <3>2. CASE d # c
        <4>1. procs'[d][x] = procs[d][x] /\ procs[d][x] \in Ref \ {r}
          BY SMTT(30), <3>2, <2>2, <2>3, RefOfSlot
        <4>2. key[procs[d][x]] = <<d, x>>
          BY Zenon, <4>1 DEF CleanupInv
        <4> QED  BY Zenon, <4>1, <4>2, <2>4
      <3> QED  BY Zenon, <3>1, <3>2
    <2>7. AtMostOnce'
      BY <2>4, CleanupSplit DEF AtMostOnce
    <2>8. \A d \in Cid \ {c} : Registered(d) => procs[d][InitId] \in Ref \ {r}
      BY Zenon, <2>2, RefOfSlot DEF Registered, AllEid
    <2>9. ASSUME NEW d \in Cid \ {c}
          PROVE  /\ Registered(d)' <=> Registered(d)
                 /\ Registered(d) => Status(d, InitId)' = Status(d, InitId)
                 /\ Registered(d) => cleaned'[procs'[d][InitId]] = cleaned[procs[d][InitId]]
      BY SMTT(30), <2>3, <2>4, <2>8, ExecIsNotInit DEF Registered, Status
    <2>10. Registered(c)' /\ Status(c, InitId)' = "Created" /\ cleaned'[procs'[c][InitId]] = 0
      BY Zenon, <2>3, <2>4, ConstantsAssumption DEF Registered, Status
    <2>11. CleanupOf(c)'
      BY Zenon, <2>5, <2>10 DEF CleanupOf
    <2>12. ASSUME NEW d \in Cid \ {c} PROVE CleanupOf(d)'
      BY Zenon, <2>5, <2>9, CleanupSplit, CleanupOfFrame
    <2> QED  BY Zenon, <2>6, <2>7, <2>11, <2>12, CleanupJoin
  <1>2. ASSUME NEW c \in Cid, CreateFails(c) PROVE CleanupInv'
    <2>1. gctr \in [Cid -> GuestState]
      BY Zenon DEF TypeInv, TypeOK
    <2>2. \A d \in Cid : Registered(d) => gctr'[d] \in {gctr[d], "none"}
      BY Zenon, <1>2, <2>1 DEF CreateFails, GuestGone, GuestLeftOver, guest
    <2> QED  BY Zenon, <1>2, <2>2, CleanupGuest DEF CreateFails
  <1>3. ASSUME NEW c \in Cid, StartContainer(c) PROVE CleanupInv'
    <2>1. /\ status \in [Ref -> ProcessStatus]
          /\ lock \in [Cid -> {"free", "pause", "resume"}]
          /\ gctr \in [Cid -> GuestState]
      BY Zenon DEF TypeInv, TypeOK
    <2>2. CleanupOf(c)
      BY Zenon, CleanupSplit
    <2>3. Registered(c) /\ cleaned[procs[c][InitId]] = 0 /\ gctr'[c] # "created"
      BY Zenon, <1>3, <2>1, <2>2 DEF StartContainer, InnerFree, guest, CleanupOf
    <2>4. /\ \A r \in Ref \ {procs[c][InitId]} : status'[r] = status[r]
          /\ \A d \in Cid \ {c} : lock'[d] = lock[d] /\ gctr'[d] = gctr[d]
          /\ UNCHANGED <<procs, key, cleaned>>
      BY Zenon, <1>3, <2>1 DEF StartContainer, guest
    <2> QED  BY Zenon, <2>3, <2>4, CleanupRun
  <1>4. ASSUME NEW c \in Cid, StartContainerFails(c) PROVE CleanupInv'
    BY Zenon, <1>4, CleanupStop DEF StartContainerFails, host, AllEid
  <1>5. ASSUME NEW c \in Cid, StartContainerTimesOut(c) PROVE CleanupInv'
    BY ZenonT(60), <1>5 DEF StartContainerTimesOut, host, CleanupInv, TypeInv, TypeOK, Registered, Status, AtMostOnce
  <1>6. ASSUME NEW c \in Cid, PauseBegin(c) PROVE CleanupInv'
    <2>1. /\ status \in [Ref -> ProcessStatus]
          /\ lock \in [Cid -> {"free", "pause", "resume"}]
          /\ gctr \in [Cid -> GuestState]
      BY Zenon DEF TypeInv, TypeOK
    <2>2. CleanupOf(c)
      BY Zenon, CleanupSplit
    <2>3. Registered(c) /\ cleaned[procs[c][InitId]] = 0 /\ gctr'[c] # "created"
      BY Zenon, <1>6, <2>1, <2>2 DEF PauseBegin, InnerFree, guest, CleanupOf
    <2>4. /\ \A r \in Ref \ {procs[c][InitId]} : status'[r] = status[r]
          /\ \A d \in Cid \ {c} : lock'[d] = lock[d] /\ gctr'[d] = gctr[d]
          /\ UNCHANGED <<procs, key, cleaned>>
      BY Zenon, <1>6, <2>1 DEF PauseBegin, guest
    <2> QED  BY Zenon, <2>3, <2>4, CleanupRun
  <1>7. ASSUME NEW c \in Cid, PauseEnd(c) PROVE CleanupInv'
    <2>1. /\ status \in [Ref -> ProcessStatus]
          /\ lock \in [Cid -> {"free", "pause", "resume"}]
          /\ gctr \in [Cid -> GuestState]
      BY Zenon DEF TypeInv, TypeOK
    <2>2. CleanupOf(c)
      BY Zenon, CleanupSplit
    <2>3. Registered(c) /\ cleaned[procs[c][InitId]] = 0 /\ gctr'[c] # "created"
      BY Zenon, <1>7, <2>1, <2>2 DEF PauseEnd, InnerFree, guest, CleanupOf
    <2>4. /\ \A r \in Ref \ {procs[c][InitId]} : status'[r] = status[r]
          /\ \A d \in Cid \ {c} : lock'[d] = lock[d] /\ gctr'[d] = gctr[d]
          /\ UNCHANGED <<procs, key, cleaned>>
      BY Zenon, <1>7, <2>1 DEF PauseEnd, guest
    <2> QED  BY Zenon, <2>3, <2>4, CleanupRun
  <1>8. ASSUME NEW c \in Cid, ResumeBegin(c) PROVE CleanupInv'
    <2>1. /\ status \in [Ref -> ProcessStatus]
          /\ lock \in [Cid -> {"free", "pause", "resume"}]
          /\ gctr \in [Cid -> GuestState]
      BY Zenon DEF TypeInv, TypeOK
    <2>2. CleanupOf(c)
      BY Zenon, CleanupSplit
    <2>3. Registered(c) /\ cleaned[procs[c][InitId]] = 0 /\ gctr'[c] # "created"
      BY Zenon, <1>8, <2>1, <2>2 DEF ResumeBegin, InnerFree, guest, CleanupOf
    <2>4. /\ \A r \in Ref \ {procs[c][InitId]} : status'[r] = status[r]
          /\ \A d \in Cid \ {c} : lock'[d] = lock[d] /\ gctr'[d] = gctr[d]
          /\ UNCHANGED <<procs, key, cleaned>>
      BY Zenon, <1>8, <2>1 DEF ResumeBegin, guest
    <2> QED  BY Zenon, <2>3, <2>4, CleanupRun
  <1>9. ASSUME NEW c \in Cid, ResumeEnd(c) PROVE CleanupInv'
    <2>1. /\ status \in [Ref -> ProcessStatus]
          /\ lock \in [Cid -> {"free", "pause", "resume"}]
          /\ gctr \in [Cid -> GuestState]
      BY Zenon DEF TypeInv, TypeOK
    <2>2. CleanupOf(c)
      BY Zenon, CleanupSplit
    <2>3. Registered(c) /\ cleaned[procs[c][InitId]] = 0 /\ gctr'[c] # "created"
      BY Zenon, <1>9, <2>1, <2>2 DEF ResumeEnd, InnerFree, guest, CleanupOf
    <2>4. /\ \A r \in Ref \ {procs[c][InitId]} : status'[r] = status[r]
          /\ \A d \in Cid \ {c} : lock'[d] = lock[d] /\ gctr'[d] = gctr[d]
          /\ UNCHANGED <<procs, key, cleaned>>
      BY Zenon, <1>9, <2>1 DEF ResumeEnd, guest
    <2> QED  BY Zenon, <2>3, <2>4, CleanupRun
  <1>10. ASSUME NEW c \in Cid, UpdateContainer(c) PROVE CleanupInv'
    BY Zenon, <1>10, CleanupFrame DEF UpdateContainer, guest
  <1>11. ASSUME NEW c \in Cid, DeleteContainer(c) PROVE CleanupInv'
    BY ZenonT(60), <1>11 DEF DeleteContainer, WriteLockFree, NoProcs, AllEid, guest, CleanupInv, AtMostOnce,
       Registered, Status, TypeInv, TypeOK
  <1>12. ASSUME NEW c \in Cid, NEW e \in Eid, ExecProcess(c, e) PROVE CleanupInv'
    <2>1. PICK r \in Ref : /\ NewProcess(r, c, e, {procs[c][e]})
                           /\ procs' = [procs EXCEPT ![c][e] = r]
      BY Zenon, <1>12 DEF ExecProcess
    <2>2. \A d \in Cid, x \in AllEid : procs[d][x] # r
      BY Zenon, <2>1, FreeSlot DEF NewProcess
    <2>3. /\ procs'[c][e] = r
          /\ \A d \in Cid, x \in AllEid : <<d, x>> # <<c, e>> => procs'[d][x] = procs[d][x]
          /\ \A d \in Cid : procs'[d][InitId] = procs[d][InitId]
      BY Zenon, <2>1, ExecIsNotInit DEF TypeInv, TypeOK
    <2>4. /\ key'[r] = <<c, e>> /\ cleaned'[r] = 0
          /\ \A x \in Ref \ {r} : key'[x] = key[x] /\ status'[x] = status[x] /\ cleaned'[x] = cleaned[x]
      BY Zenon, <2>1 DEF NewProcess, TypeInv, TypeOK
    <2>5. lock' = lock /\ gctr' = gctr
      BY Zenon, <1>12 DEF ExecProcess, guest
    <2>6. \A d \in Cid, x \in AllEid : procs'[d][x] # NoRef => key'[procs'[d][x]] = <<d, x>>
      <3> SUFFICES ASSUME NEW d \in Cid, NEW x \in AllEid, procs'[d][x] # NoRef
                   PROVE  key'[procs'[d][x]] = <<d, x>>
        BY Zenon
      <3>1. CASE <<d, x>> = <<c, e>>
        BY Zenon, <3>1, <2>3, <2>4
      <3>2. CASE <<d, x>> # <<c, e>>
        <4>1. procs'[d][x] = procs[d][x] /\ procs[d][x] \in Ref \ {r}
          BY Zenon, <3>2, <2>2, <2>3, RefOfSlot
        <4>2. key[procs[d][x]] = <<d, x>>
          BY Zenon, <4>1 DEF CleanupInv
        <4> QED  BY Zenon, <4>1, <4>2, <2>4
      <3> QED  BY Zenon, <3>1, <3>2
    <2>7. AtMostOnce'
      BY <2>4, CleanupSplit DEF AtMostOnce
    <2>8. \A d \in Cid : Registered(d) => procs[d][InitId] \in Ref \ {r}
      BY Zenon, <2>2, RefOfSlot DEF Registered, AllEid
    <2>9. ASSUME NEW d \in Cid
          PROVE  /\ Registered(d)' <=> Registered(d)
                 /\ Registered(d) => Status(d, InitId)' = Status(d, InitId)
                 /\ Registered(d) => cleaned'[procs'[d][InitId]] = cleaned[procs[d][InitId]]
      BY Zenon, <2>3, <2>4, <2>8 DEF Registered, Status
    <2>10. ASSUME NEW d \in Cid PROVE CleanupOf(d)'
      BY ZenonT(60), <2>5, <2>9, CleanupSplit, CleanupOfFrame
    <2> QED  BY Zenon, <2>6, <2>7, <2>10, CleanupJoin
  <1>13. ASSUME NEW c \in Cid, NEW e \in Eid, DeleteExec(c, e) PROVE CleanupInv'
    <2>1. /\ \A d \in Cid : procs'[d][InitId] = procs[d][InitId]
          /\ \A d \in Cid, x \in AllEid : procs'[d][x] \in {procs[d][x], NoRef}
      BY Zenon, <1>13, ExecIsNotInit DEF DeleteExec, TypeInv, TypeOK
    <2>2. UNCHANGED <<key, lock, status, cleaned, gctr>>
      BY Zenon, <1>13 DEF DeleteExec, guest
    <2> QED  BY ZenonT(60), <2>1, <2>2 DEF CleanupInv, AtMostOnce, Registered, Status
  <1>14. ASSUME NEW c \in Cid, NEW e \in Eid, StartExec(c, e) PROVE CleanupInv'
    <2>1. /\ UNCHANGED <<procs, key, cleaned, lock, gctr>>
          /\ status' = [status EXCEPT ![procs[c][e]] = "Running"]
          /\ procs[c][e] # NoRef
      BY Zenon, <1>14 DEF StartExec
    <2>2. \A d \in Cid : Registered(d) => procs[d][InitId] # procs[c][e]
      BY SMTT(30), <2>1, ExecIsNotInit DEF CleanupInv, Registered
    <2>3. \A d \in Cid : Registered(d) => status'[procs[d][InitId]] \in {Status(d, InitId), "Stopped"}
      BY Zenon, <2>1, <2>2, RefOfSlot, ExecIsNotInit DEF Registered, Status, TypeInv, TypeOK
    <2> QED  BY Zenon, <2>1, <2>3, CleanupStatus
  <1>15. ASSUME NEW c \in Cid, NEW e \in Eid, StartExecFails(c, e) PROVE CleanupInv'
    BY Zenon, <1>15, CleanupStop DEF StartExecFails, host, AllEid
  <1>16. ASSUME NEW c \in Cid, NEW e \in Eid, StartExecTimesOut(c, e) PROVE CleanupInv'
    <2>1. /\ UNCHANGED <<procs, key, cleaned, lock, gctr>>
          /\ status' = [status EXCEPT ![procs[c][e]] = "Stopped"] \/ status' = status
      BY Zenon, <1>16 DEF StartExecTimesOut, host
    <2>2. status \in [Ref -> ProcessStatus]
      BY Zenon DEF TypeInv, TypeOK
    <2>3. \A d \in Cid : Registered(d) => status'[procs[d][InitId]] \in {Status(d, InitId), "Stopped"}
      BY Zenon, <2>1, <2>2, RefOfSlot, ExecIsNotInit DEF Registered, Status
    <2> QED  BY Zenon, <2>1, <2>3, CleanupStatus
  <1>17. ASSUME NEW c \in Cid, NEW e \in AllEid, NEW term \in BOOLEAN, KillProcess(c, e, term) PROVE CleanupInv'
    BY Zenon, <1>17, CleanupFrame DEF KillProcess, KillGuest, host
  <1>18. ASSUME NEW c \in Cid, NEW e \in AllEid, ProcessExit(c, e) PROVE CleanupInv'
    BY Zenon, <1>18, CleanupFrame DEF ProcessExit, KillGuest, host
  <1>19. ASSUME NEW w \in Waiter, NEW c \in Cid, NEW e \in AllEid, WaitBegin(w, c, e) PROVE CleanupInv'
    BY Zenon, <1>19, CleanupFrame DEF WaitBegin, guest
  <1>20. ASSUME NEW w \in Waiter, WaitReturn(w) PROVE CleanupInv'
    BY Zenon, <1>20, CleanupFrame DEF WaitReturn, guest
  <1>21. ASSUME NEW t \in Thread, IoEnd(t) PROVE CleanupInv'
    BY Zenon, <1>21, CleanupFrame DEF IoEnd, host, guest
  <1>22. ASSUME NEW t \in Thread, WaitSent(t) PROVE CleanupInv'
    BY Zenon, <1>22, CleanupFrame DEF WaitSent, host, guest
  <1>23. ASSUME NEW t \in Thread, WaitOk(t) PROVE CleanupInv'
    BY Zenon, <1>23, CleanupFrame DEF WaitOk, host
  <1>24. ASSUME NEW t \in Thread, WaitFails(t) PROVE CleanupInv'
    BY Zenon, <1>24, CleanupFrame DEF WaitFails, guest
  <1>25. ASSUME NEW t \in Thread, StopStep(t) PROVE CleanupInv'
    BY Zenon, <1>25, ThreadKey, CleanupStop DEF StopStep
  <1>26. ASSUME NEW t \in Thread, StopMissing(t) PROVE CleanupInv'
    BY Zenon, <1>26, CleanupFrame DEF StopMissing, guest
  <1>27. ASSUME NEW t \in Thread, Record(t) PROVE CleanupInv'
    BY Zenon, <1>27, CleanupFrame DEF Record, host, guest
  <1>28. ASSUME NEW t \in Thread, Publish(t) PROVE CleanupInv'
    BY Zenon, <1>28, CleanupStatus, RefOfSlot DEF Publish, host, guest, Registered, Status, TypeInv, TypeOK, AllEid
  <1>29. ASSUME NEW t \in Thread, Notify(t) PROVE CleanupInv'
    BY Zenon, <1>29, CleanupFrame DEF Notify, guest
  <1>30. CASE VmDies
    BY Zenon, <1>30, CleanupFrame DEF VmDies, host
  <1> QED
    BY Zenon, <1>0, <1>1, <1>2, <1>3, <1>4, <1>5, <1>6, <1>7, <1>8, <1>9, <1>10, <1>11, <1>12, <1>13, <1>14, <1>15, <1>16, <1>17, <1>18, <1>19, <1>20, <1>21, <1>22, <1>23, <1>24, <1>25, <1>26, <1>27, <1>28, <1>29, <1>30
    DEF Next, Step, ContainerStep, ExecStep, ProcessStep, ThreadStep

\* CleanupInv holds initially.
LEMMA CleanupInit == Init => CleanupInv
  <1> SUFFICES ASSUME Init PROVE CleanupInv
    BY Zenon
  <1>1. \A c \in Cid, e \in AllEid : procs[c][e] = NoRef
    BY Zenon DEF Init, NoProcs
  <1>2. \A c \in Cid : lock[c] = "free"
    BY Zenon DEF Init
  <1>3. AtMostOnce
    BY DEF Init, AtMostOnce
  <1> QED  BY Zenon, <1>1, <1>2, <1>3, ExecIsNotInit DEF CleanupInv, Registered

\* The setting does not change, and with it who the client is.
LEMMA SameClient ==
  ASSUME [Next]_vars
  PROVE  (Fresh' <=> Fresh) /\ (Disciplined' <=> Disciplined) /\ (Plain' <=> Plain)
  BY Zenon DEF Next, vars, Fresh, Disciplined, Plain, MayPause

\* stop_process never cleans up a container twice ("may cause multi cleanup resource"),
\* whoever calls it and whatever pauses, resumes, repeated starts, deletes, failures
\* of agent calls, containers the agent keeps of failed creates, and deaths of the VM come
\* in between, as long as no container is created under an id in use.
THEOREM CleanedUpOnce == Spec => []CleanupOnce
  <1> DEFINE FInv == Fresh => CleanupInv
  <1>1. Init => TypeInv /\ FInv
    BY Zenon, TypeInit, CleanupInit
  <1>2. TypeInv /\ FInv /\ [Next]_vars => (TypeInv /\ FInv)'
    BY Zenon, TypeStep, CleanupStep, SameClient
  <1>3. FInv => CleanupOnce
    BY Zenon DEF CleanupInv, CleanupOnce
  <1> HIDE DEF FInv
  <1> QED  BY <1>1, <1>2, <1>3, PTL DEF Spec
-----------------------------------------------------------------------------
(* In legacy io mode a Wait request returns the recorded exit code.        *)

\* A step that touches none of the variables of WaitInv keeps it.
LEMMA WaitFrame ==
  ASSUME WaitInv, UNCHANGED <<pc, tref, tcode, code, notifier>>
  PROVE  WaitInv'
  BY Zenon DEF WaitInv

\* So does one that only drops objects.
LEMMA WaitDiscard ==
  ASSUME WaitInv, NEW S, UNCHANGED <<pc, tref, tcode, code>>, notifier' = Discard(S)
  PROVE  WaitInv'
  BY Zenon DEF WaitInv, Discard

\* A new Process has neither a thread nor a closed watcher.
LEMMA WaitNew ==
  ASSUME TypeInv, WaitInv, NEW r \in Ref, NEW c \in Cid, NEW e \in AllEid, NEW S,
         NewProcess(r, c, e, S), UNCHANGED threads
  PROVE  WaitInv'
  <1>1. \A t \in Thread : tref[t] # r
    BY Zenon, FreeSlot DEF NewProcess
  <1>2. /\ code'[r] = "unset" /\ \A x \in Ref \ {r} : code'[x] = code[x]
        /\ notifier'[r] = "process"
        /\ \A x \in Ref \ {r} : notifier'[x] = "closed" => notifier[x] = "closed"
    BY Zenon DEF NewProcess, Discard, TypeInv, TypeOK
  <1> QED
    BY Zenon, <1>1, <1>2 DEF WaitInv, threads, TypeInv, ThreadsHaveRefs

\* The tail of start spawns a thread that is at its beginning.
LEMMA WaitStartIo ==
  ASSUME TypeInv, WaitInv, NEW r \in Ref, NEW b, StartIo(r, b), UNCHANGED code
  PROVE  WaitInv'
  <1>1. CASE UNCHANGED <<threads, notifier>>
    BY Zenon, <1>1, WaitFrame DEF threads
  <1>2. CASE SpawnWait(r)
    BY SMTT(30), <1>2 DEF SpawnWait, WaitInv, TypeInv, TypeOK, PCs
  <1> QED  BY Zenon, <1>1, <1>2 DEF StartIo

\* Every step of legacy io mode keeps WaitInv.
LEMMA WaitStep ==
  ASSUME TypeInv, WaitInv, ~PassFd, [Next]_vars
  PROVE  WaitInv'
  <1>0. CASE UNCHANGED vars
    BY Zenon, <1>0, WaitFrame DEF vars, state, host, threads
  <1>1. ASSUME NEW c \in Cid, CreateContainer(c) PROVE WaitInv'
    BY Zenon, <1>1, WaitNew, ExecIsNotInit DEF CreateContainer
  <1>2. ASSUME NEW c \in Cid, CreateFails(c) PROVE WaitInv'
    BY Zenon, <1>2, WaitFrame DEF CreateFails, threads
  <1>3. ASSUME NEW c \in Cid, StartContainer(c) PROVE WaitInv'
    BY Zenon, <1>3, WaitStartIo, RefOfSlot, ExecIsNotInit DEF StartContainer, InnerFree, Registered
  <1>4. ASSUME NEW c \in Cid, StartContainerFails(c) PROVE WaitInv'
    BY Zenon, <1>4, WaitFrame DEF StartContainerFails, host, threads
  <1>5. ASSUME NEW c \in Cid, StartContainerTimesOut(c) PROVE WaitInv'
    BY Zenon, <1>5, WaitFrame DEF StartContainerTimesOut, host, threads
  <1>6. ASSUME NEW c \in Cid, PauseBegin(c) PROVE WaitInv'
    BY Zenon, <1>6, WaitFrame DEF PauseBegin, threads
  <1>7. ASSUME NEW c \in Cid, PauseEnd(c) PROVE WaitInv'
    BY Zenon, <1>7, WaitFrame DEF PauseEnd, threads
  <1>8. ASSUME NEW c \in Cid, ResumeBegin(c) PROVE WaitInv'
    BY Zenon, <1>8, WaitFrame DEF ResumeBegin, threads
  <1>9. ASSUME NEW c \in Cid, ResumeEnd(c) PROVE WaitInv'
    BY Zenon, <1>9, WaitFrame DEF ResumeEnd, threads
  <1>10. ASSUME NEW c \in Cid, UpdateContainer(c) PROVE WaitInv'
    BY Zenon, <1>10, WaitFrame DEF UpdateContainer, threads
  <1>11. ASSUME NEW c \in Cid, DeleteContainer(c) PROVE WaitInv'
    BY Zenon, <1>11, WaitDiscard DEF DeleteContainer, threads
  <1>12. ASSUME NEW c \in Cid, NEW e \in Eid, ExecProcess(c, e) PROVE WaitInv'
    BY Zenon, <1>12, WaitNew, ExecIsNotInit DEF ExecProcess
  <1>13. ASSUME NEW c \in Cid, NEW e \in Eid, DeleteExec(c, e) PROVE WaitInv'
    BY Zenon, <1>13, WaitDiscard DEF DeleteExec, threads
  <1>14. ASSUME NEW c \in Cid, NEW e \in Eid, StartExec(c, e) PROVE WaitInv'
    BY ZenonT(60), <1>14, WaitStartIo, RefOfSlot, ExecIsNotInit DEF StartExec
  <1>15. ASSUME NEW c \in Cid, NEW e \in Eid, StartExecFails(c, e) PROVE WaitInv'
    BY Zenon, <1>15, WaitFrame DEF StartExecFails, host, threads
  <1>16. ASSUME NEW c \in Cid, NEW e \in Eid, StartExecTimesOut(c, e) PROVE WaitInv'
    BY Zenon, <1>16, WaitFrame DEF StartExecTimesOut, host, threads
  <1>17. ASSUME NEW c \in Cid, NEW e \in AllEid, NEW term \in BOOLEAN, KillProcess(c, e, term) PROVE WaitInv'
    BY Zenon, <1>17, WaitFrame DEF KillProcess, host, threads
  <1>18. ASSUME NEW c \in Cid, NEW e \in AllEid, ProcessExit(c, e) PROVE WaitInv'
    BY Zenon, <1>18, WaitFrame DEF ProcessExit, host, threads
  <1>19. ASSUME NEW w \in Waiter, NEW c \in Cid, NEW e \in AllEid, WaitBegin(w, c, e) PROVE WaitInv'
    BY Zenon, <1>19, WaitFrame DEF WaitBegin, threads
  <1>20. ASSUME NEW w \in Waiter, WaitReturn(w) PROVE WaitInv'
    BY Zenon, <1>20, WaitFrame DEF WaitReturn, threads
  <1>21. ASSUME NEW t \in Thread, IoEnd(t) PROVE WaitInv'
    BY Zenon, <1>21 DEF IoEnd, host, WaitInv, TypeInv, TypeOK
  <1>22. ASSUME NEW t \in Thread, WaitSent(t) PROVE WaitInv'
    <2>1. tcode' = [tcode EXCEPT ![t] = gproc[TCid(t)][TEid(t)]] /\ gproc[TCid(t)][TEid(t)] \in Ref
      BY SMTT(30), <1>22, ThreadKey DEF WaitSent, TypeInv, TypeOK, RefOrNone
    <2>2. tcode'[t] # "unset"
      BY Zenon, <2>1, ConstantsAssumption DEF TypeInv, TypeOK
    <2> QED  BY Zenon, <1>22, <2>1, <2>2 DEF WaitSent, host, WaitInv, TypeInv, TypeOK
  <1>23. ASSUME NEW t \in Thread, WaitOk(t) PROVE WaitInv'
    BY Zenon, <1>23 DEF WaitOk, host, WaitInv, TypeInv, TypeOK
  <1>24. ASSUME NEW t \in Thread, WaitFails(t) PROVE WaitInv'
    BY ZenonT(60), <1>24 DEF WaitFails, WaitInv, TypeInv, TypeOK
  <1>25. ASSUME NEW t \in Thread, StopStep(t) PROVE WaitInv'
    BY Zenon, <1>25 DEF StopStep, WaitInv, TypeInv, TypeOK
  <1>26. ASSUME NEW t \in Thread, StopMissing(t) PROVE WaitInv'
    BY Zenon, <1>26 DEF StopMissing, WaitInv, TypeInv, TypeOK
  <1>27. ASSUME NEW t \in Thread, Record(t) PROVE WaitInv'
    BY Zenon, <1>27, ThreadKey DEF Record, host, ThreadsHaveRefs, WaitInv, TypeInv, TypeOK
  <1>28. ASSUME NEW t \in Thread, Publish(t) PROVE WaitInv'
    BY Zenon, <1>28 DEF Publish, host, WaitInv, TypeInv, TypeOK
  <1>29. ASSUME NEW t \in Thread, Notify(t) PROVE WaitInv'
    BY Zenon, <1>29, ThreadKey DEF Notify, EndThread, ThreadsHaveRefs, WaitInv, TypeInv, TypeOK
  <1>30. CASE VmDies
    BY Zenon, <1>30, WaitFrame DEF VmDies, host, threads
  <1> QED
    BY Zenon, <1>0, <1>1, <1>2, <1>3, <1>4, <1>5, <1>6, <1>7, <1>8, <1>9, <1>10, <1>11, <1>12, <1>13, <1>14, <1>15, <1>16, <1>17, <1>18, <1>19, <1>20, <1>21, <1>22, <1>23, <1>24, <1>25, <1>26, <1>27, <1>28, <1>29, <1>30
    DEF Next, Step, ContainerStep, ExecStep, ProcessStep, ThreadStep

\* WaitInv holds initially.
LEMMA WaitInit == Init => WaitInv
  BY Zenon DEF Init, WaitInv

\* In legacy io mode every Wait request on a started process is answered after the
\* exit code has been recorded, whatever the client, the guest and the VM do.
THEOREM WaitsSeeExit == Spec => WaitSeesExit
  <1> DEFINE WInv == PassFd \/ WaitInv
  <1>1. Init => TypeInv /\ WInv
    BY Zenon, TypeInit, WaitInit
  <1>2. TypeInv /\ WInv /\ [Next]_vars => (TypeInv /\ WInv)'
    <2>1. [Next]_vars => (PassFd' <=> PassFd)
      BY Zenon DEF Next, vars, PassFd
    <2> QED  BY Zenon, <2>1, TypeStep, WaitStep
  <1>3. TypeInv /\ WInv /\ [Next]_vars
          => [\A w \in Waiter :
                ~PassFd /\ waiting[w] # NoRef /\ waiting'[w] = NoRef /\ notifier[waiting[w]] = "closed"
                  => code[waiting[w]] # "unset"]_vars
    BY Zenon DEF TypeInv, TypeOK, WaitInv, RefOrNone
  <1> HIDE DEF WInv
  <1> QED  BY <1>1, <1>2, <1>3, PTL DEF Spec, WaitSeesExit
-----------------------------------------------------------------------------
(* A disciplined client's container has one wait thread, which finds it.   *)

\* What stop_process does to processes, and to the agent's init processes.
LEMMA StopEffect ==
  ASSUME TypeInv, CleanupInv, NEW c \in Cid, NEW e \in AllEid, InnerFree(c), StopProcess(c, e)
  PROVE  /\ \A d \in Cid, x \in AllEid : gproc'[d][x] \in {gproc[d][x], NoRef}
         /\ \A r \in Ref : r # procs[c][e] => status'[r] = status[r] /\ cleaned'[r] = cleaned[r]
         /\ Status(c, InitId) # "Running" => UNCHANGED <<status, cleaned>>
         /\ Status(c, InitId) = "Running" /\ e = InitId =>
              status'[procs[c][e]] = "Stopped" /\ cleaned'[procs[c][e]] = 1
         /\ e # InitId =>
              /\ cleaned' = cleaned
              /\ \A r \in Ref : status'[r] \in {status[r], "Stopped"}
  <1>0. /\ gproc \in [Cid -> [AllEid -> RefOrNone]]
        /\ status \in [Ref -> ProcessStatus]
        /\ cleaned \in [Ref -> 0..MaxCleaned]
    BY Zenon DEF TypeInv, TypeOK
  <1>1. CASE Status(c, InitId) # "Running" /\ UNCHANGED <<status, cleaned, guest>>
    BY Zenon, <1>1 DEF guest
  <1>2. CASE /\ Status(c, InitId) = "Running" /\ e = InitId
             /\ status' = [status EXCEPT ![procs[c][e]] = "Stopped"]
             /\ cleaned' = [cleaned EXCEPT ![procs[c][e]] = OnceMore(@)]
             /\ \/ vmUp /\ GuestGone(c)
                \/ Sigkill(c, e)
    <2>1. \A d \in Cid, x \in AllEid : gproc'[d][x] \in {gproc[d][x], NoRef}
      BY ZenonT(60), <1>0, <1>2 DEF GuestGone, Sigkill, KillGuest, NoProcs
    <2>2. procs[c][e] \in Ref
      BY Zenon, <1>2, RefOfSlot DEF InnerFree, Registered
    <2>3. cleaned[procs[c][e]] = 0
      BY Zenon, <1>2 DEF CleanupInv, InnerFree
    <2>4. OnceMore(cleaned[procs[c][e]]) = 1
      BY <2>3 DEF OnceMore, MaxCleaned
    <2> QED  BY SMTT(30), <1>0, <1>2, <2>1, <2>2, <2>4
  <1>3. CASE /\ Status(c, InitId) = "Running" /\ e # InitId
             /\ status' = [r \in Ref |-> IF r = procs[c][e] THEN "Stopped" ELSE status[r]]
             /\ Sigkill(c, e)
             /\ UNCHANGED cleaned
    BY Zenon, <1>0, <1>3 DEF Sigkill, KillGuest
  <1> QED  BY Zenon, <1>1, <1>2, <1>3 DEF StopProcess

\* The object of an exec is not that of an init process.
LEMMA ExecRef ==
  ASSUME TypeInv, CleanupInv, NEW c \in Cid, NEW e \in Eid, procs[c][e] # NoRef
  PROVE  procs[c][e] \in Ref /\ key[procs[c][e]][2] # InitId
  <1>1. key[procs[c][e]] = <<c, e>>
    BY Zenon, ExecIsNotInit DEF CleanupInv
  <1> QED  BY SMTT(30), <1>1, ExecIsNotInit, RefOfSlot

\* The object of a registered container is that of its init process.
LEMMA InitRef ==
  ASSUME TypeInv, CleanupInv, NEW c \in Cid, Registered(c)
  PROVE  procs[c][InitId] \in Ref /\ key[procs[c][InitId]] = <<c, InitId>>
  BY Zenon, ExecIsNotInit, RefOfSlot DEF CleanupInv, Registered

\* A step keeps OwnInv if it moves no thread, registers nothing, and makes no init
\* process Created or Stopped.
LEMMA OwnFrame ==
  ASSUME TypeInv, OwnInv, UNCHANGED <<setting, procs, key, code, pc, tref, tcode>>,
         \A d \in Cid : Registered(d) => gproc'[d][InitId] \in {gproc[d][InitId], NoRef},
         Disciplined =>
           \A r \in Ref : key[r][2] = InitId =>
             status'[r] = status[r] \/ status'[r] \in {"Running", "Paused"}
  PROVE  OwnInv'
  <1>1. (\A c \in Cid : Registered(c) => gproc[c][InitId] \in {NoRef, procs[c][InitId]})'
    BY Zenon DEF OwnInv, Registered
  <1>2. ASSUME Disciplined, NEW t \in Thread, InitThread(t)' PROVE OwnThread(t)'
    <2>1. InitThread(t) /\ OwnThread(t)
      BY Zenon, <1>2 DEF OwnInv, InitThread, TEid
    <2>2. tref[t] \in Ref /\ key[tref[t]][2] = InitId
      BY Zenon, <2>1, ThreadKey DEF InitThread, TEid
    <2> QED  BY Zenon, <1>2, <2>1, <2>2 DEF OwnThread, TCid
  <1>3. ASSUME Disciplined
        PROVE  /\ (\A t, u \in Thread : InitThread(t) /\ InitThread(u) /\ tref[t] = tref[u] => t = u)'
               /\ ExitCodeIsOwn'
    BY Zenon, <1>3 DEF OwnInv, InitThread, TEid, ExitCodeIsOwn, Disciplined
  <1> QED  BY Zenon, <1>1, <1>2, <1>3 DEF OwnInv, Disciplined

\* The part of OwnThread that depends on where the thread is: for one at p, with code k, of
\* a process r with status s.
Owns(r, s, p, k) ==
  /\ s # "Created"
  /\ p \in {"io", "wait", "blocked", "stop"} => s # "Stopped"
  /\ p \in {"blocked", "stop", "record"} => k \in {"unknown", r}

\* A step of thread t that leaves it, if it has not ended, the owner of its container.
OwnMoves(t) ==
  /\ pc[t] # "idle"
  /\ UNCHANGED <<setting, procs, key>>
  /\ \A d \in Cid : gproc'[d][InitId] \in {gproc[d][InitId], NoRef}
  /\ tref'[t] = tref[t] \/ pc'[t] = "idle"
  /\ \A u \in Thread \ {t} : pc'[u] = pc[u] /\ tref'[u] = tref[u] /\ tcode'[u] = tcode[u]
  /\ Disciplined =>
       \A r \in Ref : key[r][2] = InitId /\ r # tref[t] => status'[r] = status[r]
  /\ \A r \in Ref : code'[r] = code[r] \/ (r = tref[t] /\ code'[r] = tcode[t] /\ pc[t] = "record")
  /\ Disciplined /\ InitThread(t) /\ pc'[t] # "idle" =>
       Owns(tref[t], status'[tref[t]], pc'[t], tcode'[t])

\* So does such a step.
LEMMA OwnMove ==
  ASSUME TypeInv, OwnInv, NEW t \in Thread, OwnMoves(t)
  PROVE  OwnInv'
  <1> USE DEF OwnMoves
  <1>1. (\A c \in Cid : Registered(c) => gproc[c][InitId] \in {NoRef, procs[c][InitId]})'
    BY Zenon DEF OwnInv, Registered
  <1>2. \A u \in Thread : InitThread(u)' => InitThread(u) /\ tref'[u] = tref[u]
    BY Zenon DEF InitThread, TEid
  <1>3. ASSUME Disciplined, NEW u \in Thread \ {t}, InitThread(u)' PROVE OwnThread(u)'
    <2>1. InitThread(u) /\ OwnThread(u)
      BY Zenon, <1>2, <1>3 DEF OwnInv
    <2>2. tref[u] \in Ref /\ key[tref[u]][2] = InitId
      BY Zenon, <2>1, ThreadKey DEF InitThread, TEid
    <2>3. tref[u] # tref[t]
      BY Zenon, <1>3, <2>1 DEF OwnInv, InitThread, TEid
    <2> QED  BY Zenon, <1>3, <2>1, <2>2, <2>3 DEF OwnThread, TCid
  <1>t. ASSUME Disciplined, InitThread(t)' PROVE OwnThread(t)'
    BY Zenon, <1>2, <1>t DEF OwnInv, OwnThread, Owns, InitThread, TCid
  <1>4. ASSUME Disciplined
        PROVE  (\A u, v \in Thread : InitThread(u) /\ InitThread(v) /\ tref[u] = tref[v] => u = v)'
    BY ZenonT(60), <1>2, <1>4 DEF OwnInv
  <1>5. ASSUME Disciplined PROVE ExitCodeIsOwn'
    <2> SUFFICES ASSUME NEW r \in Ref, key[r][2] = InitId
                 PROVE  code'[r] \in {"unset", "unknown", r}
      BY Zenon DEF ExitCodeIsOwn
    <2>1. CASE code'[r] = code[r]
      BY Zenon, <1>5, <2>1 DEF OwnInv, ExitCodeIsOwn
    <2>2. CASE r = tref[t] /\ code'[r] = tcode[t] /\ pc[t] = "record"
      BY Zenon, <1>5, <2>2 DEF OwnInv, InitThread, OwnThread, TEid
    <2> QED  BY Zenon, <2>1, <2>2
  <1> QED  BY Zenon, <1>1, <1>3, <1>t, <1>4, <1>5 DEF OwnInv, Disciplined

\* Process::new keeps OwnInv, for a container that a disciplined client has not
\* registered yet, and for an exec.
LEMMA OwnNew ==
  ASSUME TypeInv, OwnInv, UNCHANGED <<setting, pc, tref, tcode>>,
         NEW r \in Ref, NEW c \in Cid, NEW e \in AllEid, NEW S, NewProcess(r, c, e, S),
         \A d \in Cid :
           \/ procs'[d][InitId] = procs[d][InitId] /\ gproc'[d][InitId] = gproc[d][InitId]
           \/ /\ procs'[d][InitId] = r /\ gproc'[d][InitId] = r
              /\ Disciplined => ~Registered(d)
  PROVE  OwnInv'
  <1>1. (\A d \in Cid : Registered(d) => gproc[d][InitId] \in {NoRef, procs[d][InitId]})'
    BY Zenon DEF OwnInv, Registered
  <1>2. \A t \in Thread : tref[t] # r
    BY Zenon, FreeSlot DEF NewProcess
  <1>3. /\ \A x \in Ref \ {r} : key'[x] = key[x] /\ status'[x] = status[x] /\ code'[x] = code[x]
        /\ code'[r] = "unset"
    BY Zenon DEF NewProcess, TypeInv, TypeOK
  <1>4. \A t \in Thread : pc[t] # "idle" => TCid(t)' = TCid(t) /\ TEid(t)' = TEid(t)
    BY Zenon, <1>2, <1>3, ThreadKey DEF TCid, TEid
  <1>5. \A t \in Thread : InitThread(t)' => InitThread(t)
    BY Zenon, <1>4 DEF InitThread
  <1>6. ASSUME Disciplined, NEW t \in Thread, InitThread(t)' PROVE OwnThread(t)'
    <2>1. InitThread(t) /\ OwnThread(t)
      BY Zenon, <1>5, <1>6 DEF OwnInv
    <2>2. tref[t] \in Ref \ {r} /\ TCid(t) \in Cid /\ TCid(t)' = TCid(t)
      BY Zenon, <1>2, <1>4, <2>1, ThreadKey DEF InitThread
    <2>3. Registered(TCid(t)) /\ procs'[TCid(t)][InitId] = procs[TCid(t)][InitId]
      BY Zenon, <1>6, <2>1, <2>2, ConstantsAssumption DEF OwnThread, Registered
    <2> QED  BY Zenon, <1>3, <2>1, <2>2, <2>3 DEF OwnThread
  <1>7. ASSUME Disciplined
        PROVE  (\A t, u \in Thread : InitThread(t) /\ InitThread(u) /\ tref[t] = tref[u] => t = u)'
    BY Zenon, <1>5, <1>7 DEF OwnInv
  <1>8. ASSUME Disciplined PROVE ExitCodeIsOwn'
    BY Zenon, <1>3, <1>8 DEF OwnInv, ExitCodeIsOwn
  <1> QED  BY Zenon, <1>1, <1>6, <1>7, <1>8 DEF OwnInv, Disciplined

\* The tail of start of process r, which has been Created if it is an init process.
OwnStarts(r) ==
  /\ UNCHANGED <<setting, procs, key, code>>
  /\ \A d \in Cid : gproc'[d][InitId] = gproc[d][InitId]
  /\ SpawnWait(r) \/ UNCHANGED <<threads, notifier>>
  /\ status' = [status EXCEPT ![r] = "Running"]
  /\ Disciplined /\ key[r][2] = InitId => status[r] = "Created" /\ procs[key[r][1]][InitId] = r

\* It keeps OwnInv: such a process has no thread yet.
LEMMA OwnStart ==
  ASSUME TypeInv, OwnInv, NEW r \in Ref, OwnStarts(r)
  PROVE  OwnInv'
  <1> USE DEF OwnStarts
  <1>1. (\A c \in Cid : Registered(c) => gproc[c][InitId] \in {NoRef, procs[c][InitId]})'
    BY Zenon DEF OwnInv, Registered
  <1>2. status'[r] = "Running" /\ \A x \in Ref \ {r} : status'[x] = status[x]
    BY Zenon DEF TypeInv, TypeOK
  <1>3. CASE UNCHANGED <<threads, notifier>>
    BY Zenon, <1>2, <1>3, OwnFrame DEF threads
  <1>4. CASE SpawnWait(r)
    <2>1. PICK t \in Thread :
            /\ pc[t] = "idle" /\ pc' = [pc EXCEPT ![t] = IF PassFd THEN "wait" ELSE "io"]
            /\ tref' = [tref EXCEPT ![t] = r] /\ tcode' = tcode
      BY Zenon, <1>4 DEF SpawnWait
    <2>2. /\ pc'[t] \in {"io", "wait"} /\ tref'[t] = r
          /\ \A u \in Thread \ {t} : pc'[u] = pc[u] /\ tref'[u] = tref[u]
      BY Zenon, <2>1 DEF TypeInv, TypeOK
    <2>3. \A u \in Thread \ {t} : InitThread(u)' => InitThread(u)
      BY Zenon, <2>2 DEF InitThread, TEid
    <2>4. ASSUME Disciplined, NEW u \in Thread \ {t}, InitThread(u)'
          PROVE  OwnThread(u)' /\ tref[u] # r
      <3>1. InitThread(u) /\ OwnThread(u)
        BY Zenon, <2>3, <2>4 DEF OwnInv
      <3>2. tref[u] \in Ref /\ key[tref[u]][2] = InitId
        BY Zenon, <3>1, ThreadKey DEF InitThread, TEid
      <3>3. tref[u] # r
        BY Zenon, <2>4, <3>1, <3>2 DEF OwnThread
      <3> QED  BY SMTT(30), <1>2, <2>1, <2>2, <3>1, <3>2, <3>3 DEF OwnThread, TCid
    <2>5. ASSUME Disciplined, InitThread(t)' PROVE OwnThread(t)'
      BY Zenon, <1>2, <2>2, <2>5 DEF OwnThread, InitThread, TCid, TEid
    <2>6. ASSUME Disciplined
          PROVE  (\A u, v \in Thread : InitThread(u) /\ InitThread(v) /\ tref[u] = tref[v] => u = v)'
      BY SMTT(30), <2>2, <2>3, <2>4, <2>6 DEF OwnInv
    <2>7. ASSUME Disciplined PROVE ExitCodeIsOwn'
      BY Zenon, <2>7 DEF OwnInv, ExitCodeIsOwn
    <2> QED  BY Zenon, <1>1, <2>4, <2>5, <2>6, <2>7 DEF OwnInv, Disciplined
  <1> QED  BY Zenon, <1>3, <1>4

\* And so does delete: a disciplined client does not delete what still has a thread.
LEMMA OwnDelete ==
  ASSUME TypeInv, OwnInv, setting' = setting, NEW c \in Cid, DeleteContainer(c)
  PROVE  OwnInv'
  <1>1. /\ UNCHANGED <<key, status, code, pc, tref, tcode, gproc>>
        /\ procs'[c][InitId] = NoRef
        /\ \A d \in Cid \ {c} : procs'[d] = procs[d]
    BY Zenon, ExecIsNotInit DEF DeleteContainer, threads, guest, NoProcs, TypeInv, TypeOK
  <1>2. (\A d \in Cid : Registered(d) => gproc[d][InitId] \in {NoRef, procs[d][InitId]})'
    BY Zenon, <1>1 DEF OwnInv, Registered
  <1>3. ASSUME Disciplined, NEW t \in Thread, InitThread(t)' PROVE OwnThread(t)'
    <2>1. InitThread(t) /\ OwnThread(t)
      BY Zenon, <1>1, <1>3 DEF OwnInv, InitThread, TEid
    <2>2. pc[t] \in {"io", "wait", "blocked", "stop"}
      BY Zenon, <2>1 DEF DeleteContainer, WriteLockFree, InitThread, TypeInv, TypeOK, PCs
    <2>3. status[tref[t]] \notin {"Created", "Stopped"}
      BY Zenon, <2>1, <2>2 DEF OwnThread
    <2>4. TCid(t) \in Cid \ {c}
      BY Zenon, <1>3, <2>1, <2>3, ThreadKey DEF OwnThread, DeleteContainer, Status, InitThread
    <2> QED  BY Zenon, <1>1, <2>1, <2>4 DEF OwnThread, TCid
  <1>4. ASSUME Disciplined
        PROVE  /\ (\A t, u \in Thread : InitThread(t) /\ InitThread(u) /\ tref[t] = tref[u] => t = u)'
               /\ ExitCodeIsOwn'
    BY Zenon, <1>1, <1>4 DEF OwnInv, InitThread, TEid, ExitCodeIsOwn
  <1> QED  BY Zenon, <1>2, <1>3, <1>4 DEF OwnInv, Disciplined

\* Every step keeps OwnInv, under the same condition.
LEMMA OwnStep == Fresh /\ TypeInv /\ CleanupInv /\ OwnInv /\ [Next]_vars => OwnInv'
  <1> SUFFICES ASSUME Fresh, TypeInv, CleanupInv, OwnInv, [Next]_vars PROVE OwnInv'
    BY Zenon
  <1>s. setting' = setting
    BY Zenon DEF Next, vars
  <1>i. InitId \in AllEid
    BY Zenon, ExecIsNotInit
  <1>y. /\ procs \in [Cid -> [AllEid -> RefOrNone]] /\ gproc \in [Cid -> [AllEid -> RefOrNone]]
        /\ status \in [Ref -> ProcessStatus] /\ code \in [Ref -> Code]
        /\ pc \in [Thread -> PCs] /\ tref \in [Thread -> RefOrNone] /\ tcode \in [Thread -> Code]
    BY Zenon DEF TypeInv, TypeOK
  <1>0. CASE UNCHANGED vars
    BY Zenon, <1>0, OwnFrame DEF vars, state, host, threads, guest
  <1>1. ASSUME NEW c \in Cid, CreateContainer(c) PROVE OwnInv'
    <2>1. PICK r \in Ref : /\ NewProcess(r, c, InitId, RefsOf(procs[c]))
                           /\ procs' = [procs EXCEPT ![c] = [NoProcs EXCEPT ![InitId] = r]]
                           /\ gproc' = [gproc EXCEPT ![c] = [NoProcs EXCEPT ![InitId] = r]]
      BY Zenon, <1>1 DEF CreateContainer
    <2>2. /\ procs'[c][InitId] = r /\ gproc'[c][InitId] = r
          /\ \A d \in Cid \ {c} : procs'[d] = procs[d] /\ gproc'[d] = gproc[d]
      BY Zenon, <1>i, <1>y, <2>1 DEF NoProcs
    <2>3. UNCHANGED <<pc, tref, tcode>> /\ (Disciplined => ~Registered(c))
      BY Zenon, <1>1 DEF CreateContainer, threads
    <2> QED  BY ZenonT(60), <1>s, <1>i, <2>1, <2>2, <2>3, OwnNew
  <1>2. ASSUME NEW c \in Cid, CreateFails(c) PROVE OwnInv'
    <2>1. \A d \in Cid : Registered(d) => gproc'[d][InitId] \in {gproc[d][InitId], NoRef}
      BY SMTT(30), <1>2, <1>i, <1>y DEF CreateFails, GuestGone, GuestLeftOver, NoProcs, guest
    <2> QED  BY Zenon, <1>2, <1>s, <2>1, OwnFrame DEF CreateFails, threads
  <1>3. ASSUME NEW c \in Cid, StartContainer(c) PROVE OwnInv'
    <2>1. procs[c][InitId] \in Ref /\ key[procs[c][InitId]] = <<c, InitId>>
      BY Zenon, <1>3, InitRef DEF StartContainer, InnerFree
    <2>2. Disciplined => status[procs[c][InitId]] = "Created"
      BY Zenon, <1>3 DEF StartContainer, Status
    <2>3. /\ UNCHANGED <<procs, key, code, gproc>>
          /\ status' = [status EXCEPT ![procs[c][InitId]] = "Running"]
          /\ SpawnWait(procs[c][InitId]) \/ UNCHANGED <<threads, notifier>>
      BY Zenon, <1>3 DEF StartContainer, StartIo
    <2>4. OwnStarts(procs[c][InitId])
      BY SMTT(30), <1>s, <2>1, <2>2, <2>3 DEF OwnStarts
    <2> QED  BY Zenon, <2>1, <2>4, OwnStart
  <1>4. ASSUME NEW c \in Cid, StartContainerFails(c) PROVE OwnInv'
    <2>1. InnerFree(c) /\ StopProcess(c, InitId) /\ UNCHANGED <<procs, key, code, pc, tref, tcode>>
      BY Zenon, <1>4 DEF StartContainerFails, host, threads
    <2>2. /\ \A d \in Cid : gproc'[d][InitId] \in {gproc[d][InitId], NoRef}
          /\ Status(c, InitId) # "Running" => status' = status
      BY Zenon, <1>i, <2>1, StopEffect
    <2>3. Disciplined => status' = status
      BY Zenon, <1>4, <2>2 DEF StartContainerFails
    <2> QED  BY Zenon, <1>s, <2>1, <2>2, <2>3, OwnFrame
  <1>5. ASSUME NEW c \in Cid, StartContainerTimesOut(c) PROVE OwnInv'
    BY Zenon, <1>5, <1>s, OwnFrame DEF StartContainerTimesOut, host, threads
  <1>6. ASSUME NEW c \in Cid, PauseBegin(c) PROVE OwnInv'
    BY Zenon, <1>6, <1>s, OwnFrame DEF PauseBegin, threads
  <1>7. ASSUME NEW c \in Cid, PauseEnd(c) PROVE OwnInv'
    <2>1. \A r \in Ref : status'[r] = status[r] \/ status'[r] \in {"Running", "Paused"}
      BY Zenon, <1>7, <1>y DEF PauseEnd
    <2> QED  BY Zenon, <1>7, <1>s, <2>1, OwnFrame DEF PauseEnd, threads, guest
  <1>8. ASSUME NEW c \in Cid, ResumeBegin(c) PROVE OwnInv'
    BY Zenon, <1>8, <1>s, OwnFrame DEF ResumeBegin, threads
  <1>9. ASSUME NEW c \in Cid, ResumeEnd(c) PROVE OwnInv'
    <2>1. \A r \in Ref : status'[r] = status[r] \/ status'[r] \in {"Running", "Paused"}
      BY Zenon, <1>9, <1>y DEF ResumeEnd
    <2> QED  BY Zenon, <1>9, <1>s, <2>1, OwnFrame DEF ResumeEnd, threads, guest
  <1>10. ASSUME NEW c \in Cid, UpdateContainer(c) PROVE OwnInv'
    BY Zenon, <1>10, <1>s, OwnFrame DEF UpdateContainer, threads, guest
  <1>11. ASSUME NEW c \in Cid, DeleteContainer(c) PROVE OwnInv'
    BY Zenon, <1>11, <1>s, OwnDelete
  <1>12. ASSUME NEW c \in Cid, NEW e \in Eid, ExecProcess(c, e) PROVE OwnInv'
    <2>1. PICK r \in Ref : /\ NewProcess(r, c, e, {procs[c][e]})
                           /\ procs' = [procs EXCEPT ![c][e] = r]
      BY Zenon, <1>12 DEF ExecProcess
    <2>2. \A d \in Cid : procs'[d][InitId] = procs[d][InitId]
      BY Zenon, <1>i, <1>y, <2>1, ExecIsNotInit
    <2>3. UNCHANGED <<pc, tref, tcode, gproc>>
      BY Zenon, <1>12 DEF ExecProcess, threads, guest
    <2> QED  BY Zenon, <1>s, <2>1, <2>2, <2>3, OwnNew, ExecIsNotInit
  <1>13. ASSUME NEW c \in Cid, NEW e \in Eid, DeleteExec(c, e) PROVE OwnInv'
    <2>1. \A d \in Cid : procs'[d][InitId] = procs[d][InitId]
      BY Zenon, <1>13, <1>i, <1>y, ExecIsNotInit DEF DeleteExec
    <2>2. UNCHANGED <<key, status, code, pc, tref, tcode, gproc>>
      BY Zenon, <1>13 DEF DeleteExec, threads, guest
    <2>3. \A t \in Thread : InitThread(t)' = InitThread(t) /\ (InitThread(t) => OwnThread(t)' = OwnThread(t))
      BY Zenon, <2>1, <2>2, ThreadKey DEF InitThread, OwnThread, TCid, TEid
    <2> QED  BY Zenon, <1>s, <2>1, <2>2, <2>3 DEF OwnInv, ExitCodeIsOwn, Registered, Disciplined
  <1>14. ASSUME NEW c \in Cid, NEW e \in Eid, StartExec(c, e) PROVE OwnInv'
    <2>1. procs[c][e] \in Ref /\ key[procs[c][e]][2] # InitId
      BY Zenon, <1>14, ExecRef DEF StartExec
    <2>2. \A d \in Cid : gproc'[d][InitId] = gproc[d][InitId]
      BY Zenon, <1>14, <1>i, <1>y, ExecIsNotInit DEF StartExec
    <2>3. /\ UNCHANGED <<procs, key, code>>
          /\ status' = [status EXCEPT ![procs[c][e]] = "Running"]
          /\ SpawnWait(procs[c][e]) \/ UNCHANGED <<threads, notifier>>
      BY Zenon, <1>14 DEF StartExec, StartIo
    <2>4. OwnStarts(procs[c][e])
      BY Zenon, <1>s, <2>1, <2>2, <2>3 DEF OwnStarts
    <2> QED  BY Zenon, <2>1, <2>4, OwnStart
  <1>15. ASSUME NEW c \in Cid, NEW e \in Eid, StartExecFails(c, e) PROVE OwnInv'
    <2>1. InnerFree(c) /\ StopProcess(c, e) /\ UNCHANGED <<procs, key, code, pc, tref, tcode>>
      BY Zenon, <1>15 DEF StartExecFails, host, threads
    <2>2. /\ \A d \in Cid : gproc'[d][InitId] \in {gproc[d][InitId], NoRef}
          /\ \A r \in Ref : r # procs[c][e] => status'[r] = status[r]
      BY Zenon, <1>i, <2>1, StopEffect, ExecIsNotInit
    <2>3. \A r \in Ref : key[r][2] = InitId => r # procs[c][e]
      BY Zenon, ExecRef, ConstantsAssumption
    <2> QED  BY Zenon, <1>s, <2>1, <2>2, <2>3, OwnFrame
  <1>16. ASSUME NEW c \in Cid, NEW e \in Eid, StartExecTimesOut(c, e) PROVE OwnInv'
    <2>1. procs[c][e] \in Ref /\ key[procs[c][e]][2] # InitId
      BY Zenon, <1>16, ExecRef DEF StartExecTimesOut
    <2>2. /\ \A d \in Cid : gproc'[d][InitId] = gproc[d][InitId]
          /\ \A r \in Ref : r # procs[c][e] => status'[r] = status[r]
      BY Zenon, <1>16, <1>i, <1>y, ExecIsNotInit DEF StartExecTimesOut
    <2> QED  BY Zenon, <1>16, <1>s, <2>1, <2>2, OwnFrame DEF StartExecTimesOut, host, threads
  <1>17. ASSUME NEW c \in Cid, NEW e \in AllEid, NEW term \in BOOLEAN, KillProcess(c, e, term) PROVE OwnInv'
    BY Zenon, <1>17, <1>s, OwnFrame DEF KillProcess, KillGuest, host, threads
  <1>18. ASSUME NEW c \in Cid, NEW e \in AllEid, ProcessExit(c, e) PROVE OwnInv'
    BY Zenon, <1>18, <1>s, OwnFrame DEF ProcessExit, KillGuest, host, threads
  <1>19. ASSUME NEW w \in Waiter, NEW c \in Cid, NEW e \in AllEid, WaitBegin(w, c, e) PROVE OwnInv'
    BY Zenon, <1>19, <1>s, OwnFrame DEF WaitBegin, guest, threads
  <1>20. ASSUME NEW w \in Waiter, WaitReturn(w) PROVE OwnInv'
    BY Zenon, <1>20, <1>s, OwnFrame DEF WaitReturn, guest, threads
  <1>30. CASE VmDies
    BY Zenon, <1>30, <1>s, OwnFrame DEF VmDies, host, threads
  <1>e. ASSUME NEW t \in Thread, pc[t] # "idle", EndThread(t),
               UNCHANGED <<procs, key, status, code, gproc>>
        PROVE  OwnInv'
    <2>1. pc'[t] = "idle"
          /\ \A u \in Thread \ {t} : pc'[u] = pc[u] /\ tref'[u] = tref[u] /\ tcode'[u] = tcode[u]
      BY Zenon, <1>e, <1>y DEF EndThread
    <2>m. OwnMoves(t)
      BY Zenon, <1>e, <1>s, <2>1 DEF OwnMoves, InitThread
    <2> QED  BY Zenon, <2>m, OwnMove
  <1>21. ASSUME NEW t \in Thread, IoEnd(t) PROVE OwnInv'
    <2>1. /\ UNCHANGED <<procs, key, status, code, gproc, tref, tcode>>
          /\ pc[t] = "io" /\ pc'[t] = "wait" /\ \A u \in Thread \ {t} : pc'[u] = pc[u]
      BY Zenon, <1>21, <1>y DEF IoEnd, host, guest
    <2>2. Disciplined /\ InitThread(t) => Owns(tref[t], status'[tref[t]], pc'[t], tcode'[t])
      BY Zenon, <2>1 DEF OwnInv, OwnThread, Owns
    <2>m. OwnMoves(t)
      BY Zenon, <1>s, <2>1, <2>2 DEF OwnMoves
    <2> QED  BY Zenon, <2>m, OwnMove
  <1>22. ASSUME NEW t \in Thread, WaitSent(t) PROVE OwnInv'
    <2>1. /\ UNCHANGED <<procs, key, status, code, gproc, tref>>
          /\ pc[t] = "wait" /\ pc'[t] = "blocked" /\ tcode'[t] = gproc[TCid(t)][TEid(t)]
          /\ \A u \in Thread \ {t} : pc'[u] = pc[u] /\ tcode'[u] = tcode[u]
          /\ gproc[TCid(t)][TEid(t)] # NoRef
      BY Zenon, <1>22, <1>y DEF WaitSent, host, guest
    <2>2. ASSUME Disciplined, InitThread(t)
          PROVE  Owns(tref[t], status'[tref[t]], pc'[t], tcode'[t])
      <3>1. OwnThread(t) /\ TCid(t) \in Cid /\ tref[t] # NoRef
        BY Zenon, <2>2, ThreadKey, ConstantsAssumption DEF OwnInv, InitThread
      <3>2. tcode'[t] = tref[t]
        BY Zenon, <2>1, <2>2, <3>1 DEF OwnInv, OwnThread, InitThread, Registered
      <3> QED  BY Zenon, <2>1, <3>1, <3>2 DEF OwnThread, Owns
    <2>m. OwnMoves(t)
      BY Zenon, <1>s, <2>1, <2>2 DEF OwnMoves
    <2> QED  BY Zenon, <2>m, OwnMove
  <1>23. ASSUME NEW t \in Thread, WaitOk(t) PROVE OwnInv'
    <2>1. /\ UNCHANGED <<procs, key, status, code, tref, tcode>>
          /\ pc[t] = "blocked" /\ pc'[t] = "stop"
          /\ \A u \in Thread \ {t} : pc'[u] = pc[u]
      BY Zenon, <1>23, <1>y DEF WaitOk, host
    <2>2. \A d \in Cid : gproc'[d][InitId] \in {gproc[d][InitId], NoRef}
      <3>1. TCid(t) \in Cid /\ TEid(t) \in AllEid
        BY Zenon, <2>1, ThreadKey
      <3>2. gproc' = [gproc EXCEPT ![TCid(t)][TEid(t)] =
                        IF gproc[TCid(t)][TEid(t)] = tcode[t] THEN NoRef ELSE gproc[TCid(t)][TEid(t)]]
        BY Zenon, <1>23 DEF WaitOk
      <3> QED  BY Zenon, <1>i, <1>y, <3>1, <3>2
    <2>3. Disciplined /\ InitThread(t) => Owns(tref[t], status'[tref[t]], pc'[t], tcode'[t])
      BY Zenon, <2>1 DEF OwnInv, OwnThread, Owns
    <2>m. OwnMoves(t)
      BY Zenon, <1>s, <2>1, <2>2, <2>3 DEF OwnMoves
    <2> QED  BY Zenon, <2>m, OwnMove
  <1>24. ASSUME NEW t \in Thread, WaitFails(t) PROVE OwnInv'
    <2>1. UNCHANGED <<procs, key, status, code, gproc>> /\ pc[t] \in {"wait", "blocked"}
      BY Zenon, <1>24 DEF WaitFails, guest
    <2>2. CASE EndThread(t)
      BY Zenon, <1>e, <2>1, <2>2
    <2>3. CASE /\ pc' = [pc EXCEPT ![t] = "stop"]
               /\ tcode' = [tcode EXCEPT ![t] = "unknown"]
               /\ UNCHANGED <<tref, holds, notifier>>
      <3>1. /\ pc'[t] = "stop" /\ tcode'[t] = "unknown" /\ tref' = tref
            /\ \A u \in Thread \ {t} : pc'[u] = pc[u] /\ tcode'[u] = tcode[u]
        BY Zenon, <1>y, <2>3
      <3>2. Disciplined /\ InitThread(t) => Owns(tref[t], status'[tref[t]], pc'[t], tcode'[t])
        BY Zenon, <2>1, <3>1 DEF OwnInv, OwnThread, Owns
      <3>m. OwnMoves(t)
        BY Zenon, <1>s, <2>1, <3>1, <3>2 DEF OwnMoves
      <3> QED  BY Zenon, <3>m, OwnMove
    <2> QED  BY Zenon, <1>24, <2>2, <2>3 DEF WaitFails
  <1>25. ASSUME NEW t \in Thread, StopStep(t) PROVE OwnInv'
    <2>1. /\ UNCHANGED <<procs, key, code, tref, tcode>>
          /\ pc[t] = "stop" /\ pc'[t] = "record" /\ \A u \in Thread \ {t} : pc'[u] = pc[u]
          /\ InnerFree(TCid(t)) /\ StopProcess(TCid(t), TEid(t))
      BY Zenon, <1>25, <1>y DEF StopStep
    <2>2. tref[t] \in Ref /\ TCid(t) \in Cid /\ TEid(t) \in AllEid
      BY Zenon, <2>1, ThreadKey
    <2>3. /\ \A d \in Cid : gproc'[d][InitId] \in {gproc[d][InitId], NoRef}
          /\ \A r \in Ref : r # procs[TCid(t)][TEid(t)] => status'[r] = status[r]
          /\ Status(TCid(t), InitId) # "Running" => status' = status
          /\ Status(TCid(t), InitId) = "Running" /\ TEid(t) = InitId =>
               status'[procs[TCid(t)][TEid(t)]] = "Stopped"
      BY Zenon, <1>i, <2>1, <2>2, StopEffect
    <2>4. Disciplined => \A r \in Ref : key[r][2] = InitId /\ r # tref[t] => status'[r] = status[r]
      <3>1. CASE TEid(t) = InitId
        BY Zenon, <2>1, <2>3, <3>1 DEF OwnInv, OwnThread, InitThread
      <3>2. CASE TEid(t) # InitId
        <4>1. TEid(t) \in Eid
          BY Zenon, <2>2, <3>2 DEF AllEid
        <4>2. \A r \in Ref : key[r][2] = InitId => r # procs[TCid(t)][TEid(t)]
          BY Zenon, <2>2, <4>1, ExecRef, ConstantsAssumption
        <4> QED  BY Zenon, <2>3, <4>2
      <3> QED  BY Zenon, <3>1, <3>2
    <2>5. ASSUME Disciplined, InitThread(t)
          PROVE  Owns(tref[t], status'[tref[t]], pc'[t], tcode'[t])
      <3>1. OwnThread(t)
        BY Zenon, <2>5 DEF OwnInv
      <3>2. status'[tref[t]] # "Created"
        BY Zenon, <2>2, <2>3, <2>5, <3>1 DEF OwnThread, InitThread, Status
      <3> QED  BY Zenon, <2>1, <3>1, <3>2 DEF OwnThread, Owns
    <2>m. OwnMoves(t)
      BY Zenon, <1>s, <2>1, <2>3, <2>4, <2>5 DEF OwnMoves
    <2> QED  BY Zenon, <2>m, OwnMove
  <1>26. ASSUME NEW t \in Thread, StopMissing(t) PROVE OwnInv'
    <2>1. UNCHANGED <<procs, key, status, code, gproc>> /\ pc[t] = "stop"
      BY Zenon, <1>26 DEF StopMissing, guest
    <2>2. CASE EndThread(t)
      BY Zenon, <1>e, <2>1, <2>2
    <2>3. CASE pc' = [pc EXCEPT ![t] = "record"] /\ UNCHANGED <<tref, tcode, holds, notifier>>
      <3>1. /\ pc'[t] = "record" /\ UNCHANGED <<tref, tcode>>
            /\ \A u \in Thread \ {t} : pc'[u] = pc[u]
        BY Zenon, <1>y, <2>3
      <3>2. Disciplined /\ InitThread(t) => Owns(tref[t], status'[tref[t]], pc'[t], tcode'[t])
        BY Zenon, <2>1, <3>1 DEF OwnInv, OwnThread, Owns
      <3>m. OwnMoves(t)
        BY Zenon, <1>s, <2>1, <3>1, <3>2 DEF OwnMoves
      <3> QED  BY Zenon, <3>m, OwnMove
    <2> QED  BY Zenon, <1>26, <2>2, <2>3 DEF StopMissing
  <1>27. ASSUME NEW t \in Thread, Record(t) PROVE OwnInv'
    <2>1. /\ UNCHANGED <<procs, key, status, gproc, tref, tcode>>
          /\ pc[t] = "record" /\ pc'[t] = "publish" /\ \A u \in Thread \ {t} : pc'[u] = pc[u]
          /\ \A r \in Ref : code'[r] = code[r] \/ (r = tref[t] /\ code'[r] = tcode[t])
      BY Zenon, <1>27, <1>y DEF Record, host, guest
    <2>2. Disciplined /\ InitThread(t) => Owns(tref[t], status'[tref[t]], pc'[t], tcode'[t])
      BY Zenon, <2>1 DEF OwnInv, OwnThread, Owns
    <2>m. OwnMoves(t)
      BY Zenon, <1>s, <2>1, <2>2 DEF OwnMoves
    <2> QED  BY Zenon, <2>m, OwnMove
  <1>28. ASSUME NEW t \in Thread, Publish(t) PROVE OwnInv'
    <2>1. /\ UNCHANGED <<procs, key, code, gproc, tref, tcode>>
          /\ pc[t] = "publish" /\ pc'[t] = "notify" /\ \A u \in Thread \ {t} : pc'[u] = pc[u]
          /\ \A r \in Ref : status'[r] = IF r = tref[t] THEN "Stopped" ELSE status[r]
      BY Zenon, <1>28, <1>y DEF Publish, host, guest
    <2>2. Disciplined /\ InitThread(t) => Owns(tref[t], status'[tref[t]], pc'[t], tcode'[t])
      BY Zenon, <2>1, ThreadKey DEF OwnInv, OwnThread, Owns
    <2>m. OwnMoves(t)
      BY Zenon, <1>s, <2>1, <2>2 DEF OwnMoves
    <2> QED  BY Zenon, <2>m, OwnMove
  <1>29. ASSUME NEW t \in Thread, Notify(t) PROVE OwnInv'
    BY Zenon, <1>29, <1>e DEF Notify, guest
  <1> QED
    BY Zenon, <1>0, <1>1, <1>2, <1>3, <1>4, <1>5, <1>6, <1>7, <1>8, <1>9, <1>10, <1>11, <1>12, <1>13, <1>14, <1>15, <1>16, <1>17, <1>18, <1>19, <1>20, <1>21, <1>22, <1>23, <1>24, <1>25, <1>26, <1>27, <1>28, <1>29, <1>30
    DEF Next, Step, ContainerStep, ExecStep, ProcessStep, ThreadStep

\* OwnInv holds initially.
LEMMA OwnInit == Init => OwnInv
  <1> SUFFICES ASSUME Init PROVE OwnInv
    BY Zenon
  <1>1. \A c \in Cid : ~Registered(c)
    BY Zenon, ExecIsNotInit DEF Init, NoProcs, Registered
  <1>2. \A t \in Thread : ~InitThread(t)
    BY Zenon DEF Init, InitThread
  <1>3. \A r \in Ref : code[r] = "unset"
    BY Zenon DEF Init
  <1> QED  BY Zenon, <1>1, <1>2, <1>3 DEF OwnInv, ExitCodeIsOwn

\* What holds of a client that creates no container under an id in use.
FreshInv == Fresh => CleanupInv /\ OwnInv

\* The client that containerd is creates no container under an id in use.
LEMMA DisciplinedIsFresh == Disciplined => Fresh
  BY DEF Disciplined, Fresh

\* The three invariants hold together.
LEMMA OwnAlways == Spec => [](TypeInv /\ FreshInv)
  <1>1. Init => TypeInv /\ FreshInv
    BY Zenon, TypeInit, CleanupInit, OwnInit DEF FreshInv
  <1>2. TypeInv /\ FreshInv /\ [Next]_vars => (TypeInv /\ FreshInv)'
    BY Zenon, TypeStep, CleanupStep, OwnStep, SameClient DEF FreshInv
  <1> QED  BY <1>1, <1>2, PTL DEF Spec

\* passfd_io_wait and run_io_wait look the container up by id when its init process has
\* ended.  A disciplined client's container that they find is the one they were started
\* for, never a later one of the same id: with pauses or without, in both io modes.
THEOREM ThreadStopsItsOwn == Spec => []StopsOwnContainer
  <1>1. FreshInv => StopsOwnContainer
    BY Zenon, DisciplinedIsFresh DEF FreshInv, OwnInv, OwnThread, InitThread, StopsOwnContainer
  <1> QED  BY OwnAlways, <1>1, PTL

\* The agent finds the process to wait for by id as well.  The exit code recorded for a
\* disciplined client's container is all the same that of its own init process, or
\* UNKNOWN_EXIT_STATUS.
THEOREM CodeIsItsOwn == Spec => []ExitCodeIsOwn
  <1>1. FreshInv => ExitCodeIsOwn
    BY Zenon, DisciplinedIsFresh DEF FreshInv, OwnInv, ExitCodeIsOwn
  <1> QED  BY OwnAlways, <1>1, PTL
-----------------------------------------------------------------------------
(* The container of a disciplined client that does not pause ends Stopped  *)
(* and cleaned up.                                                         *)

\* The steps of a wait thread after stop_process.
Ending == {"record", "publish", "notify"}

\* A step in which thread u does not end an init process.
Aside(u) ==
  \/ pc'[u] = pc[u] /\ tref'[u] = tref[u]
  \/ pc[u] \notin Ending /\ pc'[u] \notin Ending
  \/ tref'[u] = tref[u] /\ TEid(u) # InitId /\ pc[u] = "stop" /\ pc'[u] = "record"

\* A step that registers nothing and ends no init process.
PlainQuiet ==
  /\ UNCHANGED <<setting, key, code, lock>>
  /\ \A d \in Cid : procs'[d][InitId] \in {procs[d][InitId], NoRef}
  /\ \A u \in Thread : Aside(u)
  /\ \A r \in Ref : \/ status'[r] = status[r]
                    \/ status'[r] = "Stopped" /\ key[r][2] # InitId
                    \/ status[r] = "Created" /\ status'[r] = "Running"
  /\ \A r \in Ref : key[r][2] = InitId => cleaned'[r] = cleaned[r]
  /\ ~PassFd => \A r \in Ref : notifier'[r] = "closed" => notifier[r] = "closed"

\* It keeps PlainInv.
LEMMA PlainFrame ==
  ASSUME TypeInv, CleanupInv, PlainInv, PlainQuiet
  PROVE  PlainInv'
  <1>1. (\A c \in Cid : lock[c] = "free")' /\ (\A r \in Ref : status[r] # "Paused")'
    BY SMTT(30) DEF PlainInv, PlainQuiet
  <1>2. ASSUME NEW c \in Cid, Registered(c)' PROVE InitPlain(procs[c][InitId])'
    <2>1. Registered(c) /\ procs'[c][InitId] = procs[c][InitId]
      BY Zenon, <1>2 DEF PlainQuiet, Registered
    <2> DEFINE r == procs[c][InitId]
    <2>2. r \in Ref /\ key[r][2] = InitId /\ InitPlain(r)
      BY SMTT(30), <2>1, InitRef DEF PlainInv
    <2>3. \A u \in Thread : pc[u] = "record" => pc'[u] = pc[u] /\ tref'[u] = tref[u]
      BY Zenon DEF PlainQuiet, Aside, Ending
    <2>4. cleaned'[r] = cleaned[r] /\ code'[r] = code[r]
          /\ (status'[r] = status[r] \/ (status[r] = "Created" /\ status'[r] = "Running"))
      BY Zenon, <2>2 DEF PlainQuiet
    <2> QED  BY Zenon, <2>1, <2>2, <2>3, <2>4 DEF InitPlain
  <1>3. ASSUME NEW t \in Thread, InitThread(t)', pc'[t] \in Ending
        PROVE  status'[tref'[t]] = "Stopped" /\ cleaned'[tref'[t]] = 1
    <2>1. pc'[t] = pc[t] /\ tref'[t] = tref[t]
      BY Zenon, <1>3 DEF PlainQuiet, Aside, InitThread, TEid, Ending
    <2>2. InitThread(t) /\ tref[t] \in Ref /\ key[tref[t]][2] = InitId
      BY Zenon, <1>3, <2>1, ThreadKey DEF PlainQuiet, InitThread, TEid
    <2>3. status[tref[t]] = "Stopped" /\ cleaned[tref[t]] = 1
      BY Zenon, <1>3, <2>1, <2>2 DEF PlainInv, Ending
    <2> QED  BY ZenonT(60), <2>1, <2>2, <2>3 DEF PlainQuiet
  <1>4. ASSUME ~PassFd
        PROVE  /\ (\A t \in Thread : pc[t] = "notify" => status[tref[t]] = "Stopped")'
               /\ EndedIsStopped'
    <2>1. ASSUME NEW t \in Thread, pc'[t] = "notify" PROVE status'[tref'[t]] = "Stopped"
      <3>1. pc[t] = "notify" /\ tref'[t] = tref[t] /\ tref[t] \in Ref
        BY Zenon, <2>1, ThreadKey DEF PlainQuiet, Aside, Ending
      <3> QED  BY SMTT(30), <1>4, <3>1 DEF PlainInv, PlainQuiet
    <2>2. EndedIsStopped'
      BY SMTT(30), <1>4 DEF PlainInv, PlainQuiet, EndedIsStopped
    <2> QED  BY Zenon, <2>1, <2>2
  <1>5. PassFd' = PassFd
    BY Zenon DEF PlainQuiet, PassFd
  <1> QED  BY Zenon, <1>1, <1>2, <1>3, <1>4, <1>5 DEF PlainInv, Ending

\* Process::new keeps PlainInv: the new object is Created, and no thread has it.
LEMMA PlainNew ==
  ASSUME TypeInv, CleanupInv, PlainInv, UNCHANGED <<setting, lock, pc, tref>>,
         NEW r \in Ref, NEW c \in Cid, NEW e \in AllEid, NEW S, NewProcess(r, c, e, S),
         \A d \in Cid : procs'[d][InitId] \in {procs[d][InitId], r}
  PROVE  PlainInv'
  <1>1. /\ \A t \in Thread : tref[t] # r
        /\ \A d \in Cid : procs[d][InitId] # r
    BY Zenon, FreeSlot, ExecIsNotInit DEF NewProcess
  <1>2. /\ \A x \in Ref \ {r} : /\ key'[x] = key[x] /\ status'[x] = status[x]
                                /\ code'[x] = code[x] /\ cleaned'[x] = cleaned[x]
        /\ status'[r] = "Created" /\ code'[r] = "unset"
    BY Zenon DEF NewProcess, TypeInv, TypeOK
  <1>3. \A x \in Ref : notifier'[x] = "closed" => notifier[x] = "closed" /\ x # r
    BY Zenon DEF NewProcess, Discard, TypeInv, TypeOK
  <1>4. (\A d \in Cid : lock[d] = "free")' /\ (\A x \in Ref : status[x] # "Paused")'
    BY ZenonT(60), <1>2 DEF PlainInv
  <1>5. ASSUME NEW d \in Cid, Registered(d)' PROVE InitPlain(procs[d][InitId])'
    <2>1. CASE procs'[d][InitId] = r
      BY Zenon, <1>2, <2>1 DEF InitPlain
    <2>2. CASE procs'[d][InitId] = procs[d][InitId] /\ Registered(d)
      <3>1. procs[d][InitId] \in Ref \ {r} /\ InitPlain(procs[d][InitId])
        BY Zenon, <1>1, <2>2, InitRef DEF PlainInv
      <3> QED  BY ZenonT(60), <1>2, <2>2, <3>1 DEF InitPlain
    <2> QED  BY Zenon, <1>5, <2>1, <2>2 DEF Registered
  <1>6. ASSUME NEW t \in Thread, InitThread(t)', pc'[t] \in {"record", "publish", "notify"}
        PROVE  status'[tref'[t]] = "Stopped" /\ cleaned'[tref'[t]] = 1
    <2>1. pc[t] # "idle" /\ tref[t] \in Ref \ {r}
      BY Zenon, <1>1, <1>6, ThreadKey
    <2>2. InitThread(t)
      BY Zenon, <1>2, <1>6, <2>1 DEF InitThread, TEid
    <2> QED  BY ZenonT(60), <1>2, <1>6, <2>1, <2>2 DEF PlainInv
  <1>7. ASSUME ~PassFd
        PROVE  /\ (\A t \in Thread : pc[t] = "notify" => status[tref[t]] = "Stopped")'
               /\ EndedIsStopped'
    BY SMTT(30), <1>1, <1>2, <1>3, <1>7, ThreadKey DEF PlainInv, EndedIsStopped
  <1> QED  BY Zenon, <1>4, <1>5, <1>6, <1>7 DEF PlainInv, PassFd

\* The thread of a container's init process finds it Running.
LEMMA PlainStopRuns ==
  ASSUME TypeInv, OwnInv, PlainInv, Plain, NEW t \in Thread, pc[t] = "stop", TEid(t) = InitId
  PROVE  procs[TCid(t)][InitId] = tref[t] /\ status[tref[t]] = "Running"
  <1>1. OwnThread(t) /\ tref[t] \in Ref
    BY Zenon, ThreadKey DEF OwnInv, InitThread, Plain
  <1> QED  BY ZenonT(60), <1>1 DEF OwnThread, PlainInv, TypeInv, TypeOK, ProcessStatus

\* A step of the thread t of an init process, from stop_process on.
PlainEnds(t) ==
  /\ UNCHANGED <<setting, procs, key, lock>>
  /\ InitThread(t) /\ InitThread(t)' /\ tref'[t] = tref[t] /\ pc'[t] \in Ending
  /\ \A u \in Thread \ {t} : pc'[u] = pc[u] /\ tref'[u] = tref[u]
  /\ \A r \in Ref \ {tref[t]} :
       status'[r] = status[r] /\ code'[r] = code[r] /\ cleaned'[r] = cleaned[r]
  /\ status'[tref[t]] = "Stopped" /\ cleaned'[tref[t]] = 1
  /\ pc'[t] = "record" \/ code'[tref[t]] # "unset"
  /\ ~PassFd => notifier' = notifier

\* It keeps PlainInv.
LEMMA PlainEnd ==
  ASSUME TypeInv, CleanupInv, OwnInv, PlainInv, Plain, NEW t \in Thread, PlainEnds(t)
  PROVE  PlainInv'
  <1>0. tref[t] \in Ref /\ key[tref[t]][2] = InitId
    BY Zenon, ThreadKey DEF PlainEnds, InitThread, TEid
  <1>1. (\A c \in Cid : lock[c] = "free")' /\ (\A r \in Ref : status[r] # "Paused")'
    BY SMTT(30) DEF PlainInv, PlainEnds
  <1>2. ASSUME NEW c \in Cid, Registered(c)' PROVE InitPlain(procs[c][InitId])'
    <2>1. Registered(c) /\ procs'[c][InitId] = procs[c][InitId]
      BY Zenon, <1>2 DEF PlainEnds, Registered
    <2>2. procs[c][InitId] \in Ref /\ InitPlain(procs[c][InitId])
      BY Zenon, <2>1, InitRef DEF PlainInv
    <2>3. CASE procs[c][InitId] = tref[t]
      BY Zenon, <1>0, <2>1, <2>3 DEF PlainEnds, InitPlain
    <2>4. CASE procs[c][InitId] # tref[t]
      BY Zenon, <2>1, <2>2, <2>4 DEF PlainEnds, InitPlain
    <2> QED  BY Zenon, <2>3, <2>4
  <1>3. ASSUME NEW u \in Thread, InitThread(u)', pc'[u] \in Ending
        PROVE  status'[tref'[u]] = "Stopped" /\ cleaned'[tref'[u]] = 1
    <2>1. CASE u = t
      BY Zenon, <2>1 DEF PlainEnds
    <2>2. CASE u # t
      <3>1. InitThread(u) /\ pc[u] \in Ending /\ tref'[u] = tref[u] /\ tref[u] \in Ref
        BY Zenon, <1>3, <2>2, ThreadKey DEF PlainEnds, InitThread, TEid
      <3>2. tref[u] # tref[t]
        BY Zenon, <2>2, <3>1 DEF OwnInv, Plain, PlainEnds
      <3> QED  BY SMTT(30), <3>1, <3>2 DEF PlainInv, PlainEnds, Ending
    <2> QED  BY Zenon, <2>1, <2>2
  <1>4. ASSUME ~PassFd
        PROVE  /\ (\A u \in Thread : pc[u] = "notify" => status[tref[u]] = "Stopped")'
               /\ EndedIsStopped'
    <2>1. ASSUME NEW u \in Thread, pc'[u] = "notify" PROVE status'[tref'[u]] = "Stopped"
      BY SMTT(30), <1>4, <2>1, ThreadKey DEF PlainInv, PlainEnds
    <2>2. EndedIsStopped'
      BY ZenonT(60), <1>4 DEF PlainInv, PlainEnds, EndedIsStopped
    <2> QED  BY Zenon, <2>1, <2>2
  <1> QED  BY Zenon, <1>1, <1>2, <1>3, <1>4 DEF PlainInv, PlainEnds, PassFd, Ending

\* The last two steps of a thread keep it, for any process: the status is Stopped before
\* the watcher is closed, and a thread that ends leaves a process that is Stopped.
LEMMA PlainPublish ==
  ASSUME TypeInv, CleanupInv, OwnInv, PlainInv, Plain, setting' = setting,
         NEW t \in Thread, Publish(t) \/ Notify(t)
  PROVE  PlainInv'
  <1>0. pc[t] \in {"publish", "notify"} /\ tref[t] \in Ref
    BY Zenon, ThreadKey DEF Publish, Notify
  <1>y. /\ status \in [Ref -> ProcessStatus] /\ notifier \in [Ref -> NotifierPlace]
        /\ pc \in [Thread -> PCs] /\ tref \in [Thread -> RefOrNone]
    BY Zenon DEF TypeInv, TypeOK
  <1>1. /\ UNCHANGED <<procs, key, lock, code, cleaned>>
        /\ \A u \in Thread \ {t} : pc'[u] = pc[u] /\ tref'[u] = tref[u]
        /\ \/ /\ pc'[t] = "idle" /\ pc[t] = "notify" /\ status' = status
              /\ \A r \in Ref : notifier'[r] = notifier[r] \/ r = tref[t]
           \/ /\ pc'[t] = "notify" /\ tref'[t] = tref[t] /\ notifier' = notifier
              /\ \A r \in Ref : status'[r] = IF r = tref[t] THEN "Stopped" ELSE status[r]
    <2>1. CASE Publish(t)
      BY Zenon, <1>0, <1>y, <2>1 DEF Publish, host
    <2>2. CASE Notify(t)
      BY Zenon, <1>0, <1>y, <2>2 DEF Notify, EndThread
    <2> QED  BY Zenon, <2>1, <2>2
  <1>2. (\A c \in Cid : lock[c] = "free")' /\ (\A r \in Ref : status[r] # "Paused")'
    BY SMTT(30), <1>1 DEF PlainInv
  <1>3. \A r \in Ref : key[r][2] = InitId => status'[r] = status[r]
    <2>1. key[tref[t]][2] = InitId => status[tref[t]] = "Stopped"
      BY Zenon, <1>0 DEF PlainInv, InitThread, TEid
    <2> QED  BY Zenon, <1>1, <2>1
  <1>4. ASSUME NEW c \in Cid, Registered(c)' PROVE InitPlain(procs[c][InitId])'
    <2>1. Registered(c) /\ procs'[c][InitId] = procs[c][InitId]
      BY Zenon, <1>1, <1>4 DEF Registered
    <2>2. /\ procs[c][InitId] \in Ref /\ InitPlain(procs[c][InitId])
          /\ key[procs[c][InitId]][2] = InitId
      BY SMTT(30), <2>1, InitRef DEF PlainInv
    <2>3. \A u \in Thread : pc[u] = "record" => pc'[u] = pc[u] /\ tref'[u] = tref[u]
      BY Zenon, <1>0, <1>1
    <2> QED  BY ZenonT(60), <1>1, <1>3, <2>1, <2>2, <2>3 DEF InitPlain
  <1>5. ASSUME NEW u \in Thread, InitThread(u)', pc'[u] \in Ending
        PROVE  status'[tref'[u]] = "Stopped" /\ cleaned'[tref'[u]] = 1
    <2>1. InitThread(u) /\ pc[u] \in Ending /\ tref'[u] = tref[u] /\ tref[u] \in Ref
      BY Zenon, <1>0, <1>1, <1>5, ThreadKey DEF InitThread, TEid, Ending
    <2>2. status[tref[u]] = "Stopped" /\ cleaned[tref[u]] = 1
      BY Zenon, <2>1 DEF PlainInv, Ending
    <2> QED  BY Zenon, <1>1, <1>3, <2>1, <2>2 DEF InitThread, TEid
  <1>6. ASSUME ~PassFd
        PROVE  /\ (\A u \in Thread : pc[u] = "notify" => status[tref[u]] = "Stopped")'
               /\ EndedIsStopped'
    <2>1. ASSUME NEW u \in Thread, pc'[u] = "notify" PROVE status'[tref'[u]] = "Stopped"
      BY SMTT(30), <1>0, <1>1, <1>6, <2>1, ThreadKey DEF PlainInv
    <2>2. EndedIsStopped'
      BY SMTT(30), <1>0, <1>1, <1>6 DEF PlainInv, EndedIsStopped
    <2> QED  BY Zenon, <2>1, <2>2
  <1> QED  BY Zenon, <1>2, <1>4, <1>5, <1>6 DEF PlainInv, PassFd, Ending

\* Every step of such a client's system keeps PlainInv.
LEMMA PlainStep ==
  ASSUME TypeInv, CleanupInv, OwnInv, PlainInv, Plain, [Next]_vars
  PROVE  PlainInv'
  <1>s. setting' = setting
    BY Zenon DEF Next, vars
  <1>i. InitId \in AllEid
    BY Zenon, ExecIsNotInit
  <1>d. Disciplined /\ ~MayPause
    BY Zenon DEF Plain
  <1>y. /\ procs \in [Cid -> [AllEid -> RefOrNone]]
        /\ status \in [Ref -> ProcessStatus] /\ code \in [Ref -> Code]
        /\ notifier \in [Ref -> NotifierPlace] /\ cleaned \in [Ref -> 0..MaxCleaned]
        /\ pc \in [Thread -> PCs] /\ tref \in [Thread -> RefOrNone] /\ tcode \in [Thread -> Code]
    BY Zenon DEF TypeInv, TypeOK
  <1>l. /\ \A c \in Cid : lock[c] = "free"
        /\ \A c \in Cid : Registered(c) => Status(c, InitId) # "Paused"
    BY Zenon, InitRef DEF PlainInv, Status
  <1>q. ASSUME UNCHANGED <<procs, key, status, code, cleaned, lock, notifier, pc, tref>>
        PROVE  PlainInv'
    <2>1. PlainQuiet
      BY Zenon, <1>q, <1>s DEF PlainQuiet, Aside
    <2> QED  BY Zenon, <2>1, PlainFrame
  <1>0. CASE UNCHANGED vars
    BY Zenon, <1>0, <1>q DEF vars, state, host, threads
  <1>1. ASSUME NEW c \in Cid, CreateContainer(c) PROVE PlainInv'
    <2>1. PICK r \in Ref : /\ NewProcess(r, c, InitId, RefsOf(procs[c]))
                           /\ procs' = [procs EXCEPT ![c] = [NoProcs EXCEPT ![InitId] = r]]
      BY Zenon, <1>1 DEF CreateContainer
    <2>2. \A d \in Cid : procs'[d][InitId] \in {procs[d][InitId], r}
      BY Zenon, <1>i, <1>y, <2>1 DEF NoProcs
    <2>3. UNCHANGED <<lock, pc, tref>>
      BY Zenon, <1>1 DEF CreateContainer, threads
    <2> QED  BY Zenon, <1>s, <1>i, <2>1, <2>2, <2>3, PlainNew
  <1>2. ASSUME NEW c \in Cid, CreateFails(c) PROVE PlainInv'
    BY Zenon, <1>2, <1>q DEF CreateFails, threads
  <1>w. ASSUME NEW r \in Ref, StartIo(r, TRUE), UNCHANGED <<procs, key, code, cleaned, lock>>,
               status' = [status EXCEPT ![r] = "Running"], status[r] = "Created"
        PROVE  PlainInv'
    <2>1. \A x \in Ref : notifier'[x] = "closed" => notifier[x] = "closed"
      BY Zenon, <1>w, <1>y DEF StartIo, SpawnWait
    <2>2. \A u \in Thread : Aside(u)
      <3>1. CASE UNCHANGED <<threads, notifier>>
        BY Zenon, <3>1 DEF Aside, threads
      <3>2. CASE SpawnWait(r)
        BY ZenonT(60), <3>2, <1>y DEF Aside, SpawnWait, Ending
      <3> QED  BY Zenon, <1>w, <3>1, <3>2 DEF StartIo
    <2>3. PlainQuiet
      BY Zenon, <1>s, <1>w, <1>y, <2>1, <2>2 DEF PlainQuiet
    <2> QED  BY Zenon, <2>3, PlainFrame
  <1>3. ASSUME NEW c \in Cid, StartContainer(c) PROVE PlainInv'
    <2>1. procs[c][InitId] \in Ref /\ status[procs[c][InitId]] = "Created"
      BY Zenon, <1>3, <1>d, InitRef DEF StartContainer, InnerFree, Status
    <2>2. StartIo(procs[c][InitId], TRUE)
      BY Zenon, <1>3 DEF StartContainer, StartIo
    <2>3. /\ UNCHANGED <<procs, key, code, cleaned, lock>>
          /\ status' = [status EXCEPT ![procs[c][InitId]] = "Running"]
      BY Zenon, <1>3 DEF StartContainer
    <2> QED  BY Zenon, <1>w, <2>1, <2>2, <2>3
  <1>4. ASSUME NEW c \in Cid, StartContainerFails(c) PROVE PlainInv'
    <2>1. UNCHANGED <<status, cleaned>>
      BY Zenon, <1>4, <1>d, <1>i, StopEffect DEF StartContainerFails
    <2> QED  BY Zenon, <1>4, <1>q, <2>1 DEF StartContainerFails, host, threads
  <1>5. ASSUME NEW c \in Cid, StartContainerTimesOut(c) PROVE PlainInv'
    BY Zenon, <1>5, <1>q DEF StartContainerTimesOut, host, threads
  <1>6. ASSUME NEW c \in Cid, PauseBegin(c) PROVE PlainInv'
    BY Zenon, <1>6, <1>d DEF PauseBegin
  <1>7. ASSUME NEW c \in Cid, PauseEnd(c) PROVE PlainInv'
    BY Zenon, <1>7, <1>l DEF PauseEnd
  <1>8. ASSUME NEW c \in Cid, ResumeBegin(c) PROVE PlainInv'
    BY Zenon, <1>8, <1>l DEF ResumeBegin, InnerFree
  <1>9. ASSUME NEW c \in Cid, ResumeEnd(c) PROVE PlainInv'
    BY Zenon, <1>9, <1>l DEF ResumeEnd
  <1>10. ASSUME NEW c \in Cid, UpdateContainer(c) PROVE PlainInv'
    BY Zenon, <1>10, <1>q DEF UpdateContainer, threads
  <1>11. ASSUME NEW c \in Cid, DeleteContainer(c) PROVE PlainInv'
    <2>1. \A d \in Cid : procs'[d][InitId] \in {procs[d][InitId], NoRef}
      BY Zenon, <1>11, <1>i, <1>y DEF DeleteContainer, NoProcs
    <2>2. \A r \in Ref : notifier'[r] = "closed" => notifier[r] = "closed"
      BY Zenon, <1>11 DEF DeleteContainer, Discard
    <2>3. PlainQuiet
      BY Zenon, <1>s, <1>11, <2>1, <2>2 DEF PlainQuiet, Aside, DeleteContainer, threads
    <2> QED  BY Zenon, <2>3, PlainFrame
  <1>12. ASSUME NEW c \in Cid, NEW e \in Eid, ExecProcess(c, e) PROVE PlainInv'
    <2>1. PICK r \in Ref : /\ NewProcess(r, c, e, {procs[c][e]})
                           /\ procs' = [procs EXCEPT ![c][e] = r]
      BY Zenon, <1>12 DEF ExecProcess
    <2>2. \A d \in Cid : procs'[d][InitId] = procs[d][InitId]
      BY Zenon, <1>i, <1>y, <2>1, ExecIsNotInit
    <2>3. UNCHANGED <<lock, pc, tref>>
      BY Zenon, <1>12 DEF ExecProcess, threads
    <2> QED  BY Zenon, <1>s, <2>1, <2>2, <2>3, PlainNew, ExecIsNotInit
  <1>13. ASSUME NEW c \in Cid, NEW e \in Eid, DeleteExec(c, e) PROVE PlainInv'
    <2>1. \A d \in Cid : procs'[d][InitId] = procs[d][InitId]
      BY Zenon, <1>13, <1>i, <1>y, ExecIsNotInit DEF DeleteExec
    <2>2. \A r \in Ref : notifier'[r] = "closed" => notifier[r] = "closed"
      BY Zenon, <1>13 DEF DeleteExec, Discard
    <2>3. PlainQuiet
      BY Zenon, <1>s, <1>13, <2>1, <2>2 DEF PlainQuiet, Aside, DeleteExec, threads
    <2> QED  BY Zenon, <2>3, PlainFrame
  <1>14. ASSUME NEW c \in Cid, NEW e \in Eid, StartExec(c, e) PROVE PlainInv'
    <2>1. procs[c][e] \in Ref /\ status[procs[c][e]] = "Created"
      BY Zenon, <1>14, <1>d, ExecRef DEF StartExec, Status
    <2>2. /\ UNCHANGED <<procs, key, code, cleaned, lock>> /\ StartIo(procs[c][e], TRUE)
          /\ status' = [status EXCEPT ![procs[c][e]] = "Running"]
      BY Zenon, <1>14 DEF StartExec
    <2> QED  BY Zenon, <1>w, <2>1, <2>2
  <1>x. ASSUME NEW c \in Cid, NEW e \in Eid, InnerFree(c), StopProcess(c, e)
        PROVE  /\ cleaned' = cleaned
               /\ \A r \in Ref : status'[r] = status[r] \/ (status'[r] = "Stopped" /\ key[r][2] # InitId)
    <2>1. /\ cleaned' = cleaned
          /\ \A r \in Ref : status'[r] \in {status[r], "Stopped"}
          /\ \A r \in Ref : r # procs[c][e] => status'[r] = status[r]
      BY Zenon, <1>x, StopEffect, ExecIsNotInit
    <2>2. \A r \in Ref : r = procs[c][e] => key[r][2] # InitId
      BY Zenon, ExecRef, ConstantsAssumption
    <2> QED  BY Zenon, <2>1, <2>2
  <1>15. ASSUME NEW c \in Cid, NEW e \in Eid, StartExecFails(c, e) PROVE PlainInv'
    <2>1. /\ cleaned' = cleaned
          /\ \A r \in Ref : status'[r] = status[r] \/ (status'[r] = "Stopped" /\ key[r][2] # InitId)
      BY Zenon, <1>15, <1>x DEF StartExecFails
    <2>2. PlainQuiet
      BY Zenon, <1>s, <1>15, <2>1 DEF PlainQuiet, Aside, StartExecFails, host, threads
    <2> QED  BY Zenon, <2>2, PlainFrame
  <1>16. ASSUME NEW c \in Cid, NEW e \in Eid, StartExecTimesOut(c, e) PROVE PlainInv'
    <2>1. procs[c][e] \in Ref /\ key[procs[c][e]][2] # InitId
      BY Zenon, <1>16, ExecRef DEF StartExecTimesOut
    <2>2. \A r \in Ref : status'[r] = status[r] \/ (status'[r] = "Stopped" /\ r = procs[c][e])
      BY Zenon, <1>16, <1>y DEF StartExecTimesOut
    <2>3. PlainQuiet
      BY Zenon, <1>s, <1>16, <2>1, <2>2 DEF PlainQuiet, Aside, StartExecTimesOut, host, threads
    <2> QED  BY Zenon, <2>3, PlainFrame
  <1>17. ASSUME NEW c \in Cid, NEW e \in AllEid, NEW term \in BOOLEAN, KillProcess(c, e, term) PROVE PlainInv'
    BY Zenon, <1>17, <1>q DEF KillProcess, host, threads
  <1>18. ASSUME NEW c \in Cid, NEW e \in AllEid, ProcessExit(c, e) PROVE PlainInv'
    BY Zenon, <1>18, <1>q DEF ProcessExit, host, threads
  <1>19. ASSUME NEW w \in Waiter, NEW c \in Cid, NEW e \in AllEid, WaitBegin(w, c, e) PROVE PlainInv'
    BY Zenon, <1>19, <1>q DEF WaitBegin, threads
  <1>20. ASSUME NEW w \in Waiter, WaitReturn(w) PROVE PlainInv'
    BY Zenon, <1>20, <1>q DEF WaitReturn, threads
  <1>30. CASE VmDies
    BY Zenon, <1>30, <1>q DEF VmDies, host, threads
  <1>t. ASSUME NEW t \in Thread, UNCHANGED <<procs, key, status, code, cleaned, lock>>,
               pc[t] \notin Ending,
               \/ pc'[t] \notin Ending
               \/ pc[t] = "stop" /\ pc'[t] = "record" /\ TEid(t) # InitId /\ tref'[t] = tref[t],
               \A u \in Thread \ {t} : pc'[u] = pc[u] /\ tref'[u] = tref[u],
               PassFd \/ notifier' = notifier
        PROVE  PlainInv'
    <2>1. PlainQuiet
      BY Zenon, <1>s, <1>t DEF PlainQuiet, Aside
    <2> QED  BY Zenon, <2>1, PlainFrame
  <1>21. ASSUME NEW t \in Thread, IoEnd(t) PROVE PlainInv'
    BY Zenon, <1>21, <1>t, <1>y DEF IoEnd, host, Ending
  <1>22. ASSUME NEW t \in Thread, WaitSent(t) PROVE PlainInv'
    BY Zenon, <1>22, <1>t, <1>y DEF WaitSent, host, Ending
  <1>23. ASSUME NEW t \in Thread, WaitOk(t) PROVE PlainInv'
    BY Zenon, <1>23, <1>t, <1>y DEF WaitOk, host, Ending
  <1>24. ASSUME NEW t \in Thread, WaitFails(t) PROVE PlainInv'
    <2>1. UNCHANGED <<procs, key, status, code, cleaned, lock>> /\ pc[t] \in {"wait", "blocked"}
      BY Zenon, <1>24 DEF WaitFails
    <2>2. /\ pc'[t] \in {"idle", "stop"} /\ (PassFd \/ notifier' = notifier)
          /\ \A u \in Thread \ {t} : pc'[u] = pc[u] /\ tref'[u] = tref[u]
      BY ZenonT(60), <1>24, <1>y DEF WaitFails, EndThread
    <2> QED  BY Zenon, <1>t, <2>1, <2>2 DEF Ending
  <1>25. ASSUME NEW t \in Thread, StopStep(t) PROVE PlainInv'
    <2>1. /\ UNCHANGED <<procs, key, lock, code, tref, notifier>>
          /\ pc[t] = "stop" /\ pc'[t] = "record" /\ \A u \in Thread \ {t} : pc'[u] = pc[u]
          /\ InnerFree(TCid(t)) /\ StopProcess(TCid(t), TEid(t))
      BY Zenon, <1>25, <1>y DEF StopStep
    <2>2. tref[t] \in Ref /\ TCid(t) \in Cid /\ TEid(t) \in AllEid
      BY Zenon, <2>1, ThreadKey
    <2>3. CASE TEid(t) = InitId
      <3>1. procs[TCid(t)][InitId] = tref[t] /\ status[tref[t]] = "Running"
        BY Zenon, <2>1, <2>3, PlainStopRuns
      <3>2. /\ \A r \in Ref : r # tref[t] => status'[r] = status[r] /\ cleaned'[r] = cleaned[r]
            /\ status'[tref[t]] = "Stopped" /\ cleaned'[tref[t]] = 1
        BY SMTT(30), <2>1, <2>2, <2>3, <3>1, StopEffect DEF Status
      <3>3. InitThread(t) /\ InitThread(t)'
        BY Zenon, <2>1, <2>3 DEF InitThread, TEid
      <3>4. PlainEnds(t)
        BY Zenon, <1>s, <2>1, <2>2, <3>2, <3>3 DEF PlainEnds, Ending
      <3> QED  BY Zenon, <3>4, PlainEnd
    <2>4. CASE TEid(t) # InitId
      <3>1. TEid(t) \in Eid
        BY Zenon, <2>2, <2>4 DEF AllEid
      <3>2. /\ cleaned' = cleaned
            /\ \A r \in Ref : status'[r] = status[r] \/ (status'[r] = "Stopped" /\ key[r][2] # InitId)
        BY Zenon, <1>x, <2>1, <2>2, <3>1
      <3>3. PlainQuiet
        BY Zenon, <1>s, <2>1, <2>4, <3>2 DEF PlainQuiet, Aside
      <3> QED  BY Zenon, <3>3, PlainFrame
    <2> QED  BY Zenon, <2>3, <2>4
  <1>26. ASSUME NEW t \in Thread, StopMissing(t) PROVE PlainInv'
    <2>1. UNCHANGED <<procs, key, status, code, cleaned, lock>> /\ pc[t] = "stop"
      BY Zenon, <1>26 DEF StopMissing
    <2>2. TEid(t) # InitId
      BY SMTT(30), <1>26, <2>1, PlainStopRuns, ThreadKey, ConstantsAssumption DEF StopMissing, Registered
    <2>3. /\ pc'[t] = "idle" \/ (pc'[t] = "record" /\ tref'[t] = tref[t])
          /\ PassFd \/ notifier' = notifier
          /\ \A u \in Thread \ {t} : pc'[u] = pc[u] /\ tref'[u] = tref[u]
      BY ZenonT(60), <1>26, <1>y DEF StopMissing, EndThread
    <2> QED  BY Zenon, <1>t, <2>1, <2>2, <2>3 DEF Ending
  <1>27. ASSUME NEW t \in Thread, Record(t) PROVE PlainInv'
    <2>1. /\ UNCHANGED <<procs, key, lock, status, cleaned, notifier, tref>>
          /\ pc[t] = "record" /\ pc'[t] = "publish" /\ \A u \in Thread \ {t} : pc'[u] = pc[u]
          /\ \A r \in Ref : code'[r] = IF r = tref[t] THEN tcode[t] ELSE code[r]
      BY Zenon, <1>27, <1>y DEF Record, host
    <2>2. tref[t] \in Ref
      BY Zenon, <2>1, ThreadKey
    <2>3. CASE TEid(t) = InitId
      <3>1. InitThread(t) /\ InitThread(t)'
        BY Zenon, <2>1, <2>3 DEF InitThread, TEid
      <3>2. tcode[t] # "unset"
        BY Zenon, <1>d, <2>1, <2>2, <3>1, ConstantsAssumption DEF OwnInv, OwnThread
      <3>3. status[tref[t]] = "Stopped" /\ cleaned[tref[t]] = 1
        BY Zenon, <2>1, <3>1 DEF PlainInv
      <3>4. PlainEnds(t)
        BY Zenon, <1>s, <2>1, <2>2, <3>1, <3>2, <3>3 DEF PlainEnds, Ending
      <3> QED  BY Zenon, <3>4, PlainEnd
    <2>4. CASE TEid(t) # InitId
      <3>1. \A r \in Ref : key[r][2] = InitId => r # tref[t]
        BY Zenon, <2>4 DEF TEid
      <3>2. ASSUME NEW c \in Cid, Registered(c)' PROVE InitPlain(procs[c][InitId])'
        <4>0. Registered(c)
          BY Zenon, <2>1, <3>2 DEF Registered
        <4>1. procs[c][InitId] \in Ref \ {tref[t]} /\ InitPlain(procs[c][InitId])
          BY SMTT(30), <3>1, <4>0, InitRef DEF PlainInv
        <4> QED  BY Zenon, <2>1, <4>1 DEF InitPlain
      <3>3. ASSUME NEW u \in Thread, InitThread(u)'
            PROVE  InitThread(u) /\ pc'[u] = pc[u]
        BY Zenon, <2>1, <2>4, <3>3 DEF InitThread, TEid
      <3> QED  BY ZenonT(60), <1>s, <2>1, <3>2, <3>3 DEF PlainInv, PassFd, EndedIsStopped
    <2> QED  BY Zenon, <2>3, <2>4
  <1>28. ASSUME NEW t \in Thread, Publish(t) PROVE PlainInv'
    BY Zenon, <1>28, <1>s, PlainPublish
  <1>29. ASSUME NEW t \in Thread, Notify(t) PROVE PlainInv'
    BY Zenon, <1>29, <1>s, PlainPublish
  <1> QED
    BY Zenon, <1>0, <1>1, <1>2, <1>3, <1>4, <1>5, <1>6, <1>7, <1>8, <1>9, <1>10, <1>11, <1>12, <1>13, <1>14, <1>15, <1>16, <1>17, <1>18, <1>19, <1>20, <1>21, <1>22, <1>23, <1>24, <1>25, <1>26, <1>27, <1>28, <1>29, <1>30
    DEF Next, Step, ContainerStep, ExecStep, ProcessStep, ThreadStep

\* PlainInv holds initially.
LEMMA PlainInit == Init => PlainInv
  <1> SUFFICES ASSUME Init PROVE PlainInv
    BY Zenon
  <1>1. /\ \A c \in Cid : ~Registered(c) /\ lock[c] = "free"
        /\ \A t \in Thread : pc[t] = "idle"
        /\ \A r \in Ref : status[r] = "Stopped" /\ notifier[r] = "discarded"
    BY Zenon, ExecIsNotInit DEF Init, NoProcs, Registered
  <1> QED  BY Zenon, <1>1 DEF PlainInv, EndedIsStopped

\* What every reachable state of such a client's system satisfies.
LEMMA PlainAlways == Spec => [](TypeInv /\ FreshInv /\ (Plain => PlainInv))
  <1> DEFINE PInv == Plain => PlainInv
  <1>1. Init => PInv
    BY Zenon, PlainInit
  <1>2. TypeInv /\ FreshInv /\ PInv /\ [Next]_vars => PInv'
    BY Zenon, SameClient, DisciplinedIsFresh, PlainStep DEF FreshInv, Plain
  <1> HIDE DEF PInv
  <1>3. Spec => []PInv
    BY <1>1, <1>2, OwnAlways, PTL DEF Spec
  <1> QED  BY <1>3, OwnAlways, PTL DEF PInv

\* For a disciplined client that does not pause, force mode does stop and clean up: when
\* a container's exit code is recorded, cleanup_container has run for it, once.
THEOREM PlainCleansUp == Spec => []PlainExitCleansUp
  <1>1. TypeInv /\ (Plain => PlainInv) => PlainExitCleansUp
    BY Zenon DEF PlainInv, InitThread, PlainExitCleansUp, ExitCleansUp
  <1> QED  BY PlainAlways, <1>1, PTL

\* And in legacy io mode a process whose wait thread has ended is Stopped, and stays so:
\* a Kill that comes later sees it.
THEOREM PlainStaysStopped == Spec => []PlainEndedIsStopped
  <1>1. (Plain => PlainInv) => PlainEndedIsStopped
    BY Zenon DEF PlainInv, PlainEndedIsStopped
  <1> QED  BY PlainAlways, <1>1, PTL
-----------------------------------------------------------------------------
(* The manager implements ContainerLifecycle.                              *)

\* The stages that the states of an init process stand for.
LEMMA Stages ==
  /\ \A n : StageOf("Created", "unset", n) = "created"
  /\ \A n : StageOf("Running", "unset", n) = "running"
  /\ StageOf("Stopped", "unset", 1) = "stopping"
  /\ \A k : k # "unset" => StageOf("Stopped", k, 1) = "exited"
  BY Zenon DEF StageOf

\* The stage of a registered container, before and after a step.
LEMMA LifeOf ==
  ASSUME Plain, setting' = setting, NEW c \in Cid
  PROVE  /\ ~Registered(c) => lives[c] = "none"
         /\ Registered(c) => lives[c] = StageOf(Status(c, InitId), code[procs[c][InitId]],
                                                cleaned[procs[c][InitId]])
         /\ procs'[c][InitId] = NoRef => lives'[c] = "none"
         /\ procs'[c][InitId] # NoRef =>
              lives'[c] = StageOf(status'[procs'[c][InitId]], code'[procs'[c][InitId]],
                                  cleaned'[procs'[c][InitId]])
  <1>1. Plain'
    BY Zenon DEF Plain, Disciplined, MayPause
  <1> QED  BY Zenon, <1>1 DEF lives, Registered, Status

\* What is as it was has the life it had.
LEMMA LifeKept ==
  ASSUME TypeInv, CleanupInv, Plain, setting' = setting, NEW c \in Cid,
         procs'[c][InitId] = procs[c][InitId],
         Registered(c) =>
           /\ status'[procs[c][InitId]] = status[procs[c][InitId]]
           /\ code'[procs[c][InitId]] = code[procs[c][InitId]]
           /\ cleaned'[procs[c][InitId]] = cleaned[procs[c][InitId]]
  PROVE  lives'[c] = lives[c]
  BY ZenonT(60), LifeOf DEF Registered, Status

\* A step that changes no container and no init process.
LifeQuiet ==
  /\ setting' = setting
  /\ \A c \in Cid : procs'[c][InitId] = procs[c][InitId]
  /\ \A r \in Ref : key[r][2] = InitId =>
       status'[r] = status[r] /\ code'[r] = code[r] /\ cleaned'[r] = cleaned[r]

\* It changes no life.
LEMMA LifeStutters ==
  ASSUME TypeInv, CleanupInv, Plain, LifeQuiet
  PROVE  lives' = lives
  <1>1. ASSUME NEW c \in Cid PROVE lives'[c] = lives[c]
    <2>1. Registered(c) => procs[c][InitId] \in Ref /\ key[procs[c][InitId]][2] = InitId
      BY SMTT(30), InitRef
    <2> QED  BY Zenon, <2>1, LifeKept DEF LifeQuiet
  <1>2. lives = [c \in Cid |-> lives[c]] /\ lives' = [c \in Cid |-> lives'[c]]
    BY Zenon DEF lives
  <1> QED  BY Zenon, <1>1, <1>2

\* A step of the life of container c alone.
LifeMoves(c) ==
  /\ \A d \in Cid \ {c} : lives'[d] = lives[d]
  /\ \/ lives[c] = "none" /\ lives'[c] = "created"
     \/ lives[c] = "created" /\ lives'[c] = "running"
     \/ lives[c] = "running" /\ lives'[c] = "stopping"
     \/ lives[c] = "stopping" /\ lives'[c] = "exited"
     \/ lives[c] \in {"created", "exited"} /\ lives'[c] = "none"

\* It is a step of ContainerLifecycle.
LEMMA LifeMove ==
  ASSUME NEW c \in Cid, LifeMoves(c)
  PROVE  Lifecycle!Next
  <1>1. lives = [d \in Cid |-> lives[d]] /\ lives' = [d \in Cid |-> lives'[d]]
    BY Zenon DEF lives
  <1>2. lives' = [lives EXCEPT ![c] = lives'[c]]
    BY Zenon, <1>1 DEF LifeMoves
  <1>3. \/ Lifecycle!Create(c) \/ Lifecycle!Start(c) \/ Lifecycle!Stop(c)
        \/ Lifecycle!Exit(c) \/ Lifecycle!Delete(c)
    BY Zenon, <1>2 DEF LifeMoves, Lifecycle!Create, Lifecycle!Start, Lifecycle!Stop,
                          Lifecycle!Exit, Lifecycle!Delete, Lifecycle!Move
  <1> QED  BY Zenon, <1>3 DEF Lifecycle!Next

\* create_container begins a life.
LEMMA LifeCreate ==
  ASSUME TypeInv, CleanupInv, Plain, setting' = setting, NEW c \in Cid, CreateContainer(c)
  PROVE  LifeMoves(c)
  <1>1. PICK r \in Ref : /\ NewProcess(r, c, InitId, RefsOf(procs[c]))
                         /\ procs' = [procs EXCEPT ![c] = [NoProcs EXCEPT ![InitId] = r]]
    BY Zenon DEF CreateContainer
  <1>2. procs'[c][InitId] = r /\ \A d \in Cid \ {c} : procs'[d] = procs[d]
    BY Zenon, <1>1, ExecIsNotInit DEF NoProcs, TypeInv, TypeOK
  <1>3. /\ status'[r] = "Created" /\ code'[r] = "unset"
        /\ \A x \in Ref \ {r} : status'[x] = status[x] /\ code'[x] = code[x] /\ cleaned'[x] = cleaned[x]
    BY Zenon, <1>1 DEF NewProcess, TypeInv, TypeOK
  <1>4. ~Registered(c) /\ r # NoRef
    BY Zenon, DisciplinedIsFresh, ConstantsAssumption DEF CreateContainer, Plain
  <1>5. lives[c] = "none" /\ lives'[c] = "created"
    BY SMTT(30), <1>2, <1>3, <1>4, LifeOf, Stages
  <1>6. ASSUME NEW d \in Cid \ {c} PROVE lives'[d] = lives[d]
    <2>1. Registered(d) => procs[d][InitId] \in Ref \ {r}
      BY Zenon, <1>1, FreeSlot, InitRef, ExecIsNotInit DEF NewProcess
    <2> QED  BY Zenon, <1>2, <1>3, <2>1, LifeKept
  <1> QED  BY Zenon, <1>5, <1>6 DEF LifeMoves

\* delete_process ends one, of a container that was not started or has its exit code.
LEMMA LifeDelete ==
  ASSUME TypeInv, CleanupInv, PlainInv, Plain, setting' = setting, NEW c \in Cid, DeleteContainer(c)
  PROVE  LifeMoves(c)
  <1>1. /\ procs'[c][InitId] = NoRef /\ \A d \in Cid \ {c} : procs'[d] = procs[d]
        /\ UNCHANGED <<status, code, cleaned>>
    BY Zenon, ExecIsNotInit DEF DeleteContainer, NoProcs, TypeInv, TypeOK
  <1>2. ASSUME NEW d \in Cid \ {c} PROVE lives'[d] = lives[d]
    BY Zenon, <1>1, LifeKept
  <1>3. /\ Registered(c) /\ InitPlain(procs[c][InitId])
        /\ Status(c, InitId) \in {"Created", "Stopped"}
        /\ \A t \in Thread : pc[t] # "record"
    BY Zenon DEF DeleteContainer, WriteLockFree, Plain, PlainInv
  <1>4. lives[c] \in {"created", "exited"}
    BY SMTT(30), <1>3, LifeOf, Stages DEF InitPlain, Status
  <1>5. lives'[c] = "none"
    BY Zenon, <1>1, LifeOf
  <1> QED  BY Zenon, <1>2, <1>4, <1>5 DEF LifeMoves

\* A step that changes only the init process r of container c moves the life of c alone.
LEMMA LifeOfOne ==
  ASSUME TypeInv, CleanupInv, Plain, setting' = setting, NEW c \in Cid, Registered(c),
         UNCHANGED procs,
         \A r \in Ref : key[r][2] = InitId /\ r # procs[c][InitId] =>
           status'[r] = status[r] /\ code'[r] = code[r] /\ cleaned'[r] = cleaned[r]
  PROVE  \A d \in Cid \ {c} : lives'[d] = lives[d]
  <1> SUFFICES ASSUME NEW d \in Cid \ {c} PROVE lives'[d] = lives[d]
    BY Zenon
  <1>1. Registered(d) => /\ procs[d][InitId] \in Ref /\ key[procs[d][InitId]][2] = InitId
                         /\ procs[d][InitId] # procs[c][InitId]
    BY SMTT(30), OtherInit, InitRef
  <1> QED  BY Zenon, <1>1, LifeKept

\* start_process of the init process starts it.
LEMMA LifeStart ==
  ASSUME TypeInv, CleanupInv, PlainInv, Plain, setting' = setting, NEW c \in Cid, StartContainer(c)
  PROVE  LifeMoves(c)
  <1> DEFINE r == procs[c][InitId]
  <1>1. Registered(c) /\ r \in Ref /\ InitPlain(r) /\ status[r] = "Created" /\ r # NoRef
    BY Zenon, InitRef, ConstantsAssumption DEF StartContainer, InnerFree, Status, Plain, PlainInv
  <1>2. /\ UNCHANGED <<procs, code, cleaned>> /\ status'[r] = "Running"
        /\ \A x \in Ref \ {r} : status'[x] = status[x]
    BY Zenon, <1>1 DEF StartContainer, TypeInv, TypeOK
  <1>3. code[r] = "unset"
    BY Zenon, <1>1 DEF InitPlain
  <1>4. lives[c] = "created" /\ lives'[c] = "running"
    BY SMTT(30), <1>1, <1>2, <1>3, LifeOf, Stages DEF Status
  <1>5. \A d \in Cid \ {c} : lives'[d] = lives[d]
    BY Zenon, <1>1, <1>2, LifeOfOne
  <1> QED  BY Zenon, <1>4, <1>5 DEF LifeMoves

\* The wait thread of an init process stops it.
LEMMA LifeStop ==
  ASSUME TypeInv, CleanupInv, OwnInv, PlainInv, Plain, setting' = setting,
         NEW t \in Thread, StopStep(t), TEid(t) = InitId
  PROVE  LifeMoves(TCid(t))
  <1>1. /\ pc[t] = "stop" /\ InnerFree(TCid(t)) /\ StopProcess(TCid(t), InitId)
        /\ UNCHANGED <<procs, code>> /\ TCid(t) \in Cid /\ Registered(TCid(t))
    BY Zenon, ThreadKey DEF StopStep, InnerFree
  <1>2. /\ procs[TCid(t)][InitId] = tref[t] /\ status[tref[t]] = "Running"
        /\ tref[t] \in Ref /\ tref[t] # NoRef
    BY Zenon, <1>1, PlainStopRuns, ThreadKey, ConstantsAssumption
  <1>3. /\ \A x \in Ref : x # tref[t] => status'[x] = status[x] /\ cleaned'[x] = cleaned[x]
        /\ status'[tref[t]] = "Stopped" /\ cleaned'[tref[t]] = 1
    BY SMTT(30), <1>1, <1>2, StopEffect, ExecIsNotInit DEF Status
  <1>4. code[tref[t]] = "unset"
    BY ZenonT(60), <1>1, <1>2 DEF PlainInv, InitPlain
  <1>5. lives[TCid(t)] = "running"
    BY SMTT(30), <1>1, <1>2, <1>4, LifeOf, Stages DEF Status
  <1>6. lives'[TCid(t)] = "stopping"
    BY SMTT(30), <1>1, <1>2, <1>3, <1>4, LifeOf, Stages
  <1>7. \A d \in Cid \ {TCid(t)} : lives'[d] = lives[d]
    BY Zenon, <1>1, <1>2, <1>3, LifeOfOne
  <1> QED  BY Zenon, <1>5, <1>6, <1>7 DEF LifeMoves

\* And gives it its exit code, once it is stopped and cleaned up.
LEMMA LifeRecord ==
  ASSUME TypeInv, CleanupInv, OwnInv, PlainInv, Plain, setting' = setting,
         NEW t \in Thread, Record(t), TEid(t) = InitId
  PROVE  LifeMoves(TCid(t)) \/ lives' = lives
  <1>1. /\ pc[t] = "record" /\ UNCHANGED <<procs, status, cleaned>> /\ InitThread(t)
        /\ tref[t] \in Ref /\ TCid(t) \in Cid /\ tref[t] # NoRef
    BY Zenon, ThreadKey, ConstantsAssumption DEF Record, host, InitThread
  <1>2. \A r \in Ref : code'[r] = IF r = tref[t] THEN tcode[t] ELSE code[r]
    BY Zenon DEF Record, TypeInv, TypeOK
  <1>3. procs[TCid(t)][InitId] = tref[t] /\ tcode[t] # "unset"
    BY Zenon, <1>1, ConstantsAssumption DEF OwnInv, OwnThread, Plain
  <1>4. status[tref[t]] = "Stopped" /\ cleaned[tref[t]] = 1
    BY Zenon, <1>1 DEF PlainInv
  <1>5. lives[TCid(t)] = IF code[tref[t]] = "unset" THEN "stopping" ELSE "exited"
    BY SMTT(30), <1>1, <1>3, <1>4, LifeOf, Stages DEF Registered, Status
  <1>6. lives'[TCid(t)] = "exited"
    BY SMTT(30), <1>1, <1>2, <1>3, <1>4, LifeOf, Stages
  <1>7. \A d \in Cid \ {TCid(t)} : lives'[d] = lives[d]
    BY Zenon, <1>1, <1>2, <1>3, LifeOfOne DEF Registered
  <1>8. CASE code[tref[t]] = "unset"
    BY Zenon, <1>5, <1>6, <1>7, <1>8 DEF LifeMoves
  <1>9. CASE code[tref[t]] # "unset"
    <2>1. \A d \in Cid : lives'[d] = lives[d]
      BY Zenon, <1>5, <1>6, <1>7, <1>9
    <2>2. lives = [d \in Cid |-> lives[d]] /\ lives' = [d \in Cid |-> lives'[d]]
      BY Zenon DEF lives
    <2> QED  BY Zenon, <2>1, <2>2
  <1> QED  BY Zenon, <1>8, <1>9

\* Every step of such a client's system is a step of ContainerLifecycle, or none.
LEMMA LifeStep ==
  ASSUME TypeInv, CleanupInv, OwnInv, PlainInv, Plain, [Next]_vars
  PROVE  Lifecycle!Next \/ lives' = lives
  <1> DEFINE Goal == Lifecycle!Next \/ lives' = lives
  <1> SUFFICES Goal
    BY Zenon
  <1>s. setting' = setting
    BY Zenon DEF Next, vars
  <1>i. InitId \in AllEid
    BY Zenon, ExecIsNotInit
  <1>d. Disciplined /\ ~MayPause
    BY Zenon DEF Plain
  <1>y. /\ procs \in [Cid -> [AllEid -> RefOrNone]]
        /\ status \in [Ref -> ProcessStatus] /\ code \in [Ref -> Code]
    BY Zenon DEF TypeInv, TypeOK
  <1>l. /\ \A c \in Cid : lock[c] = "free"
        /\ \A c \in Cid : Registered(c) => Status(c, InitId) # "Paused"
    BY Zenon, InitRef DEF PlainInv, Status
  <1>q. ASSUME LifeQuiet PROVE Goal
    BY Zenon, <1>q, LifeStutters
  <1>u. ASSUME UNCHANGED <<procs, status, code, cleaned>> PROVE Goal
    BY Zenon, <1>q, <1>s, <1>u DEF LifeQuiet
  <1>m. ASSUME NEW c \in Cid, LifeMoves(c) PROVE Goal
    BY Zenon, <1>m, LifeMove
  <1> HIDE DEF Goal
  <1>x. ASSUME NEW c \in Cid, NEW e \in Eid
        PROVE  \A r \in Ref : key[r][2] = InitId => r # procs[c][e]
    BY Zenon, ExecRef, ConstantsAssumption
  <1>0. CASE UNCHANGED vars
    BY Zenon, <1>0, <1>u DEF vars, state, host
  <1>1. ASSUME NEW c \in Cid, CreateContainer(c) PROVE Goal
    BY Zenon, <1>1, <1>s, <1>m, LifeCreate
  <1>2. ASSUME NEW c \in Cid, CreateFails(c) PROVE Goal
    BY Zenon, <1>2, <1>u DEF CreateFails
  <1>3. ASSUME NEW c \in Cid, StartContainer(c) PROVE Goal
    BY Zenon, <1>3, <1>s, <1>m, LifeStart
  <1>4. ASSUME NEW c \in Cid, StartContainerFails(c) PROVE Goal
    <2>1. UNCHANGED <<status, cleaned>>
      BY Zenon, <1>4, <1>d, <1>i, StopEffect DEF StartContainerFails
    <2> QED  BY Zenon, <1>4, <1>u, <2>1 DEF StartContainerFails, host
  <1>5. ASSUME NEW c \in Cid, StartContainerTimesOut(c) PROVE Goal
    BY Zenon, <1>5, <1>u DEF StartContainerTimesOut, host
  <1>6. ASSUME NEW c \in Cid, PauseBegin(c) PROVE Goal
    BY Zenon, <1>6, <1>u DEF PauseBegin
  <1>7. ASSUME NEW c \in Cid, PauseEnd(c) PROVE Goal
    BY Zenon, <1>7, <1>l DEF PauseEnd
  <1>8. ASSUME NEW c \in Cid, ResumeBegin(c) PROVE Goal
    BY Zenon, <1>8, <1>u DEF ResumeBegin
  <1>9. ASSUME NEW c \in Cid, ResumeEnd(c) PROVE Goal
    BY Zenon, <1>9, <1>l DEF ResumeEnd
  <1>10. ASSUME NEW c \in Cid, UpdateContainer(c) PROVE Goal
    BY Zenon, <1>10, <1>u DEF UpdateContainer
  <1>11. ASSUME NEW c \in Cid, DeleteContainer(c) PROVE Goal
    BY Zenon, <1>11, <1>s, <1>m, LifeDelete
  <1>12. ASSUME NEW c \in Cid, NEW e \in Eid, ExecProcess(c, e) PROVE Goal
    <2>1. PICK r \in Ref : /\ NewProcess(r, c, e, {procs[c][e]})
                           /\ procs' = [procs EXCEPT ![c][e] = r]
      BY Zenon, <1>12 DEF ExecProcess
    <2>2. ASSUME NEW d \in Cid PROVE lives'[d] = lives[d]
      <3>1. procs'[d][InitId] = procs[d][InitId]
        BY Zenon, <1>i, <1>y, <2>1, ExecIsNotInit
      <3>2. Registered(d) => /\ procs[d][InitId] \in Ref /\ key[procs[d][InitId]][2] = InitId
                             /\ procs[d][InitId] # r
        BY SMTT(30), <1>i, <2>1, FreeSlot, InitRef DEF NewProcess
      <3>3. \A x \in Ref \ {r} :
              status'[x] = status[x] /\ code'[x] = code[x] /\ cleaned'[x] = cleaned[x]
        BY Zenon, <2>1 DEF NewProcess, TypeInv, TypeOK
      <3> QED  BY Zenon, <1>s, <3>1, <3>2, <3>3, LifeKept
    <2>3. lives = [d \in Cid |-> lives[d]] /\ lives' = [d \in Cid |-> lives'[d]]
      BY Zenon DEF lives
    <2> QED  BY Zenon, <2>2, <2>3 DEF Goal
  <1>13. ASSUME NEW c \in Cid, NEW e \in Eid, DeleteExec(c, e) PROVE Goal
    <2>1. \A d \in Cid : procs'[d][InitId] = procs[d][InitId]
      BY Zenon, <1>13, <1>i, <1>y, ExecIsNotInit DEF DeleteExec
    <2> QED  BY Zenon, <1>13, <1>q, <1>s, <2>1 DEF DeleteExec, LifeQuiet
  <1>14. ASSUME NEW c \in Cid, NEW e \in Eid, StartExec(c, e) PROVE Goal
    <2>1. UNCHANGED <<procs, code, cleaned>> /\ status' = [status EXCEPT ![procs[c][e]] = "Running"]
      BY Zenon, <1>14 DEF StartExec
    <2>2. \A r \in Ref : key[r][2] = InitId => r # procs[c][e]
      BY Zenon, <1>x
    <2> QED  BY Zenon, <1>q, <1>s, <1>y, <2>1, <2>2 DEF LifeQuiet
  <1>z. ASSUME NEW c \in Cid, NEW e \in Eid, InnerFree(c), StopProcess(c, e), UNCHANGED <<procs, code>>
        PROVE  Goal
    <2>1. /\ cleaned' = cleaned
          /\ \A r \in Ref : r # procs[c][e] => status'[r] = status[r]
      BY Zenon, <1>z, StopEffect, ExecIsNotInit
    <2>2. \A r \in Ref : key[r][2] = InitId => r # procs[c][e]
      BY Zenon, <1>x
    <2> QED  BY Zenon, <1>q, <1>s, <1>z, <2>1, <2>2 DEF LifeQuiet
  <1>15. ASSUME NEW c \in Cid, NEW e \in Eid, StartExecFails(c, e) PROVE Goal
    BY Zenon, <1>15, <1>z DEF StartExecFails, host
  <1>16. ASSUME NEW c \in Cid, NEW e \in Eid, StartExecTimesOut(c, e) PROVE Goal
    <2>1. /\ UNCHANGED <<procs, code, cleaned>>
          /\ status' = [status EXCEPT ![procs[c][e]] = "Stopped"] \/ status' = status
      BY Zenon, <1>16 DEF StartExecTimesOut, host
    <2>2. \A r \in Ref : key[r][2] = InitId => r # procs[c][e]
      BY Zenon, <1>x
    <2> QED  BY Zenon, <1>q, <1>s, <1>y, <2>1, <2>2 DEF LifeQuiet
  <1>17. ASSUME NEW c \in Cid, NEW e \in AllEid, NEW term \in BOOLEAN, KillProcess(c, e, term) PROVE Goal
    BY Zenon, <1>17, <1>u DEF KillProcess, host
  <1>18. ASSUME NEW c \in Cid, NEW e \in AllEid, ProcessExit(c, e) PROVE Goal
    BY Zenon, <1>18, <1>u DEF ProcessExit, host
  <1>19. ASSUME NEW w \in Waiter, NEW c \in Cid, NEW e \in AllEid, WaitBegin(w, c, e) PROVE Goal
    BY Zenon, <1>19, <1>u DEF WaitBegin
  <1>20. ASSUME NEW w \in Waiter, WaitReturn(w) PROVE Goal
    BY Zenon, <1>20, <1>u DEF WaitReturn
  <1>21. ASSUME NEW t \in Thread, IoEnd(t) PROVE Goal
    BY Zenon, <1>21, <1>u DEF IoEnd, host
  <1>22. ASSUME NEW t \in Thread, WaitSent(t) PROVE Goal
    BY Zenon, <1>22, <1>u DEF WaitSent, host
  <1>23. ASSUME NEW t \in Thread, WaitOk(t) PROVE Goal
    BY Zenon, <1>23, <1>u DEF WaitOk, host
  <1>24. ASSUME NEW t \in Thread, WaitFails(t) PROVE Goal
    BY Zenon, <1>24, <1>u DEF WaitFails
  <1>25. ASSUME NEW t \in Thread, StopStep(t) PROVE Goal
    <2>1. TCid(t) \in Cid /\ TEid(t) \in AllEid
      BY Zenon, <1>25, ThreadKey DEF StopStep
    <2>2. CASE TEid(t) = InitId
      BY Zenon, <1>25, <1>s, <1>m, <2>1, <2>2, LifeStop
    <2>3. CASE TEid(t) # InitId
      <3>1. TEid(t) \in Eid
        BY Zenon, <2>1, <2>3 DEF AllEid
      <3> QED  BY Zenon, <1>25, <1>z, <2>1, <3>1 DEF StopStep
    <2> QED  BY Zenon, <2>2, <2>3
  <1>26. ASSUME NEW t \in Thread, StopMissing(t) PROVE Goal
    BY Zenon, <1>26, <1>u DEF StopMissing
  <1>27. ASSUME NEW t \in Thread, Record(t) PROVE Goal
    <2>1. pc[t] = "record" /\ UNCHANGED <<procs, status, cleaned>> /\ tref[t] \in Ref /\ TCid(t) \in Cid
      BY Zenon, <1>27, ThreadKey DEF Record, host
    <2>2. CASE TEid(t) = InitId
      <3>1. LifeMoves(TCid(t)) \/ lives' = lives
        BY Zenon, <1>27, <1>s, <2>2, LifeRecord
      <3> QED  BY Zenon, <1>m, <2>1, <3>1 DEF Goal
    <2>3. CASE TEid(t) # InitId
      <3>1. \A r \in Ref : key[r][2] = InitId => code'[r] = code[r]
        BY Zenon, <1>27, <1>y, <2>3 DEF Record, TEid
      <3> QED  BY Zenon, <1>q, <1>s, <2>1, <3>1 DEF LifeQuiet
    <2> QED  BY Zenon, <2>2, <2>3
  <1>28. ASSUME NEW t \in Thread, Publish(t) PROVE Goal
    <2>1. /\ UNCHANGED <<procs, code, cleaned>> /\ pc[t] = "publish"
          /\ \A r \in Ref : status'[r] = IF r = tref[t] THEN "Stopped" ELSE status[r]
      BY Zenon, <1>28, <1>y DEF Publish, host
    <2>2. TEid(t) = InitId => status[tref[t]] = "Stopped"
      BY Zenon, <2>1 DEF PlainInv, InitThread
    <2> QED  BY Zenon, <1>q, <1>s, <2>1, <2>2 DEF LifeQuiet, TEid
  <1>29. ASSUME NEW t \in Thread, Notify(t) PROVE Goal
    BY Zenon, <1>29, <1>u DEF Notify
  <1>30. CASE VmDies
    BY Zenon, <1>30, <1>u DEF VmDies, host
  <1> QED
    BY Zenon, <1>0, <1>1, <1>2, <1>3, <1>4, <1>5, <1>6, <1>7, <1>8, <1>9, <1>10, <1>11, <1>12, <1>13, <1>14, <1>15, <1>16, <1>17, <1>18, <1>19, <1>20, <1>21, <1>22, <1>23, <1>24, <1>25, <1>26, <1>27, <1>28, <1>29, <1>30
    DEF Next, Step, ContainerStep, ExecStep, ProcessStep, ThreadStep

\* For a disciplined client that does not pause, the container manager implements
\* ContainerLifecycle, in both io modes: a container is cleaned up once and only then gets
\* its exit code, and it is not deleted in between.
THEOREM ManagerImplementsLifecycle == Spec => ImplementsLifecycle
  <1>1. Init => Lifecycle!Init
    <2> SUFFICES ASSUME Init PROVE Lifecycle!Init
      BY Zenon
    <2>1. \A c \in Cid : ~Registered(c)
      BY Zenon, ExecIsNotInit DEF Init, NoProcs, Registered
    <2> QED  BY Zenon, <2>1 DEF Lifecycle!Init, lives
  <1>2. TypeInv /\ FreshInv /\ (Plain => PlainInv) /\ [Next]_vars => [Lifecycle!Next]_lives
    <2> SUFFICES ASSUME TypeInv, FreshInv, Plain => PlainInv, [Next]_vars
                 PROVE  [Lifecycle!Next]_lives
      BY Zenon
    <2>1. CASE Plain
      <3>1. CleanupInv /\ OwnInv
        BY Zenon, <2>1, DisciplinedIsFresh DEF FreshInv, Plain
      <3> QED  BY Zenon, <2>1, <3>1, LifeStep
    <2>2. CASE ~Plain
      <3>1. ~Plain'
        BY Zenon, <2>2, SameClient
      <3>2. lives' = lives
        BY Zenon, <2>2, <3>1 DEF lives
      <3> QED  BY Zenon, <3>2
    <2> QED  BY Zenon, <2>1, <2>2
  <1> QED  BY PlainAlways, <1>1, <1>2, PTL DEF Spec, ImplementsLifecycle, Lifecycle!Spec
=============================================================================
