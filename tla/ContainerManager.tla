-------------------------- MODULE ContainerManager --------------------------
(***************************************************************************)
(* The container manager of runtime-rs, the Rust shim on the host          *)
(* (virt_container/src/container_manager): the map of containers, the      *)
(* Process objects of a container's init process and of its execs, and the *)
(* wait thread that start_process spawns for each process it starts.       *)
(*                                                                         *)
(* What is concurrent.  An RPC handler holds the `containers` lock (write  *)
(* to create or delete a container, read otherwise) and the container's    *)
(* `inner` lock from its first to its last statement, so a handler is one  *)
(* action unless a wait thread, which writes a process's status and exit   *)
(* code WITHOUT the inner lock, can get between its reads and its writes.  *)
(* That is so for pause and resume, which are two actions each, with the   *)
(* agent call in the first.  A wait thread is one action per lock it takes *)
(* or reply it waits for.                                                  *)
(*                                                                         *)
(* The agent in the guest is the environment: per container what the agent *)
(* has of it, and per process whether it is alive.  Any call may fail, and *)
(* the VM may die at any time, after which every call fails.               *)
(***************************************************************************)
EXTENDS Naturals

CONSTANTS
  Cid,          \* container ids
  Eid,          \* exec ids
  InitId,       \* the empty exec id, which names a container's init process
  Ref,          \* references to Process objects, reused once unreachable
  NoRef,
  Thread,       \* wait threads, reused once they have ended
  Waiter,       \* clients blocked in a Wait request
  Settings      \* the situations looked at, one of which a behaviour is in

\* passfd: the hypervisor offers a passfd listener (passfd io mode); client: it starts,
\* creates and deletes as containerd does (disciplined), or calls in any order but creates
\* no container under an id in use (fresh), or calls in any order; pause: it uses Pause
\* and Resume; cids, eids: the ids it uses; refs: the Process objects there can be at once.
Setting ==
  [passfd : BOOLEAN, client : {"disciplined", "fresh", "any"}, pause : BOOLEAN,
   cids : SUBSET Cid, eids : SUBSET Eid, refs : SUBSET Ref]

ASSUME ConstantsAssumption ==
  /\ Cid # {}
  /\ InitId \notin Eid
  /\ NoRef \notin Ref
  /\ Ref \cap {"unset", "unknown"} = {}
  /\ Settings \subseteq Setting

AllEid == Eid \cup {InitId}

VARIABLES
  setting,   \* the situation
  procs,     \* [Cid -> [AllEid -> Ref or NoRef]]: the containers map, and in each
             \* container init_process and exec_processes; c is a key of the map
             \* iff procs[c][InitId] # NoRef
  key,       \* [Ref -> <<cid, eid>>]: Process.process
  status,    \* [Ref -> ProcessStatus]: Process.status
  code,      \* [Ref -> exit code]: Process.exit_status
  notifier,  \* [Ref -> where exit_watcher_tx is]
  cleaned,   \* [Ref -> 0..MaxCleaned]: how often cleanup_container ran for this init process
  lock,      \* [Cid -> who holds inner across an agent call]
  pc, tref, tcode, holds,  \* the wait threads: step, Process, exit code (while
             \* blocked: the guest process waited for), those owning a notifier
  waiting,   \* [Waiter -> Ref or NoRef]: whose exit watcher a Wait request polls
  res,       \* containers with an entry in the resource manager's cpu/memory sum
  vmUp, gctr, gproc, galive  \* the guest: VM, containers, processes, live processes

host    == <<procs, key, notifier, lock, waiting, res>>
threads == <<pc, tref, tcode, holds>>
guest   == <<vmUp, gctr, gproc, galive>>
state   == <<host, status, code, cleaned, threads, guest>>
vars    == <<setting, state>>

PassFd      == setting.passfd
Disciplined == setting.client = "disciplined"
Fresh       == setting.client # "any"
MayPause    == setting.pause

ProcessStatus == {"Created", "Running", "Paused", "Stopped"}
NotifierPlace == {"process", "thread", "closed", "discarded"}  \* a closed one has
             \* been with a wait thread, a discarded one has not
GuestState    == {"none", "created", "running", "paused"}
RefOrNone == Ref \cup {NoRef}
Code      == Ref \cup {"unset", "unknown"}   \* a process's own exit code is its Ref
MaxCleaned == 2   \* cleanups are counted up to this, which is once too often
PCs       == {"idle", "io", "wait", "blocked", "stop", "record", "publish", "notify"}

\* A type invariant: the range of each variable.
TypeOK ==
  /\ setting \in Settings
  /\ procs \in [Cid -> [AllEid -> RefOrNone]]
  /\ key \in [Ref -> Cid \X AllEid]
  /\ status \in [Ref -> ProcessStatus]
  /\ code \in [Ref -> Code]
  /\ notifier \in [Ref -> NotifierPlace]
  /\ cleaned \in [Ref -> 0..MaxCleaned]
  /\ lock \in [Cid -> {"free", "pause", "resume"}]
  /\ pc \in [Thread -> PCs]
  /\ tref \in [Thread -> RefOrNone]
  /\ tcode \in [Thread -> Code]
  /\ holds \subseteq Thread
  /\ waiting \in [Waiter -> RefOrNone]
  /\ res \subseteq Cid
  /\ vmUp \in BOOLEAN
  /\ gctr \in [Cid -> GuestState]
  /\ gproc \in [Cid -> [AllEid -> RefOrNone]]
  /\ galive \subseteq Ref

NoProcs == [e \in AllEid |-> NoRef]

Init ==
  /\ setting \in Settings
  /\ procs = [c \in Cid |-> NoProcs]
  /\ key = [r \in Ref |-> <<CHOOSE c \in Cid : TRUE, InitId>>]  \* unused
  /\ status = [r \in Ref |-> "Stopped"]
  /\ code = [r \in Ref |-> "unset"]
  /\ notifier = [r \in Ref |-> "discarded"]
  /\ cleaned = [r \in Ref |-> 0]
  /\ lock = [c \in Cid |-> "free"]
  /\ pc = [t \in Thread |-> "idle"]
  /\ tref = [t \in Thread |-> NoRef]
  /\ tcode = [t \in Thread |-> "unset"]
  /\ holds = {}
  /\ waiting = [w \in Waiter |-> NoRef]
  /\ res = {}
  /\ vmUp = TRUE
  /\ gctr = [c \in Cid |-> "none"]
  /\ gproc = [c \in Cid |-> NoProcs]
  /\ galive = {}
-----------------------------------------------------------------------------
RefsOf(ps)    == {ps[e] : e \in AllEid} \ {NoRef}
Registered(c) == procs[c][InitId] # NoRef
Status(c, e)  == status[procs[c][e]]

\* A Process object nobody refers to any more: its memory has been freed.
Free(r) ==
  /\ \A c \in Cid : r \notin RefsOf(procs[c]) \cup RefsOf(gproc[c])
  /\ \A t \in Thread : r \notin {tref[t], tcode[t]}
  /\ \A w \in Waiter : waiting[w] # r

\* The inner lock of a registered container is free.
InnerFree(c) == Registered(c) /\ lock[c] = "free"

\* Mutant: the wait thread drops its containers.read() after stop_process.
WriteLockFreeEarly == \A c \in Cid : lock[c] = "free"

\* containers.write() is granted: no handler and no wait thread holds it for reading.
WriteLockFree ==
  /\ \A c \in Cid : lock[c] = "free"
  /\ \A t \in Thread : pc[t] \notin {"record", "publish", "notify"}

\* The notifiers after the Process objects in S are dropped: one that was never
\* handed to a wait thread is dropped with its object, which wakes the waiters.
Discard(S) ==
  [r \in Ref |-> IF r \in S /\ notifier[r] = "process" THEN "discarded" ELSE notifier[r]]

\* Process::new for container c and exec id e, while the objects in S are dropped.
NewProcess(r, c, e, S) ==
  /\ Free(r) /\ r \in setting.refs
  /\ key' = [key EXCEPT ![r] = <<c, e>>]
  /\ status' = [status EXCEPT ![r] = "Created"]
  /\ code' = [code EXCEPT ![r] = "unset"]
  /\ notifier' = [Discard(S) EXCEPT ![r] = "process"]
  /\ cleaned' = [cleaned EXCEPT ![r] = 0]
-----------------------------------------------------------------------------
(* The agent, as the calls of this component see it.                       *)

\* remove_container succeeded: the agent killed and forgot everything of c.
GuestGone(c) ==
  /\ gctr' = [gctr EXCEPT ![c] = "none"]
  /\ gproc' = [gproc EXCEPT ![c] = NoProcs]
  /\ galive' = galive \ RefsOf(gproc[c])
  /\ UNCHANGED vmUp

\* The guest processes SIGKILL terminates: a signal for the init process goes to
\* every process of the container.
Victims(c, e) == IF e = InitId THEN RefsOf(gproc[c]) ELSE {gproc[c][e]}

KillGuest(S) == galive' = galive \ S /\ UNCHANGED <<vmUp, gctr, gproc>>

\* signal_process(SIGKILL), with or without success.
Sigkill(c, e) == \E S \in {{}, Victims(c, e)} : KillGuest(S)

\* A process ends by itself.  The init process runs only once the container is
\* started; a frozen process does not move.  When the init process ends, the
\* others of its container end with it unless they have another pid namespace.
ProcessExit(c, e) ==
  /\ gproc[c][e] \in galive
  /\ gctr[c] \in IF e = InitId THEN {"running"} ELSE {"created", "running"}
  /\ \E S \in {{gproc[c][e]}, Victims(c, e)} : KillGuest(S)
  /\ UNCHANGED <<host, status, code, cleaned, threads>>

VmDies ==
  /\ vmUp
  /\ vmUp' = FALSE
  /\ galive' = {}
  /\ UNCHANGED <<host, status, code, cleaned, threads, gctr, gproc>>
-----------------------------------------------------------------------------
(* ContainerInner::stop_process(force = true) on process e of container c. *)

\* It returns Ok: at once when the init process is Stopped already; otherwise
\* check_state wants Running, and an exec has to be in exec_processes.
StopOk(c, e) ==
  \/ Status(c, InitId) = "Stopped"
  \/ Status(c, InitId) = "Running" /\ procs[c][e] # NoRef

\* cleanup_container has run once more.
OnceMore(n) == IF n < MaxCleaned THEN n + 1 ELSE n

\* Mutant: without the early return for a container that is Stopped already.
StopProcessAgain(c, e) ==
  /\ status' = [status EXCEPT ![procs[c][e]] = "Stopped"]
  /\ cleaned' = [cleaned EXCEPT ![procs[c][e]] = OnceMore(@)]
  /\ \/ vmUp /\ GuestGone(c)
     \/ Sigkill(c, e)

\* Mutant: stopping an exec marks the container Stopped, too.
StopProcessAll(c, e) ==
  \/ /\ Status(c, InitId) # "Running"
     /\ UNCHANGED <<status, cleaned, guest>>
  \/ /\ Status(c, InitId) = "Running"
     /\ status' = [r \in Ref |-> IF r \in {procs[c][e], procs[c][InitId]}
                                THEN "Stopped" ELSE status[r]]
     /\ cleaned' = [cleaned EXCEPT ![procs[c][e]] = OnceMore(@)]
     /\ \/ e = InitId /\ vmUp /\ GuestGone(c)
        \/ Sigkill(c, e)

\* Kill it and, for the init process, cleanup_container: agent.remove_container
\* (whose failure is ignored), status Stopped, volumes and rootfs cleaned.
StopProcess(c, e) ==
  \/ /\ Status(c, InitId) # "Running"
     /\ UNCHANGED <<status, cleaned, guest>>
  \/ /\ Status(c, InitId) = "Running" /\ e = InitId
     /\ status' = [status EXCEPT ![procs[c][e]] = "Stopped"]
     /\ cleaned' = [cleaned EXCEPT ![procs[c][e]] = OnceMore(@)]
     /\ \/ vmUp /\ GuestGone(c)
        \/ Sigkill(c, e)
  \/ /\ Status(c, InitId) = "Running" /\ e # InitId
     /\ status' = [r \in Ref |-> IF r = procs[c][e] THEN "Stopped" ELSE status[r]]
     /\ Sigkill(c, e)
     /\ UNCHANGED cleaned
-----------------------------------------------------------------------------
(* Requests of the client.                                                 *)

\* create_container: Container::create succeeds in the agent, which has no such
\* container (a second one stumbles over the first one's exec fifo).
CreateContainer(c) ==
  /\ WriteLockFree /\ c \in setting.cids
  /\ Fresh => ~Registered(c)
  /\ vmUp /\ gctr[c] = "none"
  /\ \E r \in Ref :
       /\ NewProcess(r, c, InitId, RefsOf(procs[c]))
       /\ procs' = [procs EXCEPT ![c] = [NoProcs EXCEPT ![InitId] = r]]
       /\ gproc' = [gproc EXCEPT ![c] = [NoProcs EXCEPT ![InitId] = r]]
       /\ galive' = galive \cup {r}
  /\ gctr' = [gctr EXCEPT ![c] = "created"]
  /\ res' = res \cup {c}
  /\ UNCHANGED <<lock, waiting, threads, vmUp>>

\* The agent has created the container, but its reply was lost, and so was the
\* remove_container that followed, whose failure force mode ignores.  The Process object
\* is dropped, and the guest's process is all that is left of it.
GuestLeftOver(c) ==
  /\ vmUp /\ gctr[c] = "none"
  /\ \E r \in setting.refs :
       /\ Free(r)
       /\ gproc' = [gproc EXCEPT ![c] = [NoProcs EXCEPT ![InitId] = r]]
       /\ galive' = galive \cup {r}
  /\ gctr' = [gctr EXCEPT ![c] = "created"]
  /\ UNCHANGED vmUp

\* create_container: Container::create fails, before or after it has entered the
\* container in the resource sums; cleanup removes what the agent has under this
\* id, unless that fails, too, and the sums keep their entry.
CreateFails(c) ==
  /\ WriteLockFree /\ c \in setting.cids
  /\ Fresh => ~Registered(c)
  /\ \/ vmUp /\ GuestGone(c) /\ res' \in {res, res \cup {c}}
     \/ UNCHANGED guest /\ res' \in {res, res \cup {c}}
     \/ GuestLeftOver(c) /\ res' = res \cup {c}
  /\ UNCHANGED <<procs, key, notifier, lock, waiting, status, code, cleaned, threads>>

\* Mutant: the exec is entered under the container's id, not under its own.
ExecProcessByCid(c, e) ==
  /\ InnerFree(c) /\ e \in setting.eids
  /\ Disciplined => procs[c][e] = NoRef
  /\ \E r \in Ref :
       /\ NewProcess(r, c, e, {})
       /\ procs' = [procs EXCEPT ![c] =
                      [x \in AllEid \cup {c} |-> IF x = c THEN r ELSE procs[c][x]]]
  /\ UNCHANGED <<lock, waiting, res, threads, guest>>

\* exec_process: a new Process in exec_processes; one with the same id is dropped.
ExecProcess(c, e) ==
  /\ InnerFree(c) /\ e \in setting.eids
  /\ Disciplined => procs[c][e] = NoRef
  /\ \E r \in Ref :
       /\ NewProcess(r, c, e, {procs[c][e]})
       /\ procs' = [procs EXCEPT ![c][e] = r]
  /\ UNCHANGED <<lock, waiting, res, threads, guest>>

\* passfd_io_wait or run_io_wait: spawn the thread, which takes exit_watcher_tx
\* if it is still in the Process.
SpawnWait(r) ==
  \E t \in Thread :
    /\ pc[t] = "idle"
    /\ pc' = [pc EXCEPT ![t] = IF PassFd THEN "wait" ELSE "io"]
    /\ tref' = [tref EXCEPT ![t] = r]
    /\ holds' = IF notifier[r] = "process" THEN holds \cup {t} ELSE holds
    /\ notifier' = [notifier EXCEPT ![r] = IF @ = "process" THEN "thread" ELSE @]
    /\ UNCHANGED tcode

\* The tail of start: the wait thread, unless setting up the io fails first, in
\* which case the process runs on and nobody waits for it.
StartIo(r, mayFail) ==
  \/ SpawnWait(r)
  \/ mayFail /\ UNCHANGED <<threads, notifier>>

\* start_process of the init process, accepted by the agent.
StartContainer(c) ==
  /\ InnerFree(c)
  /\ Status(c, InitId) \in {"Created", "Stopped"}
  /\ Disciplined => Status(c, InitId) = "Created"
  /\ vmUp /\ gctr[c] = "created"
  /\ gctr' = [gctr EXCEPT ![c] = "running"]
  /\ status' = [status EXCEPT ![procs[c][InitId]] = "Running"]
  /\ StartIo(procs[c][InitId], ~PassFd)
  /\ UNCHANGED <<procs, key, lock, waiting, res, code, cleaned, vmUp, gproc, galive>>

\* start_process of the init process, applied by the agent and timed out: the
\* stop_process that follows finds the container not Running.
StartContainerTimesOut(c) ==
  /\ InnerFree(c)
  /\ Status(c, InitId) \in {"Created", "Stopped"}
  /\ Disciplined => Status(c, InitId) = "Created"
  /\ vmUp /\ gctr[c] = "created"
  /\ gctr' = [gctr EXCEPT ![c] = "running"]
  /\ UNCHANGED <<host, status, code, cleaned, threads, vmUp, gproc, galive>>

\* start_process of the init process in the wrong state or refused by the agent:
\* stop_process, and the error returned.
StartContainerFails(c) ==
  /\ InnerFree(c)
  /\ Disciplined => Status(c, InitId) = "Created"
  /\ StopProcess(c, InitId)
  /\ UNCHANGED <<host, code, threads>>

\* start_process of an exec, accepted by the agent, which has none of this id.
StartExec(c, e) ==
  /\ InnerFree(c) /\ procs[c][e] # NoRef
  /\ Disciplined => Status(c, e) = "Created"
  /\ vmUp /\ gctr[c] # "none" /\ gproc[c][e] = NoRef
  /\ gproc' = [gproc EXCEPT ![c][e] = procs[c][e]]
  /\ galive' = galive \cup {procs[c][e]}
  /\ status' = [status EXCEPT ![procs[c][e]] = "Running"]
  /\ StartIo(procs[c][e], TRUE)
  /\ UNCHANGED <<procs, key, lock, waiting, res, code, cleaned, vmUp, gctr>>

\* start_process of an exec, applied by the agent and timed out: stop_process,
\* which kills it if the container is Running.
StartExecTimesOut(c, e) ==
  /\ InnerFree(c) /\ procs[c][e] # NoRef
  /\ Disciplined => Status(c, e) = "Created"
  /\ vmUp /\ gctr[c] # "none" /\ gproc[c][e] = NoRef
  /\ gproc' = [gproc EXCEPT ![c][e] = procs[c][e]]
  /\ IF Status(c, InitId) = "Running"
     THEN /\ status' = [status EXCEPT ![procs[c][e]] = "Stopped"]
          /\ galive' \in {galive, galive \cup {procs[c][e]}}
     ELSE /\ galive' = galive \cup {procs[c][e]}
          /\ UNCHANGED status
  /\ UNCHANGED <<host, code, cleaned, threads, vmUp, gctr>>

\* start_process of an exec, refused by the agent or unknown: stop_process.
StartExecFails(c, e) ==
  /\ InnerFree(c)
  /\ Disciplined => procs[c][e] # NoRef /\ Status(c, e) = "Created"
  /\ PassFd => procs[c][e] # NoRef
  /\ StopProcess(c, e)
  /\ UNCHANGED <<host, code, threads>>

\* kill_process with a signal that ends its targets (one that does not changes
\* nothing here; `all` signals the init process).  SIGKILL and SIGTERM spare a
\* process that is Stopped, every signal the processes of a Stopped container.
KillProcess(c, e, term) ==
  /\ InnerFree(c) /\ vmUp
  /\ Status(c, InitId) # "Stopped"
  /\ term /\ procs[c][e] # NoRef => Status(c, e) # "Stopped"
  /\ \E S \in {{gproc[c][e]}, Victims(c, e)} : KillGuest(S)
  /\ UNCHANGED <<host, status, code, cleaned, threads>>

\* pause: from reading Running to the agent's freezing the container.
PauseBegin(c) ==
  /\ MayPause /\ InnerFree(c) /\ Status(c, InitId) = "Running"
  /\ vmUp /\ gctr[c] \in {"created", "running"}
  /\ gctr' = [gctr EXCEPT ![c] = "paused"]
  /\ lock' = [lock EXCEPT ![c] = "pause"]
  /\ UNCHANGED <<procs, key, notifier, waiting, res, status, code, cleaned, threads,
                 vmUp, gproc, galive>>

\* Mutant: inner is not released.
PauseEndKeepsLock(c) ==
  /\ lock[c] = "pause"
  /\ status' = [status EXCEPT ![procs[c][InitId]] = "Paused"]
  /\ UNCHANGED <<host, code, cleaned, threads, guest>>

\* pause: set_state(Paused), unless the reply does not come, and release.
PauseEnd(c) ==
  /\ lock[c] = "pause"
  /\ status' \in {status, [status EXCEPT ![procs[c][InitId]] = "Paused"]}
  /\ lock' = [lock EXCEPT ![c] = "free"]
  /\ UNCHANGED <<procs, key, notifier, waiting, res, code, cleaned, threads, guest>>

\* resume: from reading Paused to the agent's thawing the container.
ResumeBegin(c) ==
  /\ InnerFree(c) /\ Status(c, InitId) = "Paused"
  /\ vmUp /\ gctr[c] = "paused"
  /\ gctr' = [gctr EXCEPT ![c] = "running"]
  /\ lock' = [lock EXCEPT ![c] = "resume"]
  /\ UNCHANGED <<procs, key, notifier, waiting, res, status, code, cleaned, threads,
                 vmUp, gproc, galive>>

\* resume: set_state(Running), unless the reply does not come, and release.
ResumeEnd(c) ==
  /\ lock[c] = "resume"
  /\ status' \in {status, [status EXCEPT ![procs[c][InitId]] = "Running"]}
  /\ lock' = [lock EXCEPT ![c] = "free"]
  /\ UNCHANGED <<procs, key, notifier, waiting, res, code, cleaned, threads, guest>>

\* update_container: the resource sums take the new values before the agent is
\* asked, whatever the container's state is.
UpdateContainer(c) ==
  /\ InnerFree(c)
  /\ res' = res \cup {c}
  /\ UNCHANGED <<procs, key, notifier, lock, waiting, status, code, cleaned, threads, guest>>

\* delete_process of the init process: the container leaves the map, and that is all.
DeleteContainer(c) ==
  /\ WriteLockFree /\ Registered(c)
  /\ Disciplined => Status(c, InitId) \in {"Created", "Stopped"}
  /\ procs' = [procs EXCEPT ![c] = NoProcs]
  /\ notifier' = Discard(RefsOf(procs[c]))
  /\ UNCHANGED <<key, lock, waiting, res, status, code, cleaned, threads, guest>>

\* delete_process of an exec.
DeleteExec(c, e) ==
  /\ InnerFree(c) /\ procs[c][e] # NoRef
  /\ Disciplined => Status(c, e) \in {"Created", "Stopped"}
  /\ procs' = [procs EXCEPT ![c][e] = NoRef]
  /\ notifier' = Discard({procs[c][e]})
  /\ UNCHANGED <<key, lock, waiting, res, status, code, cleaned, threads, guest>>

\* wait_process: fetch_exit_watcher under the locks, then poll it without them.
WaitBegin(w, c, e) ==
  /\ waiting[w] = NoRef /\ InnerFree(c) /\ procs[c][e] # NoRef
  /\ waiting' = [waiting EXCEPT ![w] = procs[c][e]]
  /\ UNCHANGED <<procs, key, notifier, lock, res, status, code, cleaned, threads, guest>>

\* wait_process: the sender is gone; read exit_status and reply.
WaitReturn(w) ==
  /\ waiting[w] # NoRef /\ notifier[waiting[w]] \in {"closed", "discarded"}
  /\ waiting' = [waiting EXCEPT ![w] = NoRef]
  /\ UNCHANGED <<procs, key, notifier, lock, res, status, code, cleaned, threads, guest>>
-----------------------------------------------------------------------------
(* The wait thread of a started process.                                   *)

\* Mutant: exit_notifier outlives the thread.
EndThreadKeeps(t) ==
  /\ pc' = [pc EXCEPT ![t] = "idle"]
  /\ tref' = [tref EXCEPT ![t] = NoRef]
  /\ tcode' = [tcode EXCEPT ![t] = "unset"]
  /\ UNCHANGED <<notifier, holds>>

\* The thread ends and drops exit_notifier, if it has it.
EndThread(t) ==
  /\ pc' = [pc EXCEPT ![t] = "idle"]
  /\ notifier' = [notifier EXCEPT ![tref[t]] = IF t \in holds THEN "closed" ELSE @]
  /\ holds' = holds \ {t}
  /\ tref' = [tref EXCEPT ![t] = NoRef]
  /\ tcode' = [tcode EXCEPT ![t] = "unset"]

TCid(t) == key[tref[t]][1]
TEid(t) == key[tref[t]][2]

\* The copies of stdout and stderr have ended: the process is gone, or has closed
\* them, or has none.
IoEnd(t) ==
  /\ pc[t] = "io"
  /\ pc' = [pc EXCEPT ![t] = "wait"]
  /\ UNCHANGED <<host, status, code, cleaned, tref, tcode, holds, guest>>

\* agent.wait_process reaches the agent and finds the process.
WaitSent(t) ==
  /\ pc[t] = "wait"
  /\ vmUp /\ gproc[TCid(t)][TEid(t)] # NoRef
  /\ pc' = [pc EXCEPT ![t] = "blocked"]
  /\ tcode' = [tcode EXCEPT ![t] = gproc[TCid(t)][TEid(t)]]
  /\ UNCHANGED <<host, status, code, cleaned, tref, holds, guest>>

\* agent.wait_process returns the exit code, and the agent forgets the process if
\* it still has it (the code may be taken just before a remove_container).
WaitOk(t) ==
  /\ pc[t] = "blocked" /\ vmUp /\ tcode[t] \notin galive
  /\ gproc' = [gproc EXCEPT ![TCid(t)][TEid(t)] = IF @ = tcode[t] THEN NoRef ELSE @]
  /\ pc' = [pc EXCEPT ![t] = "stop"]
  /\ UNCHANGED <<host, status, code, cleaned, tref, tcode, holds, vmUp, gctr, galive>>

\* Mutant: run_io_wait returns on an error, too.
WaitFailsReturn(t) ==
  /\ \/ pc[t] = "wait" /\ (~vmUp \/ gproc[TCid(t)][TEid(t)] = NoRef)
     \/ pc[t] = "blocked" /\ (~vmUp \/ gproc[TCid(t)][TEid(t)] # tcode[t])
  /\ EndThread(t)
  /\ UNCHANGED <<procs, key, lock, waiting, res, status, code, cleaned, guest>>

\* agent.wait_process fails: no such process, container removed meanwhile, or no
\* VM.  run_io_wait goes on with UNKNOWN_EXIT_STATUS, passfd_io_wait returns.
WaitFails(t) ==
  /\ \/ pc[t] = "wait" /\ (~vmUp \/ gproc[TCid(t)][TEid(t)] = NoRef)
     \/ pc[t] = "blocked" /\ (~vmUp \/ gproc[TCid(t)][TEid(t)] # tcode[t])
  /\ \/ PassFd /\ EndThread(t)
     \/ /\ ~PassFd
        /\ pc' = [pc EXCEPT ![t] = "stop"]
        /\ tcode' = [tcode EXCEPT ![t] = "unknown"]
        /\ UNCHANGED <<tref, holds, notifier>>
  /\ UNCHANGED <<procs, key, lock, waiting, res, status, code, cleaned, guest>>

\* Mutant: the thread returns after stop_process.
StopStepReturns(t) ==
  /\ pc[t] = "stop" /\ InnerFree(TCid(t))
  /\ StopProcess(TCid(t), TEid(t))
  /\ EndThread(t)
  /\ UNCHANGED <<procs, key, lock, waiting, res, code>>

\* containers.read() until the thread ends; Container::stop_process, which on
\* success takes the container out of the resource sums.  Its error is only logged.
StopStep(t) ==
  /\ pc[t] = "stop" /\ InnerFree(TCid(t))
  /\ StopProcess(TCid(t), TEid(t))
  /\ res' = IF TEid(t) = InitId /\ StopOk(TCid(t), InitId) THEN res \ {TCid(t)} ELSE res
  /\ pc' = [pc EXCEPT ![t] = "record"]
  /\ UNCHANGED <<procs, key, notifier, lock, waiting, code, tref, tcode, holds>>

\* The container has left the map: passfd_io_wait returns, run_io_wait goes on.
StopMissing(t) ==
  /\ pc[t] = "stop" /\ ~Registered(TCid(t))
  /\ \/ PassFd /\ EndThread(t)
     \/ /\ ~PassFd
        /\ pc' = [pc EXCEPT ![t] = "record"]
        /\ UNCHANGED <<tref, tcode, holds, notifier>>
  /\ UNCHANGED <<procs, key, lock, waiting, res, status, code, cleaned, guest>>

\* exit_status.update_exit_code.
Record(t) ==
  /\ pc[t] = "record"
  /\ code' = [code EXCEPT ![tref[t]] = tcode[t]]
  /\ pc' = [pc EXCEPT ![t] = "publish"]
  /\ UNCHANGED <<host, status, cleaned, tref, tcode, holds, guest>>

\* Mutant: the status is left to stop_process.
PublishNothing(t) ==
  /\ pc[t] = "publish"
  /\ pc' = [pc EXCEPT ![t] = "notify"]
  /\ UNCHANGED <<host, status, code, cleaned, tref, tcode, holds, guest>>

\* *status = Stopped, without the inner lock.
Publish(t) ==
  /\ pc[t] = "publish"
  /\ status' = [status EXCEPT ![tref[t]] = "Stopped"]
  /\ pc' = [pc EXCEPT ![t] = "notify"]
  /\ UNCHANGED <<host, code, cleaned, tref, tcode, holds, guest>>

\* drop(exit_notifier), and with the end of the task containers.read().
Notify(t) ==
  /\ pc[t] = "notify" /\ EndThread(t)
  /\ UNCHANGED <<procs, key, lock, waiting, res, status, code, cleaned, guest>>
-----------------------------------------------------------------------------
ContainerStep(c) ==
  \/ CreateContainer(c) \/ CreateFails(c)
  \/ StartContainer(c) \/ StartContainerFails(c) \/ StartContainerTimesOut(c)
  \/ PauseBegin(c) \/ PauseEnd(c) \/ ResumeBegin(c) \/ ResumeEnd(c)
  \/ UpdateContainer(c) \/ DeleteContainer(c)

ExecStep(c, e) ==
  \/ ExecProcess(c, e) \/ DeleteExec(c, e)
  \/ StartExec(c, e) \/ StartExecFails(c, e) \/ StartExecTimesOut(c, e)

ProcessStep(c, e) ==
  \/ \E term \in BOOLEAN : KillProcess(c, e, term)
  \/ ProcessExit(c, e)

ThreadStep(t) ==
  \/ IoEnd(t) \/ WaitSent(t) \/ WaitOk(t) \/ WaitFails(t)
  \/ StopStep(t) \/ StopMissing(t) \/ Record(t) \/ Publish(t) \/ Notify(t)

Step ==
  \/ \E c \in Cid : ContainerStep(c)
  \/ \E c \in Cid, e \in Eid : ExecStep(c, e)
  \/ \E c \in Cid, e \in AllEid : ProcessStep(c, e)
  \/ \E w \in Waiter, c \in Cid, e \in AllEid : WaitBegin(w, c, e)
  \/ \E w \in Waiter : WaitReturn(w)
  \/ \E t \in Thread : ThreadStep(t)
  \/ VmDies

Next == Step /\ UNCHANGED setting

Spec == Init /\ [][Next]_vars

(* Fairness.  The runtime polls every ready task, so a wait thread that can go on *)
(* does; tokio's RwLock queues its waiters in FIFO order, so a thread that waits  *)
(* for the inner lock gets it although pauses and resumes keep taking it (SF).    *)
(* That the io copies end is assumed once the process is gone.                    *)
FairSpec ==
  /\ Spec
  /\ \A t \in Thread :
       /\ WF_state(IoEnd(t) /\ tref[t] \notin galive)
       /\ WF_state(WaitSent(t) \/ WaitOk(t) \/ WaitFails(t))
       /\ SF_state(StopStep(t) \/ StopMissing(t))
       /\ WF_state(Record(t) \/ Publish(t) \/ Notify(t))
  /\ \A c \in Cid : WF_state(PauseEnd(c) \/ ResumeEnd(c))
  /\ \A w \in Waiter : WF_state(WaitReturn(w))
-----------------------------------------------------------------------------
(* Properties.                                                              *)

\* stop_process: "do not stop again when state stopped, may cause multi cleanup
\* resource".  Whoever stops a container (its wait thread, a failed or repeated
\* start), whatever else happens in between, cleanup_container runs at most once
\* for it, as long as nobody creates a container under its id: of such a create the
\* agent may keep a container, which a start of the Stopped one would make Running.
AtMostOnce  == \A r \in Ref : cleaned[r] <= 1
CleanupOnce == Fresh => AtMostOnce

\* Why CleanupOnce holds, in a form that every step preserves: an object is in the
\* slot its key names; what runs, is Paused, or is being paused or resumed has not
\* been cleaned up, and the agent has started it; and what has been cleaned up the
\* agent will not start again, so it cannot get back to Running, from where alone
\* stop_process cleans up.  This holds where Fresh does.
CleanupInv ==
  /\ \A c \in Cid, e \in AllEid : procs[c][e] # NoRef => key[procs[c][e]] = <<c, e>>
  /\ \A c \in Cid : lock[c] # "free" => Registered(c)
  /\ \A c \in Cid :
       Registered(c) /\ (lock[c] # "free" \/ Status(c, InitId) \in {"Running", "Paused"})
         => gctr[c] # "created" /\ cleaned[procs[c][InitId]] = 0
  /\ \A c \in Cid :
       Registered(c) /\ cleaned[procs[c][InitId]] # 0 => gctr[c] # "created"
  /\ AtMostOnce

\* wait_process, in legacy io mode: a Wait request on a process that got a wait thread
\* is answered only when the exit code is in place; the watcher is closed after it is
\* written.
WaitSeesExit ==
  [][\A w \in Waiter :
       ~PassFd /\ waiting[w] # NoRef /\ waiting'[w] = NoRef /\ notifier[waiting[w]] = "closed"
         => code[waiting[w]] # "unset"]_vars

\* Why WaitSeesExit holds in legacy io mode: from the agent's reply on the thread
\* has an exit code, it records it before it closes the watcher, and nobody resets
\* it while the object is in use.
WaitInv ==
  /\ \A t \in Thread : pc[t] \in {"blocked", "stop", "record"} => tcode[t] # "unset"
  /\ \A t \in Thread : pc[t] \in {"publish", "notify"} => code[tref[t]] # "unset"
  /\ \A r \in Ref : notifier[r] = "closed" => code[r] # "unset"

\* The exit code recorded for a container is that of its own init process, for a
\* disciplined client: the agent finds processes by id when WaitProcess arrives, and
\* ids are reused.
ExitCodeIsOwn ==
  Disciplined =>
    \A r \in Ref : key[r][2] = InitId => code[r] \in {"unset", "unknown", r}

\* A disciplined client's container is stopped by its own wait thread, never by that
\* of an earlier one of the same id: the thread looks the container up by id, after
\* the process has ended.
StopsOwnContainer ==
  Disciplined =>
    \A t \in Thread :
      pc[t] = "stop" /\ TEid(t) = InitId /\ Registered(TCid(t))
        => procs[TCid(t)][InitId] = tref[t]

\* Why these two hold, where Fresh does: the agent's init process under an id is that of
\* the container registered under it; and a disciplined client can neither start a
\* container twice nor delete it before its wait thread has stopped it and let go of the
\* map, so that the thread of an init process is the only one, and finds its own container.
InitThread(t) == pc[t] # "idle" /\ TEid(t) = InitId
OwnThread(t) ==
  /\ procs[TCid(t)][InitId] = tref[t]
  /\ status[tref[t]] # "Created"
  /\ pc[t] \in {"io", "wait", "blocked", "stop"} => status[tref[t]] # "Stopped"
  /\ pc[t] \in {"blocked", "stop", "record"} => tcode[t] \in {"unknown", tref[t]}
OwnInv ==
  /\ \A c \in Cid : Registered(c) => gproc[c][InitId] \in {NoRef, procs[c][InitId]}
  /\ Disciplined =>
       /\ \A t \in Thread : InitThread(t) => OwnThread(t)
       /\ \A t, u \in Thread : InitThread(t) /\ InitThread(u) /\ tref[t] = tref[u] => t = u
       /\ ExitCodeIsOwn

\* stop_process: "if use force mode to stop container, stop always successful".  When
\* a container's exit is made known, its guest side, volumes and rootfs have been
\* cleaned up: delete_process will not do it.
ExitCleansUp ==
  \A t \in Thread :
    pc[t] \in {"record", "publish", "notify"} /\ TEid(t) = InitId
      => cleaned[tref[t]] = 1

\* run_io_wait: "This ensures that subsequent Kill() calls see the process as
\* already stopped".  Once its wait thread has ended, a process stays Stopped.
EndedIsStopped == \A r \in Ref : notifier[r] = "closed" => status[r] = "Stopped"

\* A disciplined client that does not pause.
Plain == Disciplined /\ ~MayPause

\* For such a client force mode does stop and clean up.
PlainExitCleansUp == Plain => ExitCleansUp

\* And in legacy io mode what has ended stays Stopped.
PlainEndedIsStopped == Plain /\ ~PassFd => EndedIsStopped

\* Why these hold for it: nothing is Paused, so a container that was started is Running
\* until its thread stops it and cleans it up; from then on it is Stopped, and either has
\* its exit code or a thread about to record it.
InitPlain(r) ==
  /\ status[r] = "Stopped" => cleaned[r] = 1
  /\ status[r] # "Stopped" => code[r] = "unset"
  /\ status[r] = "Stopped" /\ code[r] = "unset" =>
       \E t \in Thread : pc[t] = "record" /\ tref[t] = r
PlainInv ==
  /\ \A c \in Cid : lock[c] = "free"
  /\ \A r \in Ref : status[r] # "Paused"
  /\ \A c \in Cid : Registered(c) => InitPlain(procs[c][InitId])
  /\ \A t \in Thread : InitThread(t) /\ pc[t] \in {"record", "publish", "notify"} =>
       status[tref[t]] = "Stopped" /\ cleaned[tref[t]] = 1
  /\ ~PassFd =>
       /\ \A t \in Thread : pc[t] = "notify" => status[tref[t]] = "Stopped"
       /\ EndedIsStopped

\* The lives of the containers in the terms of ContainerLifecycle.  One that is Paused,
\* or has ended without having been cleaned up, is in none of its stages.
StageOf(s, k, n) ==
  CASE s = "Created" /\ k = "unset" -> "created"
    [] s = "Running" /\ k = "unset" -> "running"
    [] s = "Stopped" /\ n = 1 -> IF k = "unset" THEN "stopping" ELSE "exited"
    [] OTHER -> "astray"

lives ==
  [c \in Cid |->
     IF Plain /\ Registered(c)
     THEN LET r == procs[c][InitId] IN StageOf(status[r], code[r], cleaned[r])
     ELSE "none"]

Lifecycle == INSTANCE ContainerLifecycle WITH life <- lives

\* For a disciplined client that does not pause the manager implements
\* ContainerLifecycle: stop and cleanup, record the exit code, allow the delete, in
\* this order, although the wait thread writes without the container's lock.
ImplementsLifecycle == Lifecycle!Spec

\* The same with the promise that every container being stopped gets its exit code.
ImplementsFairLifecycle == Lifecycle!FairSpec

\* A Wait request on a started container is answered once its init process has
\* ended or the VM has died.
WaitReturns ==
  \A w \in Waiter, r \in Ref :
    (waiting[w] = r /\ key[r][2] = InitId /\ notifier[r] = "thread" /\ r \notin galive)
      ~> (waiting[w] # r)
=============================================================================
