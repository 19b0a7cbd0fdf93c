--------------------------- MODULE AgentProcesses ---------------------------
(***************************************************************************)
(* The processes of the agent: CreateContainer, StartContainer,            *)
(* ExecProcess, SignalProcess, WaitProcess, ReadStdout, PauseContainer,    *)
(* ResumeContainer, RemoveContainer and the SIGCHLD handler, all of them   *)
(* tasks that take the one sandbox mutex.                                  *)
(*                                                                         *)
(* What a task does under the mutex without waiting is one action; where   *)
(* it waits with the mutex held (for a child's handshake, for the reader   *)
(* of the exec fifo, for a hook, for the copying of the output), `lock`    *)
(* names it until it is done.                                              *)
(***************************************************************************)
EXTENDS Naturals, FiniteSets

CONSTANTS
  Cid,        \* container ids
  Exec,       \* exec ids
  Pid,        \* process ids of the guest
  Req,        \* tasks that serve requests, reused
  Settings,   \* the settings to check, one of which holds in a behaviour
  NoPid, NoCid, Free, Handler

InitE == "init"                 \* the exec id of the init process (the container id)
Eid   == Exec \cup {InitE}

\* passfd: the agent copies the io itself (AGENT_CONFIG.passfd_listener_port # 0);
\* hooks: the containers have prestart, poststart and poststop hooks; ops: the requests
\* that clients send besides CreateContainer ("signal" is SignalProcess for a container,
\* "kill" for an exec); pids: the pids there are.
Setting == [passfd : BOOLEAN, hooks : BOOLEAN, pids : SUBSET Pid,
            ops : SUBSET {"start", "exec", "signal", "kill", "pause", "wait", "read", "remove"}]

ASSUME ProcessAssumption ==
  /\ InitE \notin Exec /\ Settings \subseteq Setting
  /\ NoPid \notin Pid /\ NoCid \notin Cid
  /\ Free # Handler /\ Free \notin Req /\ Handler \notin Req

VARIABLES
  setting,    \* the setting of this behaviour
  lock,       \* who has the sandbox mutex across a wait: Free, Handler or a request
  ctr,        \* [Cid -> CtrState]: the containers of the sandbox and their status
  table,      \* [Cid -> [Eid -> Pid or NoPid]]: LinuxContainer.processes
  exit,       \* [Pid -> BOOLEAN]: exit_code is set and exit_tx dropped
  frozen,     \* [Cid -> BOOLEAN]: the freezer of the container's cgroup
  proc,       \* [Pid -> ProcState]: the process in the guest kernel
  home,       \* [Pid -> Cid or NoCid]: whose cgroup it is in, NoCid for hooks
  killed,     \* [Pid -> BOOLEAN]: SIGKILL is pending
  heir,       \* [Pid -> BOOLEAN]: a descendant outlives it and has its stdout open
  sig,        \* a SIGCHLD is pending
  hpc, hpid,  \* handle_sigchild: step, and the child it has reaped
  req         \* [Req -> Request]

kernel == <<proc, home, killed, heir>>
hand   == <<hpc, hpid>>
vars   == <<setting, lock, ctr, table, exit, frozen, kernel, sig, hand, req>>

CtrState  == {"none", "created", "running", "paused", "stopped"}
ProcState == {"free", "setup", "ready", "fifo", "run", "zombie"}
Steps == {"idle", "made", "undone", "open", "started", "exec", "freeze", "pids", "kill",
          "thaw", "wait", "look", "read0", "read", "hook", "hookwait", "destroy",
          "resources"}
\* A request: its step and the one after a hook, its container, exec id, process, hook,
\* signal (TRUE: SIGKILL), the pids it read from the cgroup and its channel (from the
\* child of a start, the exit_send of a wait, the wake-up of a read).
Request == [pc : Steps, then : Steps, c : Cid \cup {NoCid}, e : Eid,
            p : Pid \cup {NoPid}, q : Pid \cup {NoPid}, k : BOOLEAN, pids : SUBSET Pid,
            chan : {"none", "up", "open", "closed", "unset", "code", "woken"}]
Idle == [pc |-> "idle", then |-> "idle", c |-> NoCid, e |-> InitE, p |-> NoPid,
         q |-> NoPid, k |-> FALSE, pids |-> {}, chan |-> "none"]

\* A type invariant: the range of each variable.
TypeOK ==
  /\ setting \in Setting
  /\ lock \in {Free, Handler} \cup Req
  /\ ctr \in [Cid -> CtrState]
  /\ table \in [Cid -> [Eid -> Pid \cup {NoPid}]]
  /\ exit \in [Pid -> BOOLEAN]
  /\ frozen \in [Cid -> BOOLEAN]
  /\ proc \in [Pid -> ProcState]
  /\ home \in [Pid -> Cid \cup {NoCid}]
  /\ killed \in [Pid -> BOOLEAN] /\ heir \in [Pid -> BOOLEAN]
  /\ sig \in BOOLEAN
  /\ hpc \in {"idle", "loop", "reaped", "drain"}
  /\ hpid \in Pid \cup {NoPid}
  /\ req \in [Req -> Request]

Init ==
  /\ setting \in Settings
  /\ lock = Free
  /\ ctr = [c \in Cid |-> "none"]
  /\ table = [c \in Cid |-> [e \in Eid |-> NoPid]]
  /\ exit = [p \in Pid |-> FALSE]
  /\ frozen = [c \in Cid |-> FALSE]
  /\ proc = [p \in Pid |-> "free"]
  /\ home = [p \in Pid |-> NoCid]
  /\ killed = [p \in Pid |-> FALSE]
  /\ heir = [p \in Pid |-> FALSE]
  /\ sig = FALSE
  /\ hpc = "idle"
  /\ hpid = NoPid
  /\ req = [r \in Req |-> Idle]
-----------------------------------------------------------------------------
Entries(c) == {table[c][e] : e \in Eid} \ {NoPid}
AllEntries == UNION {Entries(c) : c \in Cid}
Alive(p)   == proc[p] \in {"setup", "ready", "fifo", "run"}
Writer(p)  == Alive(p) \/ heir[p]
Frozen(p)  == home[p] # NoCid /\ frozen[home[p]]
In(c)      == {p \in Pid : home[p] = c /\ Writer(p)}

\* The kernel may give out p: it wraps around too late for p to be still in use.
PidFree(p) ==
  /\ p \in setting.pids /\ proc[p] = "free" /\ ~heir[p] /\ p \notin AllEntries /\ hpid # p
  /\ \A r \in Req : p \notin {req[r].p, req[r].q} \cup req[r].pids

Spawn(p, c, state) ==
  /\ PidFree(p)
  /\ proc' = [proc EXCEPT ![p] = state]
  /\ home' = [home EXCEPT ![p] = c]
  /\ UNCHANGED <<killed, heir>>

\* SIGKILL for the processes in S, and for the descendants of those in H.
Kill(S, H) ==
  /\ killed' = [p \in Pid |-> killed[p] \/ (p \in S /\ Alive(p))]
  /\ heir' = [p \in Pid |-> heir[p] /\ p \notin H]
  /\ home' = [p \in Pid |-> IF Alive(p) \/ heir'[p] THEN home[p] ELSE NoCid]
  /\ UNCHANGED proc

Done(r) == req' = [req EXCEPT ![r] = Idle]
\* The request goes on at step `next`, after its hook if the container has one.
After(rec, next) ==
  IF setting.hooks THEN [rec EXCEPT !.pc = "hook", !.then = next] ELSE [rec EXCEPT !.pc = next]
Go(r, next) == req' = [req EXCEPT ![r] = After(@, next)]

-----------------------------------------------------------------------------
(* CreateContainer and ExecProcess *)

\* start() forks the init process, which it talks to with the mutex held.  The code does not
\* ask whether the id is in use: a second create under it is a step of AgentStorage.
CreateBegin(r, c, p) ==
  /\ req[r].pc = "idle" /\ lock = Free /\ ctr[c] = "none"
  /\ Spawn(p, c, "setup")
  /\ lock' = r
  /\ req' = [req EXCEPT ![r] = After([Idle EXCEPT !.c = c, !.p = p], "made")]
  /\ UNCHANGED <<setting, ctr, table, exit, frozen, sig, hand>>

CreateOk(r) ==
  LET c == req[r].c  p == req[r].p IN
  /\ req[r].pc = "made" /\ req[r].chan = "up"
  /\ ctr' = [ctr EXCEPT ![c] = "created"]
  /\ table' = [table EXCEPT ![c][InitE] = p]
  /\ lock' = Free
  /\ Done(r)
  /\ UNCHANGED <<setting, exit, frozen, kernel, sig, hand>>

\* The child died, or the handshake failed: the rollback kills and destroys.
CreateFail(r) ==
  /\ req[r].pc = "made" /\ req[r].chan # "up"
  /\ Kill({req[r].p}, {})
  /\ Go(r, "undone")
  /\ UNCHANGED <<setting, lock, ctr, table, exit, frozen, sig, hand>>

CreateUndone(r) ==
  /\ req[r].pc = "undone"
  /\ lock' = Free
  /\ Done(r)
  /\ UNCHANGED <<setting, ctr, table, exit, frozen, kernel, sig, hand>>

\* Mutant: an exec id may be in use.
ExecBeginAgain(r, c, e, p) ==
  /\ req[r].pc = "idle" /\ lock = Free
  /\ ctr[c] # "none"
  /\ Spawn(p, c, "setup")
  /\ lock' = r
  /\ req' = [req EXCEPT ![r] = [Idle EXCEPT !.pc = "exec", !.c = c, !.e = e, !.p = p]]
  /\ UNCHANGED <<setting, ctr, table, exit, frozen, sig, hand>>

ExecBegin(r, c, e, p) ==
  /\ req[r].pc = "idle" /\ lock = Free
  /\ ctr[c] # "none" /\ table[c][e] = NoPid
  /\ Spawn(p, c, "setup")
  /\ lock' = r
  /\ req' = [req EXCEPT ![r] = [Idle EXCEPT !.pc = "exec", !.c = c, !.e = e, !.p = p]]
  /\ UNCHANGED <<setting, ctr, table, exit, frozen, sig, hand>>

\* Mutant: the table of processes is keyed by the pid, not by the exec id.
ExecOkByPid(r) ==
  /\ req[r].pc = "exec" /\ req[r].chan = "up"
  /\ table' = [table EXCEPT ![req[r].c] = [x \in Eid \cup {req[r].p} |->
                                        IF x \in Eid THEN @[x] ELSE x]]
  /\ lock' = Free
  /\ Done(r)
  /\ UNCHANGED <<setting, ctr, exit, frozen, kernel, sig, hand>>

ExecOk(r) ==
  /\ req[r].pc = "exec" /\ req[r].chan = "up"
  /\ table' = [table EXCEPT ![req[r].c][req[r].e] = req[r].p]
  /\ lock' = Free
  /\ Done(r)
  /\ UNCHANGED <<setting, ctr, exit, frozen, kernel, sig, hand>>

ExecFail(r) ==
  /\ req[r].pc = "exec" /\ req[r].chan # "up"
  /\ Kill({req[r].p}, {})
  /\ lock' = Free
  /\ Done(r)
  /\ UNCHANGED <<setting, ctr, table, exit, frozen, sig, hand>>
-----------------------------------------------------------------------------
(* StartContainer, SignalProcess, PauseContainer, ResumeContainer *)

\* exec() opens the fifo for writing, which waits for a reader.  The shim only starts a
\* container that is created.
StartBegin(r, c) ==
  /\ req[r].pc = "idle" /\ lock = Free /\ ctr[c] = "created"
  /\ lock' = r
  /\ req' = [req EXCEPT ![r] = [Idle EXCEPT !.pc = "open", !.c = c]]
  /\ UNCHANGED <<setting, ctr, table, exit, frozen, kernel, sig, hand>>

StartOpen(r) ==
  LET c == req[r].c  p == table[c][InitE] IN
  /\ req[r].pc = "open"
  /\ p # NoPid /\ proc[p] = "fifo"
  /\ proc' = [proc EXCEPT ![p] = "run"]
  /\ ctr' = [ctr EXCEPT ![c] = "running"]
  /\ Go(r, "started")
  /\ UNCHANGED <<setting, lock, table, exit, frozen, home, killed, heir, sig, hand>>

StartEnd(r) ==
  /\ req[r].pc = "started"
  /\ lock' = Free
  /\ Done(r)
  /\ UNCHANGED <<setting, ctr, table, exit, frozen, kernel, sig, hand>>

\* k: SIGKILL, or SIGTERM for an init process that does not handle it.  Other signals
\* leave it to the process what happens.
SignalBegin(r, c, e, k) ==
  /\ req[r].pc = "idle" /\ lock = Free /\ table[c][e] # NoPid
  /\ Kill(IF k THEN {table[c][e]} ELSE {}, {})
  /\ IF e = InitE
     THEN req' = [req EXCEPT ![r] = [Idle EXCEPT !.pc = "freeze", !.c = c, !.k = k]]
     ELSE Done(r)
  /\ UNCHANGED <<setting, lock, ctr, table, exit, frozen, sig, hand>>

SignalFreeze(r) ==
  LET c == req[r].c IN
  /\ req[r].pc = "freeze" /\ lock = Free
  /\ \/ ctr[c] # "none" /\ frozen' = [frozen EXCEPT ![c] = TRUE]
     \/ UNCHANGED frozen
  /\ req' = [req EXCEPT ![r].pc = "pids"]
  /\ UNCHANGED <<setting, lock, ctr, table, exit, kernel, sig, hand>>

\* Mutant: returns without a thaw when there is nothing to kill.
SignalPidsReturns(r) ==
  LET c == req[r].c IN
  /\ req[r].pc = "pids" /\ lock = Free
  /\ IF ctr[c] = "none" \/ In(c) = {}
     THEN Done(r)
     ELSE req' = [req EXCEPT ![r].pc = "kill", ![r].pids = In(c)]
  /\ UNCHANGED <<setting, lock, ctr, table, exit, frozen, kernel, sig, hand>>

SignalPids(r) ==
  LET c == req[r].c IN
  /\ req[r].pc = "pids" /\ lock = Free
  /\ IF ctr[c] = "none"
     THEN Done(r)
     ELSE req' = [req EXCEPT ![r].pc = "kill", ![r].pids = In(c)]
  /\ UNCHANGED <<setting, lock, ctr, table, exit, frozen, kernel, sig, hand>>

\* The kills need no mutex.
SignalKill(r) ==
  /\ req[r].pc = "kill"
  /\ IF req[r].k THEN Kill(req[r].pids, req[r].pids) ELSE UNCHANGED kernel
  /\ req' = [req EXCEPT ![r].pc = "thaw", ![r].pids = {}]
  /\ UNCHANGED <<setting, lock, ctr, table, exit, frozen, sig, hand>>

SignalThaw(r) ==
  LET c == req[r].c IN
  /\ req[r].pc = "thaw" /\ lock = Free
  /\ frozen' = [frozen EXCEPT ![c] = @ /\ ctr[c] = "none"]
  /\ Done(r)
  /\ UNCHANGED <<setting, lock, ctr, table, exit, kernel, sig, hand>>

Pause(c) ==
  /\ lock = Free /\ ctr[c] \in {"created", "running"}
  /\ frozen' = [frozen EXCEPT ![c] = TRUE]
  /\ ctr' = [ctr EXCEPT ![c] = "paused"]
  /\ UNCHANGED <<setting, lock, table, exit, kernel, sig, hand, req>>

Resume(c) ==
  /\ lock = Free /\ ctr[c] = "paused"
  /\ frozen' = [frozen EXCEPT ![c] = FALSE]
  /\ ctr' = [ctr EXCEPT ![c] = "running"]
  /\ UNCHANGED <<setting, lock, table, exit, kernel, sig, hand, req>>
-----------------------------------------------------------------------------
(* WaitProcess and ReadStdout *)

Value(p) == IF exit[p] THEN "code" ELSE "unset"

WaitBegin(r, c, e) ==
  /\ req[r].pc = "idle" /\ lock = Free /\ table[c][e] # NoPid
  /\ req' = [req EXCEPT ![r] = [Idle EXCEPT !.pc = "wait", !.c = c, !.p = table[c][e],
                                           !.chan = "open"]]
  /\ UNCHANGED <<setting, lock, ctr, table, exit, frozen, kernel, sig, hand>>

\* Mutant: does not wait.
WaitSignalledAtOnce(r) ==
  /\ req[r].pc = "wait"
  /\ req' = [req EXCEPT ![r].pc = "look"]
  /\ UNCHANGED <<setting, lock, ctr, table, exit, frozen, kernel, sig, hand>>

\* Mutant: the sender outlives the Process.
WaitSignalledExit(r) ==
  /\ req[r].pc = "wait" /\ exit[req[r].p]
  /\ req' = [req EXCEPT ![r].pc = "look"]
  /\ UNCHANGED <<setting, lock, ctr, table, exit, frozen, kernel, sig, hand>>

\* exit_rx.changed() fails: exit_tx was taken, or dropped with the Process.
WaitSignalled(r) ==
  /\ req[r].pc = "wait" /\ (exit[req[r].p] \/ req[r].p \notin AllEntries)
  /\ req' = [req EXCEPT ![r].pc = "look"]
  /\ UNCHANGED <<setting, lock, ctr, table, exit, frozen, kernel, sig, hand>>

\* notify_waiters(): the reads of p that wait are woken.
Woken(R, p) ==
  [s \in Req |-> IF R[s].pc = "read" /\ R[s].p = p THEN [R[s] EXCEPT !.chan = "woken"] ELSE R[s]]

\* Mutant: tells only those that look for the process already.
WaitWonLate(r) ==
  LET c == req[r].c  p == req[r].p
      told == [s \in Req |->
                IF s = r THEN Idle
                ELSE IF req[s].p = p /\ req[s].chan = "open" /\ req[s].pc = "look"
                     THEN [req[s] EXCEPT !.chan = Value(p)] ELSE req[s]]
  IN
  /\ req[r].pc = "look" /\ lock = Free /\ p \in Entries(c)
  /\ table' = [table EXCEPT ![c] = [e \in Eid |-> IF @[e] = p THEN NoPid ELSE @[e]]]
  /\ exit' = [exit EXCEPT ![p] = FALSE]
  /\ req' = IF setting.passfd THEN told ELSE Woken(told, p)
  /\ UNCHANGED <<setting, lock, ctr, frozen, kernel, sig, hand>>

\* The first to look removes the Process and broadcasts the exit code to the others.
WaitWon(r) ==
  LET c == req[r].c  p == req[r].p
      told == [s \in Req |->
                IF s = r THEN Idle
                ELSE IF req[s].p = p /\ req[s].chan = "open"
                     THEN [req[s] EXCEPT !.chan = Value(p)] ELSE req[s]]
  IN
  /\ req[r].pc = "look" /\ lock = Free /\ p \in Entries(c)
  /\ table' = [table EXCEPT ![c] = [e \in Eid |-> IF @[e] = p THEN NoPid ELSE @[e]]]
  /\ exit' = [exit EXCEPT ![p] = FALSE]
  /\ req' = IF setting.passfd THEN told ELSE Woken(told, p)
  /\ UNCHANGED <<setting, lock, ctr, frozen, kernel, sig, hand>>

\* The others have it in their channel, unless the container has gone.
WaitLost(r) ==
  LET c == req[r].c IN
  /\ req[r].pc = "look" /\ lock = Free /\ req[r].p \notin Entries(c)
  /\ ctr[c] = "none" \/ req[r].chan # "open"
  /\ Done(r)
  /\ UNCHANGED <<setting, lock, ctr, table, exit, frozen, kernel, sig, hand>>

\* do_read_stream gets the reader under the mutex ...
ReadBegin(r, c, e) ==
  /\ req[r].pc = "idle" /\ lock = Free /\ table[c][e] # NoPid /\ ~setting.passfd
  /\ req' = [req EXCEPT ![r] = [Idle EXCEPT !.pc = "read0", !.c = c, !.p = table[c][e]]]
  /\ UNCHANGED <<setting, lock, ctr, table, exit, frozen, kernel, sig, hand>>

\* ... and waits without it: from here on term_exit_notifier can wake it.
ReadSelect(r) ==
  /\ req[r].pc = "read0"
  /\ req' = [req EXCEPT ![r].pc = "read"]
  /\ UNCHANGED <<setting, lock, ctr, table, exit, frozen, kernel, sig, hand>>

\* Data (at any time while something can write it), the end of the stream, or the
\* notification followed by a drain of bounded time.
ReadEnd(r) ==
  /\ req[r].pc = "read"
  /\ Done(r)
  /\ UNCHANGED <<setting, lock, ctr, table, exit, frozen, kernel, sig, hand>>
ReadMustEnd(r) == ReadEnd(r) /\ (req[r].chan = "woken" \/ ~Writer(req[r].p))
-----------------------------------------------------------------------------
(* RemoveContainer *)

\* remove_container_resources drops the container and with it its Processes.
DropContainer(R, c) ==
  /\ ctr' = [ctr EXCEPT ![c] = "none"]
  /\ table' = [table EXCEPT ![c] = [e \in Eid |-> NoPid]]
  /\ frozen' = [frozen EXCEPT ![c] = FALSE]
  /\ exit' = [p \in Pid |-> exit[p] /\ p \notin Entries(c)]
  /\ req' = [s \in Req |-> IF R[s].chan = "open" /\ R[s].p \in Entries(c)
                           THEN [R[s] EXCEPT !.chan = "closed"] ELSE R[s]]

RemoveBegin(r, c) ==
  /\ req[r].pc = "idle" /\ lock = Free /\ ctr[c] # "none"
  /\ Kill(Entries(c), {})
  /\ lock' = r
  /\ req' = [req EXCEPT ![r] = After([Idle EXCEPT !.c = c], "destroy")]
  /\ UNCHANGED <<setting, ctr, table, exit, frozen, sig, hand>>

\* The rest of destroy(), with timeout 0 the resources too.  A second destroy() fails
\* at the container's directory, which the first one has removed.
RemoveDestroy(r) ==
  LET c == req[r].c IN
  /\ req[r].pc = "destroy"
  /\ lock' = Free
  /\ \/ /\ ctr[c] = "stopped"
        /\ Done(r)
        /\ UNCHANGED <<ctr, table, exit, frozen, kernel>>
     \/ /\ ctr[c] # "stopped"
        /\ Kill(In(c), In(c))
        /\ DropContainer([req EXCEPT ![r] = Idle], c)
     \/ /\ ctr[c] # "stopped"
        /\ Kill(In(c), In(c))
        /\ ctr' = [ctr EXCEPT ![c] = "stopped"]
        /\ \/ req' = [req EXCEPT ![r].pc = "resources"]
           \/ Done(r)                             \* ETIME
        /\ UNCHANGED <<table, exit, frozen>>
  /\ UNCHANGED <<setting, sig, hand>>

RemoveResources(r) ==
  /\ req[r].pc = "resources" /\ lock = Free
  /\ DropContainer([req EXCEPT ![r] = Idle], req[r].c)
  /\ UNCHANGED <<setting, lock, kernel, sig, hand>>
-----------------------------------------------------------------------------
(* Hooks, which the task that runs one waits for itself *)

HookSpawn(r, p) ==
  /\ req[r].pc = "hook"
  /\ Spawn(p, NoCid, "run")
  /\ req' = [req EXCEPT ![r].pc = "hookwait", ![r].q = p]
  /\ UNCHANGED <<setting, lock, ctr, table, exit, frozen, sig, hand>>

\* Mutant: goes on waiting for a child that somebody else has reaped.
HookEndZombie(r) ==
  /\ req[r].pc = "hookwait" /\ proc[req[r].q] = "zombie"
  /\ proc' = [proc EXCEPT ![req[r].q] = "free"]
  /\ req' = [req EXCEPT ![r].pc = req[r].then, ![r].then = "idle", ![r].q = NoPid]
  /\ UNCHANGED <<setting, lock, ctr, table, exit, frozen, home, killed, heir, sig, hand>>

\* waitpid for the hook's own pid; it fails if the child has been reaped.
HookEnd(r) ==
  /\ req[r].pc = "hookwait" /\ proc[req[r].q] \in {"zombie", "free"}
  /\ proc' = [proc EXCEPT ![req[r].q] = "free"]
  /\ req' = [req EXCEPT ![r].pc = req[r].then, ![r].then = "idle", ![r].q = NoPid]
  /\ UNCHANGED <<setting, lock, ctr, table, exit, frozen, home, killed, heir, sig, hand>>
-----------------------------------------------------------------------------
(* handle_sigchild *)

HandlerRecv ==
  /\ hpc = "idle" /\ sig
  /\ sig' = FALSE
  /\ hpc' = "loop"
  /\ UNCHANGED <<setting, lock, ctr, table, exit, frozen, kernel, hpid, req>>

\* waitpid(-1, WNOHANG): any zombie ...
HandlerReap(p) ==
  /\ hpc = "loop" /\ proc[p] = "zombie"
  /\ proc' = [proc EXCEPT ![p] = "free"]
  /\ hpid' = p
  /\ hpc' = "reaped"
  /\ UNCHANGED <<setting, lock, ctr, table, exit, frozen, home, killed, heir, sig, req>>

\* Mutant: one child for each signal.
HandlerEndAtOnce ==
  /\ hpc = "loop"
  /\ hpc' = "idle"
  /\ UNCHANGED <<setting, lock, ctr, table, exit, frozen, kernel, sig, hpid, req>>

\* ... until there is none.
HandlerEnd ==
  /\ hpc = "loop" /\ \A p \in Pid : proc[p] # "zombie"
  /\ hpc' = "idle"
  /\ UNCHANGED <<setting, lock, ctr, table, exit, frozen, kernel, sig, hpid, req>>

\* Mutant: does not notify the readers of the terminal.
TellWaits ==
  /\ exit' = [exit EXCEPT ![hpid] = TRUE]
  /\ UNCHANGED req
  /\ hpc' = "loop"
  /\ hpid' = NoPid

\* The exit of hpid is made known.
Tell ==
  /\ exit' = [exit EXCEPT ![hpid] = TRUE]
  /\ req' = Woken(req, hpid)
  /\ hpc' = "loop"
  /\ hpid' = NoPid

\* Mutant: looks for the process without the sandbox mutex.
HandlerFindUnlocked ==
  /\ hpc = "reaped"
  /\ \/ /\ hpid \notin AllEntries
        /\ hpc' = "loop"
        /\ hpid' = NoPid
        /\ UNCHANGED <<lock, exit, req>>
     \/ /\ hpid \in AllEntries /\ ~setting.passfd
        /\ Tell
        /\ UNCHANGED lock
     \/ /\ hpid \in AllEntries /\ setting.passfd /\ lock = Free
        /\ lock' = Handler
        /\ hpc' = "drain"
        /\ UNCHANGED <<exit, hpid, req>>
  /\ UNCHANGED <<setting, ctr, table, frozen, kernel, sig>>

HandlerFind ==
  /\ hpc = "reaped" /\ lock = Free
  /\ \/ /\ hpid \notin AllEntries
        /\ hpc' = "loop"
        /\ hpid' = NoPid
        /\ UNCHANGED <<lock, exit, req>>
     \/ /\ hpid \in AllEntries /\ ~setting.passfd
        /\ Tell
        /\ UNCHANGED lock
     \/ /\ hpid \in AllEntries /\ setting.passfd
        /\ lock' = Handler
        /\ hpc' = "drain"
        /\ UNCHANGED <<exit, hpid, req>>
  /\ UNCHANGED <<setting, ctr, table, frozen, kernel, sig>>

\* wg_output.wait(): the output has been copied to its end.
HandlerDrained ==
  /\ hpc = "drain" /\ ~Writer(hpid)
  /\ Tell
  /\ lock' = Free
  /\ UNCHANGED <<setting, ctr, table, frozen, kernel, sig>>
-----------------------------------------------------------------------------
(* The processes themselves *)

\* The handshake with start() ends: the child goes on to the exec fifo, or to execve.
ChildReady(p) ==
  /\ proc[p] = "setup" /\ ~Frozen(p)
  /\ \E r \in Req : /\ req[r].p = p /\ req[r].pc \in {"made", "exec"}
                    /\ proc' = [proc EXCEPT ![p] = IF req[r].pc = "made" THEN "ready" ELSE "run"]
                    /\ req' = [req EXCEPT ![r].chan = "up"]
  /\ UNCHANGED <<setting, lock, ctr, table, exit, frozen, home, killed, heir, sig, hand>>

ChildOpens(p) ==
  /\ proc[p] = "ready" /\ ~Frozen(p)
  /\ proc' = [proc EXCEPT ![p] = "fifo"]
  /\ UNCHANGED <<setting, lock, ctr, table, exit, frozen, home, killed, heir, sig, hand, req>>

\* A process exits, of itself or because of a signal; a frozen one only when killed.
Exit(p) ==
  /\ Alive(p) /\ (Frozen(p) => killed[p])
  /\ proc' = [proc EXCEPT ![p] = "zombie"]
  /\ killed' = [killed EXCEPT ![p] = FALSE]
  /\ \/ UNCHANGED heir /\ home' = [home EXCEPT ![p] = NoCid]
     \/ /\ proc[p] = "run" /\ home[p] # NoCid
        /\ heir' = [heir EXCEPT ![p] = TRUE]
        /\ UNCHANGED home
  /\ sig' = TRUE
  /\ UNCHANGED <<setting, lock, ctr, table, exit, frozen, hand, req>>

HeirExit(p) ==
  /\ heir[p] /\ ~Frozen(p)
  /\ heir' = [heir EXCEPT ![p] = FALSE]
  /\ home' = [home EXCEPT ![p] = NoCid]
  /\ UNCHANGED <<setting, lock, ctr, table, exit, frozen, proc, killed, sig, hand, req>>
-----------------------------------------------------------------------------
\* The bound on pids: a request that runs hooks begins when there are enough for them.
PidsLeft(n) == setting.hooks => Cardinality({p \in Pid : PidFree(p)}) >= n

Begin(r) ==
  \E c \in Cid :
    \/ PidsLeft(3) /\ \E p \in Pid : CreateBegin(r, c, p)
    \/ "exec" \in setting.ops /\ \E e \in Exec, p \in Pid : ExecBegin(r, c, e, p)
    \/ "start" \in setting.ops /\ PidsLeft(1) /\ StartBegin(r, c)
    \/ "remove" \in setting.ops /\ PidsLeft(1) /\ RemoveBegin(r, c)
    \/ "wait" \in setting.ops /\ \E e \in Eid : WaitBegin(r, c, e)
    \/ "read" \in setting.ops /\ \E e \in Eid : ReadBegin(r, c, e)
    \/ "signal" \in setting.ops /\ \E k \in BOOLEAN : SignalBegin(r, c, InitE, k)
    \/ "kill" \in setting.ops /\ \E e \in Exec, k \in BOOLEAN : SignalBegin(r, c, e, k)

\* The steps of a request that wait for the mutex, and the others.
Locking(r) ==
  SignalFreeze(r) \/ SignalPids(r) \/ SignalThaw(r) \/ WaitWon(r) \/ WaitLost(r) \/ RemoveResources(r)
Running(r) ==
  \/ CreateOk(r) \/ CreateUndone(r) \/ ExecOk(r) \/ StartOpen(r) \/ StartEnd(r)
  \/ SignalKill(r) \/ WaitSignalled(r) \/ ReadSelect(r) \/ RemoveDestroy(r)
  \/ HookEnd(r) \/ \E p \in Pid : HookSpawn(r, p)

\* The handshake may fail at any time, and does when the child has died.
Fail(r)     == CreateFail(r) \/ ExecFail(r)
MustFail(r) == Fail(r) /\ ~Alive(req[r].p)

Handle == HandlerEnd \/ HandlerFind \/ HandlerDrained

Next ==
  \/ \E r \in Req : Begin(r) \/ Locking(r) \/ Running(r) \/ Fail(r) \/ ReadEnd(r)
  \/ HandlerRecv \/ Handle
  \/ "pause" \in setting.ops /\ \E c \in Cid : Pause(c) \/ Resume(c)
  \/ \E p \in Pid : HandlerReap(p) \/ ChildReady(p) \/ ChildOpens(p) \/ Exit(p) \/ HeirExit(p)

Spec == Init /\ [][Next]_vars

\* Tasks are scheduled, the tokio mutex is first come first served, waitpid prefers the
\* oldest child, the children get on with their start unless frozen, what is killed and
\* not frozen dies, and a hook ends or is killed after its timeout.
Fairness ==
  /\ WF_vars(HandlerRecv) /\ SF_vars(Handle)
  /\ \A r \in Req : /\ SF_vars(Locking(r)) /\ WF_vars(Running(r))
                    /\ WF_vars(MustFail(r)) /\ WF_vars(ReadMustEnd(r))
  /\ \A p \in Pid :
       /\ SF_vars(HandlerReap(p)) /\ WF_vars(ChildReady(p)) /\ WF_vars(ChildOpens(p))
       /\ WF_vars(Exit(p) /\ (home[p] = NoCid \/ killed[p]) /\ ~Frozen(p))

FairSpec == Spec /\ Fairness
-----------------------------------------------------------------------------
(* Properties *)

\* An exit that the agent has reaped is not lost: the Process knows of it, or the handler
\* is about to tell it.  A process may exit while start() has not put it in the table yet
\* (container.rs:1447); the handler then waits for the mutex before it looks
\* (signal.rs:50).
ExitKept == \A p \in AllEntries : proc[p] = "free" => exit[p] \/ hpid = p

\* Many exits may share one SIGCHLD: no zombie is left behind by a handler that has gone
\* back to wait for the next signal (the loop of handle_sigchild, signal.rs:24).
NoZombieForgotten == (\E p \in Pid : proc[p] = "zombie") => sig \/ hpc # "idle"

\* WaitProcess answers with the exit code that the handler has stored, never with the 0
\* that a Process starts with, whether it wins or loses the race for it (rpc.rs:619-655).
AnswerIsExit ==
  \A r \in Req : req[r].pc = "look" =>
    /\ req[r].chan # "unset"
    /\ req[r].p \in AllEntries => exit[req[r].p]

\* A WaitProcess that finds its process gone has the answer in its channel, or the channel
\* is closed: it never waits for it with the sandbox mutex held (rpc.rs:634).
LostRaceAnswered ==
  \A r \in Req : req[r].pc = "look" /\ req[r].p \notin Entries(req[r].c) /\ ctr[req[r].c] # "none"
               => req[r].chan \in {"code", "closed"}

\* A container is frozen only while it is paused (or was when it was destroyed) or a
\* SignalProcess is between its freeze and its thaw (rpc.rs:535-567): however requests
\* interleave, none leaves it frozen behind.
FrozenForAReason ==
  \A c \in Cid : frozen[c] =>
    \/ ctr[c] \in {"paused", "stopped"}
    \/ \E r \in Req : req[r].c = c /\ req[r].pc \in {"pids", "kill", "thaw"}

\* Why these hold, in a form that every step preserves.  A request that waits with the
\* mutex has it, and so has the handler while it drains; while a child is being started it is
\* in no table, and if it has been reaped the handler still has to look for it; a pid is in
\* one slot of one table, and nobody else starts or hooks it while a request refers to it;
\* the channel of a wait is open only as long as its process is in the table; and a
\* container that is not in the sandbox has no processes and is not frozen, while creates,
\* execs and removes under way still find the free id, the free slot and the container they
\* began with.
Holds    == {"made", "undone", "open", "started", "exec", "hook", "hookwait", "destroy"}
Child(r) == req[r].pc \in {"made", "exec"} \/ (req[r].pc \in {"hook", "hookwait"} /\ req[r].then = "made")
Removing(r) == req[r].pc = "destroy" \/ (req[r].pc \in {"hook", "hookwait"} /\ req[r].then = "destroy")
LockInv ==
  /\ \A r \in Req : req[r].pc \in Holds => lock = r
  /\ hpc = "drain" <=> lock = Handler
  /\ hpc \in {"reaped", "drain"} <=> hpid # NoPid
  /\ \A r \in Req : req[r].pc \in {"hook", "hookwait"} => req[r].then \in {"made", "undone", "started", "destroy"}
CtrInv == \A r \in Req : req[r].pc # "idle" => req[r].c \in Cid
ChildInv ==
  \A r \in Req : Child(r) =>
    /\ req[r].p \in Pid /\ req[r].p \notin AllEntries
    /\ proc[req[r].p] = "free" => hpid = req[r].p
    /\ \A s \in Req \ {r} : req[s].p # req[r].p
HookInv ==
  \A r \in Req : req[r].pc = "hookwait" =>
    /\ req[r].q \in Pid /\ req[r].q \notin AllEntries
    /\ \A s \in Req : req[s].p # req[r].q
SlotInv ==
  \A c, d \in Cid, e, f \in Eid :
    table[c][e] # NoPid /\ table[c][e] = table[d][f] => c = d /\ e = f
WaitChannel ==
  \A r \in Req :
    /\ req[r].pc \in {"wait", "look"} =>
         /\ req[r].p \in Pid
         /\ req[r].chan \in {"open", "closed", "code"}
    /\ req[r].chan = "open" => req[r].pc \in {"wait", "look"} /\ req[r].p \in Entries(req[r].c)
TableInv ==
  /\ \A c \in Cid : ctr[c] = "none" => ~frozen[c] /\ \A e \in Eid : table[c][e] = NoPid
  /\ \A r \in Req : Child(r) /\ req[r].pc # "exec" => ctr[req[r].c] = "none"
  /\ \A r \in Req : req[r].pc = "exec" => ctr[req[r].c] # "none" /\ table[req[r].c][req[r].e] = NoPid
  /\ \A r \in Req : req[r].pc = "open" => ctr[req[r].c] = "created"
  /\ \A r \in Req : Removing(r) => ctr[req[r].c] # "none"

\* An exit is recorded of a process in a table, reaped by then; until the handler has told
\* the exit of the child it has reaped, the kernel does not give out the pid again.
ReapInv ==
  /\ \A p \in Pid : exit[p] => p \in AllEntries /\ proc[p] = "free"
  /\ hpid # NoPid => proc[hpid] = "free"
  /\ hpc = "drain" => hpid \in AllEntries

\* The life of the processes as ProcessLife has it.
Sandboxed == {c \in Cid : ctr[c] # "none"}
Stages ==
  [c \in Cid |-> [e \in Eid |->
     LET p == table[c][e] IN
     IF p = NoPid THEN "none"
     ELSE IF exit[p] THEN "exited" ELSE IF proc[p] = "free" THEN "reaped" ELSE "running"]]
Life == INSTANCE ProcessLife WITH ctrs <- Sandboxed, life <- Stages

\* Whatever requests run beside the SIGCHLD handler, each process goes through ProcessLife:
\* in signal.rs the exit code is stored of a process that waitpid has returned, and in
\* rpc.rs the first WaitProcess to look removes it from its container, with the exit stored.
ImplementsProcessLife == Life!Spec

\* What can keep the sandbox mutex for good: a start whose init process has died or is
\* frozen before it opened the fifo (container.rs:1540), an exec or create into a frozen
\* cgroup (container.rs:1421), and, when the agent copies the io, an output that a
\* descendant keeps open (signal.rs:73).
Wedged ==
  \/ \E r \in Req : /\ lock = r
                    /\ req[r].pc = "open"
                    /\ LET p == table[req[r].c][InitE] IN
                       p = NoPid \/ ~(proc[p] = "fifo" \/ (proc[p] = "ready" /\ ~Frozen(p)))
  \/ \E r \in Req : lock = r /\ req[r].pc \in {"made", "exec"} /\ frozen[req[r].c]
  \/ lock = Handler /\ heir[hpid]

\* The sandbox mutex is released again, unless the agent is wedged in one of these ways.
LockReleased == lock # Free ~> lock = Free \/ Wedged

\* The end of a process reaches everyone who waits for it, unless the agent is wedged.
WaitReturns ==
  \A r \in Req :
    req[r].pc = "wait" /\ ~Alive(req[r].p) ~> req[r].pc # "wait" \/ Wedged

\* A read that is waiting when the handler learns of the exit returns, even if a descendant
\* keeps the terminal open (signal.rs:80-83, rpc.rs:761).
ReadWoken ==
  \A r \in Req :
    req[r].pc = "read" /\ hpid = req[r].p ~> req[r].pc # "read" \/ Wedged

\* As signal.rs:81-82 has it for every read: once the exit is known, a read of the
\* process's terminal ends.
ReadEnds ==
  \A r \in Req :
    req[r].pc \in {"read0", "read"} /\ exit[req[r].p] ~> req[r].pc \notin {"read0", "read"}
=============================================================================
