# Kata Containers: TLA+ models, checks and proofs

Kata runs each pod in a virtual machine.  On the host a *shim* (`runtime-rs`) serves
containerd's task API; in the guest an *agent* serves the shim's requests over ttrpc and
runs the containers; a *hypervisor* (built in: dragonball) runs the VM.  This project
models the parts of the Rust implementation in which several tasks, threads or machines
work on shared state.  Paths below are relative to the repository's `src`.

## 1. The system and its parts

| part | source | state it owns | here |
|---|---|---|---|
| container manager of the shim | `runtime-rs/crates/runtimes/virt_container/src/container_manager` | containers, processes, exit watchers | `ContainerManager`, `ContainerLifecycle` |
| agent: containers, processes, signals | `agent/src/{rpc,sandbox,signal}.rs`, `agent/rustjail` | sandbox mutex, process tables, freezer | `AgentProcesses`, `ProcessLife` |
| agent: storages | `agent/src/storage`, `sandbox.rs` | reference counts | `AgentStorage` |
| resource manager: cpu and memory | `runtime-rs/crates/resource/src/cpu_mem` | sums over the containers, current vcpus | `SandboxResize` |
| dragonball driver: resizing | `runtime-rs/crates/hypervisor/src/dragonball` | hot plugged memory, channels to the VMM | `SandboxResize` |
| dragonball: VMM thread, vcpu manager, upcall, memory and balloon devices | `dragonball/src`, `dragonball/dbs_upcall` | vcpus, the pending hot plug, the stream to the guest | `VcpuHotplug`, `VcpuService` |
| the rest (section 8) | | | not modelled |

How they meet: the container manager calls the agent for containers and processes
(`ContainerManager` has the agent as its client sees it, `AgentProcesses` and `AgentStorage`
what happens inside), and the resource manager when a container is created, updated or
stopped; the resource manager resizes the VM through the driver, the driver through the
VMM thread's channels, and the VMM through the upcall stream to the guest's kernel.
`SandboxResize` extends `VcpuHotplug`, so the whole chain is one model.

The models cover a small part of the repository, about one line in a hundred of its
implementation: the code in which requests, threads and failures interleave.  Most of the
rest is device emulation, system calls, parsing, configuration and a second implementation
of the shim in Go.

## 2. `ContainerManager`: the containers of the shim

**State.**  `procs[c]` is the entry of container `c` in `VirtContainerManager.containers`:
its init process under `InitId` (the empty exec id) and its `exec_processes`, each a
reference to a `Process` object.  Objects have `key` (their container and exec id),
`status`, `code` (exit_status), and `notifier`, which says where `exit_watcher_tx` is: still
in the object, with a wait thread, closed by it, or dropped with the object.  `cleaned`
counts how often `cleanup_container` ran for the object, up to `MaxCleaned` (2, once too often).  `lock[c]` is `inner`, while a
handler holds it across an agent call.  A wait thread has a `pc`, its object `tref`, and
`tcode`.  `res` is the set of containers in the resource manager's sums.  The guest is `vmUp`,
and per container what the agent has of it (`gctr`, `gproc`) and which processes live
(`galive`).  A process's own exit code is represented by its reference: that is what
"the code is its own" compares.

**Granularity.**  A request holds `containers` (for writing in create and delete of a
container, for reading otherwise) and `inner` from its first to its last statement; two
requests on one container never overlap.  The wait thread is the exception: it writes
`status` and `exit_status` through its own `Arc`s, without `inner`.  So a request is one
action unless such a write can fall between its read and its write of the same variable;
that is so for `pause` and `resume`, which have two actions.  The wait thread has one action
per lock it takes or reply it waits for: io end, wait request, reply, `stop_process`,
record, publish, notify.  From `stop_process` to its end it holds `containers.read()`, hence
`WriteLockFree`.

**Failures.**  Every agent call may fail before or after it was applied: creates and starts
that time out, a lost reply to pause and resume, a signal or a remove that fails (the code
ignores both), and the VM dying at any time.  A create that went through in the agent but
whose reply was lost is removed by the cleanup that follows, unless that fails, too: then the
agent keeps a created container of which the shim has nothing (`GuestLeftOver`).

| actions | code |
|---|---|
| `CreateContainer`, `CreateFails` | `manager.rs create_container`, `container.rs create`, `cleanup` |
| `ExecProcess`, `DeleteExec`, `DeleteContainer` | `exec_process`, `delete_process` |
| `StartContainer`, `StartExec` and their `TimesOut`, `Fails` | `container.rs start`, with the `stop_process` of its error path |
| `KillProcess` | `kill_process` and the agent's `do_signal_process` |
| `PauseBegin/End`, `ResumeBegin/End`, `UpdateContainer` | `pause`, `resume`, `update` |
| `WaitBegin`, `WaitReturn` | `wait_process`, before and after the watcher closes |
| `IoEnd`, `WaitSent`, `WaitOk`, `WaitFails`, `StopStep`, `StopMissing`, `Record`, `Publish`, `Notify` | `process.rs run_io_wait`, `passfd_io_wait` |
| `ProcessExit`, `VmDies` | the environment |

**Settings.**  Each behaviour has one: `passfd` (the hypervisor offers a passfd listener),
`client`, `pause` (it uses Pause and Resume), and which containers, execs and objects there
are.  A *disciplined* client keeps to containerd's order: it creates only unknown ids, starts
only what is Created, deletes only what is Created or Stopped.  A *fresh* one calls in any
order but creates only unknown ids; *any* client may also create a container over another,
which the code does not refuse.  `Fresh` is the first two.

**Abstractions.**  Containers have a cpu section in their resources, and the sandbox sizes
itself (`static_sandbox_resource_mgmt` is off).  Kill with `all` is
the kill of the init process.  A signal that ends nobody changes nothing.  Output, terminal
sizes, hooks and statistics are left out.

**The abstract specification** `ContainerLifecycle` says what a client relies on: a container
is created, runs, is stopped (resources released), has exited (exit code in place), and only
a created or an exited one can be deleted.  `lives` maps the manager's state to these
stages (`StageOf` the status, exit code and cleanups of a container's init process);
`ImplementsLifecycle` is the refinement, `ImplementsFairLifecycle` its liveness.

## 3. `AgentStorage`: the storages of the agent

**State.**  `entry[p]` and `count[p]` are the `StorageState` of mount point `p` (absent, with
the dummy device it is made with, or with its device) and its reference count; `mounts[c]`
is `container_mounts`; `ctrs` the sandbox's containers; `root[c]` the directory of a
container, which decides whether `ctr.start` finds an exec fifo and whether `destroy`
succeeds; `mounted` the devices that are set up in the guest.  A request has its step, its
container, its position in the storages, its `mount_list`, and the device in its copy of the
entry.

**Granularity.**  The agent's runtime has several threads.  What a request does under the
sandbox mutex in one go is one action; reading the count (`ReuseDevice`, `NewDevice`) and
creating the device happen without it.  The copy of an entry shares its counter with the
entry, so reading `count[p]` is faithful as long as the entry stays, which `RefsCover` implies.

| actions | code |
|---|---|
| `CreateBegin`, `AddSandboxStorage`, `ReuseDevice`, `NewDevice`, `UnknownDriver`, `CreateDevice(Fails)`, `UpdateSandboxStorage`, `Undo` | `add_storages`, `add_`, `update_`, `remove_sandbox_storage` |
| `SecretsFail`, `CreateContainer`, `CreateFails`, `SharedMountsFail`, `StartFails` | the rest of `do_create_container` |
| `RemoveContainer`, `DestroyFails`, `RemoveBegin`, `RemoveEnd`, `RemoveTimesOut` | `do_remove_container` without and with a timeout |

**Settings.**  `serial`: one request at a time, as a shim sends them that holds `containers`
for writing during a create; without it creates overlap and repeat.  `failures`: which steps
may fail.  `storages`, `shared`, `noPath`: which storages the containers have, and of what
kind.  The storages of `create_sandbox` are left out, and so is `destroy_sandbox`, after
which the agent exits.

## 4. `AgentProcesses`: processes, waits and the SIGCHLD handler of the agent

**State.**  `lock` is the sandbox mutex, when a task keeps it while it waits; `ctr[c]` the
status of a container, `table[c][e]` the pid of its init or exec process
(`LinuxContainer.processes`), `exit[p]` that its exit code is stored and its `exit_tx`
dropped, `frozen[c]` the cgroup's freezer.  The guest's kernel has for each pid its state,
its cgroup, a pending SIGKILL, and whether a descendant keeps its output open (`heir`).
The handler has a step and the child it has reaped.  A request has a step and what it
carries: container, exec id, pid, the pids it listed, its channel.

**Granularity.**  What a task does under the mutex without waiting is one action.  The code
waits with the mutex held in five places, which are steps of their own: the handshake with
a new child, the open of the exec fifo, a hook, `destroy`, and the handler's wait for the
copies of the output.  SignalProcess takes the mutex for the freeze, the list of pids, the
kills and the thaw one by one.

| actions | code |
|---|---|
| `CreateBegin/Ok/Fail/Undone`, `ExecBegin/Ok/Fail`, `StartBegin/Open/End` | `do_create_container`, `do_exec_process`, `do_start_container`, `LinuxContainer::{start,run,exec}` |
| `SignalBegin/Freeze/Pids/Kill/Thaw`, `Pause`, `Resume` | `do_signal_process`, `LinuxContainer::{pause,resume}` |
| `WaitBegin/Signalled/Won/Lost` | `do_wait_process` |
| `ReadBegin/Select/End` | `do_read_stream` |
| `RemoveBegin/Destroy/Resources` | `do_remove_container`, `LinuxContainer::destroy` |
| `HookSpawn`, `HookEnd` | `kata-sys-util` `hooks.rs` |
| `HandlerRecv/Reap/Find/Drained/End`, `Tell` | `signal.rs handle_sigchild` |
| `ChildReady`, `ChildOpens`, `Exit`, `HeirExit` | the child and the guest's kernel |

A pid is not given out again while a request still refers to it (`PidFree`): the kernel's
pids wrap around late.  Errors of the freezer are left out.

**Settings.**  `passfd`: the agent copies the io itself.  `hooks`: the containers have hooks.
`ops`: which requests clients send besides creates.  `pids`: how many pids there are.

**The abstract specification** `ProcessLife` says what the shim relies on: a process is known
by its container and exec id, and under these ids one life follows the other.  A process
runs, is reaped, has its exit recorded, and leaves the table only by an answer to WaitProcess
with the exit recorded, or with its whole container; a container enters the sandbox
together with its init process.  A start may end after its process has been reaped, and the
exit must still be recorded then.  `Sandboxed` and `Stages` are the refinement mapping (the
containers in the sandbox; and for each slot of a table whether it is empty, and else what
the kernel and the handler have done with the process), `ImplementsProcessLife` the refinement.

## 5. `VcpuHotplug` and `SandboxResize`: resizing the VM

**`VcpuHotplug`** is the VMM thread with its surroundings.  `present` are the vcpus with a
thread, `tids` the shared list of their thread ids, `action`, `pending` and `syncTx` the hot
plug under way (`vcpus_in_action`, `action_sycn_tx`); `upcall`, `stream`, `timer`,
`reconnects`, `callback` the upcall client, `event` the channel by which its callback tells
the vcpu manager; `vmem` and `balloon` the sizes the devices were asked for; `queue`, `bell`
and `resp` the API's channels and eventfd; `held` and `signalled` the channels on which
callers await the end of a hot plug; `job`, `reply` and `online` the guest's kernel.  One
thread runs all handlers, so a handler is one action; the guest's answers, the loss of the
stream and the callers come in between.

**`SandboxResize`** adds the callers: `cpus`, `mems` and `current` of the resource manager,
`hotplugged` and `inflated` of the driver, and for each container an operation (Add, Update,
Del) that goes step by step through `update_linux_resource`: map, sum, comparison, resize,
response, end of the hot plug, new count, then memory, then `online_cpu_mem`.  Every `await`
ends a step.  The driver's lock is shared by vcpu resizes and exclusive for memory ones.

| actions | code |
|---|---|
| `RunVmmAction` with `ResizeVcpu`, `AddMemDevice`, `AddBalloonDevice` | `run_vmm_event_loop`, `run_vmm_action`, `VcpuManager::resize_vcpu`, `insert_or_update_device` |
| `HandleStreamEvent`, `HandleReconnectEvent` | `UpcallEpollHandler` |
| `ProcessCpuAction` | `process_cpu_action` |
| `Guest…` | the guest's kernel (external) |
| `Cpu…`, `Mem…`, `Online` | `cpu.rs`, `mem.rs`, `inner.rs`, `vmm_instance.rs` |

vCPUs are counted in fractions (`Unit` of them make one), memory in blocks.  `DefaultVcpu` is
`default_vcpus`, which may be a fraction: the VM boots with its ceiling (`BootVcpu`), while
`current_vcpu` starts as the fraction.  Quotas with different periods are taken as normalised.
`do_update_cpu_resources` reads `old_vcpus` and computes the target (`CpuOld`) before it waits
for the driver's lock (`CpuResize`).

**Settings.**  `serial`: one operation at a time; `resources`: what containers ask for;
`faults`: the stream breaks, the guest fails a hot plug, a thread does not tell its tid, a
thread cannot be started, a device refuses a size, a caller times out, the agent refuses to
online, a cpuset is not understood.

`VmmSpec` is the VMM with *any* callers that keep to its contract (1 to `MaxVcpu` vcpus).
`ImplementsVmm` says that the runtime is such a caller, so what is proved of `VmmSpec` holds
of the composed system.

**The abstract specification** `VcpuService` says what the VMM promises its callers of the number
of vcpus: it stays within 1 and the maximum, one resize is under way at a time, vcpus that
are added run from its start even if the guest is never told of them, those to be removed run
to its end, and then exactly the number asked for is left.  `Count`, `action` and `Remain` (the
vcpus that stay when the pending hot plug has ended) are the refinement mapping,
`ImplementsService` the refinement.  A resize that the guest fails stays under way: nothing in
the code resets the action.

## 6. Properties and runs

A run's settings are chosen in `Init`, so one run asks its question in several situations.

| passing run | settings | properties |
|---|---|---|
| `cm` | one container with an exec: a disciplined client in legacy and in passfd io mode, a fresh one in passfd io mode; without the exec: a fresh one that pauses, in legacy io mode, and one that creates over a container, in passfd io mode | `TypeOK`, `CleanupOnce`, `ExitCodeIsOwn`, `StopsOwnContainer`, `PlainExitCleansUp`, `PlainEndedIsStopped`, `WaitSeesExit`, `ImplementsLifecycle` |
| `cm_live` | an orderly client in legacy io mode; one that pauses and resumes, in both io modes; two containers in passfd io mode; fair | `WaitReturns`, `ImplementsFairLifecycle` |
| `st` | two containers with two storages, one of them shared, every failure, two requests at a time; an orderly client with three containers, with one and with several storages each | `TypeOK`, `RefsCover`, `UpdateFindsEntry`, `UnmountsUnused`, `InUseIsMounted`, `RefsExact` |
| `ap` | eight pairings of requests, two at a time, fair | `TypeOK`, `ExitKept`, `NoZombieForgotten`, `AnswerIsExit`, `LostRaceAnswered`, `FrozenForAReason`, `ImplementsProcessLife`, `LockReleased`, `WaitReturns`, `ReadWoken` |
| `rz` | seven mixtures of demands, faults and concurrency, fair | `TypeOK`, `TidsArePresent`, `GuestAgrees`, `OnlineHasThread`, `CurrentIsActual`, `VcpusSuffice`, `ImplementsVmm`, `ImplementsService`, `HotplugEnds`, `OperationEnds` |

What they show, beside types:

- *Shim.*  Whatever calls fail, and even if the VM dies: in whatever order a client calls, the
  volumes and rootfs of a container are cleaned up at most once, as long as no container is
  created under an id in use, and in legacy io mode Wait is answered only when the exit code
  is in place.  The condition is needed: when a create over a Stopped container fails but the
  agent keeps its container, a start of the Stopped one makes it Running, and its next stop
  cleans up a second time.  For a client that calls in containerd's order, a wait
  thread stops its own container and never its successor under the same id, and records the
  exit code of its own process.  If it does not pause either, a container is cleaned up when
  its process ends, stays Stopped (in legacy io mode), and goes through the stages of
  `ContainerLifecycle`.  Wait requests return, also while containers are paused and resumed.
- *Storages.*  A reference that a container or a request holds is counted, so nothing is
  unmounted in use; for an orderly client counts are exact and storages mounted.
- *Agent.*  No exit is lost between `start` and the SIGCHLD handler, no zombie is forgotten,
  a wait answers with the stored code, the loser of a race does not block with the mutex, no
  container stays frozen, and every process goes through the stages of `ProcessLife`.  The sandbox mutex is released unless one of the three things
  `Wedged` names has happened: a start whose init process died or is frozen before it opened
  the exec fifo, a create or exec into a frozen cgroup, and in passfd io mode output that a
  descendant keeps open.  That there are no others is what `LockReleased` says.
- *Resizing.*  The list of thread ids names the vcpus with a thread; the guest never has a
  vcpu without one unless the stream breaks; whatever fails and however many operations
  run at a time, the VMM resizes as `VcpuService` says; without faults below, and one
  operation at a time, `current_vcpu`, rounded up, is the VM's count and a container goes on only with the
  vcpus the sum calls for.  Hot plugs end
  unless the guest fails them or new threads cannot be started (the VMM thread then waits for
  good), and so do operations that come one at a time, whatever the guest and the stream do.

| disagreement | property | what the code does |
|---|---|---|
| `cm_pause_force` | `ExitCleansUp` | the VM dies while the container is Paused: `stop_process(force)` refuses, Stopped is published without cleanup |
| `cm_pause_ended` | `EndedIsStopped` | a resume writes Running over the wait thread's Stopped |
| `st_race` | `ReusedExists` | two creates raise the count before either reads it: both skip the storage |
| `st_shared` | `KeptIsMounted` | a shared storage whose device failed keeps its entry |
| `ap_read` | `ReadEnds` | `notify_waiters` leaves nothing for a read that begins after the exit was announced: it waits while a descendant has the terminal |
| `rz_mem` | `MemoryIsGranted` | the second hot plug passes what is to be added where the virtio-mem device takes its total |
| `rz_answer` | `RequestAnswered` | two requests before one wake-up of the VMM thread: one is taken, and the second caller waits |

`EndedIsStopped` also fails without pauses in passfd io mode: when WaitProcess fails the
thread returns and the status stays Running.  That is why `PlainEndedIsStopped` is stated for
legacy io mode.

**Bounds.**

- `ContainerManager`: one container with one exec has all interleavings of a container's
  requests with the wait threads of both processes; containers meet only at the `containers`
  lock, which `cm_live` covers with two.  Two wait threads: one for each process, or a late
  one of a deleted container beside its successor's.  Three objects are a container, its
  exec and a successor (legacy io mode); the other settings of `cm` have two, any two.  Objects and threads are
  reused, so behaviours are not bounded in length.
- `AgentStorage`: two tasks and two containers give every pair of requests on a storage, two
  storages the partial failures.  References can leak, so `MaxRefs` (3) stops new creates;
  a state with nothing but leaked references has no successor, hence no deadlock check.
- `AgentProcesses`: one container, one exec, two requests beside the handler; up to three
  pids, enough for a hook beside init and exec.  `PidsLeft` lets a request with hooks begin
  only when pids are left.  The settings pair the requests that touch the same state.  A
  wedged agent may stop, hence no deadlock check.
- `SandboxResize`: two containers, halves of vcpus (`Unit` 2), a default of half a vcpu, `MaxVcpu`
  3 above `BootVcpu` 1 (so several vcpus are
  plugged at once and the limit is met), `MaxMem` 3 and 4, `MaxReconnect` 0 in `rz` (the
  limit is met at once) and 1 elsewhere.  Six channels are more than two containers can
  use at a time (`ResizeAssumption`).  A VMM thread that waits for good
  and an idle sandbox may stop, hence no deadlock check.

Symmetry is used in `cm` and the runs on pauses (objects, threads, waiters) and in `st`
(tasks), never where liveness is checked.

**Fairness.**

- The shim's runtime polls every task that can go on: weak fairness of the wait thread's
  steps, of the ends of pause and resume (their agent calls have timeouts) and of Wait's
  return.  `inner` is a tokio `RwLock`, first come first served: strong fairness of `StopStep`.
  That the copies of the output end once the process is gone is an assumption on the guest.
- In the agent, the tokio mutex is first come first served too: strong fairness of the steps
  that wait for it (`Locking`, `Handle`), weak fairness of the others.  `waitpid` takes the
  oldest child: strong fairness of `HandlerReap(p)`.  Children that are not frozen get on with
  their start.  A process is assumed to exit only if it was killed and is not frozen, or is
  a hook, which has a timeout.
- In the resize, weak fairness of each caller's steps, of the handlers of the VMM thread,
  and of the guest's kernel answering, or failing, a request.

Nothing is assumed of clients.  `OperationEnds` counts on the caller's 250 ms timeout.

## 7. Proofs

The proofs are for every value of the constants within the named assumptions and every
setting.  Each has one step per action, and lemmas for what an action leaves alone.
`Zenon` in a leaf names the prover that finds it, where the first one tried would not, or not
as fast; `SMTT(30)` and `ZenonT(60)` give a leaf more time than it takes on an idle machine.

Assumptions.  `ConstantsAssumption`, `ProcessAssumption` and `VmmAssumption` keep special values
apart and numbers in range.  `StorageAssumption` adds that containers and requests are
finitely many, and that a container has no storage twice.  `ResizeAssumption` adds that
containers are finitely many and ask for natural numbers of cpus and memory, and that there
are more channels than twice the containers and one: the code makes a new channel for every
resize, the model takes an unused one, and so many can be in use (held by a task, in a
response, and with the vcpu manager).  Every invariant named below is a definition of its
component's module, and TLC has gone through it on the runs' settings.

**`ContainerManagerProofs`**

- `TypeCorrect`: `[]TypeOK`; the strengthening is that a thread that is not idle has an object.
- `CleanedUpOnce`: `[]CleanupOnce`, for `Fresh` clients.  It is not inductive: `stop_process`
  cleans up what is Running, so one has to know that what was cleaned up never runs again.
  `CleanupInv` says why: what runs, is Paused or is being paused or resumed has not been cleaned up; the agent
  has started it; and an object that has been cleaned up does not meet a guest container
  that can still be started.  What the agent keeps of a failed create is under an id that is
  not registered; that is where `Fresh` is used.
- `WaitsSeeExit`: in legacy io mode, `WaitSeesExit`, by `WaitInv`: from the agent's reply on the
  thread has an exit code; it has recorded it before it publishes; a closed watcher's
  object has a code.
- `ThreadStopsItsOwn`, `CodeIsItsOwn`: `[]` of `StopsOwnContainer` and `ExitCodeIsOwn`, by
  `OwnInv`.  The code looks containers and processes up by ids, which are reused.  What makes
  it right for an orderly client is that it can neither start a container twice nor delete it
  before its wait thread has stopped it: so the thread of an init process is the only one, its
  object is the one registered, and the agent's process under that id is none but its own.
- `PlainCleansUp`, `PlainStaysStopped`: `[]` of `PlainExitCleansUp` and `PlainEndedIsStopped`, by
  `PlainInv` on top of `OwnInv`: without pauses a started container is Running until its thread
  stops it, which cleans it up; then it is Stopped and has its exit code, or a thread that is
  about to record it.
- `ManagerImplementsLifecycle`: `ImplementsLifecycle`.  One lemma per action says what becomes
  of one container's stage; the invariants above exclude the stage `astray`.

**`AgentStorageProofs`**

- `TypeCorrect`, `ReferencesCovered`, `EntryFound`, `OnlyUnusedUnmounted`: `[]` of `TypeOK`,
  `RefsCover`, `UpdateFindsEntry` and the action property `UnmountsUnused`, for any client and all
  failures.  `TypeOK` has `EntryInv`, which says that the entries are those with a count.  It
  and `RequestInv` (where a request is in its storages) go with `RefsCover`; how many hold a reference changes by at most one
  where the count does.
- `ReferencesExact`, `UsedAreMounted`: `[]` of `RefsExact` and `InUseIsMounted`, for an orderly
  client.  That a count is no more than the references needs the whole path of a create:
  only one request runs (`SerialInv`), its entry's device is as the request believes
  (`DeviceInv`), the lists name exactly the storages added so far (`ListInv`), and the count is
  the number of containers and requests at the storage (`CountInv`).

**`AgentProcessesExits`, `AgentProcessesTables`, `AgentProcessesProofs`**
(one chain of modules, each on the one before)

- `TypesKept`, `NoExitLost`, `NoZombieLeft`, `WaitsAnswered`, `LosersAnswered`, `FreezerReleased`: `[]`
  of `TypeOK`, `ExitKept`, `NoZombieForgotten`, `AnswerIsExit`, `LostRaceAnswered`, `FrozenForAReason`.
- The invariant: who waits with the mutex has it (`LockInv`); a child being started is in no
  table, and if it was reaped the handler still has to look for it, which needs the mutex
  (`ChildInv`, and `HookInv` for hooks); a pid is in one slot (`SlotInv`); a wait's channel is
  open only while its process is in the table (`WaitChannel`); a container that is not in
  the sandbox has neither processes nor a frozen cgroup, and one that a request is about
  to destroy is in the sandbox (`TableInv`).
- `AgentImplementsProcessLife`: `ImplementsProcessLife`.  It needs the invariants above and
  `ReapInv`: an exit is recorded only of a process that is in a table and has been reaped, and
  until the handler has told the exit of the child it has reaped, its pid is not given out
  again.  Without the last part of `TableInv` a destroy could put a container back in the
  sandbox, as stopped, that was no longer there.  Lemmas on `Stages` say what a step does to one slot (`StageIs`,
  `StageSame`), and one lemma per kind of step (`LifeStart`, `LifeReap`, `LifeRecord`,
  `LifeCollect`, `LifeDrop`) turns that into a step of the abstract specification.

**`VcpuHotplugProofs`**

- `Invariant`: `VmmSpec` keeps `VcpuInv` (what the VMM thread knows by itself: the vcpus with a
  thread are the lowest ids, those being unplugged the highest of them), `PlugInv` (how the
  pending action, the client's state, the guest's job and its answer fit together) and
  `AgreeInv` (which vcpus the guest has at each stage of a hot plug).
- `TidsMatch`, `ThreadsOutliveGuest`, `GuestKeepsUp`: `[]` of `TidsArePresent`,
  `OnlineHasThread`, `GuestAgrees`, for any callers, any `MaxVcpu` and any number of
  reconnections.
- `VmmImplementsService`: `ImplementsService`, from `VcpuInv`: since the vcpus to be removed are
  the highest of those with a thread, what is left when they are stopped is what was asked for.

**`SandboxResizeContract`, `SandboxResizeProofs`** (the second on the first)

- `RuntimeKeepsContract`: `ImplementsVmm`, however many operations run at a time.  `RuntimeInv`
  says why the numbers asked for are within the contract: the sums over the containers are
  natural numbers, a memory resize has the driver to itself, and it asks for more only with
  more to ask for.  `RuntimeInv` and the VMM's `VcpuInv` are proved together, since a step of the
  runtime keeps the contract by both.  With it the theorems on `VmmSpec` carry over:
  `RuntimeKeepsVcpus` and `RuntimeGetsService` state three of the VMM's invariants and
  `ImplementsService` for the composed system.
- `RuntimeTypes`: `[]TypeOK`.  That `resize_vcpu` finds a channel nobody uses is a count:
  `AnswerInv`, the requests and responses in the channels are no more than the tasks that
  wait for one.
- `CurrentIsKept`: `[]CurrentIsActual`, for any `DefaultVcpu`, by `CalmInv`: for operations that come one at a time,
  `Stage` says at each step what the channels and the vcpu manager have in store for the
  operation under way: its request, the answer to it, the hot plug that the guest is to
  finish or that has finished, or nothing.
- `SumIsServed`: `[]VcpusSuffice`, by `SumInv`: the number at hand is the sum over the containers,
  then at least what the sum calls for, then the VM's count.  Rounding up and the cut to
  `MaxVcpu` are lemmas on `Ceil` and `Least`.
- A sum over a finite set is a recursive function.  That it is a natural number is shown by
  the least counterexample, as a principle of induction cannot be used here; more about
  sums than that, and that equal maps have equal sums, is not needed.

**Only model-checked:** liveness under fairness, which is out of the prover's reach:
`WaitReturns` and `ImplementsFairLifecycle` of the shim, `LockReleased`, `WaitReturns` and `ReadWoken`
of the agent, `HotplugEnds` and `OperationEnds` of the resizing.  Every other property of a
passing run has a theorem.

## 8. Not modelled

- *The virt sandbox and its health check*: start and stop are sequences of calls under one
  lock.  Two hazards are left there: the VM is stopped before the monitor is told
  (`health_check.rs:91`), and a start that fails late is not finished by its retry
  (`sandbox.rs:709`).
- *The device manager, the factory, the persisted state, network, rootfs and volumes of the
  shim; netlink, uevents, the bind watcher and the set-up of devices in the agent*: calls in
  sequence and I/O under one lock.  What matters of them to the models is whether they
  succeed.
- *The other hypervisors*: command lines, QMP and REST calls.
- *Dragonball's devices, allocators, boot and architecture code*: data planes, register
  layouts, and sequential data structures, of which the interesting theorems are
  inductions over data.
- *The Go runtime, tools, libraries, generated code.*

Within the modelled parts: the State request reads status and exit code one after the other
(`process.rs:418`) and changes nothing, so it has no action; an io set-up that fails after the
start (`container.rs:313`) leaves a process nobody waits for, which `StartIo` has and
`WaitReturns` excludes; a pid that is reused while a wait still looks for it (`rpc.rs:630`)
is excluded by `PidFree`; swap, the initial size and static resource management are left out
of the resizing.  `RefsExact` and `InUseIsMounted` say nothing of removes that time out.
