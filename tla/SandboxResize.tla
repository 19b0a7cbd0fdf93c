-------------------------- MODULE SandboxResize --------------------------
(* The runtime's side of resizing the VM to its containers: the resource   *)
(* manager's sums of vcpus and memory (cpu.rs, mem.rs), the driver that    *)
(* turns them into requests to the VMM (dragonball/inner.rs), and the      *)
(* container operations that call them.  vCPUs are counted in fractions,   *)
(* Unit of which make one; memory in units of the hot plug's block size.   *)
EXTENDS VcpuHotplug, Integers, FiniteSetsExt

CONSTANTS
  Cid,          \* container ids; a container has one operation under way at most,
                \* for its inner lock is held throughout
  NoEntry,      \* no entry in a map
  Unit,         \* fractions of a vcpu
  DefaultVcpu,  \* default_vcpus, in fractions: the VM boots with as many vcpus as it takes
  DefaultMem,   \* orig_toml_default_mem, which the VM boots with
  MaxMem        \* default_maxmemory

Op == {"Add", "Update", "Del"}

\* The steps of update_linux_resource, and the answers waited for.
Steps == {"idle", "cpu_map", "cpu_sum", "cpu_cmp", "cpu_old", "cpu_send", "cpu_recv",
          "cpu_wait", "cpu_cur", "mem_map", "mem_sum", "mem_size", "mem_deflate", "mem_recv",
          "online"}

VARIABLES
  live,        \* the registered containers whose Del was not begun
  linux,       \* [Cid -> resources]: inner.linux_resources
  cpus,        \* container_cpu_resources: [Cid -> [quota, cpuset] or NoEntry]
  mems,        \* container_mem_resources: [Cid -> limit or NoEntry]
  current,     \* current_vcpu, in fractions
  hotplugged,  \* mem_hotplug_size_mb of the driver
  inflated,    \* balloon_size of the driver
  pc, op,      \* [Cid -> step], [Cid -> Op]
  num,         \* [Cid -> the local number the step uses next]: the sum, the target
  granted      \* memory the last resize_memory was for, NoEntry once one has failed

task   == <<live, linux, pc, op, num>>
sums   == <<cpus, mems, current>>
driver == <<hotplugged, inflated, granted>>
vars   == <<setting, vmm, task, sums, driver>>

\* What a container asks for: a quota and a set of cpus, or neither; a limit of memory.
IsResource(r) ==
  /\ r.mem \in Nat
  /\ r.cpu # NoEntry =>
       r.cpu.quota \in Int /\ r.cpu.cpuset \subseteq Nat /\ IsFiniteSet(r.cpu.cpuset)

\* The vcpus that x fractions take.
Ceil(x) == (x + Unit - 1) \div Unit

\* serial: operations come one at a time; resources: the ones containers ask for.
ASSUME ResizeAssumption ==
  /\ Client = Cid /\ IsFiniteSet(Cid) /\ Unit \in Nat \ {0}
  /\ DefaultVcpu \in Nat /\ BootVcpu = Ceil(DefaultVcpu)
  /\ IsFiniteSet(Chan) /\ Cardinality(Chan) > 2 * Cardinality(Cid) + 1
  /\ DefaultMem \in Nat /\ MaxMem \in Nat /\ NoEntry \notin Nat
  /\ \A s \in Settings : s.serial \in BOOLEAN /\ \A r \in s.resources : IsResource(r)

Serial    == setting.serial
Resources == setting.resources

\* A type invariant: the range of each variable.
RuntimeTypeOK ==
  /\ live \subseteq Cid
  /\ linux \in [Cid -> Resources \cup {NoEntry}]
  /\ cpus \in [Cid -> {NoEntry} \cup {r.cpu : r \in Resources}]
  /\ mems \in [Cid -> {NoEntry} \cup {r.mem : r \in Resources}]
  /\ current \in Nat /\ granted \in Nat \cup {NoEntry}
  /\ hotplugged \in Nat /\ inflated \in Nat
  /\ pc \in [Cid -> Steps] /\ op \in [Cid -> Op] /\ num \in [Cid -> Nat]
TypeOK == VmmTypeOK /\ RuntimeTypeOK

Init ==
  /\ VmmInit
  /\ live = {} /\ linux = [c \in Cid |-> NoEntry]
  /\ cpus = [c \in Cid |-> NoEntry] /\ mems = [c \in Cid |-> NoEntry]
  /\ current = DefaultVcpu
  /\ hotplugged = 0 /\ inflated = 0 /\ granted = DefaultMem
  /\ pc = [c \in Cid |-> "idle"] /\ op = [c \in Cid |-> "Add"]
  /\ num = [c \in Cid |-> 0]
-----------------------------------------------------------------------------
Least(a, b)    == IF a < b THEN a ELSE b
Greatest(a, b) == IF a > b THEN a ELSE b

Entries(map) == {c \in Cid : map[c] # NoEntry}

\* calc_cpu_resources; a quota is in fractions, -1 without one.
Required ==
  LET S      == Entries(cpus)
      quota  == SumFunction([c \in S |-> Greatest(cpus[c].quota, 0)])
      cpuset == UNION {cpus[c].cpuset : c \in S}
  IN  CASE S = {}                      -> DefaultVcpu
        [] quota = 0 /\ cpuset # {}    -> Cardinality(cpuset) * Unit
        [] quota > 0                   -> quota + DefaultVcpu
        [] OTHER                       -> Greatest(DefaultVcpu, Unit)

\* get_current_mb
RequiredMem == DefaultMem + SumFunctionOnSet(mems, Entries(mems))

Goto(c, step)       == pc' = [pc EXCEPT ![c] = step]
GotoWith(c, step, n) == Goto(c, step) /\ num' = [num EXCEPT ![c] = n]

\* Steps that hold the driver's lock for reading, and for writing.
Reading(c) == pc[c] \in {"cpu_recv", "cpu_wait"}
Writing(c) == pc[c] \in {"mem_deflate", "mem_recv"}

\* The operation ends, with or without an error: an Add that failed leaves no
\* container, whatever it put into the maps.
Finish(c, ok) ==
  /\ GotoWith(c, "idle", 0)
  /\ live' = IF op[c] = "Add" /\ ok THEN live \cup {c} ELSE live
  /\ linux' = IF c \in live' THEN linux ELSE [linux EXCEPT ![c] = NoEntry]
  /\ op' = [op EXCEPT ![c] = "Add"]

\* Container::create has containers.write(), update and stop_process have
\* containers.read(); Del takes the resources of the last create or update.
Begin(c) ==
  /\ pc[c] = "idle"
  /\ \A d \in Cid : pc[d] # "idle" => op[d] # "Add" /\ ~Serial
  /\ \/ /\ c \notin live /\ \A d \in Cid : pc[d] = "idle"
        /\ op' = [op EXCEPT ![c] = "Add"]
        /\ \E r \in Resources : linux' = [linux EXCEPT ![c] = r]
        /\ UNCHANGED live
     \/ /\ c \in live
        /\ op' = [op EXCEPT ![c] = "Update"]
        /\ \E r \in Resources : linux' = [linux EXCEPT ![c] = r]
        /\ UNCHANGED live
     \/ /\ c \in live
        /\ op' = [op EXCEPT ![c] = "Del"]
        /\ live' = live \ {c}
        /\ UNCHANGED linux
  /\ Goto(c, "cpu_map")
  /\ UNCHANGED <<num, setting, vmm, sums, driver>>
-----------------------------------------------------------------------------
(* update_cpu_resources                                                    *)

\* update_container_cpu_resources
CpuMap(c) ==
  /\ pc[c] = "cpu_map"
  /\ LET new == linux[c].cpu
         keep == /\ op[c] = "Update" /\ cpus[c] # NoEntry
                 /\ cpus[c].quota > 0 /\ new.quota < 0
     IN  cpus' = CASE new = NoEntry  -> cpus
                   [] op[c] = "Del"  -> [cpus EXCEPT ![c] = NoEntry]
                   [] keep           -> cpus
                   [] OTHER          -> [cpus EXCEPT ![c] = new]
  /\ Goto(c, "cpu_sum")
  /\ UNCHANGED <<live, linux, op, num, mems, current, setting, vmm, driver>>

\* LinuxContainerCpuResources::try_from does not understand the container's cpuset.
CpuMapFails(c) ==
  /\ pc[c] = "cpu_map" /\ linux[c].cpu # NoEntry /\ "cpuset" \in Faults
  /\ Finish(c, FALSE)
  /\ UNCHANGED <<setting, vmm, sums, driver>>

CpuSum(c) ==
  /\ pc[c] = "cpu_sum"
  /\ GotoWith(c, "cpu_cmp", Required)
  /\ UNCHANGED <<live, linux, op, setting, vmm, sums, driver>>

CpuCompare(c) ==
  /\ pc[c] = "cpu_cmp"
  /\ IF num[c] = current THEN GotoWith(c, "mem_map", 0)
                         ELSE Goto(c, "cpu_old") /\ UNCHANGED num
  /\ UNCHANGED <<live, linux, op, setting, vmm, sums, driver>>

\* Mutant: the comparisons of Add and Del swapped.
KeptSwapped(c) ==
  \/ op[c] = "Add" /\ current < num[c]
  \/ op[c] = "Del" /\ current > num[c]

\* do_update_cpu_resources asks for nothing: an Add never takes vcpus away, and a Del
\* never adds any.
Kept(c) ==
  \/ op[c] = "Add" /\ current > num[c]
  \/ op[c] = "Del" /\ current < num[c]

Target(c) == Ceil(Greatest(num[c], Unit))

\* old_vcpus is read and the target computed, before the driver is called.  The driver
\* does nothing if the two are the same.
CpuOld(c) ==
  /\ pc[c] = "cpu_old"
  /\ IF Kept(c) \/ Target(c) = Ceil(current) THEN GotoWith(c, "cpu_cur", Ceil(current))
                                            ELSE GotoWith(c, "cpu_send", Target(c))
  /\ UNCHANGED <<live, linux, op, setting, vmm, sums, driver>>

\* Mutant: the number asked for is not limited.
CpuResizeUnclipped(c) ==
  /\ pc[c] = "cpu_send" /\ \A d \in Cid : ~Writing(d)
  /\ Send("vcpu", num[c])
  /\ Goto(c, "cpu_recv")
  /\ UNCHANGED <<live, linux, op, num, resp, held, signalled, setting, vcpu, conn, dev,
                 guest, sums, driver>>

\* resize_vcpu of the driver, once it has its lock, with the most it can give.
CpuResize(c) ==
  /\ pc[c] = "cpu_send" /\ \A d \in Cid : ~Writing(d)
  /\ Send("vcpu", Least(num[c], MaxVcpu))
  /\ GotoWith(c, "cpu_recv", Least(num[c], MaxVcpu))
  /\ UNCHANGED <<live, linux, op, resp, held, signalled, setting, vcpu, conn, dev,
                 guest, sums, driver>>

CpuRecv(c) ==
  /\ pc[c] = "cpu_recv"
  /\ Receive(c)
  /\ IF Head(resp).ok
     THEN Goto(c, "cpu_wait") /\ UNCHANGED <<live, linux, op, num>>
     ELSE Finish(c, FALSE)
  /\ UNCHANGED <<queue, bell, setting, vcpu, conn, dev, guest, sums, driver>>

\* recv_timeout: the message, or after DEFAULT_HOTPLUG_TIMEOUT an error.
CpuWait(c) ==
  /\ pc[c] = "cpu_wait"
  /\ \/ /\ held[c] \in signalled
        /\ Goto(c, "cpu_cur")
        /\ UNCHANGED <<live, linux, op, num>>
     \/ /\ held[c] \notin signalled /\ "timeout" \in Faults
        /\ Finish(c, FALSE)
  /\ Drop(c)
  /\ UNCHANGED <<queue, bell, setting, vcpu, conn, dev, guest, sums, driver>>

\* update_current_vcpu
CpuCurrent(c) ==
  /\ pc[c] = "cpu_cur"
  /\ current' = num[c] * Unit
  /\ GotoWith(c, "mem_map", 0)
  /\ UNCHANGED <<live, linux, op, cpus, mems, setting, vmm, driver>>
-----------------------------------------------------------------------------
(* update_mem_resources and the driver's resize_memory                     *)

MemMap(c) ==
  /\ pc[c] = "mem_map"
  /\ mems' = [mems EXCEPT ![c] = IF op[c] = "Del" THEN NoEntry ELSE linux[c].mem]
  /\ Goto(c, "mem_sum")
  /\ UNCHANGED <<live, linux, op, num, cpus, current, setting, vmm, driver>>

MemSum(c) ==
  /\ pc[c] = "mem_sum"
  /\ GotoWith(c, "mem_size", RequiredMem)
  /\ UNCHANGED <<live, linux, op, setting, vmm, sums, driver>>

HadMem == DefaultMem + hotplugged

\* The sizes are recorded, then the device is asked for what is to be added.
HotplugMem(c) ==
  /\ hotplugged' = num[c] - DefaultMem
  /\ inflated' = 0
  /\ Send("mem", num[c] - HadMem)
  /\ Goto(c, "mem_recv")

MemSize(c) ==
  /\ pc[c] = "mem_size"
  /\ \A d \in Cid : ~Reading(d) /\ ~Writing(d)
  /\ \/ /\ num[c] > MaxMem \/ num[c] = HadMem
        /\ Goto(c, "online")
        /\ granted' = IF num[c] > MaxMem \/ granted = NoEntry THEN granted ELSE num[c]
        /\ UNCHANGED <<hotplugged, inflated, queue, bell>>
     \/ /\ num[c] <= MaxMem /\ num[c] < HadMem
        /\ inflated' = HadMem - num[c]
        /\ Send("balloon", HadMem - num[c])
        /\ Goto(c, "mem_recv")
        /\ UNCHANGED <<hotplugged, granted>>
     \/ /\ num[c] <= MaxMem /\ num[c] > HadMem /\ inflated > 0
        /\ Send("balloon", 0)
        /\ Goto(c, "mem_deflate")
        /\ UNCHANGED driver
     \/ /\ num[c] <= MaxMem /\ num[c] > HadMem /\ inflated = 0
        /\ HotplugMem(c)
        /\ UNCHANGED granted
  /\ UNCHANGED <<live, linux, op, num, resp, held, signalled, setting, vcpu, conn, dev,
                 guest, sums>>

MemDeflated(c) ==
  /\ pc[c] = "mem_deflate"
  /\ Receive(c)
  /\ IF Head(resp).ok
     THEN HotplugMem(c) /\ UNCHANGED <<live, linux, op, num, granted>>
     ELSE /\ Finish(c, FALSE) /\ granted' = NoEntry
          /\ UNCHANGED <<queue, bell, hotplugged, inflated>>
  /\ UNCHANGED <<setting, vcpu, conn, dev, guest, sums>>

MemRecv(c) ==
  /\ pc[c] = "mem_recv"
  /\ Receive(c)
  /\ IF Head(resp).ok
     THEN /\ Goto(c, "online")
          /\ granted' = IF granted = NoEntry THEN NoEntry ELSE num[c]
          /\ UNCHANGED <<live, linux, op, num>>
     ELSE Finish(c, FALSE) /\ granted' = NoEntry
  /\ UNCHANGED <<hotplugged, inflated, queue, bell, setting, vcpu, conn, dev, guest, sums>>

\* agent.online_cpu_mem, and the rest of the operation.
Online(c) ==
  /\ pc[c] = "online"
  /\ \/ Finish(c, TRUE)
     \/ "agent" \in Faults /\ Finish(c, FALSE)
  /\ UNCHANGED <<setting, vmm, sums, driver>>

TaskStep(c) ==
  \/ CpuMap(c) \/ CpuMapFails(c) \/ CpuSum(c) \/ CpuCompare(c) \/ CpuOld(c) \/ CpuResize(c)
  \/ CpuRecv(c) \/ CpuWait(c) \/ CpuCurrent(c) \/ MemMap(c) \/ MemSum(c) \/ MemSize(c)
  \/ MemDeflated(c) \/ MemRecv(c) \/ Online(c)

\* A step of the VMM or of the guest.
Below(A) == A /\ UNCHANGED <<setting, task, sums, driver>>

Next ==
  \/ \E c \in Cid : Begin(c) \/ TaskStep(c)
  \/ Below(RunVmmAction) \/ Below(HandleStreamEvent)
  \/ Below(HandleReconnectEvent) \/ Below(ProcessCpuAction)
  \/ Below(GuestGreets) \/ Below(GuestServes) \/ Below(GuestFails) \/ Below(GuestCloses)

Spec == Init /\ [][Next]_vars

\* Tasks are run, the VMM's thread handles its events, and the guest's kernel answers.
FairSpec ==
  /\ Spec
  /\ \A c \in Cid : WF_vars(TaskStep(c))
  /\ WF_vars(Below(RunVmmAction)) /\ WF_vars(Below(HandleStreamEvent))
  /\ WF_vars(Below(HandleReconnectEvent)) /\ WF_vars(Below(ProcessCpuAction))
  /\ WF_vars(Below(GuestGreets)) /\ WF_vars(Below(GuestServes \/ GuestFails))
-----------------------------------------------------------------------------
(* Properties.                                                             *)

\* The runtime keeps to the VMM's contract: it asks for at least one vcpu and at most
\* max_vcpu_count, and what VcpuHotplug says of any callers holds of it.
ImplementsVmm == VmmSpec

\* Only what does not touch the vcpus may fail.
Harmless == {"mem", "agent", "cpuset"}

\* cpu.rs, "Current number of vCPUs": while nobody resizes, current_vcpu is the number
\* of vcpu threads, once rounded up (default_vcpus may be a fraction), as long as the
\* operations come one at a time, none gives up waiting, and no part of a hot plug fails.
CurrentIsActual ==
  /\ Serial /\ Faults \subseteq Harmless
  /\ \A c \in Cid : pc[c] \notin {"cpu_recv", "cpu_wait", "cpu_cur"}
  => Ceil(current) = Count

\* A container that is created or updated goes on only with the vcpus that the sum
\* over the containers calls for, or the most there can be.
VcpusSuffice ==
  \A c \in Cid :
    Serial /\ Faults \subseteq Harmless /\ pc[c] = "mem_map" /\ op[c] # "Del"
    => Count >= Least(Ceil(Required), MaxVcpu)

\* Why these hold, in a form that every step preserves.  Of any operations: one with a
\* step to go has its container's resources, resize_memory has the driver to itself, and
\* adds memory when it has deflated the balloon, and resize_vcpu is asked for some vcpu.
RuntimeInv ==
  /\ setting \in Settings /\ RuntimeTypeOK
  /\ \A c \in Cid : c \in live \/ pc[c] # "idle" => linux[c] \in Resources
  /\ \A c, d \in Cid : Writing(c) /\ (Writing(d) \/ Reading(d)) => c = d
  /\ \A c \in Cid : pc[c] = "mem_deflate" => num[c] > HadMem
  /\ \A c \in Cid : pc[c] = "cpu_send" => num[c] > 0

\* Every request in the channels, and every response, has a task that waits for one.
Waiting   == {c \in Cid : pc[c] \in {"cpu_recv", "mem_deflate", "mem_recv"}}
AnswerInv == Len(queue) + Len(resp) <= Cardinality(Waiting)

\* Of operations that come one at a time, where no part of a hot plug may fail:
\* what the channels and the vcpu manager have in store for the one under way.
Calm     == Serial /\ Faults \subseteq Harmless
Silent   == ~bell /\ queue = <<>> /\ resp = <<>>
Asked    == bell /\ Len(queue) = 1 /\ resp = <<>>
Answered == ~bell /\ queue = <<>> /\ Len(resp) = 1
Unplanned == action = "none" /\ syncTx = NoChan
Settled   == Unplanned /\ Ceil(current) = Count

\* A resize to n vcpus is done, which channel ch tells, or will be on the guest's word.
Resizing(n, ch) ==
  /\ ch \in Chan /\ n \in Nat
  /\ \/ Unplanned /\ ch \in signalled /\ Count = n
     \/ /\ syncTx = ch /\ ch \notin signalled
        /\ \/ action = "plug" /\ Count = n
           \/ action = "unplug" /\ n \in 1..(Count - 1) /\ pending = n..(Count - 1)

Stage(c) ==
  /\ pc[c] = "cpu_recv" =>
       \/ Asked /\ Head(queue) = [kind |-> "vcpu", n |-> num[c]] /\ Settled
       \/ Answered /\ Head(resp).ok /\ Resizing(num[c], Head(resp).ch)
       \/ Answered /\ Head(resp) = [ok |-> FALSE, ch |-> NoChan] /\ Settled
  /\ pc[c] = "cpu_wait" => Silent /\ Resizing(num[c], held[c])
  /\ pc[c] = "cpu_cur" => Silent /\ Unplanned /\ num[c] = Count
  /\ Writing(c) =>
       Settled /\ \/ Asked /\ Head(queue).kind # "vcpu"
                  \/ Answered /\ Head(resp).ch = NoChan
  /\ ~Reading(c) /\ pc[c] # "cpu_cur" /\ ~Writing(c) => Silent /\ Settled

CalmInv ==
  Calm =>
    /\ ~wedged
    /\ (\A c \in Cid : pc[c] = "idle") => Silent /\ Settled
    /\ \A c \in Cid : pc[c] # "idle" => Stage(c) /\ \A d \in Cid \ {c} : pc[d] = "idle"
    /\ \A c \in Cid : pc[c] # "cpu_wait" => held[c] = NoChan

\* What the number at hand has to do with the sum over the containers.
Enough(n) == n >= Least(Ceil(Required), MaxVcpu)
SumInv ==
  Calm =>
    \A c \in Cid :
      /\ pc[c] \in {"cpu_cmp", "cpu_old"} => num[c] = Required
      /\ pc[c] \in {"cpu_send", "cpu_recv", "cpu_wait"} => Enough(num[c])
      /\ pc[c] \in {"cpu_cur", "mem_map"} /\ op[c] # "Del" => Enough(Count)

Size(d) == IF d = NoDev THEN 0 ELSE d

\* inner.rs, mem_hotplug_size_mb is "the hotplug memory size": once resize_memory
\* returned with the balloon deflated, and none has failed so far, the guest has the
\* memory that was asked for.
MemoryIsGranted ==
  granted # NoEntry /\ inflated = 0 /\ (\A c \in Cid : ~Writing(c)) =>
    DefaultMem + Size(vmem) - Size(balloon) = granted

\* An operation comes to its end if operations come one at a time: every request to
\* the VMM is answered, whatever the guest and the stream to it do, unless starting
\* the threads of new vcpus fails.
OperationEnds ==
  \A c \in Cid :
    (Serial /\ "timeout" \in Faults /\ "spawn" \notin Faults /\ pc[c] # "idle")
      ~> pc[c] = "idle"

\* vmm_action.rs, "Handle requests from the HTTP API Server and send back replies":
\* a request to resize the vcpus is answered.
RequestAnswered == \A c \in Cid : pc[c] = "cpu_recv" ~> pc[c] # "cpu_recv"
===========================================================================
