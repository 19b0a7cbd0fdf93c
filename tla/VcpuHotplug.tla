--------------------------- MODULE VcpuHotplug ---------------------------
(* The VMM thread of dragonball as far as resizing a running VM concerns   *)
(* it: its API channels, the vcpu manager with its pending hot plug, the   *)
(* upcall connection to the guest kernel, and the memory and balloon       *)
(* devices.  One thread runs every handler (Vmm::run_vmm_event_loop), so a *)
(* handler is one action; the guest's answers come in between.             *)
EXTENDS Naturals, FiniteSets, Sequences

CONSTANTS
  MaxVcpu,       \* max_vcpu_count
  BootVcpu,      \* the vcpus the VM boots with
  MaxReconnect,  \* SERVER_MAX_RECONNECT_TIME
  Client,        \* the callers of the VMM's API
  Chan,          \* the channels a hot plug's end is awaited on, reused once dropped
  NoChan,
  NoDev,         \* the size of a device that was not inserted yet
  Settings       \* the situations looked at, one of which a behaviour is in

\* break: the upcall stream breaks; fail: the guest fails a hot plug; tid: a vcpu
\* thread does not tell its tid in time; spawn: a vcpu cannot be created or its
\* thread not be started; mem: a device refuses its new size; timeout: a caller
\* gives up waiting for the end of a hot plug; agent: the agent refuses to online;
\* cpuset: a container's cpuset cannot be parsed.
Fault == {"break", "fail", "tid", "spawn", "mem", "timeout", "agent", "cpuset"}

ASSUME VmmAssumption ==
  /\ MaxVcpu \in Nat /\ BootVcpu \in 1..MaxVcpu /\ MaxReconnect \in Nat
  /\ NoChan \notin Chan /\ NoDev \notin Nat
  /\ \A s \in Settings : s.faults \subseteq Fault

VARIABLES
  setting,     \* the situation
  present,     \* the vcpu ids with a thread: vcpu_infos[id].handle.is_some()
  tids,        \* shared_info.tids, of each pair the vcpu id
  action,      \* vcpus_in_action.0: "none", "plug" (Hotplug), "unplug" (Hotunplug)
  pending,     \* vcpus_in_action.1
  syncTx,      \* action_sycn_tx: the channel to report the end on
  wedged,      \* the VMM thread waits for a thread that never ends
  upcall,      \* UpcallClientInfo.state: "server", "service", "ready", "busy"
  stream,      \* UpcallClientInfo.stream.is_some(), which is ~in_reconnect
  timer,       \* reconnect_timer is armed
  reconnects,  \* reconnect_time
  callback,    \* result_callback is that of a vcpu resize
  event,       \* VcpuStateEvent in its channel: "none", "ok", "failed"
  vmem,        \* requested size of the virtio-mem device, or NoDev
  balloon,     \* size of the balloon device, or NoDev
  queue,       \* the API requests in the channel to the VMM
  bell,        \* api_event_fd is readable
  resp,        \* the responses in the channel from the VMM
  held,        \* [Client -> channel whose receiver it holds, or NoChan]
  signalled,   \* the channels with a message
  job,         \* guest: the upcall request it works on
  reply,       \* what the upcall stream has to read: "none", "ok", "failed", "broken"
  online       \* guest: the vcpus its kernel has

vcpu  == <<present, tids, action, pending, syncTx, wedged>>
conn  == <<upcall, stream, timer, reconnects, callback, event>>
dev   == <<vmem, balloon>>
api   == <<queue, bell, resp, held, signalled>>
guest == <<job, reply, online>>
vmm   == <<vcpu, conn, dev, api, guest>>

Faults == setting.faults
Id     == 0..(MaxVcpu - 1)

Request  == [kind : {"vcpu", "mem", "balloon"}, n : Nat]
Response == [ok : BOOLEAN, ch : Chan \cup {NoChan}]

\* A type invariant: the range of each variable.
VmmTypeOK ==
  /\ setting \in Settings
  /\ present \subseteq Id /\ online \subseteq Id /\ pending \subseteq Id
  /\ tids \in Seq(Id)
  /\ action \in {"none", "plug", "unplug"}
  /\ syncTx \in Chan \cup {NoChan}
  /\ wedged \in BOOLEAN /\ stream \in BOOLEAN /\ timer \in BOOLEAN
  /\ callback \in BOOLEAN /\ bell \in BOOLEAN
  /\ upcall \in {"server", "service", "ready", "busy"}
  /\ reconnects \in 0..(MaxReconnect + 1)
  /\ event \in {"none", "ok", "failed"}
  /\ vmem \in Nat \cup {NoDev} /\ balloon \in Nat \cup {NoDev}
  /\ queue \in Seq(Request) /\ resp \in Seq(Response)
  /\ held \in [Client -> Chan \cup {NoChan}]
  /\ signalled \subseteq Chan
  /\ job \in {"none", "add", "del", "dev"}
  /\ reply \in {"none", "ok", "failed", "broken"}

\* The VM has booted, the upcall client has sent its CONNECT.
VmmInit ==
  /\ setting \in Settings
  /\ present = 0..(BootVcpu - 1) /\ online = present
  /\ tids = [i \in 1..BootVcpu |-> i - 1]
  /\ action = "none" /\ pending = {} /\ syncTx = NoChan /\ wedged = FALSE
  /\ upcall = "server" /\ stream = TRUE /\ timer = FALSE /\ reconnects = 0
  /\ callback = FALSE /\ event = "none"
  /\ vmem = NoDev /\ balloon = NoDev
  /\ queue = <<>> /\ bell = FALSE /\ resp = <<>>
  /\ held = [c \in Client |-> NoChan] /\ signalled = {}
  /\ job = "none" /\ reply = "none"
-----------------------------------------------------------------------------
(* The API: VmmInstance's channels to and from the VMM thread.             *)

\* send_request: the request is queued and the eventfd written.
Send(kind, n) ==
  /\ queue' = Append(queue, [kind |-> kind, n |-> n])
  /\ bell' = TRUE

\* from_vmm.recv() of client c: the oldest response, whosever it is.
Receive(c) ==
  /\ resp # <<>>
  /\ resp' = Tail(resp)
  /\ held' = [held EXCEPT ![c] = Head(resp).ch]
  /\ UNCHANGED signalled

\* The client drops the receiver it holds.
Drop(c) ==
  /\ held' = [held EXCEPT ![c] = NoChan]
  /\ signalled' = signalled \ {held[c]}
  /\ UNCHANGED resp

\* The receiver of channel ch was not dropped.
Awaited(ch) == (\E c \in Client : held[c] = ch) \/ (\E i \in DOMAIN resp : resp[i].ch = ch)

\* A channel nobody uses any more, for a new (sender, receiver) pair.
Unused(ch) == ch # syncTx /\ ~Awaited(ch)

Respond(ok, ch) == resp' = Append(resp, [ok |-> ok, ch |-> ch])

\* Mutant: the early return forgets the response.
RefuseSilent == UNCHANGED <<vcpu, conn, dev, resp, signalled, guest>>

\* The handler of the request ends with an error, having changed nothing.
Refuse == Respond(FALSE, NoChan) /\ UNCHANGED <<vcpu, conn, dev, signalled, guest>>
-----------------------------------------------------------------------------
(* The vcpu manager.                                                       *)

Count == Cardinality(present)

\* calculate_available_vcpus: the lowest ids without a thread, up to n vcpus.
Available(n) ==
  {i \in Id \ present : Cardinality({j \in Id \ present : j < i}) < n - Count}

\* Mutant: the ids are not reversed, so that the lowest go.
RemovableLow(n) == {i \in present : Cardinality({j \in present : j < i}) < Count - n}

\* The ids do_del_vcpu picks to be left with n: the highest.
Removable(n) == {i \in present : Cardinality({j \in present : j > i}) < Count - n}

\* A set of ids in ascending order.
Ascending(S) ==
  [k \in 1..Cardinality(S) |-> CHOOSE i \in S : Cardinality({j \in S : j < i}) = k - 1]

\* tids.truncate(tids.len() - n): the subtraction wraps in a release build, and
\* truncating to more than there is does nothing.
Truncated(n) == IF n > Len(tids) THEN tids ELSE SubSeq(tids, 1, Len(tids) - n)

\* sync_action_finish: the channel gets a message if its receiver still exists.
SyncActionFinish ==
  /\ signalled' = IF syncTx # NoChan /\ Awaited(syncTx) THEN signalled \cup {syncTx} ELSE signalled
  /\ syncTx' = NoChan

\* send_upcall_action succeeds.
SendUpcallAction(what) ==
  /\ reply # "broken"
  /\ upcall' = "busy" /\ callback' = TRUE
  /\ job' = what
  /\ UNCHANGED <<stream, timer, reconnects, event, reply, online>>

\* It fails, the stream having been closed by the guest.
SendFails == reply = "broken" /\ UNCHANGED <<conn, guest>>

\* do_add_vcpu, the new vcpus created, started and their tids appended.
AddVcpus(n, ch) ==
  /\ present' = present \cup Available(n)
  /\ tids' = tids \o Ascending(Available(n))
  /\ syncTx' = ch /\ signalled' = signalled \ {ch}
  /\ \/ /\ SendUpcallAction("add")
        /\ action' = "plug" /\ pending' = Available(n)
        /\ Respond(TRUE, ch)
     \/ /\ SendFails
        /\ Respond(FALSE, NoChan)
        /\ UNCHANGED <<action, pending>>
  /\ UNCHANGED <<wedged, dev>>

\* The vcpus cannot be created, or the first thread not be started: nothing to roll
\* back.  When a later thread is not, the roll-back joins the ones that wait at the
\* barrier for it.
AddNotStarted(n, ch) ==
  /\ "spawn" \in Faults
  /\ syncTx' = ch /\ signalled' = signalled \ {ch}
  /\ \/ Respond(FALSE, NoChan) /\ UNCHANGED wedged
     \/ Cardinality(Available(n)) > 1 /\ wedged' = TRUE /\ UNCHANGED resp
  /\ UNCHANGED <<present, tids, action, pending, conn, dev, guest>>

\* get_vcpus_tid gives up: the threads are stopped, and as many tids dropped.
AddNoTid(n, ch) ==
  /\ "tid" \in Faults
  /\ tids' = Truncated(Cardinality(Available(n)))
  /\ syncTx' = ch /\ signalled' = signalled \ {ch}
  /\ Respond(FALSE, NoChan)
  /\ UNCHANGED <<present, action, pending, wedged, conn, dev, guest>>

\* Mutant: the threads are stopped when the guest is told, not when it has answered.
DelVcpusNow(n, ch) ==
  /\ syncTx' = ch /\ signalled' = signalled \ {ch}
  /\ SendUpcallAction("del")
  /\ action' = "unplug" /\ pending' = Removable(n)
  /\ present' = present \ Removable(n)
  /\ tids' = Truncated(Cardinality(Removable(n)))
  /\ Respond(TRUE, ch)
  /\ UNCHANGED <<wedged, dev>>

\* do_del_vcpu
DelVcpus(n, ch) ==
  /\ syncTx' = ch /\ signalled' = signalled \ {ch}
  /\ \/ /\ SendUpcallAction("del")
        /\ action' = "unplug" /\ pending' = Removable(n)
        /\ Respond(TRUE, ch)
     \/ /\ SendFails
        /\ Respond(FALSE, NoChan)
        /\ UNCHANGED <<action, pending>>
  /\ UNCHANGED <<present, tids, wedged, dev>>

\* Mutant: a hot plug that is pending does not matter.
MayResizeReady == upcall = "ready"

\* The guest listens, and has no hot plug to end.
MayResize == upcall = "ready" /\ action = "none"

\* Vm::resize_vcpu; n is in 1..MaxVcpu (precheck_resize_vcpus).
ResizeVcpu(n) ==
  \/ ~MayResize /\ Refuse
  \/ /\ MayResize
     /\ LET ch == CHOOSE ch \in Chan : Unused(ch) IN
        \/ /\ n = Count
           /\ signalled' = signalled \cup {ch} /\ syncTx' = NoChan
           /\ Respond(TRUE, ch)
           /\ UNCHANGED <<present, tids, action, pending, wedged, conn, dev, guest>>
        \/ n > Count /\ (AddVcpus(n, ch) \/ AddNotStarted(n, ch) \/ AddNoTid(n, ch))
        \/ n < Count /\ DelVcpus(n, ch)
-----------------------------------------------------------------------------
(* The memory and the balloon device.                                      *)

\* An inserted device gets its new size, or refuses it; a new one is announced to
\* the guest (send_request_without_result).
InsertOrUpdate(size, new) ==
  \/ (upcall # "ready" \/ (size = NoDev /\ reply = "broken")) /\ Refuse
  \/ upcall = "ready" /\ "mem" \in Faults /\ Refuse
  \/ /\ upcall = "ready" /\ size # NoDev
     /\ new
     /\ Respond(TRUE, NoChan)
     /\ UNCHANGED <<vcpu, conn, signalled, guest>>
  \/ /\ upcall = "ready" /\ size = NoDev /\ reply # "broken"
     /\ new
     /\ upcall' = "busy" /\ job' = "dev"
     /\ Respond(TRUE, NoChan)
     /\ UNCHANGED <<vcpu, stream, timer, reconnects, callback, event, signalled, reply, online>>

AddMemDevice(n) == InsertOrUpdate(vmem, vmem' = n /\ UNCHANGED balloon)

\* A new balloon is created without the size asked for: only an update sets it.
AddBalloonDevice(n) ==
  InsertOrUpdate(balloon, balloon' = (IF balloon = NoDev THEN 0 ELSE n) /\ UNCHANGED vmem)

\* The eventfd is read, one request is taken (run_vmm_action).
RunVmmAction ==
  /\ ~wedged /\ bell
  /\ bell' = FALSE
  /\ queue' = Tail(queue)
  /\ LET r == Head(queue) IN
     \/ r.kind = "vcpu" /\ ResizeVcpu(r.n)
     \/ r.kind = "mem" /\ AddMemDevice(r.n)
     \/ r.kind = "balloon" /\ AddBalloonDevice(r.n)
  /\ UNCHANGED held
-----------------------------------------------------------------------------
(* The upcall connection and the end of a hot plug.                        *)

\* Mutant: no limit to the reconnections.
SetReconnectAlways ==
  /\ upcall' = "server" /\ stream' = FALSE
  /\ timer' = TRUE /\ reconnects' = reconnects + 1
  /\ event' = IF callback THEN "ok" ELSE event
  /\ callback' = FALSE
  /\ job' = "none"

\* Mutant: the callback that waits is dropped.
SetReconnectSilent ==
  /\ upcall' = "server" /\ stream' = FALSE
  /\ timer' = (reconnects <= MaxReconnect)
  /\ reconnects' = IF reconnects <= MaxReconnect THEN reconnects + 1 ELSE reconnects
  /\ callback' = FALSE
  /\ job' = "none"
  /\ UNCHANGED event

\* set_reconnect and what handle_stream_event does with the stream then; a callback
\* that waits is told UpcallReset, which a vcpu resize takes for success.
SetReconnect ==
  /\ upcall' = "server" /\ stream' = FALSE
  /\ timer' = (reconnects <= MaxReconnect)
  /\ reconnects' = IF reconnects <= MaxReconnect THEN reconnects + 1 ELSE reconnects
  /\ event' = IF callback THEN "ok" ELSE event
  /\ callback' = FALSE
  /\ job' = "none"

\* handle_stream_event.  In state "ready" it only logs: there is no such step.
HandleStreamEvent ==
  /\ ~wedged /\ stream
  /\ \/ /\ upcall # "ready" /\ reply = "broken"
        /\ SetReconnect
     \/ /\ upcall = "server" /\ reply = "ok"
        /\ upcall' = "service"
        /\ UNCHANGED <<stream, timer, reconnects, callback, event, job>>
     \/ /\ upcall = "service" /\ reply = "ok"
        /\ upcall' = "ready"
        /\ UNCHANGED <<stream, timer, reconnects, callback, event, job>>
     \/ /\ upcall = "busy" /\ reply \in {"ok", "failed"}
        /\ upcall' = "ready"
        /\ event' = IF callback THEN reply ELSE event
        /\ callback' = FALSE
        /\ UNCHANGED <<stream, timer, reconnects, job>>
  /\ reply' = "none"
  /\ UNCHANGED <<vcpu, dev, api, online>>

\* handle_reconnect_event: the timer fired; connecting succeeds or is put off again.
HandleReconnectEvent ==
  /\ ~wedged /\ timer
  /\ \/ stream' = TRUE /\ timer' = FALSE /\ UNCHANGED reconnects
     \/ /\ "break" \in Faults
        /\ timer' = (reconnects <= MaxReconnect)
        /\ reconnects' = IF reconnects <= MaxReconnect THEN reconnects + 1 ELSE reconnects
        /\ UNCHANGED stream
  /\ UNCHANGED <<vcpu, upcall, callback, event, dev, api, guest>>

\* Mutant: the threads run on.
StopNothing == UNCHANGED <<present, tids>>

\* exit_vcpus of the pending vcpus: their threads end; the last tids are dropped.
StopVcpusInAction ==
  /\ present' = present \ pending
  /\ tids' = Truncated(Cardinality(pending))

\* process_cpu_action
ProcessCpuAction ==
  /\ ~wedged /\ event # "none"
  /\ event' = "none"
  /\ \/ /\ event = "ok" /\ action = "plug"
        /\ SyncActionFinish
        /\ action' = "none" /\ pending' = {}
        /\ UNCHANGED <<present, tids>>
     \/ /\ event = "ok" /\ action = "unplug"
        /\ StopVcpusInAction
        /\ SyncActionFinish
        /\ action' = "none" /\ pending' = {}
     \/ /\ event = "failed"
        /\ UNCHANGED <<present, tids, action, pending, syncTx, signalled>>
  /\ UNCHANGED <<wedged, upcall, stream, timer, reconnects, callback, dev,
                 queue, bell, resp, held, guest>>
-----------------------------------------------------------------------------
(* The guest kernel's end of the stream.                                   *)

\* It answers the client's CONNECT, or the service's.
GuestGreets ==
  /\ stream /\ reply = "none" /\ upcall \in {"server", "service"}
  /\ \/ reply' = "ok"
     \/ "break" \in Faults /\ reply' = "broken"
  /\ UNCHANGED <<job, online, vcpu, conn, dev, api>>

\* The vcpus the guest kernel has once S of the pending ones are added or removed.
Plugged(S) ==
  CASE job = "add" -> online \cup S
    [] job = "del" -> online \ S
    [] OTHER       -> online

\* It carries the request out and answers it.
GuestServes ==
  /\ job # "none"
  /\ online' = Plugged(pending)
  /\ reply' = "ok"
  /\ job' = "none"
  /\ UNCHANGED <<vcpu, conn, dev, api>>

\* It fails, or the stream breaks, with the request carried out in part.
GuestFails ==
  /\ job # "none"
  /\ \/ "fail" \in Faults /\ reply' = "failed"
     \/ "break" \in Faults /\ reply' = "broken"
  /\ \E S \in SUBSET pending : online' = Plugged(S)
  /\ job' = "none"
  /\ UNCHANGED <<vcpu, conn, dev, api>>

\* It closes the idle stream.
GuestCloses ==
  /\ "break" \in Faults
  /\ upcall = "ready" /\ reply = "none"
  /\ reply' = "broken"
  /\ UNCHANGED <<job, online, vcpu, conn, dev, api>>

-----------------------------------------------------------------------------
(* The VMM with any callers that keep to what it is called for.            *)

\* A request within the contract: a number of vcpus the VM can have.
Proper(r) == r \in Request /\ (r.kind = "vcpu" => r.n \in 1..MaxVcpu)

Sends ==
  /\ bell' = TRUE /\ Len(queue') = Len(queue) + 1
  /\ Proper(queue'[Len(queue) + 1])
  /\ queue' = Append(queue, queue'[Len(queue) + 1])

\* Callers send requests, take responses and drop the receivers they hold.
CallerStep ==
  /\ UNCHANGED <<queue, bell>> \/ Sends
  /\ UNCHANGED <<resp, held, signalled>> \/ \E c \in Client : Receive(c) \/ Drop(c)
  /\ UNCHANGED <<vcpu, conn, dev, guest>>

VmmNext ==
  /\ \/ RunVmmAction \/ HandleStreamEvent \/ HandleReconnectEvent \/ ProcessCpuAction
     \/ GuestGreets \/ GuestServes \/ GuestFails \/ GuestCloses
     \/ CallerStep
  /\ UNCHANGED setting

VmmSpec == VmmInit /\ [][VmmNext]_<<setting, vmm>>
-----------------------------------------------------------------------------
(* Properties.                                                             *)

\* exit_vcpus: "since we always stop the vcpus started latest, thus it's ok here to
\* remove the stopped vcpus from end to head": the list of tids names exactly the
\* vcpus with a thread, which are the lowest ids, unless a start is rolled back for
\* want of a tid.
TidsArePresent ==
  "tid" \notin Faults =>
    /\ present = 0..(Count - 1)
    /\ tids = [i \in 1..Count |-> i - 1]

\* While no hot plug is pending, the guest's kernel has the vcpus that have a thread,
\* unless the upcall stream breaks: a hot plug ends only on the guest's word, and its
\* threads are stopped only then.
GuestAgrees ==
  Faults \cap {"break", "fail"} = {} /\ action = "none" => online = present

\* A vcpu the guest's kernel has is never without a thread, not even while the guest
\* works on a request: threads start before the guest is told and end after it did.
OnlineHasThread == "break" \notin Faults => online \subseteq present

\* Why these hold, in a form that every step preserves.  What the VMM thread knows by
\* itself: the requests are proper, the vcpus with a thread are the lowest ids, and the
\* ones to be unplugged are the highest of these.
ProperRequest == {r \in Request : Proper(r)}
VcpuInv ==
  /\ queue \in Seq(ProperRequest) /\ (bell => queue # <<>>)
  /\ Count \in 1..MaxVcpu /\ present = 0..(Count - 1)
  /\ "tid" \notin Faults => tids = [i \in 1..Count |-> i - 1]
  /\ action = "unplug" => \E m \in 1..(Count - 1) : pending = m..(Count - 1)

\* What it knows of the guest, as long as the stream is not broken: a vcpu resize waits
\* for its answer with the client busy, the answer becomes the event, and when either is
\* "ok" the guest has done what was asked for.
Ended == (callback /\ reply = "ok") \/ event = "ok"
PlugInv ==
  "break" \notin Faults =>
    /\ callback \in BOOLEAN /\ action \in {"none", "plug", "unplug"}
    /\ job \in {"none", "add", "del", "dev"} /\ reply \in {"none", "ok", "failed", "broken"}
    /\ reply # "broken" /\ (reply # "none" => upcall # "ready")
    /\ job \in {"add", "del"} => callback /\ action = IF job = "add" THEN "plug" ELSE "unplug"
    /\ job # "none" => reply = "none" /\ upcall = "busy"
    /\ callback => upcall = "busy" /\ action # "none" /\ event = "none" /\ job # "dev"
    /\ event # "none" => action # "none"
    /\ action # "none" => pending \subseteq present
    /\ online \subseteq present
    /\ action = "unplug" /\ Ended => online \cap pending = {}
AgreeInv ==
  Faults \cap {"break", "fail"} = {} =>
    /\ reply # "failed" /\ event # "failed"
    /\ action = "none" => online = present
    /\ action = "plug" => present = IF Ended THEN online ELSE online \cup pending
    /\ action = "unplug" => online = IF Ended THEN present \ pending ELSE present

\* The resizing as VcpuService has it.
Remain  == IF action = "unplug" THEN Cardinality(present \ pending) ELSE Count
Service == INSTANCE VcpuService WITH count <- Count, doing <- action, target <- Remain

\* Whatever the callers ask for, and however the guest and its stream fare, the vcpus of the
\* VM go through VcpuService: one resize at a time (vcpu_manager.rs:862), and a vcpu is taken
\* away only at the end of an unplug, which leaves the number that was asked for.
ImplementsService == Service!Spec

\* A hot plug that is pending ends, unless the guest fails it: the guest's answer, or
\* the loss of its stream, reaches process_cpu_action, and resizing is possible again.
HotplugEnds ==
  "fail" \notin Faults => (action # "none" ~> (action = "none" \/ wedged))
===========================================================================
