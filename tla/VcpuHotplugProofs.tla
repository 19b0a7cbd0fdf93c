------------------------ MODULE VcpuHotplugProofs ------------------------
(* What VcpuHotplug guarantees for any number of vcpus, callers and        *)
(* channels, in every setting, as long as callers ask for numbers of vcpus *)
(* that the VM can have.                                                   *)
EXTENDS VcpuHotplug, Integers, FiniteSetTheorems, SequenceTheorems, TLAPS

USE VmmAssumption
-----------------------------------------------------------------------------
(* Ids *)

\* The size of an interval.
LEMMA Width ==
  ASSUME NEW a \in Nat, NEW b \in Nat, a <= b
  PROVE  Cardinality(a..(b - 1)) = b - a
<1> DEFINE d == b - 1
<1>1. a \in Int /\ d \in Int
  OBVIOUS
<1> HIDE DEF d
<1>2. Cardinality(a..d) = IF a > d THEN 0 ELSE d - a + 1
  BY Zenon, <1>1, FS_Interval
<1> QED
  BY <1>2 DEF d

\* The first k ids are k.
LEMMA CountIs ==
  ASSUME NEW k \in Nat \ {0}, present = 0..(k - 1)
  PROVE  Count = k
<1>1. Cardinality(0..(k - 1)) = k - 0
  BY Width
<1> QED
  BY <1>1 DEF Count

\* calculate_available_vcpus gives the ids that follow.
LEMMA AvailableIs ==
  ASSUME NEW k \in 1..MaxVcpu, present = 0..(k - 1), NEW n \in (k + 1)..MaxVcpu
  PROVE  Available(n) = k..(n - 1)
<1>1. Count = k
  BY CountIs
<1>2. Id \ present = k..(MaxVcpu - 1)
  BY DEF Id
<1>3. ASSUME NEW i \in k..(MaxVcpu - 1)
      PROVE  Cardinality({j \in Id \ present : j < i}) = i - k
  <2>1. {j \in Id \ present : j < i} = k..(i - 1)
    BY <1>2
  <2>2. Cardinality(k..(i - 1)) = i - k
    BY Width
  <2> QED
    BY Zenon, <2>1, <2>2
<1> QED
  BY SMTT(30), <1>1, <1>2, <1>3 DEF Available

\* do_del_vcpu picks the last ids.
LEMMA RemovableIs ==
  ASSUME NEW k \in 1..MaxVcpu, present = 0..(k - 1), NEW n \in 1..(k - 1)
  PROVE  Removable(n) = n..(k - 1)
<1>1. Count = k
  BY CountIs
<1>2. ASSUME NEW i \in present
      PROVE  Cardinality({j \in present : j > i}) = k - 1 - i
  <2>1. {j \in present : j > i} = (i + 1)..(k - 1)
    BY <1>2
  <2>2. Cardinality((i + 1)..(k - 1)) = k - 1 - i
    <3>1. i + 1 \in Nat /\ k \in Nat /\ i + 1 <= k /\ k - (i + 1) = k - 1 - i
      BY <1>2
    <3> QED
      BY Zenon, <3>1, Width
  <2> QED
    BY Zenon, <2>1, <2>2
<1> QED
  BY <1>1, <1>2 DEF Removable

\* An interval of ids in ascending order.
LEMMA AscendingIs ==
  ASSUME NEW a \in Nat, NEW b \in Nat, a <= b
  PROVE  Ascending(a..(b - 1)) = [x \in 1..(b - a) |-> a + x - 1]
<1>1. Cardinality(a..(b - 1)) = b - a
  BY Zenon, Width
<1>2. ASSUME NEW x \in 1..(b - a)
      PROVE  (CHOOSE i \in a..(b - 1) : Cardinality({j \in a..(b - 1) : j < i}) = x - 1) = a + x - 1
  <2>1. ASSUME NEW i \in a..(b - 1)
        PROVE  Cardinality({j \in a..(b - 1) : j < i}) = i - a
    <3>1. {j \in a..(b - 1) : j < i} = a..(i - 1)
      OBVIOUS
    <3>2. Cardinality(a..(i - 1)) = i - a
      BY Width
    <3> QED
      BY Zenon, <3>1, <3>2
  <2>2. a + x - 1 \in a..(b - 1)
    OBVIOUS
  <2>3. \A i \in a..(b - 1) : Cardinality({j \in a..(b - 1) : j < i}) = x - 1 <=> i = a + x - 1
    BY SMTT(30), <2>1
  <2> QED
    BY Zenon, <2>2, <2>3
<1> QED
  BY Zenon, <1>1, <1>2 DEF Ascending

\* The tids of the vcpus that are started are appended.
LEMMA Appended ==
  ASSUME NEW k \in Nat, NEW n \in Nat, k <= n, tids = [i \in 1..k |-> i - 1]
  PROVE  tids \o [x \in 1..(n - k) |-> k + x - 1] = [i \in 1..n |-> i - 1]
<1> DEFINE more == [x \in 1..(n - k) |-> k + x - 1]
           all == [i \in 1..n |-> i - 1]
<1>1. tids \in Seq(Nat) /\ Len(tids) = k
  OBVIOUS
<1>2. more \in Seq(Nat) /\ Len(more) = n - k
  OBVIOUS
<1>3. all \in Seq(Nat) /\ Len(all) = n
  OBVIOUS
<1>4. /\ tids \o more \in Seq(Nat) /\ Len(tids \o more) = n
      /\ \A i \in 1..n : (tids \o more)[i] = IF i <= k THEN tids[i] ELSE more[i - k]
  BY <1>1, <1>2, ConcatProperties
<1>5. \A i \in 1..n : (tids \o more)[i] = all[i]
  <2>1. \A i \in 1..k : tids[i] = i - 1
    BY Zenon
  <2>2. \A x \in 1..(n - k) : more[x] = k + x - 1
    BY Zenon
  <2>3. \A i \in 1..n : i > k => i - k \in 1..(n - k)
    OBVIOUS
  <2> QED
    BY <1>4, <2>1, <2>2, <2>3
<1> HIDE DEF more, all
<1>6. tids \o more = all
  BY Zenon, <1>3, <1>4, <1>5, SeqEqual
<1> QED
  BY Zenon, <1>6 DEF more, all

\* The tids of the vcpus that are stopped are truncated.
LEMMA TruncatedIs ==
  ASSUME NEW k \in Nat, NEW m \in 0..k, tids = [i \in 1..k |-> i - 1]
  PROVE  Truncated(k - m) = [i \in 1..m |-> i - 1]
<1> DEFINE rest == [i \in 1..m |-> i - 1]
<1>1. tids \in Seq(Nat) /\ Len(tids) = k /\ \A i \in 1..k : tids[i] = i - 1
  OBVIOUS
<1>2. Truncated(k - m) = SubSeq(tids, 1, m)
  BY <1>1 DEF Truncated
<1>3. /\ SubSeq(tids, 1, m) \in Seq(Nat) /\ Len(SubSeq(tids, 1, m)) = m
      /\ \A i \in 1..m : SubSeq(tids, 1, m)[i] = i - 1
  BY SMTT(30), <1>1, SubSeqProperties
<1>4. rest \in Seq(Nat) /\ Len(rest) = m /\ \A i \in 1..m : rest[i] = i - 1
  OBVIOUS
<1> HIDE DEF rest
<1>5. SubSeq(tids, 1, m) = rest
  BY Zenon, <1>3, <1>4, SeqEqual
<1> QED
  BY Zenon, <1>2, <1>5 DEF rest
-----------------------------------------------------------------------------
(* The vcpus with a thread *)

\* To have n vcpus with a thread is to have the n lowest ids.
LEMMA VcpuIs ==
  ASSUME NEW n \in 1..MaxVcpu, present' = 0..(n - 1), Faults' = Faults,
         "tid" \notin Faults => tids' = [i \in 1..n |-> i - 1],
         action' = "unplug" => \E m \in 1..(n - 1) : pending' = m..(n - 1),
         queue' \in Seq(ProperRequest), bell' => queue' # <<>>
  PROVE  VcpuInv'
<1>1. Count' = n
  <2>1. Cardinality(0..(n - 1)) = n - 0
    BY Width
  <2> QED
    BY <2>1 DEF Count
<1> QED
  BY Zenon, <1>1 DEF VcpuInv

\* do_add_vcpu
LEMMA AddKeeps ==
  ASSUME VcpuInv, action = "none", Faults' = Faults, NEW n \in 1..MaxVcpu, n > Count, NEW ch,
         AddVcpus(n, ch) \/ AddNotStarted(n, ch) \/ AddNoTid(n, ch),
         queue' \in Seq(ProperRequest), bell' => queue' # <<>>
  PROVE  VcpuInv'
<1> DEFINE k == Count
<1>1. k \in 1..MaxVcpu /\ present = 0..(k - 1) /\ n \in (k + 1)..MaxVcpu
  BY DEF VcpuInv
<1>2. "tid" \notin Faults => tids = [i \in 1..k |-> i - 1]
  BY Zenon DEF VcpuInv
<1> HIDE DEF k
<1>3. CASE AddVcpus(n, ch)
  <2>1. Available(n) = k..(n - 1)
    BY Zenon, <1>1, AvailableIs
  <2>2. present' = 0..(n - 1)
    <3>1. present' = present \cup Available(n)
      BY Zenon, <1>3 DEF AddVcpus
    <3> QED
      BY <3>1, <2>1, <1>1
  <2>3. "tid" \notin Faults => tids' = [i \in 1..n |-> i - 1]
    <3>1. tids' = tids \o Ascending(Available(n))
      BY Zenon, <1>3 DEF AddVcpus
    <3>2. Ascending(k..(n - 1)) = [x \in 1..(n - k) |-> k + x - 1]
      BY <1>1, AscendingIs
    <3>3. ASSUME "tid" \notin Faults
          PROVE  tids \o [x \in 1..(n - k) |-> k + x - 1] = [i \in 1..n |-> i - 1]
      <4>1. k \in Nat /\ n \in Nat /\ k <= n
        BY <1>1
      <4> QED
        BY Zenon, <4>1, <1>2, <3>3, Appended
    <3> QED
      BY Zenon, <3>1, <3>2, <3>3, <2>1
  <2>4. action' # "unplug"
    BY Zenon, <1>3 DEF AddVcpus
  <2> QED
    BY Zenon, <2>2, <2>3, <2>4, VcpuIs
<1>4. CASE AddNotStarted(n, ch) \/ AddNoTid(n, ch)
  <2>1. present' = present /\ action' # "unplug" /\ ("tid" \notin Faults => tids' = tids)
    BY Zenon, <1>4 DEF AddNotStarted, AddNoTid
  <2> QED
    BY Zenon, <2>1, <1>1, <1>2, VcpuIs
<1> QED
  BY Zenon, <1>3, <1>4

\* do_del_vcpu
LEMMA DelKeeps ==
  ASSUME VcpuInv, action = "none", Faults' = Faults, NEW n \in 1..MaxVcpu, n < Count, NEW ch,
         DelVcpus(n, ch),
         queue' \in Seq(ProperRequest), bell' => queue' # <<>>
  PROVE  VcpuInv'
<1> DEFINE k == Count
<1>1. k \in 1..MaxVcpu /\ present = 0..(k - 1) /\ n \in 1..(k - 1)
  BY DEF VcpuInv
<1>2. "tid" \notin Faults => tids = [i \in 1..k |-> i - 1]
  BY Zenon DEF VcpuInv
<1> HIDE DEF k
<1>3. Removable(n) = n..(k - 1)
  BY Zenon, <1>1, RemovableIs
<1>4. present' = present /\ tids' = tids /\ (action' = "unplug" => pending' = n..(k - 1))
  BY Zenon, <1>3 DEF DelVcpus
<1> QED
  BY Zenon, <1>1, <1>2, <1>4, VcpuIs

\* A step that leaves the vcpus and what is pending alone.
LEMMA VcpuSame ==
  ASSUME VcpuInv, UNCHANGED <<present, tids, action, pending>>, Faults' = Faults,
         queue' \in Seq(ProperRequest), bell' => queue' # <<>>
  PROVE  VcpuInv'
  BY Zenon DEF VcpuInv, Count

\* process_cpu_action, for which the vcpus to be stopped are the last ones.
LEMMA ProcessKeeps ==
  ASSUME VcpuInv, ProcessCpuAction, Faults' = Faults
  PROVE  VcpuInv'
<1>1. queue' \in Seq(ProperRequest) /\ (bell' => queue' # <<>>)
  BY Zenon DEF VcpuInv, ProcessCpuAction
<1>2. CASE UNCHANGED <<present, tids>> /\ action' = "none"
  BY Zenon, <1>1, <1>2 DEF VcpuInv, Count
<1>3. CASE UNCHANGED <<present, tids, action, pending>>
  BY Zenon, <1>1, <1>3, VcpuSame
<1>4. CASE action = "unplug" /\ StopVcpusInAction /\ action' = "none"
  <2> DEFINE k == Count
  <2>1. k \in 1..MaxVcpu /\ present = 0..(k - 1)
    BY Zenon DEF VcpuInv
  <2>2. "tid" \notin Faults => tids = [i \in 1..k |-> i - 1]
    BY Zenon DEF VcpuInv
  <2>3. PICK m \in 1..(k - 1) : pending = m..(k - 1)
    BY Zenon, <1>4 DEF VcpuInv
  <2> HIDE DEF k
  <2>4. present' = 0..(m - 1) /\ m \in 1..MaxVcpu
    BY SMTT(30), <1>4, <2>1, <2>3 DEF StopVcpusInAction
  <2>5. Cardinality(pending) = k - m
    BY <2>1, <2>3, Width
  <2>6. ASSUME "tid" \notin Faults
        PROVE  tids' = [i \in 1..m |-> i - 1]
    <3>1. tids' = Truncated(k - m)
      BY Zenon, <1>4, <2>5 DEF StopVcpusInAction
    <3> QED
      <4>1. k \in Nat /\ m \in 0..k
        BY <2>1, <2>3
      <4> QED
        BY Zenon, <3>1, <4>1, <2>2, <2>6, TruncatedIs
  <2> QED
    BY Zenon, <1>1, <1>4, <2>4, <2>6, VcpuIs
<1> QED
  BY Zenon, <1>2, <1>3, <1>4 DEF ProcessCpuAction

\* run_vmm_action
LEMMA RunKeeps ==
  ASSUME VcpuInv, RunVmmAction, Faults' = Faults
  PROVE  VcpuInv'
<1>1. queue \in Seq(ProperRequest) /\ queue # <<>> /\ queue' = Tail(queue) /\ ~bell'
  BY Zenon DEF VcpuInv, RunVmmAction
<1>2. queue' \in Seq(ProperRequest) /\ (bell' => queue' # <<>>) /\ Head(queue) \in ProperRequest
  BY <1>1
<1> DEFINE r == Head(queue)
<1>3. CASE r.kind = "vcpu" /\ ResizeVcpu(r.n)
  <2> DEFINE ch == CHOOSE d \in Chan : Unused(d)
             n == r.n
  <2>1. n \in 1..MaxVcpu
    BY Zenon, <1>2, <1>3 DEF ProperRequest, Proper
  <2> HIDE DEF n
  <2>2. \/ UNCHANGED <<present, tids, action, pending>>
        \/ action = "none" /\ n > Count /\ (AddVcpus(n, ch) \/ AddNotStarted(n, ch) \/ AddNoTid(n, ch))
        \/ action = "none" /\ n < Count /\ DelVcpus(n, ch)
    BY Zenon, <1>3 DEF ResizeVcpu, MayResize, Refuse, vcpu, n
  <2> HIDE DEF ch
  <2> QED
    BY Zenon, <1>2, <2>1, <2>2, AddKeeps, DelKeeps, VcpuSame
<1>4. CASE AddMemDevice(r.n) \/ AddBalloonDevice(r.n)
  <2>1. UNCHANGED <<present, tids, action, pending>>
    BY Zenon, <1>4 DEF AddMemDevice, AddBalloonDevice, InsertOrUpdate, Refuse, vcpu
  <2> QED
    BY Zenon, <1>2, <2>1, VcpuSame
<1> QED
  BY Zenon, <1>3, <1>4 DEF RunVmmAction

\* The callers add proper requests.
LEMMA CallKeeps ==
  ASSUME VcpuInv, CallerStep, Faults' = Faults
  PROVE  VcpuInv'
<1>1. UNCHANGED <<present, tids, action, pending>>
  BY Zenon DEF CallerStep, vcpu
<1>2. queue \in Seq(ProperRequest) /\ (bell => queue # <<>>)
  BY Zenon DEF VcpuInv
<1>3. CASE UNCHANGED <<queue, bell>>
  BY Zenon, <1>1, <1>2, <1>3, VcpuSame
<1>4. CASE Sends
  <2> DEFINE x == queue'[Len(queue) + 1]
  <2>1. queue' = Append(queue, x) /\ x \in ProperRequest
    BY Zenon, <1>4 DEF Sends, ProperRequest, Proper
  <2> HIDE DEF x
  <2>2. Append(queue, x) \in Seq(ProperRequest) /\ Append(queue, x) # <<>>
    BY <1>2, <2>1
  <2> QED
    BY Zenon, <1>1, <2>1, <2>2, VcpuSame
<1> QED
  BY Zenon, <1>3, <1>4 DEF CallerStep

\* Every step of the VMM thread, the guest and the callers keeps VcpuInv.
LEMMA VcpuStep ==
  ASSUME VcpuInv, [VmmNext]_<<setting, vmm>>
  PROVE  VcpuInv'
<1>1. Faults' = Faults
  BY Zenon DEF VmmNext, Faults
<1>2. CASE HandleStreamEvent \/ HandleReconnectEvent \/ GuestGreets \/ GuestServes
           \/ GuestFails \/ GuestCloses \/ UNCHANGED vmm
  <2>1. UNCHANGED <<present, tids, action, pending, queue, bell>>
    BY Zenon, <1>2 DEF HandleStreamEvent, HandleReconnectEvent, GuestGreets, GuestServes, GuestFails,
                GuestCloses, vmm, vcpu, api
  <2> QED
    BY Zenon, <1>1, <2>1, VcpuSame DEF VcpuInv
<1> QED
  BY Zenon, <1>1, <1>2, RunKeeps, ProcessKeeps, CallKeeps DEF VmmNext
-----------------------------------------------------------------------------
(* The guest *)

\* A handler that gives an error, or only sets the size of a device, leaves the hot
\* plug and the connection alone; one that inserts a device makes the client busy.
LEMMA DeviceStep ==
  ASSUME RunVmmAction, ~(\E n \in Nat : ResizeVcpu(n)), Head(queue).n \in Nat
  PROVE  /\ UNCHANGED <<present, action, pending, callback, event, reply, online>>
         /\ \/ UNCHANGED <<upcall, job>>
            \/ upcall = "ready" /\ upcall' = "busy" /\ job' = "dev"
<1>1. AddMemDevice(Head(queue).n) \/ AddBalloonDevice(Head(queue).n)
  BY Zenon DEF RunVmmAction
<1> QED
  BY Zenon, <1>1 DEF AddMemDevice, AddBalloonDevice, InsertOrUpdate, Refuse, vcpu, conn, guest

\* What a step does that asks the guest for a hot plug (send_upcall_action) of the vcpus S.
Asks(S, what) ==
  /\ upcall = "ready" /\ action = "none" /\ reply # "broken"
  /\ action' = what /\ pending' = S /\ S \subseteq present'
  /\ upcall' = "busy" /\ callback' = TRUE
  /\ UNCHANGED <<event, reply, online>>

\* Vm::resize_vcpu leaves the hot plug alone, or asks the guest for one.
LEMMA ResizeStep ==
  ASSUME NEW n \in Nat, ResizeVcpu(n), reply # "broken"
  PROVE  \/ UNCHANGED <<present, action, pending, callback, event, reply, online, upcall, job>>
         \/ /\ \E S : Asks(S, "plug") /\ present' = present \cup S
            /\ job' = "add"
         \/ /\ \E S : Asks(S, "unplug") /\ present' = present
            /\ job' = "del"
<1> DEFINE ch == CHOOSE d \in Chan : Unused(d)
<1>1. CASE Refuse
  BY Zenon, <1>1 DEF Refuse, vcpu, conn, guest
<1>2. CASE upcall = "ready" /\ action = "none" /\ AddVcpus(n, ch)
  <2>1. Asks(Available(n), "plug") /\ present' = present \cup Available(n) /\ job' = "add"
    BY Zenon, <1>2 DEF AddVcpus, SendUpcallAction, SendFails, Asks
  <2> QED
    BY Zenon, <2>1
<1>3. CASE upcall = "ready" /\ action = "none" /\ DelVcpus(n, ch)
  <2>1. Removable(n) \subseteq present
    BY Zenon DEF Removable
  <2>2. Asks(Removable(n), "unplug") /\ present' = present /\ job' = "del"
    BY Zenon, <1>3, <2>1 DEF DelVcpus, SendUpcallAction, SendFails, Asks
  <2> QED
    BY Zenon, <2>2
<1>4. CASE AddNotStarted(n, ch) \/ AddNoTid(n, ch)
  BY Zenon, <1>4 DEF AddNotStarted, AddNoTid, conn, guest
<1>5. CASE UNCHANGED <<present, tids, action, pending, wedged, conn, dev, guest>>
  BY Zenon, <1>5 DEF conn, guest
<1> HIDE DEF ch
<1> QED
  BY Zenon, <1>1, <1>2, <1>3, <1>4, <1>5 DEF ResizeVcpu, MayResize, ch

\* The request that is taken is a proper one.
LEMMA HeadProper ==
  ASSUME VcpuInv, RunVmmAction
  PROVE  Head(queue).n \in Nat
<1>1. queue \in Seq(ProperRequest) /\ queue # <<>>
  BY Zenon DEF VcpuInv, RunVmmAction
<1>2. Head(queue) \in ProperRequest
  BY <1>1
<1> QED
  BY Zenon, <1>2 DEF ProperRequest, Request

\* Every step keeps PlugInv: the guest's answer and the event it becomes belong to the
\* pending hot plug.
LEMMA PlugStep ==
  ASSUME VcpuInv, PlugInv, [VmmNext]_<<setting, vmm>>
  PROVE  PlugInv'
<1>1. Faults' = Faults
  BY Zenon DEF VmmNext, Faults
<1> SUFFICES ASSUME "break" \notin Faults
             PROVE  PlugInv'
  BY Zenon, <1>1 DEF PlugInv
<1>2. CASE RunVmmAction
  <2>1. CASE \E n \in Nat : ResizeVcpu(n)
    <3>1. PICK n \in Nat : ResizeVcpu(n)
      BY Zenon, <2>1
    <3>2. reply # "broken"
      BY Zenon DEF PlugInv
    <3>3. CASE UNCHANGED <<present, action, pending, callback, event, reply, online, upcall, job>>
      BY Zenon, <1>1, <3>3 DEF PlugInv, Ended
    <3>4. ASSUME NEW S, Asks(S, "plug"), present' = present \cup S, job' = "add"
          PROVE  PlugInv'
      BY Zenon, <1>1, <3>4 DEF PlugInv, Ended, Asks
    <3>5. ASSUME NEW S, Asks(S, "unplug"), present' = present, job' = "del"
          PROVE  PlugInv'
      BY Zenon, <1>1, <3>5 DEF PlugInv, Ended, Asks
    <3> QED
      BY Zenon, <3>1, <3>2, <3>3, <3>4, <3>5, ResizeStep
  <2>2. CASE ~(\E n \in Nat : ResizeVcpu(n))
    <3>1. Head(queue).n \in Nat
      BY Zenon, <1>2, HeadProper
    <3> QED
      BY Zenon, <1>1, <1>2, <2>2, <3>1, DeviceStep DEF PlugInv, Ended
  <2> QED
    BY Zenon, <2>1, <2>2
<1>3. CASE HandleStreamEvent
  BY Zenon, <1>1, <1>3 DEF PlugInv, Ended, HandleStreamEvent, vcpu
<1>4. CASE ProcessCpuAction
  BY Zenon, <1>1, <1>4 DEF PlugInv, Ended, ProcessCpuAction, StopVcpusInAction, guest
<1>5. CASE GuestGreets
  BY Zenon, <1>1, <1>5 DEF PlugInv, Ended, GuestGreets, vcpu, conn
<1>6. CASE GuestServes
  BY Zenon, <1>1, <1>6 DEF PlugInv, Ended, GuestServes, Plugged, vcpu, conn
<1>7. CASE GuestFails
  BY Zenon, <1>1, <1>7 DEF PlugInv, Ended, GuestFails, Plugged, vcpu, conn
<1>8. CASE HandleReconnectEvent \/ CallerStep \/ GuestCloses \/ UNCHANGED vmm
  <2>1. UNCHANGED <<present, action, pending, callback, event, reply, online, upcall, job>>
    BY Zenon, <1>8 DEF HandleReconnectEvent, CallerStep, GuestCloses, vmm, vcpu, conn, guest
  <2> QED
    BY Zenon, <1>1, <2>1 DEF PlugInv, Ended
<1> QED
  BY Zenon, <1>2, <1>3, <1>4, <1>5, <1>6, <1>7, <1>8 DEF VmmNext

\* Every step keeps AgreeInv: the guest has done what was asked for when it says so.
LEMMA AgreeStep ==
  ASSUME VcpuInv, PlugInv, AgreeInv, [VmmNext]_<<setting, vmm>>
  PROVE  AgreeInv'
<1>1. Faults' = Faults
  BY Zenon DEF VmmNext, Faults
<1> SUFFICES ASSUME Faults \cap {"break", "fail"} = {}
             PROVE  AgreeInv'
  BY Zenon, <1>1 DEF AgreeInv
<1>2. "break" \notin Faults /\ "fail" \notin Faults
  BY Zenon
<1>3. CASE RunVmmAction
  <2>1. CASE \E n \in Nat : ResizeVcpu(n)
    <3>1. PICK n \in Nat : ResizeVcpu(n)
      BY Zenon, <2>1
    <3>2. reply # "broken"
      BY Zenon, <1>2 DEF PlugInv
    <3>3. CASE UNCHANGED <<present, action, pending, callback, event, reply, online, upcall, job>>
      BY Zenon, <1>1, <3>3 DEF AgreeInv, Ended
    <3>4. ASSUME NEW S, Asks(S, "plug"), present' = present \cup S, job' = "add"
          PROVE  AgreeInv'
      BY Zenon, <1>1, <1>2, <3>4 DEF PlugInv, AgreeInv, Ended, Asks
    <3>5. ASSUME NEW S, Asks(S, "unplug"), present' = present, job' = "del"
          PROVE  AgreeInv'
      BY Zenon, <1>1, <1>2, <3>5 DEF PlugInv, AgreeInv, Ended, Asks
    <3> QED
      BY Zenon, <3>1, <3>2, <3>3, <3>4, <3>5, ResizeStep
  <2>2. CASE ~(\E n \in Nat : ResizeVcpu(n))
    <3>1. Head(queue).n \in Nat
      BY Zenon, <1>3, HeadProper
    <3> QED
      BY SMTT(30), <1>1, <1>3, <2>2, <3>1, DeviceStep DEF AgreeInv, Ended
  <2> QED
    BY Zenon, <2>1, <2>2
<1>4. CASE HandleStreamEvent
  BY Zenon, <1>1, <1>2, <1>4 DEF PlugInv, AgreeInv, Ended, HandleStreamEvent, vcpu
<1>5. CASE ProcessCpuAction
  BY Zenon, <1>1, <1>2, <1>5 DEF PlugInv, AgreeInv, Ended, ProcessCpuAction, StopVcpusInAction, guest
<1>6. CASE GuestGreets
  BY Zenon, <1>1, <1>2, <1>6 DEF PlugInv, AgreeInv, Ended, GuestGreets, vcpu, conn
<1>7. CASE GuestServes
  BY Zenon, <1>1, <1>2, <1>7 DEF PlugInv, AgreeInv, Ended, GuestServes, Plugged, vcpu, conn
<1>8. CASE GuestFails
  BY Zenon, <1>2, <1>8 DEF GuestFails
<1>9. CASE HandleReconnectEvent \/ CallerStep \/ GuestCloses \/ UNCHANGED vmm
  <2>1. UNCHANGED <<present, action, pending, callback, event, reply, online, upcall, job>>
    BY Zenon, <1>2, <1>9 DEF HandleReconnectEvent, CallerStep, GuestCloses, vmm, vcpu, conn, guest
  <2> QED
    BY Zenon, <1>1, <2>1 DEF AgreeInv, Ended
<1> QED
  BY Zenon, <1>3, <1>4, <1>5, <1>6, <1>7, <1>8, <1>9 DEF VmmNext
-----------------------------------------------------------------------------
(* The service *)

\* What is left of the first k ids when all from m on go.
LEMMA Rest ==
  ASSUME NEW k \in Nat, NEW m \in 1..k
  PROVE  Cardinality((0..(k - 1)) \ (m..(k - 1))) = m
<1>1. (0..(k - 1)) \ (m..(k - 1)) = 0..(m - 1)
  BY SMTT(30)
<1>2. Cardinality(0..(m - 1)) = m - 0
  BY SMTT(30), Width
<1>3. m - 0 = m
  BY SMTT(30)
<1> QED
  BY Zenon, <1>1, <1>2, <1>3

\* The vcpus after a step.
LEMMA CountAfter ==
  ASSUME NEW k \in Nat \ {0}, present' = 0..(k - 1)
  PROVE  Count' = k
<1>1. Cardinality(0..(k - 1)) = k
  BY SMTT(30), Width
<1> QED
  BY Zenon, <1>1 DEF Count

\* Steps that leave the vcpus and what is pending alone.
LEMMA ServiceSame ==
  ASSUME UNCHANGED <<present, action, pending>>
  PROVE  UNCHANGED <<Count, action, Remain>>
  BY Zenon DEF Count, Remain

\* do_add_vcpu
LEMMA ServiceAdds ==
  ASSUME VcpuInv, action = "none", NEW n \in 1..MaxVcpu, n > Count, NEW ch, AddVcpus(n, ch)
  PROVE  Service!Next
<1> DEFINE k == Count
<1>1. k \in 1..MaxVcpu /\ present = 0..(k - 1) /\ n \in (k + 1)..MaxVcpu
  BY SMTT(30) DEF VcpuInv
<1> HIDE DEF k
<1>2. Available(n) = k..(n - 1)
  BY Zenon, <1>1, AvailableIs
<1>3. present' = present \cup Available(n) /\ (action' = "plug" \/ action' = "none")
  BY Zenon DEF AddVcpus
<1>4. present' = 0..(n - 1) /\ n \in Nat \ {0}
  BY SMTT(30), <1>1, <1>2, <1>3
<1>5. Count' = n
  BY Zenon, <1>4, CountAfter
<1>6. Remain' = n
  BY Zenon, <1>3, <1>5 DEF Remain
<1>7. Service!Add(n)
  BY Zenon, <1>3, <1>5, <1>6 DEF Service!Add
<1> QED
  BY Zenon, <1>7 DEF Service!Next

\* do_del_vcpu
LEMMA ServiceRemoves ==
  ASSUME VcpuInv, action = "none", NEW n \in 1..MaxVcpu, n < Count, NEW ch, DelVcpus(n, ch)
  PROVE  [Service!Next]_<<Count, action, Remain>>
<1>1. CASE UNCHANGED <<present, action, pending>>
  BY Zenon, <1>1, ServiceSame
<1>2. CASE present' = present /\ action' = "unplug" /\ pending' = Removable(n)
  <2> DEFINE k == Count
  <2>1. k \in 1..MaxVcpu /\ present = 0..(k - 1) /\ n \in 1..(k - 1)
    BY SMTT(30) DEF VcpuInv
  <2>2. Count' = Count
    BY Zenon, <1>2 DEF Count
  <2> HIDE DEF k
  <2>3. Removable(n) = n..(k - 1)
    BY Zenon, <2>1, RemovableIs
  <2>4. k \in Nat /\ n \in 1..k
    BY SMTT(30), <2>1
  <2>5. Cardinality((0..(k - 1)) \ (n..(k - 1))) = n
    BY Zenon, <2>4, Rest
  <2>6. Remain' = n
    BY Zenon, <1>2, <2>1, <2>3, <2>5 DEF Remain
  <2>7. Service!Remove(n)
    BY Zenon, <1>2, <2>2, <2>6 DEF Service!Remove
  <2> QED
    BY Zenon, <2>7 DEF Service!Next
<1> QED
  BY Zenon, <1>1, <1>2 DEF DelVcpus

\* process_cpu_action
LEMMA ServiceEnds ==
  ASSUME VcpuInv, ProcessCpuAction
  PROVE  [Service!Next]_<<Count, action, Remain>>
<1>1. CASE UNCHANGED <<present, action, pending>>
  BY Zenon, <1>1, ServiceSame
<1>2. CASE action = "plug" /\ present' = present /\ action' = "none"
  <2>1. Count' = Count
    BY Zenon, <1>2 DEF Count
  <2>2. Remain = Count /\ Remain' = Count'
    BY Zenon, <1>2 DEF Remain
  <2> QED
    BY Zenon, <1>2, <2>1, <2>2 DEF Service!Next, Service!End
<1>3. CASE action = "unplug" /\ present' = present \ pending /\ action' = "none"
  <2>1. Remain = Cardinality(present \ pending) /\ Remain' = Count'
    BY Zenon, <1>3 DEF Remain
  <2>2. Count' = Cardinality(present \ pending)
    BY Zenon, <1>3 DEF Count
  <2> QED
    BY Zenon, <1>3, <2>1, <2>2 DEF Service!Next, Service!End
<1> QED
  BY Zenon, <1>1, <1>2, <1>3 DEF ProcessCpuAction, StopVcpusInAction

\* Every step is one of VcpuService, or changes nothing of it.
LEMMA ServiceStep ==
  ASSUME VcpuInv, [VmmNext]_<<setting, vmm>>
  PROVE  [Service!Next]_<<Count, action, Remain>>
<1>1. CASE HandleStreamEvent \/ HandleReconnectEvent \/ GuestGreets \/ GuestServes
           \/ GuestFails \/ GuestCloses \/ CallerStep \/ UNCHANGED vmm
  <2>1. UNCHANGED <<present, action, pending>>
    BY Zenon, <1>1 DEF HandleStreamEvent, HandleReconnectEvent, GuestGreets, GuestServes, GuestFails,
                GuestCloses, CallerStep, vmm, vcpu
  <2> QED
    BY Zenon, <2>1, ServiceSame
<1>2. CASE ProcessCpuAction
  BY Zenon, <1>2, ServiceEnds
<1>3. CASE RunVmmAction
  <2> DEFINE r == Head(queue)
             ch == CHOOSE d \in Chan : Unused(d)
             n == r.n
  <2>1. r \in ProperRequest
    <3>1. queue \in Seq(ProperRequest) /\ queue # <<>>
      BY Zenon, <1>3 DEF VcpuInv, RunVmmAction
    <3> QED
      BY SMTT(30), <3>1
  <2>2. r.kind = "vcpu" => n \in 1..MaxVcpu
    BY Zenon, <2>1 DEF ProperRequest, Proper
  <2>3. \/ UNCHANGED <<present, action, pending>>
        \/ r.kind = "vcpu" /\ action = "none" /\ n > Count /\ AddVcpus(n, ch)
        \/ r.kind = "vcpu" /\ action = "none" /\ n < Count /\ DelVcpus(n, ch)
    <3>1. CASE r.kind = "vcpu" /\ ResizeVcpu(n)
      BY Zenon, <3>1 DEF ResizeVcpu, MayResize, AddNotStarted, AddNoTid, Refuse, vcpu
    <3>2. CASE AddMemDevice(n) \/ AddBalloonDevice(n)
      BY Zenon, <3>2 DEF AddMemDevice, AddBalloonDevice, InsertOrUpdate, Refuse, vcpu
    <3> QED
      BY Zenon, <1>3, <3>1, <3>2 DEF RunVmmAction
  <2> HIDE DEF n, ch, r
  <2> QED
    BY Zenon, <2>2, <2>3, ServiceSame, ServiceAdds, ServiceRemoves
<1> QED
  BY Zenon, <1>1, <1>2, <1>3 DEF VmmNext
-----------------------------------------------------------------------------
(* The theorems *)

\* The VM that has booted.
LEMMA InitInv ==
  VmmInit => VcpuInv /\ PlugInv /\ AgreeInv
<1> SUFFICES ASSUME VmmInit
             PROVE  VcpuInv /\ PlugInv /\ AgreeInv
  BY Zenon
<1>1. BootVcpu \in 1..MaxVcpu /\ present = 0..(BootVcpu - 1)
  BY Zenon DEF VmmInit
<1>2. Count = BootVcpu
  BY SMTT(30), <1>1, CountIs
<1>3. VcpuInv
  BY SMTT(30), <1>1, <1>2 DEF VmmInit, VcpuInv
<1>4. PlugInv /\ AgreeInv
  BY Zenon DEF VmmInit, PlugInv, AgreeInv, Ended
<1> QED
  BY Zenon, <1>3, <1>4

\* The inductive invariant of resize_vcpu, the upcall client and process_cpu_action: the
\* vcpus with a thread, the pending hot plug and the guest's kernel agree throughout.
THEOREM Invariant ==
  VmmSpec => [](VcpuInv /\ PlugInv /\ AgreeInv)
  BY InitInv, VcpuStep, PlugStep, AgreeStep, PTL DEF VmmSpec

\* do_add_vcpu appends and exit_vcpus truncates: whatever the callers ask for and
\* however the upcall connection fares, the list of tids names the vcpus with a thread,
\* in order, and these are the lowest ids, unless a start was rolled back for a tid.
THEOREM TidsMatch ==
  VmmSpec => []TidsArePresent
<1>1. VcpuInv => TidsArePresent
  BY Zenon DEF VcpuInv, TidsArePresent
<1> QED
  BY <1>1, Invariant, PTL

\* The threads of a plug start before the guest is told of it and those of an unplug
\* end after the guest has answered (send_upcall_action, process_cpu_action): no vcpu
\* the guest's kernel has is ever without its thread while the stream does not break.
THEOREM ThreadsOutliveGuest ==
  VmmSpec => []OnlineHasThread
<1>1. PlugInv => OnlineHasThread
  BY Zenon DEF PlugInv, OnlineHasThread
<1> QED
  BY <1>1, Invariant, PTL

\* vcpus_in_action is cleared only on the guest's word (process_cpu_action): when no
\* hot plug is pending, the guest's kernel and the VMM have the same vcpus.
THEOREM GuestKeepsUp ==
  VmmSpec => []GuestAgrees
<1>1. AgreeInv => GuestAgrees
  BY Zenon DEF AgreeInv, GuestAgrees
<1> QED
  BY <1>1, Invariant, PTL

\* The VMM implements VcpuService for any callers within its contract: resize_vcpu refuses a
\* second resize (vcpu_manager.rs:862), and stop_vcpus_in_action leaves as many vcpus as the
\* unplug was asked for, whatever the guest answers and whether or not the stream holds.
THEOREM VmmImplementsService ==
  VmmSpec => ImplementsService
<1>1. VmmInit => Service!Init
  <2> SUFFICES ASSUME VmmInit
               PROVE  Service!Init
    BY Zenon
  <2>1. BootVcpu \in Nat \ {0} /\ present = 0..(BootVcpu - 1) /\ action = "none"
    BY SMTT(30) DEF VmmInit
  <2>2. Count = BootVcpu
    BY Zenon, <2>1, CountIs
  <2> QED
    BY Zenon, <2>1, <2>2 DEF Service!Init, Remain
<1>2. VcpuInv /\ [VmmNext]_<<setting, vmm>> => [Service!Next]_<<Count, action, Remain>>
  BY Zenon, ServiceStep
<1> QED
  BY <1>1, <1>2, Invariant, PTL DEF VmmSpec, ImplementsService, Service!Spec
===========================================================================
