----------------------- MODULE SandboxResizeProofs -----------------------
(* Proofs about the runtime's resizing, part 2: where operations come one  *)
(* at a time, the runtime knows the number of vcpus; the VMM's types.      *)
EXTENDS SandboxResizeContract

-----------------------------------------------------------------------------
(* Operations that come one at a time.                                     *)

\* At the start nothing is in the channels, and current_vcpu is the default, which the
\* boot count rounds up.
LEMMA CalmInit ==
  Init => CalmInv /\ SumInv
<1> SUFFICES ASSUME Init PROVE CalmInv /\ SumInv
  BY Zenon
<1>1. Count = BootVcpu
  BY SMTT(30), CountIs, VmmAssumption DEF Init, VmmInit
<1>2. ~wedged /\ Silent /\ Settled
  BY Zenon, <1>1, ResizeAssumption DEF Init, VmmInit, Silent, Settled, Unplanned
<1>3. \A c \in Cid : pc[c] = "idle" /\ held[c] = NoChan
  BY Zenon, ResizeAssumption DEF Init, VmmInit
<1> QED
  BY Zenon, <1>2, <1>3 DEF CalmInv, SumInv

\* The task of the operation under way, or of a new one, goes to a step.
CalmMoves(c) ==
  /\ pc[c] # "idle" \/ \A d \in Cid : pc[d] = "idle"
  /\ \E step : Goto(c, step)
  /\ UNCHANGED <<setting, wedged>>
  /\ pc'[c] = "idle" => Silent' /\ Settled'
  /\ pc'[c] # "idle" => Stage(c)'
  /\ pc'[c] # "cpu_wait" => held'[c] = NoChan
  /\ \A d \in Cid \ {c} : held'[d] = held[d]

\* A task that moves so preserves what holds of operations one at a time.
LEMMA CalmMove ==
  ASSUME RuntimeInv, CalmInv, Calm, NEW c \in Cid, CalmMoves(c)
  PROVE  CalmInv'
<1>1. \A d \in Cid \ {c} : pc'[d] = pc[d] /\ pc[d] = "idle"
  <2>1. \A d \in Cid \ {c} : pc'[d] = pc[d]
    BY Zenon DEF CalmMoves, Goto, RuntimeInv, RuntimeTypeOK
  <2> QED
    BY Zenon, <2>1 DEF CalmMoves, CalmInv
<1>2. ~wedged'
  BY Zenon DEF CalmMoves, CalmInv
<1>3. (\A d \in Cid : pc'[d] = "idle") => Silent' /\ Settled'
  BY Zenon DEF CalmMoves
<1>4. \A d \in Cid : pc'[d] # "idle" => Stage(d)' /\ \A e \in Cid \ {d} : pc'[e] = "idle"
  <2> SUFFICES ASSUME NEW d \in Cid, pc'[d] # "idle"
               PROVE  Stage(d)' /\ \A e \in Cid \ {d} : pc'[e] = "idle"
    BY Zenon
  <2>1. d = c
    BY Zenon, <1>1
  <2>2. Stage(c)'
    BY Zenon, <2>1 DEF CalmMoves
  <2>3. Stage(d)'
    BY <2>1, <2>2, Zenon
  <2> QED
    BY Zenon, <2>1, <2>3, <1>1
<1>5. \A d \in Cid : pc'[d] # "cpu_wait" => held'[d] = NoChan
  BY Zenon, <1>1 DEF CalmMoves, CalmInv
<1> QED
  BY Zenon, <1>2, <1>3, <1>4, <1>5 DEF CalmInv

\* What an operation under way meets.
LEMMA CalmHas ==
  ASSUME CalmInv, Calm, NEW c \in Cid, pc[c] # "idle"
  PROVE  /\ Stage(c) /\ ~wedged
         /\ \A d \in Cid \ {c} : pc[d] = "idle"
         /\ \A d \in Cid : pc[d] # "cpu_wait" => held[d] = NoChan
  BY Zenon DEF CalmInv

\* Between two operations, and in the steps of one that wait for nothing.
LEMMA CalmPlain ==
  ASSUME RuntimeInv, CalmInv, Calm, NEW c \in Cid,
         \/ Begin(c) \/ CpuMap(c) \/ CpuMapFails(c) \/ CpuSum(c) \/ CpuCompare(c)
         \/ MemMap(c) \/ MemSum(c) \/ Online(c)
  PROVE  CalmInv'
<1>1. UNCHANGED <<setting, vmm, current>>
  BY Zenon DEF Begin, CpuMap, CpuMapFails, CpuSum, CpuCompare, MemMap, MemSum, Online, sums
<1>2. pc[c] # "idle" \/ \A d \in Cid : pc[d] = "idle"
  BY Zenon DEF Begin, CpuMap, CpuMapFails, CpuSum, CpuCompare, MemMap, MemSum, Online, Calm
<1>3. \E step \in {"idle", "cpu_map", "cpu_sum", "cpu_cmp", "cpu_old", "mem_map", "mem_sum", "mem_size"} :
        Goto(c, step)
  BY Zenon DEF Begin, CpuMap, CpuMapFails, CpuSum, CpuCompare, MemMap, MemSum, Online, GotoWith, Finish
<1>4. /\ pc[c] \notin {"cpu_recv", "cpu_wait", "cpu_cur", "mem_deflate", "mem_recv"}
      /\ pc'[c] \notin {"cpu_recv", "cpu_wait", "cpu_cur", "mem_deflate", "mem_recv"}
  BY Zenon, <1>3 DEF Begin, CpuMap, CpuMapFails, CpuSum, CpuCompare, MemMap, MemSum, Online, Goto, RuntimeInv, RuntimeTypeOK
<1>5. Silent /\ Settled
  BY Zenon, <1>2, <1>4 DEF CalmInv, Stage, Reading, Writing
<1>6. Silent' /\ Settled'
  BY Zenon, <1>1, <1>5 DEF Silent, Settled, Ceil, Unplanned, Count, vmm, vcpu, api
<1>7. Stage(c)'
  BY Zenon, <1>4, <1>6 DEF Stage, Reading, Writing
<1>8. held' = held /\ wedged' = wedged /\ held[c] = NoChan
  BY Zenon, <1>1, <1>4 DEF vmm, api, vcpu, CalmInv
<1>9. CalmMoves(c)
  BY Zenon, <1>1, <1>2, <1>3, <1>6, <1>7, <1>8 DEF CalmMoves
<1> QED
  BY <1>9, CalmMove, Zenon

\* A whole number of vcpus is its own ceiling.
LEMMA CeilWhole ==
  ASSUME NEW n \in Nat
  PROVE  Ceil(n * Unit) = n
<1>1. n * Unit \in Nat /\ n * Unit < n * Unit + Unit
  BY SMTT(30), ResizeAssumption
<1> QED
  BY SMTT(30), <1>1, CeilOnly

\* The request for vcpus is made and sent, or found unnecessary.
LEMMA CalmAsk ==
  ASSUME RuntimeInv, VcpuInv, CalmInv, Calm, NEW c \in Cid,
         CpuOld(c) \/ CpuResize(c) \/ CpuCurrent(c)
  PROVE  CalmInv'
<1>0. /\ pc[c] \in {"cpu_old", "cpu_send", "cpu_cur"} /\ pc \in [Cid -> Steps]
      /\ num \in [Cid -> Nat] /\ Count \in Nat /\ Unit \in Nat \ {0}
  BY SMTT(30), ResizeAssumption, VmmAssumption
  DEF CpuOld, CpuResize, CpuCurrent, RuntimeInv, RuntimeTypeOK, VcpuInv
<1>1. Stage(c) /\ held[c] = NoChan
  BY Zenon, <1>0, CalmHas
<1>2. /\ UNCHANGED <<setting, vcpu, held>> /\ Count' = Count
      /\ \E step : Goto(c, step)
  BY Zenon DEF CpuOld, CpuResize, CpuCurrent, GotoWith, vmm, api, vcpu, Count
<1>3. Stage(c)' /\ pc'[c] \notin {"idle", "cpu_wait"}
  <2>1. CASE CpuOld(c)
    <3>1. Silent /\ Settled
      BY Zenon, <1>1, <2>1 DEF CpuOld, Stage, Reading, Writing
    <3>2. \/ pc'[c] = "cpu_cur" /\ num'[c] = Count
          \/ pc'[c] = "cpu_send"
      BY Zenon, <1>0, <2>1, <3>1 DEF CpuOld, GotoWith, Goto, Settled
    <3>3. Silent' /\ Settled' /\ Unplanned'
      BY Zenon, <1>2, <2>1, <3>1 DEF CpuOld, Silent, Settled, Ceil, Unplanned, vmm, api, vcpu, sums
    <3> QED
      BY Zenon, <1>2, <3>2, <3>3 DEF Stage, Reading, Writing
  <2>2. CASE CpuResize(c)
    <3> DEFINE n == Least(num[c], MaxVcpu)
    <3>1. Silent /\ Settled
      BY Zenon, <1>1, <2>2 DEF CpuResize, Stage, Reading, Writing
    <3>2. pc'[c] = "cpu_recv" /\ num'[c] = n
      BY Zenon, <1>0, <2>2 DEF CpuResize, GotoWith, Goto
    <3>3. Asked' /\ Head(queue') = [kind |-> "vcpu", n |-> n]
      BY SMTT(30), <2>2, <3>1 DEF CpuResize, Send, Asked, Silent
    <3>4. Settled'
      BY Zenon, <1>2, <2>2, <3>1 DEF CpuResize, Settled, Ceil, Unplanned, vcpu, sums
    <3> QED
      BY Zenon, <3>2, <3>3, <3>4 DEF Stage, Reading, Writing
  <2>3. CASE CpuCurrent(c)
    <3>1. Silent /\ Unplanned /\ num[c] = Count
      BY Zenon, <1>1, <2>3 DEF CpuCurrent, Stage
    <3>2. Silent' /\ Settled'
      <4>1. Silent' /\ Unplanned'
        BY Zenon, <1>2, <2>3, <3>1 DEF CpuCurrent, Silent, Unplanned, vmm, vcpu, api
      <4>2. current' = Count * Unit
        BY Zenon, <2>3, <3>1 DEF CpuCurrent
      <4>3. Ceil(current') = Count
        BY Zenon, <1>0, <4>2, CeilWhole
      <4> QED
        BY Zenon, <1>2, <4>1, <4>3 DEF Settled, Ceil
    <3>3. pc'[c] = "mem_map"
      BY Zenon, <1>0, <2>3 DEF CpuCurrent, GotoWith, Goto
    <3> QED
      BY Zenon, <3>2, <3>3 DEF Stage, Reading, Writing
  <2> QED
    BY Zenon, <2>1, <2>2, <2>3
<1>4. CalmMoves(c)
  BY Zenon, <1>0, <1>1, <1>2, <1>3 DEF CalmMoves, vcpu
<1> QED
  BY ZenonT(60), <1>4, CalmMove, Zenon

\* A response is taken, or the end of a hot plug awaited.
LEMMA CalmTake ==
  ASSUME RuntimeInv, CalmInv, Calm, resp \in Seq(Response), held \in [Cid -> Chan \cup {NoChan}],
         NEW c \in Cid, CpuRecv(c) \/ CpuWait(c) \/ MemDeflated(c) \/ MemRecv(c)
  PROVE  CalmInv'
<1>0. /\ pc[c] \in {"cpu_recv", "cpu_wait", "mem_deflate", "mem_recv"}
      /\ pc \in [Cid -> Steps] /\ num \in [Cid -> Nat]
  BY Zenon DEF CpuRecv, CpuWait, MemDeflated, MemRecv, RuntimeInv, RuntimeTypeOK
<1>1. Stage(c)
  BY Zenon, <1>0, CalmHas
<1>2. /\ UNCHANGED <<setting, vcpu, current>> /\ Count' = Count
      /\ \E step : Goto(c, step)
      /\ \A d \in Cid \ {c} : held'[d] = held[d]
  BY Zenon DEF CpuRecv, CpuWait, MemDeflated, MemRecv, HotplugMem, GotoWith, Finish, Receive, Drop, vcpu, sums, Count
<1>3. /\ pc'[c] = "idle" => Silent' /\ Settled'
      /\ pc'[c] # "idle" => Stage(c)'
      /\ pc'[c] # "cpu_wait" => held'[c] = NoChan
  <2>1. CASE CpuRecv(c)
    <3>1. Answered /\ resp' = Tail(resp) /\ UNCHANGED <<queue, bell, signalled>>
          /\ held'[c] = Head(resp).ch
      BY Zenon, <1>1, <2>1 DEF CpuRecv, Receive, Stage, Asked
    <3>2. Silent'
      BY <3>1 DEF Answered, Silent
    <3>3. CASE Head(resp).ok
      <4>1. pc'[c] = "cpu_wait" /\ num' = num
        BY ZenonT(60), <1>0, <2>1, <3>3 DEF CpuRecv, Goto
      <4>2. Resizing(num[c], Head(resp).ch)
        BY SMTT(30), <1>1, <2>1, <3>1, <3>3 DEF CpuRecv, Stage, Answered, Asked
      <4>3. PICK n, ch : n = num[c] /\ ch = Head(resp).ch
        BY Zenon
      <4>4. Resizing(n, ch)
        BY Zenon, <4>2, <4>3
      <4>5. Resizing(n, ch)'
        BY Zenon, <1>2, <2>1, <3>1, <4>4 DEF Resizing, Unplanned, vcpu
      <4>6. n = num'[c] /\ ch = held'[c]
        BY Zenon, <4>1, <4>3, <3>1
      <4>7. Resizing(num[c], held[c])'
        BY Zenon, <4>5, <4>6 DEF Resizing
      <4> QED
        BY Zenon, <3>2, <4>1, <4>7 DEF Stage, Reading, Writing
    <3>4. CASE ~Head(resp).ok
      <4>1. pc'[c] = "idle"
        BY Zenon, <1>0, <2>1, <3>4 DEF CpuRecv, Finish, GotoWith, Goto
      <4>2. Settled /\ Head(resp).ch = NoChan
        BY SMTT(30), <1>1, <2>1, <3>1, <3>4 DEF CpuRecv, Stage, Answered, Asked
      <4>3. Settled'
        BY Zenon, <1>2, <4>2 DEF Settled, Ceil, Unplanned, vcpu
      <4> QED
        BY Zenon, <3>1, <3>2, <4>1, <4>2, <4>3
    <3> QED
      BY Zenon, <3>3, <3>4
  <2>2. CASE CpuWait(c)
    <3>1. "timeout" \notin Faults
      BY Zenon DEF Calm, Harmless
    <3>2. /\ held[c] \in signalled /\ pc'[c] = "cpu_cur" /\ num' = num
          /\ held'[c] = NoChan /\ UNCHANGED <<queue, bell, resp>>
      BY Zenon, <1>0, <2>2, <3>1 DEF CpuWait, Goto, Drop
    <3>3. Silent /\ Unplanned /\ Count = num[c]
      BY Zenon, <1>1, <2>2, <3>2 DEF CpuWait, Stage, Resizing
    <3>4. Silent' /\ Unplanned'
      BY ZenonT(60), <1>2, <3>2, <3>3 DEF Silent, Unplanned, vcpu
    <3> QED
      BY Zenon, <1>2, <3>2, <3>3, <3>4 DEF Stage, Reading, Writing
  <2>3. CASE MemDeflated(c) \/ MemRecv(c)
    <3>1. Answered /\ Settled /\ Head(resp).ch = NoChan /\ resp' = Tail(resp) /\ held'[c] = NoChan
      BY ZenonT(60), <1>1, <2>3 DEF MemDeflated, MemRecv, Receive, Stage, Asked, Writing
    <3>2. Settled' /\ resp' = <<>>
      BY SMTT(30), <1>2, <3>1 DEF Settled, Ceil, Unplanned, vcpu, Answered
    <3>3. CASE UNCHANGED <<queue, bell>> /\ pc'[c] \in {"idle", "online"}
      <4>1. Silent'
        BY Zenon, <3>1, <3>2, <3>3 DEF Silent, Answered
      <4> QED
        BY Zenon, <3>1, <3>2, <3>3, <4>1 DEF Stage, Reading, Writing
    <3>4. CASE MemDeflated(c) /\ HotplugMem(c)
      <4>1. pc'[c] = "mem_recv"
        BY ZenonT(60), <1>0, <3>4 DEF HotplugMem, Goto
      <4>2. Asked' /\ Head(queue').kind = "mem"
        BY SMTT(30), <3>1, <3>2, <3>4 DEF HotplugMem, Send, Asked, Answered
      <4> QED
        BY Zenon, <3>1, <3>2, <4>1, <4>2 DEF Stage, Reading, Writing
    <3> QED
      BY Zenon, <1>0, <2>3, <3>3, <3>4 DEF MemDeflated, MemRecv, Finish, GotoWith, Goto
  <2> QED
    BY Zenon, <2>1, <2>2, <2>3
<1>4. CalmMoves(c)
  BY Zenon, <1>0, <1>2, <1>3 DEF CalmMoves, vcpu
<1> QED
  BY <1>4, CalmMove, Zenon

\* resize_memory asks a device for its new size, or does nothing.
LEMMA CalmMem ==
  ASSUME RuntimeInv, CalmInv, Calm, NEW c \in Cid, MemSize(c)
  PROVE  CalmInv'
<1>0. pc[c] = "mem_size" /\ pc \in [Cid -> Steps]
  BY Zenon DEF MemSize, RuntimeInv, RuntimeTypeOK
<1>1. Silent /\ Settled /\ held[c] = NoChan
  BY Zenon, <1>0, CalmHas DEF Stage, Reading, Writing
<1>2. /\ UNCHANGED <<setting, vcpu, held, current, resp>> /\ Count' = Count
      /\ \E step : Goto(c, step)
  BY Zenon DEF MemSize, HotplugMem, vcpu, sums, Count
<1>3. Settled'
  BY Zenon, <1>1, <1>2 DEF Settled, Ceil, Unplanned, vcpu
<1>4. Stage(c)' /\ pc'[c] \notin {"idle", "cpu_wait"}
  <2>1. CASE Goto(c, "online") /\ UNCHANGED <<queue, bell>>
    <3>1. pc'[c] = "online" /\ Silent'
      BY ZenonT(60), <1>0, <1>1, <1>2, <2>1 DEF Goto, Silent
    <3> QED
      BY Zenon, <1>3, <3>1 DEF Stage, Reading, Writing
  <2>2. ASSUME NEW k \in {"mem", "balloon"}, NEW n, Send(k, n),
               Goto(c, "mem_deflate") \/ Goto(c, "mem_recv")
        PROVE  Stage(c)' /\ pc'[c] \notin {"idle", "cpu_wait"}
    <3>1. pc'[c] \in {"mem_deflate", "mem_recv"}
      BY Zenon, <1>0, <2>2 DEF Goto
    <3>2. Asked' /\ Head(queue').kind = k
      BY SMTT(30), <1>1, <1>2, <2>2 DEF Send, Asked, Silent
    <3> QED
      BY Zenon, <1>3, <3>1, <3>2 DEF Stage, Reading, Writing
  <2> QED
    BY Zenon, <2>1, <2>2 DEF MemSize, HotplugMem
<1>5. CalmMoves(c)
  BY Zenon, <1>0, <1>1, <1>2, <1>4 DEF CalmMoves, vcpu
<1> QED
  BY <1>5, CalmMove, Zenon

\* The VMM or the guest does something: what the operation under way meets is seen from
\* its own step, and what is left between two is left.
CalmBelow ==
  /\ UNCHANGED <<setting, pc, held, wedged>>
  /\ Silent /\ Settled => Silent' /\ Settled'
  /\ \A c \in Cid : pc[c] # "idle" /\ Stage(c) => Stage(c)'

\* So does a step below the runtime.
LEMMA CalmStays ==
  ASSUME CalmInv, Calm, CalmBelow
  PROVE  CalmInv'
  BY Zenon DEF CalmInv, CalmBelow

\* What does not touch the vcpu manager or the channels.
LEMMA CalmAside ==
  ASSUME CalmInv, Calm, UNCHANGED <<setting, vcpu, api, task, sums>>
  PROVE  CalmInv'
<1>1. Count' = Count
  BY Zenon DEF vcpu, Count
<1>2. UNCHANGED <<setting, pc, num, held, wedged>>
  BY Zenon DEF vcpu, api, task
<1>3. /\ Silent' = Silent /\ Asked' = Asked /\ Answered' = Answered /\ Settled' = Settled
      /\ Unplanned' = Unplanned
  BY Zenon, <1>1 DEF Silent, Asked, Answered, Settled, Ceil, Unplanned, vcpu, api, sums
<1>4. ASSUME NEW n, NEW ch, Resizing(n, ch)
      PROVE  Resizing(n, ch)'
  BY Zenon, <1>1, <1>4 DEF Resizing, Unplanned, vcpu, api
<1>5. ASSUME NEW c \in Cid, Stage(c)
      PROVE  Stage(c)'
  <2>1. PICK n, h, a : n = num[c] /\ h = held[c] /\ a = Head(resp).ch
    BY Zenon
  <2>2. n = num'[c] /\ h = held'[c] /\ a = Head(resp').ch
    BY Zenon, <1>2, <2>1 DEF api
  <2>3. /\ Resizing(num[c], held[c]) => Resizing(num[c], held[c])'
        /\ Resizing(num[c], Head(resp).ch) => Resizing(num[c], Head(resp).ch)'
    <3>1. Resizing(n, h) => Resizing(n, h)'
      BY Zenon, <1>4
    <3>2. Resizing(n, a) => Resizing(n, a)'
      BY Zenon, <1>4
    <3> QED
      BY Zenon, <2>1, <2>2, <3>1, <3>2 DEF Resizing
  <2> QED
    BY Zenon, <1>1, <1>2, <1>3, <1>5, <2>3 DEF Stage, Reading, Writing, api
<1>6. CalmBelow
  BY Zenon, <1>2, <1>3, <1>5 DEF CalmBelow
<1> QED
  BY <1>6, CalmStays, Zenon

\* process_cpu_action ends the hot plug that the operation under way waits for, and no
\* other: its threads are the ones asked for, and the channel tells.
LEMMA CalmEnd ==
  ASSUME VcpuInv, PlugInv, AgreeInv, CalmInv, Calm, ProcessCpuAction,
         UNCHANGED <<setting, task, sums>>
  PROVE  CalmInv'
<1>1. event = "ok" /\ action \in {"plug", "unplug"} /\ syncTx' = NoChan /\ action' = "none"
  <2>1. "break" \notin Faults /\ "fail" \notin Faults
    BY Zenon DEF Calm, Harmless
  <2>2. event # "none" /\ event # "failed" /\ action # "none"
    BY Zenon, <2>1 DEF PlugInv, AgreeInv, ProcessCpuAction
  <2> QED
    BY Zenon, <2>2 DEF ProcessCpuAction, SyncActionFinish
<1>2. UNCHANGED <<setting, pc, num, held, wedged, resp, queue, bell>>
  BY Zenon DEF ProcessCpuAction, task
<1>3. /\ action = "plug" => present' = present
      /\ action = "unplug" => present' = present \ pending
      /\ signalled' = IF syncTx # NoChan /\ Awaited(syncTx) THEN signalled \cup {syncTx} ELSE signalled
  BY Zenon, <1>1 DEF ProcessCpuAction, SyncActionFinish, StopVcpusInAction
<1>4. ASSUME NEW n, NEW ch, Resizing(n, ch), Awaited(ch)
      PROVE  Resizing(n, ch)'
  <2>1. syncTx = ch /\ ch \in Chan /\ n \in Nat /\ ch \in signalled'
    BY Zenon, <1>1, <1>3, <1>4, VmmAssumption DEF Resizing, Unplanned
  <2>2. CASE action = "plug"
    BY Zenon, <1>1, <1>3, <1>4, <2>1, <2>2 DEF Resizing, Unplanned, Count
  <2>3. CASE action = "unplug"
    <3>1. /\ n \in 1..(Count - 1) /\ pending = n..(Count - 1)
          /\ Count \in Nat /\ present = 0..(Count - 1)
      BY SMTT(30), <1>4, <2>3, VmmAssumption DEF Resizing, Unplanned, VcpuInv
    <3> DEFINE k == Count
    <3> HIDE DEF k
    <3>2. 0..(k - 1) \ n..(k - 1) = 0..(n - 1)
      BY <3>1 DEF k
    <3>3. present' = 0..(n - 1)
      BY Zenon, <1>3, <2>3, <3>1, <3>2 DEF k
    <3>4. Count' = n
      BY SMTT(30), <2>1, <3>3, Width DEF Count
    <3> QED
      BY Zenon, <1>1, <2>1, <3>4 DEF Resizing, Unplanned
  <2> QED
    BY Zenon, <1>1, <2>2, <2>3
<1>5. ~Unplanned /\ ~Settled
  BY Zenon, <1>1 DEF Unplanned, Settled, Ceil
<1>6. ASSUME NEW c \in Cid, Stage(c)
      PROVE  Stage(c)'
  <2>1. Reading(c)
    BY Zenon, <1>5, <1>6 DEF Stage
  <2>2. CASE pc[c] = "cpu_recv"
    <3>1. Answered /\ Head(resp).ok /\ Resizing(num[c], Head(resp).ch)
      BY Zenon, <1>5, <1>6, <2>2 DEF Stage
    <3>2. PICK n, ch : n = num[c] /\ ch = Head(resp).ch
      BY Zenon
    <3>3. Awaited(ch)
      <4>1. 1 \in DOMAIN resp /\ resp[1].ch = ch
        BY SMTT(30), <3>1, <3>2 DEF Answered
      <4> QED
        BY Zenon, <4>1 DEF Awaited
    <3>4. Resizing(n, ch)'
      BY Zenon, <1>4, <3>1, <3>2, <3>3
    <3>5. Resizing(num[c], Head(resp).ch)'
      BY Zenon, <1>2, <3>2, <3>4 DEF Resizing
    <3>6. Answered' /\ Head(resp').ok
      BY Zenon, <1>2, <3>1 DEF Answered
    <3> QED
      BY Zenon, <1>2, <2>2, <3>5, <3>6 DEF Stage, Reading, Writing
  <2>3. CASE pc[c] = "cpu_wait"
    <3>1. Silent /\ Resizing(num[c], held[c])
      BY Zenon, <1>6, <2>3 DEF Stage
    <3>2. PICK n, ch : n = num[c] /\ ch = held[c]
      BY Zenon
    <3>3. Awaited(ch)
      BY Zenon, <3>2, ResizeAssumption DEF Awaited
    <3>4. Resizing(n, ch)'
      BY Zenon, <1>4, <3>1, <3>2, <3>3
    <3>5. Resizing(num[c], held[c])'
      BY Zenon, <1>2, <3>2, <3>4 DEF Resizing
    <3>6. Silent'
      BY Zenon, <1>2, <3>1 DEF Silent
    <3> QED
      BY Zenon, <1>2, <2>3, <3>5, <3>6 DEF Stage, Reading, Writing
  <2> QED
    BY Zenon, <2>1, <2>2, <2>3 DEF Reading
<1>7. CalmBelow
  BY Zenon, <1>2, <1>5, <1>6 DEF CalmBelow
<1> QED
  BY <1>7, CalmStays, Zenon

\* Vm::resize_vcpu, asked for n vcpus while no hot plug is pending: it refuses and changes
\* nothing, or the number is n already, or will be on the guest's word.
LEMMA CalmResize ==
  ASSUME VcpuInv, PlugInv, Calm, Unplanned, resp = <<>>,
         \A c \in Cid : held[c] = NoChan, NEW n \in 1..MaxVcpu, ResizeVcpu(n)
  PROVE  /\ UNCHANGED wedged
         /\ \/ /\ resp' = <<[ok |-> FALSE, ch |-> NoChan]>>
               /\ UNCHANGED <<present, action, syncTx>>
            \/ \E ch : resp' = <<[ok |-> TRUE, ch |-> ch]>> /\ Resizing(n, ch)'
<1> DEFINE k == Count
<1>0. /\ reply # "broken" /\ "spawn" \notin Faults /\ "tid" \notin Faults
      /\ k \in 1..MaxVcpu /\ present = 0..(k - 1) /\ n \in Nat /\ MaxVcpu \in Nat
  BY SMTT(30), VmmAssumption DEF Calm, Harmless, PlugInv, VcpuInv
<1>1. CASE Refuse
  BY <1>1 DEF Refuse, Respond, vcpu
<1> HIDE DEF k
<1>2. PICK ch \in Chan : ch = CHOOSE x \in Chan : Unused(x)
  <2>1. \A x \in Chan : Unused(x)
    BY SMTT(30), VmmAssumption, ResizeAssumption DEF Unused, Awaited, Unplanned
  <2>2. Chan # {}
    <3> DEFINE m == Cardinality(Cid)
    <3>1. m \in Nat /\ Cardinality(Chan) > 2 * m + 1
      BY Zenon, ResizeAssumption, FS_CardinalityType
    <3>2. Chan = {} => Cardinality(Chan) = 0
      BY Zenon, FS_EmptySet
    <3> HIDE DEF m
    <3>3. ~(0 > 2 * m + 1)
      BY SMTT(30), <3>1
    <3> QED
      BY Zenon, <3>1, <3>2, <3>3
  <2>3. \E x \in Chan : Unused(x)
    BY Zenon, <2>1, <2>2
  <2>4. (CHOOSE x \in Chan : Unused(x)) \in Chan
    BY Zenon, <2>3
  <2> QED
    BY Zenon, <2>4
<1>3. ASSUME Respond(TRUE, ch), Resizing(n, ch)'
      PROVE  \E x : resp' = <<[ok |-> TRUE, ch |-> x]>> /\ Resizing(n, x)'
  <2>1. resp' = <<[ok |-> TRUE, ch |-> ch]>>
    BY SMTT(30), <1>3 DEF Respond
  <2> QED
    BY Zenon, <1>3, <2>1
<1>4. CASE /\ n = Count /\ signalled' = signalled \cup {ch} /\ syncTx' = NoChan
           /\ Respond(TRUE, ch)
           /\ UNCHANGED <<present, tids, action, pending, wedged, conn, dev, guest>>
  <2>1. Resizing(n, ch)'
    BY SMTT(30), <1>0, <1>2, <1>4 DEF Resizing, Unplanned, Count
  <2> QED
    BY ZenonT(60), <1>3, <1>4, <2>1
<1>5. CASE n > Count /\ AddVcpus(n, ch)
  <2>1. /\ syncTx' = ch /\ signalled' = signalled \ {ch} /\ action' = "plug"
        /\ present' = present \cup Available(n) /\ Respond(TRUE, ch) /\ wedged' = wedged
    BY Zenon, <1>0, <1>5 DEF AddVcpus, SendFails
  <2>2. Available(n) = k..(n - 1)
    <3>1. n \in (k + 1)..MaxVcpu
      BY SMTT(30), <1>0, <1>5 DEF k
    <3> QED
      BY Zenon, <1>0, <3>1, AvailableIs
  <2>3. present' = 0..(n - 1)
    <3>1. 0..(k - 1) \cup k..(n - 1) = 0..(n - 1)
      BY SMTT(30), <1>0, <1>5 DEF k
    <3> QED
      BY Zenon, <1>0, <2>1, <2>2, <3>1
  <2>4. Count' = n
    BY SMTT(30), <1>0, <2>3, Width DEF Count
  <2>5. Resizing(n, ch)'
    BY SMTT(30), <1>0, <1>2, <2>1, <2>4 DEF Resizing
  <2> QED
    BY ZenonT(60), <1>3, <2>1, <2>5
<1>6. CASE n < Count /\ DelVcpus(n, ch)
  <2>1. /\ syncTx' = ch /\ signalled' = signalled \ {ch} /\ action' = "unplug"
        /\ present' = present /\ pending' = Removable(n) /\ Respond(TRUE, ch) /\ wedged' = wedged
    BY ZenonT(60), <1>0, <1>6 DEF DelVcpus, SendFails
  <2>2. n \in 1..(k - 1)
    BY SMTT(30), <1>0, <1>6 DEF k
  <2>3. Removable(n) = n..(k - 1)
    BY Zenon, <1>0, <2>2, RemovableIs
  <2>4. Count' = k
    BY ZenonT(60), <2>1 DEF k, Count
  <2>5. Resizing(n, ch)'
    BY SMTT(30), <1>0, <1>2, <2>1, <2>2, <2>3, <2>4 DEF Resizing
  <2> QED
    BY Zenon, <1>3, <2>1, <2>5
<1> QED
  BY Zenon, <1>0, <1>1, <1>2, <1>4, <1>5, <1>6 DEF ResizeVcpu, MayResize, AddNotStarted, AddNoTid

\* run_vmm_action takes the one request there is, and leaves its response.
LEMMA CalmRun ==
  ASSUME VcpuInv, PlugInv, CalmInv, Calm, RunVmmAction, UNCHANGED <<setting, task, sums>>
  PROVE  CalmInv'
<1>0. bell /\ ~bell' /\ queue' = Tail(queue) /\ UNCHANGED <<setting, pc, num, held, current>>
  BY Zenon DEF RunVmmAction, task, sums
<1>1. ~Silent /\ ~Answered
  BY Zenon, <1>0 DEF Silent, Answered
<1>2. PICK c \in Cid : pc[c] # "idle"
  BY Zenon, <1>1 DEF CalmInv
<1>3. /\ Stage(c) /\ \A d \in Cid \ {c} : pc[d] = "idle"
      /\ pc[c] # "cpu_wait" => \A d \in Cid : held[d] = NoChan
  BY Zenon, <1>2, CalmHas
<1>4. /\ Asked /\ Settled /\ pc[c] \in {"cpu_recv", "mem_deflate", "mem_recv"}
      /\ pc[c] = "cpu_recv" => Head(queue) = [kind |-> "vcpu", n |-> num[c]]
      /\ pc[c] # "cpu_recv" => Head(queue).kind # "vcpu"
  BY Zenon, <1>1, <1>3 DEF Stage, Reading, Writing
<1>5. queue' = <<>> /\ resp = <<>> /\ Head(queue) \in ProperRequest
  BY SMTT(30), <1>0, <1>4 DEF Asked, VcpuInv
<1>6. UNCHANGED wedged /\ Stage(c)'
  <2>1. CASE pc[c] = "cpu_recv"
    <3>1. PICK n : n = num[c]
      BY Zenon
    <3>2. n \in 1..MaxVcpu /\ ResizeVcpu(n)
      BY SMTT(30), <1>4, <1>5, <2>1, <3>1 DEF RunVmmAction, ProperRequest, Proper
    <3>3. /\ UNCHANGED wedged
          /\ \/ /\ resp' = <<[ok |-> FALSE, ch |-> NoChan]>>
                /\ UNCHANGED <<present, action, syncTx>>
             \/ \E ch : resp' = <<[ok |-> TRUE, ch |-> ch]>> /\ Resizing(n, ch)'
      <4>1. Unplanned /\ \A d \in Cid : held[d] = NoChan
        BY Zenon, <1>3, <1>4, <2>1 DEF Settled
      <4> QED
        BY Zenon, <1>5, <3>2, <4>1, CalmResize
    <3>4. CASE resp' = <<[ok |-> FALSE, ch |-> NoChan]>> /\ UNCHANGED <<present, action, syncTx>>
      <4>1. Answered' /\ Head(resp') = [ok |-> FALSE, ch |-> NoChan]
        BY SMTT(30), <1>0, <1>5, <3>4 DEF Answered
      <4>2. Settled'
        BY Zenon, <1>0, <1>4, <3>4 DEF Settled, Ceil, Unplanned, Count
      <4> QED
        BY Zenon, <1>0, <2>1, <3>3, <4>1, <4>2 DEF Stage, Reading, Writing
    <3>5. ASSUME NEW ch, resp' = <<[ok |-> TRUE, ch |-> ch]>>, Resizing(n, ch)'
          PROVE  Stage(c)'
      <4>1. Answered' /\ Head(resp').ok /\ Head(resp').ch = ch
        BY SMTT(30), <1>0, <1>5, <3>5 DEF Answered
      <4>2. Resizing(num[c], Head(resp).ch)'
        BY Zenon, <1>0, <3>1, <3>5, <4>1 DEF Resizing
      <4> QED
        BY Zenon, <1>0, <2>1, <4>1, <4>2 DEF Stage, Reading, Writing
    <3> QED
      BY ZenonT(60), <3>3, <3>4, <3>5
  <2>2. CASE pc[c] # "cpu_recv"
    <3>1. UNCHANGED vcpu /\ \E ok : Respond(ok, NoChan)
      BY ZenonT(60), <1>4, <2>2 DEF RunVmmAction, AddMemDevice, AddBalloonDevice, InsertOrUpdate, Refuse
    <3>2. Answered' /\ Head(resp').ch = NoChan
      BY SMTT(30), <1>0, <1>5, <3>1 DEF Answered, Respond
    <3>3. Settled'
      BY Zenon, <1>0, <1>4, <3>1 DEF Settled, Ceil, Unplanned, Count, vcpu
    <3> QED
      BY Zenon, <1>0, <1>4, <2>2, <3>1, <3>2, <3>3 DEF Stage, Reading, Writing, vcpu
  <2> QED
    BY Zenon, <2>1, <2>2
<1>7. CalmBelow
  BY ZenonT(60), <1>0, <1>1, <1>3, <1>6 DEF CalmBelow
<1> QED
  BY <1>7, CalmStays, Zenon

\* So does every step of the system.
LEMMA CalmStep ==
  ASSUME RuntimeInv, VmmTypeOK, VcpuInv, PlugInv, AgreeInv, CalmInv, [Next]_vars
  PROVE  CalmInv'
<1>1. setting' = setting
  BY Zenon, ContractStep DEF VcpuInv, VmmNext
<1>2. CASE ~Calm
  BY Zenon, <1>1, <1>2 DEF CalmInv, Calm, Serial, Faults
<1>3. CASE Calm
  <2>1. ASSUME NEW c \in Cid, Begin(c) \/ TaskStep(c)
        PROVE  CalmInv'
    <3>1. resp \in Seq(Response) /\ held \in [Cid -> Chan \cup {NoChan}]
      BY Zenon, ResizeAssumption DEF VmmTypeOK
    <3> QED
      BY Zenon, <1>3, <2>1, <3>1, CalmPlain, CalmAsk, CalmTake, CalmMem DEF TaskStep
  <2>2. CASE Below(RunVmmAction)
    BY Zenon, <1>3, <2>2, CalmRun DEF Below
  <2>3. CASE Below(ProcessCpuAction)
    BY Zenon, <1>3, <2>3, CalmEnd DEF Below
  <2>4. CASE \/ Below(HandleStreamEvent) \/ Below(HandleReconnectEvent) \/ Below(GuestGreets)
             \/ Below(GuestServes) \/ Below(GuestFails) \/ Below(GuestCloses)
             \/ UNCHANGED vars
    <3>1. UNCHANGED <<setting, vcpu, api, task, sums>>
      BY Zenon, <2>4 DEF Below, HandleStreamEvent, HandleReconnectEvent, GuestGreets, GuestServes,
                  GuestFails, GuestCloses, vars, vmm
    <3> QED
      BY Zenon, <1>3, <3>1, CalmAside
  <2> QED
    BY Zenon, <2>1, <2>2, <2>3, <2>4 DEF Next
<1> QED
  BY Zenon, <1>2, <1>3
-----------------------------------------------------------------------------
(* The sum over the containers and the vcpus there are.                    *)

\* What the sum is taken of.
LEMMA SumSame ==
  ASSUME cpus' = cpus
  PROVE  Required' = Required
  BY Zenon DEF Required, Entries

\* More is enough where some number is.
LEMMA MoreIsEnough ==
  ASSUME NEW r \in Nat, NEW n \in Nat, n >= Ceil(r) \/ n >= Least(Ceil(r), MaxVcpu)
  PROVE  n >= Least(Ceil(r), MaxVcpu)
  BY SMTT(30), CeilIs, VmmAssumption DEF Least

\* A task's step keeps the number it works on enough for the sum over the containers.
LEMMA SumTask ==
  ASSUME RuntimeInv, VcpuInv, CalmInv, CalmInv', SumInv, Calm, setting' = setting,
         NEW c \in Cid, Begin(c) \/ TaskStep(c)
  PROVE  SumInv'
<1> DEFINE r == Required
           b == Least(Ceil(r), MaxVcpu)
<1>0. /\ r \in Nat /\ Ceil(r) \in Nat /\ MaxVcpu \in Nat /\ b \in Nat /\ Unit \in Nat \ {0}
      /\ pc \in [Cid -> Steps] /\ num \in [Cid -> Nat]
      /\ op \in [Cid -> Op] /\ Count \in Nat /\ current \in Nat
  <2>1. r \in Nat
    BY Zenon, RequiredIsNat
  <2>2. MaxVcpu \in Nat /\ Count \in Nat /\ Unit \in Nat \ {0}
    BY SMTT(30), VmmAssumption, ResizeAssumption DEF VcpuInv
  <2> HIDE DEF r
  <2>3. Ceil(r) \in Nat
    BY Zenon, <2>1, CeilIs
  <2> QED
    BY Zenon, <2>1, <2>2, <2>3 DEF RuntimeInv, RuntimeTypeOK, Least
<1>1. \A d \in Cid \ {c} : pc'[d] = "idle"
  <2>1. \A d \in Cid \ {c} : pc[d] = "idle"
    <3>1. CASE Begin(c)
      BY Zenon, <3>1 DEF Begin, Calm
    <3>2. CASE TaskStep(c)
      <4>1. pc[c] # "idle"
        BY Zenon, <3>2 DEF TaskStep, CpuMap, CpuMapFails, CpuSum, CpuCompare, CpuOld, CpuResize, CpuRecv, CpuWait,
                    CpuCurrent, MemMap, MemSum, MemSize, MemDeflated, MemRecv, Online
      <4> QED
        BY ZenonT(60), <4>1, CalmHas
    <3> QED
      BY Zenon, <3>1, <3>2
  <2>2. \E step : Goto(c, step)
    BY Zenon DEF Begin, TaskStep, CpuMap, CpuMapFails, CpuSum, CpuCompare, CpuOld, CpuResize, CpuRecv, CpuWait,
           CpuCurrent, MemMap, MemSum, MemSize, MemDeflated, MemRecv, Online, HotplugMem,
           GotoWith, Finish
  <2> QED
    BY Zenon, <1>0, <2>1, <2>2 DEF Goto
<1>2. Calm'
  BY Zenon DEF Calm, Serial, Faults
<1> DEFINE Goal ==
      /\ pc'[c] \in {"cpu_cmp", "cpu_old"} => num'[c] = Required'
      /\ pc'[c] \in {"cpu_send", "cpu_recv", "cpu_wait"} => num'[c] >= Least(Ceil(Required'), MaxVcpu)
      /\ pc'[c] \in {"cpu_cur", "mem_map"} /\ op'[c] # "Del" =>
           Count' >= Least(Ceil(Required'), MaxVcpu)
<1> SUFFICES Goal
  <2>1. ASSUME NEW d \in Cid, d # c
        PROVE  pc'[d] = "idle"
    BY Zenon, <1>1, <2>1
  <2> QED
    BY Zenon, <1>2, <2>1 DEF SumInv, Enough, Ceil
<1>3. cpus' = cpus => Required' = r
  BY Zenon, SumSame
<1> HIDE DEF r
<1>4. /\ pc[c] \in {"cpu_cmp", "cpu_old"} => num[c] = r
      /\ pc[c] \in {"cpu_send", "cpu_recv", "cpu_wait"} => num[c] >= b
      /\ pc[c] \in {"cpu_cur", "mem_map"} /\ op[c] # "Del" => Count >= b
  BY Zenon DEF SumInv, Enough, r
<1>5. pc[c] \in {"cpu_cmp", "cpu_old"} => Ceil(current) = Count
  <2>1. pc[c] \in {"cpu_cmp", "cpu_old"} => Settled
    BY Zenon, CalmHas DEF Stage, Reading, Writing
  <2> QED
    BY Zenon, <2>1 DEF Settled
<1> HIDE DEF b
<1>6. CASE \/ Begin(c) \/ CpuMap(c) \/ CpuMapFails(c) \/ MemMap(c) \/ MemSum(c) \/ MemSize(c)
           \/ MemDeflated(c) \/ MemRecv(c) \/ Online(c)
  <2>1. pc'[c] \in {"idle", "cpu_map", "cpu_sum", "mem_sum", "mem_size", "mem_deflate", "mem_recv", "online"}
    BY ZenonT(60), <1>0, <1>6 DEF Begin, CpuMap, CpuMapFails, MemMap, MemSum, MemSize, MemDeflated, MemRecv, Online,
                 HotplugMem, GotoWith, Finish, Goto
  <2> QED
    BY ZenonT(60), <2>1
<1>7. CASE CpuSum(c)
  <2>1. cpus' = cpus /\ pc'[c] = "cpu_cmp" /\ num'[c] = r
    BY Zenon, <1>0, <1>7 DEF CpuSum, GotoWith, Goto, sums, r
  <2> QED
    BY Zenon, <1>3, <2>1
<1>8. CASE CpuCompare(c)
  <2>1. cpus' = cpus /\ Count' = Count /\ pc[c] = "cpu_cmp"
    BY ZenonT(60), <1>8 DEF CpuCompare, sums, vmm, vcpu, Count
  <2>2. CASE num[c] = current
    <3>1. pc'[c] = "mem_map"
      BY Zenon, <1>0, <1>8, <2>2 DEF CpuCompare, GotoWith, Goto
    <3>2. Count >= Least(Ceil(r), MaxVcpu)
      BY SMTT(30), <1>0, <1>4, <1>5, <2>1, <2>2, MoreIsEnough
    <3> QED
      BY Zenon, <1>3, <2>1, <3>1, <3>2
  <2>3. CASE num[c] # current
    <3>1. pc'[c] = "cpu_old" /\ num' = num
      BY Zenon, <1>0, <1>8, <2>3 DEF CpuCompare, Goto
    <3> QED
      BY Zenon, <1>3, <1>4, <2>1, <3>1
  <2> QED
    BY ZenonT(60), <2>2, <2>3
<1>9. CASE CpuOld(c)
  <2> DEFINE g == Greatest(num[c], Unit)
  <2>1. cpus' = cpus /\ Count' = Count /\ pc[c] = "cpu_old" /\ op' = op
    BY Zenon, <1>0, <1>9 DEF CpuOld, sums, vmm, vcpu, Count
  <2>2. num[c] = r /\ Ceil(current) = Count
    BY Zenon, <1>4, <1>5, <2>1
  <2>3. g \in Nat /\ r <= g /\ Target(c) = Ceil(g)
    BY SMTT(30), <1>0, <2>2 DEF Greatest, Target
  <2> HIDE DEF g
  <2>4. Ceil(r) <= Ceil(g) /\ Ceil(g) \in Nat
    BY Zenon, <1>0, <2>3, CeilGrows, CeilIs
  <2>5. CASE Kept(c) \/ Target(c) = Ceil(current)
    <3>1. pc'[c] = "cpu_cur"
      BY Zenon, <1>0, <1>9, <2>5 DEF CpuOld, GotoWith, Goto
    <3>2. op[c] # "Del" => Count >= Ceil(r)
      <4>1. CASE op[c] = "Add" /\ current > num[c]
        BY SMTT(30), <1>0, <2>2, <4>1, CeilGrows
      <4>2. CASE Target(c) = Ceil(current)
        BY SMTT(30), <1>0, <2>2, <2>3, <2>4, <4>2
      <4> QED
        BY ZenonT(60), <2>5, <4>1, <4>2 DEF Kept
    <3>3. op[c] # "Del" => Count >= Least(Ceil(r), MaxVcpu)
      BY Zenon, <1>0, <3>2, MoreIsEnough
    <3> QED
      BY Zenon, <1>3, <2>1, <3>1, <3>3
  <2>6. CASE ~(Kept(c) \/ Target(c) = Ceil(current))
    <3>1. pc'[c] = "cpu_send" /\ num'[c] = Ceil(g)
      BY ZenonT(60), <1>0, <1>9, <2>3, <2>6 DEF CpuOld, GotoWith, Goto
    <3>2. Ceil(g) >= Least(Ceil(r), MaxVcpu)
      BY SMTT(30), <1>0, <2>4 DEF Least
    <3> QED
      BY Zenon, <1>3, <2>1, <3>1, <3>2
  <2> QED
    BY Zenon, <2>5, <2>6
<1>10. CASE CpuResize(c)
  <2>1. /\ cpus' = cpus /\ pc[c] = "cpu_send" /\ pc'[c] = "cpu_recv"
        /\ num'[c] = Least(num[c], MaxVcpu)
    BY Zenon, <1>0, <1>10 DEF CpuResize, GotoWith, Goto, sums
  <2>2. num[c] >= b /\ num[c] \in Nat
    BY ZenonT(60), <1>0, <1>4, <2>1
  <2>3. Least(num[c], MaxVcpu) >= Least(Ceil(r), MaxVcpu)
    BY SMTT(30), <1>0, <2>2 DEF Least, b
  <2> QED
    BY Zenon, <1>3, <2>1, <2>3
<1>11. CASE CpuRecv(c)
  <2>1. cpus' = cpus /\ pc[c] = "cpu_recv" /\ (pc'[c] = "idle" \/ (pc'[c] = "cpu_wait" /\ num' = num))
    BY Zenon, <1>0, <1>11 DEF CpuRecv, GotoWith, Goto, Finish, sums
  <2> QED
    BY Zenon, <1>3, <1>4, <2>1 DEF b
<1>12. CASE CpuWait(c)
  <2>1. /\ cpus' = cpus /\ pc[c] = "cpu_wait"
        /\ (pc'[c] = "idle" \/ (pc'[c] = "cpu_cur" /\ num' = num))
    BY ZenonT(60), <1>0, <1>12 DEF CpuWait, GotoWith, Goto, Finish, sums
  <2>2. pc'[c] = "cpu_cur" => num'[c] = Count'
    BY ZenonT(60), <1>2 DEF CalmInv, Stage
  <2> QED
    BY Zenon, <1>3, <1>4, <2>1, <2>2 DEF b
<1>13. CASE CpuCurrent(c)
  <2>1. /\ cpus' = cpus /\ Count' = Count /\ pc[c] = "cpu_cur" /\ pc'[c] = "mem_map" /\ op' = op
    BY ZenonT(60), <1>0, <1>13 DEF CpuCurrent, GotoWith, Goto, vmm, vcpu, Count
  <2> QED
    BY Zenon, <1>3, <1>4, <2>1 DEF b
<1> HIDE DEF Goal
<1> QED
  BY Zenon, <1>6, <1>7, <1>8, <1>9, <1>10, <1>11, <1>12, <1>13 DEF TaskStep

\* So does every step of the system: those below leave the sums, and never take a vcpu
\* that the resize in progress did not ask to go.
LEMMA SumStep ==
  ASSUME RuntimeInv, VcpuInv, CalmInv, CalmInv', VcpuInv', SumInv, [Next]_vars
  PROVE  SumInv'
<1>1. setting' = setting
  BY ZenonT(60), ContractStep DEF VcpuInv, VmmNext
<1>2. CASE ~Calm
  BY ZenonT(60), <1>1, <1>2 DEF SumInv, Calm, Serial, Faults
<1>3. ASSUME Calm, UNCHANGED <<setting, task, sums>>
      PROVE  SumInv'
  <2>1. Calm' /\ Required' = Required /\ UNCHANGED <<pc, num, op, current>>
    BY ZenonT(60), <1>3, SumSame DEF Calm, Serial, Faults, task, sums
  <2>2. ASSUME NEW c \in Cid, pc[c] \in {"cpu_cur", "mem_map"}
        PROVE  Count' = Count
    <3>1. Stage(c) /\ Stage(c)'
      BY ZenonT(60), <1>3, <2>1, <2>2 DEF CalmInv
    <3>2. CASE pc[c] = "cpu_cur"
      BY ZenonT(60), <2>1, <3>1, <3>2 DEF Stage
    <3>3. CASE pc[c] = "mem_map"
      <4>1. Settled /\ Settled'
        BY Zenon, <2>1, <3>1, <3>3 DEF Stage, Reading, Writing
      <4> QED
        BY ZenonT(60), <2>1, <4>1 DEF Settled, Ceil
    <3> QED
      BY Zenon, <2>2, <3>2, <3>3
  <2> QED
    BY Zenon, <1>3, <2>1, <2>2 DEF SumInv, Enough, Ceil
<1>4. ASSUME Calm, NEW c \in Cid, Begin(c) \/ TaskStep(c)
      PROVE  SumInv'
  BY Zenon, <1>1, <1>4, SumTask
<1> QED
  BY Zenon, <1>2, <1>3, <1>4 DEF Next, Below, vars
-----------------------------------------------------------------------------
(* Types: there is always a channel to be had.                             *)

\* The tasks that wait, as one of them goes to another step.
LEMMA WaitingMoves ==
  ASSUME RuntimeInv, NEW c \in Cid, NEW step, Goto(c, step)
  PROVE  LET W == {"cpu_recv", "mem_deflate", "mem_recv"} IN
         /\ Cardinality(Waiting) \in Nat /\ Cardinality(Waiting) <= Cardinality(Cid)
         /\ pc[c] \in W /\ step \in W => Cardinality(Waiting') = Cardinality(Waiting)
         /\ pc[c] \notin W /\ step \notin W => Cardinality(Waiting') = Cardinality(Waiting)
         /\ pc[c] \in W /\ step \notin W => Cardinality(Waiting') = Cardinality(Waiting) - 1
         /\ pc[c] \notin W /\ step \in W => Cardinality(Waiting') = Cardinality(Waiting) + 1
<1> DEFINE W == {"cpu_recv", "mem_deflate", "mem_recv"}
           w == Waiting
<1>1. w \subseteq Cid /\ IsFiniteSet(Cid)
  BY Zenon, ResizeAssumption DEF Waiting
<1>2. pc' = [pc EXCEPT ![c] = step] /\ pc \in [Cid -> Steps]
  BY Zenon DEF Goto, RuntimeInv, RuntimeTypeOK
<1>3. c \in w <=> pc[c] \in W
  BY Zenon DEF Waiting
<1>4. /\ pc[c] \in W /\ step \in W => Waiting' = w
      /\ pc[c] \notin W /\ step \notin W => Waiting' = w
      /\ pc[c] \in W /\ step \notin W => Waiting' = w \ {c}
      /\ pc[c] \notin W /\ step \in W => Waiting' = w \cup {c}
  BY ZenonT(60), <1>2 DEF Waiting
<1> HIDE DEF W, w
<1>5. IsFiniteSet(w) /\ Cardinality(w) \in Nat /\ Cardinality(w) <= Cardinality(Cid)
  BY ZenonT(60), <1>1, FS_Subset, FS_CardinalityType
<1>6. /\ c \in w => Cardinality(w \ {c}) = Cardinality(w) - 1
      /\ c \notin w => Cardinality(w \cup {c}) = Cardinality(w) + 1
  BY Zenon, <1>5, FS_RemoveElement, FS_AddElement
<1>7. /\ Cardinality(w) \in Nat /\ Cardinality(w) <= Cardinality(Cid)
      /\ pc[c] \in W /\ step \in W => Cardinality(Waiting') = Cardinality(w)
      /\ pc[c] \notin W /\ step \notin W => Cardinality(Waiting') = Cardinality(w)
      /\ pc[c] \in W /\ step \notin W => Cardinality(Waiting') = Cardinality(w) - 1
      /\ pc[c] \notin W /\ step \in W => Cardinality(Waiting') = Cardinality(w) + 1
  BY Zenon, <1>3, <1>4, <1>5, <1>6
<1> QED
  BY Zenon, <1>7 DEF W, w

\* What a task does to the channels and to the tasks that wait.
AnswerMoves(c) ==
  LET W == {"cpu_recv", "mem_deflate", "mem_recv"} IN
  \E step :
    /\ Goto(c, step)
    /\ \/ pc[c] \notin W /\ step \notin W /\ UNCHANGED <<queue, resp>>
       \/ pc[c] \notin W /\ step \in W /\ UNCHANGED resp /\ \E r : queue' = Append(queue, r)
       \/ pc[c] \in W /\ step \notin W /\ UNCHANGED queue /\ resp # <<>> /\ resp' = Tail(resp)
       \/ /\ pc[c] \in W /\ step \in W /\ resp # <<>> /\ resp' = Tail(resp)
          /\ \E r : queue' = Append(queue, r)

\* A task that moves so has as many tasks waiting as there are requests and responses.
LEMMA AnswerTask ==
  ASSUME RuntimeInv, AnswerInv, queue \in Seq(Request), resp \in Seq(Response),
         NEW c \in Cid, AnswerMoves(c)
  PROVE  AnswerInv'
<1> DEFINE W == {"cpu_recv", "mem_deflate", "mem_recv"}
           k == Cardinality(Waiting)
<1>1. PICK step :
        /\ Goto(c, step)
        /\ \/ pc[c] \notin W /\ step \notin W /\ UNCHANGED <<queue, resp>>
           \/ pc[c] \notin W /\ step \in W /\ UNCHANGED resp /\ \E r : queue' = Append(queue, r)
           \/ pc[c] \in W /\ step \notin W /\ UNCHANGED queue /\ resp # <<>> /\ resp' = Tail(resp)
           \/ /\ pc[c] \in W /\ step \in W /\ resp # <<>> /\ resp' = Tail(resp)
              /\ \E r : queue' = Append(queue, r)
  BY Zenon DEF AnswerMoves
<1>2. /\ k \in Nat
      /\ pc[c] \in W /\ step \in W => Cardinality(Waiting') = k
      /\ pc[c] \notin W /\ step \notin W => Cardinality(Waiting') = k
      /\ pc[c] \in W /\ step \notin W => Cardinality(Waiting') = k - 1
      /\ pc[c] \notin W /\ step \in W => Cardinality(Waiting') = k + 1
  BY Zenon, <1>1, WaitingMoves
<1> DEFINE ww == Cardinality(Waiting')
<1>3. Len(queue) + Len(resp) <= k
  BY Zenon DEF AnswerInv
<1> SUFFICES Len(queue') + Len(resp') <= ww
  BY Zenon DEF AnswerInv
<1> HIDE DEF W, k, ww
<1>4. Len(queue) \in Nat /\ Len(resp) \in Nat
  OBVIOUS
<1>5. \A r : Len(Append(queue, r)) = Len(queue) + 1
  OBVIOUS
<1>6. resp # <<>> => Len(Tail(resp)) = Len(resp) - 1
  OBVIOUS
<1> QED
  BY SMTT(30), <1>1, <1>2, <1>3, <1>4, <1>5, <1>6 DEF ww

\* So does every step of the system: the VMM thread answers one request with one response.
LEMMA AnswerStep ==
  ASSUME RuntimeInv, VcpuInv, AnswerInv, queue \in Seq(Request), resp \in Seq(Response),
         [Next]_vars
  PROVE  AnswerInv'
<1>1. ASSUME NEW c \in Cid, Begin(c) \/ TaskStep(c)
      PROVE  AnswerInv'
  <2>1. AnswerMoves(c)
    <3>1. CASE \/ Begin(c) \/ CpuMap(c) \/ CpuMapFails(c) \/ CpuSum(c) \/ CpuCompare(c) \/ CpuOld(c)
               \/ CpuWait(c) \/ CpuCurrent(c) \/ MemMap(c) \/ MemSum(c) \/ Online(c)
      <4>1. /\ UNCHANGED <<queue, resp>> /\ pc[c] \notin {"cpu_recv", "mem_deflate", "mem_recv"}
            /\ \E step \in {"idle", "cpu_map", "cpu_sum", "cpu_cmp", "cpu_old", "cpu_send", "cpu_cur",
                            "mem_map", "mem_sum", "mem_size"} : Goto(c, step)
        BY ZenonT(60), <3>1 DEF Begin, CpuMap, CpuMapFails, CpuSum, CpuCompare, CpuOld, CpuWait, CpuCurrent,
                    MemMap, MemSum, Online, GotoWith, Finish, Drop, vmm, api
      <4> QED
        BY ZenonT(60), <4>1 DEF AnswerMoves
    <3>2. CASE CpuResize(c)
      BY ZenonT(60), <3>2 DEF AnswerMoves, CpuResize, GotoWith, Send
    <3>3. CASE MemSize(c)
      BY SMTT(30), <3>3 DEF AnswerMoves, MemSize, HotplugMem, Send
    <3>4. CASE CpuRecv(c) \/ MemDeflated(c) \/ MemRecv(c)
      <4>1. /\ pc[c] \in {"cpu_recv", "mem_deflate", "mem_recv"}
            /\ resp # <<>> /\ resp' = Tail(resp)
            /\ \/ \E step \in {"idle", "cpu_wait", "online"} : Goto(c, step) /\ UNCHANGED queue
               \/ Goto(c, "mem_recv") /\ \E r : queue' = Append(queue, r)
        BY Zenon, <3>4 DEF CpuRecv, MemDeflated, MemRecv, HotplugMem, Send, Receive, GotoWith, Finish
      <4> QED
        BY Zenon, <4>1 DEF AnswerMoves
    <3> QED
      BY Zenon, <1>1, <3>1, <3>2, <3>3, <3>4 DEF TaskStep
  <2> QED
    BY <2>1, AnswerTask, Zenon
<1>2. CASE UNCHANGED task /\ UNCHANGED <<queue, resp>>
  BY Zenon, <1>2 DEF AnswerInv, Waiting, task
<1>3. CASE Below(RunVmmAction)
  <2>1. Waiting' = Waiting
    BY Zenon, <1>3 DEF Below, task, Waiting
  <2>2. queue # <<>> /\ queue' = Tail(queue)
    BY ZenonT(60), <1>3 DEF Below, RunVmmAction, VcpuInv
  <2>3. resp' = resp \/ \E r : resp' = Append(resp, r)
    BY ZenonT(60), <1>3 DEF Below, RunVmmAction, ResizeVcpu, MayResize, AddVcpus, AddNotStarted, AddNoTid, DelVcpus,
                AddMemDevice, AddBalloonDevice, InsertOrUpdate, Refuse, Respond
  <2>4. Len(queue') = Len(queue) - 1 /\ Len(resp') <= Len(resp) + 1 /\ Len(queue) \in Nat
    BY SMTT(30), <2>2, <2>3
  <2>5. Len(resp) \in Nat /\ Len(resp') \in Nat
    BY SMTT(30), <2>3
  <2>6. Len(queue') + Len(resp') <= Len(queue) + Len(resp)
    BY SMTT(30), <2>4, <2>5
  <2>7. Cardinality(Waiting) \in Nat
    <3>1. Waiting \subseteq Cid
      BY Zenon DEF Waiting
    <3> QED
      BY Zenon, <3>1, ResizeAssumption, FS_Subset, FS_CardinalityType
  <2> DEFINE k == Cardinality(Waiting)
  <2> HIDE DEF k
  <2>8. Len(queue') + Len(resp') <= k
    BY SMTT(30), <2>4, <2>5, <2>6, <2>7 DEF k, AnswerInv
  <2> QED
    BY Zenon, <2>1, <2>8 DEF AnswerInv, k
<1>4. CASE \/ Below(HandleStreamEvent) \/ Below(HandleReconnectEvent) \/ Below(ProcessCpuAction)
           \/ Below(GuestGreets) \/ Below(GuestServes) \/ Below(GuestFails) \/ Below(GuestCloses)
           \/ UNCHANGED vars
  <2>1. UNCHANGED task /\ UNCHANGED <<queue, resp>>
    BY Zenon, <1>4 DEF Below, HandleStreamEvent, HandleReconnectEvent, ProcessCpuAction, GuestGreets,
                GuestServes, GuestFails, GuestCloses, vars, vmm, api
  <2> QED
    BY ZenonT(60), <2>1, <1>2
<1> QED
  BY Zenon, <1>1, <1>3, <1>4 DEF Next

\* A new channel can be made: the ones in use are that of the pending hot plug, one for
\* each caller at most, and one for each response that was not taken.
LEMMA FreeChannel ==
  ASSUME RuntimeInv, AnswerInv, queue \in Seq(Request), resp \in Seq(Response)
  PROVE  \E ch \in Chan : Unused(ch)
<1> DEFINE mine == {held[c] : c \in Cid}
           told == {resp[i].ch : i \in DOMAIN resp}
           used == {syncTx} \cup (mine \cup told)
           m == Cardinality(Cid)
           k == Cardinality(Waiting)
<1>1. IsFiniteSet(Cid) /\ m \in Nat /\ k \in Nat /\ k <= m
  <2>1. Waiting \subseteq Cid
    BY Zenon DEF Waiting
  <2> QED
    BY Zenon, <2>1, ResizeAssumption, FS_Subset, FS_CardinalityType
<1>2. IsFiniteSet(mine) /\ Cardinality(mine) <= m /\ Cardinality(mine) \in Nat
  <2> DEFINE f == [c \in Cid |-> held[c]]
  <2>1. f \in Surjection(Cid, mine)
    BY Zenon DEF Surjection
  <2> HIDE DEF f, mine
  <2> QED
    BY Zenon, <1>1, <2>1, FS_Surjection, FS_CardinalityType
<1>3. Len(resp) \in Nat /\ Len(queue) \in Nat /\ Len(resp) <= k
  <2>1. Len(resp) \in Nat /\ Len(queue) \in Nat
    OBVIOUS
  <2>2. Len(queue) + Len(resp) <= k
    BY Zenon DEF AnswerInv
  <2> HIDE DEF k
  <2> QED
    BY SMTT(30), <1>1, <2>1, <2>2
<1>4. IsFiniteSet(told) /\ Cardinality(told) <= Len(resp) /\ Cardinality(told) \in Nat
  <2> DEFINE D == 1..Len(resp)
             f == [i \in D |-> resp[i].ch]
  <2>1. IsFiniteSet(D) /\ Cardinality(D) = Len(resp)
    <3> DEFINE n == Len(resp)
    <3>1. n \in Nat
      BY ZenonT(60), <1>3
    <3> HIDE DEF n
    <3>2. IsFiniteSet(1..n) /\ Cardinality(1..n) = IF 1 > n THEN 0 ELSE n - 1 + 1
      BY SMTT(30), <3>1, FS_Interval
    <3>3. IsFiniteSet(1..n) /\ Cardinality(1..n) = n
      BY SMTT(30), <3>1, <3>2
    <3> QED
      BY Zenon, <3>3 DEF n
  <2>2. f \in Surjection(D, told)
    <3>1. DOMAIN resp = D
      BY SMTT(30)
    <3> HIDE DEF D
    <3> QED
      BY Zenon, <3>1 DEF Surjection
  <2> HIDE DEF f, D, told
  <2> QED
    BY SMTT(30), <2>1, <2>2, FS_Surjection, FS_CardinalityType
<1> HIDE DEF mine, told, m, k
<1>5. IsFiniteSet(used) /\ Cardinality(used) <= 2 * m + 1 /\ Cardinality(used) \in Nat
  <2> DEFINE both == mine \cup told
  <2>1. IsFiniteSet(both) /\ Cardinality(both) <= Cardinality(mine) + Cardinality(told)
    <3>1. IsFiniteSet(both) /\ IsFiniteSet(mine \cap told)
      BY Zenon, <1>2, <1>4, FS_Union, FS_Intersection
    <3>2. Cardinality(both) = Cardinality(mine) + Cardinality(told) - Cardinality(mine \cap told)
      BY ZenonT(60), <1>2, <1>4, FS_Union
    <3>3. Cardinality(mine \cap told) \in Nat
      BY ZenonT(60), <3>1, FS_CardinalityType
    <3> HIDE DEF both
    <3> QED
      BY SMTT(30), <1>2, <1>4, <3>1, <3>2, <3>3
  <2> HIDE DEF both
  <2>2. Cardinality(both) \in Nat
    BY Zenon, <2>1, FS_CardinalityType
  <2>3. used = both \cup {syncTx}
    BY Zenon DEF both
  <2>4. IsFiniteSet(used) /\ Cardinality(used) <= Cardinality(both) + 1
    <3>1. CASE syncTx \in both
      <4>1. used = both
        BY ZenonT(60), <2>3, <3>1
      <4> HIDE DEF used
      <4> QED
        BY SMTT(30), <4>1, <2>1, <2>2
    <3>2. CASE syncTx \notin both
      <4>1. IsFiniteSet(both \cup {syncTx}) /\ Cardinality(both \cup {syncTx}) = Cardinality(both) + 1
        BY Zenon, <2>1, <3>2, FS_AddElement
      <4> HIDE DEF used
      <4> QED
        BY SMTT(30), <2>2, <2>3, <4>1
    <3> QED
      BY Zenon, <3>1, <3>2
  <2> HIDE DEF used
  <2>5. Cardinality(used) \in Nat
    BY ZenonT(60), <2>4, FS_CardinalityType
  <2> QED
    BY SMTT(30), <1>1, <1>2, <1>3, <1>4, <2>1, <2>2, <2>4, <2>5
<1> HIDE DEF used
<1>6. ~(Chan \subseteq used)
  <2>1. Chan \subseteq used => Cardinality(Chan) <= Cardinality(used)
    BY Zenon, <1>5, FS_Subset
  <2>2. Cardinality(Chan) > 2 * m + 1 /\ Cardinality(Chan) \in Nat
    BY Zenon, ResizeAssumption, FS_CardinalityType DEF m
  <2> QED
    BY SMTT(30), <1>1, <1>5, <2>1, <2>2
<1>7. PICK ch \in Chan : ch \notin used
  BY Zenon, <1>6
<1>8. Unused(ch)
  BY Zenon, <1>7, ResizeAssumption DEF used, mine, told, Unused, Awaited
<1> QED
  BY Zenon, <1>8

\* The vcpu ids that are added, in order.
LEMMA AddedIds ==
  ASSUME VcpuInv, NEW n \in 1..MaxVcpu, n > Count
  PROVE  Available(n) \subseteq Id /\ Ascending(Available(n)) \in Seq(Id)
<1> DEFINE k == Count
<1>0. k \in 1..MaxVcpu /\ present = 0..(k - 1) /\ MaxVcpu \in Nat /\ k < n
  BY Zenon, VmmAssumption DEF VcpuInv
<1> HIDE DEF k
<1>1. Available(n) = k..(n - 1)
  BY SMTT(30), <1>0, AvailableIs
<1>2. Ascending(k..(n - 1)) = [x \in 1..(n - k) |-> k + x - 1]
  BY SMTT(30), <1>0, AscendingIs
<1> DEFINE d == n - k
           f == [x \in 1..d |-> k + x - 1]
<1>3. f \in [1..d -> Id] /\ d \in Nat
  BY SMTT(30), <1>0 DEF Id
<1>4. k..(n - 1) \subseteq Id
  BY SMTT(30), <1>0 DEF Id
<1>5. Ascending(Available(n)) = f
  BY Zenon, <1>1, <1>2
<1> HIDE DEF d, f
<1>6. f \in Seq(Id)
  BY SMTT(30), <1>3
<1> QED
  BY Zenon, <1>1, <1>4, <1>5, <1>6

\* Cutting the list of thread ids leaves a list of ids.
LEMMA TruncatedIds ==
  ASSUME tids \in Seq(Id), NEW n \in Nat
  PROVE  Truncated(n) \in Seq(Id)
  BY SMTT(30) DEF Truncated

\* A response is added to the ones that wait to be taken.
LEMMA RespondIs ==
  ASSUME resp \in Seq(Response), NEW ok \in BOOLEAN, NEW ch \in Chan \cup {NoChan}, Respond(ok, ch)
  PROVE  resp' \in Seq(Response)
  BY SMTT(30) DEF Respond, Response

\* resize_vcpu keeps the types of what it writes, given a channel that is not in use.
LEMMA ResizeTypes ==
  ASSUME VmmTypeOK, VcpuInv, NEW n \in 1..MaxVcpu, ResizeVcpu(n),
         \E ch \in Chan : Unused(ch)
  PROVE  /\ present' \subseteq Id /\ pending' \subseteq Id /\ online' \subseteq Id
         /\ tids' \in Seq(Id) /\ action' \in {"none", "plug", "unplug"}
         /\ syncTx' \in Chan \cup {NoChan} /\ signalled' \subseteq Chan
         /\ resp' \in Seq(Response) /\ wedged' \in BOOLEAN
         /\ callback' \in BOOLEAN /\ upcall' \in {"server", "service", "ready", "busy"}
         /\ job' \in {"none", "add", "del", "dev"}
         /\ UNCHANGED <<stream, timer, reconnects, event, vmem, balloon, reply>>
<1>0. /\ present \subseteq Id /\ pending \subseteq Id /\ online \subseteq Id
      /\ tids \in Seq(Id) /\ action \in {"none", "plug", "unplug"}
      /\ syncTx \in Chan \cup {NoChan} /\ signalled \subseteq Chan
      /\ resp \in Seq(Response) /\ wedged \in BOOLEAN
      /\ callback \in BOOLEAN /\ upcall \in {"server", "service", "ready", "busy"}
      /\ job \in {"none", "add", "del", "dev"}
  BY Zenon DEF VmmTypeOK
<1>1. PICK ch \in Chan : ch = CHOOSE x \in Chan : Unused(x)
  <2>1. (CHOOSE x \in Chan : Unused(x)) \in Chan
    BY Zenon
  <2> QED
    BY Zenon, <2>1
<1>2. CASE Refuse
  <2>1. resp' \in Seq(Response)
    BY Zenon, <1>0, <1>2, RespondIs DEF Refuse
  <2> QED
    BY Zenon, <1>0, <1>2, <2>1 DEF Refuse, vcpu, conn, dev, guest
<1>3. CASE /\ signalled' = signalled \cup {ch} /\ syncTx' = NoChan
           /\ Respond(TRUE, ch)
           /\ UNCHANGED <<present, tids, action, pending, wedged, conn, dev, guest>>
  <2>1. resp' \in Seq(Response)
    BY Zenon, <1>0, <1>1, <1>3, RespondIs
  <2> QED
    BY Zenon, <1>0, <1>1, <1>3, <2>1 DEF conn, dev, guest
<1>4. CASE n > Count /\ AddVcpus(n, ch)
  <2>1. Available(n) \subseteq Id /\ Ascending(Available(n)) \in Seq(Id)
    BY ZenonT(60), <1>4, AddedIds
  <2>2. tids' \in Seq(Id)
    BY SMTT(30), <1>0, <1>4, <2>1 DEF AddVcpus
  <2>3. resp' \in Seq(Response)
    BY ZenonT(60), <1>0, <1>1, <1>4, RespondIs DEF AddVcpus
  <2> QED
    BY ZenonT(60), <1>0, <1>1, <1>4, <2>1, <2>2, <2>3
    DEF AddVcpus, SendUpcallAction, SendFails, conn, dev, guest
<1>5. CASE n > Count /\ AddNotStarted(n, ch)
  <2>1. resp' \in Seq(Response)
    BY Zenon, <1>0, <1>5, RespondIs DEF AddNotStarted
  <2> QED
    BY ZenonT(60), <1>0, <1>1, <1>5, <2>1 DEF AddNotStarted, conn, dev, guest
<1>6. CASE n > Count /\ AddNoTid(n, ch)
  <2>1. resp' \in Seq(Response)
    BY Zenon, <1>0, <1>6, RespondIs DEF AddNoTid
  <2>2. Cardinality(Available(n)) \in Nat
    <3>1. Available(n) \subseteq Id
      BY ZenonT(60), <1>6, AddedIds
    <3>2. IsFiniteSet(Id)
      BY SMTT(30), FS_Interval, VmmAssumption DEF Id
    <3> QED
      BY Zenon, <3>1, <3>2, FS_Subset, FS_CardinalityType
  <2>3. tids' \in Seq(Id)
    BY ZenonT(60), <1>0, <1>6, <2>2, TruncatedIds DEF AddNoTid
  <2> QED
    BY Zenon, <1>0, <1>1, <1>6, <2>1, <2>3 DEF AddNoTid, conn, dev, guest
<1>7. CASE DelVcpus(n, ch)
  <2>1. resp' \in Seq(Response)
    BY Zenon, <1>0, <1>1, <1>7, RespondIs DEF DelVcpus
  <2>2. Removable(n) \subseteq Id
    BY Zenon, <1>0 DEF Removable
  <2> QED
    BY ZenonT(60), <1>0, <1>1, <1>7, <2>1, <2>2 DEF DelVcpus, SendUpcallAction, SendFails, conn, dev, guest
<1> QED
  BY Zenon, <1>1, <1>2, <1>3, <1>4, <1>5, <1>6, <1>7 DEF ResizeVcpu, MayResize

\* Every step of the VMM and its surroundings keeps their types, given such a channel.
LEMMA VmmTypeStep ==
  ASSUME VmmTypeOK, VcpuInv, [VmmNext]_<<setting, vmm>>, \E ch \in Chan : Unused(ch)
  PROVE  VmmTypeOK'
<1>1. CASE RunVmmAction /\ UNCHANGED setting
  <2>1. queue' \in Seq(Request) /\ bell' = FALSE /\ held' = held
    <3>1. queue \in Seq(Request) /\ queue # <<>> /\ queue' = Tail(queue)
      BY ZenonT(60), <1>1 DEF RunVmmAction, VcpuInv, VmmTypeOK
    <3> QED
      BY SMTT(30), <1>1, <3>1 DEF RunVmmAction
  <2>2. Head(queue) \in ProperRequest
    BY SMTT(30), <1>1 DEF RunVmmAction, VcpuInv
  <2>3. CASE Head(queue).kind = "vcpu" /\ ResizeVcpu(Head(queue).n)
    <3> DEFINE n == Head(queue).n
    <3>1. n \in 1..MaxVcpu
      BY Zenon, <2>2, <2>3 DEF ProperRequest, Proper
    <3>2. ResizeVcpu(n)
      BY ZenonT(60), <2>3
    <3> HIDE DEF n
    <3> QED
      BY Zenon, <1>1, <2>1, <3>1, <3>2, ResizeTypes DEF VmmTypeOK
  <2>4. CASE \E m \in Nat : AddMemDevice(m) \/ AddBalloonDevice(m)
    <3>1. PICK m \in Nat : AddMemDevice(m) \/ AddBalloonDevice(m)
      BY Zenon, <2>4
    <3>2. resp' \in Seq(Response)
      <4>1. resp \in Seq(Response) /\ \E ok \in BOOLEAN : Respond(ok, NoChan)
        BY ZenonT(60), <3>1 DEF VmmTypeOK, AddMemDevice, AddBalloonDevice, InsertOrUpdate, Refuse
      <4> QED
        BY ZenonT(60), <4>1, RespondIs
    <3>3. vmem' \in Nat \cup {NoDev} /\ balloon' \in Nat \cup {NoDev}
      <4>1. (vmem' = vmem \/ vmem' = m) /\ (balloon' = balloon \/ balloon' = 0 \/ balloon' = m)
        BY Zenon, <3>1 DEF AddMemDevice, AddBalloonDevice, InsertOrUpdate, Refuse, dev
      <4> QED
        BY SMTT(30), <4>1 DEF VmmTypeOK
    <3>4. /\ UNCHANGED <<vcpu, stream, timer, reconnects, callback, event, signalled, reply, online>>
          /\ upcall' \in {upcall, "busy"} /\ job' \in {job, "dev"}
      BY Zenon, <3>1 DEF AddMemDevice, AddBalloonDevice, InsertOrUpdate, Refuse, conn, guest
    <3>5. upcall' \in {"server", "service", "ready", "busy"} /\ job' \in {"none", "add", "del", "dev"}
      BY ZenonT(60), <3>4 DEF VmmTypeOK
    <3> QED
      BY ZenonT(60), <1>1, <2>1, <3>2, <3>3, <3>4, <3>5 DEF VmmTypeOK, vcpu
  <2>5. Head(queue).n \in Nat
    BY ZenonT(60), <2>2 DEF ProperRequest, Request
  <2> QED
    BY Zenon, <1>1, <2>3, <2>4, <2>5 DEF RunVmmAction
<1>a. reconnects \in 0..(MaxReconnect + 1) /\ MaxReconnect \in Nat
  BY Zenon, VmmAssumption DEF VmmTypeOK
<1>b. (reconnects <= MaxReconnect) \in BOOLEAN
  BY SMTT(30)
<1>2. CASE HandleStreamEvent /\ UNCHANGED setting
  <2>1. stream' \in BOOLEAN /\ timer' \in BOOLEAN /\ callback' \in BOOLEAN
    BY ZenonT(60), <1>2, <1>b DEF HandleStreamEvent, SetReconnect, VmmTypeOK
  <2>2. /\ upcall' \in {"server", "service", "ready", "busy"} /\ reply' = "none"
        /\ job' \in {"none", "add", "del", "dev"} /\ event' \in {"none", "ok", "failed"}
    BY ZenonT(60), <1>2 DEF HandleStreamEvent, SetReconnect, VmmTypeOK
  <2>3. reconnects' \in 0..(MaxReconnect + 1)
    <3>1. reconnects' = reconnects \/ (reconnects <= MaxReconnect /\ reconnects' = reconnects + 1)
      BY ZenonT(60), <1>2 DEF HandleStreamEvent, SetReconnect
    <3> QED
      BY SMTT(30), <1>a, <3>1
  <2>4. UNCHANGED <<setting, vcpu, dev, api, online>>
    BY ZenonT(60), <1>2 DEF HandleStreamEvent
  <2> QED
    BY ZenonT(60), <2>1, <2>2, <2>3, <2>4 DEF VmmTypeOK, vcpu, dev, api
<1>3. CASE HandleReconnectEvent /\ UNCHANGED setting
  <2>1. stream' \in BOOLEAN /\ timer' \in BOOLEAN
    BY Zenon, <1>3, <1>b DEF HandleReconnectEvent, VmmTypeOK
  <2>2. reconnects' \in 0..(MaxReconnect + 1)
    <3>1. reconnects' = reconnects \/ (reconnects <= MaxReconnect /\ reconnects' = reconnects + 1)
      BY ZenonT(60), <1>3 DEF HandleReconnectEvent
    <3> QED
      BY <1>a, <3>1
  <2>3. UNCHANGED <<setting, vcpu, upcall, callback, event, dev, api, guest>>
    BY ZenonT(60), <1>3 DEF HandleReconnectEvent
  <2> QED
    BY SMTT(30), <2>1, <2>2, <2>3 DEF VmmTypeOK, vcpu, dev, api, guest
<1>4. CASE ProcessCpuAction /\ UNCHANGED setting
  <2>1. tids' \in Seq(Id)
    <3>1. IsFiniteSet(Id)
      BY SMTT(30), FS_Interval, VmmAssumption DEF Id
    <3>2. Cardinality(pending) \in Nat /\ tids \in Seq(Id)
      BY Zenon, <3>1, FS_Subset, FS_CardinalityType DEF VmmTypeOK
    <3>3. tids' = tids \/ tids' = Truncated(Cardinality(pending))
      BY ZenonT(60), <1>4 DEF ProcessCpuAction, StopVcpusInAction
    <3> QED
      BY Zenon, <3>2, <3>3, TruncatedIds
  <2>2. signalled' \subseteq Chan /\ syncTx' \in Chan \cup {NoChan}
    BY ZenonT(60), <1>4 DEF ProcessCpuAction, SyncActionFinish, VmmTypeOK
  <2>3. present' \subseteq Id /\ pending' \subseteq Id /\ action' \in {"none", "plug", "unplug"}
    BY ZenonT(60), <1>4 DEF ProcessCpuAction, StopVcpusInAction, VmmTypeOK
  <2> QED
    BY SMTT(30), <1>4, <2>1, <2>2, <2>3 DEF ProcessCpuAction, VmmTypeOK, dev, guest
<1>5. CASE (GuestGreets \/ GuestServes \/ GuestFails \/ GuestCloses) /\ UNCHANGED setting
  <2>1. /\ UNCHANGED <<vcpu, conn, dev, api>> /\ reply' \in {"ok", "broken", "failed"}
        /\ job' \in {job, "none"}
    BY ZenonT(60), <1>5 DEF GuestGreets, GuestServes, GuestFails, GuestCloses
  <2>2. online' \subseteq Id
    BY ZenonT(60), <1>5 DEF GuestGreets, GuestServes, GuestFails, GuestCloses, Plugged, VmmTypeOK
  <2> QED
    BY SMTT(30), <1>5, <2>1, <2>2 DEF VmmTypeOK, vcpu, conn, dev, api
<1>6. CASE CallerStep /\ UNCHANGED setting
  <2>1. queue' \in Seq(Request) /\ bell' \in BOOLEAN
    <3>1. CASE UNCHANGED <<queue, bell>>
      BY ZenonT(60), <3>1 DEF VmmTypeOK
    <3>2. CASE Sends
      <4> DEFINE r == queue'[Len(queue) + 1]
      <4>1. r \in Request /\ queue' = Append(queue, r) /\ bell' = TRUE
        BY Zenon, <3>2 DEF Sends, Proper
      <4> HIDE DEF r
      <4> QED
        BY SMTT(30), <4>1 DEF VmmTypeOK
    <3> QED
      BY ZenonT(60), <1>6, <3>1, <3>2 DEF CallerStep
  <2>2. /\ resp' \in Seq(Response) /\ held' \in [Client -> Chan \cup {NoChan}]
        /\ signalled' \subseteq Chan
    <3>1. CASE UNCHANGED <<resp, held, signalled>>
      BY Zenon, <3>1 DEF VmmTypeOK
    <3>2. ASSUME NEW c \in Client, Receive(c)
          PROVE  /\ resp' \in Seq(Response) /\ held' \in [Client -> Chan \cup {NoChan}]
                 /\ signalled' \subseteq Chan
      <4>1. resp \in Seq(Response) /\ resp # <<>> /\ resp' = Tail(resp)
        BY ZenonT(60), <3>2 DEF Receive, VmmTypeOK
      <4>2. Head(resp) \in Response /\ Tail(resp) \in Seq(Response)
        BY SMTT(30), <4>1
      <4> QED
        BY Zenon, <3>2, <4>1, <4>2 DEF Receive, VmmTypeOK, Response
    <3>3. ASSUME NEW c \in Client, Drop(c)
          PROVE  /\ resp' \in Seq(Response) /\ held' \in [Client -> Chan \cup {NoChan}]
                 /\ signalled' \subseteq Chan
      BY ZenonT(60), <3>3 DEF Drop, VmmTypeOK
    <3> QED
      BY ZenonT(60), <1>6, <3>1, <3>2, <3>3 DEF CallerStep
  <2> QED
    BY SMTT(30), <1>6, <2>1, <2>2 DEF CallerStep, VmmTypeOK, vcpu, conn, dev, guest
<1>7. CASE UNCHANGED <<setting, vmm>>
  BY SMTT(30), <1>7 DEF VmmTypeOK, vmm, vcpu, conn, dev, api, guest
<1> QED
  BY Zenon, <1>1, <1>2, <1>3, <1>4, <1>5, <1>6, <1>7 DEF VmmNext

\* The types, and the answers, at the start.
LEMMA TypesInit ==
  Init => VmmTypeOK /\ AnswerInv
<1> SUFFICES ASSUME Init PROVE VmmTypeOK /\ AnswerInv
  BY Zenon
<1>1. tids \in Seq(Id) /\ present \subseteq Id /\ 0 \in 0..(MaxReconnect + 1)
  <2> DEFINE f == [i \in 1..BootVcpu |-> i - 1]
  <2>1. f \in [1..BootVcpu -> Id] /\ BootVcpu \in Nat
    BY SMTT(30), VmmAssumption DEF Id
  <2>2. present \subseteq Id /\ 0 \in 0..(MaxReconnect + 1)
    BY SMTT(30), VmmAssumption DEF Init, VmmInit, Id
  <2>3. tids = f
    BY Zenon DEF Init, VmmInit
  <2> HIDE DEF f
  <2> QED
    BY SMTT(30), <2>1, <2>2, <2>3
<1>2. VmmTypeOK
  <2>1. /\ wedged \in BOOLEAN /\ stream \in BOOLEAN /\ timer \in BOOLEAN
        /\ callback \in BOOLEAN /\ bell \in BOOLEAN
    BY ZenonT(60) DEF Init, VmmInit
  <2>2. /\ queue \in Seq(Request) /\ resp \in Seq(Response) /\ signalled \subseteq Chan
        /\ held \in [Client -> Chan \cup {NoChan}]
    BY SMTT(30) DEF Init, VmmInit
  <2>3. /\ setting \in Settings /\ online \subseteq Id /\ pending \subseteq Id
        /\ reconnects = 0 /\ syncTx = NoChan /\ vmem = NoDev /\ balloon = NoDev
    BY ZenonT(60), <1>1 DEF Init, VmmInit
  <2>4. /\ action = "none" /\ upcall = "server" /\ event = "none" /\ job = "none"
        /\ reply = "none"
    BY Zenon DEF Init, VmmInit
  <2> QED
    BY ZenonT(60), <1>1, <2>1, <2>2, <2>3, <2>4 DEF VmmTypeOK
<1>3. Waiting = {} /\ Len(queue) = 0 /\ Len(resp) = 0
  BY Zenon DEF Init, VmmInit, Waiting
<1>4. Cardinality({}) = 0
  BY Zenon, FS_EmptySet
<1> QED
  BY SMTT(30), <1>2, <1>3, <1>4 DEF AnswerInv
-----------------------------------------------------------------------------
(* What holds always.                                                      *)

\* The runtime's invariants together, with the ones of the VMM.
LEMMA ResizeAlways ==
  Spec => [](RuntimeInv /\ VmmTypeOK /\ AnswerInv /\ CalmInv /\ SumInv)
<1> DEFINE Inv == RuntimeInv /\ VmmTypeOK /\ AnswerInv /\ CalmInv /\ SumInv
           Vmm == VcpuInv /\ PlugInv /\ AgreeInv
<1>1. Init => Inv
  BY Zenon, RuntimeInit, TypesInit, CalmInit
<1>2. Inv /\ Vmm /\ Vmm' /\ [Next]_vars => Inv'
  <2> SUFFICES ASSUME RuntimeInv, VmmTypeOK, AnswerInv, CalmInv, SumInv,
                      VcpuInv, PlugInv, AgreeInv, VcpuInv', [Next]_vars
               PROVE  RuntimeInv' /\ VmmTypeOK' /\ AnswerInv' /\ CalmInv' /\ SumInv'
    BY Zenon
  <2>1. queue \in Seq(Request) /\ resp \in Seq(Response) /\ queue \in Seq(ProperRequest)
    BY Zenon DEF VmmTypeOK, VcpuInv
  <2>2. RuntimeInv'
    BY Zenon, RuntimeStep
  <2>3. VmmTypeOK'
    BY Zenon, <2>1, ContractStep, FreeChannel, VmmTypeStep
  <2>4. AnswerInv'
    BY Zenon, <2>1, AnswerStep
  <2>5. CalmInv'
    BY Zenon, CalmStep
  <2>6. SumInv'
    BY Zenon, <2>5, SumStep
  <2> QED
    BY Zenon, <2>2, <2>3, <2>4, <2>5, <2>6
<1>3. Spec => []Vmm
  BY VmmAlways, PTL
<1> HIDE DEF Inv, Vmm
<1>4. Spec => []Inv
  BY <1>1, <1>2, <1>3, PTL DEF Spec
<1> QED
  BY <1>4, PTL DEF Inv

\* Every variable of the runtime and of the VMM keeps its range (TypeOK): the sums and the
\* sizes are natural numbers, and a channel to await the end of a hot plug on is always
\* there to be made.
THEOREM RuntimeTypes ==
  Spec => []TypeOK
<1>1. RuntimeInv /\ VmmTypeOK => TypeOK
  BY Zenon DEF RuntimeInv, TypeOK
<1> QED
  BY <1>1, ResizeAlways, PTL

\* While nobody resizes, current_vcpu rounded up is the number of vcpu threads
\* (CurrentIsActual), whatever fraction default_vcpus is, as long as operations come one at
\* a time and only a memory device, the agent or the reading of a cpuset fails.
THEOREM CurrentIsKept ==
  Spec => []CurrentIsActual
<1>1. CalmInv => CurrentIsActual
  <2> SUFFICES ASSUME CalmInv, Calm,
                      \A c \in Cid : pc[c] \notin {"cpu_recv", "cpu_wait", "cpu_cur"}
               PROVE  Ceil(current) = Count
    BY ZenonT(60) DEF CurrentIsActual, Calm
  <2>1. Settled
    BY ZenonT(60) DEF CalmInv, Stage, Reading, Writing
  <2> QED
    BY Zenon, <2>1 DEF Settled
<1> QED
  BY <1>1, ResizeAlways, PTL

\* A container that is created or updated goes on with the vcpus that the sum over the
\* containers calls for, or the most there can be (VcpusSuffice): neither a skipped request
\* nor one that is cut to max_vcpu_count leaves less.
THEOREM SumIsServed ==
  Spec => []VcpusSuffice
<1>1. SumInv => VcpusSuffice
  BY Zenon DEF SumInv, VcpusSuffice, Calm, Enough
<1> QED
  BY <1>1, ResizeAlways, PTL
=============================================================================
