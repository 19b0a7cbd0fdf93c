---------------------------- MODULE VcpuService ----------------------------
(***************************************************************************)
(* What the VMM promises of the number of vcpus of a running VM.           *)
(*   - There is at least one, and at most the maximum.                     *)
(*   - One resize is under way at a time.                                  *)
(*   - The vcpus that are added run from the start, whether or not the     *)
(*     guest hears of them; the ones to be removed run to the end, when    *)
(*     exactly the number that was asked for is left.                      *)
(***************************************************************************)
EXTENDS Naturals

CONSTANTS MaxVcpu, BootVcpu

VARIABLES
  count,   \* the vcpus that run
  doing,   \* the resize under way: "none", "plug", "unplug"
  target   \* how many vcpus it is to end with

\* A type invariant: the range of each variable.
TypeOK ==
  /\ count \in 1..MaxVcpu /\ target \in 1..MaxVcpu
  /\ doing \in {"none", "plug", "unplug"}

Init == count = BootVcpu /\ doing = "none" /\ target = BootVcpu

Add(n) ==
  /\ doing = "none" /\ n > count
  /\ doing' \in {"plug", "none"} /\ count' = n /\ target' = n

Remove(n) ==
  /\ doing = "none" /\ n < count
  /\ doing' = "unplug" /\ target' = n
  /\ UNCHANGED count

End ==
  /\ doing # "none"
  /\ doing' = "none" /\ count' = target
  /\ UNCHANGED target

Next == End \/ \E n \in 1..MaxVcpu : Add(n) \/ Remove(n)

Spec == Init /\ [][Next]_<<count, doing, target>>
=============================================================================
