------------------------- MODULE ContainerLifecycle -------------------------
(***************************************************************************)
(* What the container manager promises a client that follows containerd's  *)
(* order of calls (create, start, wait, delete): every container id goes   *)
(* through one life after the other, and in each life                      *)
(*   - a started container ends, once, by being cleaned up (guest side,    *)
(*     volumes and rootfs), and only then gets its exit code;              *)
(*   - a container that was started is not forgotten before its exit code  *)
(*     is in place, so that the reply to Delete carries it.                *)
(***************************************************************************)
CONSTANT Cid

VARIABLE life   \* [Cid -> Stage]

Stage == {"none", "created", "running", "stopping", "exited"}

\* A type invariant: a container is in one stage.
TypeOK == life \in [Cid -> Stage]

Init == life = [c \in Cid |-> "none"]

Move(c, from, to) == life[c] \in from /\ life' = [life EXCEPT ![c] = to]

Create(c) == Move(c, {"none"}, "created")
Start(c)  == Move(c, {"created"}, "running")
Stop(c)   == Move(c, {"running"}, "stopping")
Exit(c)   == Move(c, {"stopping"}, "exited")
Delete(c) == Move(c, {"created", "exited"}, "none")

Next == \E c \in Cid : Create(c) \/ Start(c) \/ Stop(c) \/ Exit(c) \/ Delete(c)

Spec == Init /\ [][Next]_life

\* A container that is being stopped gets its exit code.
FairSpec == Spec /\ \A c \in Cid : WF_life(Exit(c))
=============================================================================
