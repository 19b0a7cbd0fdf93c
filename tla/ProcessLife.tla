----------------------------- MODULE ProcessLife -----------------------------
(***************************************************************************)
(* What the agent promises of the processes of the containers in the       *)
(* sandbox.  A process is known by its container and its exec id, and      *)
(*   - its exit is recorded only once it has been reaped, and is never     *)
(*     taken back or given to the next process of that exec id;            *)
(*   - it leaves its container one way only, an answer to WaitProcess with *)
(*     its exit recorded, unless the container goes with all it has.       *)
(***************************************************************************)
CONSTANTS Cid, Eid, InitE

VARIABLES
  ctrs,   \* the containers of the sandbox
  life    \* [Cid -> [Eid -> Stage]]

Stage == {"none", "running", "reaped", "exited"}

\* A type invariant: the range of each variable.
TypeOK == ctrs \subseteq Cid /\ life \in [Cid -> [Eid -> Stage]]

Init == ctrs = {} /\ life = [c \in Cid |-> [e \in Eid |-> "none"]]

Move(c, e, from, to) ==
  /\ c \in ctrs' /\ life[c][e] = from
  /\ life' = [life EXCEPT ![c][e] = to]

\* A start may end after its process has: "reaped", and its exit not yet recorded.
Start(c, e) == Move(c, e, "none", "running") \/ Move(c, e, "none", "reaped")

\* A container comes with its init process.
Create(c)       == Start(c, InitE) /\ c \notin ctrs /\ ctrs' = ctrs \cup {c}
StartExec(c, e) == Start(c, e) /\ UNCHANGED ctrs
Reap(c, e)      == Move(c, e, "running", "reaped") /\ UNCHANGED ctrs
Record(c, e)    == Move(c, e, "reaped", "exited") /\ UNCHANGED ctrs
Collect(c, e)   == Move(c, e, "exited", "none") /\ UNCHANGED ctrs

Remove(c) ==
  /\ ctrs' = ctrs \ {c}
  /\ life' = [life EXCEPT ![c] = [e \in Eid |-> "none"]]

Next ==
  \E c \in Cid :
    \/ Create(c) \/ Remove(c)
    \/ \E e \in Eid : StartExec(c, e) \/ Reap(c, e) \/ Record(c, e) \/ Collect(c, e)

Spec == Init /\ [][Next]_<<ctrs, life>>
=============================================================================
