-------------------------- MODULE MCAgentProcesses --------------------------
(* AgentProcesses for TLC: which requests run together.                    *)
EXTENDS AgentProcesses

CONSTANTS p1, p2, p3

S(passfd, hooks, pids, ops) ==
  [passfd |-> passfd, hooks |-> hooks, pids |-> pids, ops |-> ops]

\* Every pair of requests that touch the same state meets in one of these.
Requests ==
  {S(FALSE, FALSE, {p1, p2}, {"exec", "wait"}),
   S(FALSE, FALSE, {p1, p2}, {"exec", "kill", "pause"}),
   S(FALSE, FALSE, {p1}, {"start", "signal", "pause"}),
   S(FALSE, FALSE, {p1}, {"start", "read"}),
   S(FALSE, FALSE, {p1}, {"signal", "remove"}),
   S(FALSE, FALSE, {p1}, {"wait", "read", "remove"}),
   S(TRUE, FALSE, {p1}, {"start", "signal", "wait"}),
   S(FALSE, TRUE, {p1, p2, p3}, {"start", "remove"})}

\* A container that is started and read from.
Reads == {S(FALSE, FALSE, {p1}, {"start", "read"})}
=============================================================================
