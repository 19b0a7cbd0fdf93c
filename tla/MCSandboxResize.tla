------------------------- MODULE MCSandboxResize -------------------------
(* Containers with small demands, and what may go wrong, for TLC.          *)
EXTENDS SandboxResize

\* What containers ask for: fractions of a vcpu, cpus, memory.
Half   == [cpu |-> [quota |-> 1, cpuset |-> {}], mem |-> 0]
Whole  == [cpu |-> [quota |-> 2, cpuset |-> {}], mem |-> 0]
Large  == [cpu |-> [quota |-> 4, cpuset |-> {}], mem |-> 0]
Pinned == [cpu |-> [quota |-> -1, cpuset |-> {0, 1}], mem |-> 0]
Memory == [cpu |-> NoEntry, mem |-> 1]
Much   == [cpu |-> NoEntry, mem |-> 2]
Both   == [cpu |-> [quota |-> 1, cpuset |-> {}], mem |-> 1]

Ask(serial, faults, resources) ==
  [serial |-> serial, faults |-> faults, resources |-> resources]

\* One operation at a time, or any two of two containers; what may fail on the way.
AnySettings ==
  {Ask(TRUE,  {"agent", "cpuset"},        {Half, Large, Pinned}),
   Ask(TRUE,  {"mem"},                    {Both}),
   Ask(TRUE,  {"mem"},                    {Memory, Much}),
   Ask(TRUE,  {"break", "timeout"},       {Large}),
   Ask(TRUE,  {"fail", "tid", "timeout"}, {Large}),
   Ask(FALSE, {"spawn"},                  {Whole, Large}),
   Ask(FALSE, {"timeout"},                {Whole})}

RaceSettings == {Ask(FALSE, {}, {Whole})}
FineSettings == {Ask(TRUE, {}, {Memory})}
===========================================================================
