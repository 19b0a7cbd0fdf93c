--------------------------- MODULE MCAgentStorage ---------------------------
(* A few containers and storages, for TLC.                                 *)
EXTENDS AgentStorage, TLC

CONSTANTS c1, c2, c3, p1, p2

\* Requests of two containers at a time, both with both storages, one of them shared;
\* anything may go wrong.
Concurrent ==
  [storages |-> c1 :> <<p1, p2>> @@ c2 :> <<p1, p2>>, shared |-> {p2}, noPath |-> {},
   serial |-> FALSE, failures |-> FailureKinds]

\* An orderly client, one storage each, two containers with the same one.
OneByOne ==
  [storages |-> c1 :> <<p1>> @@ c2 :> <<p1>> @@ c3 :> <<p2>>, shared |-> {}, noPath |-> {p2},
   serial |-> TRUE, failures |-> {"device", "start"}]

\* The same with several storages each, of which devices, or starts, may fail.
Several ==
  [OneByOne EXCEPT !.storages = c1 :> <<p1, p2>> @@ c2 :> <<p2, p1>> @@ c3 :> <<>>,
                   !.noPath = {}]
SeveralKept == [Several EXCEPT !.shared = {p1}, !.failures = {"start"}]

\* Two containers use the one storage there is, and nothing goes wrong.
Race ==
  [storages |-> c1 :> <<p1>> @@ c2 :> <<p1>>, shared |-> {}, noPath |-> {},
   serial |-> FALSE, failures |-> {}]

\* It is shared, and its device may fail.
SharedStorage == [Race EXCEPT !.shared = {p1}, !.serial = TRUE, !.failures = {"device"}]

AnySettings    == {Concurrent, OneByOne, Several, SeveralKept}
RaceSettings   == {Race}
SharedSettings == {SharedStorage}

Symmetry == Permutations(Req)
=============================================================================
