------------------------ MODULE MCContainerManager ------------------------
(* Containers, execs and clients for TLC, and the symmetries of the        *)
(* interchangeable identities.                                             *)
EXTENDS ContainerManager, FiniteSetsExt, TLC

CONSTANTS c1, c2, e1

\* A disciplined client of one container with one exec, in legacy io mode.
Legacy ==
  [passfd |-> FALSE, client |-> "disciplined", pause |-> FALSE, cids |-> {c1}, eids |-> {e1},
   refs |-> Ref]

PassFdIo  == [Legacy EXCEPT !.passfd = TRUE]
Pausing   == [Legacy EXCEPT !.pause = TRUE]

\* Other clients, with one Process object at most besides the init process's: without
\* discipline but with fresh ids, one that pauses and has no execs, and one that has an
\* exec and does not pause; and one without execs that creates under ids in use, too.
OtherClient ==
  UNION {{[Pausing  EXCEPT !.client = "fresh", !.refs = S, !.eids = {}],
          [PassFdIo EXCEPT !.client = "fresh", !.refs = S],
          [PassFdIo EXCEPT !.client = "any", !.refs = S, !.eids = {}]} : S \in kSubset(2, Ref)}

\* Pauses in either io mode, and two containers without execs.
JustPausing == [Pausing EXCEPT !.eids = {}]
PausingFd   == [Pausing EXCEPT !.passfd = TRUE]
TwoFd       == [PassFdIo EXCEPT !.cids = {c1, c2}, !.eids = {}]

SafetySettings ==
  {Legacy} \cup {[PassFdIo EXCEPT !.refs = S] : S \in kSubset(2, Ref)} \cup OtherClient
LiveSettings   == {Legacy, JustPausing, PausingFd, TwoFd}
PauseSettings  == {Pausing}

Symmetry == Permutations(Ref) \cup Permutations(Thread) \cup Permutations(Waiter)
===========================================================================
