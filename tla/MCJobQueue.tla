----------------------------- MODULE MCJobQueue -----------------------------
(* The instances of JobQueue that TLC checks.                              *)
EXTENDS JobQueue, TLC

CONSTANTS j1, j2, j3

FirstIsReplayable == {j1}
OthersFetch == Jobs \ {j1}

(* The slots of a runner are alike, and so are runners and sessions.       *)
Interchangeable == Permutations(Runners) \cup Permutations(Slots) \cup Permutations(Sessions)
=============================================================================
