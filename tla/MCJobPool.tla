------------------------------ MODULE MCJobPool -----------------------------
(* The instances of JobPool that TLC checks.                               *)
EXTENDS JobPool

(* Two downloads of one session, the file of one of them, and the pipeline *)
(* of an album.                                                            *)
MixedJobs == 1..4
MixedClass == <<"Heavy", "Heavy", "Heavy", "Other">>
MixedKey == <<"none", "file", "none", "album">>
MixedSession == <<"add", "add", "add", "none">>
MixedFetchers == {1, 3}

(* More pending downloads than a peek returns, and a quick job behind them.*)
ManyJobs == 1..10
ManyClass == [j \in 1..10 |-> IF j = 10 THEN "Other" ELSE "Heavy"]
ManyKey == [j \in 1..10 |-> "none"]
ManySession == [j \in 1..10 |-> "none"]
=============================================================================
