------------------------------ MODULE JobSlots ------------------------------
(***************************************************************************)
(* What the pool of job workers promises the processors, with no word of   *)
(* permits, candidates, registries and the order they are given back in: a *)
(* job runs once at a time, with so many others at most, with so many of   *)
(* its class at most, and with none that works on the same thing.          *)
(***************************************************************************)
EXTENDS Integers, FiniteSets

CONSTANTS Jobs, Left, ClassOf, KeyOf, NoKey, PoolSize,
          CapOf   \* the cap of each class that has one

VARIABLE status   \* "Absent", "Pending", "Running" or "Ended"

Running == {j \in Jobs : status[j] = "Running"}
RunningOf(class) == {j \in Running : ClassOf[j] = class}

Init == status = [j \in Jobs |-> IF j \in Left THEN "Pending" ELSE "Absent"]

Becomes(j, from, to) == status[j] = from /\ status' = [status EXCEPT ![j] = to]

Start(j) ==
    /\ Becomes(j, "Pending", "Running")
    /\ Cardinality(Running) < PoolSize
    /\ ClassOf[j] \in DOMAIN CapOf => Cardinality(RunningOf(ClassOf[j])) < CapOf[ClassOf[j]]
    /\ KeyOf[j] # NoKey => \A i \in Running : KeyOf[i] # KeyOf[j]

Next ==
    \E j \in Jobs :
        \/ Becomes(j, "Absent", "Pending") \/ Becomes(j, "Pending", "Ended")
        \/ Start(j)
        \/ Becomes(j, "Running", "Ended") \/ Becomes(j, "Running", "Pending")

Spec == Init /\ [][Next]_status
=============================================================================
