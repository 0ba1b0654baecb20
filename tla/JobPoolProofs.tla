--------------------------- MODULE JobPoolProofs ----------------------------
(***************************************************************************)
(* What the claim loop of the job runner and its workers reserve, for any  *)
(* number of jobs and permits, and any bounds.                             *)
(***************************************************************************)
EXTENDS JobPool, FiniteSetTheorems, TLAPS

(* A class or a key in hand is that of a candidate.                        *)
HandIsFull == loop \in {"classed", "keyed"} => batch # <<>>

BusyWorkersHaveJobs == \A s \in Slots : worker[s].step # "free" => worker[s].job \in Jobs

(* The key in hand is nobody's.                                            *)
KeyInHandIsFree ==
    loop = "keyed" /\ KeyOf[Candidate] # NoKey =>
        \A s \in Workers(HoldsKey) : KeyOf[worker[s].job] # KeyOf[Candidate]

IInv ==
    /\ TypeOK
    /\ HandIsFull
    /\ BusyWorkersHaveJobs
    /\ CountsAreHeld
    /\ KeysAreHeld
    /\ KeyInHandIsFree

-----------------------------------------------------------------------------
(* The peek.                                                               *)

UpTo(j) == {i \in Pending : i <= j}

(* Every place in the order of the pending rows is taken by one of them:   *)
(* no two rows have as many rows before them.                              *)
LEMMA PlacesAreTaken ==
    ASSUME TypeOK, NEW n \in 1..Cardinality(Pending)
    PROVE  \E j \in Pending : Cardinality(UpTo(j)) = n
<1>1. IsFiniteSet(Pending) /\ Pending \subseteq Nat
  BY PoolAssumption, FS_Subset DEF Pending
<1>2. Cardinality(Pending) \in Nat
  BY <1>1, FS_CardinalityType
<1> DEFINE place == [j \in Pending |-> Cardinality(UpTo(j))]
<1>3. ASSUME NEW j \in Pending
      PROVE  IsFiniteSet(UpTo(j)) /\ Cardinality(UpTo(j)) \in 1..Cardinality(Pending)
  <2>1. UpTo(j) \in SUBSET Pending /\ j \in UpTo(j)
    BY <1>1 DEF UpTo
  <2>2. IsFiniteSet(UpTo(j)) /\ Cardinality(UpTo(j)) <= Cardinality(Pending)
    BY <1>1, <2>1, FS_Subset
  <2>3. Cardinality(UpTo(j)) \in Nat
    BY <2>2, FS_CardinalityType
  <2>4. Cardinality(UpTo(j)) # 0
    BY <2>1, <2>2, FS_EmptySet
  <2> QED
    BY <1>2, <2>2, <2>3, <2>4
<1>4. ASSUME NEW i \in Pending, NEW j \in Pending, i < j
      PROVE  Cardinality(UpTo(i)) # Cardinality(UpTo(j))
  <2>1. i \in Nat /\ j \in Nat /\ \A k \in Pending : k \in Nat
    BY <1>1
  <2>2. \A k \in Pending : k <= i => k <= j
    BY <1>4, <2>1
  <2>3. j <= j /\ ~(j <= i)
    BY <1>4, <2>1
  <2>4. UpTo(i) \in SUBSET UpTo(j)
    BY <2>2 DEF UpTo
  <2>5. j \in UpTo(j) /\ j \notin UpTo(i)
    BY <2>3 DEF UpTo
  <2> QED
    BY <1>3, <2>4, <2>5, FS_Subset
<1>5. place \in Injection(Pending, 1..Cardinality(Pending))
  <2>1. place \in [Pending -> 1..Cardinality(Pending)]
    BY <1>3
  <2>2. \A i, j \in Pending : place[i] = place[j] => i = j
    BY <1>1, <1>4
  <2> QED
    BY <2>1, <2>2 DEF Injection, IsInjective
<1>6. IsFiniteSet(1..Cardinality(Pending)) /\ Cardinality(1..Cardinality(Pending)) = Cardinality(Pending)
  BY <1>2, FS_Interval
<1>7. place \in Surjection(Pending, 1..Cardinality(Pending))
  BY <1>5, <1>6, FS_Injection
<1> QED
  BY <1>7 DEF Surjection

(* A peek returns pending rows.                                            *)
LEMMA PeekReturnsJobs ==
    ASSUME TypeOK
    PROVE  FirstPending \in Seq(Jobs)
<1> DEFINE InOrder == [n \in 1..Cardinality(Pending) |->
                          CHOOSE j \in Pending : Cardinality(UpTo(j)) = n]
           last == IF Len(InOrder) < PeekLimit THEN Len(InOrder) ELSE PeekLimit
<1>1. IsFiniteSet(Pending) /\ Pending \subseteq Jobs
  BY PoolAssumption, FS_Subset DEF Pending
<1>2. Cardinality(Pending) \in Nat
  BY <1>1, FS_CardinalityType
<1>3. \A n \in 1..Cardinality(Pending) : InOrder[n] \in Jobs
  BY <1>1, PlacesAreTaken
<1>4. InOrder \in Seq(Jobs) /\ Len(InOrder) = Cardinality(Pending)
  BY <1>2, <1>3
<1>5. PeekLimit \in Nat
  BY PoolAssumption DEF PeekLimit
<1>6. last \in 0..Len(InOrder)
  BY <1>2, <1>4, <1>5
<1>7. SubSeq(InOrder, 1, last) \in Seq(Jobs)
  <2> HIDE DEF InOrder
  <2> QED BY <1>4, <1>6
<1>8. FirstPending = SubSeq(InOrder, 1, last)
  BY Zenon DEF FirstPending, UpTo
<1> QED
  BY <1>7, <1>8

-----------------------------------------------------------------------------
(* Types.                                                                  *)

WorkerType == [job : Jobs \cup {0}, step : WorkerSteps]

RestOfTypeOK ==
    /\ status \in [Jobs -> {"Absent", "Pending", "Running", "Ended"}]
    /\ loop \in LoopStates
    /\ batch \in Seq(Jobs)
    /\ classCounts \in [Classes -> Nat]
    /\ busyKeys \subseteq Keys
    /\ retried \in 0..MaxRetries
    /\ errors \in 0..MaxErrors

(* TypeOK is the type of the workers and the types of the rest.            *)
LEMMA TypeParts ==
    /\ TypeOK <=> RestOfTypeOK /\ worker \in [Slots -> WorkerType]
    /\ TypeOK' <=> RestOfTypeOK' /\ worker' \in [Slots -> WorkerType]
  BY Zenon DEF TypeOK, RestOfTypeOK, WorkerType

(* A candidate in hand is a job with a class and a key, and what is left   *)
(* of the batch is a batch.                                                *)
LEMMA CandidateType ==
    ASSUME TypeOK, batch # <<>>
    PROVE  /\ Candidate \in Jobs /\ ClassOf[Candidate] \in Classes
           /\ KeyOf[Candidate] \in Keys \cup {NoKey}
           /\ Tail(batch) \in Seq(Jobs)
<1>1. batch \in Seq(Jobs)
  BY DEF TypeOK
<1>2. Candidate \in Jobs /\ Tail(batch) \in Seq(Jobs)
  BY <1>1 DEF Candidate
<1> QED
  BY <1>2, PoolAssumption DEF Keys

(* The slot of a worker that goes on from one step to the next: what every *)
(* other worker holds stays, and it keeps its job.                         *)
LEMMA AdvanceMoves ==
    ASSUME IInv, NEW s \in Slots, NEW from \in WorkerSteps \ {"free"},
           NEW to \in WorkerSteps \ {"free"}, Advance(s, from, to)
    PROVE  /\ worker' \in [Slots -> WorkerType]
           /\ worker[s].step = from /\ worker'[s].step = to
           /\ \A t \in Slots \ {s} : worker'[t] = worker[t]
           /\ \A t \in Slots : worker'[t].job = worker[t].job
           /\ worker[s].job \in Jobs /\ BusyWorkersHaveJobs'
<1>1. worker \in [Slots -> WorkerType]
  BY TypeParts DEF IInv
<1>2. worker[s] \in WorkerType /\ worker[s].step = from
  BY <1>1 DEF Advance
<1>3. [worker[s] EXCEPT !.step = to] \in WorkerType
  BY <1>2 DEF WorkerType
<1>4. worker' = [worker EXCEPT ![s] = [worker[s] EXCEPT !.step = to]]
  BY DEF Advance
<1>5. worker'[s] = [worker[s] EXCEPT !.step = to]
  BY <1>1, <1>4
<1>6. worker'[s].step = to /\ worker'[s].job = worker[s].job
  BY <1>2, <1>5 DEF WorkerType
<1>7. worker' \in [Slots -> WorkerType] /\ \A t \in Slots \ {s} : worker'[t] = worker[t]
  BY <1>1, <1>3, <1>4
<1>8. \A t \in Slots : worker'[t].job = worker[t].job
  BY <1>6, <1>7
<1>9. BusyWorkersHaveJobs' /\ worker[s].job \in Jobs
  BY <1>2, <1>7, <1>8 DEF IInv, BusyWorkersHaveJobs, Slots
<1> QED
  BY <1>2, <1>6, <1>7, <1>8, <1>9

(* A claim gives a free slot to the candidate.                             *)
LEMMA ClaimMoves ==
    ASSUME IInv, NEW s \in Slots, ClaimRow(s), status[Candidate] = "Pending"
    PROVE  /\ worker' \in [Slots -> WorkerType]
           /\ worker[s].step = "free" /\ worker'[s] = [job |-> Candidate, step |-> "running"]
           /\ \A t \in Slots \ {s} : worker'[t] = worker[t]
           /\ BusyWorkersHaveJobs'
<1>1. worker \in [Slots -> WorkerType] /\ worker[s] = NoWorker
  BY TypeParts DEF IInv, ClaimRow
<1>2. Candidate \in Jobs
  BY CandidateType DEF IInv, ClaimRow, HandIsFull
<1>3. worker' = [worker EXCEPT ![s] = [job |-> Candidate, step |-> "running"]]
  BY DEF ClaimRow
<1>4. [job |-> Candidate, step |-> "running"] \in WorkerType
  BY <1>2 DEF WorkerType, WorkerSteps
<1>5. /\ worker' \in [Slots -> WorkerType]
      /\ worker'[s] = [job |-> Candidate, step |-> "running"]
      /\ \A t \in Slots \ {s} : worker'[t] = worker[t]
  BY <1>1, <1>3, <1>4
<1>6. BusyWorkersHaveJobs'
  BY <1>2, <1>5 DEF IInv, BusyWorkersHaveJobs, Slots
<1> QED
  BY <1>1, <1>5, <1>6 DEF NoWorker

(* The ways in which a processor ends, and its row with it.                *)
Finish(s) == Process(s) \/ StopWaiting(s) \/ CountFails(s)

LEMMA FinishMoves ==
    ASSUME IInv, NEW s \in Slots, Finish(s)
    PROVE  /\ worker' \in [Slots -> WorkerType]
           /\ worker[s].step \in AtWork /\ worker'[s].step = "written"
           /\ \A t \in Slots \ {s} : worker'[t] = worker[t]
           /\ \A t \in Slots : worker'[t].job = worker[t].job
           /\ worker[s].job \in Jobs /\ BusyWorkersHaveJobs'
           /\ \/ status' = [status EXCEPT ![worker[s].job] = "Ended"]
              \/ status' = [status EXCEPT ![worker[s].job] = "Pending"]
           /\ UNCHANGED <<loop, batch, classCounts, busyKeys>>
           /\ retried' \in 0..MaxRetries /\ errors' \in 0..MaxErrors
<1>1. PICK from \in AtWork : Advance(s, from, "written")
  BY DEF Finish, Process, StopWaiting, CountFails, AtWork
<1>2. /\ worker' \in [Slots -> WorkerType]
      /\ worker[s].step = from /\ worker'[s].step = "written"
      /\ \A t \in Slots \ {s} : worker'[t] = worker[t]
      /\ \A t \in Slots : worker'[t].job = worker[t].job
      /\ worker[s].job \in Jobs /\ BusyWorkersHaveJobs'
  BY <1>1, AdvanceMoves DEF AtWork, WorkerSteps
<1>3. /\ \/ status' = [status EXCEPT ![worker[s].job] = "Ended"]
         \/ status' = [status EXCEPT ![worker[s].job] = "Pending"]
      /\ UNCHANGED <<loop, batch, classCounts, busyKeys>>
  BY DEF Finish, Process, StopWaiting, CountFails, EndRow
<1>4. retried' \in 0..MaxRetries /\ errors' \in 0..MaxErrors
  BY PoolAssumption DEF IInv, TypeOK, Finish, Process, StopWaiting, CountFails
<1> QED
  BY <1>1, <1>2, <1>3, <1>4

LEMMA StartWaitingMoves ==
    ASSUME IInv, NEW s \in Slots, StartWaiting(s)
    PROVE  /\ worker' \in [Slots -> WorkerType]
           /\ worker[s].step \in AtWork /\ worker'[s].step = "waiting"
           /\ \A t \in Slots \ {s} : worker'[t] = worker[t]
           /\ \A t \in Slots : worker'[t].job = worker[t].job
           /\ BusyWorkersHaveJobs'
           /\ UNCHANGED <<status, loop, batch, classCounts, busyKeys, retried, errors>>
<1>1. Advance(s, "running", "waiting")
  BY DEF StartWaiting
<1>2. /\ worker' \in [Slots -> WorkerType]
      /\ worker[s].step = "running" /\ worker'[s].step = "waiting"
      /\ \A t \in Slots \ {s} : worker'[t] = worker[t]
      /\ \A t \in Slots : worker'[t].job = worker[t].job
      /\ BusyWorkersHaveJobs'
  BY <1>1, AdvanceMoves DEF WorkerSteps
<1> QED
  BY <1>2 DEF StartWaiting, AtWork

-----------------------------------------------------------------------------
(* Counts.                                                                 *)

LEMMA SlotSets ==
    ASSUME NEW S \in SUBSET Slots
    PROVE  IsFiniteSet(S) /\ Cardinality(S) \in Nat
<1>1. 1 \in Int /\ PoolSize \in Int
  BY PoolAssumption
<1>2. IsFiniteSet(Slots)
  BY <1>1, FS_Interval DEF Slots
<1>3. IsFiniteSet(S)
  BY <1>2, FS_Subset
<1> QED
  BY <1>3, FS_CardinalityType

CappedClasses == Classes \ {"Other"}
CountIsHeld(c) == /\ classCounts[c] = Cardinality(ClassHolders(c)) + Reserved(c)
                  /\ classCounts[c] <= Cap(c)

(* What CountsAreHeld says of one class, and the types of what it says.    *)
LEMMA CountTypes ==
    ASSUME IInv, NEW c \in CappedClasses
    PROVE  /\ CountIsHeld(c)
           /\ classCounts[c] \in Nat
           /\ Cap(c) \in Nat
           /\ Reserved(c) \in {0, 1}
           /\ Reserved(c)' \in {0, 1}
           /\ ClassHolders(c) \in SUBSET Slots
           /\ IsFiniteSet(ClassHolders(c))
           /\ Cardinality(ClassHolders(c)) \in Nat
<1>1. CountIsHeld(c) /\ classCounts[c] \in Nat
  BY DEF IInv, TypeOK, CountsAreHeld, CountIsHeld, CappedClasses
<1>2. Cap(c) \in Nat
  <2>1. HeavyCap \in Nat
    BY PoolAssumption DEF HeavyCap
  <2> QED BY <2>1 DEF CappedClasses, Classes, Cap
<1>3. Reserved(c) \in {0, 1} /\ Reserved(c)' \in {0, 1}
  BY DEF Reserved
<1>4. ClassHolders(c) \in SUBSET Slots
  BY DEF ClassHolders, Workers
<1> QED
  BY <1>1, <1>2, <1>3, <1>4, SlotSets

(* A step that moves nobody's class keeps the counts.                      *)
LEMMA CountsStay ==
    ASSUME IInv, UNCHANGED <<worker, classCounts>>,
           \A c \in CappedClasses : Reserved(c)' = Reserved(c)
    PROVE  CountsAreHeld'
<1>1. \A c \in CappedClasses : ClassHolders(c)' = ClassHolders(c)
  BY DEF ClassHolders, Workers
<1> QED
  BY <1>1 DEF IInv, CountsAreHeld, CappedClasses

(* The class in hand is given back: after a busy key, a row that is gone,  *)
(* a refused claim.                                                        *)
LEMMA HandIsEmptied ==
    ASSUME IInv, loop \in {"classed", "keyed"}, loop' \notin {"classed", "keyed"},
           DropClass(ClassOf[Candidate]), worker' = worker
    PROVE  classCounts' \in [Classes -> Nat] /\ CountsAreHeld'
<1> DEFINE k == ClassOf[Candidate]
<1>1. k \in Classes
  BY CandidateType DEF IInv, HandIsFull
<1>2. classCounts \in [Classes -> Nat]
  BY DEF IInv, TypeOK
<1>3. \A c \in CappedClasses : ClassHolders(c)' = ClassHolders(c) /\ Reserved(c)' = 0
  BY DEF ClassHolders, Workers, Reserved
<1>4. \A c \in CappedClasses : Reserved(c) = IF k = c THEN 1 ELSE 0
  BY DEF Reserved
<1>5. CASE k = "Other"
  BY <1>2, <1>3, <1>4, <1>5, CountTypes DEF DropClass, Capped, CountsAreHeld, CountIsHeld, CappedClasses
<1>6. CASE k # "Other"
  <2>1. k \in CappedClasses
    BY <1>1, <1>6 DEF CappedClasses
  <2>2. classCounts[k] - 1 \in Nat
    BY <2>1, <1>4, CountTypes DEF CountIsHeld
  <2>3. classCounts' = [classCounts EXCEPT ![k] = classCounts[k] - 1]
    BY <1>6 DEF DropClass, Capped
  <2>4. /\ classCounts' \in [Classes -> Nat] /\ classCounts'[k] = classCounts[k] - 1
        /\ \A c \in Classes \ {k} : classCounts'[c] = classCounts[c]
    BY <1>1, <1>2, <2>2, <2>3
  <2>5. ASSUME NEW c \in CappedClasses PROVE CountIsHeld(c)'
    <3>1. CASE c = k
      BY <3>1, <1>3, <1>4, <2>4, CountTypes DEF CountIsHeld
    <3>2. CASE c # k
      BY <3>2, <1>3, <1>4, <2>4, CountTypes DEF CountIsHeld, CappedClasses
    <3> QED BY <3>1, <3>2
  <2> QED
    BY <2>4, <2>5 DEF CountsAreHeld, CountIsHeld, CappedClasses
<1> QED
  BY <1>5, <1>6

(* A class with room is taken.                                             *)
LEMMA ClassIsTaken ==
    ASSUME IInv, ReserveClass, HasRoom(ClassOf[Candidate])
    PROVE  classCounts' \in [Classes -> Nat] /\ CountsAreHeld'
<1> DEFINE k == ClassOf[Candidate]
<1>1. k \in Classes
  BY CandidateType DEF IInv, ReserveClass
<1>2. classCounts \in [Classes -> Nat]
  BY DEF IInv, TypeOK
<1>3. loop = "looking" /\ loop' = "classed" /\ batch' = batch /\ worker' = worker /\ TakeClass(k)
  BY DEF ReserveClass
<1>4. \A c \in CappedClasses : /\ ClassHolders(c)' = ClassHolders(c)
                               /\ Reserved(c) = 0
                               /\ Reserved(c)' = IF k = c THEN 1 ELSE 0
  BY <1>3 DEF ClassHolders, Workers, Reserved, Candidate
<1>5. CASE k = "Other"
  BY <1>2, <1>3, <1>4, <1>5, CountTypes DEF TakeClass, Capped, CountsAreHeld, CountIsHeld, CappedClasses
<1>6. CASE k # "Other"
  <2>1. classCounts' = [classCounts EXCEPT ![k] = classCounts[k] + 1]
    BY <1>3, <1>6 DEF TakeClass, Capped
  <2>2. /\ classCounts' \in [Classes -> Nat] /\ classCounts'[k] = classCounts[k] + 1
        /\ \A c \in Classes \ {k} : classCounts'[c] = classCounts[c]
    BY <1>1, <1>2, <2>1
  <2>3. classCounts[k] < Cap(k)
    BY <1>6 DEF HasRoom, Capped
  <2>4. ASSUME NEW c \in CappedClasses PROVE CountIsHeld(c)'
    <3>1. CASE c = k
      BY <3>1, <1>4, <2>2, <2>3, CountTypes DEF CountIsHeld
    <3>2. CASE c # k
      BY <3>2, <1>4, <2>2, CountTypes DEF CountIsHeld, CappedClasses
    <3> QED BY <3>1, <3>2
  <2> QED
    BY <2>2, <2>4 DEF CountsAreHeld, CountIsHeld, CappedClasses
<1> QED
  BY <1>5, <1>6

(* The class in hand becomes that of the new worker.                       *)
LEMMA ClassIsHandedOver ==
    ASSUME IInv, NEW s \in Slots, ClaimRow(s), status[Candidate] = "Pending"
    PROVE  CountsAreHeld'
<1> DEFINE k == ClassOf[Candidate]
<1>1. /\ worker[s].step = "free" /\ worker'[s] = [job |-> Candidate, step |-> "running"]
      /\ \A t \in Slots \ {s} : worker'[t] = worker[t]
  BY ClaimMoves
<1>2. loop = "keyed" /\ loop' = "idle" /\ classCounts' = classCounts
  BY DEF ClaimRow
<1>3. ASSUME NEW c \in CappedClasses PROVE CountIsHeld(c)'
  <2>1. Reserved(c) = (IF k = c THEN 1 ELSE 0) /\ Reserved(c)' = 0
    BY <1>2 DEF Reserved
  <2>2. CASE c = k
    <3>1. s \notin ClassHolders(c)
      BY <1>1 DEF ClassHolders, Workers, HoldsClass, AtWork
    <3>2. ClassHolders(c)' = ClassHolders(c) \cup {s}
      BY <2>2, <1>1 DEF ClassHolders, Workers, HoldsClass, AtWork
    <3>3. Cardinality(ClassHolders(c)') = Cardinality(ClassHolders(c)) + 1
      BY <3>1, <3>2, CountTypes, FS_AddElement
    <3> QED
      BY <2>1, <2>2, <3>3, <1>2, CountTypes DEF CountIsHeld
  <2>3. CASE c # k
    <3>1. ClassHolders(c)' = ClassHolders(c)
      BY <2>3, <1>1 DEF ClassHolders, Workers, HoldsClass, AtWork
    <3> QED
      BY <2>1, <2>3, <3>1, <1>2, CountTypes DEF CountIsHeld
  <2> QED BY <2>2, <2>3
<1> QED
  BY <1>3 DEF CountsAreHeld, CountIsHeld, CappedClasses

(* A worker that begins to wait, or has written its row, keeps its class,  *)
(* and gives it back afterwards.                                           *)
LEMMA ClassIsKept ==
    ASSUME IInv, NEW s \in Slots, Finish(s) \/ StartWaiting(s)
    PROVE  CountsAreHeld'
<1>1. /\ worker[s].step \in HoldsClass /\ worker'[s].step \in HoldsClass
      /\ \A t \in Slots \ {s} : worker'[t] = worker[t]
      /\ \A t \in Slots : worker'[t].job = worker[t].job
  BY FinishMoves, StartWaitingMoves DEF HoldsClass, AtWork
<1>2. classCounts' = classCounts /\ loop' = loop /\ batch' = batch
  BY FinishMoves, StartWaitingMoves
<1>3. \A c \in CappedClasses : ClassHolders(c)' = ClassHolders(c) /\ Reserved(c)' = Reserved(c)
  BY <1>1, <1>2 DEF ClassHolders, Workers, Reserved, Candidate
<1> QED
  BY <1>2, <1>3 DEF IInv, CountsAreHeld, CappedClasses

LEMMA ClassIsReleased ==
    ASSUME IInv, NEW s \in Slots, ReleaseClass(s)
    PROVE  classCounts' \in [Classes -> Nat] /\ CountsAreHeld'
<1>1. /\ worker[s].step = "written" /\ worker'[s].step = "declassed"
      /\ \A t \in Slots \ {s} : worker'[t] = worker[t]
      /\ worker[s].job \in Jobs
  BY AdvanceMoves DEF ReleaseClass, WorkerSteps
<1>k. PICK k \in Classes : k = ClassOf[worker[s].job]
  BY <1>1, PoolAssumption
<1>2. classCounts \in [Classes -> Nat]
  BY DEF IInv, TypeOK
<1>3. DropClass(k) /\ loop' = loop /\ batch' = batch
  BY <1>k DEF ReleaseClass
<1>4. \A c \in CappedClasses : Reserved(c)' = Reserved(c)
  BY <1>3 DEF Reserved, Candidate
<1>5. \A c \in CappedClasses \ {k} : ClassHolders(c)' = ClassHolders(c)
  BY <1>1, <1>k DEF ClassHolders, Workers, HoldsClass, AtWork
<1>6. CASE k = "Other"
  BY <1>2, <1>3, <1>4, <1>5, <1>6, CountTypes DEF DropClass, Capped, CountsAreHeld, CountIsHeld, CappedClasses
<1>7. CASE k # "Other"
  <2>1. k \in CappedClasses
    BY <1>7 DEF CappedClasses
  <2>2. s \in ClassHolders(k)
    BY <1>1, <1>k DEF ClassHolders, Workers, HoldsClass, AtWork
  <2>3. ClassHolders(k)' = ClassHolders(k) \ {s}
    BY <1>1, <1>k DEF ClassHolders, Workers, HoldsClass, AtWork
  <2>4. /\ Cardinality(ClassHolders(k)') = Cardinality(ClassHolders(k)) - 1
        /\ Cardinality(ClassHolders(k)') \in Nat
    <3>1. Cardinality(ClassHolders(k) \ {s}) = Cardinality(ClassHolders(k)) - 1
      BY <2>1, <2>2, CountTypes, FS_RemoveElement
    <3>2. Cardinality(ClassHolders(k) \ {s}) \in Nat
      BY <2>1, CountTypes, SlotSets
    <3> QED BY <2>3, <3>1, <3>2
  <2>5. classCounts[k] - 1 \in Nat
    BY <2>1, <2>4, CountTypes DEF CountIsHeld
  <2>6. classCounts' = [classCounts EXCEPT ![k] = classCounts[k] - 1]
    BY <1>3, <1>7 DEF DropClass, Capped
  <2>7. /\ classCounts' \in [Classes -> Nat] /\ classCounts'[k] = classCounts[k] - 1
        /\ \A c \in Classes \ {k} : classCounts'[c] = classCounts[c]
    BY <1>2, <2>5, <2>6
  <2>8. ASSUME NEW c \in CappedClasses PROVE CountIsHeld(c)'
    <3>1. CASE c = k
      BY <3>1, <1>4, <2>4, <2>7, CountTypes DEF CountIsHeld
    <3>2. CASE c # k
      BY <3>2, <1>4, <1>5, <2>7, CountTypes DEF CountIsHeld, CappedClasses
    <3> QED BY <3>1, <3>2
  <2> QED
    BY <2>7, <2>8 DEF CountsAreHeld, CountIsHeld, CappedClasses
<1> QED
  BY <1>6, <1>7

-----------------------------------------------------------------------------
(* Keys.                                                                   *)

SameHand == (loop # "keyed" /\ loop' # "keyed") \/ UNCHANGED <<loop, batch>>

(* A step that moves nobody's key keeps the keys.                          *)
LEMMA KeysStay ==
    ASSUME IInv, SameHand, busyKeys' = busyKeys,
           Workers(HoldsKey)' = Workers(HoldsKey),
           \A t \in Workers(HoldsKey) : worker'[t].job = worker[t].job
    PROVE  KeysAreHeld' /\ KeyInHandIsFree'
<1>1. {KeyOf[worker'[t].job] : t \in Workers(HoldsKey)} = {KeyOf[worker[t].job] : t \in Workers(HoldsKey)}
  OBVIOUS
<1>2. (IF loop' = "keyed" THEN {KeyOf[Candidate']} ELSE {}) = (IF loop = "keyed" THEN {KeyOf[Candidate]} ELSE {})
  BY DEF SameHand, Candidate
<1>3. KeysAreHeld'
  BY <1>1, <1>2 DEF IInv, KeysAreHeld
<1>4. KeyInHandIsFree'
  BY DEF IInv, KeyInHandIsFree, SameHand, Candidate
<1> QED
  BY <1>3, <1>4

(* The key in hand is given back: nobody else holds it.                    *)
LEMMA KeyInHandIsDropped ==
    ASSUME IInv, loop = "keyed", loop' # "keyed", DropKey(KeyOf[Candidate]), worker' = worker
    PROVE  KeysAreHeld' /\ KeyInHandIsFree' /\ busyKeys' \subseteq Keys
<1>1. Workers(HoldsKey)' = Workers(HoldsKey)
  BY DEF Workers
<1>2. busyKeys' = {KeyOf[worker[s].job] : s \in Workers(HoldsKey)} \ {NoKey}
  BY DEF IInv, KeysAreHeld, KeyInHandIsFree, DropKey
<1>3. KeysAreHeld'
  BY <1>1, <1>2 DEF IInv, KeysAreHeld
<1> QED
  BY <1>3 DEF KeyInHandIsFree, DropKey, IInv, TypeOK

(* A key that nobody holds is taken.                                       *)
LEMMA KeyIsTaken ==
    ASSUME IInv, ReserveKey, KeyOf[Candidate] \notin busyKeys
    PROVE  KeysAreHeld' /\ KeyInHandIsFree' /\ busyKeys' \subseteq Keys
<1> DEFINE key == KeyOf[Candidate]
<1>1. /\ loop = "classed" /\ loop' = "keyed" /\ batch' = batch /\ worker' = worker
      /\ busyKeys' = busyKeys \cup ({key} \ {NoKey})
  BY DEF ReserveKey
<1>2. Workers(HoldsKey)' = Workers(HoldsKey) /\ Candidate' = Candidate
  BY <1>1 DEF Workers, Candidate
<1>3. busyKeys = {KeyOf[worker[s].job] : s \in Workers(HoldsKey)} \ {NoKey}
  BY <1>1 DEF IInv, KeysAreHeld
<1>4. KeysAreHeld'
  BY <1>1, <1>2, <1>3 DEF IInv, KeysAreHeld
<1>5. KeyInHandIsFree'
  BY <1>1, <1>2, <1>3 DEF KeyInHandIsFree
<1>6. busyKeys' \subseteq Keys
  BY <1>1, CandidateType DEF IInv, HandIsFull, TypeOK
<1> QED
  BY <1>4, <1>5, <1>6

(* The key in hand becomes that of the new worker.                         *)
LEMMA KeyIsHandedOver ==
    ASSUME IInv, NEW s \in Slots, ClaimRow(s), status[Candidate] = "Pending"
    PROVE  KeysAreHeld' /\ KeyInHandIsFree'
<1> PICK key : key = KeyOf[Candidate]
  OBVIOUS
<1>1. /\ worker[s].step = "free"
      /\ worker'[s].step = "running" /\ KeyOf[worker'[s].job] = key
      /\ \A t \in Slots \ {s} : worker'[t] = worker[t]
  BY ClaimMoves
<1>2. loop = "keyed" /\ loop' = "idle" /\ busyKeys' = busyKeys
  BY DEF ClaimRow
<1>3. s \notin Workers(HoldsKey) /\ Workers(HoldsKey)' = Workers(HoldsKey) \cup {s}
  BY <1>1 DEF Workers, HoldsKey, AtWork
<1>4. \A t \in Workers(HoldsKey) : worker'[t] = worker[t]
  BY <1>1, <1>3 DEF Workers
<1>5. {KeyOf[worker'[t].job] : t \in Workers(HoldsKey) \cup {s}}
          = {KeyOf[worker[t].job] : t \in Workers(HoldsKey)} \cup {key}
  BY <1>1, <1>4
<1>6. busyKeys = ({KeyOf[worker[t].job] : t \in Workers(HoldsKey)} \cup {key}) \ {NoKey}
  BY <1>2 DEF IInv, KeysAreHeld
<1>7. \A t \in Workers(HoldsKey) : key # NoKey => KeyOf[worker[t].job] # key
  BY <1>2 DEF IInv, KeyInHandIsFree
<1>8. \A t, u \in Workers(HoldsKey) : t # u /\ KeyOf[worker[t].job] # NoKey
          => KeyOf[worker[t].job] # KeyOf[worker[u].job]
  BY DEF IInv, KeysAreHeld
<1>9. \A t, u \in Workers(HoldsKey)' : t # u /\ KeyOf[worker'[t].job] # NoKey
          => KeyOf[worker'[t].job] # KeyOf[worker'[u].job]
  BY <1>1, <1>3, <1>4, <1>7, <1>8
<1>10. KeysAreHeld'
  BY <1>2, <1>3, <1>5, <1>6, <1>9 DEF KeysAreHeld
<1> QED
  BY <1>2, <1>10 DEF KeyInHandIsFree

(* A worker gives its key back: it was its own.                            *)
LEMMA KeyIsReleased ==
    ASSUME IInv, NEW s \in Slots, ReleaseKey(s)
    PROVE  KeysAreHeld' /\ KeyInHandIsFree' /\ busyKeys' \subseteq Keys
<1> PICK key : key = KeyOf[worker[s].job]
  OBVIOUS
<1>1. /\ worker[s].step = "declassed" /\ worker'[s].step = "unkeyed"
      /\ \A t \in Slots \ {s} : worker'[t] = worker[t]
  BY AdvanceMoves DEF ReleaseKey, WorkerSteps
<1>2. loop' = loop /\ batch' = batch /\ Candidate' = Candidate /\ busyKeys' = busyKeys \ {key}
  BY DEF ReleaseKey, DropKey, Candidate
<1>3. s \in Workers(HoldsKey) /\ Workers(HoldsKey)' = Workers(HoldsKey) \ {s}
  BY <1>1 DEF Workers, HoldsKey, AtWork
<1>4. \A t \in Workers(HoldsKey) \ {s} : worker'[t] = worker[t]
  BY <1>1 DEF Workers
<1>5. \A t \in Workers(HoldsKey) \ {s} : key # NoKey => KeyOf[worker[t].job] # key
  BY <1>3 DEF IInv, KeysAreHeld
<1>6. loop = "keyed" /\ key # NoKey => KeyOf[Candidate] # key
  BY <1>3 DEF IInv, KeyInHandIsFree
<1>7. {KeyOf[worker'[t].job] : t \in Workers(HoldsKey) \ {s}}
          = {KeyOf[worker[t].job] : t \in Workers(HoldsKey) \ {s}}
  BY <1>4
<1>8. {KeyOf[worker[t].job] : t \in Workers(HoldsKey)}
          = {KeyOf[worker[t].job] : t \in Workers(HoldsKey) \ {s}} \cup {key}
  BY <1>3
<1>9. busyKeys' = ({KeyOf[worker'[t].job] : t \in Workers(HoldsKey)'}
                      \cup (IF loop' = "keyed" THEN {KeyOf[Candidate']} ELSE {})) \ {NoKey}
  <2>1. busyKeys = ({KeyOf[worker[t].job] : t \in Workers(HoldsKey) \ {s}} \cup {key}
                      \cup (IF loop = "keyed" THEN {KeyOf[Candidate]} ELSE {})) \ {NoKey}
    BY <1>8 DEF IInv, KeysAreHeld
  <2>2. key \notin {KeyOf[worker[t].job] : t \in Workers(HoldsKey) \ {s}} \ {NoKey}
    BY <1>5
  <2> QED
    BY <1>2, <1>3, <1>6, <1>7, <2>1, <2>2
<1>10. KeysAreHeld'
  BY <1>3, <1>4, <1>9 DEF IInv, KeysAreHeld
<1>11. KeyInHandIsFree'
  BY <1>2, <1>3, <1>4 DEF IInv, KeyInHandIsFree
<1> QED
  BY <1>2, <1>10, <1>11 DEF IInv, TypeOK

-----------------------------------------------------------------------------
(* The invariant.                                                          *)

LEMMA InvariantHoldsAtFirst == Init => IInv
<1> SUFFICES ASSUME Init PROVE IInv
  OBVIOUS
<1>1. status \in [Jobs -> {"Absent", "Pending", "Running", "Ended"}]
  BY DEF Init
<1>2. worker \in [Slots -> WorkerType] /\ \A s \in Slots : worker[s].step = "free"
  BY DEF Init, NoWorker, WorkerType, WorkerSteps
<1>3. TypeOK
  BY <1>1, <1>2, TypeParts, PoolAssumption DEF Init, RestOfTypeOK, LoopStates
<1>4. Workers(HoldsClass) = {} /\ Workers(HoldsKey) = {}
  BY <1>2 DEF Workers, HoldsClass, HoldsKey, AtWork
<1>5. CountsAreHeld
  <2>1. \A c \in CappedClasses : Cap(c) \in Nat
    <3>1. HeavyCap \in Nat
      BY PoolAssumption DEF HeavyCap
    <3> QED BY <3>1 DEF CappedClasses, Classes, Cap
  <2>2. \A c \in Classes : ClassHolders(c) = {} /\ Reserved(c) = 0 /\ classCounts[c] = 0
    BY <1>4 DEF ClassHolders, Reserved, Init
  <2> QED
    BY <2>1, <2>2, FS_EmptySet DEF CountsAreHeld, CappedClasses
<1>6. KeysAreHeld /\ KeyInHandIsFree
  BY <1>4 DEF Init, KeysAreHeld, KeyInHandIsFree
<1>7. HandIsFull /\ BusyWorkersHaveJobs
  BY <1>2 DEF Init, HandIsFull, BusyWorkersHaveJobs
<1> QED
  BY <1>3, <1>5, <1>6, <1>7 DEF IInv

(* Steps of the callers and of the loop that reserve nothing.              *)
LEMMA QuietStepsKeepInvariant ==
    ASSUME IInv, RestOfTypeOK', HandIsFull', SameHand,
           \A c \in CappedClasses : Reserved(c)' = Reserved(c),
           UNCHANGED <<worker, classCounts, busyKeys>>
    PROVE  IInv'
<1>1. TypeOK'
  BY TypeParts DEF IInv
<1>2. BusyWorkersHaveJobs'
  BY DEF IInv, BusyWorkersHaveJobs
<1>3. KeysAreHeld' /\ KeyInHandIsFree'
  BY KeysStay DEF Workers
<1> QED
  BY <1>1, <1>2, <1>3, CountsStay DEF IInv

LEMMA CallersKeepInvariant ==
    ASSUME IInv, NEW j \in Jobs, Enqueue(j) \/ Withdraw(j)
    PROVE  IInv'
<1>1. RestOfTypeOK'
  BY TypeParts DEF IInv, RestOfTypeOK, Enqueue, Withdraw
<1>2. UNCHANGED <<loop, batch, worker, classCounts, busyKeys>>
  BY DEF Enqueue, Withdraw
<1> QED
  BY <1>1, <1>2, QuietStepsKeepInvariant DEF IInv, HandIsFull, SameHand, Reserved, Candidate

LEMMA LoopKeepsInvariant ==
    ASSUME IInv, TakePermit \/ Peek \/ GiveUp \/ PeekFails
    PROVE  IInv'
<1>1. RestOfTypeOK'
  <2>1. RestOfTypeOK
    BY TypeParts DEF IInv
  <2>2. CASE Peek
    BY <2>1, <2>2, PeekReturnsJobs DEF IInv, Peek, RestOfTypeOK, LoopStates
  <2>3. CASE TakePermit \/ GiveUp
    BY <2>1, <2>3 DEF TakePermit, GiveUp, RestOfTypeOK, LoopStates
  <2>4. CASE PeekFails
    BY <2>1, <2>4, PoolAssumption DEF PeekFails, RestOfTypeOK, LoopStates
  <2> QED BY <2>2, <2>3, <2>4
<1>2. /\ UNCHANGED <<worker, classCounts, busyKeys>>
      /\ loop \notin {"classed", "keyed"} /\ loop' \notin {"classed", "keyed"}
  BY DEF TakePermit, Peek, GiveUp, PeekFails
<1> QED
  BY <1>1, <1>2, QuietStepsKeepInvariant DEF HandIsFull, SameHand, Reserved

LEMMA ReserveClassKeepsInvariant ==
    ASSUME IInv, ReserveClass
    PROVE  IInv'
<1>1. RestOfTypeOK /\ worker \in [Slots -> WorkerType]
  BY TypeParts DEF IInv
<1>2. batch # <<>> /\ Tail(batch) \in Seq(Jobs)
  BY CandidateType DEF IInv, ReserveClass
<1>3. CASE HasRoom(ClassOf[Candidate])
  <2>1. RestOfTypeOK' /\ HandIsFull'
    BY <1>1, <1>2, <1>3, ClassIsTaken DEF ReserveClass, RestOfTypeOK, LoopStates, HandIsFull
  <2>2. KeysAreHeld' /\ KeyInHandIsFree'
    BY <1>3, KeysStay DEF ReserveClass, SameHand, Workers
  <2>3. TypeOK' /\ BusyWorkersHaveJobs'
    BY <1>1, <2>1, TypeParts DEF ReserveClass, IInv, BusyWorkersHaveJobs
  <2> QED
    BY <1>3, <2>1, <2>2, <2>3, ClassIsTaken DEF IInv
<1>4. CASE ~HasRoom(ClassOf[Candidate])
  <2>1. RestOfTypeOK' /\ HandIsFull'
    BY <1>1, <1>2, <1>4 DEF ReserveClass, SkipCandidate, RestOfTypeOK, HandIsFull
  <2>2. UNCHANGED <<worker, classCounts, busyKeys>> /\ loop = "looking" /\ loop' = "looking"
    BY <1>4 DEF ReserveClass, SkipCandidate
  <2> QED
    BY <2>1, <2>2, QuietStepsKeepInvariant DEF SameHand, Reserved
<1> QED
  BY <1>3, <1>4

LEMMA ReserveKeyKeepsInvariant ==
    ASSUME IInv, ReserveKey
    PROVE  IInv'
<1>1. RestOfTypeOK /\ worker \in [Slots -> WorkerType]
  BY TypeParts DEF IInv
<1>2. batch # <<>> /\ Tail(batch) \in Seq(Jobs)
  BY CandidateType DEF IInv, HandIsFull, ReserveKey
<1>3. worker' = worker /\ loop = "classed"
  BY DEF ReserveKey
<1>4. BusyWorkersHaveJobs'
  BY <1>3 DEF IInv, BusyWorkersHaveJobs
<1>5. CASE KeyOf[Candidate] \in busyKeys
  <2>1. loop' = "looking" /\ batch' = Tail(batch) /\ DropClass(ClassOf[Candidate]) /\ busyKeys' = busyKeys
    BY <1>5 DEF ReserveKey, SkipCandidate
  <2>2. classCounts' \in [Classes -> Nat] /\ CountsAreHeld'
    BY <1>3, <2>1, HandIsEmptied
  <2>3. TypeOK' /\ HandIsFull'
    BY <1>1, <1>2, <2>1, <2>2, TypeParts DEF ReserveKey, RestOfTypeOK, LoopStates, HandIsFull
  <2>4. KeysAreHeld' /\ KeyInHandIsFree'
    BY <1>3, <2>1, KeysStay DEF SameHand, Workers
  <2> QED
    BY <1>4, <2>2, <2>3, <2>4 DEF IInv
<1>6. CASE KeyOf[Candidate] \notin busyKeys
  <2>1. loop' = "keyed" /\ UNCHANGED <<batch, classCounts>>
    BY <1>6 DEF ReserveKey
  <2>2. KeysAreHeld' /\ KeyInHandIsFree' /\ busyKeys' \subseteq Keys
    BY <1>6, KeyIsTaken
  <2>3. TypeOK' /\ HandIsFull'
    BY <1>1, <1>2, <2>1, <2>2, TypeParts DEF ReserveKey, RestOfTypeOK, LoopStates, HandIsFull
  <2>4. CountsAreHeld'
    BY <1>3, <2>1, CountsStay DEF Reserved, Candidate
  <2> QED
    BY <1>4, <2>2, <2>3, <2>4 DEF IInv
<1> QED
  BY <1>5, <1>6

LEMMA ClaimRowKeepsInvariant ==
    ASSUME IInv, NEW s \in Slots, ClaimRow(s)
    PROVE  IInv'
<1>1. RestOfTypeOK /\ worker \in [Slots -> WorkerType]
  BY TypeParts DEF IInv
<1>2. batch # <<>> /\ Tail(batch) \in Seq(Jobs) /\ Candidate \in Jobs
  BY CandidateType DEF IInv, HandIsFull, ClaimRow
<1>3. loop = "keyed"
  BY DEF ClaimRow
<1>4. CASE status[Candidate] = "Pending"
  <2>1. /\ status' = [status EXCEPT ![Candidate] = "Running"]
        /\ loop' = "idle" /\ batch' = <<>>
        /\ UNCHANGED <<classCounts, busyKeys, retried, errors>>
    BY <1>4 DEF ClaimRow
  <2>2. RestOfTypeOK' /\ HandIsFull'
    BY <1>1, <1>2, <2>1 DEF RestOfTypeOK, LoopStates, HandIsFull
  <2>3. TypeOK' /\ BusyWorkersHaveJobs'
    BY <1>4, <2>2, ClaimMoves, TypeParts
  <2> QED
    BY <1>4, <2>2, <2>3, ClassIsHandedOver, KeyIsHandedOver DEF IInv
<1>5. CASE status[Candidate] # "Pending"
  <2>1. /\ loop' = "looking" /\ batch' = Tail(batch)
        /\ DropKey(KeyOf[Candidate]) /\ DropClass(ClassOf[Candidate])
        /\ UNCHANGED <<status, worker, retried, errors>>
    BY <1>5 DEF ClaimRow, SkipCandidate
  <2>2. classCounts' \in [Classes -> Nat] /\ CountsAreHeld'
    BY <1>3, <2>1, HandIsEmptied
  <2>3. KeysAreHeld' /\ KeyInHandIsFree' /\ busyKeys' \subseteq Keys
    BY <1>3, <2>1, KeyInHandIsDropped
  <2>4. TypeOK' /\ HandIsFull'
    BY <1>1, <1>2, <2>1, <2>2, <2>3, TypeParts DEF RestOfTypeOK, LoopStates, HandIsFull
  <2>5. BusyWorkersHaveJobs'
    BY <2>1 DEF IInv, BusyWorkersHaveJobs
  <2> QED
    BY <2>2, <2>3, <2>4, <2>5 DEF IInv
<1> QED
  BY <1>4, <1>5

LEMMA ClaimFailsKeepsInvariant ==
    ASSUME IInv, ClaimFails
    PROVE  IInv'
<1>1. RestOfTypeOK /\ worker \in [Slots -> WorkerType]
  BY TypeParts DEF IInv
<1>2. /\ loop = "keyed" /\ loop' = "idle" /\ batch' = <<>> /\ errors < MaxErrors /\ errors' = errors + 1
      /\ DropKey(KeyOf[Candidate]) /\ DropClass(ClassOf[Candidate])
      /\ UNCHANGED <<status, worker, retried>>
  BY DEF ClaimFails
<1>3. classCounts' \in [Classes -> Nat] /\ CountsAreHeld'
  BY <1>2, HandIsEmptied
<1>4. KeysAreHeld' /\ KeyInHandIsFree' /\ busyKeys' \subseteq Keys
  BY <1>2, KeyInHandIsDropped
<1>5. errors' \in 0..MaxErrors
  BY <1>1, <1>2, PoolAssumption DEF RestOfTypeOK
<1>6. RestOfTypeOK'
  BY <1>1, <1>2, <1>3, <1>4, <1>5 DEF RestOfTypeOK, LoopStates
<1>7. HandIsFull' /\ BusyWorkersHaveJobs'
  BY <1>2 DEF IInv, HandIsFull, BusyWorkersHaveJobs
<1> QED
  BY <1>1, <1>2, <1>3, <1>4, <1>6, <1>7, TypeParts DEF IInv

LEMMA WorkKeepsInvariant ==
    ASSUME IInv, NEW s \in Slots, Finish(s) \/ StartWaiting(s)
    PROVE  IInv'
<1>1. RestOfTypeOK
  BY TypeParts DEF IInv
<1>2. /\ worker' \in [Slots -> WorkerType]
      /\ worker[s].step \in HoldsKey /\ worker'[s].step \in HoldsKey
      /\ \A t \in Slots \ {s} : worker'[t] = worker[t]
      /\ \A t \in Slots : worker'[t].job = worker[t].job
      /\ BusyWorkersHaveJobs'
  BY FinishMoves, StartWaitingMoves DEF HoldsKey, AtWork
<1>3. UNCHANGED <<loop, batch, classCounts, busyKeys>>
  BY FinishMoves, StartWaitingMoves
<1>4. RestOfTypeOK'
  <2>1. status' \in [Jobs -> {"Absent", "Pending", "Running", "Ended"}]
    BY <1>1, FinishMoves, StartWaitingMoves DEF RestOfTypeOK
  <2>2. retried' \in 0..MaxRetries /\ errors' \in 0..MaxErrors
    BY <1>1, FinishMoves, StartWaitingMoves DEF RestOfTypeOK
  <2> QED
    BY <1>1, <1>3, <2>1, <2>2 DEF RestOfTypeOK
<1>5. Workers(HoldsKey)' = Workers(HoldsKey)
  BY <1>2 DEF Workers
<1>6. KeysAreHeld' /\ KeyInHandIsFree'
  BY <1>2, <1>3, <1>5, KeysStay DEF SameHand, Workers
<1> QED
  BY <1>2, <1>3, <1>4, <1>6, TypeParts, ClassIsKept DEF IInv, HandIsFull

LEMMA ReleaseClassKeepsInvariant ==
    ASSUME IInv, NEW s \in Slots, ReleaseClass(s)
    PROVE  IInv'
<1>1. RestOfTypeOK
  BY TypeParts DEF IInv
<1>2. /\ worker' \in [Slots -> WorkerType]
      /\ worker[s].step = "written" /\ worker'[s].step = "declassed"
      /\ \A t \in Slots \ {s} : worker'[t] = worker[t]
      /\ \A t \in Slots : worker'[t].job = worker[t].job
      /\ BusyWorkersHaveJobs'
  BY AdvanceMoves DEF ReleaseClass, WorkerSteps
<1>3. UNCHANGED <<status, loop, batch, busyKeys, retried, errors>>
  BY DEF ReleaseClass
<1>4. RestOfTypeOK'
  BY <1>1, <1>3, ClassIsReleased DEF RestOfTypeOK
<1>5. Workers(HoldsKey)' = Workers(HoldsKey)
  BY <1>2 DEF Workers, HoldsKey, AtWork
<1>6. KeysAreHeld' /\ KeyInHandIsFree'
  BY <1>2, <1>3, <1>5, KeysStay DEF SameHand, Workers
<1> QED
  BY <1>2, <1>3, <1>4, <1>6, TypeParts, ClassIsReleased DEF IInv, HandIsFull

LEMMA ReleaseKeyKeepsInvariant ==
    ASSUME IInv, NEW s \in Slots, ReleaseKey(s)
    PROVE  IInv'
<1>1. RestOfTypeOK
  BY TypeParts DEF IInv
<1>2. /\ worker' \in [Slots -> WorkerType]
      /\ worker[s].step = "declassed" /\ worker'[s].step = "unkeyed"
      /\ \A t \in Slots \ {s} : worker'[t] = worker[t]
      /\ BusyWorkersHaveJobs'
  BY AdvanceMoves DEF ReleaseKey, WorkerSteps
<1>3. UNCHANGED <<status, loop, batch, classCounts, retried, errors>>
  BY DEF ReleaseKey
<1>4. RestOfTypeOK'
  BY <1>1, <1>3, KeyIsReleased DEF RestOfTypeOK
<1>5. \A c \in CappedClasses : ClassHolders(c)' = ClassHolders(c) /\ Reserved(c)' = Reserved(c)
  BY <1>2, <1>3 DEF ClassHolders, Workers, HoldsClass, AtWork, Reserved, Candidate
<1>6. CountsAreHeld'
  BY <1>3, <1>5 DEF IInv, CountsAreHeld, CappedClasses
<1> QED
  BY <1>2, <1>3, <1>4, <1>6, TypeParts, KeyIsReleased DEF IInv, HandIsFull

LEMMA ReleasePermitKeepsInvariant ==
    ASSUME IInv, NEW s \in Slots, ReleasePermit(s)
    PROVE  IInv'
<1>1. RestOfTypeOK /\ worker \in [Slots -> WorkerType]
  BY TypeParts DEF IInv
<1>2. NoWorker \in WorkerType
  BY DEF NoWorker, WorkerType, WorkerSteps
<1>3. /\ worker' \in [Slots -> WorkerType]
      /\ worker[s].step = "unkeyed" /\ worker'[s] = NoWorker
      /\ \A t \in Slots \ {s} : worker'[t] = worker[t]
  BY <1>1, <1>2 DEF ReleasePermit
<1>4. UNCHANGED <<status, loop, batch, classCounts, busyKeys, retried, errors>>
  BY DEF ReleasePermit
<1>5. RestOfTypeOK' /\ HandIsFull'
  BY <1>1, <1>4 DEF IInv, RestOfTypeOK, HandIsFull
<1>6. BusyWorkersHaveJobs'
  BY <1>3 DEF IInv, BusyWorkersHaveJobs, NoWorker, Slots
<1>7. /\ Workers(HoldsKey)' = Workers(HoldsKey) /\ Workers(HoldsClass)' = Workers(HoldsClass)
      /\ s \notin Workers(HoldsKey) /\ s \notin Workers(HoldsClass)
  BY <1>3 DEF Workers, HoldsKey, HoldsClass, AtWork, NoWorker
<1>8. KeysAreHeld' /\ KeyInHandIsFree'
  BY <1>3, <1>4, <1>7, KeysStay DEF SameHand, Workers
<1>9. \A c \in CappedClasses : ClassHolders(c)' = ClassHolders(c) /\ Reserved(c)' = Reserved(c)
  <2>1. \A t \in Workers(HoldsClass) : worker'[t] = worker[t]
    BY <1>3, <1>7 DEF Workers
  <2> QED
    BY <1>4, <1>7, <2>1 DEF ClassHolders, Reserved, Candidate
<1>10. CountsAreHeld'
  BY <1>4, <1>9 DEF IInv, CountsAreHeld, CappedClasses
<1> QED
  BY <1>3, <1>5, <1>6, <1>8, <1>10, TypeParts DEF IInv

LEMMA StepsKeepInvariant == IInv /\ [Next]_vars => IInv'
<1> SUFFICES ASSUME IInv, [Next]_vars PROVE IInv'
  OBVIOUS
<1>1. ASSUME NEW j \in Jobs, Enqueue(j) \/ Withdraw(j) PROVE IInv'
  BY <1>1, CallersKeepInvariant
<1>2. CASE TakePermit \/ Peek \/ GiveUp \/ PeekFails
  BY <1>2, LoopKeepsInvariant
<1>3. CASE ReserveClass
  BY <1>3, ReserveClassKeepsInvariant
<1>4. CASE ReserveKey
  BY <1>4, ReserveKeyKeepsInvariant
<1>5. ASSUME NEW s \in Slots, ClaimRow(s) PROVE IInv'
  BY <1>5, ClaimRowKeepsInvariant
<1>6. CASE ClaimFails
  BY <1>6, ClaimFailsKeepsInvariant
<1>7. ASSUME NEW s \in Slots, Work(s) \/ CountFails(s) PROVE IInv'
  BY <1>7, WorkKeepsInvariant, ReleaseClassKeepsInvariant, ReleaseKeyKeepsInvariant,
     ReleasePermitKeepsInvariant DEF Work, Finish
<1>8. CASE UNCHANGED vars
  <2>1. RestOfTypeOK' /\ HandIsFull'
    BY <1>8, TypeParts DEF IInv, vars, RestOfTypeOK, HandIsFull
  <2> QED
    BY <1>8, <2>1, QuietStepsKeepInvariant DEF vars, SameHand, Reserved, Candidate
<1> QED
  BY <1>1, <1>2, <1>3, <1>4, <1>5, <1>6, <1>7, <1>8 DEF Next, Loop

LEMMA InvariantHolds == Spec => []IInv
  BY InvariantHoldsAtFirst, StepsKeepInvariant, PTL DEF Spec

-----------------------------------------------------------------------------
(* The theorems.                                                           *)

(* The claim loop, its registries of classes and keys, and its workers     *)
(* keep their types: a class counter is never given back below zero.       *)
THEOREM TypeCorrect == Spec => []TypeOK
<1>1. IInv => TypeOK
  BY DEF IInv
<1> QED
  BY <1>1, InvariantHolds, PTL

(* class_counts and busy_keys say exactly what the workers and the         *)
(* candidate in hand hold, no class exceeds its cap and no two workers     *)
(* hold one key, whichever way claim_next_unblocked_job and the workers    *)
(* leave: a busy key, a row that is gone, an error, a retry.               *)
THEOREM ReservationsHold == Spec => []ReservationsAreHeld
<1>1. IInv => ReservationsAreHeld
  BY DEF IInv, ReservationsAreHeld
<1> QED
  BY <1>1, InvariantHolds, PTL

-----------------------------------------------------------------------------
(* What runs together: the pool keeps to its slots.                        *)

RunsAt(s, j) == worker[s].step \in AtWork /\ worker[s].job = j

(* The rows that are running and the workers that run them are the same.   *)
RowsAreWorked ==
    /\ \A j \in Jobs : status[j] = "Running" => \E s \in Slots : RunsAt(s, j)
    /\ \A s \in Slots : worker[s].step \in AtWork => status[worker[s].job] = "Running"
    /\ \A s, t \in Slots :
           worker[s].step \in AtWork /\ worker[t].step \in AtWork
           /\ worker[s].job = worker[t].job => s = t

(* A step that neither starts nor ends a run.                              *)
LEMMA RowsStay ==
    ASSUME RowsAreWorked, IInv,
           \A j \in Jobs : status'[j] = "Running" <=> status[j] = "Running",
           \A s \in Slots : /\ worker'[s].step \in AtWork <=> worker[s].step \in AtWork
                            /\ worker'[s].step \in AtWork => worker'[s].job = worker[s].job
    PROVE  RowsAreWorked'
<1>1. \A s \in Slots : worker[s].step \in AtWork => worker[s].job \in Jobs
  BY DEF IInv, BusyWorkersHaveJobs, AtWork
<1>2. ASSUME NEW j \in Jobs, status'[j] = "Running"
      PROVE  \E s \in Slots : RunsAt(s, j)'
  <2>1. PICK s \in Slots : RunsAt(s, j)
    BY <1>2 DEF RowsAreWorked
  <2> QED BY <2>1 DEF RunsAt
<1>3. \A s \in Slots : worker'[s].step \in AtWork => status'[worker'[s].job] = "Running"
  BY <1>1 DEF RowsAreWorked
<1>4. \A s, t \in Slots :
          worker'[s].step \in AtWork /\ worker'[t].step \in AtWork
          /\ worker'[s].job = worker'[t].job => s = t
  BY DEF RowsAreWorked
<1> QED BY <1>2, <1>3, <1>4 DEF RowsAreWorked

(* The claim starts a run of a row that nobody runs.                       *)
LEMMA ClaimKeepsRows ==
    ASSUME RowsAreWorked, IInv, NEW s \in Slots, ClaimRow(s), status[Candidate] = "Pending"
    PROVE  RowsAreWorked'
<1>1. Candidate \in Jobs
  BY CandidateType DEF IInv, ClaimRow, HandIsFull
<1>2. PICK c \in Jobs : c = Candidate
  BY <1>1
<1>3. /\ worker[s].step = "free"
      /\ worker'[s].job = c /\ worker'[s].step \in AtWork
      /\ \A t \in Slots \ {s} : worker'[t] = worker[t]
  BY <1>2, ClaimMoves DEF AtWork
<1>4. status' = [status EXCEPT ![c] = "Running"] /\ status[c] = "Pending"
  BY <1>2 DEF ClaimRow
<1>5. status \in [Jobs -> {"Absent", "Pending", "Running", "Ended"}]
  BY DEF IInv, TypeOK
<1>6. \A t \in Slots : worker[t].step \in AtWork => worker[t].job \in Jobs /\ worker[t].job # c
  BY <1>4 DEF IInv, BusyWorkersHaveJobs, RowsAreWorked, AtWork
<1>7. ASSUME NEW j \in Jobs, status'[j] = "Running"
      PROVE  \E t \in Slots : RunsAt(t, j)'
  <2>1. CASE j = c
    BY <1>3, <2>1 DEF RunsAt
  <2>2. CASE j # c
    <3>1. PICK t \in Slots : RunsAt(t, j)
      BY <1>4, <1>5, <1>7, <2>2 DEF RowsAreWorked
    <3>2. t # s
      BY <1>3, <3>1 DEF RunsAt, AtWork
    <3> QED BY <1>3, <3>1, <3>2 DEF RunsAt
  <2> QED BY <2>1, <2>2
<1>8. \A t \in Slots : worker'[t].step \in AtWork => status'[worker'[t].job] = "Running"
  BY <1>3, <1>4, <1>5, <1>6 DEF RowsAreWorked
<1>9. \A t, u \in Slots :
          worker'[t].step \in AtWork /\ worker'[u].step \in AtWork
          /\ worker'[t].job = worker'[u].job => t = u
  BY <1>3, <1>6 DEF RowsAreWorked
<1> QED BY <1>7, <1>8, <1>9 DEF RowsAreWorked

(* The end of a run, by an outcome or a retry, is that of its only worker. *)
LEMMA FinishKeepsRows ==
    ASSUME RowsAreWorked, IInv, NEW s \in Slots, Finish(s)
    PROVE  RowsAreWorked'
<1>1. /\ worker[s].step \in AtWork /\ worker'[s].step \notin AtWork
      /\ \A t \in Slots \ {s} : worker'[t] = worker[t]
      /\ worker[s].job \in Jobs
  BY FinishMoves DEF AtWork
<1>2. PICK c \in Jobs : c = worker[s].job
  BY <1>1
<1>3. status' = [status EXCEPT ![c] = "Ended"] \/ status' = [status EXCEPT ![c] = "Pending"]
  BY <1>2, FinishMoves
<1>4. status \in [Jobs -> {"Absent", "Pending", "Running", "Ended"}]
  BY DEF IInv, TypeOK
<1>5. /\ status'[c] # "Running"
      /\ \A j \in Jobs : j # c => status'[j] = status[j]
  BY <1>3, <1>4
<1>6. \A t \in Slots \ {s} : worker[t].step \in AtWork => worker[t].job \in Jobs /\ worker[t].job # c
  BY <1>1, <1>2 DEF IInv, BusyWorkersHaveJobs, RowsAreWorked, AtWork
<1>7. ASSUME NEW j \in Jobs, status'[j] = "Running"
      PROVE  \E t \in Slots : RunsAt(t, j)'
  <2>1. PICK t \in Slots : RunsAt(t, j)
    BY <1>5, <1>7 DEF RowsAreWorked
  <2>2. t # s
    BY <1>2, <1>5, <1>7, <2>1 DEF RunsAt
  <2> QED BY <1>1, <2>1, <2>2 DEF RunsAt
<1>8. \A t \in Slots : worker'[t].step \in AtWork => status'[worker'[t].job] = "Running"
  BY <1>1, <1>5, <1>6 DEF RowsAreWorked
<1>9. \A t, u \in Slots :
          worker'[t].step \in AtWork /\ worker'[u].step \in AtWork
          /\ worker'[t].job = worker'[u].job => t = u
  BY <1>1 DEF RowsAreWorked
<1> QED BY <1>7, <1>8, <1>9 DEF RowsAreWorked

(* Rows that run are at most as many as the slots of a set that holds all  *)
(* their workers.                                                          *)
LEMMA RunsAreAtMost ==
    ASSUME RowsAreWorked, NEW S \in SUBSET Slots, NEW R \in SUBSET JobsInSlots!Running,
           \A j \in R : \A s \in Slots : RunsAt(s, j) => s \in S
    PROVE  Cardinality(R) <= Cardinality(S)
<1> DEFINE at == [j \in R |-> CHOOSE s \in Slots : RunsAt(s, j)]
<1>1. ASSUME NEW j \in R
      PROVE  at[j] \in S /\ RunsAt(at[j], j)
  <2>1. \E s \in Slots : RunsAt(s, j)
    BY DEF RowsAreWorked, JobsInSlots!Running
  <2>2. PICK s \in Slots : s = CHOOSE t \in Slots : RunsAt(t, j)
    BY <2>1
  <2>3. RunsAt(s, j)
    BY <2>1, <2>2
  <2> QED BY <2>2, <2>3
<1>2. at \in Injection(R, S)
  <2>1. at \in [R -> S]
    BY <1>1
  <2>2. \A i, j \in R : at[i] = at[j] => i = j
    BY <1>1 DEF RunsAt
  <2> QED BY <2>1, <2>2 DEF Injection, IsInjective
<1>3. IsFiniteSet(S)
  BY SlotSets
<1> QED BY <1>2, <1>3, FS_Injection

(* The two modules count alike.                                            *)
LEMMA CountsAlike == \A S : JobsInSlots!Cardinality(S) = Cardinality(S)
  BY Zenon DEF JobsInSlots!Cardinality, Cardinality

(* A row that is claimed fits in with those that run: the permit is a free *)
(* slot, and class and key in hand are counted besides those of the workers*)
LEMMA ClaimIsStart ==
    ASSUME RowsAreWorked, IInv, NEW s \in Slots, ClaimRow(s), status[Candidate] = "Pending"
    PROVE  JobsInSlots!Start(Candidate)
<1>1. Candidate \in Jobs /\ loop = "keyed"
  BY CandidateType DEF IInv, ClaimRow, HandIsFull
<1>2. PICK c \in Jobs : c = Candidate
  BY <1>1
<1> DEFINE k == ClassOf[c]
           R == JobsInSlots!RunningOf(k)
<1>3. JobsInSlots!Becomes(c, "Pending", "Running")
  BY <1>2 DEF ClaimRow, JobsInSlots!Becomes
<1>4. worker[s].step = "free"
  BY ClaimMoves
<1>5. Cardinality(JobsInSlots!Running) < PoolSize
  <2>1. Slots \ {s} \in SUBSET Slots /\ JobsInSlots!Running \in SUBSET JobsInSlots!Running
    OBVIOUS
  <2>2. \A j \in JobsInSlots!Running : \A t \in Slots : RunsAt(t, j) => t \in Slots \ {s}
    BY <1>4 DEF RunsAt, AtWork
  <2>3. Cardinality(JobsInSlots!Running) <= Cardinality(Slots \ {s})
    BY <2>1, <2>2, RunsAreAtMost
  <2>4. IsFiniteSet(Slots) /\ Cardinality(Slots) = PoolSize
    BY PoolAssumption, FS_Interval DEF Slots
  <2>5. Cardinality(Slots \ {s}) = PoolSize - 1
    BY <2>4, FS_RemoveElement
  <2>6. IsFiniteSet(JobsInSlots!Running)
    BY PoolAssumption, FS_Subset DEF JobsInSlots!Running
  <2>7. Cardinality(JobsInSlots!Running) \in Nat
    BY <2>6, FS_CardinalityType
  <2> QED BY <2>3, <2>5, <2>7, PoolAssumption
<1>6. k \in DOMAIN CapOf => Cardinality(R) < CapOf[k]
  <2>1. SUFFICES ASSUME k \in CappedClasses
                 PROVE  Cardinality(R) < Cap(k)
    BY DEF CapOf, CappedClasses
  <2>2. ClassHolders(k) \in SUBSET Slots /\ R \in SUBSET JobsInSlots!Running
    BY DEF ClassHolders, Workers, JobsInSlots!RunningOf
  <2>3. \A j \in R : \A t \in Slots : RunsAt(t, j) => t \in ClassHolders(k)
    BY DEF JobsInSlots!RunningOf, RunsAt, ClassHolders, Workers, HoldsClass, AtWork
  <2>4. Cardinality(R) <= Cardinality(ClassHolders(k))
    BY <2>2, <2>3, RunsAreAtMost
  <2>5. /\ classCounts[k] = Cardinality(ClassHolders(k)) + Reserved(k)
        /\ classCounts[k] <= Cap(k)
        /\ classCounts[k] \in Nat /\ Cap(k) \in Nat /\ Cardinality(ClassHolders(k)) \in Nat
    BY <2>1, CountTypes DEF CountIsHeld
  <2>6. Reserved(k) = 1
    BY <1>1, <1>2 DEF Reserved
  <2>7. R \in SUBSET Jobs
    BY DEF JobsInSlots!RunningOf, JobsInSlots!Running
  <2>8. Cardinality(R) \in Nat
    BY <2>7, PoolAssumption, FS_Subset, FS_CardinalityType
  <2> QED BY <2>4, <2>5, <2>6, <2>8
<1>7. KeyOf[c] # NoKey => \A i \in JobsInSlots!Running : KeyOf[i] # KeyOf[c]
  <2>1. SUFFICES ASSUME KeyOf[c] # NoKey, NEW i \in JobsInSlots!Running
                 PROVE  KeyOf[i] # KeyOf[c]
    OBVIOUS
  <2>2. PICK t \in Slots : RunsAt(t, i)
    BY DEF RowsAreWorked, JobsInSlots!Running
  <2>3. t \in Workers(HoldsKey)
    BY <2>2 DEF RunsAt, Workers, HoldsKey, AtWork
  <2> QED BY <1>1, <1>2, <2>1, <2>2, <2>3 DEF IInv, KeyInHandIsFree, RunsAt
<1> QED BY <1>2, <1>3, <1>5, <1>6, <1>7, CountsAlike DEF JobsInSlots!Start

(* Every step of the pool is one of the slots or none.                     *)
LEMMA SlotsStep ==
    ASSUME RowsAreWorked, IInv, Next
    PROVE  RowsAreWorked' /\ [JobsInSlots!Next]_status
<1>0. status \in [Jobs -> {"Absent", "Pending", "Running", "Ended"}]
  BY DEF IInv, TypeOK
<1>1. ASSUME NEW j \in Jobs, Enqueue(j) \/ Withdraw(j)
      PROVE  RowsAreWorked' /\ JobsInSlots!Next
  <2>1. /\ \A i \in Jobs : status'[i] = "Running" <=> status[i] = "Running"
        /\ worker' = worker
    BY <1>0, <1>1 DEF Enqueue, Withdraw
  <2>2. JobsInSlots!Becomes(j, "Absent", "Pending") \/ JobsInSlots!Becomes(j, "Pending", "Ended")
    BY <1>1 DEF Enqueue, Withdraw, JobsInSlots!Becomes
  <2> QED BY <2>1, <2>2, RowsStay DEF JobsInSlots!Next
<1>2. CASE TakePermit \/ Peek \/ GiveUp \/ PeekFails \/ ReserveClass \/ ReserveKey \/ ClaimFails
  <2>1. UNCHANGED <<status, worker>>
    BY <1>2 DEF TakePermit, Peek, GiveUp, PeekFails, ReserveClass, ReserveKey, ClaimFails
  <2> QED BY <2>1, RowsStay
<1>3. ASSUME NEW s \in Slots, ClaimRow(s)
      PROVE  RowsAreWorked' /\ [JobsInSlots!Next]_status
  <2>1. CASE status[Candidate] = "Pending"
    <3>1. Candidate \in Jobs
      BY <1>3, CandidateType DEF IInv, ClaimRow, HandIsFull
    <3>2. PICK c \in Jobs : c = Candidate
      BY <3>1
    <3>3. JobsInSlots!Start(c)
      BY <1>3, <2>1, <3>2, ClaimIsStart
    <3> QED BY <1>3, <2>1, <3>3, ClaimKeepsRows DEF JobsInSlots!Next
  <2>2. CASE status[Candidate] # "Pending"
    <3>1. UNCHANGED <<status, worker>>
      BY <1>3, <2>2 DEF ClaimRow
    <3> QED BY <3>1, RowsStay
  <2> QED BY <2>1, <2>2
<1>4. ASSUME NEW s \in Slots, Finish(s)
      PROVE  RowsAreWorked' /\ JobsInSlots!Next
  <2>1. worker[s].step \in AtWork /\ worker[s].job \in Jobs
    BY <1>4, FinishMoves
  <2>2. status[worker[s].job] = "Running"
    BY <2>1 DEF RowsAreWorked
  <2>3. PICK c \in Jobs : c = worker[s].job
    BY <2>1
  <2>4. JobsInSlots!Becomes(c, "Running", "Ended") \/ JobsInSlots!Becomes(c, "Running", "Pending")
    BY <1>4, <2>2, <2>3, FinishMoves DEF JobsInSlots!Becomes
  <2> QED BY <1>4, <2>4, FinishKeepsRows DEF JobsInSlots!Next
<1>5. ASSUME NEW s \in Slots, StartWaiting(s)
      PROVE  RowsAreWorked' /\ UNCHANGED status
  <2>1. /\ \A t \in Slots : worker'[t].step \in AtWork <=> worker[t].step \in AtWork
        /\ \A t \in Slots : worker'[t].job = worker[t].job
        /\ UNCHANGED status
    BY <1>5, StartWaitingMoves DEF AtWork
  <2> QED BY <2>1, RowsStay
<1>6. ASSUME NEW s \in Slots, ReleaseClass(s) \/ ReleaseKey(s) \/ ReleasePermit(s)
      PROVE  RowsAreWorked' /\ UNCHANGED status
  <2>1. worker \in [Slots -> WorkerType]
    BY TypeParts DEF IInv
  <2>2. /\ worker[s].step \notin AtWork /\ worker'[s].step \notin AtWork
        /\ \A t \in Slots \ {s} : worker'[t] = worker[t]
        /\ UNCHANGED status
    BY <1>6, <2>1 DEF ReleaseClass, ReleaseKey, ReleasePermit, Advance, NoWorker, WorkerType, AtWork
  <2>3. \A t \in Slots : worker'[t].step \in AtWork =>
            worker[t].step \in AtWork /\ worker'[t].job = worker[t].job
    BY <2>2
  <2> QED BY <2>2, <2>3, RowsStay
<1> QED BY <1>1, <1>2, <1>3, <1>4, <1>5, <1>6 DEF Next, Loop, Work, Finish

(* Whatever claim_next_unblocked_job holds and gives back, and in whatever *)
(* order its workers end, what runs together fits: no more jobs than       *)
(* permits, no more of a class than its cap, none twice and none besides   *)
(* one with its key.                                                       *)
THEOREM SlotsAreKept == Spec => SlotsKept
<1>1. Init => RowsAreWorked /\ JobsInSlots!Init
  BY DEF Init, RowsAreWorked, NoWorker, JobsInSlots!Init, AtWork
<1>2. ASSUME RowsAreWorked, IInv, [Next]_vars
      PROVE  RowsAreWorked' /\ [JobsInSlots!Next]_status
  <2>1. CASE UNCHANGED vars
    BY <1>2, <2>1, RowsStay DEF vars
  <2> QED BY <1>2, <2>1, SlotsStep
<1> QED
  BY <1>1, <1>2, InvariantHolds, PTL DEF Spec, SlotsKept, JobsInSlots!Spec
=============================================================================
