------------------------------- MODULE JobPool ------------------------------
(***************************************************************************)
(* How the runner of grimoire's jobs picks what to run next:               *)
(* run_job_processor_loop and claim_next_unblocked_job of                  *)
(* src/grimoire/src/jobs/runner.rs.  The loop takes a permit, peeks a      *)
(* batch of pending rows, and claims the first whose class is below its    *)
(* cap and whose conflict key nobody holds; the worker it spawns gives     *)
(* class, key and permit back, one after the other.  Every await of the    *)
(* loop and of the workers is a point where the others run.  A worker of a *)
(* FetchMedia keeps all three while it waits for the other jobs of its     *)
(* session (music/fetch_processor.rs).                                     *)
(*                                                                         *)
(* The rows themselves, cancellation and recovery are in JobQueue.         *)
(***************************************************************************)
EXTENDS Integers, FiniteSets, Sequences

CONSTANTS Jobs,        \* 1..n: in the order of the peek, which is by priority and age
          ClassOf,     \* the JobClass of each job
          KeyOf,       \* its conflict_key_for
          NoKey,
          Fetchers,    \* the jobs of type FetchMedia
          SessionOf,   \* the session of each job
          NoSession,
          PoolSize,    \* max_workers
          Left,        \* the rows that are pending when the runner starts
          MaxRetries,  \* bound: times that jobs go back to pending
          MaxErrors    \* bound: peeks, claims and counts that the database refuses

Classes == {"EnrichmentMb", "EnrichmentLastFm", "EnrichmentAudiodb", "Heavy", "Other"}

ASSUME PoolAssumption ==
    /\ Jobs \subseteq Nat
    /\ IsFiniteSet(Jobs)
    /\ ClassOf \in [Jobs -> Classes]
    /\ DOMAIN KeyOf = Jobs
    /\ Fetchers \subseteq {j \in Jobs : ClassOf[j] = "Heavy" /\ KeyOf[j] = NoKey}
    /\ DOMAIN SessionOf = Jobs
    /\ PoolSize \in Nat \ {0}
    /\ Left \subseteq Jobs
    /\ MaxRetries \in Nat
    /\ MaxErrors \in Nat

VARIABLES status,      \* of the rows: "Absent", "Pending", "Running", "Ended"
          loop,        \* what the loop is doing
          batch,       \* the candidates it has still to look at
          worker,      \* the job and the step of the worker of each permit
          classCounts, \* class_counts
          busyKeys,    \* busy_keys
          retried, errors

vars == <<status, loop, batch, worker, classCounts, busyKeys, retried, errors>>

Slots == 1..PoolSize
NoWorker == [job |-> 0, step |-> "free"]
Keys == {KeyOf[j] : j \in Jobs} \ {NoKey}

(* Steps of a worker: its job's processor runs; it waits for the rest of   *)
(* the session; the row is written; the class is given back; the key is    *)
(* given back.                                                             *)
WorkerSteps == {"free", "running", "waiting", "written", "declassed", "unkeyed"}

(* The loop: without a permit; with one; looking at the head of the batch  *)
(* with nothing, with its class, with its class and key.                   *)
LoopStates == {"idle", "permitted", "looking", "classed", "keyed"}

AtWork     == {"running", "waiting"}
HoldsClass == AtWork \cup {"written"}
HoldsKey   == AtWork \cup {"written", "declassed"}

HeavyCap == IF PoolSize - 1 > 1 THEN PoolSize - 1 ELSE 1
Cap(class) ==
    CASE class = "EnrichmentMb"      -> 2
      [] class = "EnrichmentLastFm"  -> 3
      [] class = "EnrichmentAudiodb" -> 2
      [] class = "Heavy"             -> HeavyCap
Capped(class) == class # "Other"

PeekLimit == IF PoolSize + 4 > 8 THEN PoolSize + 4 ELSE 8

Pending == {j \in Jobs : status[j] = "Pending"}
Workers(steps) == {s \in Slots : worker[s].step \in steps}
Candidate == batch[1]

TypeOK ==
    /\ status \in [Jobs -> {"Absent", "Pending", "Running", "Ended"}]
    /\ loop \in LoopStates
    /\ batch \in Seq(Jobs)
    /\ worker \in [Slots -> [job : Jobs \cup {0}, step : WorkerSteps]]
    /\ classCounts \in [Classes -> Nat]
    /\ busyKeys \subseteq Keys
    /\ retried \in 0..MaxRetries
    /\ errors \in 0..MaxErrors

Init ==
    /\ status = [j \in Jobs |-> IF j \in Left THEN "Pending" ELSE "Absent"]
    /\ loop = "idle"
    /\ batch = <<>>
    /\ worker = [s \in Slots |-> NoWorker]
    /\ classCounts = [c \in Classes |-> 0]
    /\ busyKeys = {}
    /\ retried = 0
    /\ errors = 0

-----------------------------------------------------------------------------
(* Callers.                                                                *)

Enqueue(j) ==
    /\ status[j] = "Absent"
    /\ status' = [status EXCEPT ![j] = "Pending"]
    /\ UNCHANGED <<loop, batch, worker, classCounts, busyKeys, retried, errors>>

(* A pending row is cancelled: a candidate may be gone when it is claimed. *)
Withdraw(j) ==
    /\ status[j] = "Pending"
    /\ status' = [status EXCEPT ![j] = "Ended"]
    /\ UNCHANGED <<loop, batch, worker, classCounts, busyKeys, retried, errors>>

-----------------------------------------------------------------------------
(* The loop.  Its permit is counted: a slot stays free for its next worker.*)

TakePermit ==
    /\ loop = "idle"
    /\ Workers({"free"}) # {}
    /\ loop' = "permitted"
    /\ UNCHANGED <<status, batch, worker, classCounts, busyKeys, retried, errors>>

(* The first PeekLimit pending rows, in their order.                       *)
FirstPending ==
    LET InOrder == [n \in 1..Cardinality(Pending) |->
                       CHOOSE j \in Pending : Cardinality({i \in Pending : i <= j}) = n]
    IN  SubSeq(InOrder, 1, IF Len(InOrder) < PeekLimit THEN Len(InOrder) ELSE PeekLimit)

Peek ==
    /\ loop = "permitted"
    /\ batch' = FirstPending
    /\ loop' = "looking"
    /\ UNCHANGED <<status, worker, classCounts, busyKeys, retried, errors>>

(* Nothing claimable: the permit is dropped, and the loop sleeps.          *)
GiveUp ==
    /\ loop = "looking"
    /\ batch = <<>>
    /\ loop' = "idle"
    /\ UNCHANGED <<status, batch, worker, classCounts, busyKeys, retried, errors>>

(* A slip: the class is full, and one more is let in.                     *)
HasRoomForOneMore(class) == ~Capped(class) \/ classCounts[class] <= Cap(class)

HasRoom(class) == ~Capped(class) \/ classCounts[class] < Cap(class)

TakeClass(class) ==
    classCounts' = IF Capped(class) THEN [classCounts EXCEPT ![class] = @ + 1] ELSE classCounts
(* A slip: a job without a cap gives back what it never took.              *)
DropClassOfAny(class) == classCounts' = [classCounts EXCEPT ![class] = @ - 1]

DropClass(class) ==
    classCounts' = IF Capped(class) THEN [classCounts EXCEPT ![class] = @ - 1] ELSE classCounts
DropKey(key) == busyKeys' = busyKeys \ {key}

SkipCandidate ==
    /\ loop' = "looking"
    /\ batch' = Tail(batch)

(* The head of the batch: its class, in the lock on the counts ...         *)
ReserveClass ==
    /\ loop = "looking"
    /\ batch # <<>>
    /\ IF HasRoom(ClassOf[Candidate])
       THEN TakeClass(ClassOf[Candidate]) /\ loop' = "classed" /\ UNCHANGED batch
       ELSE SkipCandidate /\ UNCHANGED classCounts
    /\ UNCHANGED <<status, worker, busyKeys, retried, errors>>

(* A slip: the class is kept when the key is busy.                         *)
ReserveKeyKeepingClass ==
    LET key == KeyOf[Candidate] IN
    /\ loop = "classed"
    /\ IF key \in busyKeys
       THEN SkipCandidate /\ UNCHANGED <<busyKeys, classCounts>>
       ELSE /\ busyKeys' = busyKeys \cup ({key} \ {NoKey})
            /\ loop' = "keyed"
            /\ UNCHANGED <<batch, classCounts>>
    /\ UNCHANGED <<status, worker, retried, errors>>

(* ... then its key, in the lock on the keys ...                           *)
ReserveKey ==
    LET key == KeyOf[Candidate] IN
    /\ loop = "classed"
    /\ IF key \in busyKeys
       THEN DropClass(ClassOf[Candidate]) /\ SkipCandidate /\ UNCHANGED busyKeys
       ELSE /\ busyKeys' = busyKeys \cup ({key} \ {NoKey})
            /\ loop' = "keyed"
            /\ UNCHANGED <<batch, classCounts>>
    /\ UNCHANGED <<status, worker, retried, errors>>

(* ... then the row: it is claimed and its worker spawned, or it is no     *)
(* longer pending and the next candidate is looked at.                     *)
ClaimRow(s) ==
    /\ loop = "keyed"
    /\ worker[s] = NoWorker
    /\ IF status[Candidate] = "Pending"
       THEN /\ status' = [status EXCEPT ![Candidate] = "Running"]
            /\ worker' = [worker EXCEPT ![s] = [job |-> Candidate, step |-> "running"]]
            /\ loop' = "idle"
            /\ batch' = <<>>
            /\ UNCHANGED <<classCounts, busyKeys>>
       ELSE /\ SkipCandidate
            /\ DropKey(KeyOf[Candidate])
            /\ DropClass(ClassOf[Candidate])
            /\ UNCHANGED <<status, worker>>
    /\ UNCHANGED <<retried, errors>>

(* The database refuses the peek or the claim: the permit, and whatever was *)
(* reserved, is given back, and the loop sleeps for ten seconds.           *)
PeekFails ==
    /\ errors < MaxErrors
    /\ loop = "permitted"
    /\ loop' = "idle"
    /\ errors' = errors + 1
    /\ UNCHANGED <<status, batch, worker, classCounts, busyKeys, retried>>

ClaimFails ==
    /\ errors < MaxErrors
    /\ loop = "keyed"
    /\ DropKey(KeyOf[Candidate])
    /\ DropClass(ClassOf[Candidate])
    /\ loop' = "idle"
    /\ batch' = <<>>
    /\ errors' = errors + 1
    /\ UNCHANGED <<status, worker, retried>>

-----------------------------------------------------------------------------
(* The workers.                                                            *)

Advance(s, from, to) ==
    /\ worker[s].step = from
    /\ worker' = [worker EXCEPT ![s].step = to]

EndRow(s) == status' = [status EXCEPT ![worker[s].job] = "Ended"]

(* process_job_safely: the row ends, or a retry makes it pending while its *)
(* worker still holds all it has.                                          *)
Process(s) ==
    /\ Advance(s, "running", "written")
    /\ \/ EndRow(s) /\ UNCHANGED retried
       \/ /\ retried < MaxRetries
          /\ status' = [status EXCEPT ![worker[s].job] = "Pending"]
          /\ retried' = retried + 1
    /\ UNCHANGED <<loop, batch, classCounts, busyKeys, errors>>

(* The last step of a FetchMedia of a session: it looks at the rows of the *)
(* session every 1.5 seconds, for as long as any but its own is pending or *)
(* running.  There is no timeout, and nothing looks for a cancellation.    *)
StartWaiting(s) ==
    /\ worker[s].job \in Fetchers
    /\ SessionOf[worker[s].job] # NoSession
    /\ Advance(s, "running", "waiting")
    /\ UNCHANGED <<status, loop, batch, classCounts, busyKeys, retried, errors>>

RowsBeside(j, as) == {i \in Jobs : SessionOf[i] = SessionOf[j] /\ status[i] = as}

(* The one running row that is left is taken to be its own.                *)
OthersAreDone(j) ==
    /\ RowsBeside(j, "Pending") = {}
    /\ Cardinality(RowsBeside(j, "Running")) <= 1

StopWaiting(s) ==
    /\ Advance(s, "waiting", "written")
    /\ OthersAreDone(worker[s].job)
    /\ EndRow(s)
    /\ UNCHANGED <<loop, batch, classCounts, busyKeys, retried, errors>>

(* The database refuses the count: the wait is over.                       *)
CountFails(s) ==
    /\ errors < MaxErrors
    /\ Advance(s, "waiting", "written")
    /\ EndRow(s)
    /\ errors' = errors + 1
    /\ UNCHANGED <<loop, batch, classCounts, busyKeys, retried>>

ReleaseClass(s) ==
    /\ Advance(s, "written", "declassed")
    /\ DropClass(ClassOf[worker[s].job])
    /\ UNCHANGED <<status, loop, batch, busyKeys, retried, errors>>

(* A slip: the key is forgotten.                                           *)
ReleaseKeyNever(s) ==
    /\ Advance(s, "declassed", "unkeyed")
    /\ UNCHANGED <<status, loop, batch, busyKeys, classCounts, retried, errors>>

ReleaseKey(s) ==
    /\ Advance(s, "declassed", "unkeyed")
    /\ DropKey(KeyOf[worker[s].job])
    /\ UNCHANGED <<status, loop, batch, classCounts, retried, errors>>

ReleasePermit(s) ==
    /\ worker[s].step = "unkeyed"
    /\ worker' = [worker EXCEPT ![s] = NoWorker]
    /\ UNCHANGED <<status, loop, batch, classCounts, busyKeys, retried, errors>>

Work(s) ==
    \/ Process(s) \/ StartWaiting(s) \/ StopWaiting(s)
    \/ ReleaseClass(s) \/ ReleaseKey(s) \/ ReleasePermit(s)

Loop == \/ TakePermit \/ Peek \/ GiveUp \/ ReserveClass \/ ReserveKey
        \/ \E s \in Slots : ClaimRow(s)

Next ==
    \/ \E j \in Jobs : Enqueue(j) \/ Withdraw(j)
    \/ Loop
    \/ PeekFails
    \/ ClaimFails
    \/ \E s \in Slots : Work(s) \/ CountFails(s)

Spec == Init /\ [][Next]_vars

(* The loop is a task that is never stopped here, its sleeps end, and so   *)
(* does whatever a processor does, except for the wait of a FetchMedia: it *)
(* looks again and again, and goes on when the rows it sees let it.        *)
FairSpec == Spec /\ WF_vars(Loop) /\ \A s \in Slots : WF_vars(Work(s))

-----------------------------------------------------------------------------
(* Properties.                                                             *)

Reserved(class) == IF loop \in {"classed", "keyed"} /\ ClassOf[Candidate] = class THEN 1 ELSE 0
ClassHolders(class) == {s \in Workers(HoldsClass) : ClassOf[worker[s].job] = class}

(* A class counter is what its workers and the candidate in hand hold: no  *)
(* way out of the claim or of a worker leaks a slot of the class, or gives *)
(* one back twice, and none takes more than the cap.                       *)
CountsAreHeld ==
    \A c \in Classes \ {"Other"} :
        /\ classCounts[c] = Cardinality(ClassHolders(c)) + Reserved(c)
        /\ classCounts[c] <= Cap(c)

(* A key is busy for exactly as long as somebody holds it, and two workers *)
(* never hold the same one: jobs that would clobber each other do not run  *)
(* together, even when one is pending again before its worker is gone.     *)
KeysAreHeld ==
    /\ busyKeys = ({KeyOf[worker[s].job] : s \in Workers(HoldsKey)}
                    \cup (IF loop = "keyed" THEN {KeyOf[Candidate]} ELSE {})) \ {NoKey}
    /\ \A s, t \in Workers(HoldsKey) :
           /\ s # t
           /\ KeyOf[worker[s].job] # NoKey
           => KeyOf[worker[s].job] # KeyOf[worker[t].job]

(* What the two registries of the runner say is what is held.              *)
ReservationsAreHeld == CountsAreHeld /\ KeysAreHeld

(* Whatever the loop and the workers hold when, what runs together fits:   *)
(* JobSlots.                                                               *)
CapOf == [class \in Classes \ {"Other"} |-> Cap(class)]

JobsInSlots == INSTANCE JobSlots

SlotsKept == JobsInSlots!Spec

(* Every place that a job of this class could have is held by a FetchMedia *)
(* that waits.                                                             *)
NoPlaceFor(j) ==
    Cardinality(Workers({"waiting"})) = IF ClassOf[j] = "Heavy" THEN HeavyCap ELSE PoolSize

Rival(s, t) ==
    /\ s # t /\ worker[s].step = "waiting" /\ worker[t].step = "waiting"
    /\ SessionOf[worker[s].job] = SessionOf[worker[t].job]

(* A pending job is not passed over for ever, whatever is ahead of it and  *)
(* whoever holds its key, and a FetchMedia does not wait for ever; but for *)
(* the two ways in which the wait is a deadlock: the FetchMedia hold every *)
(* place that what they wait for could run in, or two of one session wait  *)
(* for each other.                                                         *)
PendingJobsRun ==
    /\ \A j \in Jobs : <>[](status[j] = "Pending") => <>[]NoPlaceFor(j)
    /\ \A s \in Slots :
          <>[](worker[s].step = "waiting") =>
              \/ <>[](\E t \in Slots : Rival(s, t))
              \/ <>[](\E j \in Pending : NoPlaceFor(j))

-----------------------------------------------------------------------------
(* What a comment of the file says and the code does not do.               *)

Quick(j) == ClassOf[j] = "Other" /\ KeyOf[j] = NoKey
Claimable(j) == HasRoom(ClassOf[j]) /\ KeyOf[j] \notin busyKeys

(* The comment on JobClass::Heavy: it is capped "so at least one           *)
(* worker slot always stays reachable for quick `Other` jobs even under    *)
(* heavy load".  A peek made with a free slot and a quick job pending      *)
(* finds something to claim.                                               *)
QuickJobsAreReachable ==
    [][Peek /\ (\E j \in Pending : Quick(j)) =>
           \E n \in 1..Len(batch') : Claimable(batch'[n])]_vars
=============================================================================
