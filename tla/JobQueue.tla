------------------------------ MODULE JobQueue ------------------------------
(***************************************************************************)
(* The background jobs of grimoire: the rows of `jobz` and `job_sessionz`, *)
(* the runner that owns the database's lock, and its pool of workers, as   *)
(* written in src/grimoire/src/jobs/{service,lifecycle,runner,dashboard}.rs*)
(* and, for the wait at the end of a FetchMedia, music/fetch_processor.rs. *)
(* Every action is one SQL statement (or one transaction) with the code    *)
(* that runs up to the next one; between two of them any other caller may  *)
(* run, and the runner may be stopped or killed.                           *)
(*                                                                         *)
(* Which of the pending jobs the pool may claim (priorities, conflict keys,*)
(* caps per class) is the subject of JobPool; here any pending row can be. *)
(***************************************************************************)
EXTENDS Integers, FiniteSets

CONSTANTS Jobs,         \* the job ids that may ever be created
          NoJob,
          Sessions,
          NoSession,
          Replayable,   \* the jobs of type ProcessDirectory or ProcessFile
          Fetchers,     \* the jobs of type FetchMedia
          MaxRetries,   \* max_retries of a row
          Runners,      \* processes that run the job processor
          Slots,        \* the worker slots of one runner
          MaxStops,     \* bound: crashes and shutdowns of a runner
          MaxReplays,   \* bound: retries asked for on the dashboard
          MaxDbErrors   \* bound: statements of a worker the database refuses

ASSUME JobsAssumption ==
    /\ NoJob \notin Jobs
    /\ NoSession \notin Sessions
    /\ Replayable \subseteq Jobs
    /\ Fetchers \subseteq Jobs \ Replayable
    /\ {MaxRetries, MaxStops, MaxReplays, MaxDbErrors} \subseteq Nat

VARIABLES status,     \* jobz.status, "Absent" before the row and "Deleted" after it
          sessionOf,  \* jobz.session_id
          ancestors,  \* the jobs whose processors led to this job (not stored)
          retries,    \* jobz.retry_count
          session,    \* job_sessionz.status
          runner,     \* what each process that runs the job processor is doing
          worker,     \* the worker in each slot of each runner
          unsettled,  \* sessions of cancel_job calls that have yet to be settled
          stops, replays, dbErrors

rows == <<status, sessionOf, ancestors, retries>>
bounds == <<stops, replays, dbErrors>>
vars == <<status, sessionOf, ancestors, retries, session, runner, worker,
          unsettled, stops, replays, dbErrors>>

Workers == Runners \X Slots
RowStatus == {"Absent", "Pending", "Running", "Completed", "Failed", "Cancelled", "Deleted"}
SessionStatus == {"Active", "Completed", "Failed", "Cancelled"}
RunnerPhase == {"waiting", "recovering", "running", "draining", "stopping"}
OwningStep == {"claimed", "processing", "waiting", "completing", "failing", "writing",
               "cancelling"}
WorkerStep == OwningStep \cup {"settling", "settlingCompleted", "deleting", "idle"}

(* A worker, the job it was spawned for, and the locals of mark_job_failed:*)
(* whether to try again, and the count it read plus one.                   *)
WorkerAt(j, step, again, count) ==
    [job |-> j, step |-> step, again |-> again, count |-> count]
NoWorker == WorkerAt(NoJob, "idle", FALSE, 0)

Live(j) == status[j] \in {"Pending", "Running"}
SessionCancelled(j) == sessionOf[j] \in Sessions /\ session[sessionOf[j]] = "Cancelled"
HasLive(s) == \E j \in Jobs : sessionOf[j] = s /\ Live(j)
HasFailed(s) == \E j \in Jobs : sessionOf[j] = s /\ status[j] = "Failed"

TypeOK ==
    /\ status \in [Jobs -> RowStatus]
    /\ sessionOf \in [Jobs -> Sessions \cup {NoSession}]
    /\ ancestors \in [Jobs -> SUBSET Jobs]
    /\ retries \in [Jobs -> Nat]
    /\ session \in [Sessions -> SessionStatus]
    /\ runner \in [Runners -> RunnerPhase]
    /\ worker \in [Workers -> [job : Jobs \cup {NoJob}, step : WorkerStep,
                               again : BOOLEAN, count : Nat]]
    /\ unsettled \subseteq Sessions
    /\ stops \in Nat /\ replays \in Nat /\ dbErrors \in Nat

(* No rows; each session has just been made by create_job_session.         *)
Init ==
    /\ status = [j \in Jobs |-> "Absent"]
    /\ sessionOf = [j \in Jobs |-> NoSession]
    /\ ancestors = [j \in Jobs |-> {}]
    /\ retries = [j \in Jobs |-> 0]
    /\ session = [s \in Sessions |-> "Active"]
    /\ runner = [r \in Runners |-> "waiting"]
    /\ worker = [w \in Workers |-> NoWorker]
    /\ unsettled = {}
    /\ stops = 0 /\ replays = 0 /\ dbErrors = 0

-----------------------------------------------------------------------------
(* The statements on sessions.                                             *)

(* Slip: sessions settle without a look at the work that is left.          *)
SettledStatusFromFailures(s) == IF HasFailed(s) THEN "Failed" ELSE "Completed"

(* What settle_session makes of a session from the rows as they are now.   *)
SettledStatus(s) ==
    CASE HasLive(s) -> "Active"
      [] ~HasLive(s) /\ HasFailed(s) -> "Failed"
      [] OTHER -> "Completed"

Settle(s) ==
    session' = IF \/ s = NoSession
                  \/ session[s] = "Cancelled"
                  \/ session[s] # "Active" /\ ~HasLive(s)
               THEN session
               ELSE [session EXCEPT ![s] = SettledStatus(s)]

(* close_idle_sessions, from the dashboard.                                *)
CloseIdle(s) ==
    /\ session[s] \in {"Active", "Failed"}
    /\ ~HasLive(s)
    /\ session' = [session EXCEPT ![s] = "Completed"]
    /\ UNCHANGED <<rows, runner, worker, unsettled, bounds>>

(* fail_session: its one caller has made the session and then failed to    *)
(* enqueue its first job.                                                  *)
FailSession(s) ==
    /\ \A j \in Jobs : sessionOf[j] # s
    /\ session[s] # "Cancelled"
    /\ session' = [session EXCEPT ![s] = "Failed"]
    /\ UNCHANGED <<rows, runner, worker, unsettled, bounds>>

(* cancel_session: pending rows are cancelled with the session, running    *)
(* rows are left to their workers.                                         *)
CancelSession(s) ==
    /\ session' = [session EXCEPT ![s] = "Cancelled"]
    /\ status' = [j \in Jobs |-> IF sessionOf[j] = s /\ status[j] = "Pending"
                                 THEN "Cancelled" ELSE status[j]]
    /\ UNCHANGED <<sessionOf, ancestors, retries, runner, worker, unsettled, bounds>>

(* cancel_bulk_enrichment: rows only, running ones too; the session is     *)
(* neither cancelled nor settled.                                          *)
CancelBulk(s) ==
    /\ HasLive(s)
    /\ status' = [j \in Jobs |-> IF sessionOf[j] = s /\ Live(j)
                                 THEN "Cancelled" ELSE status[j]]
    /\ UNCHANGED <<sessionOf, ancestors, retries, session, runner, worker, unsettled, bounds>>

-----------------------------------------------------------------------------
(* The statements on rows.                                                 *)

(* create_job_with_pool: the insert that refuses a cancelled session, then *)
(* the update that opens the session again, in one transaction. `lineage`  *)
(* is empty for a job that no processor asked for.                         *)
Insert(j, s, lineage) ==
    /\ status[j] = "Absent"
    /\ s \in Sessions => session[s] # "Cancelled"
    /\ status' = [status EXCEPT ![j] = "Pending"]
    /\ sessionOf' = [sessionOf EXCEPT ![j] = s]
    /\ ancestors' = [ancestors EXCEPT ![j] = lineage]
    /\ session' = IF s \in Sessions THEN [session EXCEPT ![s] = "Active"] ELSE session
    /\ UNCHANGED <<retries, runner, worker, unsettled, bounds>>

CreateJob(j, s) == Insert(j, s, {})

(* cancel_job from a caller outside the runner, who settles the session    *)
(* with a second statement.                                                *)
CancelRow(j) ==
    /\ status[j] \in {"Pending", "Running", "Cancelled"}
    /\ status' = [status EXCEPT ![j] = "Cancelled"]

(* Slip: the settle is owed to a job without a session too.                *)
CancelJobSettlingNone(j) ==
    /\ CancelRow(j)
    /\ unsettled' = unsettled \cup {sessionOf[j]}
    /\ UNCHANGED <<sessionOf, ancestors, retries, session, runner, worker, bounds>>

CancelJob(j) ==
    /\ CancelRow(j)
    /\ unsettled' = unsettled \cup ({sessionOf[j]} \cap Sessions)
    /\ UNCHANGED <<sessionOf, ancestors, retries, session, runner, worker, bounds>>

SettleCancelled(s) ==
    /\ s \in unsettled
    /\ Settle(s)
    /\ unsettled' = unsettled \ {s}
    /\ UNCHANGED <<rows, runner, worker, bounds>>

(* dashboard::retry, in one transaction.                                   *)
Retry(j) ==
    /\ replays < MaxReplays
    /\ status[j] = "Failed"
    /\ ~SessionCancelled(j)
    /\ status' = [status EXCEPT ![j] = "Pending"]
    /\ retries' = [retries EXCEPT ![j] = 0]
    /\ session' = IF sessionOf[j] \in Sessions
                  THEN [session EXCEPT ![sessionOf[j]] = "Active"] ELSE session
    /\ replays' = replays + 1
    /\ UNCHANGED <<sessionOf, ancestors, runner, worker, unsettled, stops, dbErrors>>

-----------------------------------------------------------------------------
(* The runner.  Its process is waiting for the lock, or holds it.          *)

Owns(r) == runner[r] # "waiting"
Enter(r, phase) == runner' = [runner EXCEPT ![r] = phase]
StopWorkers(r) == worker' = [w \in Workers |-> IF w[1] = r THEN NoWorker ELSE worker[w]]

(* Slips: no lock; a loop that starts without the recovery.                *)
AcquireUnlocked(r) ==
    /\ ~Owns(r)
    /\ Enter(r, "recovering")
    /\ UNCHANGED <<rows, session, worker, unsettled, bounds>>

AcquireWithoutRecovery(r) ==
    /\ \A other \in Runners : ~Owns(other)
    /\ Enter(r, "running")
    /\ UNCHANGED <<rows, session, worker, unsettled, bounds>>

(* acquire_runner: try_runner_lock succeeds only when nobody has the lock. *)
Acquire(r) ==
    /\ \A other \in Runners : ~Owns(other)
    /\ Enter(r, "recovering")
    /\ UNCHANGED <<rows, session, worker, unsettled, bounds>>

(* recover_interrupted: one update of every running row, before the loop   *)
(* and once more after the drain.  It settles no session.                  *)
Recovered(j) ==
    CASE SessionCancelled(j) -> "Cancelled"
      [] ~SessionCancelled(j) /\ j \in Replayable /\ retries[j] + 1 < MaxRetries -> "Pending"
      [] OTHER -> "Failed"

RecoverInterrupted ==
    /\ status' = [j \in Jobs |-> IF status[j] = "Running" THEN Recovered(j) ELSE status[j]]
    /\ retries' = [j \in Jobs |-> IF status[j] = "Running" THEN retries[j] + 1 ELSE retries[j]]
    /\ UNCHANGED <<sessionOf, ancestors, session, worker, unsettled, bounds>>

Recover(r) ==
    \/ runner[r] = "recovering" /\ Enter(r, "running") /\ RecoverInterrupted
    \/ runner[r] = "stopping" /\ Enter(r, "waiting") /\ RecoverInterrupted

Shutdown(r) ==
    /\ stops < MaxStops
    /\ runner[r] = "running"
    /\ Enter(r, "draining")
    /\ stops' = stops + 1
    /\ UNCHANGED <<rows, session, worker, unsettled, replays, dbErrors>>

(* The workers have all ended, or the ten seconds have and abort_all drops *)
(* the ones that are left, wherever they are.                              *)
DrainEnds(r) ==
    /\ runner[r] = "draining"
    /\ Enter(r, "stopping")
    /\ StopWorkers(r)
    /\ UNCHANGED <<rows, session, unsettled, bounds>>

(* The process dies; the system releases its lock.  A cancel_job in the    *)
(* same process dies between its two statements.                           *)
Kill(r) ==
    /\ stops < MaxStops
    /\ Owns(r)
    /\ Enter(r, "waiting")
    /\ StopWorkers(r)
    /\ unsettled' \in {unsettled, {}}
    /\ stops' = stops + 1
    /\ UNCHANGED <<rows, session, replays, dbErrors>>

-----------------------------------------------------------------------------
(* The workers: process_job, statement by statement.                       *)

At(w, step) == worker[w].step = step
Goto(w, step) == worker' = [worker EXCEPT ![w].step = step]
End(w) == worker' = [worker EXCEPT ![w] = NoWorker]
JobOf(w) == worker[w].job
Stopped(j) == status[j] = "Cancelled" \/ SessionCancelled(j)

(* try_claim_pending_job, and the worker spawned for the row.              *)
Claim(w, j) ==
    /\ runner[w[1]] = "running"
    /\ worker[w] = NoWorker
    /\ status[j] = "Pending"
    /\ status' = [status EXCEPT ![j] = "Running"]
    /\ worker' = [worker EXCEPT ![w] = WorkerAt(j, "claimed", FALSE, 0)]
    /\ UNCHANGED <<sessionOf, ancestors, retries, session, runner, unsettled, bounds>>

(* ensure_active lets the processor start ...                              *)
Start(w) ==
    /\ At(w, "claimed")
    /\ ~Stopped(JobOf(w))
    /\ Goto(w, "processing")
    /\ UNCHANGED <<rows, session, runner, unsettled, bounds>>

(* ... or ends it, there or where a processor calls it again.              *)
NoticeCancel(w) ==
    /\ worker[w].step \in {"claimed", "processing"}
    /\ Stopped(JobOf(w))
    /\ Goto(w, "cancelling")
    /\ UNCHANGED <<rows, session, runner, unsettled, bounds>>

(* A session whose jobs this job has all enqueued: a rescan makes one.     *)
OwnSession(j, s) == \A i \in Jobs : sessionOf[i] = s => j \in ancestors[i]

(* A processor enqueues a job, in the session of its own job, in one that  *)
(* it has made, or in none.                                                *)
Spawn(w, j, s) ==
    /\ At(w, "processing")
    /\ s \in {sessionOf[JobOf(w)], NoSession} \/ OwnSession(JobOf(w), s)
    /\ ~Stopped(JobOf(w))
    /\ Insert(j, s, ancestors[JobOf(w)] \cup {JobOf(w)})

(* The processor has done its work; that of a FetchMedia of a session has  *)
(* enqueued its files, and waits for them.                                 *)
Succeed(w) ==
    /\ At(w, "processing")
    /\ Goto(w, IF JobOf(w) \in Fetchers /\ sessionOf[JobOf(w)] \in Sessions
               THEN "waiting" ELSE "completing")
    /\ UNCHANGED <<rows, session, runner, unsettled, bounds>>

RowsIn(s, as) == {j \in Jobs : sessionOf[j] = s /\ status[j] = as}

(* Slip: its own row is one of those it waits for.                         *)
StopWaitingForItself(w) ==
    LET s == sessionOf[JobOf(w)] IN
    /\ At(w, "waiting")
    /\ RowsIn(s, "Pending") = {}
    /\ RowsIn(s, "Running") = {}
    /\ Goto(w, "completing")
    /\ UNCHANGED <<rows, session, runner, unsettled, bounds>>

(* It counts the rows of the session every 1.5 seconds, until none is      *)
(* pending and one at most is running, which it takes to be its own.  It   *)
(* does not ask whether it is cancelled, and there is no timeout.          *)
StopWaiting(w) ==
    LET s == sessionOf[JobOf(w)] IN
    /\ At(w, "waiting")
    /\ RowsIn(s, "Pending") = {}
    /\ Cardinality(RowsIn(s, "Running")) <= 1
    /\ Goto(w, "completing")
    /\ UNCHANGED <<rows, session, runner, unsettled, bounds>>

(* The database refuses the count: the wait is over.                       *)
CountFails(w) ==
    /\ dbErrors < MaxDbErrors
    /\ At(w, "waiting")
    /\ Goto(w, "completing")
    /\ dbErrors' = dbErrors + 1
    /\ UNCHANGED <<rows, session, runner, unsettled, stops, replays>>

(* An error or a panic; `again` is error.is_retryable().                   *)
Fail(w, again) ==
    /\ worker[w].step \in {"claimed", "processing"}
    /\ worker' = [worker EXCEPT ![w] = WorkerAt(JobOf(w), "failing", again, 0)]
    /\ UNCHANGED <<rows, session, runner, unsettled, bounds>>

(* The terminal updates spare a cancelled row, and a worker that finds one *)
(* has nothing left to write.                                              *)
FindCancelled(w) ==
    /\ worker[w].step \in {"completing", "writing"}
    /\ status[JobOf(w)] = "Cancelled"
    /\ End(w)
    /\ UNCHANGED <<rows, session, runner, unsettled, bounds>>

(* Slip: the terminal updates do not look at the session.                  *)
OutcomeAlone(j, result) == result

Outcome(j, result) == IF SessionCancelled(j) THEN "Cancelled" ELSE result

(* Slip: the update does not spare a cancelled row.                        *)
MarkCompletedOverwriting(w) ==
    LET j == JobOf(w) IN
    /\ At(w, "completing")
    /\ status' = [status EXCEPT ![j] = Outcome(j, "Completed")]
    /\ Goto(w, "settling")
    /\ UNCHANGED <<sessionOf, ancestors, retries, session, runner, unsettled, bounds>>

MarkCompleted(w) ==
    LET j == JobOf(w) IN
    /\ At(w, "completing")
    /\ status[j] # "Cancelled"
    /\ status' = [status EXCEPT ![j] = Outcome(j, "Completed")]
    /\ Goto(w, IF SessionCancelled(j) THEN "settling" ELSE "settlingCompleted")
    /\ UNCHANGED <<sessionOf, ancestors, retries, session, runner, unsettled, bounds>>

(* mark_job_failed reads the row, decides, and writes what it decided.     *)
ReadFailed(w) ==
    LET count == retries[JobOf(w)] + 1 IN
    /\ At(w, "failing")
    /\ worker' = [worker EXCEPT ![w] =
           WorkerAt(JobOf(w), "writing", worker[w].again /\ count < MaxRetries, count)]
    /\ UNCHANGED <<rows, session, runner, unsettled, bounds>>

WriteFailed(w) ==
    LET j == JobOf(w) IN
    /\ At(w, "writing")
    /\ status[j] # "Cancelled"
    /\ status' = [status EXCEPT ![j] =
           Outcome(j, IF worker[w].again THEN "Pending" ELSE "Failed")]
    /\ retries' = [retries EXCEPT ![j] = worker[w].count]
    /\ worker' = [worker EXCEPT ![w] = WorkerAt(j, "settling", FALSE, 0)]
    /\ UNCHANGED <<sessionOf, ancestors, session, runner, unsettled, bounds>>

(* JobError::Cancelled ends in a cancel_job of the worker's own row.       *)
CancelOwn(w) ==
    /\ At(w, "cancelling")
    /\ CancelRow(JobOf(w))
    /\ Goto(w, "settling")
    /\ UNCHANGED <<sessionOf, ancestors, retries, session, runner, unsettled, bounds>>

SettleOwn(w) ==
    /\ worker[w].step \in {"settling", "settlingCompleted"}
    /\ Settle(sessionOf[JobOf(w)])
    /\ \/ End(w)
       \/ At(w, "settlingCompleted") /\ JobOf(w) \in Replayable /\ Goto(w, "deleting")
    /\ UNCHANGED <<rows, runner, unsettled, bounds>>

DeleteOwn(w) ==
    /\ At(w, "deleting")
    /\ status' = [status EXCEPT ![JobOf(w)] = "Deleted"]
    /\ End(w)
    /\ UNCHANGED <<sessionOf, ancestors, retries, session, runner, unsettled, bounds>>

(* The database refuses a worker's statement: the error is logged and the  *)
(* worker ends.                                                            *)
DbError(w) ==
    /\ dbErrors < MaxDbErrors
    /\ worker[w].step \notin {"idle", "claimed", "processing", "waiting"}
    /\ End(w)
    /\ dbErrors' = dbErrors + 1
    /\ UNCHANGED <<rows, session, runner, unsettled, stops, replays>>

Work(w) ==
    \/ Start(w) \/ NoticeCancel(w) \/ Succeed(w) \/ StopWaiting(w)
    \/ \E again \in BOOLEAN : Fail(w, again)
    \/ FindCancelled(w) \/ MarkCompleted(w) \/ ReadFailed(w) \/ WriteFailed(w)
    \/ CancelOwn(w) \/ SettleOwn(w) \/ DeleteOwn(w)

RunnerStep(r) == Acquire(r) \/ Recover(r) \/ DrainEnds(r)

Caller ==
    \/ \E j \in Jobs, s \in Sessions \cup {NoSession} : CreateJob(j, s)
    \/ \E j \in Jobs : CancelJob(j) \/ Retry(j)
    \/ \E s \in Sessions : \/ SettleCancelled(s) \/ CancelSession(s) \/ CancelBulk(s)
                           \/ CloseIdle(s) \/ FailSession(s)

Next ==
    \/ Caller
    \/ \E r \in Runners : RunnerStep(r) \/ Shutdown(r) \/ Kill(r)
    \/ \E w \in Workers :
          \/ Work(w) \/ CountFails(w) \/ DbError(w)
          \/ \E j \in Jobs : Claim(w, j)
          \/ \E j \in Jobs, s \in Sessions \cup {NoSession} : Spawn(w, j, s)

Spec == Init /\ [][Next]_vars

(* A worker's future is polled until it ends, and whatever a processor does*)
(* ends but for the wait of a FetchMedia, which looks again and again; a   *)
(* process that is to run the jobs tries for the lock every two seconds,   *)
(* and the loop looks for a pending row every two seconds while a slot is  *)
(* free.  Nothing obliges a caller, and a statement of cancel_job is       *)
(* executed unless its process dies.                                       *)
FairSpec ==
    /\ Spec
    /\ \A r \in Runners : WF_vars(RunnerStep(r))
    /\ \A w \in Workers : WF_vars(Work(w))
    /\ WF_vars(\E w \in Workers, j \in Jobs : Claim(w, j))
    /\ \A s \in Sessions : WF_vars(SettleCancelled(s))

-----------------------------------------------------------------------------
(* Properties.                                                             *)

(* No pending row is left in a cancelled session, and none gets in: the    *)
(* session is consulted by the insert, by both terminal updates, by the    *)
(* recovery and by the dashboard's retry, each in the statement that could *)
(* make the row pending.                                                   *)
CancelledSessionsStayQuiet ==
    \A j \in Jobs : status[j] = "Pending" => ~SessionCancelled(j)

(* A session reported as ended has no work left in it, although rows and   *)
(* sessions are updated by separate statements of several workers.         *)
EndedSessionsAreIdle ==
    \A s \in Sessions : session[s] \in {"Completed", "Failed"} => ~HasLive(s)

(* A job has one worker until its outcome is written, across a lost runner *)
(* and a second one, and its row says so: nobody else can claim it or have *)
(* recovery put it back while that worker is at it.                        *)
OneWorkerPerJob ==
    \A v, w \in Workers :
        worker[v].step \in OwningStep =>
            /\ status[JobOf(v)] \in {"Running", "Cancelled"}
            /\ worker[w].step \in OwningStep /\ JobOf(w) = JobOf(v) => w = v

(* While a runner is at work, a row is Running only if a worker is at it,  *)
(* unless the database refused the worker's last statement: what a stopped *)
(* runner left is picked up before the next one claims anything.           *)
RunningIsAttended ==
    \A j \in Jobs :
        /\ status[j] = "Running"
        /\ \E r \in Runners : runner[r] \in {"running", "draining"}
        /\ dbErrors = 0
        => \E w \in Workers : worker[w].step \in OwningStep /\ JobOf(w) = j

(* However failures, interruptions and crashes mix, a row is not tried     *)
(* again once its budget is spent ("within their existing retry budget").  *)
WithinRetryBudget ==
    \A j \in Jobs : Live(j) => retries[j] = 0 \/ retries[j] < MaxRetries

(* A cancelled row and a cancelled session stay so: a late completion or   *)
(* error, a recovery and a retry cannot overwrite a cancellation.          *)
CancelledStays ==
    /\ \A j \in Jobs : status[j] = "Cancelled" => status'[j] = "Cancelled"
    /\ \A s \in Sessions : session[s] = "Cancelled" => session'[s] = "Cancelled"

CancellationIsFinal == [][CancelledStays]_vars

(* Runners, workers and their statements put aside, the tables go from     *)
(* state to state by whole moves that make sense: JobLedger.               *)
Ledger == INSTANCE JobLedger

LedgerKept == Ledger!Spec

(* The ways in which the wait of a FetchMedia is a deadlock: every slot of *)
(* the runner is held by one that waits, or two of one session wait for    *)
(* each other.                                                             *)
SlotsWait == \E r \in Runners : \A p \in Slots : At(<<r, p>>, "waiting")

WaitsIn(w, s) == At(w, "waiting") /\ JobOf(w) \in RowsIn(s, "Running")
RivalsIn(s) == \E v, w \in Workers : v # w /\ WaitsIn(v, s) /\ WaitsIn(w, s)

(* A pending job comes to an end, and so do the running jobs of a cancelled*)
(* session, if the database does not refuse the workers' statements; what  *)
(* stays pending or running for ever does so for one of the two deadlocks. *)
WorkEnds ==
    /\ \A j \in Jobs :
          <>[]Live(j) => \/ <>[](dbErrors > 0)
                        \/ <>[]SlotsWait
                        \/ <>[](sessionOf[j] \in Sessions /\ RivalsIn(sessionOf[j]))
    /\ \A s \in Sessions :
          <>[](session[s] = "Cancelled" /\ HasLive(s)) =>
              <>[](dbErrors > 0) \/ <>[]RivalsIn(s)

(* What the guide to the job system says of a cancelled session: "new child*)
(* jobs (including session-less descendants) are rejected after            *)
(* cancellation".                                                          *)
DescendantsAreRejected ==
    [][\A j \in Jobs : status[j] = "Absent" /\ status'[j] = "Pending" =>
           \A a \in ancestors'[j] : ~SessionCancelled(a)]_vars
=============================================================================
