--------------------------- MODULE JobQueueProofs ---------------------------
(***************************************************************************)
(* Safety of the job queue for any number of jobs, sessions, runners and   *)
(* slots, and any bounds.                                                  *)
(***************************************************************************)
EXTENDS JobQueue, TLAPS

(* The lock has one holder at a time.                                      *)
LockIsExclusive == \A q, r \in Runners : Owns(q) /\ Owns(r) => q = r

(* Workers exist under a runner that claims or drains: by the time one     *)
(* recovers, before its loop or after its drain, nobody is at any row.     *)
WorkersHaveRunner ==
    \A w \in Workers :
        worker[w].step # "idle" =>
            runner[w[1]] \in {"running", "draining"} /\ worker[w].job \in Jobs

(* A worker that goes on to delete its row has completed it.               *)
DeletersCompleted ==
    \A w \in Workers :
        worker[w].step \in {"settlingCompleted", "deleting"} =>
            status[JobOf(w)] \in {"Completed", "Deleted"}

IInv ==
    /\ TypeOK
    /\ LockIsExclusive
    /\ WorkersHaveRunner
    /\ OneWorkerPerJob
    /\ DeletersCompleted
    /\ CancelledSessionsStayQuiet
    /\ EndedSessionsAreIdle

-----------------------------------------------------------------------------
(* Types.                                                                  *)

WorkerType == [job : Jobs \cup {NoJob}, step : WorkerStep, again : BOOLEAN, count : Nat]

RestOfTypeOK ==
    /\ status \in [Jobs -> RowStatus]
    /\ sessionOf \in [Jobs -> Sessions \cup {NoSession}]
    /\ ancestors \in [Jobs -> SUBSET Jobs]
    /\ retries \in [Jobs -> Nat]
    /\ session \in [Sessions -> SessionStatus]
    /\ runner \in [Runners -> RunnerPhase]
    /\ unsettled \subseteq Sessions
    /\ stops \in Nat /\ replays \in Nat /\ dbErrors \in Nat

(* TypeOK is the type of the slots and the types of the rest. *)
LEMMA TypeParts ==
    /\ TypeOK <=> RestOfTypeOK /\ worker \in [Workers -> WorkerType]
    /\ TypeOK' <=> RestOfTypeOK' /\ worker' \in [Workers -> WorkerType]
  BY Zenon DEF TypeOK, RestOfTypeOK, WorkerType

(* Moving a worker to a step keeps its type. *)
LEMMA GotoType ==
    ASSUME TypeOK, NEW w \in Workers, NEW step \in WorkerStep, Goto(w, step)
    PROVE  worker' \in [Workers -> WorkerType]
<1>1. worker \in [Workers -> WorkerType]
  BY Zenon DEF TypeOK, WorkerType
<1>2. worker[w] \in WorkerType
  BY <1>1
<1>3. [worker[w] EXCEPT !.step = step] \in WorkerType
  BY <1>2 DEF WorkerType
<1>. QED
  BY <1>1, <1>3 DEF Goto

(* Putting a worker in a slot keeps the type of the slots. *)
LEMMA PutType ==
    ASSUME TypeOK, NEW w \in Workers, NEW j \in Jobs \cup {NoJob}, NEW step \in WorkerStep,
           NEW again \in BOOLEAN, NEW count \in Nat,
           worker' = [worker EXCEPT ![w] = WorkerAt(j, step, again, count)]
    PROVE  worker' \in [Workers -> WorkerType]
<1>1. worker \in [Workers -> WorkerType]
  BY Zenon DEF TypeOK, WorkerType
<1>2. WorkerAt(j, step, again, count) \in WorkerType
  BY Zenon DEF WorkerAt, WorkerType
<1>. QED
  BY <1>1, <1>2

(* Freeing a slot keeps the type of the slots. *)
LEMMA EndType ==
    ASSUME TypeOK, NEW w \in Workers, End(w)
    PROVE  worker' \in [Workers -> WorkerType]
  BY PutType, "idle" \in WorkerStep DEF End, NoWorker, WorkerStep

-----------------------------------------------------------------------------
(* The ways in which a processor goes on, without a word to the tables.    *)
Finish(w) == Succeed(w) \/ StopWaiting(w) \/ CountFails(w)

LEMMA FinishMoves ==
    ASSUME NEW w \in Workers, Finish(w)
    PROVE  /\ worker[w].step \in {"processing", "waiting"}
           /\ Goto(w, "waiting") \/ Goto(w, "completing")
           /\ UNCHANGED <<status, sessionOf, ancestors, retries, session, runner, unsettled,
                         stops, replays>>
           /\ dbErrors' \in {dbErrors, dbErrors + 1}
  BY DEF Finish, Succeed, StopWaiting, CountFails, At, Goto, rows, bounds

(* Whose turn it is: the disjuncts of Next, one by one.                    *)
LEMMA NextCases ==
    ASSUME Next
    PROVE  \/ \E j \in Jobs, s \in Sessions \cup {NoSession} : CreateJob(j, s)
           \/ \E j \in Jobs : CancelJob(j)
           \/ \E j \in Jobs : Retry(j)
           \/ \E s \in Sessions : SettleCancelled(s)
           \/ \E s \in Sessions : CancelSession(s)
           \/ \E s \in Sessions : CancelBulk(s)
           \/ \E s \in Sessions : CloseIdle(s)
           \/ \E s \in Sessions : FailSession(s)
           \/ \E r \in Runners : Acquire(r)
           \/ \E r \in Runners : Recover(r)
           \/ \E r \in Runners : DrainEnds(r)
           \/ \E r \in Runners : Shutdown(r)
           \/ \E r \in Runners : Kill(r)
           \/ \E w \in Workers : Start(w)
           \/ \E w \in Workers : NoticeCancel(w)
           \/ \E w \in Workers : Finish(w)
           \/ \E w \in Workers, again \in BOOLEAN : Fail(w, again)
           \/ \E w \in Workers : FindCancelled(w)
           \/ \E w \in Workers : MarkCompleted(w)
           \/ \E w \in Workers : ReadFailed(w)
           \/ \E w \in Workers : WriteFailed(w)
           \/ \E w \in Workers : CancelOwn(w)
           \/ \E w \in Workers : SettleOwn(w)
           \/ \E w \in Workers : DeleteOwn(w)
           \/ \E w \in Workers : DbError(w)
           \/ \E w \in Workers, j \in Jobs : Claim(w, j)
           \/ \E w \in Workers, j \in Jobs, s \in Sessions \cup {NoSession} : Spawn(w, j, s)
  BY Zenon DEF Next, Caller, RunnerStep, Work, Finish

(* Every step keeps the types.                                             *)
LEMMA TypeStep ==
    ASSUME IInv, Next
    PROVE  TypeOK'
<1>1. ASSUME NEW j \in Jobs, NEW s \in Sessions \cup {NoSession},
             CreateJob(j, s)
      PROVE  TypeOK'
  BY <1>1 DEF CreateJob, Insert, IInv, TypeOK, bounds, RowStatus,
    SessionStatus
<1>2. ASSUME NEW j \in Jobs, CancelJob(j)
      PROVE  TypeOK'
  BY <1>2 DEF CancelJob, CancelRow, IInv, TypeOK, bounds, RowStatus
<1>3. ASSUME NEW j \in Jobs, Retry(j)
      PROVE  TypeOK'
  BY <1>3 DEF Retry, IInv, TypeOK, RowStatus, SessionStatus
<1>4. ASSUME NEW s \in Sessions, SettleCancelled(s)
      PROVE  TypeOK'
  BY <1>4 DEF SettleCancelled, Settle, SettledStatus, IInv, TypeOK, rows,
    bounds, SessionStatus
<1>5. ASSUME NEW s \in Sessions, CancelSession(s)
      PROVE  TypeOK'
  BY <1>5 DEF CancelSession, IInv, TypeOK, bounds, RowStatus, SessionStatus
<1>6. ASSUME NEW s \in Sessions, CancelBulk(s)
      PROVE  TypeOK'
  BY <1>6 DEF CancelBulk, IInv, TypeOK, bounds, RowStatus
<1>7. ASSUME NEW s \in Sessions, CloseIdle(s)
      PROVE  TypeOK'
  BY <1>7 DEF CloseIdle, IInv, TypeOK, rows, bounds, SessionStatus
<1>8. ASSUME NEW s \in Sessions, FailSession(s)
      PROVE  TypeOK'
  BY <1>8 DEF FailSession, IInv, TypeOK, rows, bounds, SessionStatus
<1>9. ASSUME NEW r \in Runners, Acquire(r)
      PROVE  TypeOK'
  BY <1>9 DEF Acquire, Enter, IInv, TypeOK, rows, bounds, RunnerPhase
<1>10. ASSUME NEW r \in Runners, Recover(r)
      PROVE  TypeOK'
  <2>1. \A j \in Jobs : Recovered(j) \in RowStatus
    BY Zenon DEF Recovered, RowStatus
  <2>2. status' \in [Jobs -> RowStatus] /\ retries' \in [Jobs -> Nat]
    BY <1>10, <2>1 DEF Recover, RecoverInterrupted, IInv, TypeOK
  <2>3. runner' \in [Runners -> RunnerPhase]
    BY <1>10 DEF Recover, Enter, RunnerPhase, IInv, TypeOK
  <2>4. UNCHANGED <<sessionOf, ancestors, session, worker, unsettled, bounds>>
    BY <1>10 DEF Recover, RecoverInterrupted
  <2>. QED
    BY Zenon, <2>2, <2>3, <2>4 DEF IInv, TypeOK, bounds
<1>11. ASSUME NEW r \in Runners, DrainEnds(r)
      PROVE  TypeOK'
  BY <1>11 DEF DrainEnds, Enter, StopWorkers, NoWorker, WorkerAt, IInv,
    TypeOK, rows, bounds, RunnerPhase, WorkerStep
<1>12. ASSUME NEW r \in Runners, Shutdown(r)
      PROVE  TypeOK'
  BY <1>12 DEF Shutdown, Enter, IInv, TypeOK, rows, RunnerPhase
<1>13. ASSUME NEW r \in Runners, Kill(r)
      PROVE  TypeOK'
  BY <1>13 DEF Kill, Enter, StopWorkers, NoWorker, WorkerAt, IInv, TypeOK,
    rows, RunnerPhase, WorkerStep
<1>14. ASSUME NEW w \in Workers, Start(w)
      PROVE  TypeOK'
  <2>1. worker' \in [Workers -> WorkerType]
    BY GotoType, <1>14 DEF IInv, Start, WorkerStep, OwningStep
  <2>2. RestOfTypeOK'
    BY <1>14 DEF IInv, TypeOK, RestOfTypeOK, rows, bounds, Start
  <2>. QED BY <2>1, <2>2, TypeParts
<1>15. ASSUME NEW w \in Workers, NoticeCancel(w)
      PROVE  TypeOK'
  <2>1. worker' \in [Workers -> WorkerType]
    BY GotoType, <1>15 DEF IInv, NoticeCancel, WorkerStep, OwningStep
  <2>2. RestOfTypeOK'
    BY <1>15 DEF IInv, TypeOK, RestOfTypeOK, rows, bounds, NoticeCancel
  <2>. QED BY <2>1, <2>2, TypeParts
<1>16. ASSUME NEW w \in Workers, Finish(w)
      PROVE  TypeOK'
  <2>1. worker' \in [Workers -> WorkerType]
    BY GotoType, <1>16, FinishMoves DEF IInv, WorkerStep, OwningStep
  <2>2. RestOfTypeOK'
    BY <1>16 DEF IInv, TypeOK, RestOfTypeOK, rows, bounds, Finish, Succeed, StopWaiting, CountFails
  <2>. QED BY <2>1, <2>2, TypeParts
<1>17. ASSUME NEW w \in Workers, NEW again \in BOOLEAN, Fail(w, again)
      PROVE  TypeOK'
  <2>1. JobOf(w) \in Jobs /\ "failing" \in WorkerStep
    BY <1>17 DEF IInv, Fail, JobOf, WorkersHaveRunner, WorkerStep, OwningStep
  <2>2. worker' \in [Workers -> WorkerType]
    BY PutType, <1>17, <2>1 DEF IInv, Fail
  <2>3. RestOfTypeOK'
    BY <1>17 DEF Fail, IInv, TypeOK, RestOfTypeOK, rows, bounds
  <2>. QED BY <2>2, <2>3, TypeParts
<1>18. ASSUME NEW w \in Workers, FindCancelled(w)
      PROVE  TypeOK'
  <2>1. worker' \in [Workers -> WorkerType]
    BY EndType, <1>18 DEF IInv, FindCancelled
  <2>2. RestOfTypeOK'
    BY <1>18 DEF IInv, TypeOK, RestOfTypeOK, rows, bounds, FindCancelled
  <2>. QED BY <2>1, <2>2, TypeParts
<1>19. ASSUME NEW w \in Workers, MarkCompleted(w)
      PROVE  TypeOK'
  <2>1. worker' \in [Workers -> WorkerType]
    BY GotoType, <1>19 DEF IInv, MarkCompleted, WorkerStep
  <2>2. RestOfTypeOK'
    BY <1>19 DEF IInv, TypeOK, RestOfTypeOK, bounds, RowStatus, MarkCompleted,
      Outcome
  <2>. QED BY <2>1, <2>2, TypeParts
<1>20. ASSUME NEW w \in Workers, ReadFailed(w)
      PROVE  TypeOK'
  <2>. DEFINE count == retries[JobOf(w)] + 1
              again == worker[w].again /\ count < MaxRetries
  <2>1. /\ worker[w] \in WorkerType
        /\ JobOf(w) \in Jobs
    BY <1>20, TypeParts DEF IInv, ReadFailed, At, JobOf, WorkersHaveRunner
  <2>2. count \in Nat /\ again \in BOOLEAN /\ "writing" \in WorkerStep
    BY <2>1 DEF IInv, TypeOK, WorkerStep, OwningStep
  <2>3. worker' \in [Workers -> WorkerType]
    BY PutType, <1>20, <2>1, <2>2 DEF IInv, ReadFailed
  <2>4. RestOfTypeOK'
    BY <1>20 DEF ReadFailed, IInv, TypeOK, RestOfTypeOK, rows, bounds
  <2>. QED BY <2>3, <2>4, TypeParts
<1>21. ASSUME NEW w \in Workers, WriteFailed(w)
      PROVE  TypeOK'
  <2>1. worker' \in [Workers -> WorkerType]
    <3>1. JobOf(w) \in Jobs \cup {NoJob}
      BY TypeParts DEF IInv, JobOf, WorkerType
    <3>2. worker' = [worker EXCEPT ![w] = WorkerAt(JobOf(w), "settling", FALSE, 0)]
      BY <1>21 DEF WriteFailed
    <3>. QED BY PutType, <3>1, <3>2 DEF IInv, WorkerStep
  <2>2. RestOfTypeOK'
    BY <1>21 DEF IInv, TypeOK, RestOfTypeOK, bounds, RowStatus, WriteFailed,
      Outcome
  <2>. QED BY <2>1, <2>2, TypeParts
<1>22. ASSUME NEW w \in Workers, CancelOwn(w)
      PROVE  TypeOK'
  <2>1. worker' \in [Workers -> WorkerType]
    BY GotoType, <1>22 DEF IInv, CancelOwn, WorkerStep
  <2>2. RestOfTypeOK'
    BY <1>22 DEF IInv, TypeOK, RestOfTypeOK, bounds, RowStatus, CancelOwn,
      CancelRow
  <2>. QED BY <2>1, <2>2, TypeParts
<1>23. ASSUME NEW w \in Workers, SettleOwn(w)
      PROVE  TypeOK'
  <2>1. worker' \in [Workers -> WorkerType]
    <3>1. CASE End(w)
      BY <3>1, EndType DEF IInv
    <3>2. CASE Goto(w, "deleting")
      BY <3>2, GotoType DEF IInv, WorkerStep
    <3>. QED BY <1>23, <3>1, <3>2 DEF SettleOwn
  <2>2. RestOfTypeOK'
    BY <1>23 DEF SettleOwn, Settle, SettledStatus, IInv, TypeOK, RestOfTypeOK,
      rows, bounds, SessionStatus
  <2>. QED BY <2>1, <2>2, TypeParts
<1>24. ASSUME NEW w \in Workers, DeleteOwn(w)
      PROVE  TypeOK'
  <2>1. worker' \in [Workers -> WorkerType]
    BY EndType, <1>24 DEF IInv, DeleteOwn
  <2>2. RestOfTypeOK'
    BY <1>24 DEF IInv, TypeOK, RestOfTypeOK, bounds, RowStatus, DeleteOwn
  <2>. QED BY <2>1, <2>2, TypeParts
<1>25. ASSUME NEW w \in Workers, DbError(w)
      PROVE  TypeOK'
  <2>1. worker' \in [Workers -> WorkerType]
    BY EndType, <1>25 DEF IInv, DbError
  <2>2. RestOfTypeOK'
    BY <1>25 DEF IInv, TypeOK, RestOfTypeOK, rows, DbError
  <2>. QED BY <2>1, <2>2, TypeParts
<1>26. ASSUME NEW w \in Workers, NEW j \in Jobs, Claim(w, j)
      PROVE  TypeOK'
  <2>1. worker' \in [Workers -> WorkerType]
    BY PutType, <1>26 DEF IInv, Claim, WorkerStep, OwningStep
  <2>2. RestOfTypeOK'
    BY <1>26 DEF Claim, IInv, TypeOK, RestOfTypeOK, bounds, RowStatus
  <2>. QED BY <2>1, <2>2, TypeParts
<1>27. ASSUME NEW w \in Workers, NEW j \in Jobs, NEW s \in Sessions \cup {NoSession},
             Spawn(w, j, s)
      PROVE  TypeOK'
  <2>1. JobOf(w) \in Jobs
    BY <1>27 DEF IInv, Spawn, At, JobOf, WorkersHaveRunner
  <2>2. ancestors[JobOf(w)] \cup {JobOf(w)} \in SUBSET Jobs
    BY <2>1 DEF IInv, TypeOK
  <2>. QED
    BY <1>27, <2>2 DEF Spawn, Insert, IInv, TypeOK, bounds, RowStatus,
      SessionStatus
<1>. QED BY Zenon, NextCases, <1>1, <1>2, <1>3, <1>4, <1>5, <1>6, <1>7, <1>8,
  <1>9, <1>10, <1>11, <1>12, <1>13, <1>14, <1>15, <1>16, <1>17, <1>18, <1>19,
  <1>20, <1>21, <1>22, <1>23, <1>24, <1>25, <1>26, <1>27

(* The lock is taken only when nobody has it.                              *)
LEMMA LockStep ==
    ASSUME IInv, Next
    PROVE  LockIsExclusive'
<1>1. ASSUME NEW j \in Jobs, NEW s \in Sessions \cup {NoSession},
             CreateJob(j, s)
      PROVE  LockIsExclusive'
  BY <1>1 DEF CreateJob, Insert, IInv, LockIsExclusive, Owns
<1>2. ASSUME NEW j \in Jobs, CancelJob(j) \/ Retry(j)
      PROVE  LockIsExclusive'
  BY <1>2 DEF CancelJob, Retry, IInv, LockIsExclusive, Owns
<1>3. ASSUME NEW s \in Sessions,
             \/ SettleCancelled(s)
             \/ CancelSession(s)
             \/ CancelBulk(s)
             \/ CloseIdle(s)
             \/ FailSession(s)
      PROVE  LockIsExclusive'
  BY <1>3 DEF SettleCancelled, CancelSession, CancelBulk, CloseIdle,
    FailSession, IInv, LockIsExclusive, Owns
<1>4. ASSUME NEW r \in Runners, Acquire(r)
      PROVE  LockIsExclusive'
  BY <1>4 DEF Acquire, Enter, Owns, IInv, LockIsExclusive
<1>5. ASSUME NEW r \in Runners, Recover(r)
      PROVE  LockIsExclusive'
  BY <1>5 DEF Recover, Enter, IInv, TypeOK, LockIsExclusive, Owns
<1>6. ASSUME NEW r \in Runners, DrainEnds(r)
      PROVE  LockIsExclusive'
  BY <1>6 DEF DrainEnds, Enter, IInv, LockIsExclusive, Owns
<1>7. ASSUME NEW r \in Runners, Shutdown(r)
      PROVE  LockIsExclusive'
  BY <1>7 DEF Shutdown, Enter, IInv, LockIsExclusive, Owns
<1>8. ASSUME NEW r \in Runners, Kill(r)
      PROVE  LockIsExclusive'
  BY <1>8 DEF Kill, Enter, Owns, IInv, LockIsExclusive
<1>9. ASSUME NEW w \in Workers,
             \/ Start(w)
             \/ NoticeCancel(w)
             \/ Finish(w)
             \/ FindCancelled(w)
             \/ MarkCompleted(w)
             \/ ReadFailed(w)
             \/ WriteFailed(w)
             \/ CancelOwn(w)
             \/ SettleOwn(w)
             \/ DeleteOwn(w)
             \/ DbError(w)
      PROVE  LockIsExclusive'
  BY <1>9 DEF Start, NoticeCancel, Finish, Succeed, StopWaiting, CountFails, FindCancelled, MarkCompleted,
    ReadFailed, WriteFailed, CancelOwn, SettleOwn, DeleteOwn, DbError, IInv,
    LockIsExclusive, Owns
<1>10. ASSUME NEW w \in Workers, NEW again \in BOOLEAN, Fail(w, again)
      PROVE  LockIsExclusive'
  BY <1>10 DEF Fail, IInv, LockIsExclusive, Owns
<1>11. ASSUME NEW w \in Workers, NEW j \in Jobs, Claim(w, j)
      PROVE  LockIsExclusive'
  BY <1>11 DEF Claim, IInv, LockIsExclusive, Owns
<1>12. ASSUME NEW w \in Workers, NEW j \in Jobs, NEW s \in Sessions \cup {NoSession},
             Spawn(w, j, s)
      PROVE  LockIsExclusive'
  BY <1>12 DEF Spawn, Insert, IInv, LockIsExclusive, Owns
<1>. QED BY Zenon, NextCases, <1>1, <1>2, <1>3, <1>4, <1>5, <1>6, <1>7, <1>8,
  <1>9, <1>10, <1>11, <1>12

(* Workers are spawned by a running loop and are gone before the phases    *)
(* that recover.                                                           *)
LEMMA WorkersStep ==
    ASSUME IInv, Next
    PROVE  WorkersHaveRunner'
<1>1. ASSUME NEW j \in Jobs, NEW s \in Sessions \cup {NoSession},
             CreateJob(j, s)
      PROVE  WorkersHaveRunner'
  BY <1>1 DEF CreateJob, Insert, IInv, WorkersHaveRunner
<1>2. ASSUME NEW j \in Jobs, CancelJob(j) \/ Retry(j)
      PROVE  WorkersHaveRunner'
  BY <1>2 DEF CancelJob, Retry, IInv, WorkersHaveRunner
<1>3. ASSUME NEW s \in Sessions,
             \/ SettleCancelled(s)
             \/ CancelSession(s)
             \/ CancelBulk(s)
             \/ CloseIdle(s)
             \/ FailSession(s)
      PROVE  WorkersHaveRunner'
  BY <1>3 DEF SettleCancelled, CancelSession, CancelBulk, CloseIdle,
    FailSession, IInv, WorkersHaveRunner
<1>4. ASSUME NEW r \in Runners, Acquire(r)
      PROVE  WorkersHaveRunner'
  BY <1>4 DEF Acquire, Enter, Owns, IInv, WorkersHaveRunner
<1>5. ASSUME NEW r \in Runners, Recover(r)
      PROVE  WorkersHaveRunner'
  BY <1>5 DEF Recover, RecoverInterrupted, IInv, LockIsExclusive,
    WorkersHaveRunner, Owns, Workers
<1>6. ASSUME NEW r \in Runners, DrainEnds(r)
      PROVE  WorkersHaveRunner'
  BY <1>6 DEF DrainEnds, Enter, StopWorkers, NoWorker, WorkerAt, IInv,
    WorkersHaveRunner
<1>7. ASSUME NEW r \in Runners, Shutdown(r)
      PROVE  WorkersHaveRunner'
  BY <1>7 DEF Shutdown, Enter, IInv, WorkersHaveRunner
<1>8. ASSUME NEW r \in Runners, Kill(r)
      PROVE  WorkersHaveRunner'
  BY <1>8 DEF Kill, Enter, StopWorkers, NoWorker, WorkerAt, IInv,
    WorkersHaveRunner
<1>9. ASSUME NEW w \in Workers, Start(w)
      PROVE  WorkersHaveRunner'
  BY <1>9 DEF Start, At, Goto, IInv, WorkersHaveRunner
<1>10. ASSUME NEW w \in Workers, NoticeCancel(w)
      PROVE  WorkersHaveRunner'
  BY <1>10 DEF NoticeCancel, Goto, IInv, WorkersHaveRunner
<1>11. ASSUME NEW w \in Workers, Finish(w)
      PROVE  WorkersHaveRunner'
  <2>1. /\ worker[w].step \in {"processing", "waiting"}
        /\ UNCHANGED <<status, sessionOf, ancestors, retries, session, runner>>
    BY <1>11, FinishMoves
  <2>2. PICK to \in {"waiting", "completing"} : worker' = [worker EXCEPT ![w].step = to]
    BY <1>11, FinishMoves DEF Goto
  <2>. QED BY <2>1, <2>2 DEF IInv, WorkersHaveRunner
<1>12. ASSUME NEW w \in Workers, NEW again \in BOOLEAN, Fail(w, again)
      PROVE  WorkersHaveRunner'
  BY <1>12 DEF Fail, WorkerAt, JobOf, IInv, WorkersHaveRunner
<1>13. ASSUME NEW w \in Workers, FindCancelled(w)
      PROVE  WorkersHaveRunner'
  BY <1>13 DEF FindCancelled, End, NoWorker, WorkerAt, IInv, WorkersHaveRunner
<1>14. ASSUME NEW w \in Workers, MarkCompleted(w)
      PROVE  WorkersHaveRunner'
  BY <1>14 DEF MarkCompleted, At, Goto, IInv, WorkersHaveRunner
<1>15. ASSUME NEW w \in Workers, ReadFailed(w)
      PROVE  WorkersHaveRunner'
  BY <1>15 DEF ReadFailed, At, WorkerAt, JobOf, IInv, WorkersHaveRunner
<1>16. ASSUME NEW w \in Workers, WriteFailed(w)
      PROVE  WorkersHaveRunner'
  BY <1>16 DEF WriteFailed, At, WorkerAt, JobOf, IInv, WorkersHaveRunner
<1>17. ASSUME NEW w \in Workers, CancelOwn(w)
      PROVE  WorkersHaveRunner'
  BY <1>17 DEF CancelOwn, At, Goto, IInv, WorkersHaveRunner
<1>18. ASSUME NEW w \in Workers, SettleOwn(w)
      PROVE  WorkersHaveRunner'
  BY <1>18 DEF SettleOwn, Goto, End, NoWorker, WorkerAt, IInv, TypeOK,
    LockIsExclusive, WorkersHaveRunner, RunnerPhase, OwningStep
<1>19. ASSUME NEW w \in Workers, DeleteOwn(w)
      PROVE  WorkersHaveRunner'
  BY <1>19 DEF DeleteOwn, End, NoWorker, WorkerAt, IInv, WorkersHaveRunner
<1>20. ASSUME NEW w \in Workers, DbError(w)
      PROVE  WorkersHaveRunner'
  BY <1>20 DEF DbError, End, NoWorker, WorkerAt, IInv, WorkersHaveRunner
<1>21. ASSUME NEW w \in Workers, NEW j \in Jobs, Claim(w, j)
      PROVE  WorkersHaveRunner'
  BY <1>21 DEF Claim, WorkerAt, IInv, WorkersHaveRunner
<1>22. ASSUME NEW w \in Workers, NEW j \in Jobs, NEW s \in Sessions \cup {NoSession},
             Spawn(w, j, s)
      PROVE  WorkersHaveRunner'
  BY <1>22 DEF Spawn, Insert, IInv, WorkersHaveRunner
<1>. QED BY Zenon, NextCases, <1>1, <1>2, <1>3, <1>4, <1>5, <1>6, <1>7, <1>8,
  <1>9, <1>10, <1>11, <1>12, <1>13, <1>14, <1>15, <1>16, <1>17, <1>18, <1>19,
  <1>20, <1>21, <1>22

(* A claim finds the row pending, so nobody is at it; recovery finds no    *)
(* worker; every other update of a row is a worker's own or spares it.     *)
LEMMA OwnStep ==
    ASSUME IInv, Next
    PROVE  OneWorkerPerJob'
<1>1. ASSUME NEW j \in Jobs, NEW s \in Sessions \cup {NoSession},
             CreateJob(j, s)
      PROVE  OneWorkerPerJob'
  BY <1>1 DEF CreateJob, Insert, IInv, OneWorkerPerJob, JobOf
<1>2. ASSUME NEW j \in Jobs, CancelJob(j)
      PROVE  OneWorkerPerJob'
  BY <1>2 DEF CancelJob, CancelRow, IInv, OneWorkerPerJob, JobOf
<1>3. ASSUME NEW j \in Jobs, Retry(j)
      PROVE  OneWorkerPerJob'
  BY <1>3 DEF Retry, IInv, OneWorkerPerJob, JobOf
<1>4. ASSUME NEW s \in Sessions,
             SettleCancelled(s) \/ CloseIdle(s) \/ FailSession(s)
      PROVE  OneWorkerPerJob'
  BY <1>4 DEF SettleCancelled, CloseIdle, FailSession, IInv, OneWorkerPerJob,
    JobOf, rows
<1>5. ASSUME NEW s \in Sessions, CancelSession(s)
      PROVE  OneWorkerPerJob'
  BY <1>5 DEF CancelSession, IInv, WorkersHaveRunner, OneWorkerPerJob, JobOf,
    OwningStep
<1>6. ASSUME NEW s \in Sessions, CancelBulk(s)
      PROVE  OneWorkerPerJob'
  BY <1>6 DEF CancelBulk, IInv, WorkersHaveRunner, OneWorkerPerJob, JobOf,
    OwningStep
<1>7. ASSUME NEW r \in Runners, Acquire(r)
      PROVE  OneWorkerPerJob'
  BY <1>7 DEF Acquire, IInv, OneWorkerPerJob, JobOf, rows
<1>8. ASSUME NEW r \in Runners, Recover(r)
      PROVE  OneWorkerPerJob'
  BY <1>8 DEF Recover, RecoverInterrupted, IInv, LockIsExclusive,
    WorkersHaveRunner, OneWorkerPerJob, Owns, Workers, OwningStep
<1>9. ASSUME NEW r \in Runners, DrainEnds(r)
      PROVE  OneWorkerPerJob'
  BY <1>9 DEF DrainEnds, StopWorkers, NoWorker, WorkerAt, IInv,
    LockIsExclusive, WorkersHaveRunner, OneWorkerPerJob, Owns, Workers,
    OwningStep
<1>10. ASSUME NEW r \in Runners, Shutdown(r)
      PROVE  OneWorkerPerJob'
  BY <1>10 DEF Shutdown, IInv, OneWorkerPerJob, JobOf, rows
<1>11. ASSUME NEW r \in Runners, Kill(r)
      PROVE  OneWorkerPerJob'
  BY <1>11 DEF Kill, Owns, StopWorkers, NoWorker, WorkerAt, IInv,
    LockIsExclusive, WorkersHaveRunner, OneWorkerPerJob, Workers, OwningStep
<1>12. ASSUME NEW w \in Workers, Start(w)
      PROVE  OneWorkerPerJob'
  BY <1>12 DEF Start, At, Goto, IInv, OneWorkerPerJob, JobOf, rows, OwningStep
<1>13. ASSUME NEW w \in Workers, NoticeCancel(w)
      PROVE  OneWorkerPerJob'
  BY <1>13 DEF NoticeCancel, Goto, IInv, OneWorkerPerJob, JobOf, rows,
    OwningStep
<1>14. ASSUME NEW w \in Workers, Finish(w)
      PROVE  OneWorkerPerJob'
  <2>1. /\ worker[w].step \in {"processing", "waiting"}
        /\ UNCHANGED <<status, sessionOf, ancestors, retries, session, runner>>
    BY <1>14, FinishMoves
  <2>2. PICK to \in {"waiting", "completing"} : worker' = [worker EXCEPT ![w].step = to]
    BY <1>14, FinishMoves DEF Goto
  <2>. QED BY <2>1, <2>2 DEF IInv, OneWorkerPerJob, JobOf, OwningStep
<1>15. ASSUME NEW w \in Workers, NEW again \in BOOLEAN, Fail(w, again)
      PROVE  OneWorkerPerJob'
  BY <1>15 DEF Fail, WorkerAt, JobOf, IInv, OneWorkerPerJob, rows, OwningStep
<1>16. ASSUME NEW w \in Workers, FindCancelled(w)
      PROVE  OneWorkerPerJob'
  BY <1>16 DEF FindCancelled, End, NoWorker, WorkerAt, IInv, OneWorkerPerJob,
    JobOf, rows, OwningStep
<1>17. ASSUME NEW w \in Workers, MarkCompleted(w)
      PROVE  OneWorkerPerJob'
  BY <1>17 DEF MarkCompleted, At, Goto, JobOf, IInv, TypeOK, OneWorkerPerJob,
    OwningStep
<1>18. ASSUME NEW w \in Workers, ReadFailed(w)
      PROVE  OneWorkerPerJob'
  BY <1>18 DEF ReadFailed, At, WorkerAt, JobOf, IInv, OneWorkerPerJob, rows,
    OwningStep
<1>19. ASSUME NEW w \in Workers, WriteFailed(w)
      PROVE  OneWorkerPerJob'
  BY <1>19 DEF WriteFailed, At, WorkerAt, JobOf, IInv, TypeOK, OneWorkerPerJob,
    OwningStep
<1>20. ASSUME NEW w \in Workers, CancelOwn(w)
      PROVE  OneWorkerPerJob'
  BY <1>20 DEF CancelOwn, Goto, CancelRow, JobOf, IInv, OneWorkerPerJob,
    OwningStep
<1>21. ASSUME NEW w \in Workers, SettleOwn(w)
      PROVE  OneWorkerPerJob'
  BY <1>21 DEF SettleOwn, Goto, End, NoWorker, WorkerAt, JobOf, IInv, TypeOK,
    OneWorkerPerJob, rows, OwningStep
<1>22. ASSUME NEW w \in Workers, DeleteOwn(w)
      PROVE  OneWorkerPerJob'
  BY <1>22 DEF DeleteOwn, At, End, NoWorker, WorkerAt, JobOf, IInv,
    OneWorkerPerJob, DeletersCompleted, OwningStep
<1>23. ASSUME NEW w \in Workers, DbError(w)
      PROVE  OneWorkerPerJob'
  BY <1>23 DEF DbError, End, NoWorker, WorkerAt, IInv, OneWorkerPerJob, JobOf,
    rows, OwningStep
<1>24. ASSUME NEW w \in Workers, NEW j \in Jobs, Claim(w, j)
      PROVE  OneWorkerPerJob'
  <2>1. \A v \in Workers : worker[v].step \in OwningStep => JobOf(v) # j
    BY <1>24 DEF IInv, OneWorkerPerJob, Claim
  <2>2. /\ worker'[w].job = j
        /\ \A v \in Workers \ {w} : worker'[v] = worker[v]
        /\ status'[j] = "Running"
        /\ \A i \in Jobs \ {j} : status'[i] = status[i]
    BY <1>24 DEF IInv, TypeOK, Claim, WorkerAt
  <2>3. \A v \in Workers : worker[v].step \in OwningStep => JobOf(v) \in Jobs
    BY DEF IInv, WorkersHaveRunner, OwningStep, JobOf
  <2>. QED
    BY <2>1, <2>2, <2>3 DEF IInv, OneWorkerPerJob, JobOf
<1>25. ASSUME NEW w \in Workers, NEW j \in Jobs, NEW s \in Sessions \cup {NoSession},
             Spawn(w, j, s)
      PROVE  OneWorkerPerJob'
  BY <1>25 DEF Spawn, JobOf, Insert, IInv, OneWorkerPerJob
<1>. QED BY Zenon, NextCases, <1>1, <1>2, <1>3, <1>4, <1>5, <1>6, <1>7, <1>8,
  <1>9, <1>10, <1>11, <1>12, <1>13, <1>14, <1>15, <1>16, <1>17, <1>18, <1>19,
  <1>20, <1>21, <1>22, <1>23, <1>24, <1>25

(* A completed row is changed by nobody but the worker that completed it.  *)
LEMMA DeletersStep ==
    ASSUME IInv, Next
    PROVE  DeletersCompleted'
<1>1. ASSUME NEW j \in Jobs, NEW s \in Sessions \cup {NoSession},
             CreateJob(j, s)
      PROVE  DeletersCompleted'
  BY <1>1 DEF CreateJob, Insert, IInv, DeletersCompleted, JobOf
<1>2. ASSUME NEW j \in Jobs, CancelJob(j)
      PROVE  DeletersCompleted'
  BY <1>2 DEF CancelJob, CancelRow, IInv, DeletersCompleted, JobOf
<1>3. ASSUME NEW j \in Jobs, Retry(j)
      PROVE  DeletersCompleted'
  BY <1>3 DEF Retry, IInv, DeletersCompleted, JobOf
<1>4. ASSUME NEW s \in Sessions,
             SettleCancelled(s) \/ CloseIdle(s) \/ FailSession(s)
      PROVE  DeletersCompleted'
  BY <1>4 DEF SettleCancelled, CloseIdle, FailSession, IInv,
    DeletersCompleted, JobOf, rows
<1>5. ASSUME NEW s \in Sessions, CancelSession(s)
      PROVE  DeletersCompleted'
  BY <1>5 DEF CancelSession, IInv, WorkersHaveRunner, DeletersCompleted, JobOf
<1>6. ASSUME NEW s \in Sessions, CancelBulk(s)
      PROVE  DeletersCompleted'
  BY <1>6 DEF CancelBulk, Live, IInv, WorkersHaveRunner, DeletersCompleted,
    JobOf
<1>7. ASSUME NEW r \in Runners, Acquire(r)
      PROVE  DeletersCompleted'
  BY <1>7 DEF Acquire, Owns, IInv, WorkersHaveRunner, DeletersCompleted,
    Workers
<1>8. ASSUME NEW r \in Runners, Recover(r)
      PROVE  DeletersCompleted'
  BY <1>8 DEF Recover, RecoverInterrupted, IInv, LockIsExclusive,
    WorkersHaveRunner, DeletersCompleted, Owns, Workers
<1>9. ASSUME NEW r \in Runners, DrainEnds(r)
      PROVE  DeletersCompleted'
  BY <1>9 DEF DrainEnds, StopWorkers, NoWorker, WorkerAt, IInv,
    LockIsExclusive, WorkersHaveRunner, DeletersCompleted, Owns, Workers
<1>10. ASSUME NEW r \in Runners, Shutdown(r)
      PROVE  DeletersCompleted'
  BY <1>10 DEF Shutdown, IInv, DeletersCompleted, JobOf, rows
<1>11. ASSUME NEW r \in Runners, Kill(r)
      PROVE  DeletersCompleted'
  BY <1>11 DEF Kill, Owns, StopWorkers, NoWorker, WorkerAt, IInv,
    LockIsExclusive, WorkersHaveRunner, DeletersCompleted, Workers
<1>12. ASSUME NEW w \in Workers, Start(w)
      PROVE  DeletersCompleted'
  BY <1>12 DEF Start, Goto, IInv, DeletersCompleted, JobOf, rows
<1>13. ASSUME NEW w \in Workers, NoticeCancel(w)
      PROVE  DeletersCompleted'
  BY <1>13 DEF NoticeCancel, Goto, IInv, DeletersCompleted, JobOf, rows
<1>14. ASSUME NEW w \in Workers, Finish(w)
      PROVE  DeletersCompleted'
  <2>1. /\ worker[w].step \in {"processing", "waiting"}
        /\ UNCHANGED <<status, sessionOf, ancestors, retries, session, runner>>
    BY <1>14, FinishMoves
  <2>2. PICK to \in {"waiting", "completing"} : worker' = [worker EXCEPT ![w].step = to]
    BY <1>14, FinishMoves DEF Goto
  <2>. QED BY <2>1, <2>2 DEF IInv, DeletersCompleted, JobOf
<1>15. ASSUME NEW w \in Workers, NEW again \in BOOLEAN, Fail(w, again)
      PROVE  DeletersCompleted'
  BY <1>15 DEF Fail, WorkerAt, JobOf, IInv, DeletersCompleted, rows
<1>16. ASSUME NEW w \in Workers, FindCancelled(w)
      PROVE  DeletersCompleted'
  BY <1>16 DEF FindCancelled, End, NoWorker, WorkerAt, IInv,
    DeletersCompleted, JobOf, rows
<1>17. ASSUME NEW w \in Workers, MarkCompleted(w)
      PROVE  DeletersCompleted'
  BY <1>17 DEF MarkCompleted, At, Goto, JobOf, Outcome, IInv, TypeOK,
    WorkersHaveRunner, OneWorkerPerJob, DeletersCompleted, WorkerStep
<1>18. ASSUME NEW w \in Workers, ReadFailed(w)
      PROVE  DeletersCompleted'
  BY <1>18 DEF ReadFailed, WorkerAt, JobOf, IInv, DeletersCompleted, rows
<1>19. ASSUME NEW w \in Workers, WriteFailed(w)
      PROVE  DeletersCompleted'
  BY <1>19 DEF WriteFailed, At, WorkerAt, JobOf, IInv, OneWorkerPerJob,
    DeletersCompleted, OwningStep
<1>20. ASSUME NEW w \in Workers, CancelOwn(w)
      PROVE  DeletersCompleted'
  BY <1>20 DEF CancelOwn, Goto, CancelRow, JobOf, IInv, DeletersCompleted
<1>21. ASSUME NEW w \in Workers, SettleOwn(w)
      PROVE  DeletersCompleted'
  BY <1>21 DEF SettleOwn, At, Goto, End, NoWorker, WorkerAt, JobOf, IInv,
    TypeOK, DeletersCompleted, rows
<1>22. ASSUME NEW w \in Workers, DeleteOwn(w)
      PROVE  DeletersCompleted'
  BY <1>22 DEF DeleteOwn, End, NoWorker, WorkerAt, JobOf, IInv,
    DeletersCompleted
<1>23. ASSUME NEW w \in Workers, DbError(w)
      PROVE  DeletersCompleted'
  BY <1>23 DEF DbError, End, NoWorker, WorkerAt, IInv, DeletersCompleted,
    JobOf, rows
<1>24. ASSUME NEW w \in Workers, NEW j \in Jobs, Claim(w, j)
      PROVE  DeletersCompleted'
  BY <1>24 DEF Claim, WorkerAt, IInv, DeletersCompleted, JobOf
<1>25. ASSUME NEW w \in Workers, NEW j \in Jobs, NEW s \in Sessions \cup {NoSession},
             Spawn(w, j, s)
      PROVE  DeletersCompleted'
  BY <1>25 DEF Spawn, JobOf, Insert, IInv, DeletersCompleted
<1>. QED BY Zenon, NextCases, <1>1, <1>2, <1>3, <1>4, <1>5, <1>6, <1>7, <1>8,
  <1>9, <1>10, <1>11, <1>12, <1>13, <1>14, <1>15, <1>16, <1>17, <1>18, <1>19,
  <1>20, <1>21, <1>22, <1>23, <1>24, <1>25

(* Whatever makes a row pending looks at its session in the same step, and *)
(* what cancels a session cancels its pending rows.                        *)
LEMMA QuietStep ==
    ASSUME IInv, Next
    PROVE  CancelledSessionsStayQuiet'
<1>1. ASSUME NEW j \in Jobs, NEW s \in Sessions \cup {NoSession},
             CreateJob(j, s)
      PROVE  CancelledSessionsStayQuiet'
  BY JobsAssumption, <1>1 DEF CreateJob, Insert, IInv, TypeOK,
    CancelledSessionsStayQuiet, SessionCancelled
<1>2. ASSUME NEW j \in Jobs, CancelJob(j)
      PROVE  CancelledSessionsStayQuiet'
  BY JobsAssumption, <1>2 DEF CancelJob, CancelRow, IInv,
    CancelledSessionsStayQuiet, SessionCancelled
<1>3. ASSUME NEW j \in Jobs, Retry(j)
      PROVE  CancelledSessionsStayQuiet'
  BY JobsAssumption, <1>3 DEF Retry, SessionCancelled, IInv,
    CancelledSessionsStayQuiet
<1>4. ASSUME NEW s \in Sessions, SettleCancelled(s)
      PROVE  CancelledSessionsStayQuiet'
  BY JobsAssumption, <1>4 DEF SettleCancelled, Settle, SettledStatus, IInv,
    rows, CancelledSessionsStayQuiet, SessionCancelled
<1>5. ASSUME NEW s \in Sessions, CancelSession(s)
      PROVE  CancelledSessionsStayQuiet'
  BY JobsAssumption, <1>5 DEF CancelSession, IInv, CancelledSessionsStayQuiet,
    SessionCancelled
<1>6. ASSUME NEW s \in Sessions, CancelBulk(s)
      PROVE  CancelledSessionsStayQuiet'
  BY JobsAssumption, <1>6 DEF CancelBulk, IInv, CancelledSessionsStayQuiet,
    SessionCancelled
<1>7. ASSUME NEW s \in Sessions, CloseIdle(s)
      PROVE  CancelledSessionsStayQuiet'
  BY JobsAssumption, <1>7 DEF CloseIdle, IInv, rows,
    CancelledSessionsStayQuiet, SessionCancelled
<1>8. ASSUME NEW s \in Sessions, FailSession(s)
      PROVE  CancelledSessionsStayQuiet'
  BY JobsAssumption, <1>8 DEF FailSession, IInv, rows,
    CancelledSessionsStayQuiet, SessionCancelled
<1>9. ASSUME NEW r \in Runners,
             Acquire(r) \/ DrainEnds(r) \/ Shutdown(r) \/ Kill(r)
      PROVE  CancelledSessionsStayQuiet'
  BY JobsAssumption, <1>9 DEF Acquire, DrainEnds, Shutdown, Kill, IInv, rows,
    CancelledSessionsStayQuiet, SessionCancelled
<1>10. ASSUME NEW r \in Runners, Recover(r)
      PROVE  CancelledSessionsStayQuiet'
  BY JobsAssumption, <1>10 DEF Recover, RecoverInterrupted, Recovered,
    SessionCancelled, IInv, CancelledSessionsStayQuiet
<1>11. ASSUME NEW w \in Workers,
             \/ Start(w)
             \/ NoticeCancel(w)
             \/ Finish(w)
             \/ FindCancelled(w)
             \/ ReadFailed(w)
             \/ DbError(w)
      PROVE  CancelledSessionsStayQuiet'
  BY JobsAssumption, <1>11 DEF Start, NoticeCancel, FindCancelled,
    Finish, Succeed, StopWaiting, CountFails,
    ReadFailed, DbError, IInv, rows, CancelledSessionsStayQuiet,
    SessionCancelled
<1>12. ASSUME NEW w \in Workers, NEW again \in BOOLEAN, Fail(w, again)
      PROVE  CancelledSessionsStayQuiet'
  BY JobsAssumption, <1>12 DEF Fail, IInv, rows, CancelledSessionsStayQuiet,
    SessionCancelled
<1>13. ASSUME NEW w \in Workers, MarkCompleted(w)
      PROVE  CancelledSessionsStayQuiet'
  BY JobsAssumption, <1>13 DEF MarkCompleted, Outcome, SessionCancelled, IInv,
    CancelledSessionsStayQuiet
<1>14. ASSUME NEW w \in Workers, WriteFailed(w)
      PROVE  CancelledSessionsStayQuiet'
  BY JobsAssumption, <1>14 DEF WriteFailed, Outcome, SessionCancelled, IInv,
    CancelledSessionsStayQuiet
<1>15. ASSUME NEW w \in Workers, CancelOwn(w)
      PROVE  CancelledSessionsStayQuiet'
  BY JobsAssumption, <1>15 DEF CancelOwn, CancelRow, IInv,
    CancelledSessionsStayQuiet, SessionCancelled
<1>16. ASSUME NEW w \in Workers, SettleOwn(w)
      PROVE  CancelledSessionsStayQuiet'
  BY JobsAssumption, <1>16 DEF SettleOwn, Settle, SettledStatus, IInv, rows,
    CancelledSessionsStayQuiet, SessionCancelled
<1>17. ASSUME NEW w \in Workers, DeleteOwn(w)
      PROVE  CancelledSessionsStayQuiet'
  BY JobsAssumption, <1>17 DEF DeleteOwn, IInv, CancelledSessionsStayQuiet,
    SessionCancelled
<1>18. ASSUME NEW w \in Workers, NEW j \in Jobs, Claim(w, j)
      PROVE  CancelledSessionsStayQuiet'
  BY JobsAssumption, <1>18 DEF Claim, IInv, CancelledSessionsStayQuiet,
    SessionCancelled
<1>19. ASSUME NEW w \in Workers, NEW j \in Jobs, NEW s \in Sessions \cup {NoSession},
             Spawn(w, j, s)
      PROVE  CancelledSessionsStayQuiet'
  BY JobsAssumption, <1>19 DEF Spawn, Insert, IInv, TypeOK,
    CancelledSessionsStayQuiet, SessionCancelled
<1>. QED BY Zenon, NextCases, <1>1, <1>2, <1>3, <1>4, <1>5, <1>6, <1>7, <1>8,
  <1>9, <1>10, <1>11, <1>12, <1>13, <1>14, <1>15, <1>16, <1>17, <1>18, <1>19

(* Whatever makes a row live makes its session active or finds it so: a    *)
(* retry comes from a running row, which OneWorkerPerJob vouches for.      *)
LEMMA IdleStep ==
    ASSUME IInv, Next
    PROVE  EndedSessionsAreIdle'
<1>1. ASSUME NEW j \in Jobs, NEW s \in Sessions \cup {NoSession},
             CreateJob(j, s)
      PROVE  EndedSessionsAreIdle'
  BY JobsAssumption, <1>1 DEF CreateJob, Insert, IInv, TypeOK,
    EndedSessionsAreIdle, HasLive, Live
<1>2. ASSUME NEW j \in Jobs, CancelJob(j)
      PROVE  EndedSessionsAreIdle'
  BY JobsAssumption, <1>2 DEF CancelJob, CancelRow, IInv,
    EndedSessionsAreIdle, HasLive, Live
<1>3. ASSUME NEW j \in Jobs, Retry(j)
      PROVE  EndedSessionsAreIdle'
  BY JobsAssumption, <1>3 DEF Retry, IInv, TypeOK, EndedSessionsAreIdle,
    HasLive, Live
<1>4. ASSUME NEW s \in Sessions, SettleCancelled(s)
      PROVE  EndedSessionsAreIdle'
  BY JobsAssumption, <1>4 DEF SettleCancelled, Settle, SettledStatus, IInv,
    rows, EndedSessionsAreIdle, HasLive, Live
<1>5. ASSUME NEW s \in Sessions, CancelSession(s)
      PROVE  EndedSessionsAreIdle'
  BY JobsAssumption, <1>5 DEF CancelSession, IInv, EndedSessionsAreIdle,
    HasLive, Live
<1>6. ASSUME NEW s \in Sessions, CancelBulk(s)
      PROVE  EndedSessionsAreIdle'
  BY JobsAssumption, <1>6 DEF CancelBulk, Live, IInv, EndedSessionsAreIdle,
    HasLive
<1>7. ASSUME NEW s \in Sessions, CloseIdle(s)
      PROVE  EndedSessionsAreIdle'
  BY JobsAssumption, <1>7 DEF CloseIdle, IInv, rows, EndedSessionsAreIdle,
    HasLive, Live
<1>8. ASSUME NEW s \in Sessions, FailSession(s)
      PROVE  EndedSessionsAreIdle'
  BY JobsAssumption, <1>8 DEF FailSession, IInv, rows, EndedSessionsAreIdle,
    HasLive, Live
<1>9. ASSUME NEW r \in Runners,
             Acquire(r) \/ DrainEnds(r) \/ Shutdown(r) \/ Kill(r)
      PROVE  EndedSessionsAreIdle'
  BY JobsAssumption, <1>9 DEF Acquire, DrainEnds, Shutdown, Kill, IInv, rows,
    EndedSessionsAreIdle, HasLive, Live
<1>10. ASSUME NEW r \in Runners, Recover(r)
      PROVE  EndedSessionsAreIdle'
  BY JobsAssumption, <1>10 DEF Recover, RecoverInterrupted, IInv,
    EndedSessionsAreIdle, HasLive, Live
<1>11. ASSUME NEW w \in Workers,
             \/ Start(w)
             \/ NoticeCancel(w)
             \/ Finish(w)
             \/ FindCancelled(w)
             \/ ReadFailed(w)
             \/ DbError(w)
      PROVE  EndedSessionsAreIdle'
  BY JobsAssumption, <1>11 DEF Start, NoticeCancel, FindCancelled,
    Finish, Succeed, StopWaiting, CountFails,
    ReadFailed, DbError, IInv, rows, EndedSessionsAreIdle, HasLive, Live
<1>12. ASSUME NEW w \in Workers, NEW again \in BOOLEAN, Fail(w, again)
      PROVE  EndedSessionsAreIdle'
  BY JobsAssumption, <1>12 DEF Fail, IInv, rows, EndedSessionsAreIdle,
    HasLive, Live
<1>13. ASSUME NEW w \in Workers, MarkCompleted(w)
      PROVE  EndedSessionsAreIdle'
  BY JobsAssumption, <1>13 DEF MarkCompleted, Outcome, IInv,
    EndedSessionsAreIdle, HasLive, Live
<1>14. ASSUME NEW w \in Workers, WriteFailed(w)
      PROVE  EndedSessionsAreIdle'
  BY JobsAssumption, <1>14 DEF WriteFailed, At, IInv, OneWorkerPerJob,
    OwningStep, EndedSessionsAreIdle, HasLive, Live
<1>15. ASSUME NEW w \in Workers, CancelOwn(w)
      PROVE  EndedSessionsAreIdle'
  BY JobsAssumption, <1>15 DEF CancelOwn, CancelRow, IInv,
    EndedSessionsAreIdle, HasLive, Live
<1>16. ASSUME NEW w \in Workers, SettleOwn(w)
      PROVE  EndedSessionsAreIdle'
  BY JobsAssumption, <1>16 DEF SettleOwn, Settle, SettledStatus, IInv, rows,
    EndedSessionsAreIdle, HasLive, Live
<1>17. ASSUME NEW w \in Workers, DeleteOwn(w)
      PROVE  EndedSessionsAreIdle'
  BY JobsAssumption, <1>17 DEF DeleteOwn, IInv, EndedSessionsAreIdle, HasLive,
    Live
<1>18. ASSUME NEW w \in Workers, NEW j \in Jobs, Claim(w, j)
      PROVE  EndedSessionsAreIdle'
  BY JobsAssumption, <1>18 DEF Claim, IInv, EndedSessionsAreIdle, HasLive,
    Live
<1>19. ASSUME NEW w \in Workers, NEW j \in Jobs, NEW s \in Sessions \cup {NoSession},
             Spawn(w, j, s)
      PROVE  EndedSessionsAreIdle'
  BY JobsAssumption, <1>19 DEF Spawn, Insert, IInv, TypeOK,
    EndedSessionsAreIdle, HasLive, Live
<1>. QED BY Zenon, NextCases, <1>1, <1>2, <1>3, <1>4, <1>5, <1>6, <1>7, <1>8,
  <1>9, <1>10, <1>11, <1>12, <1>13, <1>14, <1>15, <1>16, <1>17, <1>18, <1>19

-----------------------------------------------------------------------------
(* The invariant.                                                          *)

(* The empty tables satisfy the inductive invariant. *)
LEMMA InitIInv == ASSUME Init PROVE IInv
<1>1. TypeOK
  BY DEF Init, TypeOK, NoWorker, WorkerAt, RowStatus, SessionStatus,
    RunnerPhase, WorkerStep
<1>2. /\ LockIsExclusive
      /\ WorkersHaveRunner
      /\ OneWorkerPerJob
      /\ DeletersCompleted
  BY DEF Init, LockIsExclusive, WorkersHaveRunner, OneWorkerPerJob,
    DeletersCompleted, Owns, NoWorker, WorkerAt, OwningStep
<1>3. CancelledSessionsStayQuiet /\ EndedSessionsAreIdle
  BY DEF Init, CancelledSessionsStayQuiet, EndedSessionsAreIdle
<1>. QED BY <1>1, <1>2, <1>3 DEF IInv

(* A stuttering step preserves the inductive invariant. *)
LEMMA StutterIInv == ASSUME IInv, UNCHANGED vars PROVE IInv'
  BY DEF IInv, vars, TypeOK, LockIsExclusive, WorkersHaveRunner,
    OneWorkerPerJob, DeletersCompleted, CancelledSessionsStayQuiet,
    EndedSessionsAreIdle, Owns, JobOf, SessionCancelled, HasLive, Live

(* The strengthened invariant holds in every reachable state.              *)
THEOREM Invariant == Spec => []IInv
<1>1. ASSUME IInv, Next PROVE IInv'
  BY <1>1, TypeStep, LockStep, WorkersStep, OwnStep, DeletersStep, QuietStep, IdleStep DEF IInv
<1>. QED BY InitIInv, StutterIInv, <1>1, PTL DEF Spec

(* Every variable has its type: the statuses the table's CHECK allows.     *)
THEOREM TypeCorrect == Spec => []TypeOK
<1>1. IInv => TypeOK BY DEF IInv
<1>. QED BY <1>1, Invariant, PTL

(* cancel_session leaves no pending row and nothing puts one back.         *)
THEOREM CancelledIsQuiet == Spec => []CancelledSessionsStayQuiet
<1>1. IInv => CancelledSessionsStayQuiet BY DEF IInv
<1>. QED BY <1>1, Invariant, PTL

(* settle_session and its rivals never end a session that has work left.   *)
THEOREM EndedIsIdle == Spec => []EndedSessionsAreIdle
<1>1. IInv => EndedSessionsAreIdle BY DEF IInv
<1>. QED BY <1>1, Invariant, PTL

(* The runner lock, the claim and the recovery give a job one worker.      *)
THEOREM JobsAreExclusive == Spec => []OneWorkerPerJob
<1>1. IInv => OneWorkerPerJob BY DEF IInv
<1>. QED BY <1>1, Invariant, PTL

-----------------------------------------------------------------------------
(* Cancellation.                                                           *)

(* No statement takes a cancelled row or a cancelled session.              *)
LEMMA CancelledStep ==
    ASSUME IInv, Next
    PROVE  CancelledStays
<1>1. ASSUME NEW j \in Jobs, NEW s \in Sessions \cup {NoSession},
             CreateJob(j, s)
      PROVE  CancelledStays
  BY JobsAssumption, <1>1 DEF CreateJob, Insert, IInv, CancelledStays
<1>2. ASSUME NEW j \in Jobs, CancelJob(j)
      PROVE  CancelledStays
  BY JobsAssumption, <1>2 DEF CancelJob, CancelRow, IInv, CancelledStays
<1>3. ASSUME NEW j \in Jobs, Retry(j)
      PROVE  CancelledStays
  BY JobsAssumption, <1>3 DEF Retry, SessionCancelled, IInv, CancelledStays
<1>4. ASSUME NEW s \in Sessions, SettleCancelled(s)
      PROVE  CancelledStays
  BY JobsAssumption, <1>4 DEF SettleCancelled, Settle, IInv, CancelledStays,
    rows
<1>5. ASSUME NEW s \in Sessions, CancelSession(s)
      PROVE  CancelledStays
  BY JobsAssumption, <1>5 DEF CancelSession, IInv, CancelledStays
<1>6. ASSUME NEW s \in Sessions, CancelBulk(s)
      PROVE  CancelledStays
  BY JobsAssumption, <1>6 DEF CancelBulk, IInv, CancelledStays
<1>7. ASSUME NEW s \in Sessions, CloseIdle(s)
      PROVE  CancelledStays
  BY JobsAssumption, <1>7 DEF CloseIdle, IInv, CancelledStays, rows
<1>8. ASSUME NEW s \in Sessions, FailSession(s)
      PROVE  CancelledStays
  BY JobsAssumption, <1>8 DEF FailSession, IInv, CancelledStays, rows
<1>9. ASSUME NEW r \in Runners,
             Acquire(r) \/ DrainEnds(r) \/ Shutdown(r) \/ Kill(r)
      PROVE  CancelledStays
  BY JobsAssumption, <1>9 DEF Acquire, DrainEnds, Shutdown, Kill, IInv,
    CancelledStays, rows
<1>10. ASSUME NEW r \in Runners, Recover(r)
      PROVE  CancelledStays
  BY JobsAssumption, <1>10 DEF Recover, RecoverInterrupted, IInv,
    CancelledStays
<1>11. ASSUME NEW w \in Workers,
             \/ Start(w)
             \/ NoticeCancel(w)
             \/ Finish(w)
             \/ FindCancelled(w)
             \/ ReadFailed(w)
             \/ DbError(w)
      PROVE  CancelledStays
  BY JobsAssumption, <1>11 DEF Start, NoticeCancel, FindCancelled,
    Finish, Succeed, StopWaiting, CountFails,
    ReadFailed, DbError, IInv, CancelledStays, rows
<1>12. ASSUME NEW w \in Workers, NEW again \in BOOLEAN, Fail(w, again)
      PROVE  CancelledStays
  BY JobsAssumption, <1>12 DEF Fail, IInv, CancelledStays, rows
<1>13. ASSUME NEW w \in Workers, MarkCompleted(w)
      PROVE  CancelledStays
  BY JobsAssumption, <1>13 DEF MarkCompleted, IInv, CancelledStays
<1>14. ASSUME NEW w \in Workers, WriteFailed(w)
      PROVE  CancelledStays
  BY JobsAssumption, <1>14 DEF WriteFailed, IInv, CancelledStays
<1>15. ASSUME NEW w \in Workers, CancelOwn(w)
      PROVE  CancelledStays
  BY JobsAssumption, <1>15 DEF CancelOwn, CancelRow, IInv, CancelledStays
<1>16. ASSUME NEW w \in Workers, SettleOwn(w)
      PROVE  CancelledStays
  BY JobsAssumption, <1>16 DEF SettleOwn, Settle, IInv, CancelledStays, rows
<1>17. ASSUME NEW w \in Workers, DeleteOwn(w)
      PROVE  CancelledStays
  BY JobsAssumption, <1>17 DEF DeleteOwn, At, IInv, CancelledStays,
    DeletersCompleted
<1>18. ASSUME NEW w \in Workers, NEW j \in Jobs, Claim(w, j)
      PROVE  CancelledStays
  BY JobsAssumption, <1>18 DEF Claim, IInv, CancelledStays
<1>19. ASSUME NEW w \in Workers, NEW j \in Jobs, NEW s \in Sessions \cup {NoSession},
             Spawn(w, j, s)
      PROVE  CancelledStays
  BY JobsAssumption, <1>19 DEF Spawn, Insert, IInv, CancelledStays
<1>. QED BY Zenon, NextCases, <1>1, <1>2, <1>3, <1>4, <1>5, <1>6, <1>7, <1>8,
  <1>9, <1>10, <1>11, <1>12, <1>13, <1>14, <1>15, <1>16, <1>17, <1>18, <1>19

(* A cancelled row or session is never anything else again.                *)
THEOREM CancellationHolds == Spec => CancellationIsFinal
<1>1. ASSUME IInv, [Next]_vars PROVE [CancelledStays]_vars
  BY <1>1, CancelledStep
<1>. QED BY <1>1, Invariant, PTL DEF Spec, CancellationIsFinal

-----------------------------------------------------------------------------
(* The retry budget.                                                       *)

(* A worker about to write Pending has counted; an id starts at zero.      *)
RetriesCounted ==
    /\ WithinRetryBudget
    /\ \A j \in Jobs : status[j] = "Absent" => retries[j] = 0
    /\ \A w \in Workers :
           worker[w].step = "writing" /\ worker[w].again => worker[w].count < MaxRetries

(* Only a failure, an interruption and the dashboard make a row live again.*)
LEMMA RetriesStep ==
    ASSUME IInv, RetriesCounted, Next
    PROVE  RetriesCounted'
<1>1. ASSUME NEW j \in Jobs, NEW s \in Sessions \cup {NoSession},
             CreateJob(j, s)
      PROVE  RetriesCounted'
  BY JobsAssumption, <1>1 DEF CreateJob, Insert, IInv, RetriesCounted,
    WithinRetryBudget, Live
<1>2. ASSUME NEW j \in Jobs, CancelJob(j)
      PROVE  RetriesCounted'
  BY JobsAssumption, <1>2 DEF CancelJob, CancelRow, IInv, RetriesCounted,
    WithinRetryBudget, Live
<1>3. ASSUME NEW j \in Jobs, Retry(j)
      PROVE  RetriesCounted'
  BY JobsAssumption, <1>3 DEF Retry, IInv, TypeOK, RetriesCounted,
    WithinRetryBudget, Live
<1>4. ASSUME NEW s \in Sessions,
             SettleCancelled(s) \/ CloseIdle(s) \/ FailSession(s)
      PROVE  RetriesCounted'
  BY JobsAssumption, <1>4 DEF SettleCancelled, CloseIdle, FailSession, IInv,
    RetriesCounted, WithinRetryBudget, rows, Live
<1>5. ASSUME NEW s \in Sessions, CancelSession(s)
      PROVE  RetriesCounted'
  BY JobsAssumption, <1>5 DEF CancelSession, IInv, RetriesCounted,
    WithinRetryBudget, Live
<1>6. ASSUME NEW s \in Sessions, CancelBulk(s)
      PROVE  RetriesCounted'
  BY JobsAssumption, <1>6 DEF CancelBulk, Live, IInv, RetriesCounted,
    WithinRetryBudget
<1>7. ASSUME NEW r \in Runners, Acquire(r) \/ Shutdown(r)
      PROVE  RetriesCounted'
  BY JobsAssumption, <1>7 DEF Acquire, Shutdown, IInv, RetriesCounted,
    WithinRetryBudget, rows, Live
<1>8. ASSUME NEW r \in Runners, Recover(r)
      PROVE  RetriesCounted'
  BY JobsAssumption, <1>8 DEF Recover, RecoverInterrupted, Recovered, IInv,
    RetriesCounted, WithinRetryBudget, Live
<1>9. ASSUME NEW r \in Runners, DrainEnds(r)
      PROVE  RetriesCounted'
  BY JobsAssumption, <1>9 DEF DrainEnds, StopWorkers, NoWorker, WorkerAt,
    IInv, RetriesCounted, WithinRetryBudget, rows, Live
<1>10. ASSUME NEW r \in Runners, Kill(r)
      PROVE  RetriesCounted'
  BY JobsAssumption, <1>10 DEF Kill, StopWorkers, NoWorker, WorkerAt, IInv,
    RetriesCounted, WithinRetryBudget, rows, Live
<1>11. ASSUME NEW w \in Workers, Start(w)
      PROVE  RetriesCounted'
  BY JobsAssumption, <1>11 DEF Start, Goto, IInv, RetriesCounted,
    WithinRetryBudget, rows, Live
<1>12. ASSUME NEW w \in Workers, NoticeCancel(w)
      PROVE  RetriesCounted'
  BY JobsAssumption, <1>12 DEF NoticeCancel, Goto, IInv, RetriesCounted,
    WithinRetryBudget, rows, Live
<1>13. ASSUME NEW w \in Workers, Finish(w)
      PROVE  RetriesCounted'
  <2>1. /\ worker[w].step \in {"processing", "waiting"}
        /\ UNCHANGED <<status, sessionOf, ancestors, retries, session, runner>>
    BY <1>13, FinishMoves
  <2>2. PICK to \in {"waiting", "completing"} : worker' = [worker EXCEPT ![w].step = to]
    BY <1>13, FinishMoves DEF Goto
  <2>. QED BY JobsAssumption, <2>1, <2>2 DEF IInv, RetriesCounted, WithinRetryBudget, Live
<1>14. ASSUME NEW w \in Workers, NEW again \in BOOLEAN, Fail(w, again)
      PROVE  RetriesCounted'
  BY JobsAssumption, <1>14 DEF Fail, WorkerAt, IInv, RetriesCounted,
    WithinRetryBudget, rows, Live
<1>15. ASSUME NEW w \in Workers, FindCancelled(w)
      PROVE  RetriesCounted'
  BY JobsAssumption, <1>15 DEF FindCancelled, End, NoWorker, WorkerAt, IInv,
    RetriesCounted, WithinRetryBudget, rows, Live
<1>16. ASSUME NEW w \in Workers, MarkCompleted(w)
      PROVE  RetriesCounted'
  BY JobsAssumption, <1>16 DEF MarkCompleted, Goto, Outcome, IInv,
    RetriesCounted, WithinRetryBudget, Live
<1>17. ASSUME NEW w \in Workers, ReadFailed(w)
      PROVE  RetriesCounted'
  BY JobsAssumption, <1>17 DEF ReadFailed, WorkerAt, IInv, TypeOK,
    RetriesCounted, WithinRetryBudget, rows, Live
<1>18. ASSUME NEW w \in Workers, WriteFailed(w)
      PROVE  RetriesCounted'
  BY JobsAssumption, <1>18 DEF WriteFailed, At, WorkerAt, Outcome, IInv, TypeOK,
    RetriesCounted, WithinRetryBudget, Live
<1>19. ASSUME NEW w \in Workers, CancelOwn(w)
      PROVE  RetriesCounted'
  BY JobsAssumption, <1>19 DEF CancelOwn, Goto, CancelRow, IInv,
    RetriesCounted, WithinRetryBudget, Live
<1>20. ASSUME NEW w \in Workers, SettleOwn(w)
      PROVE  RetriesCounted'
  BY JobsAssumption, <1>20 DEF SettleOwn, Goto, End, NoWorker, WorkerAt, IInv,
    TypeOK, RetriesCounted, WithinRetryBudget, WorkersHaveRunner, rows, Live
<1>21. ASSUME NEW w \in Workers, DeleteOwn(w)
      PROVE  RetriesCounted'
  BY JobsAssumption, <1>21 DEF DeleteOwn, End, NoWorker, WorkerAt, IInv,
    RetriesCounted, WithinRetryBudget, Live
<1>22. ASSUME NEW w \in Workers, DbError(w)
      PROVE  RetriesCounted'
  BY JobsAssumption, <1>22 DEF DbError, End, NoWorker, WorkerAt, IInv,
    RetriesCounted, WithinRetryBudget, rows, Live
<1>23. ASSUME NEW w \in Workers, NEW j \in Jobs, Claim(w, j)
      PROVE  RetriesCounted'
  BY JobsAssumption, <1>23 DEF Claim, WorkerAt, IInv, RetriesCounted,
    WithinRetryBudget, Live
<1>24. ASSUME NEW w \in Workers, NEW j \in Jobs, NEW s \in Sessions \cup {NoSession},
             Spawn(w, j, s)
      PROVE  RetriesCounted'
  BY JobsAssumption, <1>24 DEF Spawn, Insert, IInv, RetriesCounted,
    WithinRetryBudget, Live
<1>. QED BY Zenon, NextCases, <1>1, <1>2, <1>3, <1>4, <1>5, <1>6, <1>7, <1>8,
  <1>9, <1>10, <1>11, <1>12, <1>13, <1>14, <1>15, <1>16, <1>17, <1>18, <1>19,
  <1>20, <1>21, <1>22, <1>23, <1>24

(* A row is live only with budget left, or untried since it was created or *)
(* asked for again.                                                        *)
THEOREM BudgetIsKept == Spec => []WithinRetryBudget
<1>1. Init => RetriesCounted
  BY DEF Init, RetriesCounted, WithinRetryBudget, NoWorker, WorkerAt
<1>2. ASSUME IInv, RetriesCounted, [Next]_vars PROVE RetriesCounted'
  <2>1. CASE UNCHANGED vars
    BY <1>2, <2>1 DEF vars, RetriesCounted, WithinRetryBudget, Live
  <2>. QED BY <1>2, <2>1, RetriesStep
<1>3. RetriesCounted => WithinRetryBudget BY DEF RetriesCounted
<1>. QED BY <1>1, <1>2, <1>3, Invariant, PTL DEF Spec

-----------------------------------------------------------------------------
(* Running rows and the workers at them.                                   *)

RunnerAtWork == \E r \in Runners : runner[r] \in {"running", "draining"}
Attended(j) == \E w \in Workers : worker[w].step \in OwningStep /\ worker[w].job = j

(* A step that makes no row Running and takes no worker from one that stays*)
(* Running keeps the running rows attended.                                *)
LEMMA AttendedKept ==
    ASSUME RunningIsAttended, RunnerAtWork' => RunnerAtWork, dbErrors' = dbErrors,
           \A j \in Jobs : status'[j] = "Running" =>
               status[j] = "Running" /\ (Attended(j) => Attended(j)')
    PROVE  RunningIsAttended'
  BY Zenon DEF RunningIsAttended, RunnerAtWork, Attended, JobOf

(* One worker moves: whoever was at j still is, if that worker is.         *)
LEMMA MoverStays ==
    ASSUME NEW j \in Jobs, NEW w \in Workers,
           \A v \in Workers : v # w => worker'[v] = worker[v],
           worker[w].step \in OwningStep /\ worker[w].job = j =>
               worker'[w].step \in OwningStep /\ worker'[w].job = j
    PROVE  Attended(j) => Attended(j)'
<1>1. ASSUME NEW v \in Workers, worker[v].step \in OwningStep, worker[v].job = j
      PROVE  worker'[v].step \in OwningStep /\ worker'[v].job = j
  BY Zenon, <1>1
<1>. QED BY Zenon, <1>1 DEF Attended

(* The row of a worker that leaves or takes a step is the only one that can*)
(* lose its attendant.                                                     *)
LEMMA AttendedStep ==
    ASSUME IInv, RunningIsAttended, Next
    PROVE  RunningIsAttended'
<1>0. TypeOK /\ LockIsExclusive
  BY DEF IInv
<1>1. ASSUME NEW j \in Jobs, NEW s \in Sessions \cup {NoSession}, CreateJob(j, s)
      PROVE  RunningIsAttended'
  <2>1. /\ worker' = worker /\ runner' = runner /\ dbErrors' = dbErrors
        /\ \A i \in Jobs : status'[i] = "Running" => status[i] = "Running"
    BY <1>0, <1>1 DEF CreateJob, Insert, TypeOK, rows, bounds
  <2>. QED BY <2>1, AttendedKept DEF RunnerAtWork, Attended
<1>2. ASSUME NEW j \in Jobs, CancelJob(j)
      PROVE  RunningIsAttended'
  <2>1. /\ worker' = worker /\ runner' = runner /\ dbErrors' = dbErrors
        /\ \A i \in Jobs : status'[i] = "Running" => status[i] = "Running"
    BY <1>0, <1>2 DEF CancelJob, CancelRow, TypeOK, rows, bounds
  <2>. QED BY <2>1, AttendedKept DEF RunnerAtWork, Attended
<1>3. ASSUME NEW j \in Jobs, Retry(j)
      PROVE  RunningIsAttended'
  <2>1. /\ worker' = worker /\ runner' = runner /\ dbErrors' = dbErrors
        /\ \A i \in Jobs : status'[i] = "Running" => status[i] = "Running"
    BY <1>0, <1>3 DEF Retry, TypeOK, rows, bounds
  <2>. QED BY <2>1, AttendedKept DEF RunnerAtWork, Attended
<1>4. ASSUME NEW s \in Sessions, SettleCancelled(s) \/ CloseIdle(s) \/ FailSession(s)
      PROVE  RunningIsAttended'
  <2>1. /\ worker' = worker /\ runner' = runner /\ dbErrors' = dbErrors
        /\ \A i \in Jobs : status'[i] = "Running" => status[i] = "Running"
    BY <1>0, <1>4 DEF SettleCancelled, CloseIdle, FailSession, TypeOK, rows, bounds
  <2>. QED BY <2>1, AttendedKept DEF RunnerAtWork, Attended
<1>5. ASSUME NEW s \in Sessions, CancelSession(s)
      PROVE  RunningIsAttended'
  <2>1. /\ worker' = worker /\ runner' = runner /\ dbErrors' = dbErrors
        /\ \A i \in Jobs : status'[i] = "Running" => status[i] = "Running"
    BY <1>0, <1>5 DEF CancelSession, TypeOK, rows, bounds
  <2>. QED BY <2>1, AttendedKept DEF RunnerAtWork, Attended
<1>6. ASSUME NEW s \in Sessions, CancelBulk(s)
      PROVE  RunningIsAttended'
  <2>1. /\ worker' = worker /\ runner' = runner /\ dbErrors' = dbErrors
        /\ \A i \in Jobs : status'[i] = "Running" => status[i] = "Running"
    BY <1>0, <1>6 DEF CancelBulk, TypeOK, rows, bounds
  <2>. QED BY <2>1, AttendedKept DEF RunnerAtWork, Attended
<1>7. ASSUME NEW w \in Workers, NEW j \in Jobs, NEW s \in Sessions \cup {NoSession},
             Spawn(w, j, s)
      PROVE  RunningIsAttended'
  <2>1. /\ worker' = worker /\ runner' = runner /\ dbErrors' = dbErrors
        /\ \A i \in Jobs : status'[i] = "Running" => status[i] = "Running"
    BY <1>0, <1>7 DEF Spawn, Insert, TypeOK, rows, bounds
  <2>. QED BY <2>1, AttendedKept DEF RunnerAtWork, Attended
<1>8. ASSUME NEW r \in Runners, Acquire(r) \/ Kill(r) \/ DrainEnds(r)
      PROVE  RunningIsAttended'
  <2>1. ~RunnerAtWork'
    BY <1>0, <1>8 DEF Acquire, Kill, DrainEnds, Enter, Owns, LockIsExclusive, TypeOK,
      RunnerPhase, RunnerAtWork
  <2>. QED BY <2>1 DEF RunningIsAttended, RunnerAtWork
<1>9. ASSUME NEW r \in Runners, Recover(r)
      PROVE  RunningIsAttended'
  <2>1. \A j \in Jobs : status'[j] # "Running"
    BY <1>9 DEF Recover, RecoverInterrupted, Recovered
  <2>. QED BY <2>1 DEF RunningIsAttended
<1>10. ASSUME NEW r \in Runners, Shutdown(r)
      PROVE  RunningIsAttended'
  <2>1. /\ worker' = worker /\ status' = status /\ dbErrors' = dbErrors
        /\ RunnerAtWork
    BY <1>10 DEF Shutdown, rows, RunnerAtWork
  <2>. QED BY <2>1, AttendedKept DEF Attended
<1>11. ASSUME NEW w \in Workers, Start(w)
      PROVE  RunningIsAttended'
  <2>1. runner' = runner /\ dbErrors' = dbErrors
    BY <1>11 DEF Start, rows, bounds
  <2>2. ASSUME NEW j \in Jobs, status'[j] = "Running"
        PROVE  status[j] = "Running" /\ (Attended(j) => Attended(j)')
    <3>1. /\ \A v \in Workers : v # w => worker'[v] = worker[v]
          /\ worker[w].step \in OwningStep /\ worker[w].job = j =>
                 worker'[w].step \in OwningStep /\ worker'[w].job = j
      BY <1>0, <1>11, <2>2 DEF Start, Goto, At,
        JobOf, OwningStep, TypeOK
    <3>2. status[j] = "Running"
      BY <1>0, <1>11, <2>2 DEF Start, rows, TypeOK
    <3>. QED BY <3>1, <3>2, MoverStays
  <2>. QED BY <2>1, <2>2, AttendedKept DEF RunnerAtWork
<1>12. ASSUME NEW w \in Workers, NoticeCancel(w)
      PROVE  RunningIsAttended'
  <2>1. runner' = runner /\ dbErrors' = dbErrors
    BY <1>12 DEF NoticeCancel, rows, bounds
  <2>2. ASSUME NEW j \in Jobs, status'[j] = "Running"
        PROVE  status[j] = "Running" /\ (Attended(j) => Attended(j)')
    <3>1. /\ \A v \in Workers : v # w => worker'[v] = worker[v]
          /\ worker[w].step \in OwningStep /\ worker[w].job = j =>
                 worker'[w].step \in OwningStep /\ worker'[w].job = j
      BY <1>0, <1>12, <2>2 DEF NoticeCancel, Goto, At,
        JobOf, OwningStep, TypeOK
    <3>2. status[j] = "Running"
      BY <1>0, <1>12, <2>2 DEF NoticeCancel, rows, TypeOK
    <3>. QED BY <3>1, <3>2, MoverStays
  <2>. QED BY <2>1, <2>2, AttendedKept DEF RunnerAtWork
<1>13. ASSUME NEW w \in Workers, Finish(w)
      PROVE  RunningIsAttended'
  <2>0. CASE dbErrors' # 0
    BY <2>0 DEF RunningIsAttended
  <2>1. CASE dbErrors' = 0
    <3>1. runner' = runner /\ dbErrors' = dbErrors
      BY <1>0, <1>13, <2>1, FinishMoves DEF TypeOK
    <3>2. ASSUME NEW j \in Jobs, status'[j] = "Running"
          PROVE  status[j] = "Running" /\ (Attended(j) => Attended(j)')
      <4>1. /\ \A v \in Workers : v # w => worker'[v] = worker[v]
            /\ worker[w].step \in OwningStep /\ worker[w].job = j =>
                   worker'[w].step \in OwningStep /\ worker'[w].job = j
        BY <1>0, <1>13, <3>2, FinishMoves DEF Goto, JobOf, OwningStep, TypeOK
      <4>2. status[j] = "Running"
        BY <1>13, <3>2, FinishMoves
      <4>. QED BY <4>1, <4>2, MoverStays
    <3>. QED BY <3>1, <3>2, AttendedKept DEF RunnerAtWork
  <2>. QED BY <2>0, <2>1
<1>14. ASSUME NEW w \in Workers, NEW again \in BOOLEAN, Fail(w, again)
      PROVE  RunningIsAttended'
  <2>1. runner' = runner /\ dbErrors' = dbErrors
    BY <1>14 DEF Fail, rows, bounds
  <2>2. ASSUME NEW j \in Jobs, status'[j] = "Running"
        PROVE  status[j] = "Running" /\ (Attended(j) => Attended(j)')
    <3>1. /\ \A v \in Workers : v # w => worker'[v] = worker[v]
          /\ worker[w].step \in OwningStep /\ worker[w].job = j =>
                 worker'[w].step \in OwningStep /\ worker'[w].job = j
      BY <1>0, <1>14, <2>2 DEF Fail, WorkerAt, At,
        JobOf, OwningStep, TypeOK
    <3>2. status[j] = "Running"
      BY <1>0, <1>14, <2>2 DEF Fail, rows, TypeOK
    <3>. QED BY <3>1, <3>2, MoverStays
  <2>. QED BY <2>1, <2>2, AttendedKept DEF RunnerAtWork
<1>15. ASSUME NEW w \in Workers, FindCancelled(w)
      PROVE  RunningIsAttended'
  <2>1. runner' = runner /\ dbErrors' = dbErrors
    BY <1>15 DEF FindCancelled, rows, bounds
  <2>2. ASSUME NEW j \in Jobs, status'[j] = "Running"
        PROVE  status[j] = "Running" /\ (Attended(j) => Attended(j)')
    <3>1. /\ \A v \in Workers : v # w => worker'[v] = worker[v]
          /\ worker[w].step \in OwningStep /\ worker[w].job = j =>
                 worker'[w].step \in OwningStep /\ worker'[w].job = j
      BY <1>0, <1>15, <2>2 DEF FindCancelled, End, NoWorker, rows, At,
        JobOf, OwningStep, TypeOK
    <3>2. status[j] = "Running"
      BY <1>0, <1>15, <2>2 DEF FindCancelled, rows, TypeOK
    <3>. QED BY <3>1, <3>2, MoverStays
  <2>. QED BY <2>1, <2>2, AttendedKept DEF RunnerAtWork
<1>16. ASSUME NEW w \in Workers, MarkCompleted(w)
      PROVE  RunningIsAttended'
  <2>1. runner' = runner /\ dbErrors' = dbErrors
    BY <1>16 DEF MarkCompleted, rows, bounds
  <2>2. ASSUME NEW j \in Jobs, status'[j] = "Running"
        PROVE  status[j] = "Running" /\ (Attended(j) => Attended(j)')
    <3>1. /\ \A v \in Workers : v # w => worker'[v] = worker[v]
          /\ worker[w].step \in OwningStep /\ worker[w].job = j =>
                 worker'[w].step \in OwningStep /\ worker'[w].job = j
      BY <1>0, <1>16, <2>2 DEF MarkCompleted, Goto, Outcome, At,
        JobOf, OwningStep, TypeOK
    <3>2. status[j] = "Running"
      BY <1>0, <1>16, <2>2 DEF MarkCompleted, rows, TypeOK, Outcome, JobOf
    <3>. QED BY <3>1, <3>2, MoverStays
  <2>. QED BY <2>1, <2>2, AttendedKept DEF RunnerAtWork
<1>17. ASSUME NEW w \in Workers, ReadFailed(w)
      PROVE  RunningIsAttended'
  <2>1. runner' = runner /\ dbErrors' = dbErrors
    BY <1>17 DEF ReadFailed, rows, bounds
  <2>2. ASSUME NEW j \in Jobs, status'[j] = "Running"
        PROVE  status[j] = "Running" /\ (Attended(j) => Attended(j)')
    <3>1. /\ \A v \in Workers : v # w => worker'[v] = worker[v]
          /\ worker[w].step \in OwningStep /\ worker[w].job = j =>
                 worker'[w].step \in OwningStep /\ worker'[w].job = j
      BY <1>0, <1>17, <2>2 DEF ReadFailed, WorkerAt, At,
        JobOf, OwningStep, TypeOK
    <3>2. status[j] = "Running"
      BY <1>0, <1>17, <2>2 DEF ReadFailed, rows, TypeOK
    <3>. QED BY <3>1, <3>2, MoverStays
  <2>. QED BY <2>1, <2>2, AttendedKept DEF RunnerAtWork
<1>18. ASSUME NEW w \in Workers, WriteFailed(w)
      PROVE  RunningIsAttended'
  <2>1. runner' = runner /\ dbErrors' = dbErrors
    BY <1>18 DEF WriteFailed, rows, bounds
  <2>2. ASSUME NEW j \in Jobs, status'[j] = "Running"
        PROVE  status[j] = "Running" /\ (Attended(j) => Attended(j)')
    <3>1. /\ \A v \in Workers : v # w => worker'[v] = worker[v]
          /\ worker[w].step \in OwningStep /\ worker[w].job = j =>
                 worker'[w].step \in OwningStep /\ worker'[w].job = j
      BY <1>0, <1>18, <2>2 DEF WriteFailed, WorkerAt, Outcome, At,
        JobOf, OwningStep, TypeOK
    <3>2. status[j] = "Running"
      BY <1>0, <1>18, <2>2 DEF WriteFailed, rows, TypeOK, Outcome, JobOf
    <3>. QED BY <3>1, <3>2, MoverStays
  <2>. QED BY <2>1, <2>2, AttendedKept DEF RunnerAtWork
<1>19. ASSUME NEW w \in Workers, CancelOwn(w)
      PROVE  RunningIsAttended'
  <2>1. runner' = runner /\ dbErrors' = dbErrors
    BY <1>19 DEF CancelOwn, rows, bounds
  <2>2. ASSUME NEW j \in Jobs, status'[j] = "Running"
        PROVE  status[j] = "Running" /\ (Attended(j) => Attended(j)')
    <3>1. /\ \A v \in Workers : v # w => worker'[v] = worker[v]
          /\ worker[w].step \in OwningStep /\ worker[w].job = j =>
                 worker'[w].step \in OwningStep /\ worker'[w].job = j
      BY <1>0, <1>19, <2>2 DEF CancelOwn, Goto, CancelRow, At,
        JobOf, OwningStep, TypeOK
    <3>2. status[j] = "Running"
      BY <1>0, <1>19, <2>2 DEF CancelOwn, rows, TypeOK, CancelRow, JobOf
    <3>. QED BY <3>1, <3>2, MoverStays
  <2>. QED BY <2>1, <2>2, AttendedKept DEF RunnerAtWork
<1>20. ASSUME NEW w \in Workers, SettleOwn(w)
      PROVE  RunningIsAttended'
  <2>1. runner' = runner /\ dbErrors' = dbErrors
    BY <1>20 DEF SettleOwn, rows, bounds
  <2>2. ASSUME NEW j \in Jobs, status'[j] = "Running"
        PROVE  status[j] = "Running" /\ (Attended(j) => Attended(j)')
    <3>1. /\ \A v \in Workers : v # w => worker'[v] = worker[v]
          /\ worker[w].step \in OwningStep /\ worker[w].job = j =>
                 worker'[w].step \in OwningStep /\ worker'[w].job = j
      BY <1>0, <1>20, <2>2 DEF SettleOwn, Goto, End, At,
        JobOf, OwningStep, TypeOK
    <3>2. status[j] = "Running"
      BY <1>0, <1>20, <2>2 DEF SettleOwn, rows, TypeOK
    <3>. QED BY <3>1, <3>2, MoverStays
  <2>. QED BY <2>1, <2>2, AttendedKept DEF RunnerAtWork
<1>21. ASSUME NEW w \in Workers, DeleteOwn(w)
      PROVE  RunningIsAttended'
  <2>1. runner' = runner /\ dbErrors' = dbErrors
    BY <1>21 DEF DeleteOwn, rows, bounds
  <2>2. ASSUME NEW j \in Jobs, status'[j] = "Running"
        PROVE  status[j] = "Running" /\ (Attended(j) => Attended(j)')
    <3>1. /\ \A v \in Workers : v # w => worker'[v] = worker[v]
          /\ worker[w].step \in OwningStep /\ worker[w].job = j =>
                 worker'[w].step \in OwningStep /\ worker'[w].job = j
      BY <1>0, <1>21, <2>2 DEF DeleteOwn, End, At,
        JobOf, OwningStep, TypeOK
    <3>2. status[j] = "Running"
      BY <1>0, <1>21, <2>2 DEF DeleteOwn, rows, TypeOK, JobOf
    <3>. QED BY <3>1, <3>2, MoverStays
  <2>. QED BY <2>1, <2>2, AttendedKept DEF RunnerAtWork
<1>22. ASSUME NEW w \in Workers, DbError(w)
      PROVE  RunningIsAttended'
  <2>1. dbErrors' # 0
    BY <1>0, <1>22 DEF DbError, TypeOK
  <2>. QED BY <2>1 DEF RunningIsAttended
<1>23. ASSUME NEW w \in Workers, NEW j \in Jobs, Claim(w, j)
      PROVE  RunningIsAttended'
  <2>1. /\ runner' = runner /\ dbErrors' = dbErrors
        /\ worker' = [worker EXCEPT ![w] = WorkerAt(j, "claimed", FALSE, 0)]
        /\ worker[w] = NoWorker
        /\ \A i \in Jobs : i # j => status'[i] = status[i]
    BY <1>0, <1>23 DEF Claim, bounds, TypeOK
  <2>2. worker[w].step \notin OwningStep
    BY <2>1 DEF NoWorker, WorkerAt, OwningStep
  <2>3. Attended(j)'
    <3>1. worker'[w] = WorkerAt(j, "claimed", FALSE, 0)
      BY <1>0, <2>1 DEF TypeOK
    <3>. QED BY <3>1 DEF Attended, WorkerAt, OwningStep
  <2>4. ASSUME NEW i \in Jobs, i # j, Attended(i)
        PROVE  Attended(i)'
    <3>1. \A v \in Workers : v # w => worker'[v] = worker[v]
      BY <1>0, <2>1 DEF TypeOK
    <3>. QED BY <2>2, <2>4, <3>1, MoverStays
  <2>. QED BY Zenon, <2>1, <2>3, <2>4 DEF RunningIsAttended, Attended, JobOf
<1>. QED BY Zenon, NextCases, <1>1, <1>2, <1>3, <1>4, <1>5, <1>6, <1>7, <1>8,
  <1>9, <1>10, <1>11, <1>12, <1>13, <1>14, <1>15, <1>16, <1>17, <1>18, <1>19,
  <1>20, <1>21, <1>22, <1>23

(* While a runner claims or drains, every Running row has a worker at it,  *)
(* as long as the database refused no worker's statement.                  *)
THEOREM RunningIsWatched == Spec => []RunningIsAttended
<1>1. Init => RunningIsAttended
  BY DEF Init, RunningIsAttended
<1>2. ASSUME IInv, RunningIsAttended, [Next]_vars PROVE RunningIsAttended'
  <2>1. CASE UNCHANGED vars
    BY <1>2, <2>1 DEF vars, RunningIsAttended, JobOf
  <2>. QED BY <1>2, <2>1, AttendedStep
<1>. QED BY <1>1, <1>2, Invariant, PTL DEF Spec

-----------------------------------------------------------------------------
(* The tables and nothing else: the ledger.                                *)

(* What mark_job_failed has read is still so when it writes, unless the row*)
(* was cancelled in between: it writes the row's count and one more.       *)
WritersCount ==
    \A w \in Workers :
        worker[w].step = "writing" /\ status[JobOf(w)] = "Running" =>
            worker[w].count = retries[JobOf(w)] + 1

(* A step that runs no row and leaves the writers alone keeps their counts.*)
LEMMA WritersStay ==
    ASSUME IInv, WritersCount,
           \A j \in Jobs : status'[j] = "Running" =>
               status[j] = "Running" /\ retries'[j] = retries[j],
           \A w \in Workers : worker'[w].step = "writing" => worker'[w] = worker[w]
    PROVE  WritersCount'
  BY DEF IInv, WorkersHaveRunner, WritersCount, JobOf

(* Between the two statements no other worker is at the row, and nobody    *)
(* recovers it.                                                            *)
LEMMA WritersStep ==
    ASSUME IInv, WritersCount, Next
    PROVE  WritersCount'
<1>1. ASSUME UNCHANGED <<rows, worker>>
      PROVE  WritersCount'
  BY <1>1 DEF WritersCount, rows, JobOf
<1>2. ASSUME NEW j \in Jobs, NEW s \in Sessions \cup {NoSession}, NEW lineage, Insert(j, s, lineage)
      PROVE  WritersCount'
  BY <1>2, WritersStay DEF Insert, IInv, TypeOK
<1>3. ASSUME NEW j \in Jobs, CancelJob(j)
      PROVE  WritersCount'
  BY <1>3, WritersStay DEF CancelJob, CancelRow, IInv, TypeOK
<1>4. ASSUME NEW j \in Jobs, Retry(j)
      PROVE  WritersCount'
  BY <1>4, WritersStay DEF Retry, IInv, TypeOK
<1>5. ASSUME NEW s \in Sessions, CancelSession(s) \/ CancelBulk(s)
      PROVE  WritersCount'
  BY <1>5, WritersStay DEF CancelSession, CancelBulk, IInv, TypeOK
<1>6. ASSUME NEW r \in Runners, Recover(r)
      PROVE  WritersCount'
  <2>1. \A w \in Workers : worker[w].step = "idle"
    BY <1>6 DEF Recover, IInv, WorkersHaveRunner, LockIsExclusive, Owns, Workers
  <2>. QED BY <1>6, <2>1 DEF Recover, RecoverInterrupted, WritersCount
<1>7. ASSUME NEW r \in Runners, DrainEnds(r) \/ Kill(r)
      PROVE  WritersCount'
  BY <1>7, WritersStay DEF DrainEnds, Kill, StopWorkers, NoWorker, WorkerAt, rows
<1>8. ASSUME NEW w \in Workers, Start(w) \/ NoticeCancel(w) \/ Finish(w) \/ FindCancelled(w)
                                \/ SettleOwn(w) \/ DbError(w) \/ \E again \in BOOLEAN : Fail(w, again)
      PROVE  WritersCount'
  <2>1. \A v \in Workers : worker'[v].step = "writing" => worker'[v] = worker[v]
    BY <1>8 DEF Start, NoticeCancel, FindCancelled, SettleOwn,
       Finish, Succeed, StopWaiting, CountFails, DbError, Fail, Goto,
                End, NoWorker, WorkerAt, IInv, TypeOK
  <2>2. UNCHANGED rows
    BY <1>8 DEF Start, NoticeCancel, FindCancelled, SettleOwn,
       Finish, Succeed, StopWaiting, CountFails, DbError, Fail
  <2>. QED BY <2>1, <2>2, WritersStay DEF rows
<1>9. ASSUME NEW w \in Workers, ReadFailed(w)
      PROVE  WritersCount'
  BY <1>9 DEF ReadFailed, WorkerAt, WritersCount, JobOf, rows, IInv, TypeOK
<1>10. ASSUME NEW w \in Workers, MarkCompleted(w) \/ WriteFailed(w) \/ CancelOwn(w) \/ DeleteOwn(w)
      PROVE  WritersCount'
  <2>1. \A v \in Workers : worker'[v].step = "writing" => worker'[v] = worker[v]
    BY <1>10 DEF MarkCompleted, WriteFailed, CancelOwn, DeleteOwn, Goto,
                 End, NoWorker, WorkerAt, IInv, TypeOK
  <2>2. PICK j \in Jobs : j = JobOf(w)
    BY <1>10 DEF MarkCompleted, WriteFailed, CancelOwn, DeleteOwn, At, IInv,
                 WorkersHaveRunner, JobOf
  <2>3. status'[j] # "Running" /\ \A i \in Jobs : i # j => status'[i] = status[i] /\ retries'[i] = retries[i]
    BY <1>10, <2>2 DEF MarkCompleted, WriteFailed, CancelOwn, CancelRow, DeleteOwn, Outcome,
                 IInv, TypeOK
  <2>. QED BY <2>1, <2>3, WritersStay
<1>11. ASSUME NEW w \in Workers, NEW j \in Jobs, Claim(w, j)
      PROVE  WritersCount'
  <2>1. \A v \in Workers : worker[v].step = "writing" => JobOf(v) # j
    BY <1>11 DEF Claim, IInv, OneWorkerPerJob, OwningStep
  <2>2. \A v \in Workers : worker'[v].step = "writing" => worker'[v] = worker[v]
    BY <1>11 DEF Claim, WorkerAt, IInv, TypeOK
  <2>3. retries' = retries /\ \A i \in Jobs : i # j => status'[i] = status[i]
    BY <1>11 DEF Claim, IInv, TypeOK
  <2>. QED BY <2>1, <2>2, <2>3 DEF WritersCount, JobOf, IInv, WorkersHaveRunner
<1>12. ASSUME NEW s \in Sessions, SettleCancelled(s) \/ CloseIdle(s) \/ FailSession(s)
      PROVE  UNCHANGED <<rows, worker>>
  BY <1>12 DEF SettleCancelled, CloseIdle, FailSession
<1>13. ASSUME NEW r \in Runners, Acquire(r) \/ Shutdown(r)
      PROVE  UNCHANGED <<rows, worker>>
  BY <1>13 DEF Acquire, Shutdown
<1>. QED BY Zenon, NextCases, <1>1, <1>2, <1>3, <1>4, <1>5, <1>6, <1>7, <1>8, <1>9,
  <1>10, <1>11, <1>12, <1>13 DEF CreateJob, Spawn

(* Only a job that is not kept for the record gets to its own deletion.    *)
DeletersReplayable ==
    \A w \in Workers : worker[w].step = "deleting" => JobOf(w) \in Replayable

(* SettleOwn alone sends a worker there, and looks at its job first.       *)
LEMMA DeletersReplayableStep ==
    ASSUME IInv, DeletersReplayable, Next
    PROVE  DeletersReplayable'
<1>1. SUFFICES ASSUME NEW v \in Workers, worker'[v].step = "deleting",
                      worker'[v] # worker[v]
               PROVE  JobOf(v)' \in Replayable
  BY DEF DeletersReplayable, JobOf
<1>2. ASSUME NEW w \in Workers, SettleOwn(w)
      PROVE  JobOf(v)' \in Replayable
  BY <1>1, <1>2 DEF SettleOwn, End, Goto, NoWorker, WorkerAt, JobOf, IInv, TypeOK
<1>3. ASSUME NEW w \in Workers,
             \/ Start(w) \/ NoticeCancel(w) \/ Finish(w) \/ FindCancelled(w)
             \/ MarkCompleted(w) \/ ReadFailed(w) \/ WriteFailed(w) \/ CancelOwn(w)
             \/ DeleteOwn(w) \/ DbError(w) \/ \E again \in BOOLEAN : Fail(w, again)
             \/ \E j \in Jobs : Claim(w, j)
      PROVE  FALSE
  BY <1>1, <1>3 DEF Start, NoticeCancel, Fail, FindCancelled, MarkCompleted,
    Finish, Succeed, StopWaiting, CountFails,
    ReadFailed, WriteFailed, CancelOwn, DeleteOwn, DbError, Claim, Goto, End, NoWorker,
    WorkerAt, IInv, TypeOK
<1>4. ASSUME NEW r \in Runners, DrainEnds(r) \/ Kill(r)
      PROVE  FALSE
  BY <1>1, <1>4 DEF DrainEnds, Kill, StopWorkers, NoWorker, WorkerAt
<1>5. ASSUME NEW r \in Runners, Acquire(r) \/ Recover(r) \/ Shutdown(r)
      PROVE  FALSE
  BY <1>1, <1>5 DEF Acquire, Recover, RecoverInterrupted, Shutdown
<1>6. ASSUME NEW j \in Jobs, CancelJob(j) \/ Retry(j)
      PROVE  FALSE
  BY <1>1, <1>6 DEF CancelJob, Retry
<1>7. ASSUME NEW j \in Jobs, NEW s \in Sessions \cup {NoSession},
             CreateJob(j, s) \/ \E w \in Workers : Spawn(w, j, s)
      PROVE  FALSE
  BY <1>1, <1>7 DEF CreateJob, Spawn, Insert
<1>8. ASSUME NEW s \in Sessions,
             SettleCancelled(s) \/ CancelSession(s) \/ CancelBulk(s) \/ CloseIdle(s) \/ FailSession(s)
      PROVE  FALSE
  BY <1>1, <1>8 DEF SettleCancelled, CancelSession, CancelBulk, CloseIdle, FailSession
<1>. QED BY Zenon, NextCases, <1>2, <1>3, <1>4, <1>5, <1>6, <1>7, <1>8

(* What the ledger's steps need to know of the workers.                    *)
LedgerInv == IInv /\ RetriesCounted /\ WritersCount /\ DeletersReplayable

(* Settling a session closes one in which nothing is left, or does nothing.*)
LEMMA SettleIsLedger ==
    ASSUME LedgerInv, NEW s \in Sessions \cup {NoSession}, Settle(s), UNCHANGED rows
    PROVE  [Ledger!Next]_(Ledger!vars)
<1>1. CASE session' = session
  BY <1>1 DEF Ledger!vars, rows
<1>2. CASE session' # session
  <2>1. /\ s \in Sessions /\ session[s] # "Cancelled"
        /\ session' = [session EXCEPT ![s] = SettledStatus(s)]
    BY <1>2 DEF Settle
  <2>2. ~HasLive(s)
    <3>1. SUFFICES ASSUME HasLive(s) PROVE FALSE
      OBVIOUS
    <3>2. session[s] = "Active" /\ SettledStatus(s) = "Active"
      BY <2>1, <3>1 DEF LedgerInv, IInv, EndedSessionsAreIdle, TypeOK, SessionStatus, SettledStatus
    <3>. QED BY <1>2, <2>1, <3>2 DEF LedgerInv, IInv, TypeOK
  <2>3. /\ \A j \in Ledger!RowsOf(s) : ~Ledger!Live(j)
        /\ HasFailed(s) => \E j \in Ledger!RowsOf(s) : status[j] = "Failed"
    BY <2>2 DEF HasLive, HasFailed, Live, Ledger!RowsOf, Ledger!Live
  <2>4. Ledger!EndSession(s, "Completed") \/ Ledger!EndSession(s, "Failed")
    BY <2>1, <2>2, <2>3 DEF SettledStatus, Ledger!EndSession, rows
  <2>. QED BY <2>1, <2>4 DEF Ledger!Next
<1>. QED BY <1>1, <1>2

(* The two modules mean the same by a cancelled session and a live row.    *)
LEMMA ClosedIsCancelled ==
    \A j : (Ledger!Closed(j) <=> SessionCancelled(j)) /\ (Ledger!Live(j) <=> Live(j))
  BY DEF Ledger!Closed, SessionCancelled, Live, Ledger!Live

(* An insert is the opening of a row.                                      *)
LEMMA InsertIsLedger ==
    ASSUME NEW j \in Jobs, NEW s \in Sessions \cup {NoSession}, NEW lineage,
           Insert(j, s, lineage)
    PROVE  Ledger!Next
<1>1. Ledger!Open(j, s)
  BY DEF Insert, Ledger!Open, Ledger!Reopened
<1>. QED BY <1>1 DEF Ledger!Next

(* Cancelling a row that is cancelled already shows nothing.               *)
LEMMA CancelRowIsLedger ==
    ASSUME LedgerInv, NEW j \in Jobs, CancelRow(j), UNCHANGED <<sessionOf, retries, session>>
    PROVE  [Ledger!Next]_(Ledger!vars)
<1>1. CASE status[j] = "Cancelled"
  BY <1>1 DEF CancelRow, LedgerInv, IInv, TypeOK, Ledger!vars
<1>2. CASE status[j] # "Cancelled"
  <2>1. Ledger!CancelRows({j})
    BY <1>2 DEF CancelRow, LedgerInv, IInv, TypeOK, Ledger!CancelRows, Ledger!CancelAll, Ledger!Live
  <2>. QED BY <2>1 DEF Ledger!Next
<1>. QED BY <1>1, <1>2

(* Whatever touches neither rows nor sessions shows nothing.               *)
LEMMA QuietIsLedger ==
    ASSUME UNCHANGED <<rows, session>>
    PROVE  [Ledger!Next]_(Ledger!vars)
  BY DEF rows, Ledger!vars

(* The outcomes the workers write for rows that are still running.         *)
LEMMA CompletionIsLedger ==
    ASSUME LedgerInv, NEW w \in Workers, MarkCompleted(w)
    PROVE  [Ledger!Next]_(Ledger!vars)
<1>1. PICK j \in Jobs : j = JobOf(w)
  BY DEF MarkCompleted, At, LedgerInv, IInv, WorkersHaveRunner, JobOf
<1>2. status[j] = "Running"
  BY <1>1 DEF MarkCompleted, At, LedgerInv, IInv, OneWorkerPerJob, OwningStep
<1>3. CASE SessionCancelled(j)
  <2>1. status' = [status EXCEPT ![j] = "Cancelled"]
    BY <1>1, <1>3 DEF MarkCompleted, Outcome
  <2>. QED BY <1>2, <2>1, CancelRowIsLedger DEF CancelRow, MarkCompleted
<1>4. CASE ~SessionCancelled(j)
  <2>1. status' = [status EXCEPT ![j] = "Completed"]
    BY <1>1, <1>4 DEF MarkCompleted, Outcome
  <2>2. Ledger!Complete(j)
    BY <1>2, <1>4, <2>1, ClosedIsCancelled DEF MarkCompleted, Ledger!Complete
  <2>. QED BY <2>2 DEF Ledger!Next
<1>. QED BY <1>3, <1>4

(* A failure is counted on the row's own count, within the row's budget.   *)
LEMMA FailureIsLedger ==
    ASSUME LedgerInv, NEW w \in Workers, WriteFailed(w)
    PROVE  Ledger!Next
<1>1. PICK j \in Jobs : j = JobOf(w)
  BY DEF WriteFailed, At, LedgerInv, IInv, WorkersHaveRunner, JobOf
<1>2. status[j] = "Running"
  BY <1>1 DEF WriteFailed, At, LedgerInv, IInv, OneWorkerPerJob, OwningStep
<1>3. /\ worker[w].count = retries[j] + 1
      /\ worker[w].again => retries[j] + 1 < MaxRetries
  BY <1>1, <1>2 DEF WriteFailed, At, LedgerInv, WritersCount, RetriesCounted
<1>4. PICK new : new = Outcome(j, IF worker[w].again THEN "Pending" ELSE "Failed")
  OBVIOUS
<1>5. new \in {"Pending", "Failed", "Cancelled"} /\ Ledger!AfterFailure(j, new)
  BY <1>3, <1>4, ClosedIsCancelled DEF Outcome, Ledger!AfterFailure
<1>6. /\ status' = [status EXCEPT ![j] = new]
      /\ retries' = [retries EXCEPT ![j] = @ + 1]
      /\ UNCHANGED <<sessionOf, session>>
  BY <1>1, <1>3, <1>4 DEF WriteFailed
<1>7. Ledger!FailRow(j)
  BY <1>2, <1>5, <1>6 DEF Ledger!FailRow
<1>. QED BY <1>7 DEF Ledger!Next

(* A recovery is one interruption of everything that runs.                 *)
LEMMA RecoveryIsLedger ==
    ASSUME LedgerInv, RecoverInterrupted
    PROVE  Ledger!Next
<1>1. ASSUME NEW j \in Jobs, status[j] = "Running"
      PROVE  /\ Ledger!AfterFailure(j, status'[j])
             /\ status'[j] = "Pending" => j \in Replayable
  <2>1. status'[j] = Recovered(j)
    BY <1>1 DEF RecoverInterrupted
  <2>. QED BY <2>1, ClosedIsCancelled DEF Recovered, Ledger!AfterFailure
<1>2. \A j \in Jobs : status[j] # "Running" => status'[j] = status[j]
  BY DEF RecoverInterrupted
<1>3. Ledger!InterruptAll
  BY <1>1, <1>2 DEF RecoverInterrupted, Ledger!InterruptAll
<1>. QED BY <1>3 DEF Ledger!Next

(* Each statement is a move of the ledger or none.                         *)
LEMMA LedgerStep ==
    ASSUME LedgerInv, Next
    PROVE  [Ledger!Next]_(Ledger!vars)
<1>1. ASSUME NEW j \in Jobs, NEW s \in Sessions \cup {NoSession},
             CreateJob(j, s) \/ \E w \in Workers : Spawn(w, j, s)
      PROVE  Ledger!Next
  BY <1>1, InsertIsLedger DEF CreateJob, Spawn
<1>2. ASSUME NEW j \in Jobs, CancelJob(j)
      PROVE  [Ledger!Next]_(Ledger!vars)
  BY <1>2, CancelRowIsLedger DEF CancelJob
<1>3. ASSUME NEW j \in Jobs, Retry(j)
      PROVE  Ledger!Next
  <2>1. Ledger!Replay(j)
    BY <1>3, ClosedIsCancelled DEF Retry, Ledger!Replay, Ledger!Reopened
  <2>. QED BY <2>1 DEF Ledger!Next
<1>4. ASSUME NEW s \in Sessions, SettleCancelled(s)
      PROVE  [Ledger!Next]_(Ledger!vars)
  BY <1>4, SettleIsLedger DEF SettleCancelled
<1>5. ASSUME NEW s \in Sessions, CancelSession(s)
      PROVE  Ledger!Next
  <2>1. \A j \in Jobs : j \in {i \in Ledger!RowsOf(s) : status[i] = "Pending"}
                        <=> sessionOf[j] = s /\ status[j] = "Pending"
    BY DEF Ledger!RowsOf
  <2>2. Ledger!CancelSession(s)
    BY <1>5, <2>1 DEF CancelSession, Ledger!CancelSession, Ledger!CancelAll
  <2>. QED BY <2>2 DEF Ledger!Next
<1>6. ASSUME NEW s \in Sessions, CancelBulk(s)
      PROVE  Ledger!Next
  <2>. DEFINE some == {j \in Ledger!RowsOf(s) : Ledger!Live(j)}
  <2>1. /\ \A j \in some : Ledger!Live(j)
        /\ \A j \in Jobs : j \in some <=> sessionOf[j] = s /\ Live(j)
    BY DEF Ledger!RowsOf, Ledger!Live, Live
  <2>. HIDE DEF some
  <2>2. Ledger!CancelRows(some)
    BY <1>6, <2>1 DEF CancelBulk, Ledger!CancelRows, Ledger!CancelAll
  <2>. QED BY <2>2 DEF Ledger!Next, some
<1>7. ASSUME NEW s \in Sessions, CloseIdle(s) \/ FailSession(s)
      PROVE  Ledger!Next
  <2>1. \A j \in Ledger!RowsOf(s) : ~Ledger!Live(j)
    BY <1>7 DEF CloseIdle, FailSession, HasLive, Live, Ledger!RowsOf, Ledger!Live
  <2>2. FailSession(s) => Ledger!RowsOf(s) = {}
    BY DEF FailSession, Ledger!RowsOf
  <2>3. Ledger!EndSession(s, "Completed") \/ Ledger!EndSession(s, "Failed")
    BY <1>7, <2>1, <2>2 DEF CloseIdle, FailSession, Ledger!EndSession, rows
  <2>. QED BY <2>3 DEF Ledger!Next
<1>8. ASSUME NEW r \in Runners, Recover(r)
      PROVE  Ledger!Next
  BY <1>8, RecoveryIsLedger DEF Recover
<1>9. ASSUME NEW r \in Runners, Acquire(r) \/ DrainEnds(r) \/ Shutdown(r) \/ Kill(r)
      PROVE  UNCHANGED <<rows, session>>
  BY <1>9 DEF Acquire, DrainEnds, Shutdown, Kill
<1>10. ASSUME NEW w \in Workers,
              \/ Start(w) \/ NoticeCancel(w) \/ Finish(w) \/ FindCancelled(w)
              \/ ReadFailed(w) \/ DbError(w) \/ \E again \in BOOLEAN : Fail(w, again)
       PROVE  UNCHANGED <<rows, session>>
  BY <1>10 DEF Start, NoticeCancel, FindCancelled, ReadFailed, DbError, Fail,
    Finish, Succeed, StopWaiting, CountFails
<1>11. ASSUME NEW w \in Workers, NEW j \in Jobs, Claim(w, j)
       PROVE  Ledger!Next
  <2>1. Ledger!Take(j)
    BY <1>11 DEF Claim, Ledger!Take
  <2>. QED BY <2>1 DEF Ledger!Next
<1>12. ASSUME NEW w \in Workers, CancelOwn(w)
       PROVE  [Ledger!Next]_(Ledger!vars)
  <2>1. JobOf(w) \in Jobs
    BY <1>12 DEF CancelOwn, At, LedgerInv, IInv, WorkersHaveRunner, JobOf
  <2>. QED BY <1>12, <2>1, CancelRowIsLedger DEF CancelOwn
<1>13. ASSUME NEW w \in Workers, SettleOwn(w)
       PROVE  [Ledger!Next]_(Ledger!vars)
  <2>1. JobOf(w) \in Jobs
    BY <1>13 DEF SettleOwn, LedgerInv, IInv, WorkersHaveRunner, JobOf
  <2>2. sessionOf[JobOf(w)] \in Sessions \cup {NoSession}
    BY <2>1 DEF LedgerInv, IInv, TypeOK
  <2>. QED BY <1>13, <2>2, SettleIsLedger DEF SettleOwn
<1>14. ASSUME NEW w \in Workers, DeleteOwn(w)
       PROVE  [Ledger!Next]_(Ledger!vars)
  <2>1. PICK j \in Jobs : j = JobOf(w)
    BY <1>14 DEF DeleteOwn, At, LedgerInv, IInv, WorkersHaveRunner, JobOf
  <2>2. j \in Replayable /\ status[j] \in {"Completed", "Deleted"}
    BY <1>14, <2>1 DEF DeleteOwn, At, LedgerInv, DeletersReplayable, IInv, DeletersCompleted
  <2>3. /\ status' = [status EXCEPT ![j] = "Deleted"]
        /\ UNCHANGED <<sessionOf, retries, session>>
    BY <1>14, <2>1 DEF DeleteOwn
  <2>4. CASE status[j] = "Deleted"
    BY <2>3, <2>4 DEF LedgerInv, IInv, TypeOK, Ledger!vars
  <2>5. CASE status[j] = "Completed"
    BY <2>2, <2>3, <2>5 DEF Ledger!Remove, Ledger!Next
  <2>. QED BY <2>2, <2>4, <2>5
<1>. QED BY Zenon, NextCases, <1>1, <1>2, <1>3, <1>4, <1>5, <1>6, <1>7, <1>8, <1>9, <1>10,
  <1>11, <1>12, <1>13, <1>14, CompletionIsLedger, FailureIsLedger, QuietIsLedger

(* Runners that die, workers aborted between two statements, a late outcome*)
(* and a cancellation that crosses it: the tables show none of it.  Every  *)
(* statement is one move of the ledger, or no move.                        *)
THEOREM LedgerIsKept == Spec => LedgerKept
<1>1. Init => LedgerInv
  BY InitIInv DEF Init, LedgerInv, RetriesCounted, WithinRetryBudget, WritersCount,
    DeletersReplayable, NoWorker, WorkerAt
<1>2. ASSUME LedgerInv, [Next]_vars PROVE LedgerInv' /\ [Ledger!Next]_(Ledger!vars)
  <2>1. CASE UNCHANGED vars
    BY <1>2, <2>1, StutterIInv DEF vars, LedgerInv, RetriesCounted, WithinRetryBudget, Live,
      WritersCount, DeletersReplayable, JobOf, Ledger!vars
  <2>2. CASE Next
    <3>1. IInv'
      BY <1>2, <2>2, Invariant, TypeStep, LockStep, WorkersStep, OwnStep, DeletersStep,
        QuietStep, IdleStep DEF LedgerInv, IInv
    <3>. QED BY <1>2, <2>2, <3>1, RetriesStep, WritersStep, DeletersReplayableStep, LedgerStep
      DEF LedgerInv
  <2>. QED BY <1>2, <2>1, <2>2
<1>3. Init => Ledger!Init
  BY DEF Init, Ledger!Init
<1>. QED BY <1>1, <1>2, <1>3, PTL DEF Spec, LedgerKept, Ledger!Spec
=============================================================================
