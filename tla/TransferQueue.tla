--------------------------- MODULE TransferQueue ----------------------------
(***************************************************************************)
(* One queue of client/spume's transferQueue.ts: a pool of workers that     *)
(* claim items off a shared counter and send them, with pause, resume and   *)
(* cancel of the queue, and pause and resume of a single item.              *)
(*                                                                         *)
(* A worker is a promise chain.  Each await is a point where other code of  *)
(* the page runs, the one in waitIfPaused of a queue that is not paused     *)
(* included: what a worker read before it may be old when it goes on.       *)
(***************************************************************************)
EXTENDS Integers, FiniteSets

CONSTANTS N,            \* options.items.length; the item ids are 1..N
          Concurrency,  \* options.concurrency
          MaxOps        \* how many calls the user makes (a bound)

ASSUME CountAssumption == N \in Nat /\ Concurrency \in Nat \ {0} /\ MaxOps \in Nat

VARIABLES worker,       \* where the promise chain of each worker is
          holds,        \* the item a worker is sending, 0 when it sends none
          nextIndex,    \* how many indexes have been claimed
          status,       \* of each item in the registry
          reported,     \* the items that have a blobTransferBlake3
          pausing,      \* the items with a pauseBlobTransfer call in flight
          paused,       \* ctrl.paused, mirrored in the registry
          cancelled,    \* ctrl.cancelled
          done,         \* the queue is marked done
          reports,      \* how often onDone was called
          present,      \* the queue is in the registry
          ops           \* user calls made

poolVars == <<worker, holds, nextIndex>>
itemVars == <<status, reported, pausing>>
ctrlVars == <<paused, cancelled>>
endVars  == <<done, reports, present>>
vars == <<poolVars, itemVars, ctrlVars, endVars, ops>>

Items == 1..N
WorkerCount == LET most == IF N = 0 THEN 1 ELSE N
               IN  IF Concurrency < most THEN Concurrency ELSE most
Workers == 1..WorkerCount

\* top: about to test cancelled; waiting: in pauseWaiters; awake: past the wait;
\* sending: in sendOne; gone: returned.
WorkerStates == {"top", "waiting", "awake", "sending", "gone"}
Statuses     == {"pending", "active", "paused", "completed", "failed"}
-----------------------------------------------------------------------------
(* The workers *)

Become(w, state) == worker' = [worker EXCEPT ![w] = state]

\* The head of the loop: the first test of cancelled, and waitIfPaused.
Turn(w) ==
    /\ worker[w] = "top"
    /\ Become(w, IF cancelled THEN "gone" ELSE IF paused THEN "waiting" ELSE "awake")
    /\ UNCHANGED <<holds, nextIndex, itemVars, ctrlVars, endVars, ops>>

Leave(w) == Become(w, "gone") /\ UNCHANGED <<holds, nextIndex, status>>

\* Slip: no second test of cancelled after the wait.
ClaimUntested(w) ==
    /\ worker[w] = "awake"
    /\ IF nextIndex >= N
       THEN Leave(w)
       ELSE /\ Become(w, "sending")
            /\ nextIndex' = nextIndex + 1
            /\ holds' = [holds EXCEPT ![w] = nextIndex + 1]
            /\ status' = [status EXCEPT ![nextIndex + 1] = "active"]
    /\ UNCHANGED <<reported, pausing, ctrlVars, endVars, ops>>

\* Past the wait: test cancelled again, claim an index, start its item.
Claim(w) ==
    /\ worker[w] = "awake"
    /\ IF cancelled \/ nextIndex >= N
       THEN Leave(w)
       ELSE /\ Become(w, "sending")
            /\ nextIndex' = nextIndex + 1
            /\ holds' = [holds EXCEPT ![w] = nextIndex + 1]
            /\ status' = [status EXCEPT ![nextIndex + 1] = "active"]
    /\ UNCHANGED <<reported, pausing, ctrlVars, endVars, ops>>

\* sendOne names the blob behind its item.
ReportBlake3(w) ==
    /\ worker[w] = "sending"
    /\ reported' = reported \cup {holds[w]}
    /\ UNCHANGED <<poolVars, status, pausing, ctrlVars, endVars, ops>>

\* sendOne resolves, with or without an error, or throws.
Settle(w, outcome) ==
    /\ worker[w] = "sending"
    /\ Become(w, "top")
    /\ holds' = [holds EXCEPT ![w] = 0]
    /\ status' = [status EXCEPT ![holds[w]] = outcome]
    /\ UNCHANGED <<nextIndex, reported, pausing, ctrlVars, endVars, ops>>

\* Promise.all resolves: the queue is marked done and its owner is told.
Finish ==
    /\ \A w \in Workers : worker[w] = "gone"
    /\ ~done
    /\ done' = TRUE
    /\ reports' = reports + 1
    /\ UNCHANGED <<poolVars, itemVars, ctrlVars, present, ops>>
-----------------------------------------------------------------------------
(* The user *)

UserCall == ops < MaxOps /\ ops' = ops + 1 /\ present

Pause ==
    /\ UserCall
    /\ ~cancelled
    /\ paused' = TRUE
    /\ UNCHANGED <<poolVars, itemVars, cancelled, endVars>>

\* Slip: a resume wakes the first waiter only.
WakeFirst ==
    worker' = [w \in Workers |->
                 IF worker[w] = "waiting" /\ \A v \in Workers : v < w => worker[v] # "waiting"
                 THEN "awake" ELSE worker[w]]

\* resumeTransferQueue takes every waiter out of pauseWaiters and calls it.
WakeAll == worker' = [w \in Workers |-> IF worker[w] = "waiting" THEN "awake" ELSE worker[w]]

Resume ==
    /\ UserCall
    /\ paused' = FALSE
    /\ WakeAll
    /\ UNCHANGED <<holds, nextIndex, itemVars, cancelled, endVars>>

\* Slip: a cancel does not unblock the workers that wait.
CancelWithoutWaking ==
    /\ UserCall
    /\ cancelled' = TRUE
    /\ UNCHANGED <<poolVars, itemVars, paused, endVars>>

\* Cancel also resumes, so that a waiting worker sees the cancellation.
Cancel ==
    /\ UserCall
    /\ cancelled' = TRUE
    /\ paused' = FALSE
    /\ WakeAll
    /\ UNCHANGED <<holds, nextIndex, itemVars, endVars>>

Clear ==
    /\ UserCall
    /\ done
    /\ present' = FALSE
    /\ UNCHANGED <<poolVars, itemVars, ctrlVars, done, reports>>

\* pauseTransferQueueItem calls pauseBlobTransfer, which asks the node to cancel.
PauseItem(i) ==
    /\ UserCall
    /\ i \in reported
    /\ pausing' = pausing \cup {i}
    /\ UNCHANGED <<poolVars, status, reported, ctrlVars, endVars>>

\* The node answers whether it cancelled anything; what the item did in the
\* meantime is not looked at.
PauseItemAnswered(i, cancelledAny) ==
    /\ i \in pausing
    /\ pausing' = pausing \ {i}
    /\ status' = IF cancelledAny /\ present THEN [status EXCEPT ![i] = "paused"] ELSE status
    /\ UNCHANGED <<poolVars, reported, ctrlVars, endVars, ops>>

ResumeItem(i) ==
    /\ UserCall
    /\ i \in reported
    /\ status' = [status EXCEPT ![i] = "active"]
    /\ UNCHANGED <<poolVars, reported, pausing, ctrlVars, endVars>>
-----------------------------------------------------------------------------
\* createTransferQueue has returned: every worker has run up to its first await.
Init ==
    /\ worker = [w \in Workers |-> "awake"]
    /\ holds = [w \in Workers |-> 0]
    /\ nextIndex = 0
    /\ status = [i \in Items |-> "pending"]
    /\ reported = {} /\ pausing = {}
    /\ paused = FALSE /\ cancelled = FALSE
    /\ done = FALSE /\ reports = 0 /\ present = TRUE
    /\ ops = 0

WorkerStep(w) == \/ Turn(w) \/ Claim(w) \/ ReportBlake3(w)
                 \/ Settle(w, "completed") \/ Settle(w, "failed")

Next == \/ \E w \in Workers : WorkerStep(w)
        \/ Finish
        \/ Pause \/ Resume \/ Cancel \/ Clear
        \/ \E i \in Items : \/ PauseItem(i) \/ ResumeItem(i)
                            \/ PauseItemAnswered(i, TRUE) \/ PauseItemAnswered(i, FALSE)

Spec == Init /\ [][Next]_vars

(***************************************************************************)
(* Promise chains go on, and a send settles in the end (each runs under the *)
(* transport's own timeouts).  The user need not do anything.               *)
(***************************************************************************)
Fairness ==
    /\ \A w \in Workers : /\ WF_vars(Turn(w) \/ Claim(w))
                          /\ WF_vars(Settle(w, "completed") \/ Settle(w, "failed"))
    /\ WF_vars(Finish)

FairSpec == Spec /\ Fairness
-----------------------------------------------------------------------------
(* Properties *)

TypeOK ==
    /\ worker \in [Workers -> WorkerStates]
    /\ holds \in [Workers -> 0..N]
    /\ nextIndex \in 0..N
    /\ status \in [Items -> Statuses]
    /\ reported \subseteq Items /\ pausing \subseteq Items
    /\ paused \in BOOLEAN /\ cancelled \in BOOLEAN
    /\ done \in BOOLEAN /\ reports \in 0..1 /\ present \in BOOLEAN
    /\ ops \in 0..MaxOps

\* A worker waits only while the queue is paused and may still be resumed: no
\* order of pauses, resumes and a cancel leaves one asleep in pauseWaiters.
NoLostWakeup == (\E w \in Workers : worker[w] = "waiting") => paused /\ ~cancelled

\* An item is sent by one worker, and the registry drops a queue only when
\* nothing of it is under way (clearTransferQueue refuses a queue in progress).
SendersAreExclusive ==
    /\ \A v, w \in Workers : holds[v] = holds[w] /\ holds[v] # 0 => v = w
    /\ \A w \in Workers : worker[w] = "sending" => present /\ ~done

\* The pool keeps the promise of a transfer queue: its items are sent in order,
\* once, at most Concurrency at a time, none after a cancel, and the end is
\* reported once (runTransferQueue).
Promise == INSTANCE TransferQueuePromise
              WITH started <- nextIndex,
                   sending <- {holds[w] : w \in Workers} \ {0}

PromiseKept == Promise!Spec

\* A queue that is not left paused ends with every item sent or a cancel; one
\* that is cancelled ends also when it was paused (cancelTransferQueue resumes).
QueueEnds == (<>[]~paused) => <>(done /\ (nextIndex = N \/ cancelled))

-----------------------------------------------------------------------------
(* What the comments of the file say and the code does not do *)

\* "No NEW item starts while paused" (the comment of concurrency).
NothingStartsWhilePaused == [][paused => nextIndex' = nextIndex]_vars

\* "The runner loop treats a paused item as stopped, not truly complete" (the
\* comment of the module): the runner does not mark a paused item as settled.
PausedItemStaysPaused ==
    [][\A i \in Items : status[i] = "paused" => status'[i] \notin {"completed", "failed"}]_vars
=============================================================================
