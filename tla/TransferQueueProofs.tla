------------------------ MODULE TransferQueueProofs -------------------------
(***************************************************************************)
(* The worker pool of TransferQueue implements TransferQueuePromise, for    *)
(* any number of items and any concurrency.                                 *)
(***************************************************************************)
EXTENDS TransferQueue, FiniteSetTheorems, TLAPS

USE CountAssumption

(* A queue has at least one worker and at most Concurrency. *)
LEMMA WorkerCountBound == WorkerCount \in Nat /\ 1 <= WorkerCount /\ WorkerCount <= Concurrency
  BY DEF WorkerCount

\* What a worker holds is what it is sending, and was claimed.
HoldsWhatItSends ==
    \A w \in Workers : /\ holds[w] # 0 <=> worker[w] = "sending"
                       /\ holds[w] <= nextIndex

\* A worker leaves only when there is nothing left to claim.
LeavesAtTheEnd == \A w \in Workers : worker[w] = "gone" => nextIndex = N \/ cancelled

\* The end is reported when it comes, and a queue is cleared only after it.
DoneIsTheEnd ==
    /\ reports = IF done THEN 1 ELSE 0
    /\ done => \A w \in Workers : worker[w] = "gone"
    /\ present \/ done

IInv == /\ TypeOK /\ NoLostWakeup /\ SendersAreExclusive
        /\ HoldsWhatItSends /\ LeavesAtTheEnd /\ DoneIsTheEnd

-----------------------------------------------------------------------------
(* The invariant *)

(* A queue as enqueued satisfies the inductive invariant. *)
LEMMA InitEstablishes == Init => IInv
  <1> SUFFICES ASSUME Init PROVE IInv
    OBVIOUS
  <1>1. TypeOK
    <2>1. paused \in BOOLEAN /\ cancelled \in BOOLEAN /\ done \in BOOLEAN /\ present \in BOOLEAN
      BY DEF Init
    <2> QED BY <2>1 DEF Init, TypeOK, WorkerStates, Statuses
  <1>2. NoLostWakeup /\ SendersAreExclusive
    BY DEF Init, NoLostWakeup, SendersAreExclusive
  <1>3. HoldsWhatItSends /\ LeavesAtTheEnd /\ DoneIsTheEnd
    BY DEF Init, HoldsWhatItSends, LeavesAtTheEnd, DoneIsTheEnd
  <1> QED BY <1>1, <1>2, <1>3 DEF IInv

(* Every step of the pool preserves the inductive invariant. *)
LEMMA NextPreserves ==
    ASSUME IInv, [Next]_vars
    PROVE  IInv'
  <1> USE DEF IInv, TypeOK, NoLostWakeup, SendersAreExclusive, HoldsWhatItSends, LeavesAtTheEnd,
              DoneIsTheEnd, WorkerStates, Statuses, poolVars, itemVars, ctrlVars, endVars
  <1>1. ASSUME NEW w \in Workers, Turn(w) PROVE IInv'
    BY <1>1 DEF Turn, Become
  <1>2. ASSUME NEW w \in Workers, Claim(w) PROVE IInv'
    <2>1. CASE cancelled \/ nextIndex >= N
      BY <1>2, <2>1 DEF Claim, Leave, Become
    <2>2. CASE ~(cancelled \/ nextIndex >= N)
      <3>1. TypeOK'
        <4>1. nextIndex + 1 \in Items /\ "active" \in Statuses
          BY <2>2 DEF Items
        <4> QED BY <1>2, <2>2, <4>1 DEF Claim, Become
      <3>2. NoLostWakeup'
        BY <1>2, <2>2 DEF Claim, Become, Items
      <3>3. SendersAreExclusive'
        BY <1>2, <2>2 DEF Claim, Become, Items
      <3>4. HoldsWhatItSends'
        BY <1>2, <2>2 DEF Claim, Become, Items
      <3>5. LeavesAtTheEnd' /\ DoneIsTheEnd'
        BY <1>2, <2>2 DEF Claim, Become, Items
      <3> QED BY <3>1, <3>2, <3>3, <3>4, <3>5
    <2> QED BY <2>1, <2>2
  <1>3. ASSUME NEW w \in Workers, ReportBlake3(w) PROVE IInv'
    <2>1. holds[w] \in Items
      BY <1>3 DEF ReportBlake3, Items
    <2> QED BY <1>3, <2>1 DEF ReportBlake3
  <1>4. ASSUME NEW w \in Workers, NEW outcome \in {"completed", "failed"}, Settle(w, outcome)
        PROVE  IInv'
    BY <1>4 DEF Settle, Become, Items
  <1>5. CASE Finish
    BY <1>5 DEF Finish
  <1>6. CASE Pause
    <2>1. TypeOK'
      <3>1. paused' \in BOOLEAN /\ cancelled' \in BOOLEAN /\ done' \in BOOLEAN /\ present' \in BOOLEAN
        BY <1>6 DEF Pause
      <3> QED BY <1>6, <3>1 DEF Pause, UserCall
    <2>2. NoLostWakeup'
      BY <1>6 DEF Pause, UserCall
    <2>3. SendersAreExclusive'
      BY <1>6 DEF Pause, UserCall
    <2>4. HoldsWhatItSends'
      BY <1>6 DEF Pause, UserCall
    <2>5. LeavesAtTheEnd' /\ DoneIsTheEnd'
      BY <1>6 DEF Pause, UserCall
    <2> QED BY <2>1, <2>2, <2>3, <2>4, <2>5
  <1>7. CASE Resume
    <2>1. TypeOK'
      <3>1. paused' \in BOOLEAN /\ cancelled' \in BOOLEAN /\ done' \in BOOLEAN /\ present' \in BOOLEAN
        BY <1>7 DEF Resume
      <3> QED BY <1>7, <3>1 DEF Resume, WakeAll, UserCall
    <2>2. NoLostWakeup'
      BY <1>7 DEF Resume, WakeAll, UserCall
    <2>3. SendersAreExclusive'
      BY <1>7 DEF Resume, WakeAll, UserCall
    <2>4. HoldsWhatItSends'
      BY <1>7 DEF Resume, WakeAll, UserCall
    <2>5. LeavesAtTheEnd' /\ DoneIsTheEnd'
      BY <1>7 DEF Resume, WakeAll, UserCall
    <2> QED BY <2>1, <2>2, <2>3, <2>4, <2>5
  <1>8. CASE Cancel
    <2>1. TypeOK'
      <3>1. paused' \in BOOLEAN /\ cancelled' \in BOOLEAN /\ done' \in BOOLEAN /\ present' \in BOOLEAN
        BY <1>8 DEF Cancel
      <3> QED BY <1>8, <3>1 DEF Cancel, WakeAll, UserCall
    <2>2. NoLostWakeup'
      BY <1>8 DEF Cancel, WakeAll, UserCall
    <2>3. SendersAreExclusive'
      BY <1>8 DEF Cancel, WakeAll, UserCall
    <2>4. HoldsWhatItSends'
      BY <1>8 DEF Cancel, WakeAll, UserCall
    <2>5. LeavesAtTheEnd' /\ DoneIsTheEnd'
      BY <1>8 DEF Cancel, WakeAll, UserCall
    <2> QED BY <2>1, <2>2, <2>3, <2>4, <2>5
  <1>9. CASE Clear
    <2>1. present' \in BOOLEAN
      BY <1>9 DEF Clear
    <2> QED BY <1>9, <2>1 DEF Clear, UserCall
  <1>10. ASSUME NEW i \in Items, PauseItem(i) \/ ResumeItem(i) PROVE IInv'
    BY <1>10 DEF PauseItem, ResumeItem, UserCall
  <1>11. ASSUME NEW i \in Items, NEW b \in BOOLEAN, PauseItemAnswered(i, b) PROVE IInv'
    BY <1>11 DEF PauseItemAnswered
  <1>12. CASE UNCHANGED vars
    BY <1>12 DEF vars
  <1> QED
    BY <1>1, <1>2, <1>3, <1>4, <1>5, <1>6, <1>7, <1>8, <1>9, <1>10, <1>11, <1>12
    DEF Next, WorkerStep

(* The inductive invariant holds of every queue, whatever its length and its limit. *)
THEOREM Invariant == Spec => []IInv
  <1>1. Init => IInv
    BY InitEstablishes
  <1>2. IInv /\ [Next]_vars => IInv'
    BY NextPreserves
  <1> QED
    BY <1>1, <1>2, PTL DEF Spec

\* No order of pauses, resumes and a cancel leaves a worker asleep.
THEOREM NobodySleepsOn == Spec => []NoLostWakeup
  <1>1. IInv => NoLostWakeup
    BY DEF IInv
  <1> QED
    BY <1>1, Invariant, PTL

-----------------------------------------------------------------------------
(* The refinement *)

Sending == {holds[w] : w \in Workers} \ {0}

\* While one worker sends nothing, fewer than Concurrency items are being sent.
LEMMA IdleWorkerLeavesRoom ==
    ASSUME IInv, NEW w \in Workers, holds[w] = 0
    PROVE  Cardinality(Sending) \in Nat /\ Cardinality(Sending) < Concurrency
  <1> DEFINE Others == Workers \ {w}
             Busy   == {v \in Workers : holds[v] # 0}
             f      == [v \in Busy |-> holds[v]]
  <1>1. IsFiniteSet(Workers) /\ Cardinality(Workers) = WorkerCount
    BY WorkerCountBound, FS_Interval DEF Workers
  <1>2. IsFiniteSet(Others) /\ Cardinality(Others) = WorkerCount - 1
    BY <1>1, FS_RemoveElement
  <1>3. Busy \subseteq Others
    OBVIOUS
  <1>4. IsFiniteSet(Busy) /\ Cardinality(Busy) <= WorkerCount - 1
    BY <1>2, <1>3, FS_Subset
  <1>5. f \in Surjection(Busy, Sending)
    BY DEF Surjection, Sending
  <1>6. IsFiniteSet(Sending) /\ Cardinality(Sending) <= Cardinality(Busy)
    BY <1>4, <1>5, FS_Surjection
  <1>7. Cardinality(Sending) \in Nat /\ Cardinality(Busy) \in Nat
    BY <1>4, <1>6, FS_CardinalityType
  <1> QED BY <1>4, <1>6, <1>7, WorkerCountBound

\* The instance brings its own copy of the definition of Cardinality.
LEMMA SameCardinality == \A S : Promise!Cardinality(S) = Cardinality(S)
  BY Zenon DEF Cardinality, Promise!Cardinality, IsFiniteSet, Promise!IsFiniteSet

\* Actions that leave the pool's items, its counter and its end alone.
LEMMA PoolUnchanged ==
    ASSUME UNCHANGED <<holds, nextIndex, cancelled, reports>>
    PROVE  UNCHANGED Promise!vars
  BY DEF Promise!vars

(* A queue as enqueued is a queue as promised. *)
LEMMA InitImplements == Init => Promise!Init
  BY WorkerCountBound DEF Init, Promise!Init, Workers

(* Every step of the pool is a step of the promised queue, or none. *)
LEMMA NextImplements ==
    ASSUME IInv, IInv', [Next]_vars
    PROVE  [Promise!Next]_Promise!vars
  <1>1. ASSUME NEW w \in Workers, Claim(w), ~(cancelled \/ nextIndex >= N) PROVE Promise!Start
    <2>1. nextIndex < N /\ nextIndex' = nextIndex + 1 /\ nextIndex \in Nat /\ N \in Nat
      BY <1>1 DEF Claim, IInv, TypeOK
    <2>2. holds[w] = 0
      BY <1>1 DEF Claim, IInv, HoldsWhatItSends
    <2>3. Cardinality(Sending) < Concurrency
      BY <2>2, IdleWorkerLeavesRoom
    <2>4. holds' = [holds EXCEPT ![w] = nextIndex + 1] /\ holds \in [Workers -> 0..N]
      BY <1>1 DEF Claim, IInv, TypeOK
    <2>5. Sending' = Sending \cup {nextIndex + 1}
      BY <2>1, <2>2, <2>4 DEF Sending
    <2>6. UNCHANGED <<cancelled, reports>> /\ ~cancelled
      BY <1>1 DEF Claim, ctrlVars, endVars
    <2> QED BY <2>1, <2>3, <2>5, <2>6, SameCardinality, Zenon DEF Promise!Start, Sending
  <1>2. ASSUME NEW w \in Workers, Claim(w), cancelled \/ nextIndex >= N
        PROVE  UNCHANGED Promise!vars
    BY <1>2, PoolUnchanged DEF Claim, Leave, ctrlVars, endVars
  <1>3. ASSUME NEW w \in Workers, NEW outcome, Settle(w, outcome)
        PROVE  \E i \in 1..N : Promise!Settle(i)
    <2>1. holds[w] \in 1..N /\ holds \in [Workers -> 0..N]
      BY <1>3 DEF Settle, IInv, TypeOK, HoldsWhatItSends
    <2>2. holds' = [holds EXCEPT ![w] = 0]
      BY <1>3 DEF Settle
    <2>3. \A v \in Workers : holds[v] = holds[w] => v = w
      BY <2>1 DEF IInv, SendersAreExclusive
    <2>4. Sending' = Sending \ {holds[w]} /\ holds[w] \in Sending
      BY <2>1, <2>2, <2>3 DEF Sending
    <2>5. UNCHANGED <<nextIndex, cancelled, reports>>
      BY <1>3 DEF Settle, ctrlVars, endVars
    <2> QED BY <2>1, <2>4, <2>5 DEF Promise!Settle, Sending
  <1>4. CASE Finish
    <2>1. nextIndex = N \/ cancelled
      BY <1>4, WorkerCountBound DEF Finish, IInv, LeavesAtTheEnd, Workers
    <2>2. Sending = {} /\ reports = 0 /\ reports' = 1
      BY <1>4 DEF Finish, Sending, IInv, HoldsWhatItSends, DoneIsTheEnd
    <2>3. UNCHANGED <<holds, nextIndex, cancelled>>
      BY <1>4 DEF Finish, poolVars, ctrlVars
    <2> QED BY <2>1, <2>2, <2>3 DEF Promise!Next, Promise!Report, Sending
  <1>5. CASE Cancel
    <2>1. UNCHANGED <<holds, nextIndex, reports>> /\ cancelled' = TRUE
      BY <1>5 DEF Cancel, endVars
    <2>2. CASE cancelled = TRUE
      BY <2>1, <2>2, PoolUnchanged
    <2>3. CASE cancelled = FALSE
      BY <2>1, <2>3 DEF Promise!Next, Promise!Cancel
    <2> QED BY <2>2, <2>3 DEF IInv, TypeOK
  <1>6. ASSUME NEW w \in Workers, Turn(w) \/ ReportBlake3(w) PROVE UNCHANGED Promise!vars
    BY <1>6, PoolUnchanged DEF Turn, ReportBlake3, poolVars, ctrlVars, endVars
  <1>7. CASE Pause \/ Resume \/ Clear
    BY <1>7, PoolUnchanged DEF Pause, Resume, Clear, poolVars, ctrlVars, endVars
  <1>8. ASSUME NEW i \in Items, NEW b, PauseItem(i) \/ ResumeItem(i) \/ PauseItemAnswered(i, b)
        PROVE  UNCHANGED Promise!vars
    BY <1>8, PoolUnchanged DEF PauseItem, ResumeItem, PauseItemAnswered, poolVars, ctrlVars, endVars
  <1>9. CASE UNCHANGED vars
    BY <1>9, PoolUnchanged DEF vars, poolVars, ctrlVars, endVars
  <1> QED
    BY <1>1, <1>2, <1>3, <1>4, <1>5, <1>6, <1>7, <1>8, <1>9 DEF Next, WorkerStep, Promise!Next

\* The pool sends the items in order and once, at most Concurrency at a time,
\* none after a cancel, and reports the end once: it implements the promise.
THEOREM PoolKeepsPromise == Spec => PromiseKept
  <1>1. Init => Promise!Init
    BY InitImplements
  <1>2. IInv /\ IInv' /\ [Next]_vars => [Promise!Next]_Promise!vars
    BY NextImplements
  <1> QED
    BY <1>1, <1>2, Invariant, PTL DEF Spec, PromiseKept, Promise!Spec

=============================================================================
