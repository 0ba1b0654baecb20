------------------------ MODULE TransferQueuePromise ------------------------
(***************************************************************************)
(* What a transfer queue promises its caller: the items are sent in order,  *)
(* each at most once, never more than Concurrency at a time, none after a   *)
(* cancel; and the queue is reported done, once, when nothing is being sent *)
(* and nothing will be.                                                     *)
(***************************************************************************)
EXTENDS Integers, FiniteSets

CONSTANTS N,            \* the number of items
          Concurrency   \* how many may be sent at a time

VARIABLES started,      \* the items 1..started have been handed to sendOne
          sending,      \* the items whose sendOne has not settled
          cancelled,    \* the caller has cancelled the queue
          reports       \* how often the caller has been told that it is done
vars == <<started, sending, cancelled, reports>>

Init == started = 0 /\ sending = {} /\ cancelled = FALSE /\ reports = 0

Start == /\ ~cancelled
         /\ started < N
         /\ Cardinality(sending) < Concurrency
         /\ started' = started + 1
         /\ sending' = sending \cup {started + 1}
         /\ UNCHANGED <<cancelled, reports>>

Settle(i) == /\ i \in sending
             /\ sending' = sending \ {i}
             /\ UNCHANGED <<started, cancelled, reports>>

Cancel == ~cancelled /\ cancelled' = TRUE /\ UNCHANGED <<started, sending, reports>>

Report == /\ started = N \/ cancelled
          /\ sending = {}
          /\ reports = 0
          /\ reports' = 1
          /\ UNCHANGED <<started, sending, cancelled>>

Next == Start \/ (\E i \in 1..N : Settle(i)) \/ Cancel \/ Report

Spec == Init /\ [][Next]_vars
=============================================================================
