------------------------------ MODULE JobLedger -----------------------------
(***************************************************************************)
(* What the tables of jobs and sessions promise whoever looks at them, with *)
(* no word of runners, workers and the order of their statements: each row  *)
(* is taken, ended, put back or cancelled in one move, from the states in   *)
(* which that move makes sense, and the session of the row agrees.          *)
(***************************************************************************)
EXTENDS Integers

CONSTANTS Jobs, Sessions, NoSession, Replayable, MaxRetries

VARIABLES status, sessionOf, retries, session
vars == <<status, sessionOf, retries, session>>

Init ==
    /\ status = [j \in Jobs |-> "Absent"]
    /\ sessionOf = [j \in Jobs |-> NoSession]
    /\ retries = [j \in Jobs |-> 0]
    /\ session = [s \in Sessions |-> "Active"]

Live(j) == status[j] \in {"Pending", "Running"}
RowsOf(s) == {j \in Jobs : sessionOf[j] = s}
Closed(j) == sessionOf[j] \in Sessions /\ session[sessionOf[j]] = "Cancelled"

Reopened(s) ==
    session' = IF s \in Sessions THEN [session EXCEPT ![s] = "Active"] ELSE session

(* A job enters a session that is not cancelled, and opens it again.       *)
Open(j, s) ==
    /\ status[j] = "Absent"
    /\ s \in Sessions => session[s] # "Cancelled"
    /\ status' = [status EXCEPT ![j] = "Pending"]
    /\ sessionOf' = [sessionOf EXCEPT ![j] = s]
    /\ Reopened(s)
    /\ UNCHANGED retries

Take(j) ==
    /\ status[j] = "Pending"
    /\ status' = [status EXCEPT ![j] = "Running"]
    /\ UNCHANGED <<sessionOf, retries, session>>

Complete(j) ==
    /\ status[j] = "Running" /\ ~Closed(j)
    /\ status' = [status EXCEPT ![j] = "Completed"]
    /\ UNCHANGED <<sessionOf, retries, session>>

(* The row of a job that is not kept for the record.                       *)
Remove(j) ==
    /\ status[j] = "Completed" /\ j \in Replayable
    /\ status' = [status EXCEPT ![j] = "Deleted"]
    /\ UNCHANGED <<sessionOf, retries, session>>

(* What becomes of a running row that does not complete: it is counted, and*)
(* tried again only within the budget and while its session goes on.       *)
AfterFailure(j, new) ==
    CASE Closed(j) -> new = "Cancelled"
      [] ~Closed(j) /\ retries[j] + 1 < MaxRetries -> new \in {"Pending", "Failed"}
      [] OTHER -> new = "Failed"

FailRow(j) ==
    /\ status[j] = "Running"
    /\ \E new \in {"Pending", "Failed", "Cancelled"} :
          AfterFailure(j, new) /\ status' = [status EXCEPT ![j] = new]
    /\ retries' = [retries EXCEPT ![j] = @ + 1]
    /\ UNCHANGED <<sessionOf, session>>

(* A runner is gone: every running row at once, and of the ones that could *)
(* be tried again those that bear it.                                      *)
InterruptAll ==
    /\ DOMAIN status' = Jobs
    /\ \A j \in Jobs :
          IF status[j] = "Running"
          THEN AfterFailure(j, status'[j]) /\ (status'[j] = "Pending" => j \in Replayable)
          ELSE status'[j] = status[j]
    /\ retries' = [j \in Jobs |-> IF status[j] = "Running" THEN retries[j] + 1 ELSE retries[j]]
    /\ UNCHANGED <<sessionOf, session>>

CancelAll(some) ==
    status' = [j \in Jobs |-> IF j \in some THEN "Cancelled" ELSE status[j]]

(* Live rows are cancelled: one, or all that a session has.                *)
CancelRows(some) ==
    /\ \A j \in some : Live(j)
    /\ CancelAll(some)
    /\ UNCHANGED <<sessionOf, retries, session>>

(* A session is cancelled with what it has not begun.                      *)
CancelSession(s) ==
    /\ session' = [session EXCEPT ![s] = "Cancelled"]
    /\ CancelAll({j \in RowsOf(s) : status[j] = "Pending"})
    /\ UNCHANGED <<sessionOf, retries>>

(* A person starts a failed job again, with a new budget.                  *)
Replay(j) ==
    /\ status[j] = "Failed" /\ ~Closed(j)
    /\ status' = [status EXCEPT ![j] = "Pending"]
    /\ retries' = [retries EXCEPT ![j] = 0]
    /\ Reopened(sessionOf[j])
    /\ UNCHANGED sessionOf

(* A session that is not cancelled ends when nothing is left to do in it,  *)
(* and fails only for a row that did, or when it never had a row.          *)
EndSession(s, as) ==
    /\ session[s] # "Cancelled"
    /\ \A j \in RowsOf(s) : ~Live(j)
    /\ as = "Failed" => RowsOf(s) = {} \/ \E j \in RowsOf(s) : status[j] = "Failed"
    /\ session' = [session EXCEPT ![s] = as]
    /\ UNCHANGED <<status, sessionOf, retries>>

Next ==
    \/ \E j \in Jobs, s \in Sessions \cup {NoSession} : Open(j, s)
    \/ \E j \in Jobs : Take(j) \/ Complete(j) \/ Remove(j) \/ FailRow(j) \/ Replay(j)
    \/ InterruptAll
    \/ \E j \in Jobs : CancelRows({j})
    \/ \E s \in Sessions :
          \/ CancelRows({j \in RowsOf(s) : Live(j)})
          \/ CancelSession(s)
          \/ EndSession(s, "Completed") \/ EndSession(s, "Failed")

Spec == Init /\ [][Next]_vars
=============================================================================
