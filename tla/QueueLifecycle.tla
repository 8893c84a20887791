--------------------------- MODULE QueueLifecycle ---------------------------
(***************************************************************************)
(* What the mission queue promises, without workers, tokens, jobs or       *)
(* recovery: the life of the rows of the mission_queue table.  Each row    *)
(* moves through a small status machine, at most one row executes, and the *)
(* rows a verdict settles are settled together.                            *)
(* MissionExecution implements this module for what becomes of claimed     *)
(* rows (its QL instance), QueueDispatch for how rows come to be claimed   *)
(* (its RowLife instance).                                                 *)
(***************************************************************************)
CONSTANT Queue            \* identities of mission_queue rows

VARIABLE row              \* row[q]: the status column, "absent" before INSERT

Waiting  == {"queued", "parked"}
Settled  == {"complete", "quality_failed"}
Ended    == Settled \cup {"failed", "needs_approval", "cancelled", "superseded"}
RowStatus == {"absent", "running"} \cup Waiting \cup Ended

Init == row = [q \in Queue |-> "absent"]

Executing == {q \in Queue : row[q] = "running"}

Move(q, from, to) == row[q] \in from /\ row' = [row EXCEPT ![q] = to]

\* Work enters, leaves and re-enters the part of the queue that may be claimed.
\* A tick of the schedules submits a row for each that is due.
Submit(S) ==
  /\ \A q \in S : row[q] = "absent"
  /\ row' = [q \in Queue |-> IF q \in S THEN "queued" ELSE row[q]]
Withdraw(q) == Move(q, {"queued"}, "cancelled")
Park(q)    == Move(q, {"queued"}, "parked")
Unpark(q)  == Move(q, {"parked"}, "queued")
Reset(q)   == Move(q, {"failed", "quality_failed", "superseded"}, "queued")
Supersede(q) == Move(q, {"quality_failed"}, "superseded")

\* A row is executed only when no row is: a claim of a queued row, or a resume
\* of the job behind a failed one.
Start(q) == Executing = {} /\ Move(q, {"queued", "failed"}, "running")

\* The executing rows in S give up without a verdict.
GiveUp(S, why) ==
  /\ S \subseteq Executing
  /\ why \in {"failed", "needs_approval"}
  /\ row' = [q \in Queue |-> IF q \in S THEN why ELSE row[q]]

\* One verdict settles an executing row, and re-settles rows already settled.
Settle(S, verdict) ==
  /\ \A q \in S : row[q] \in Settled \cup {"running"}
  /\ verdict \in Settled
  /\ row' = [q \in Queue |-> IF q \in S THEN verdict ELSE row[q]]

Next ==
  \/ \E q \in Queue : \/ Withdraw(q) \/ Park(q) \/ Unpark(q) \/ Reset(q)
                      \/ Supersede(q) \/ Start(q)
  \/ \E S \in SUBSET Queue :
       \/ Submit(S)
       \/ \E why \in {"failed", "needs_approval"} : GiveUp(S, why)
       \/ \E verdict \in Settled : Settle(S, verdict)

Spec == Init /\ [][Next]_row
=============================================================================
