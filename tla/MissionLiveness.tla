--------------------------- MODULE MissionLiveness ---------------------------
(***************************************************************************)
(* Does the single execution slot come free again?  MissionExecution under *)
(* the fairness its scheduling justifies, with a switch: once calm, no     *)
(* exception is raised, no process dies and no evidence changes any more.  *)
(* The switch is a variable because a fault and an ordinary step may be    *)
(* the same change of state (a crash, and a recovery that finds nothing).  *)
(***************************************************************************)
EXTENDS MissionExecution

VARIABLE calm       \* have the faults ended?

liveVars == <<vars, calm>>

LiveInit == Init /\ calm = FALSE

FaultsEnd == ~calm /\ calm' = TRUE /\ UNCHANGED vars

LiveNext ==
  \/ Normal /\ UNCHANGED calm
  \/ ~calm /\ Fault /\ UNCHANGED calm
  \/ FaultsEnd

StaleWork == StaleRunning # {} \/ \E q \in RunningItems : claimStale[q]

\* A recovery pass over stale work in which no filesystem error defers a seal.
RecoverForGood(w) ==
  /\ StaleWork
  /\ \E sealed \in SUBSET StaleRunning, claimed \in SUBSET RunningItems :
       \E f \in [claimed -> Fresh] : RecoverStaleJobs(w, sealed, {}, f)
  /\ UNCHANGED calm

Progress(w) == Work(w) /\ UNCHANGED calm
JobTime(j) == JobAges(j) /\ UNCHANGED calm
ClaimTime(q) == ClaimAges(q) /\ UNCHANGED calm

\* A call under way goes on (model calls time out), time passes, and somebody
\* runs recover again and again while stale work is left.
Fairness ==
  /\ \A w \in Workers : WF_liveVars(Progress(w)) /\ SF_liveVars(RecoverForGood(w))
  /\ \A j \in Jobs : WF_liveVars(JobTime(j))
  /\ \A q \in Queue : WF_liveVars(ClaimTime(q))

LiveSpec == LiveInit /\ [][LiveNext]_liveVars /\ Fairness

\* Recovery terminates what crashes and failures left behind, so that the
\* single execution slot comes free: once the faults have ended, a running job
\* and a running row stop running, whatever happened before.  In particular a
\* resumed row whose job failed again (the comment at core.py:8870) does not
\* block the queue for good.
SlotComesFree ==
  /\ \A j \in Jobs :
       (calm /\ jobStatus[j] = "running") ~> (jobStatus[j] # "running")
  /\ \A q \in Queue :
       (calm /\ queueStatus[q] = "running") ~> (queueStatus[q] # "running")
=============================================================================
