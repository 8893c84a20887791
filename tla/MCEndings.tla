------------------------------ MODULE MCEndings ------------------------------
(***************************************************************************)
(* Instances for TLC of the three components whose missions must come to   *)
(* an end: a report that a crash left unsealed (ReportLiveness), a mission *)
(* that a dashboard runs (DashboardWorker), and the execution slot         *)
(* (MissionLiveness). They share no state here: a behaviour is about one   *)
(* of them, named in `world', and the others rest.                         *)
(***************************************************************************)
EXTENDS ReportLiveness, DashboardWorker

CONSTANT Jobs

VARIABLES jobStatus, jobToken, jobStale, ancestors, reusable, asg, jobIntent, good, evidence,
          evaluation, queueStatus, queueToken, queueJob, claimStale, call, pass, calm
missionVars == <<jobStatus, jobToken, jobStale, ancestors, reusable, asg, jobIntent, good,
                 evidence, evaluation, queueStatus, queueToken, queueJob, claimStale, call,
                 pass, calm>>

VARIABLE world

X == INSTANCE MissionLiveness WITH Workers <- {"w1"}, Tokens <- {"t1", "t2"}, Queue <- {"q1"},
       NumRoles <- 1, intent <- jobIntent, wk <- call

ReportRests == /\ status = "complete"
               /\ sealedAs = None /\ intent = None /\ runToken = None /\ tx = None
               /\ files = [n \in Names |-> None] /\ disk = files /\ synced = {}
               /\ wk = [w \in Workers |-> Idle]

MCInit == /\ world \in {"report", "worker", "mission"}
          /\ IF world = "report" THEN Init ELSE ReportRests
          /\ WorkerInit
          /\ X!LiveInit

MCNext == \/ world = "report" /\ Next /\ UNCHANGED <<workerVars, missionVars, world>>
          \/ world = "worker" /\ WorkerNext /\ UNCHANGED <<vars, missionVars, world>>
          \/ world = "mission" /\ X!LiveNext /\ UNCHANGED <<vars, workerVars, world>>

\* Each component's own fairness; one that rests has nothing to do.
MCSpec == /\ MCInit /\ [][MCNext]_<<vars, workerVars, missionVars, world>>
          /\ Fairness /\ WorkerFairness /\ X!Fairness

\* The execution slot comes free, whatever crashed or failed before.
SlotComesFree == X!SlotComesFree
==============================================================================
