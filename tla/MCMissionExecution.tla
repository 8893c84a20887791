------------------------- MODULE MCMissionExecution -------------------------
(* Instances of MissionExecution for TLC. *)
EXTENDS MissionExecution, TLC

\* Jobs, rows and workers are interchangeable in safety runs.
Symmetry == Permutations(Jobs) \cup Permutations(Queue)
              \cup Permutations(Workers) \cup Permutations(Tokens)

\* Bounds of the run with two rows: one recovery pass at a time, and no row set
\* aside (the run with one row explores those).
OneRecovery == Cardinality({w \in Workers : wk[w].via = "recover"}) <= 1
RowsInPlay == \A q \in Queue : queueStatus[q] \notin {"cancelled", "parked"}

\* Bounds of the run with two jobs, where two workers compete for the slot: no
\* row leaves the competition, the evidence of a job holds, a finished report
\* does not age and is not judged a second time on command, and only a mission
\* whose verdict failed is retried (a direct run competes like any retry; its
\* parent matters to supersession alone).  OneRecovery bounds this run, too.
RowsCompete ==
  \A q \in Queue :
    queueStatus[q] \notin {"cancelled", "parked", "needs_approval"}
EvidenceHolds == \A j \in Jobs : jobStatus[j] # "absent" => evidence[j]
ReportsStayFresh == \A j \in Jobs : jobStale[j] => jobStatus[j] = "running"
VerdictsStand ==
  \A w \in Workers :
    At(w, "evaluate") /\ wk[w].item = None => evaluation[wk[w].job] = "none"
RetriesOfFailures ==
  \A w \in Workers :
    wk[w].parent # None => evaluation[wk[w].parent] = "failed"
=============================================================================
