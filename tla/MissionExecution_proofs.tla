----------------------- MODULE MissionExecution_proofs -----------------------
(***************************************************************************)
(* Theorems about MissionExecution, for any number of jobs, rows, workers, *)
(* tokens and roles.                                                       *)
(***************************************************************************)
EXTENDS MissionExecution, TLAPS

----------------------------------------------------------------------------
\* Types

\* The records a worker and a recovery pass start from are well typed.
LEMMA IdleType == Idle \in Worker /\ NoPass \in Pass
  BY NumRolesAssumption
  DEF Idle, Worker, NoPass, Pass, Claim, Pc, Via, Stages, Roles

\* A mission has a first stage, even when it has no specialists.
LEMMA FirstStage == 1 \in Stages
  BY NumRolesAssumption DEF Stages

\* The empty tables are well typed.
LEMMA InitType == Init => TypeOK
  BY IdleType DEF Init, TypeOK, JobStatus, AsgStatus, Verdicts, QueueStatus

\* The operator's queue commands keep every type.
LEMMA CommandType ==
  ASSUME TypeOK, NEW q \in Queue, Command(q)
  PROVE  TypeOK'
<1> USE DEF TypeOK, jobVars, QueueStatus
<1>1. CASE Enqueue(q)  BY <1>1 DEF Enqueue
<1>2. CASE CancelQueueItem(q)  BY <1>2 DEF CancelQueueItem
<1>3. CASE ParkQueueItem(q)  BY <1>3 DEF ParkQueueItem
<1>4. CASE UnparkQueueItem(q)  BY <1>4 DEF UnparkQueueItem
<1>5. CASE ResetQueueItem(q)  BY <1>5 DEF ResetQueueItem
<1>6. ASSUME NEW s \in Jobs, SupersedeQualityFailure(q, s)  PROVE TypeOK'
  BY <1>6 DEF SupersedeQualityFailure
<1> QED  BY <1>1, <1>2, <1>3, <1>4, <1>5, <1>6 DEF Command

\* The local variables of one worker change to a well-typed record.
LEMMA GotoType ==
  ASSUME wk \in [Workers -> Worker], NEW w \in Workers, NEW p \in Pc, Goto(w, p)
  PROVE  wk' \in [Workers -> Worker]
  BY DEF Goto, Worker

\* A worker that comes to rest keeps its type.
LEMMA RestType ==
  ASSUME wk \in [Workers -> Worker], NEW w \in Workers, Rest(w)
  PROVE  wk' \in [Workers -> Worker]
  BY IdleType DEF Rest

\* A worker that turns to evaluate_job keeps its type.
LEMMA EvaluateType ==
  ASSUME wk \in [Workers -> Worker], NEW w \in Workers, NEW j \in Jobs,
         Evaluate(w, j)
  PROVE  wk' \in [Workers -> Worker]
<1>1. /\ wk[w].item \in Queue \cup {None}
      /\ (IF wk[w].item = None THEN None ELSE wk[w].tok) \in Tokens \cup {None}
  BY DEF Worker
<1>2. [Idle EXCEPT !.pc = "evaluate", !.via = "evaluate", !.job = j,
                   !.item = wk[w].item,
                   !.tok = IF wk[w].item = None THEN None ELSE wk[w].tok]
        \in Worker
  BY <1>1, IdleType DEF Worker, Pc, Via
<1> QED  BY <1>2 DEF Evaluate

\* A worker whose evaluation is over keeps its type.
LEMMA ConcludeType ==
  ASSUME wk \in [Workers -> Worker], NEW w \in Workers, Conclude(w)
  PROVE  wk' \in [Workers -> Worker]
<1>1. [Idle EXCEPT !.pc = "rechecks", !.via = "recover"] \in Worker
  BY IdleType DEF Idle, Worker, Pc, Via
<1> QED  BY <1>1, RestType DEF Conclude

\* Stamping a row anew keeps the types of ages and recovery passes.
LEMMA RestampType ==
  ASSUME TypeOK, NEW q \in Queue, Restamp(q)
  PROVE  claimStale' \in [Queue -> BOOLEAN] /\ pass' \in [Workers -> Pass]
  BY DEF TypeOK, Restamp, Pass

\* Setting the status of one assignment keeps the type of asg.
LEMMA SetAsgType ==
  ASSUME TypeOK, NEW w \in Workers, NEW s \in AsgStatus, SetAsg(w, s)
  PROVE  asg' \in [Jobs -> [Roles -> AsgStatus]]
  BY DEF TypeOK, SetAsg

\* Claiming a row and admitting, reusing or refusing a job keep every type.
LEMMA AdmitType ==
  ASSUME TypeOK, NEW w \in Workers
  PROVE  /\ \A q \in Queue, t \in Fresh : ClaimNextQueueItem(w, q, t) => TypeOK'
         /\ \A p \in Jobs \cup {None}, t \in Fresh : BeginRun(w, p, t) => TypeOK'
         /\ \A j \in Jobs : InsertJob(w, j) => TypeOK'
         /\ \A j \in Jobs : ReuseJob(w, j) => TypeOK'
         /\ RefuseAdmission(w) => TypeOK'
<1> USE DEF TypeOK
<1>t. Fresh \subseteq Tokens  BY DEF Fresh
<1>w. wk[w] \in Worker  OBVIOUS
<1>1. ASSUME NEW q \in Queue, NEW t \in Fresh, ClaimNextQueueItem(w, q, t)
      PROVE  TypeOK'
  <2>1. [Idle EXCEPT !.pc = "admitting", !.via = "queue", !.tok = t, !.item = q]
          \in Worker
    BY <1>t, IdleType DEF Idle, Worker, Pc, Via
  <2>2. wk' \in [Workers -> Worker]  BY <1>1, <2>1 DEF ClaimNextQueueItem
  <2>3. claimStale' \in [Queue -> BOOLEAN] /\ pass' \in [Workers -> Pass]
    BY <1>1, RestampType DEF ClaimNextQueueItem
  <2> QED  BY <1>1, <1>t, <2>2, <2>3 DEF ClaimNextQueueItem, jobVars, QueueStatus
<1>2. ASSUME NEW p \in Jobs \cup {None}, NEW t \in Fresh, BeginRun(w, p, t)
      PROVE  TypeOK'
  <2>1. [Idle EXCEPT !.pc = "admitting", !.via = "direct", !.tok = t,
                     !.parent = p] \in Worker
    BY <1>t, IdleType DEF Idle, Worker, Pc, Via
  <2> QED  BY <1>2, <2>1 DEF BeginRun, jobVars, queueVars
<1>3. ASSUME NEW j \in Jobs, InsertJob(w, j)
      PROVE  TypeOK'
  <2>1. [wk[w] EXCEPT !.pc = "stage", !.job = j, !.stage = 1, !.parent = None]
          \in Worker
    BY <1>w, FirstStage DEF Worker, Pc
  <2>2. queueJob' \in [Queue -> Jobs \cup {None}]
    BY <1>3 DEF InsertJob, LinkTo
  <2>3. ancestors' \in [Jobs -> SUBSET Jobs]
    BY <1>3, <1>w DEF InsertJob, Worker
  <2>4. asg' \in [Jobs -> [Roles -> AsgStatus]]
    BY <1>3 DEF InsertJob, AsgStatus
  <2>5. jobToken' \in [Jobs -> Tokens \cup {None}]
    BY <1>3, <1>w DEF InsertJob, Worker
  <2> QED  BY <1>3, <2>1, <2>2, <2>3, <2>4, <2>5 DEF InsertJob, JobStatus
<1>4. ASSUME NEW j \in Jobs, ReuseJob(w, j)
      PROVE  TypeOK'
  <2>1. wk' \in [Workers -> Worker]
    BY <1>4, RestType, EvaluateType DEF ReuseJob
  <2>2. queueJob' \in [Queue -> Jobs \cup {None}]
    BY <1>4 DEF ReuseJob, LinkTo
  <2> QED  BY <1>4, <2>1, <2>2 DEF ReuseJob, jobVars
<1>5. ASSUME RefuseAdmission(w)
      PROVE  TypeOK'
  <2>1. wk' \in [Workers -> Worker]
    BY <1>5, RestType, GotoType DEF RefuseAdmission, Pc
  <2> QED  BY <1>5, <2>1 DEF RefuseAdmission, jobVars, queueVars
<1> QED  BY <1>1, <1>2, <1>3, <1>4, <1>5

\* A worker whose lease is gone changes only its own variables.
LEMMA LoseLeaseType ==
  ASSUME TypeOK, NEW w \in Workers, LoseLease(w)
  PROVE  TypeOK'
  BY RestType DEF TypeOK, LoseLease, jobVars, queueVars

\* Every step of _execute_job and its heartbeat keeps every type.
LEMMA ExecuteType ==
  ASSUME TypeOK, NEW w \in Workers
  PROVE  /\ StartStage(w) => TypeOK'
         /\ Heartbeat(w) => TypeOK'
         /\ ModelReturns(w) => TypeOK'
         /\ RecordResult(w) => TypeOK'
         /\ RecordFailure(w) => TypeOK'
         /\ PrepareReport(w) => TypeOK'
         /\ SealReport(w) => TypeOK'
<1> USE DEF TypeOK, queueVars
<1>w. wk[w] \in Worker  OBVIOUS
<1>1. ASSUME StartStage(w), ~LoseLease(w)
      PROVE  TypeOK'
  <2>1. wk' \in [Workers -> Worker]  BY <1>1, GotoType DEF StartStage, Pc
  <2>2. asg' \in [Jobs -> [Roles -> AsgStatus]]
    BY <1>1, SetAsgType DEF StartStage, AsgStatus
  <2> QED  BY <1>1, <2>1, <2>2 DEF StartStage, Renew
<1>2. ASSUME Heartbeat(w)
      PROVE  TypeOK'
  <2>1. [wk[w] EXCEPT !.lost = TRUE] \in Worker  BY <1>w DEF Worker
  <2>2. wk' \in [Workers -> Worker]  BY <1>2, <2>1 DEF Heartbeat
  <2>3. jobStale' \in [Jobs -> BOOLEAN]  BY <1>2 DEF Heartbeat, Renew
  <2> QED  BY <1>2, <2>2, <2>3 DEF Heartbeat
<1>3. ASSUME ModelReturns(w)
      PROVE  TypeOK'
  <2>1. wk' \in [Workers -> Worker]
    BY <1>3, RestType, GotoType DEF ModelReturns, Pc
  <2> QED  BY <1>3, <2>1 DEF ModelReturns, jobVars
<1>4. ASSUME RecordResult(w), ~LoseLease(w)
      PROVE  TypeOK'
  <2>1. ASSUME NEW s \in Stages, wk[w].stage \in Roles
        PROVE  [wk[w] EXCEPT !.pc = "stage", !.stage = s,
                             !.done = wk[w].done \cup {wk[w].stage}] \in Worker
    BY <2>1, <1>w DEF Worker, Pc
  <2>3. [wk[w] EXCEPT !.pc = "prepare", !.stage = 1, !.done = {}] \in Worker
    BY <1>w, FirstStage DEF Worker, Pc
  <2>4. ASSUME wk[w].stage \notin Roles
        PROVE  wk' \in [Workers -> Worker]
    BY <1>4, <2>3, <2>4 DEF RecordResult
  <2>5. ASSUME wk[w].stage \in Roles
        PROVE  wk' \in [Workers -> Worker]
    <3>1. PICK s \in Stages :
            wk' = [wk EXCEPT ![w] = [@ EXCEPT !.pc = "stage", !.stage = s,
                                              !.done = wk[w].done \cup {wk[w].stage}]]
      BY <1>4, <2>5 DEF RecordResult
    <3> QED  BY <3>1, <2>1, <2>5
  <2>2. asg' \in [Jobs -> [Roles -> AsgStatus]]
    BY <1>4, SetAsgType DEF RecordResult, AsgStatus
  <2> QED  BY <1>4, <2>4, <2>5, <2>2 DEF RecordResult, Renew
<1>5. ASSUME RecordFailure(w)
      PROVE  TypeOK'
  <2>1. wk' \in [Workers -> Worker]
    BY <1>5, RestType, GotoType DEF RecordFailure, Propagate, Pc
  <2>2. asg' \in [Jobs -> [Roles -> AsgStatus]]
    BY <1>5, SetAsgType DEF RecordFailure, AsgStatus, jobVars
  <2> QED  BY <1>5, <2>1, <2>2 DEF RecordFailure, Renew, JobStatus, jobVars
<1>6. ASSUME PrepareReport(w), ~LoseLease(w)
      PROVE  TypeOK'
  <2>1. wk' \in [Workers -> Worker]  BY <1>6, GotoType DEF PrepareReport, Pc
  <2> QED  BY <1>6, <1>w, <2>1 DEF PrepareReport, Renew, Worker
<1>7. ASSUME SealReport(w)
      PROVE  TypeOK'
  <2>1. CASE Rest(w) /\ UNCHANGED jobVars
    BY <1>7, <2>1, RestType DEF SealReport, jobVars
  <2>2. CASE LeaseActive(w) /\ ~(Rest(w) /\ UNCHANGED jobVars)
    <3>1. wk[w].job \in Jobs  BY <1>w, <2>2 DEF LeaseActive, Worker
    <3>2. wk' \in [Workers -> Worker]
      BY <1>7, <2>2, <3>1, EvaluateType DEF SealReport
    <3>3. good' \in [Jobs -> BOOLEAN]  BY <1>7, <2>2, <3>1 DEF SealReport
    <3>4. jobStatus' \in [Jobs -> JobStatus]
      BY <1>7, <2>2, <3>1 DEF SealReport, JobStatus
    <3>5. jobStale' \in [Jobs -> BOOLEAN]
      BY <1>7, <2>2, <3>1 DEF SealReport, Renew
    <3> QED  BY <1>7, <2>2, <3>2, <3>3, <3>4, <3>5 DEF SealReport
  <2> QED  BY <1>7, <2>1, <2>2 DEF SealReport
<1> QED
  BY <1>1, <1>2, <1>3, <1>4, <1>5, <1>6, <1>7, LoseLeaseType

\* Reading and committing an evaluation keep every type.
LEMMA JudgeType ==
  ASSUME TypeOK, NEW w \in Workers
  PROVE  /\ \A j \in Jobs : BeginEvaluation(w, j) => TypeOK'
         /\ ReadEvaluation(w) => TypeOK'
         /\ CommitEvaluation(w) => TypeOK'
<1> USE DEF TypeOK
<1>w. wk[w] \in Worker  OBVIOUS
<1>1. ASSUME NEW j \in Jobs, BeginEvaluation(w, j)
      PROVE  TypeOK'
  <2>1. wk' \in [Workers -> Worker]  BY <1>1, EvaluateType DEF BeginEvaluation
  <2> QED  BY <1>1, <2>1 DEF BeginEvaluation, jobVars, queueVars
<1>2. ASSUME ReadEvaluation(w)
      PROVE  TypeOK'
  <2>1. Passes(wk[w].job) \in BOOLEAN  BY DEF Passes
  <2>2. [wk[w] EXCEPT !.pc = "commit", !.verdict = Passes(wk[w].job)] \in Worker
    BY <1>w, <2>1 DEF Worker, Pc
  <2>3. wk' \in [Workers -> Worker]  BY <1>2, <2>2 DEF ReadEvaluation
  <2> QED  BY <1>2, <2>3 DEF ReadEvaluation, jobVars, queueVars
<1>3. ASSUME CommitEvaluation(w)
      PROVE  TypeOK'
  <2>1. wk' \in [Workers -> Worker]  BY <1>3, ConcludeType DEF CommitEvaluation
  <2>2. claimStale' \in [Queue -> BOOLEAN]  BY <1>3 DEF CommitEvaluation, Unstamp
  <2>3. evaluation' \in [Jobs -> Verdicts]  BY <1>3 DEF CommitEvaluation, Verdicts
  <2>4. queueStatus' \in [Queue -> QueueStatus]
    BY <1>3 DEF CommitEvaluation, QueueStatus
  <2>5. queueToken' \in [Queue -> Tokens \cup {None}]
    BY <1>3 DEF CommitEvaluation
  <2> QED  BY <1>3, <2>1, <2>2, <2>3, <2>4, <2>5 DEF CommitEvaluation
<1> QED  BY <1>1, <1>2, <1>3

\* The UPDATE that ends a claim keeps the types of the rows.
LEMMA EndClaimType ==
  ASSUME TypeOK, NEW w \in Workers, NEW s \in QueueStatus, EndClaim(w, s)
  PROVE  /\ queueStatus' \in [Queue -> QueueStatus]
         /\ queueToken' \in [Queue -> Tokens \cup {None}]
  BY DEF TypeOK, EndClaim

\* Exceptions, refusals, failed claims and crashes keep every type.
LEMMA FailType ==
  ASSUME TypeOK, NEW w \in Workers
  PROVE  /\ Raise(w) => TypeOK'
         /\ RefuseSensitive(w) => TypeOK'
         /\ FailClaim(w) => TypeOK'
         /\ NeedApproval(w) => TypeOK'
         /\ AbandonQueueClaim(w) => TypeOK'
         /\ Crash(w) => TypeOK'
<1> USE DEF TypeOK
<1>1. ASSUME Raise(w)
      PROVE  TypeOK'
  <2>1. wk' \in [Workers -> Worker]
    BY <1>1, GotoType, RestType, ConcludeType DEF Raise, Propagate, Pc
  <2> QED  BY <1>1, <2>1 DEF Raise, jobVars, queueVars
<1>2. ASSUME RefuseSensitive(w)
      PROVE  TypeOK'
  <2>1. wk' \in [Workers -> Worker]
    BY <1>2, GotoType, RestType DEF RefuseSensitive, Pc
  <2> QED  BY <1>2, <2>1 DEF RefuseSensitive, jobVars, queueVars
<1>3. ASSUME NEW s \in {"failed", "needs_approval"}, EndClaim(w, s), Unstamp,
             Rest(w), UNCHANGED <<jobVars, queueJob, pass>>
      PROVE  TypeOK'
  <2>1. wk' \in [Workers -> Worker]  BY <1>3, RestType
  <2>2. claimStale' \in [Queue -> BOOLEAN]  BY <1>3 DEF Unstamp
  <2> QED  BY <1>3, <2>1, <2>2, EndClaimType DEF jobVars, QueueStatus
<1>4. ASSUME Crash(w)
      PROVE  TypeOK'
  <2>1. wk' \in [Workers -> Worker] /\ pass' \in [Workers -> Pass]
    BY <1>4, RestType, IdleType DEF Crash
  <2> QED  BY <1>4, <2>1 DEF Crash, jobVars, queueVars
<1> QED
  BY <1>1, <1>2, <1>3, <1>4 DEF FailClaim, NeedApproval, AbandonQueueClaim

\* Both transactions of resume keep every type.
LEMMA ResumeType ==
  ASSUME TypeOK, NEW w \in Workers
  PROVE  /\ \A j \in Jobs : ReadForResume(w, j) => TypeOK'
         /\ \A t \in Fresh : CommitResume(w, t) => TypeOK'
<1> USE DEF TypeOK
<1>t. Fresh \subseteq Tokens  BY DEF Fresh
<1>w. wk[w] \in Worker  OBVIOUS
<1>1. ASSUME NEW j \in Jobs, ReadForResume(w, j)
      PROVE  TypeOK'
  <2>1. [Idle EXCEPT !.pc = "resuming", !.via = "resume", !.job = j,
                     !.done = {r \in Roles : asg[j][r] = "complete"}] \in Worker
    BY IdleType DEF Idle, Worker, Pc, Via
  <2> QED  BY <1>1, <2>1 DEF ReadForResume, jobVars, queueVars
<1>2. ASSUME NEW t \in Fresh, CommitResume(w, t)
      PROVE  TypeOK'
  <2>1. CASE Rest(w) /\ UNCHANGED <<jobVars, queueVars, pass>>
    BY <2>1, RestType DEF jobVars, queueVars
  <2>2. CASE ~(Rest(w) /\ UNCHANGED <<jobVars, queueVars, pass>>)
    <3> DEFINE j == wk[w].job
    <3>1. /\ jobStatus' = [jobStatus EXCEPT ![j] = "running"]
          /\ jobToken' = [jobToken EXCEPT ![j] = t]
          /\ Renew(j)
          /\ reusable' = [reusable EXCEPT ![j] = FALSE]
          /\ asg' = [asg EXCEPT ![j] = [r \in Roles |->
                       IF @[r] = "failed" THEN "queued" ELSE @[r]]]
          /\ UNCHANGED <<ancestors, intent, good, evidence, evaluation, queueJob>>
      BY <1>2, <2>2 DEF CommitResume
    <3>2. PICK s \in Stages, item \in Queue \cup {None} :
            /\ wk' = [wk EXCEPT ![w] = [@ EXCEPT !.pc = "stage", !.tok = t,
                                                 !.item = item, !.stage = s]]
            /\ IF item = None
               THEN UNCHANGED <<queueStatus, queueToken, claimStale, pass>>
               ELSE /\ queueStatus' = [queueStatus EXCEPT ![item] = "running"]
                    /\ queueToken' = [queueToken EXCEPT ![item] = t]
                    /\ Restamp(item)
      BY <1>2, <2>2 DEF CommitResume
    <3>3. [wk[w] EXCEPT !.pc = "stage", !.tok = t, !.item = item, !.stage = s]
            \in Worker
      BY <1>t, <1>w DEF Worker, Pc
    <3>4. wk' \in [Workers -> Worker]  BY <3>2, <3>3
    <3>5. claimStale' \in [Queue -> BOOLEAN] /\ pass' \in [Workers -> Pass]
      BY <3>2, RestampType
    <3>6. /\ queueStatus' \in [Queue -> QueueStatus]
          /\ queueToken' \in [Queue -> Tokens \cup {None}]
      BY <3>2, <1>t DEF QueueStatus
    <3>7. asg' \in [Jobs -> [Roles -> AsgStatus]]  BY <3>1 DEF AsgStatus
    <3>8. jobStatus' \in [Jobs -> JobStatus]  BY <3>1 DEF JobStatus
    <3>9. jobStale' \in [Jobs -> BOOLEAN]  BY <3>1 DEF Renew
    <3> QED  BY <3>1, <3>4, <3>5, <3>6, <3>7, <3>8, <3>9, <1>t
  <2> QED  BY <2>1, <2>2
<1> QED  BY <1>1, <1>2

\* Recovery's first transaction keeps every type.
LEMMA RecoverType ==
  ASSUME TypeOK, NEW w \in Workers,
         NEW sealed \in SUBSET StaleRunning, NEW deferred,
         NEW claimed \in SUBSET RunningItems, NEW f \in [claimed -> Fresh],
         RecoverStaleJobs(w, sealed, deferred, f)
  PROVE  TypeOK'
<1> USE DEF TypeOK
<1>1. /\ Fresh \subseteq Tokens /\ DOMAIN f = claimed
      /\ StaleRunning \subseteq Jobs /\ claimed \subseteq Queue
  BY DEF Fresh, StaleRunning, RunningJobs, RunningItems
<1>2. /\ jobStatus' \in [Jobs -> JobStatus]
  BY DEF RecoverStaleJobs, JobStatus
<1>3. /\ jobToken' \in [Jobs -> Tokens \cup {None}]
      /\ jobStale' \in [Jobs -> BOOLEAN]
  BY DEF RecoverStaleJobs
<1>4. intent' \in [Jobs -> Tokens \cup {None}]
  BY DEF RecoverStaleJobs, DropIntents
<1>5. asg' \in [Jobs -> [Roles -> AsgStatus]]
  BY DEF RecoverStaleJobs, AsgStatus
<1>6. good' \in [Jobs -> BOOLEAN]
  BY DEF RecoverStaleJobs
<1>7. queueToken' \in [Queue -> Tokens \cup {None}]
  BY <1>1 DEF RecoverStaleJobs
<1>8. wk' \in [Workers -> Worker]
  <2>1. [Idle EXCEPT !.pc = "rechecks", !.via = "recover"] \in Worker
    BY IdleType DEF Idle, Worker, Pc, Via
  <2> QED  BY <2>1 DEF RecoverStaleJobs
<1>9. pass' \in [Workers -> Pass]
  <2>1. PICK recovered \in SUBSET Jobs, todo \in SUBSET Jobs :
          pass' = [pass EXCEPT ![w] =
            [stale |-> {q \in RunningItems : claimStale[q]},
             recovered |-> recovered, todo |-> todo,
             claims |-> {[item |-> q, job |-> queueJob[q], tok |-> f[q]] :
                           q \in claimed}]]
    BY <1>1 DEF RecoverStaleJobs
  <2>2. \A q \in claimed : queueJob[q] \in Jobs
    BY <1>1 DEF RecoverStaleJobs
  <2>3. {[item |-> q, job |-> queueJob[q], tok |-> f[q]] : q \in claimed}
          \subseteq Claim
    BY <1>1, <2>2 DEF Claim
  <2>4. {q \in RunningItems : claimStale[q]} \subseteq Queue
    BY DEF RunningItems
  <2> QED  BY <2>1, <2>3, <2>4 DEF Pass
<1> QED
  BY <1>2, <1>3, <1>4, <1>5, <1>6, <1>7, <1>8, <1>9 DEF RecoverStaleJobs

\* Recovery's rechecks and its last transaction keep every type.
LEMMA RecheckType ==
  ASSUME TypeOK, NEW w \in Workers
  PROVE  /\ Recover(w) => TypeOK'
         /\ \A j \in pass[w].todo : RecheckJob(w, j) => TypeOK'
         /\ \A c \in pass[w].claims : RecheckClaim(w, c) => TypeOK'
         /\ Reconcile(w) => TypeOK'
<1> USE DEF TypeOK
<1>w. wk[w] \in Worker /\ pass[w] \in Pass  OBVIOUS
<1>1. Recover(w) => TypeOK'  BY RecoverType DEF Recover
<1>2. ASSUME NEW j \in pass[w].todo, RecheckJob(w, j)
      PROVE  TypeOK'
  <2>1. [pass[w] EXCEPT !.todo = pass[w].todo \ {j}] \in Pass
    BY <1>w DEF Pass
  <2>2. pass' = [pass EXCEPT ![w] = [pass[w] EXCEPT !.todo = pass[w].todo \ {j}]]
    BY <1>2 DEF RecheckJob
  <2>3. [wk[w] EXCEPT !.pc = "evaluate", !.job = j] \in Worker
    BY <1>w DEF Worker, Pc, Pass
  <2>4. wk' = [wk EXCEPT ![w] = [wk[w] EXCEPT !.pc = "evaluate", !.job = j]]
    BY <1>2 DEF RecheckJob
  <2>5. wk' \in [Workers -> Worker] /\ pass' \in [Workers -> Pass]
    BY <2>1, <2>2, <2>3, <2>4
  <2> QED  BY <1>2, <2>5 DEF RecheckJob, jobVars, queueVars
<1>3. ASSUME NEW c \in pass[w].claims, RecheckClaim(w, c)
      PROVE  TypeOK'
  <2>1. [pass[w] EXCEPT !.claims = pass[w].claims \ {c}] \in Pass
    BY <1>w DEF Pass
  <2>2. pass' = [pass EXCEPT ![w] = [pass[w] EXCEPT !.claims = pass[w].claims \ {c}]]
    BY <1>3 DEF RecheckClaim
  <2>c. c \in Claim  BY <1>w DEF Pass
  <2>3. [wk[w] EXCEPT !.pc = "evaluate", !.job = c.job, !.item = c.item,
                      !.tok = c.tok] \in Worker
    BY <1>w, <2>c DEF Worker, Pc, Claim
  <2>4. wk' = [wk EXCEPT ![w] =
                 [wk[w] EXCEPT !.pc = "evaluate", !.job = c.job,
                               !.item = c.item, !.tok = c.tok]]
    BY <1>3 DEF RecheckClaim
  <2>5. wk' \in [Workers -> Worker] /\ pass' \in [Workers -> Pass]
    BY <2>1, <2>2, <2>3, <2>4
  <2> QED  BY <1>3, <2>5 DEF RecheckClaim, jobVars, queueVars
<1>4. ASSUME Reconcile(w)
      PROVE  TypeOK'
  <2>1. queueStatus' \in [Queue -> QueueStatus]
    BY <1>4 DEF Reconcile, QueueStatus
  <2>2. queueToken' \in [Queue -> Tokens \cup {None}]
    BY <1>4 DEF Reconcile
  <2>3. claimStale' \in [Queue -> BOOLEAN]  BY <1>4 DEF Reconcile, Unstamp
  <2>4. wk' \in [Workers -> Worker]  BY <1>4, RestType DEF Reconcile
  <2>5. pass' \in [Workers -> Pass]  BY <1>4, IdleType DEF Reconcile
  <2> QED  BY <1>4, <2>1, <2>2, <2>3, <2>4, <2>5 DEF Reconcile, jobVars
<1> QED  BY <1>1, <1>2, <1>3, <1>4

\* Time and changing evidence keep every type.
LEMMA EnvironmentType ==
  ASSUME TypeOK
  PROVE  /\ \A j \in Jobs : JobAges(j) => TypeOK'
         /\ \A j \in Jobs : EvidenceChanges(j) => TypeOK'
         /\ \A q \in Queue : ClaimAges(q) => TypeOK'
<1>1. ASSUME NEW j \in Jobs, JobAges(j)  PROVE TypeOK'
  BY <1>1 DEF TypeOK, JobAges, queueVars
<1>2. ASSUME NEW j \in Jobs, EvidenceChanges(j)  PROVE TypeOK'
  <2>1. evidence' \in [Jobs -> BOOLEAN]  BY <1>2 DEF TypeOK, EvidenceChanges
  <2> QED  BY <1>2, <2>1 DEF TypeOK, EvidenceChanges, queueVars
<1>3. ASSUME NEW q \in Queue, ClaimAges(q)  PROVE TypeOK'
  BY <1>3 DEF TypeOK, ClaimAges, jobVars
<1> QED  BY <1>1, <1>2, <1>3

\* Every column and local variable keeps its type.
THEOREM TypeCorrect == Spec => []TypeOK
<1>1. TypeOK /\ [Next]_vars => TypeOK'
  <2> SUFFICES ASSUME TypeOK, [Next]_vars  PROVE TypeOK'  OBVIOUS
  <2>1. ASSUME NEW w \in Workers, Call(w)  PROVE TypeOK'
    BY <2>1, AdmitType, JudgeType, ResumeType, RecheckType DEF Call
  <2>2. ASSUME NEW w \in Workers, Work(w)  PROVE TypeOK'
    BY <2>2, AdmitType, ExecuteType, JudgeType, FailType, ResumeType, RecheckType
    DEF Work
  <2>3. ASSUME NEW w \in Workers, Heartbeat(w) \/ Disturb(w)  PROVE TypeOK'
    BY <2>3, ExecuteType, FailType DEF Disturb
  <2>4. CASE UNCHANGED vars
    BY <2>4 DEF TypeOK, vars, jobVars, queueVars
  <2> QED
    BY <2>1, <2>2, <2>3, <2>4, CommandType, EnvironmentType
    DEF Next, Normal, Fault
<1> QED  BY InitType, <1>1, PTL DEF Spec

----------------------------------------------------------------------------
\* Exclusive execution

\* The columns that say who executes what.
leases == <<jobStatus, jobToken, queueStatus, queueToken, queueJob>>

\* The steps that leave those columns alone.
LEMMA LeaseFrame ==
  ASSUME NEW w \in Workers
  PROVE  /\ \A p, t : BeginRun(w, p, t) => UNCHANGED leases
         /\ \A j : BeginEvaluation(w, j) => UNCHANGED leases
         /\ \A j : ReadForResume(w, j) => UNCHANGED leases
         /\ RefuseAdmission(w) => UNCHANGED leases
         /\ RefuseSensitive(w) => UNCHANGED leases
         /\ StartStage(w) => UNCHANGED leases
         /\ Heartbeat(w) => UNCHANGED leases
         /\ ModelReturns(w) => UNCHANGED leases
         /\ RecordResult(w) => UNCHANGED leases
         /\ PrepareReport(w) => UNCHANGED leases
         /\ ReadEvaluation(w) => UNCHANGED leases
         /\ Raise(w) => UNCHANGED leases
         /\ Crash(w) => UNCHANGED leases
         /\ \A j : RecheckJob(w, j) => UNCHANGED leases
         /\ \A c : RecheckClaim(w, c) => UNCHANGED leases
         /\ \A j : JobAges(j) => UNCHANGED leases
         /\ \A j : EvidenceChanges(j) => UNCHANGED leases
         /\ \A q : ClaimAges(q) => UNCHANGED leases
<1> USE DEF leases, jobVars, queueVars
<1>1. StartStage(w) => UNCHANGED leases  BY DEF StartStage, LoseLease
<1>2. RecordResult(w) => UNCHANGED leases  BY DEF RecordResult, LoseLease
<1>3. PrepareReport(w) => UNCHANGED leases  BY DEF PrepareReport, LoseLease
<1> QED
  BY <1>1, <1>2, <1>3
  DEF BeginRun, BeginEvaluation, ReadForResume, RefuseAdmission,
      RefuseSensitive, Heartbeat, ModelReturns, ReadEvaluation, Raise, Crash,
      RecheckJob, RecheckClaim, JobAges, EvidenceChanges, ClaimAges

\* ExclusiveExecution depends on those columns only.
LEMMA ExclusiveFrame ==
  ASSUME ExclusiveExecution, UNCHANGED leases
  PROVE  ExclusiveExecution'
  BY DEF ExclusiveExecution, RunningJobs, RunningItems, leases

\* No queue command makes a row or a job run.
LEMMA ExclusiveCommand ==
  ASSUME TypeOK, ExclusiveExecution, NEW q \in Queue, Command(q)
  PROVE  ExclusiveExecution'
<1> USE DEF TypeOK, ExclusiveExecution, RunningJobs, RunningItems, jobVars
<1>1. CASE Enqueue(q)  BY <1>1 DEF Enqueue
<1>2. CASE CancelQueueItem(q)  BY <1>2 DEF CancelQueueItem
<1>3. CASE ParkQueueItem(q)  BY <1>3 DEF ParkQueueItem
<1>4. CASE UnparkQueueItem(q)  BY <1>4 DEF UnparkQueueItem
<1>5. CASE ResetQueueItem(q)  BY <1>5 DEF ResetQueueItem
<1>6. ASSUME NEW s \in Jobs, SupersedeQualityFailure(q, s)
      PROVE  ExclusiveExecution'
  BY <1>6 DEF SupersedeQualityFailure
<1> QED  BY <1>1, <1>2, <1>3, <1>4, <1>5, <1>6 DEF Command

\* At most one job and one row, bound to each other, are exclusive.
LEMMA ExclusiveIntro ==
  ASSUME NEW j, NEW q, RunningJobs' \subseteq {j}, RunningItems' \subseteq {q},
         \A i \in RunningJobs', p \in RunningItems' :
           queueJob'[p] = i /\ queueToken'[p] = jobToken'[i]
  PROVE  ExclusiveExecution'
  BY DEF ExclusiveExecution

\* A row may start, and a job may start, only when nothing else runs.
LEMMA ExclusiveStart ==
  ASSUME TypeOK, ExclusiveExecution, NEW w \in Workers
  PROVE  /\ \A q \in Queue, t \in Fresh :
              ClaimNextQueueItem(w, q, t) => ExclusiveExecution'
         /\ \A j \in Jobs : InsertJob(w, j) => ExclusiveExecution'
         /\ \A j \in Jobs : ReuseJob(w, j) => ExclusiveExecution'
         /\ \A t \in Fresh : CommitResume(w, t) => ExclusiveExecution'
<1> USE DEF TypeOK, ExclusiveExecution, RunningJobs, RunningItems
<1>w. wk[w] \in Worker  OBVIOUS
<1>1. ASSUME NEW q \in Queue, NEW t \in Fresh, ClaimNextQueueItem(w, q, t)
      PROVE  ExclusiveExecution'
  BY <1>1 DEF ClaimNextQueueItem, jobVars
<1>2. ASSUME NEW j \in Jobs, InsertJob(w, j)
      PROVE  ExclusiveExecution'
  <2>1. RunningJobs' = {j}  BY <1>2 DEF InsertJob, Admissible
  <2>2. RunningItems' \subseteq {wk[w].item}
    BY <1>2 DEF InsertJob, Admissible
  <2>3. ASSUME NEW q \in RunningItems'
        PROVE  queueJob'[q] = j /\ queueToken'[q] = jobToken'[j]
    <3>1. q = wk[w].item /\ q \in Queue /\ q # None
      BY <2>2, <2>3, NoneAssumption
    <3> QED  BY <1>2, <3>1 DEF InsertJob, Admissible, LinkTo, ClaimActive
  <2> HIDE DEF ExclusiveExecution, RunningJobs, RunningItems
  <2> QED  BY <2>1, <2>2, <2>3, ExclusiveIntro
<1>3. ASSUME NEW j \in Jobs, ReuseJob(w, j)
      PROVE  ExclusiveExecution'
  BY <1>3 DEF ReuseJob, Admissible, jobVars
<1>4. ASSUME NEW t \in Fresh, CommitResume(w, t)
      PROVE  ExclusiveExecution'
  <2> DEFINE j == wk[w].job
  <2>1. CASE UNCHANGED <<jobVars, queueVars, pass>>
    BY <2>1, ExclusiveFrame DEF leases, jobVars, queueVars
  <2>2. CASE ~ UNCHANGED <<jobVars, queueVars, pass>>
    <3>1. /\ RunningJobs \subseteq {j} /\ RunningItems = {} /\ StillResumable(j)
          /\ jobStatus' = [jobStatus EXCEPT ![j] = "running"]
          /\ jobToken' = [jobToken EXCEPT ![j] = t]
          /\ UNCHANGED queueJob
      BY <1>4, <2>2 DEF CommitResume
    <3>2. PICK item \in Queue \cup {None} :
            /\ IF Relinkable(j) = {} THEN item = None
                                     ELSE item \in Relinkable(j)
            /\ IF item = None
               THEN UNCHANGED <<queueStatus, queueToken, claimStale, pass>>
               ELSE /\ queueStatus' = [queueStatus EXCEPT ![item] = "running"]
                    /\ queueToken' = [queueToken EXCEPT ![item] = t]
                    /\ Restamp(item)
      BY <1>4, <2>2 DEF CommitResume
    <3>3. RunningJobs' \subseteq {j}  BY <3>1
    <3>4. RunningItems' \subseteq {item}  BY <3>1, <3>2
    <3>5. ASSUME NEW i \in RunningJobs', NEW q \in RunningItems'
          PROVE  queueJob'[q] = i /\ queueToken'[q] = jobToken'[i]
      <4>1. i = j /\ q = item /\ j \in Jobs /\ item \in Queue /\ item # None
        BY <3>3, <3>4, <3>5, NoneAssumption
      <4>2. queueJob[q] = j  BY <3>2, <4>1 DEF Relinkable
      <4> QED  BY <3>1, <3>2, <4>1, <4>2
    <3> HIDE DEF ExclusiveExecution, RunningJobs, RunningItems, j
    <3> QED  BY <3>3, <3>4, <3>5, ExclusiveIntro
  <2> QED  BY <2>1, <2>2
<1> QED  BY <1>1, <1>2, <1>3, <1>4

\* Whatever stops running leaves the rest as it is.
LEMMA ExclusiveStop ==
  ASSUME TypeOK, ExclusiveExecution, NEW w \in Workers
  PROVE  /\ RecordFailure(w) => ExclusiveExecution'
         /\ SealReport(w) => ExclusiveExecution'
         /\ CommitEvaluation(w) => ExclusiveExecution'
         /\ FailClaim(w) => ExclusiveExecution'
         /\ NeedApproval(w) => ExclusiveExecution'
         /\ AbandonQueueClaim(w) => ExclusiveExecution'
         /\ Reconcile(w) => ExclusiveExecution'
<1> USE DEF TypeOK
<1>1. ASSUME RunningJobs' \subseteq RunningJobs,
             RunningItems' \subseteq RunningItems,
             \A j \in RunningJobs' : jobToken'[j] = jobToken[j],
             \A q \in RunningItems' : /\ queueToken'[q] = queueToken[q]
                                      /\ queueJob'[q] = queueJob[q]
      PROVE  ExclusiveExecution'
  BY <1>1 DEF ExclusiveExecution
<1> USE DEF RunningJobs, RunningItems
<1>2. RecordFailure(w) => ExclusiveExecution'
  BY <1>1 DEF RecordFailure, jobVars, queueVars
<1>3. SealReport(w) => ExclusiveExecution'
  BY <1>1 DEF SealReport, jobVars, queueVars
<1>4. CommitEvaluation(w) => ExclusiveExecution'
  <2> SUFFICES ASSUME CommitEvaluation(w)  PROVE ExclusiveExecution'  OBVIOUS
  <2>1. CASE UNCHANGED <<evaluation, queueStatus, queueToken>>
    BY <1>1, <2>1 DEF CommitEvaluation
  <2>2. CASE queueStatus' = [q \in Queue |->
             IF q \notin SettledBy(w) THEN queueStatus[q]
             ELSE IF wk[w].verdict THEN "complete" ELSE "quality_failed"]
             /\ queueToken' = [q \in Queue |->
             IF q = wk[w].item THEN None ELSE queueToken[q]]
    <3>1. RunningItems' \subseteq RunningItems
          /\ \A q \in RunningItems' : q # wk[w].item
      BY <2>2 DEF SettledBy
    <3> QED  BY <1>1, <2>2, <3>1 DEF CommitEvaluation
  <2> QED  BY <2>1, <2>2 DEF CommitEvaluation
<1>5. ASSUME NEW s \in {"failed", "needs_approval"}, EndClaim(w, s),
             UNCHANGED <<jobVars, queueJob>>
      PROVE  ExclusiveExecution'
  BY <1>1, <1>5 DEF EndClaim, jobVars
<1>6. Reconcile(w) => ExclusiveExecution'
  BY <1>1 DEF Reconcile, jobVars
<1> QED
  BY <1>2, <1>3, <1>4, <1>5, <1>6 DEF FailClaim, NeedApproval, AbandonQueueClaim

\* Recovery re-issues the token of a row only when its job does not run.
LEMMA ExclusiveRecover ==
  ASSUME TypeOK, ExclusiveExecution, NEW w \in Workers, Recover(w)
  PROVE  ExclusiveExecution'
<1>1. PICK sealed \in SUBSET StaleRunning, claimed \in SUBSET RunningItems :
        \E deferred \in SUBSET (StaleRunning \ sealed), f \in [claimed -> Fresh] :
          RecoverStaleJobs(w, sealed, deferred, f)
  BY DEF Recover
<1>2. PICK deferred \in SUBSET (StaleRunning \ sealed), f \in [claimed -> Fresh] :
        RecoverStaleJobs(w, sealed, deferred, f)
  BY <1>1
<1> DEFINE abandoned == StaleRunning \ (sealed \cup deferred)
<1>3. /\ jobStatus' = [j \in Jobs |-> CASE j \in sealed -> "complete"
                                        [] j \in abandoned -> "interrupted"
                                        [] OTHER -> jobStatus[j]]
      /\ jobToken' = [j \in Jobs |-> IF j \in sealed \cup abandoned THEN None
                                                      ELSE jobToken[j]]
      /\ queueToken' = [q \in Queue |-> IF q \in claimed THEN f[q]
                                                         ELSE queueToken[q]]
      /\ UNCHANGED <<queueStatus, queueJob>>
  BY <1>2 DEF RecoverStaleJobs
<1>4. \A q \in claimed : /\ queueJob[q] # None
                         /\ jobStatus[queueJob[q]] = "complete"
                              \/ queueJob[q] \in sealed
  BY <1>2 DEF RecoverStaleJobs
<1>5. RunningItems' = RunningItems  BY <1>3 DEF RunningItems
<1>6. RunningJobs' \subseteq RunningJobs \ (sealed \cup abandoned)
  BY <1>3 DEF RunningJobs
<1>7. ASSUME NEW j \in RunningJobs', NEW q \in RunningItems'
      PROVE  queueJob'[q] = j /\ queueToken'[q] = jobToken'[j]
  <2>1. j \in RunningJobs /\ j \notin sealed /\ j \in Jobs /\ jobToken'[j] = jobToken[j]
    BY <1>3, <1>6 DEF RunningJobs
  <2>2. q \in RunningItems /\ q \in Queue  BY <1>5 DEF RunningItems
  <2>3. queueJob[q] = j /\ queueToken[q] = jobToken[j]
    BY <2>1, <2>2 DEF ExclusiveExecution
  <2>4. q \notin claimed  BY <1>4, <2>1, <2>3 DEF RunningJobs
  <2> QED  BY <1>3, <2>1, <2>2, <2>3, <2>4
<1> QED  BY <1>5, <1>6, <1>7 DEF ExclusiveExecution

\* Only one mission runs at a time, and a running row and a running job are
\* one mission under one lease: ExclusiveExecution is inductive.
THEOREM Exclusive == Spec => []ExclusiveExecution
<1>1. Init => ExclusiveExecution
  BY DEF Init, ExclusiveExecution, RunningJobs, RunningItems
<1>2. TypeOK /\ ExclusiveExecution /\ [Next]_vars => ExclusiveExecution'
  <2> SUFFICES ASSUME TypeOK, ExclusiveExecution, [Next]_vars
               PROVE  ExclusiveExecution'
    OBVIOUS
  <2>1. ASSUME NEW w \in Workers, Call(w)  PROVE ExclusiveExecution'
    BY <2>1, LeaseFrame, ExclusiveFrame, ExclusiveStart, ExclusiveRecover
    DEF Call
  <2>2. ASSUME NEW w \in Workers, Work(w)  PROVE ExclusiveExecution'
    BY <2>2, LeaseFrame, ExclusiveFrame, ExclusiveStart, ExclusiveStop
    DEF Work
  <2>3. ASSUME NEW w \in Workers, Heartbeat(w) \/ Disturb(w)
        PROVE  ExclusiveExecution'
    BY <2>3, LeaseFrame, ExclusiveFrame, ExclusiveStop DEF Disturb
  <2>4. ASSUME NEW j \in Jobs, JobAges(j) \/ EvidenceChanges(j)
        PROVE  ExclusiveExecution'
    BY <2>4, ExclusiveFrame
    DEF JobAges, EvidenceChanges, leases, queueVars
  <2>5. ASSUME NEW q \in Queue, ClaimAges(q)  PROVE ExclusiveExecution'
    BY <2>5, ExclusiveFrame DEF ClaimAges, leases, jobVars
  <2>6. CASE UNCHANGED vars
    BY <2>6, ExclusiveFrame DEF vars, leases, jobVars, queueVars
  <2> QED
    BY <2>1, <2>2, <2>3, <2>4, <2>5, <2>6, ExclusiveCommand
    DEF Next, Normal, Fault
<1> QED  BY <1>1, <1>2, TypeCorrect, PTL DEF Spec

=============================================================================
