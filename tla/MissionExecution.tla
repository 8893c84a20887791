-------------------------- MODULE MissionExecution --------------------------
(***************************************************************************)
(* The execution core of the workcell (core.py, class Company): the jobs   *)
(* and mission_queue tables, the worker processes that claim, run, resume, *)
(* evaluate and recover missions, and the operator's queue commands.       *)
(*                                                                         *)
(* Every BEGIN IMMEDIATE transaction is one atomic step; between two       *)
(* transactions a worker holds only its local variables (wk[w]), and any   *)
(* other worker may run.  A lease is the run_token a worker shares with    *)
(* the rows it owns.  The files behind a report are modelled apart, in     *)
(* ReportFinalization; here sealing succeeds, is refused or is deferred.   *)
(***************************************************************************)
EXTENDS Integers, FiniteSets, Nothing

CONSTANTS
  Jobs,       \* identities of rows of the jobs table
  Queue,      \* identities of rows of the mission_queue table
  Workers,    \* processes and threads that call into Company
  Tokens,     \* run tokens (uuid4 hex); one that nobody holds is a fresh one
  NumRoles    \* number of specialist assignments of every mission

ASSUME NumRolesAssumption == NumRoles \in Nat
ASSUME NoneAssumption == None \notin Jobs \cup Queue \cup Tokens

VARIABLES
  jobStatus,    \* jobs.status, "absent" before the INSERT
  jobToken,     \* jobs.run_token
  jobStale,     \* is the heartbeat older than the recovery threshold?
  ancestors,    \* the jobs reached by following jobs.parent_job_id
  reusable,     \* does jobs.input_fingerprint still admit reuse?
  asg,          \* assignments.status, per job and role
  intent,       \* run_token of the job's report_finalizations row, or None
  good,         \* would the sealed report pass the content checks?
  evidence,     \* does the frozen evidence manifest validate right now?
  evaluation,   \* the evaluations row: "none", "passed" or "failed"
  queueStatus,  \* mission_queue.status, "absent" before the INSERT
  queueToken,   \* mission_queue.run_token
  queueJob,     \* mission_queue.job_id
  claimStale,   \* is started_at older than the recovery threshold?
  wk,           \* the local variables of each worker
  pass          \* the local variables of each worker's recovery pass

jobVars   == <<jobStatus, jobToken, jobStale, ancestors, reusable, asg,
               intent, good, evidence, evaluation>>
queueVars == <<queueStatus, queueToken, queueJob, claimStale>>
vars      == <<jobVars, queueVars, wk, pass>>

Roles  == 1..NumRoles            \* the specialists, in sequence order
Stages == 1..(NumRoles + 1)      \* then the executive synthesis

JobStatus   == {"absent", "running", "complete", "failed", "interrupted"}
QueueStatus == {"absent", "queued", "running", "complete", "quality_failed",
                "failed", "needs_approval", "cancelled", "parked",
                "superseded"}
AsgStatus   == {"queued", "running", "complete", "failed"}
Verdicts    == {"none", "passed", "failed"}
Settled     == {"complete", "quality_failed"}

Pc == {"idle", "admitting", "stage", "model", "result", "failing", "prepare",
       "seal", "evaluate", "commit", "errored", "refused", "resuming",
       "rechecks"}
Via == {"none", "queue", "direct", "resume", "evaluate", "recover"}

Worker == [pc : Pc, via : Via, tok : Tokens \cup {None},
           job : Jobs \cup {None}, item : Queue \cup {None},
           parent : Jobs \cup {None}, stage : Stages, done : SUBSET Roles,
           lost : BOOLEAN, verdict : BOOLEAN]

Idle == [pc |-> "idle", via |-> "none", tok |-> None, job |-> None,
         item |-> None, parent |-> None, stage |-> 1, done |-> {},
         lost |-> FALSE, verdict |-> FALSE]

\* A queue claim re-issued by recovery: the row, its job and the new token.
Claim == [item : Queue, job : Jobs, tok : Tokens]

Pass == [stale : SUBSET Queue, recovered : SUBSET Jobs, todo : SUBSET Jobs,
         claims : SUBSET Claim]

NoPass == [stale |-> {}, recovered |-> {}, todo |-> {}, claims |-> {}]

Init ==
  /\ jobStatus  = [j \in Jobs |-> "absent"]
  /\ jobToken   = [j \in Jobs |-> None]
  /\ jobStale   = [j \in Jobs |-> FALSE]
  /\ ancestors  = [j \in Jobs |-> {}]
  /\ reusable   = [j \in Jobs |-> FALSE]
  /\ asg        = [j \in Jobs |-> [r \in Roles |-> "queued"]]
  /\ intent     = [j \in Jobs |-> None]
  /\ good       = [j \in Jobs |-> FALSE]
  /\ evidence   = [j \in Jobs |-> FALSE]
  /\ evaluation = [j \in Jobs |-> "none"]
  /\ queueStatus = [q \in Queue |-> "absent"]
  /\ queueToken  = [q \in Queue |-> None]
  /\ queueJob    = [q \in Queue |-> None]
  /\ claimStale  = [q \in Queue |-> FALSE]
  /\ wk   = [w \in Workers |-> Idle]
  /\ pass = [w \in Workers |-> NoPass]

----------------------------------------------------------------------------
\* Helpers

RunningJobs  == {j \in Jobs : jobStatus[j] = "running"}
RunningItems == {q \in Queue : queueStatus[q] = "running"}

\* Every token some row or some worker still holds.
InUse ==
  {jobToken[j] : j \in Jobs} \cup {intent[j] : j \in Jobs}
    \cup {queueToken[q] : q \in Queue} \cup {wk[w].tok : w \in Workers}
    \cup UNION {{c.tok : c \in pass[w].claims} : w \in Workers}

\* uuid.uuid4().hex: a token nobody holds.  Tokens are only ever compared for
\* equality, so which fresh one is drawn does not matter.
AnyToken == Tokens               \* mutant of Fresh: tokens may repeat
Fresh == Tokens \ InUse

At(w, p) == wk[w].pc = p
Goto(w, p) == wk' = [wk EXCEPT ![w].pc = p]
Rest(w) == wk' = [wk EXCEPT ![w] = Idle]

\* An exception leaves run(), resume() or evaluate_job(): execute_queue_claim
\* catches it and takes every PermissionError, the filesystem's too, for a
\* refusal; any other caller just ends.
Propagate(w) ==
  \/ wk[w].via = "queue" /\ (Goto(w, "errored") \/ Goto(w, "refused"))
  \/ wk[w].via # "queue" /\ Rest(w)

\* The WHERE clause of every lease-guarded UPDATE of the jobs table.
LeaseActive(w) ==
  /\ wk[w].job # None
  /\ jobStatus[wk[w].job] = "running"
  /\ jobToken[wk[w].job] = wk[w].tok

\* The WHERE clause of every token-guarded UPDATE of the mission_queue table.
ClaimActive(w) ==
  /\ wk[w].item # None
  /\ queueStatus[wk[w].item] = "running"
  /\ queueToken[wk[w].item] = wk[w].tok

\* A stage follows the completed roles: the first one without a result.
IsNext(s, done) == s \notin done /\ \A t \in Stages : t < s => t \in done

\* A row stamped now is not stale for any pass whose cutoff is already fixed.
Restamp(q) ==
  /\ claimStale' = [claimStale EXCEPT ![q] = FALSE]
  /\ pass' = [w \in Workers |-> [pass[w] EXCEPT !.stale = @ \ {q}]]

\* The age of a row is read only while it runs.
Unstamp == claimStale' = [q \in Queue |-> claimStale[q] /\ q \in RunningItems']

----------------------------------------------------------------------------
\* The operator's queue commands: one transaction each

Enqueue(q) ==
  /\ queueStatus[q] = "absent"
  /\ queueStatus' = [queueStatus EXCEPT ![q] = "queued"]
  /\ UNCHANGED <<jobVars, queueToken, queueJob, claimStale, wk, pass>>

CancelQueueItem(q) ==
  /\ queueStatus[q] = "queued"
  /\ queueStatus' = [queueStatus EXCEPT ![q] = "cancelled"]
  /\ UNCHANGED <<jobVars, queueToken, queueJob, claimStale, wk, pass>>

ParkQueueItem(q) ==
  /\ queueStatus[q] = "queued"
  /\ queueToken[q] = None /\ queueJob[q] = None
  /\ queueStatus' = [queueStatus EXCEPT ![q] = "parked"]
  /\ UNCHANGED <<jobVars, queueToken, queueJob, claimStale, wk, pass>>

UnparkQueueItem(q) ==
  /\ queueStatus[q] = "parked"
  /\ queueToken[q] = None /\ queueJob[q] = None
  /\ queueStatus' = [queueStatus EXCEPT ![q] = "queued"]
  /\ UNCHANGED <<jobVars, queueToken, queueJob, claimStale, wk, pass>>

ResetQueueItem(q) ==
  /\ queueStatus[q] \in {"failed", "quality_failed", "superseded"}
  /\ queueStatus' = [queueStatus EXCEPT ![q] = "queued"]
  /\ queueToken' = [queueToken EXCEPT ![q] = None]
  /\ queueJob' = [queueJob EXCEPT ![q] = None]
  /\ UNCHANGED <<jobVars, claimStale, wk, pass>>

\* Retire a failed verdict: a retry descendant of the row's job passes now.
SupersedeQualityFailure(q, s) ==
  /\ queueStatus[q] = "quality_failed" /\ queueToken[q] = None
  /\ queueJob[q] \in ancestors[s]
  /\ jobStatus[queueJob[q]] = "complete" /\ jobStatus[s] = "complete"
  /\ evaluation[s] = "passed" /\ evidence[s]
  /\ queueStatus' = [queueStatus EXCEPT ![q] = "superseded"]
  /\ UNCHANGED <<jobVars, queueToken, queueJob, claimStale, wk, pass>>

----------------------------------------------------------------------------
\* Claiming a row and admitting a job

\* The worker turns to evaluate_job for job j, with its queue claim if it has
\* one; no exception of an evaluation is handled by the call it came from.
Evaluate(w, j) ==
  wk' = [wk EXCEPT ![w] =
    [Idle EXCEPT !.pc = "evaluate", !.via = "evaluate", !.job = j,
                 !.item = wk[w].item,
                 !.tok = IF wk[w].item = None THEN None ELSE wk[w].tok]]

\* claim_next_queue_item: q is the head the ordering and the preflight chose.
ClaimNextQueueItem(w, q, t) ==
  /\ At(w, "idle")
  /\ RunningJobs = {} /\ RunningItems = {}
  /\ queueStatus[q] = "queued"
  /\ queueStatus' = [queueStatus EXCEPT ![q] = "running"]
  /\ queueToken' = [queueToken EXCEPT ![q] = t]
  /\ Restamp(q)
  /\ wk' = [wk EXCEPT ![w] = [Idle EXCEPT !.pc = "admitting", !.via = "queue",
                                          !.tok = t, !.item = q]]
  /\ UNCHANGED <<jobVars, queueJob>>

\* A direct run, or the retry of job p: the checks run() makes before its
\* transaction change nothing.
BeginRun(w, p, t) ==
  /\ At(w, "idle")
  /\ p # None => jobStatus[p] # "absent"
  /\ wk' = [wk EXCEPT ![w] = [Idle EXCEPT !.pc = "admitting", !.via = "direct",
                                          !.tok = t, !.parent = p]]
  /\ UNCHANGED <<jobVars, queueVars, pass>>

\* Mutant of Admissible: the UPDATE that links the row does not ask whose claim
\* the row is under by now.
AdmissibleOnOldClaim(w) ==
  /\ RunningJobs = {}
  /\ RunningItems \subseteq {wk[w].item}
  /\ wk[w].item # None => queueJob[wk[w].item] = None

\* The checks under run()'s transaction: nobody else executes, and the claim
\* this run works for is still its own and still unlinked.
Admissible(w) ==
  /\ RunningJobs = {}
  /\ RunningItems \subseteq {wk[w].item}
  /\ wk[w].item # None => ClaimActive(w) /\ queueJob[wk[w].item] = None

\* Mutant of LinkTo: the columns are swapped.
LinkToken(w, j) ==
  queueJob' = [q \in Queue |-> IF q = wk[w].item THEN wk[w].tok ELSE queueJob[q]]

LinkTo(w, j) ==
  queueJob' = [q \in Queue |-> IF q = wk[w].item THEN j ELSE queueJob[q]]

InsertJob(w, j) ==
  /\ At(w, "admitting") /\ jobStatus[j] = "absent"
  /\ Admissible(w)
  /\ jobStatus' = [jobStatus EXCEPT ![j] = "running"]
  /\ jobToken' = [jobToken EXCEPT ![j] = wk[w].tok]
  /\ jobStale' = [jobStale EXCEPT ![j] = FALSE]
  /\ ancestors' = [ancestors EXCEPT ![j] =
       IF wk[w].parent = None THEN {}
       ELSE {wk[w].parent} \cup ancestors[wk[w].parent]]
  /\ reusable' = [reusable EXCEPT ![j] = TRUE]
  /\ evidence' = [evidence EXCEPT ![j] = TRUE]
  /\ asg' = [asg EXCEPT ![j] = [r \in Roles |-> "queued"]]
  /\ LinkTo(w, j)
  /\ wk' = [wk EXCEPT ![w] =
               [@ EXCEPT !.pc = "stage", !.job = j, !.stage = 1, !.parent = None]]
  /\ UNCHANGED <<intent, good, evaluation, queueStatus, queueToken,
                 claimStale, pass>>

\* Another mission executes, or the claim was taken away: run() raises and its
\* transaction rolls back.
RefuseAdmission(w) ==
  /\ At(w, "admitting") /\ ~Admissible(w)
  /\ IF wk[w].via = "queue" THEN Goto(w, "errored") ELSE Rest(w)
  /\ UNCHANGED <<jobVars, queueVars, pass>>

\* A recent report of identical inputs stands in for a new job.
ReuseJob(w, j) ==
  /\ At(w, "admitting") /\ wk[w].parent = None
  /\ Admissible(w)
  /\ jobStatus[j] = "complete" /\ reusable[j]
  /\ evaluation[j] = "passed" /\ evidence[j]
  /\ LinkTo(w, j)
  /\ IF wk[w].item = None
     THEN Rest(w)
     ELSE Evaluate(w, j)
  /\ UNCHANGED <<jobVars, queueStatus, queueToken, claimStale, pass>>

----------------------------------------------------------------------------
\* Executing a job: _execute_job and _call_with_lease_heartbeat

Renew(j) == jobStale' = [jobStale EXCEPT ![j] = FALSE]

SetAsg(w, status) ==
  asg' = [asg EXCEPT ![wk[w].job] =
            [r \in Roles |-> IF r = wk[w].stage THEN status ELSE @[r]]]

\* Mutant of LoseLease: the assignment is updated before the lease is tested.
LoseLeaseLate(w) ==
  /\ ~LeaseActive(w)
  /\ SetAsg(w, "complete") /\ Rest(w)
  /\ UNCHANGED <<jobStatus, jobToken, jobStale, ancestors, reusable, intent,
                 good, evidence, evaluation, queueVars, pass>>

\* A worker that finds its lease gone discards its late result and stops.
LoseLease(w) ==
  /\ ~LeaseActive(w)
  /\ Rest(w)
  /\ UNCHANGED <<jobVars, queueVars, pass>>

StartStage(w) ==
  /\ At(w, "stage")
  /\ \/ LoseLease(w)
     \/ /\ LeaseActive(w)
        /\ Renew(wk[w].job)
        /\ SetAsg(w, "running")
        /\ Goto(w, "model")
        /\ UNCHANGED <<jobStatus, jobToken, ancestors, reusable, intent, good,
                       evidence, evaluation, queueVars, pass>>

\* The heartbeat thread beside a blocking model call.
Heartbeat(w) ==
  /\ At(w, "model") /\ ~wk[w].lost
  /\ \/ /\ LeaseActive(w) /\ jobStale[wk[w].job]
        /\ Renew(wk[w].job)
        /\ UNCHANGED wk
     \/ /\ ~LeaseActive(w)
        /\ wk' = [wk EXCEPT ![w].lost = TRUE]
        /\ UNCHANGED jobStale
  /\ UNCHANGED <<jobStatus, jobToken, ancestors, reusable, asg, intent, good,
                 evidence, evaluation, queueVars, pass>>

\* The model answers; the call raises if its heartbeat saw the lease lost.
ModelReturns(w) ==
  /\ At(w, "model")
  /\ IF wk[w].lost THEN Rest(w) ELSE Goto(w, "result")
  /\ UNCHANGED <<jobVars, queueVars, pass>>

RecordResult(w) ==
  /\ At(w, "result")
  /\ \/ LoseLease(w)
     \/ /\ LeaseActive(w)
        /\ Renew(wk[w].job)
        /\ SetAsg(w, "complete")
        /\ \/ /\ wk[w].stage \notin Roles          \* the synthesis is stored
              /\ wk' = [wk EXCEPT ![w] =
                           [@ EXCEPT !.pc = "prepare", !.stage = 1, !.done = {}]]
           \/ /\ wk[w].stage \in Roles
              /\ \E s \in Stages :
                   /\ IsNext(s, wk[w].done \cup {wk[w].stage})
                   /\ wk' = [wk EXCEPT ![w] =
                           [@ EXCEPT !.pc = "stage", !.stage = s,
                                     !.done = wk[w].done \cup {wk[w].stage}]]
        /\ UNCHANGED <<jobStatus, jobToken, ancestors, reusable, intent, good,
                       evidence, evaluation, queueVars, pass>>

\* The except block of _execute_job.  A queue run goes on to the except block
\* of execute_queue_claim; a resumed queue row is left running.
RecordFailure(w) ==
  /\ At(w, "failing")
  /\ Propagate(w)
  /\ \/ /\ ~LeaseActive(w)
        /\ UNCHANGED jobVars
     \/ /\ LeaseActive(w)
        /\ jobStatus' = [jobStatus EXCEPT ![wk[w].job] = "failed"]
        /\ jobToken' = [jobToken EXCEPT ![wk[w].job] = None]
        /\ Renew(wk[w].job)
        /\ SetAsg(w, "failed")
        /\ UNCHANGED <<ancestors, reusable, intent, good, evidence, evaluation>>
  /\ UNCHANGED <<queueVars, pass>>

PrepareReport(w) ==
  /\ At(w, "prepare")
  /\ \/ LoseLease(w)
     \/ /\ LeaseActive(w)
        /\ Renew(wk[w].job)
        /\ intent' = [intent EXCEPT ![wk[w].job] = wk[w].tok]
        /\ Goto(w, "seal")
        /\ UNCHANGED <<jobStatus, jobToken, ancestors, reusable, asg, good,
                       evidence, evaluation, queueVars, pass>>

\* Can the intent of job j be sealed by the holder of token t?
Sealable(j, t) == t # None /\ intent[j] = t

\* Sealing is one transaction.  The report may be refused (an artifact does
\* not match) or deferred (the filesystem failed): the job then stays running
\* until recovery, and the queue row with it.
SealReport(w) ==
  /\ At(w, "seal")
  /\ \/ /\ Rest(w)
        /\ UNCHANGED jobVars
     \/ /\ Sealable(wk[w].job, wk[w].tok) /\ LeaseActive(w)
        /\ \E g \in BOOLEAN : good' = [good EXCEPT ![wk[w].job] = g]
        /\ jobStatus' = [jobStatus EXCEPT ![wk[w].job] = "complete"]
        /\ jobToken' = [jobToken EXCEPT ![wk[w].job] = None]
        /\ Renew(wk[w].job)
        /\ intent' = [intent EXCEPT ![wk[w].job] = None]
        /\ Evaluate(w, wk[w].job)
        /\ UNCHANGED <<ancestors, reusable, asg, evidence, evaluation>>
  /\ UNCHANGED <<queueVars, pass>>

----------------------------------------------------------------------------
\* Evaluating: evaluate_job reads outside its transaction, then commits

\* The evaluate command: no queue claim.
BeginEvaluation(w, j) ==
  /\ At(w, "idle") /\ jobStatus[j] = "complete"
  /\ Evaluate(w, j)
  /\ UNCHANGED <<jobVars, queueVars, pass>>

PassesUnfinished(j) == good[j] /\ evidence[j]    \* mutant of Passes

\* The verdict of the deterministic checks on what can be read now.
Passes(j) ==
  good[j] /\ evidence[j] /\ \A r \in Roles : asg[j][r] = "complete"

ReadEvaluation(w) ==
  /\ At(w, "evaluate")
  /\ wk' = [wk EXCEPT ![w] = [@ EXCEPT !.pc = "commit",
                                       !.verdict = Passes(wk[w].job)]]
  /\ UNCHANGED <<jobVars, queueVars, pass>>

\* The evaluation is over: a recovery pass goes on, anyone else is done.
Conclude(w) ==
  IF wk[w].via = "recover"
  THEN wk' = [wk EXCEPT ![w] = [Idle EXCEPT !.pc = "rechecks",
                                            !.via = "recover"]]
  ELSE Rest(w)

\* Only an evaluation that holds a queue claim rechecks what it read.
StillCurrent(w) ==
  wk[w].item # None => /\ ClaimActive(w) /\ queueJob[wk[w].item] = wk[w].job
                       /\ wk[w].verdict => evidence[wk[w].job]

SettledByClaim(w) == {wk[w].item} \cap Queue     \* mutant of SettledBy

\* The rows an evaluation settles: the claimed row, and every row linked to its
\* job that is settled already.
SettledBy(w) ==
  {q \in Queue : \/ q = wk[w].item
                 \/ queueJob[q] = wk[w].job /\ queueStatus[q] \in Settled}

CommitEvaluation(w) ==
  /\ At(w, "commit")
  /\ Conclude(w)
  /\ \/ /\ ~StillCurrent(w)
        /\ UNCHANGED <<evaluation, queueStatus, queueToken>>
     \/ /\ StillCurrent(w)
        /\ evaluation' = [evaluation EXCEPT ![wk[w].job] =
                            IF wk[w].verdict THEN "passed" ELSE "failed"]
        /\ queueStatus' = [q \in Queue |->
             IF q \notin SettledBy(w) THEN queueStatus[q]
             ELSE IF wk[w].verdict THEN "complete" ELSE "quality_failed"]
        /\ queueToken' = [q \in Queue |->
             IF q = wk[w].item THEN None ELSE queueToken[q]]
  /\ Unstamp
  /\ UNCHANGED <<jobStatus, jobToken, jobStale, ancestors, reusable, asg,
                 intent, good, evidence, queueJob, pass>>

----------------------------------------------------------------------------
\* Failing: exceptions, the except blocks of execute_queue_claim, crashes

\* Any transaction or model call may raise; the transaction rolls back.
Raise(w) ==
  /\ \/ /\ wk[w].pc \in {"stage", "model", "result"}
        /\ Goto(w, "failing")
     \/ /\ wk[w].pc \in {"admitting", "failing", "prepare", "seal"}
        /\ Propagate(w)
     \/ /\ wk[w].pc \in {"evaluate", "commit"}
        /\ Conclude(w)
  /\ UNCHANGED <<jobVars, queueVars, pass>>

\* run() found the objective sensitive: it records an approval request and
\* raises PermissionError before any job exists.
RefuseSensitive(w) ==
  /\ At(w, "admitting")
  /\ IF wk[w].via = "queue" THEN Goto(w, "refused") ELSE Rest(w)
  /\ UNCHANGED <<jobVars, queueVars, pass>>

\* Mutant of EndClaim: the UPDATE is not guarded by the token.
EndAnyClaim(w, status) ==
  /\ queueStatus' = [queueStatus EXCEPT ![wk[w].item] = status]
  /\ queueToken' = [queueToken EXCEPT ![wk[w].item] = None]

\* The token-guarded UPDATE that ends a claim without a verdict.
EndClaim(w, status) ==
  IF ClaimActive(w)
  THEN /\ queueStatus' = [queueStatus EXCEPT ![wk[w].item] = status]
       /\ queueToken' = [queueToken EXCEPT ![wk[w].item] = None]
  ELSE UNCHANGED <<queueStatus, queueToken>>

FailClaim(w) ==
  /\ At(w, "errored")
  /\ EndClaim(w, "failed")
  /\ Unstamp /\ Rest(w)
  /\ UNCHANGED <<jobVars, queueJob, pass>>

NeedApproval(w) ==
  /\ At(w, "refused")
  /\ EndClaim(w, "needs_approval")
  /\ Unstamp /\ Rest(w)
  /\ UNCHANGED <<jobVars, queueJob, pass>>

\* The dashboard could not start its worker thread for the claim.
AbandonQueueClaim(w) ==
  /\ At(w, "admitting") /\ wk[w].via = "queue"
  /\ EndClaim(w, "failed")
  /\ Unstamp /\ Rest(w)
  /\ UNCHANGED <<jobVars, queueJob, pass>>

\* The process dies, or an except block raises: nothing durable changes.
Crash(w) ==
  /\ ~At(w, "idle")
  /\ Rest(w)
  /\ pass' = [pass EXCEPT ![w] = NoPass]
  /\ UNCHANGED <<jobVars, queueVars>>

----------------------------------------------------------------------------
\* resume: reads the job and its results, then takes a lease in a transaction

ReadForResume(w, j) ==
  /\ At(w, "idle")
  /\ jobStatus[j] \in {"failed", "interrupted"} /\ evidence[j]
  /\ wk' = [wk EXCEPT ![w] =
       [Idle EXCEPT !.pc = "resuming", !.via = "resume", !.job = j,
                    !.done = {r \in Roles : asg[j][r] = "complete"}]]
  /\ UNCHANGED <<jobVars, queueVars, pass>>

TrustsRead(j) == TRUE                             \* mutant of StillResumable

\* The status guard of the UPDATE: the job was read in an earlier transaction.
StillResumable(j) == jobStatus[j] \in {"failed", "interrupted"}

\* The failed row the job came from is claimed again, under the same token.
Relinkable(j) == {q \in Queue : queueJob[q] = j /\ queueStatus[q] = "failed"}

CommitResume(w, t) ==
  /\ At(w, "resuming")
  /\ LET j == wk[w].job IN
     IF RunningJobs \subseteq {j} /\ RunningItems = {} /\ StillResumable(j)
     THEN /\ jobStatus' = [jobStatus EXCEPT ![j] = "running"]
          /\ jobToken' = [jobToken EXCEPT ![j] = t]
          /\ Renew(j)
          /\ reusable' = [reusable EXCEPT ![j] = FALSE]
          /\ asg' = [asg EXCEPT ![j] = [r \in Roles |->
                       IF @[r] = "failed" THEN "queued" ELSE @[r]]]
          /\ \E s \in Stages, item \in Queue \cup {None} :
               /\ IsNext(s, wk[w].done)
               /\ IF Relinkable(j) = {} THEN item = None
                                        ELSE item \in Relinkable(j)
               /\ wk' = [wk EXCEPT ![w] = [@ EXCEPT !.pc = "stage", !.tok = t,
                                                    !.item = item, !.stage = s]]
               /\ IF item = None
                  THEN UNCHANGED <<queueStatus, queueToken, claimStale, pass>>
                  ELSE /\ queueStatus' = [queueStatus EXCEPT ![item] = "running"]
                       /\ queueToken' = [queueToken EXCEPT ![item] = t]
                       /\ Restamp(item)
          /\ UNCHANGED <<ancestors, intent, good, evidence, evaluation, queueJob>>
     ELSE /\ Rest(w)
          /\ UNCHANGED <<jobVars, queueVars, pass>>

----------------------------------------------------------------------------
\* recover_stale_jobs: revoke and claim, recheck, reconcile

StaleRunning == {j \in RunningJobs : jobStale[j]}

KeepIntents(js) == intent' = [j \in Jobs |-> intent[j]]  \* mutant of DropIntents
DropIntents(js) ==
  intent' = [j \in Jobs |-> IF j \in js THEN None ELSE intent[j]]

\* First transaction.  Of the stale running jobs, those in sealed are sealed,
\* those in deferred keep their intent, the others are interrupted; then the
\* running rows whose job is complete get a recovery token each (f).
RecoverStaleJobs(w, sealed, deferred, f) ==
  LET sealable  == {j \in StaleRunning : Sealable(j, jobToken[j])}
      abandoned == StaleRunning \ (sealed \cup deferred)
      recovered == sealed \cup abandoned
      claimed   == DOMAIN f
      completeNow(j) == jobStatus[j] = "complete" \/ j \in sealed
      due(q) == \/ queueJob[q] \in recovered
                \/ claimStale[q] /\ jobStale[queueJob[q]]
  IN
  /\ At(w, "idle")
  /\ sealed \subseteq sealable /\ deferred \subseteq sealable \ sealed
  /\ claimed = {q \in RunningItems :
                  queueJob[q] # None /\ completeNow(queueJob[q]) /\ due(q)}
  /\ \A p, q \in claimed : f[p] = f[q] => p = q
  /\ jobStatus' = [j \in Jobs |-> CASE j \in sealed -> "complete"
                                    [] j \in abandoned -> "interrupted"
                                    [] OTHER -> jobStatus[j]]
  /\ jobToken' = [j \in Jobs |-> IF j \in recovered THEN None ELSE jobToken[j]]
  /\ jobStale' = [j \in Jobs |-> jobStale[j] /\ j \notin recovered]
  /\ DropIntents(recovered)
  /\ asg' = [j \in Jobs |-> [r \in Roles |->
       IF j \in abandoned /\ asg[j][r] = "running" THEN "failed" ELSE asg[j][r]]]
  /\ \E g \in [sealed -> BOOLEAN] :
       good' = [j \in Jobs |-> IF j \in sealed THEN g[j] ELSE good[j]]
  /\ queueToken' = [q \in Queue |-> IF q \in claimed THEN f[q] ELSE queueToken[q]]
  /\ pass' = [pass EXCEPT ![w] =
       [stale |-> {q \in RunningItems : claimStale[q]},
        recovered |-> recovered,
        todo |-> (sealed \ {queueJob[q] : q \in claimed}) \cup
                 {j \in Jobs : /\ jobStatus[j] = "complete" /\ jobStale[j]
                               /\ evaluation[j] = "none"
                               /\ \A q \in RunningItems : queueJob[q] # j},
        claims |-> {[item |-> q, job |-> queueJob[q], tok |-> f[q]] :
                       q \in claimed}]]
  /\ wk' = [wk EXCEPT ![w] = [Idle EXCEPT !.pc = "rechecks",
                                          !.via = "recover"]]
  /\ UNCHANGED <<ancestors, reusable, evidence, evaluation, queueStatus,
                 queueJob, claimStale>>

Recover(w) ==
  \E sealed \in SUBSET StaleRunning, claimed \in SUBSET RunningItems :
    \E deferred \in SUBSET (StaleRunning \ sealed), f \in [claimed -> Fresh] :
      RecoverStaleJobs(w, sealed, deferred, f)

\* The reports without a queue claim are rechecked first, then the claims.
RecheckJob(w, j) ==
  /\ At(w, "rechecks") /\ j \in pass[w].todo
  /\ pass' = [pass EXCEPT ![w].todo = @ \ {j}]
  /\ wk' = [wk EXCEPT ![w] = [@ EXCEPT !.pc = "evaluate", !.job = j]]
  /\ UNCHANGED <<jobVars, queueVars>>

RecheckClaim(w, c) ==
  /\ At(w, "rechecks") /\ pass[w].todo = {} /\ c \in pass[w].claims
  /\ pass' = [pass EXCEPT ![w].claims = @ \ {c}]
  /\ wk' = [wk EXCEPT ![w] = [@ EXCEPT !.pc = "evaluate", !.job = c.job,
                                       !.item = c.item, !.tok = c.tok]]
  /\ UNCHANGED <<jobVars, queueVars>>

LostUnlinked(q) == queueJob[q] = None /\ RunningJobs = {}  \* mutant of Lost

\* No job could still finish row q.  An unlinked row is left alone while any job
\* runs, a row whose job is complete waits for an evaluation with its token.
Lost(q) ==
  IF queueJob[q] = None THEN RunningJobs = {}
  ELSE LET j == queueJob[q] IN
       /\ jobStatus[j] # "complete"
       /\ ~(jobStatus[j] = "running" /\ jobToken[j] = queueToken[q])

\* Last transaction: the rows that are stale for this pass and lost fail.
Reconcile(w) ==
  /\ At(w, "rechecks") /\ pass[w].todo = {} /\ pass[w].claims = {}
  /\ LET suspect(q) == q \in pass[w].stale \/ queueJob[q] \in pass[w].recovered
         failed == {q \in RunningItems : suspect(q) /\ Lost(q)}
     IN /\ queueStatus' = [q \in Queue |->
             IF q \in failed THEN "failed" ELSE queueStatus[q]]
        /\ queueToken' = [q \in Queue |->
             IF q \in failed THEN None ELSE queueToken[q]]
  /\ Unstamp /\ Rest(w)
  /\ pass' = [pass EXCEPT ![w] = NoPass]
  /\ UNCHANGED <<jobVars, queueJob>>

----------------------------------------------------------------------------
\* The environment

\* Time passes: a heartbeat or a start time crosses the recovery threshold.
\* (Only ages that recovery would read are tracked.)
JobAges(j) ==
  /\ ~jobStale[j]
  /\ \/ jobStatus[j] = "running"
     \/ /\ jobStatus[j] = "complete"
        /\ evaluation[j] = "none" \/ \E q \in RunningItems : queueJob[q] = j
  /\ jobStale' = [jobStale EXCEPT ![j] = TRUE]
  /\ UNCHANGED <<jobStatus, jobToken, ancestors, reusable, asg, intent, good,
                 evidence, evaluation, queueVars, wk, pass>>

ClaimAges(q) ==
  /\ queueStatus[q] = "running" /\ ~claimStale[q]
  /\ claimStale' = [claimStale EXCEPT ![q] = TRUE]
  /\ UNCHANGED <<jobVars, queueStatus, queueToken, queueJob, wk, pass>>

\* A source behind a job's frozen evidence is edited, refreshed or restored.
\* Nothing reads it while the job runs: such a change shows when it stops.
EvidenceChanges(j) ==
  /\ jobStatus[j] \in {"complete", "failed", "interrupted"}
  /\ evidence' = [evidence EXCEPT ![j] = ~@]
  /\ UNCHANGED <<jobStatus, jobToken, jobStale, ancestors, reusable, asg,
                 intent, good, evaluation, queueVars, wk, pass>>

----------------------------------------------------------------------------
Command(q) ==
  \/ Enqueue(q) \/ CancelQueueItem(q) \/ ParkQueueItem(q) \/ UnparkQueueItem(q)
  \/ ResetQueueItem(q)
  \/ \E s \in Jobs : SupersedeQualityFailure(q, s)

\* The steps a worker starts of its own accord.
Call(w) ==
  \/ \E q \in Queue, t \in Fresh : ClaimNextQueueItem(w, q, t)
  \/ \E p \in Jobs \cup {None}, t \in Fresh : BeginRun(w, p, t)
  \/ \E j \in Jobs : BeginEvaluation(w, j) \/ ReadForResume(w, j)
  \/ Recover(w)

\* The steps that carry on a call under way.
Work(w) ==
  \/ \E j \in Jobs : InsertJob(w, j) \/ ReuseJob(w, j)
  \/ RefuseAdmission(w) \/ RefuseSensitive(w) \/ StartStage(w)
  \/ ModelReturns(w) \/ RecordResult(w) \/ RecordFailure(w) \/ PrepareReport(w)
  \/ SealReport(w) \/ ReadEvaluation(w) \/ CommitEvaluation(w)
  \/ FailClaim(w) \/ NeedApproval(w)
  \/ \E t \in Fresh : CommitResume(w, t)
  \/ \E j \in pass[w].todo : RecheckJob(w, j)
  \/ \E c \in pass[w].claims : RecheckClaim(w, c)
  \/ Reconcile(w)

Disturb(w) == Raise(w) \/ AbandonQueueClaim(w) \/ Crash(w)

\* What happens when nothing fails, and what fails.
Normal ==
  \/ \E w \in Workers : Call(w) \/ Work(w) \/ Heartbeat(w)
  \/ \E q \in Queue : Command(q) \/ ClaimAges(q)
  \/ \E j \in Jobs : JobAges(j)

Fault ==
  \/ \E w \in Workers : Disturb(w)
  \/ \E j \in Jobs : EvidenceChanges(j)

Next == Normal \/ Fault

Spec == Init /\ [][Next]_vars

----------------------------------------------------------------------------
\* Properties

\* Types of every table column and local variable (core.py schema and the
\* variables its methods keep between transactions).
TypeOK ==
  /\ jobStatus \in [Jobs -> JobStatus]
  /\ jobToken \in [Jobs -> Tokens \cup {None}]
  /\ jobStale \in [Jobs -> BOOLEAN]
  /\ ancestors \in [Jobs -> SUBSET Jobs]
  /\ reusable \in [Jobs -> BOOLEAN]
  /\ asg \in [Jobs -> [Roles -> AsgStatus]]
  /\ intent \in [Jobs -> Tokens \cup {None}]
  /\ good \in [Jobs -> BOOLEAN]
  /\ evidence \in [Jobs -> BOOLEAN]
  /\ evaluation \in [Jobs -> Verdicts]
  /\ queueStatus \in [Queue -> QueueStatus]
  /\ queueToken \in [Queue -> Tokens \cup {None}]
  /\ queueJob \in [Queue -> Jobs \cup {None}]
  /\ claimStale \in [Queue -> BOOLEAN]
  /\ wk \in [Workers -> Worker]
  /\ pass \in [Workers -> Pass]

\* Only one mission runs at a time (docs/OPERATIONS.md:1007), across direct
\* runs, queue claims, resumes and recovery: one running job, one running row,
\* and when both exist the row is the job's and both carry the same lease.
ExclusiveExecution ==
  /\ \A i, j \in RunningJobs : i = j
  /\ \A p, q \in RunningItems : p = q
  /\ \A j \in RunningJobs, q \in RunningItems :
       queueJob[q] = j /\ queueToken[q] = jobToken[j]

\* A prepared report never outlives the lease it was prepared under, so that
\* recovery can seal or abandon it, and a resumed job starts without one.
IntentUnderLease ==
  \A j \in Jobs :
    intent[j] # None => jobStatus[j] = "running" /\ intent[j] = jobToken[j]

\* Nobody else can write under a worker's lease: an active job lease, and an
\* active queue claim, is in the hands of at most one worker.
OneHolder ==
  \A v, w \in Workers : v # w =>
    /\ ~(LeaseActive(v) /\ LeaseActive(w) /\ wk[v].job = wk[w].job)
    /\ ~(ClaimActive(v) /\ ClaimActive(w) /\ wk[v].item = wk[w].item)
    /\ \A c \in pass[v].claims :
         ClaimActive(w) => c.item # wk[w].item \/ c.tok # wk[w].tok

\* The queue shows the evaluator's verdict: a row is complete or
\* quality_failed exactly as the latest evaluation of its job says, however
\* evaluations, reuse and recovery interleave.
RowsShowVerdict ==
  \A q \in Queue : queueStatus[q] \in Settled =>
    /\ queueJob[q] # None
    /\ jobStatus[queueJob[q]] = "complete"
    /\ evaluation[queueJob[q]] =
         IF queueStatus[q] = "complete" THEN "passed" ELSE "failed"

\* A mission that passes has all its assignments (the evaluator's
\* assignments_complete check), although the evaluator reads them in an
\* earlier transaction than the one it commits in.
PassedIsWhole ==
  \A j \in Jobs : evaluation[j] = "passed" =>
    /\ jobStatus[j] = "complete"
    /\ \A r \in Roles : asg[j][r] = "complete"

\* Any old model response arriving after recovery is discarded
\* (docs/OPERATIONS.md:1007): a worker whose lease is gone changes nothing in
\* the jobs, assignments and report_finalizations tables.
LateResultsDiscarded ==
  [][\A w \in Workers :
       /\ wk'[w] # wk[w]
       /\ wk[w].pc \in {"stage", "model", "result", "failing", "prepare", "seal"}
       /\ ~LeaseActive(w)
       => UNCHANGED <<jobStatus, jobToken, asg, intent>>]_vars

\* A sealed mission is final: no resume, failure or recovery that was under
\* way when it was sealed touches the job or its assignments again.
SealedIsFinal ==
  [][\A j \in Jobs : jobStatus[j] = "complete" =>
       /\ jobStatus'[j] = "complete"
       /\ jobToken'[j] = None
       /\ good'[j] = good[j]
       /\ asg'[j] = asg[j]]_vars

\* Each completed assignment is checkpointed (docs/OPERATIONS.md:1001) and
\* resume continues the incomplete ones: a checkpoint is never run again.
CheckpointsKept ==
  [][\A j \in Jobs, r \in Roles :
       asg[j][r] = "complete" => asg'[j][r] = "complete"]_vars

\* The queue this system gives its operator is the one QueueLifecycle
\* promises.
QL == INSTANCE QueueLifecycle WITH row <- queueStatus
ImplementsQueueLifecycle == QL!Spec
=============================================================================
