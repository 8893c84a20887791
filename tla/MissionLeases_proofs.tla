------------------------ MODULE MissionLeases_proofs ------------------------
(***************************************************************************)
(* Theorems about the leases and the verdicts of MissionExecution: a token *)
(* has one holder, a prepared report never outlives its lease, late        *)
(* results are discarded and a sealed mission is final; a passing mission  *)
(* is whole, rows show the evaluator's verdict, and the queue is the one   *)
(* QueueLifecycle promises.                                                *)
(***************************************************************************)
EXTENDS MissionExecution_proofs

----------------------------------------------------------------------------
\* Steps that draw no token

Working == {"stage", "model", "result", "failing", "prepare"}

\* A step of worker w that neither draws a token nor enters the execution of a
\* job: tokens are kept or dropped, and claims are only taken up.
Onward(w) ==
  /\ \A v \in Workers : v # w => wk'[v] = wk[v]
  /\ wk'[w].tok \in {wk[w].tok, None}
  /\ wk'[w].pc = "admitting" =>
       /\ wk[w].pc = "admitting" /\ wk'[w].tok = wk[w].tok
       /\ wk'[w].job = wk[w].job
  /\ wk'[w].pc \in Working =>
       /\ wk[w].pc \in Working
       /\ wk'[w].job = wk[w].job /\ wk'[w].tok = wk[w].tok
  /\ \A v \in Workers : pass'[v].claims \subseteq pass[v].claims

\* Coming to rest is such a step, and so is turning to an evaluation.
LEMMA OnwardToRest ==
  ASSUME TypeOK, NEW w \in Workers, UNCHANGED pass
  PROVE  /\ Rest(w) => Onward(w)
         /\ \A j \in Jobs : Evaluate(w, j) => Onward(w)
         /\ Conclude(w) => Onward(w)
<1> USE DEF TypeOK, Onward, Working
<1>1. Rest(w) => Onward(w)
  BY DEF Rest, Idle
<1>2. ASSUME NEW j \in Jobs, Evaluate(w, j)  PROVE Onward(w)
  <2>1. /\ wk'[w].pc = "evaluate"
        /\ wk'[w].tok = IF wk[w].item = None THEN None ELSE wk[w].tok
        /\ \A v \in Workers : v # w => wk'[v] = wk[v]
    BY <1>2 DEF Evaluate, Idle
  <2> QED  BY <2>1
<1>3. ASSUME Conclude(w)  PROVE Onward(w)
  <2>1. /\ wk'[w].pc \in {"idle", "rechecks"} /\ wk'[w].tok = None
        /\ \A v \in Workers : v # w => wk'[v] = wk[v]
    <3> DEFINE r == [Idle EXCEPT !.pc = "rechecks", !.via = "recover"]
    <3>1. wk' = [wk EXCEPT ![w] = r] \/ wk' = [wk EXCEPT ![w] = Idle]
      BY <1>3 DEF Conclude, Rest
    <3>2. r.pc = "rechecks" /\ r.tok = None /\ Idle.pc = "idle" /\ Idle.tok = None
      BY DEF Idle
    <3> HIDE DEF r
    <3> QED  BY <3>1, <3>2
  <2> QED  BY <2>1
<1> QED  BY <1>1, <1>2, <1>3

\* So is moving on to a given place, from a place that allows it.
LEMMA OnwardToPlace ==
  ASSUME TypeOK, NEW w \in Workers, UNCHANGED pass, NEW p \in Pc, Goto(w, p),
         p # "admitting", p \in Working => wk[w].pc \in Working
  PROVE  Onward(w)
  BY DEF TypeOK, Onward, Goto, Worker

\* Admission: refused, or a report reused.
LEMMA OnwardAdmit ==
  ASSUME TypeOK, NEW w \in Workers
  PROVE  /\ RefuseAdmission(w) => Onward(w)
         /\ RefuseSensitive(w) => Onward(w)
         /\ \A j \in Jobs : ReuseJob(w, j) => Onward(w)
<1>1. RefuseAdmission(w) => Onward(w)
  BY OnwardToRest, OnwardToPlace DEF RefuseAdmission, Working, Pc
<1>2. RefuseSensitive(w) => Onward(w)
  BY OnwardToRest, OnwardToPlace DEF RefuseSensitive, Working, Pc
<1>3. ASSUME NEW j \in Jobs, ReuseJob(w, j)  PROVE Onward(w)
  BY <1>3, OnwardToRest DEF ReuseJob
<1> QED  BY <1>1, <1>2, <1>3

\* Execution: every step of _execute_job after the lease is taken.
LEMMA OnwardExecute ==
  ASSUME TypeOK, NEW w \in Workers
  PROVE  /\ StartStage(w) => Onward(w)
         /\ Heartbeat(w) => Onward(w)
         /\ ModelReturns(w) => Onward(w)
         /\ RecordResult(w) => Onward(w)
         /\ RecordFailure(w) => Onward(w)
         /\ PrepareReport(w) => Onward(w)
         /\ SealReport(w) => Onward(w)
<1>0. LoseLease(w) => Onward(w)  BY OnwardToRest DEF LoseLease
<1>a. wk[w] \in Worker  BY DEF TypeOK
<1>1. StartStage(w) => Onward(w)
  BY <1>0, OnwardToPlace DEF StartStage, At, Working, Pc
<1>2. ASSUME Heartbeat(w)  PROVE Onward(w)
  <2>1. wk[w].pc = "model" /\ UNCHANGED pass  BY <1>2 DEF Heartbeat, At
  <2>2. /\ wk'[w].pc = "model" /\ wk'[w].tok = wk[w].tok /\ wk'[w].job = wk[w].job
        /\ \A v \in Workers : v # w => wk'[v] = wk[v]
    BY <1>2, <1>a, <2>1 DEF Heartbeat, TypeOK, Worker
  <2> QED  BY <2>1, <2>2 DEF Onward, Working
<1>3. ModelReturns(w) => Onward(w)
  BY OnwardToRest, OnwardToPlace DEF ModelReturns, At, Working, Pc
<1>4. RecordResult(w) => Onward(w)
  <2>1. ASSUME NEW p \in Working, NEW s, NEW d, UNCHANGED pass,
               wk[w].pc \in Working,
               wk' = [wk EXCEPT ![w] =
                       [@ EXCEPT !.pc = p, !.stage = s, !.done = d]]
        PROVE  Onward(w)
    <3>1. /\ wk'[w].pc = p /\ wk'[w].tok = wk[w].tok /\ wk'[w].job = wk[w].job
          /\ \A v \in Workers : v # w => wk'[v] = wk[v]
      BY <2>1, <1>a DEF TypeOK, Worker
    <3> QED  BY <2>1, <3>1 DEF Onward, Working
  <2>2. "prepare" \in Working /\ "stage" \in Working  BY DEF Working
  <2>3. At(w, "result") => wk[w].pc \in Working  BY DEF At, Working
  <2> QED  BY <1>0, <2>1, <2>2, <2>3 DEF RecordResult
<1>5. RecordFailure(w) => Onward(w)
  BY OnwardToRest, OnwardToPlace DEF RecordFailure, Propagate, Working, Pc
<1>6. PrepareReport(w) => Onward(w)
  BY <1>0, OnwardToPlace DEF PrepareReport, Working, Pc
<1>7. SealReport(w) => Onward(w)
  BY OnwardToRest, <1>a DEF SealReport, LeaseActive, Worker
<1> QED  BY <1>1, <1>2, <1>3, <1>4, <1>5, <1>6, <1>7

\* Evaluation, failure, crash, and the steps of recovery that draw no token.
LEMMA OnwardElse ==
  ASSUME TypeOK, NEW w \in Workers
  PROVE  /\ \A j \in Jobs : BeginEvaluation(w, j) => Onward(w)
         /\ ReadEvaluation(w) => Onward(w)
         /\ CommitEvaluation(w) => Onward(w)
         /\ Raise(w) => Onward(w)
         /\ FailClaim(w) => Onward(w)
         /\ NeedApproval(w) => Onward(w)
         /\ AbandonQueueClaim(w) => Onward(w)
         /\ Crash(w) => Onward(w)
         /\ \A j \in Jobs : ReadForResume(w, j) => Onward(w)
         /\ \A j : RecheckJob(w, j) => Onward(w)
         /\ Reconcile(w) => Onward(w)
<1>a. wk[w] \in Worker  BY DEF TypeOK
<1>1. ASSUME NEW j \in Jobs, BeginEvaluation(w, j)  PROVE Onward(w)
  BY <1>1, OnwardToRest DEF BeginEvaluation
<1>2. ReadEvaluation(w) => Onward(w)
  BY <1>a DEF ReadEvaluation, Onward, Working, TypeOK, Worker
<1>3. CommitEvaluation(w) => Onward(w)
  BY OnwardToRest DEF CommitEvaluation
<1>4. Raise(w) => Onward(w)
  BY OnwardToRest, OnwardToPlace DEF Raise, Propagate, Working, Pc
<1>5. /\ FailClaim(w) => Onward(w)
      /\ NeedApproval(w) => Onward(w)
      /\ AbandonQueueClaim(w) => Onward(w)
  BY OnwardToRest DEF FailClaim, NeedApproval, AbandonQueueClaim
<1>6. Crash(w) => Onward(w)
  BY DEF Crash, Rest, Idle, NoPass, Onward, Working, TypeOK
<1>7. ASSUME NEW j \in Jobs, ReadForResume(w, j)  PROVE Onward(w)
  BY <1>7 DEF ReadForResume, Idle, Onward, Working, TypeOK
<1>8. ASSUME NEW j, RecheckJob(w, j)  PROVE Onward(w)
  BY <1>8, <1>a DEF RecheckJob, Onward, Working, TypeOK, Worker, Pass
<1>9. Reconcile(w) => Onward(w)
  BY DEF Reconcile, Rest, Idle, NoPass, Onward, Working, TypeOK
<1> QED  BY <1>1, <1>2, <1>3, <1>4, <1>5, <1>6, <1>7, <1>8, <1>9

\* The other steps of a worker: tokens drawn, handed on or taken into a job.
Draws(w) ==
  \/ \E q \in Queue, t \in Fresh : ClaimNextQueueItem(w, q, t)
  \/ \E p \in Jobs \cup {None}, t \in Fresh : BeginRun(w, p, t)
  \/ \E j \in Jobs : InsertJob(w, j)
  \/ \E t \in Fresh : CommitResume(w, t)
  \/ Recover(w)
  \/ \E c \in pass[w].claims : RecheckClaim(w, c)

\* Steps of the operator and of the environment touch no local variable.
LEMMA OthersAside ==
  /\ \A q : Command(q) => UNCHANGED <<wk, pass>>
  /\ \A q : ClaimAges(q) => UNCHANGED <<wk, pass>>
  /\ \A j : JobAges(j) \/ EvidenceChanges(j) => UNCHANGED <<wk, pass>>
  BY DEF Command, Enqueue, CancelQueueItem, ParkQueueItem, UnparkQueueItem,
         ResetQueueItem, SupersedeQualityFailure, ClaimAges, JobAges,
         EvidenceChanges

\* Every step is of one of these kinds.
LEMMA StepKinds ==
  ASSUME TypeOK, [Next]_vars
  PROVE  \/ UNCHANGED <<wk, pass>>
         \/ \E w \in Workers : Onward(w) \/ Draws(w)
<1>1. ASSUME NEW w \in Workers, Call(w)  PROVE Onward(w) \/ Draws(w)
  BY <1>1, OnwardElse DEF Call, Draws
<1>2. ASSUME NEW w \in Workers, Work(w)  PROVE Onward(w) \/ Draws(w)
  <2>1. CASE \E j \in pass[w].todo : RecheckJob(w, j)  BY <2>1, OnwardElse
  <2> QED  BY <1>2, <2>1, OnwardAdmit, OnwardExecute, OnwardElse DEF Work, Draws
<1>3. ASSUME NEW w \in Workers, Heartbeat(w) \/ Disturb(w)  PROVE Onward(w)
  BY <1>3, OnwardExecute, OnwardElse DEF Disturb
<1>4. UNCHANGED vars => UNCHANGED <<wk, pass>>  BY DEF vars
<1> QED  BY <1>1, <1>2, <1>3, <1>4, OthersAside DEF Next, Normal, Fault

\* What the steps that draw a token do to the local variables.
LEMMA DrawsLocally ==
  ASSUME TypeOK, NEW w \in Workers, Draws(w)
  PROVE  /\ \A v \in Workers : v # w => wk'[v] = wk[v]
         /\ \/ /\ wk'[w].tok \in Fresh
               /\ \A v \in Workers : pass'[v].claims = pass[v].claims
            \/ /\ wk'[w].tok \in {wk[w].tok, None}
               /\ \A v \in Workers : pass'[v].claims = pass[v].claims
            \/ /\ wk'[w].tok = None
               /\ \A v \in Workers : v # w => pass'[v].claims = pass[v].claims
               /\ \A c \in pass'[w].claims : c.tok \in Fresh
               /\ \A c, d \in pass'[w].claims : c.tok = d.tok => c = d
            \/ \E c \in pass[w].claims :
                 /\ wk'[w].tok = c.tok
                 /\ \A v \in Workers : v # w => pass'[v].claims = pass[v].claims
                 /\ pass'[w].claims = pass[w].claims \ {c}
<1> USE DEF TypeOK
<1>a. wk[w] \in Worker /\ pass[w] \in Pass  OBVIOUS
<1>1. ASSUME NEW q \in Queue, NEW t \in Fresh, ClaimNextQueueItem(w, q, t)
      PROVE  /\ \A v \in Workers : v # w => wk'[v] = wk[v]
             /\ wk'[w].tok \in Fresh
             /\ \A v \in Workers : pass'[v].claims = pass[v].claims
  <2>1. wk'[w].tok = t /\ \A v \in Workers : v # w => wk'[v] = wk[v]
    BY <1>1 DEF ClaimNextQueueItem, Idle
  <2>2. \A v \in Workers : pass'[v].claims = pass[v].claims
    BY <1>1 DEF ClaimNextQueueItem, Restamp, Pass
  <2> QED  BY <2>1, <2>2
<1>2. ASSUME NEW p, NEW t \in Fresh, BeginRun(w, p, t)
      PROVE  /\ \A v \in Workers : v # w => wk'[v] = wk[v]
             /\ wk'[w].tok \in Fresh /\ pass' = pass
  <2>1. wk'[w].tok = t /\ \A v \in Workers : v # w => wk'[v] = wk[v]
    BY <1>2 DEF BeginRun, Idle
  <2> QED  BY <1>2, <2>1 DEF BeginRun
<1>3. ASSUME NEW j \in Jobs, InsertJob(w, j)
      PROVE  /\ \A v \in Workers : v # w => wk'[v] = wk[v]
             /\ wk'[w].tok = wk[w].tok /\ pass' = pass
  BY <1>3, <1>a DEF InsertJob, Worker
<1>4. ASSUME NEW t \in Fresh, CommitResume(w, t)
      PROVE  /\ \A v \in Workers : v # w => wk'[v] = wk[v]
             /\ wk'[w].tok \in Fresh \cup {None}
             /\ \A v \in Workers : pass'[v].claims = pass[v].claims
  <2>1. CASE Rest(w) /\ UNCHANGED pass
    BY <2>1 DEF Rest, Idle
  <2>2. CASE ~(Rest(w) /\ UNCHANGED pass)
    <3>1. PICK s \in Stages, item \in Queue \cup {None} :
            /\ wk' = [wk EXCEPT ![w] = [@ EXCEPT !.pc = "stage", !.tok = t,
                                                 !.item = item, !.stage = s]]
            /\ IF item = None THEN UNCHANGED pass ELSE Restamp(item)
      BY <1>4, <2>2 DEF CommitResume
    <3>2. \A v \in Workers : pass'[v].claims = pass[v].claims
      BY <3>1 DEF Restamp, Pass
    <3>3. wk'[w].tok = t /\ \A v \in Workers : v # w => wk'[v] = wk[v]
      BY <3>1, <1>a DEF Worker
    <3> QED  BY <3>2, <3>3
  <2> QED  BY <2>1, <2>2
<1>5. ASSUME Recover(w)
      PROVE  /\ \A v \in Workers : v # w => wk'[v] = wk[v]
             /\ wk'[w].tok = None
             /\ \A v \in Workers : v # w => pass'[v].claims = pass[v].claims
             /\ \A c \in pass'[w].claims : c.tok \in Fresh
             /\ \A c, d \in pass'[w].claims : c.tok = d.tok => c = d
  <2>1. PICK sealed \in SUBSET StaleRunning, claimed \in SUBSET RunningItems :
          \E deferred \in SUBSET (StaleRunning \ sealed), f \in [claimed -> Fresh] :
            RecoverStaleJobs(w, sealed, deferred, f)
    BY <1>5 DEF Recover
  <2>2. PICK deferred \in SUBSET (StaleRunning \ sealed), f \in [claimed -> Fresh] :
          RecoverStaleJobs(w, sealed, deferred, f)
    BY <2>1
  <2>3. /\ pass'[w].claims = {[item |-> q, job |-> queueJob[q], tok |-> f[q]] :
                                 q \in claimed}
        /\ \A v \in Workers : v # w => pass'[v].claims = pass[v].claims
    BY <2>2 DEF RecoverStaleJobs
  <2>4. \A p, q \in claimed : f[p] = f[q] => p = q
    BY <2>2 DEF RecoverStaleJobs
  <2>5. wk'[w].tok = None /\ \A v \in Workers : v # w => wk'[v] = wk[v]
    BY <2>2 DEF RecoverStaleJobs, Idle
  <2> QED  BY <2>3, <2>4, <2>5
<1>6. ASSUME NEW c \in pass[w].claims, RecheckClaim(w, c)
      PROVE  /\ \A v \in Workers : v # w => wk'[v] = wk[v]
             /\ wk'[w].tok = c.tok
             /\ \A v \in Workers : v # w => pass'[v].claims = pass[v].claims
             /\ pass'[w].claims = pass[w].claims \ {c}
  BY <1>6, <1>a DEF RecheckClaim, Worker, Pass
<1> QED  BY <1>1, <1>2, <1>3, <1>4, <1>5, <1>6 DEF Draws

----------------------------------------------------------------------------
\* A token has one holder

\* No two workers, and no worker and pending claim, hold the same token.
TokensUnique ==
  /\ \A v, w \in Workers :
       v # w => wk[v].tok = None \/ wk[v].tok # wk[w].tok
  /\ \A v, w \in Workers : \A c \in pass[v].claims : c.tok # wk[w].tok
  /\ \A v, w \in Workers : \A c \in pass[v].claims, d \in pass[w].claims :
       c.tok = d.tok => v = w /\ c = d

\* Uniqueness of tokens is inductive: a drawn token is fresh, and a token taken
\* up from a pending claim is pending no more.
LEMMA TokensUniqueStep ==
  ASSUME TypeOK, TokensUnique, [Next]_vars
  PROVE  TokensUnique'
<1>n. /\ None \notin Tokens
      /\ \A v \in Workers : \A c \in pass[v].claims : c.tok # None
  BY NoneAssumption DEF TypeOK, Pass, Claim
<1>f. \A t \in Fresh : /\ t # None
                       /\ \A v \in Workers : t # wk[v].tok
                       /\ \A v \in Workers : \A c \in pass[v].claims : t # c.tok
  BY <1>n DEF Fresh, InUse
<1>1. CASE UNCHANGED <<wk, pass>>  BY <1>1 DEF TokensUnique
<1>2. ASSUME NEW w \in Workers, Onward(w)  PROVE TokensUnique'
  BY <1>2, <1>n DEF TokensUnique, Onward
<1>3. ASSUME NEW w \in Workers, Draws(w)  PROVE TokensUnique'
  <2>1. \A v \in Workers : v # w => wk'[v] = wk[v]
    BY <1>3, DrawsLocally
  <2>2. CASE /\ wk'[w].tok \in Fresh \cup {wk[w].tok, None}
             /\ \A v \in Workers : pass'[v].claims = pass[v].claims
    BY <2>1, <2>2, <1>n, <1>f DEF TokensUnique
  <2>3. CASE /\ wk'[w].tok = None
             /\ \A v \in Workers : v # w => pass'[v].claims = pass[v].claims
             /\ \A c \in pass'[w].claims : c.tok \in Fresh
             /\ \A c, d \in pass'[w].claims : c.tok = d.tok => c = d
    BY <2>1, <2>3, <1>n, <1>f DEF TokensUnique
  <2>4. CASE \E c \in pass[w].claims :
               /\ wk'[w].tok = c.tok
               /\ \A v \in Workers : v # w => pass'[v].claims = pass[v].claims
               /\ pass'[w].claims = pass[w].claims \ {c}
    BY <2>1, <2>4, <1>n DEF TokensUnique
  <2> QED  BY <1>3, DrawsLocally, <2>2, <2>3, <2>4
<1> QED  BY StepKinds, <1>1, <1>2, <1>3

----------------------------------------------------------------------------
\* What does not run holds no lease

\* A job or a row has a token exactly while it runs, and a worker that is about
\* to insert a job holds a token of its own.
Unleased ==
  /\ \A j \in Jobs : jobStatus[j] = "running" <=> jobToken[j] # None
  /\ \A q \in Queue : queueStatus[q] = "running" <=> queueToken[q] # None
  /\ \A w \in Workers : At(w, "admitting") => wk[w].tok # None

\* Only a claim and a direct run bring a worker to admission, with a token.
LEMMA AdmittedWithToken ==
  ASSUME TypeOK, Unleased, [Next]_vars
  PROVE  \A w \in Workers : (At(w, "admitting") => wk[w].tok # None)'
<1>f. Fresh \subseteq Tokens  BY DEF Fresh
<1>1. CASE UNCHANGED <<wk, pass>>  BY <1>1 DEF Unleased, At
<1>2. ASSUME NEW w \in Workers, Onward(w)
      PROVE  \A v \in Workers : (At(v, "admitting") => wk[v].tok # None)'
  BY <1>2 DEF Unleased, At, Onward
<1>3. ASSUME NEW w \in Workers, Draws(w)
      PROVE  \A v \in Workers : (At(v, "admitting") => wk[v].tok # None)'
  <2>1. \A v \in Workers : v # w => wk'[v] = wk[v]  BY <1>3, DrawsLocally
  <2>2. wk[w] \in Worker  BY DEF TypeOK
  <2>3. ASSUME NEW q \in Queue, NEW t \in Fresh, ClaimNextQueueItem(w, q, t)
        PROVE  wk'[w].tok # None
    BY <2>3, <1>f, NoneAssumption DEF ClaimNextQueueItem, Idle, TypeOK
  <2>4. ASSUME NEW p \in Jobs \cup {None}, NEW t \in Fresh, BeginRun(w, p, t)
        PROVE  wk'[w].tok # None
    BY <2>4, <1>f, NoneAssumption DEF BeginRun, Idle, TypeOK
  <2>5. ASSUME NEW j \in Jobs, InsertJob(w, j)
        PROVE  wk'[w].pc = "stage"
    BY <2>5, <2>2 DEF InsertJob, Worker, TypeOK
  <2>6. ASSUME NEW t \in Fresh, CommitResume(w, t)
        PROVE  wk'[w].pc # "admitting"
    <3>1. \/ wk' = [wk EXCEPT ![w] = Idle]
          \/ \E s, item : wk' = [wk EXCEPT ![w] =
                [@ EXCEPT !.pc = "stage", !.tok = t, !.item = item, !.stage = s]]
      BY <2>6 DEF CommitResume, Rest
    <3>2. ASSUME NEW s, NEW item,
                 wk' = [wk EXCEPT ![w] =
                [@ EXCEPT !.pc = "stage", !.tok = t, !.item = item, !.stage = s]]
          PROVE  wk'[w].pc = "stage"
      BY <3>2, <2>2 DEF Worker, TypeOK
    <3>3. wk' = [wk EXCEPT ![w] = Idle] => wk'[w].pc = "idle"
      BY DEF Idle, TypeOK
    <3> QED  BY <3>1, <3>2, <3>3
  <2>7. Recover(w) => wk'[w].pc = "rechecks"
    BY DEF Recover, RecoverStaleJobs, Idle, TypeOK
  <2>8. ASSUME NEW c \in pass[w].claims, RecheckClaim(w, c)
        PROVE  wk'[w].pc = "evaluate"
    BY <2>8, <2>2 DEF RecheckClaim, Worker, TypeOK
  <2>9. wk'[w].pc = "admitting" => wk'[w].tok # None
    BY <1>3, <2>3, <2>4, <2>5, <2>6, <2>7, <2>8 DEF Draws
  <2> QED  BY <2>1, <2>9 DEF Unleased, At
<1> QED  BY StepKinds, <1>1, <1>2, <1>3

\* The rows and jobs of a step keep this.
LEMMA UnleasedStep ==
  ASSUME TypeOK, Unleased, [Next]_vars
  PROVE  Unleased'
<1> DEFINE Rows == /\ \A j \in Jobs : jobStatus[j] = "running" <=> jobToken[j] # None
                   /\ \A q \in Queue : queueStatus[q] = "running" <=> queueToken[q] # None
<1>f. \A t \in Fresh : t \in Tokens /\ t # None
  BY NoneAssumption DEF Fresh
<1>0. Rows  BY DEF Unleased
<1>1. UNCHANGED leases => Rows'  BY <1>0 DEF leases
<1>2. ASSUME NEW q \in Queue, Command(q)  PROVE Rows'
  <2> USE <1>0 DEF TypeOK, jobVars
  <2>1. CASE Enqueue(q)  BY <2>1 DEF Enqueue
  <2>2. CASE CancelQueueItem(q)  BY <2>2 DEF CancelQueueItem
  <2>3. CASE ParkQueueItem(q)  BY <2>3 DEF ParkQueueItem
  <2>4. CASE UnparkQueueItem(q)  BY <2>4 DEF UnparkQueueItem
  <2>5. CASE ResetQueueItem(q)  BY <2>5 DEF ResetQueueItem
  <2>6. ASSUME NEW s \in Jobs, SupersedeQualityFailure(q, s)  PROVE Rows'
    BY <2>6 DEF SupersedeQualityFailure
  <2> QED  BY <1>2, <2>1, <2>2, <2>3, <2>4, <2>5, <2>6 DEF Command
<1>3. ASSUME NEW w \in Workers, NEW q \in Queue, NEW t \in Fresh,
             ClaimNextQueueItem(w, q, t)
      PROVE  Rows'
  BY <1>0, <1>3, <1>f DEF TypeOK, ClaimNextQueueItem, jobVars
<1>4. ASSUME NEW w \in Workers, NEW j \in Jobs, InsertJob(w, j)
      PROVE  Rows'
  BY <1>0, <1>4 DEF TypeOK, Unleased, InsertJob
<1>5. ASSUME NEW w \in Workers, NEW j \in Jobs, ReuseJob(w, j)
      PROVE  Rows'
  BY <1>0, <1>5 DEF TypeOK, ReuseJob, jobVars
<1>6. ASSUME NEW w \in Workers, NEW t \in Fresh, CommitResume(w, t)
      PROVE  Rows'
  <2>1. CASE UNCHANGED <<jobVars, queueVars, pass>>
    BY <1>1, <2>1 DEF leases, jobVars, queueVars
  <2>2. CASE ~UNCHANGED <<jobVars, queueVars, pass>>
    <3>1. /\ jobStatus' = [jobStatus EXCEPT ![wk[w].job] = "running"]
          /\ jobToken' = [jobToken EXCEPT ![wk[w].job] = t]
      BY <1>6, <2>2 DEF CommitResume
    <3>2. \E item : \/ UNCHANGED <<queueStatus, queueToken>>
                    \/ /\ queueStatus' = [queueStatus EXCEPT ![item] = "running"]
                       /\ queueToken' = [queueToken EXCEPT ![item] = t]
      BY <1>6, <2>2 DEF CommitResume
    <3> QED  BY <1>0, <1>f, <3>1, <3>2 DEF TypeOK
  <2> QED  BY <2>1, <2>2
<1>7. ASSUME NEW w \in Workers, RecordFailure(w) \/ SealReport(w)
      PROVE  Rows'
  BY <1>0, <1>7 DEF TypeOK, RecordFailure, SealReport, jobVars, queueVars
<1>8. ASSUME NEW w \in Workers, CommitEvaluation(w)
      PROVE  Rows'
  <2>1. CASE UNCHANGED <<queueStatus, queueToken>>
    BY <1>0, <1>8, <2>1 DEF CommitEvaluation
  <2>2. CASE /\ queueStatus' = [q \in Queue |->
                  IF q \notin SettledBy(w) THEN queueStatus[q]
                  ELSE IF wk[w].verdict THEN "complete" ELSE "quality_failed"]
             /\ queueToken' = [q \in Queue |->
                  IF q = wk[w].item THEN None ELSE queueToken[q]]
    <3>1. \A q \in SettledBy(w) : q # wk[w].item => queueStatus[q] # "running"
      BY DEF SettledBy, Settled
    <3>2. \A q \in Queue : q = wk[w].item => q \in SettledBy(w)
      BY DEF SettledBy
    <3> QED  BY <1>0, <1>8, <2>2, <3>1, <3>2 DEF CommitEvaluation
  <2> QED  BY <1>8, <2>1, <2>2 DEF CommitEvaluation
<1>9. ASSUME NEW w \in Workers,
             FailClaim(w) \/ NeedApproval(w) \/ AbandonQueueClaim(w)
      PROVE  Rows'
  BY <1>0, <1>9
  DEF TypeOK, FailClaim, NeedApproval, AbandonQueueClaim, EndClaim, jobVars
<1>10. ASSUME NEW w \in Workers, Reconcile(w)
       PROVE  Rows'
  BY <1>0, <1>10 DEF TypeOK, Reconcile, jobVars
<1>11. ASSUME NEW w \in Workers, Recover(w)
       PROVE  Rows'
  <2>1. PICK sealed \in SUBSET StaleRunning, claimed \in SUBSET RunningItems :
          \E deferred \in SUBSET (StaleRunning \ sealed), f \in [claimed -> Fresh] :
            RecoverStaleJobs(w, sealed, deferred, f)
    BY <1>11 DEF Recover
  <2>2. PICK deferred \in SUBSET (StaleRunning \ sealed), f \in [claimed -> Fresh] :
          RecoverStaleJobs(w, sealed, deferred, f)
    BY <2>1
  <2>3. \A q \in claimed : queueStatus[q] = "running" /\ f[q] # None
    BY <1>f DEF RunningItems
  <2>4. \A q \in Queue : queueStatus'[q] = "running" <=> queueToken'[q] # None
    BY <1>0, <2>2, <2>3 DEF RecoverStaleJobs
  <2>5. \A j \in Jobs : jobStatus'[j] = "running" <=> jobToken'[j] # None
    BY <1>0, <2>2 DEF RecoverStaleJobs, StaleRunning, RunningJobs
  <2> QED  BY <2>4, <2>5
<1>12. Rows'
  <2> HIDE DEF Rows
  <2>1. ASSUME NEW w \in Workers, Call(w)  PROVE Rows'
    BY <2>1, <1>1, <1>3, <1>11, LeaseFrame DEF Call
  <2>2. ASSUME NEW w \in Workers, Work(w)  PROVE Rows'
    BY <2>2, <1>1, <1>4, <1>5, <1>6, <1>7, <1>8, <1>9, <1>10, LeaseFrame DEF Work
  <2>3. ASSUME NEW w \in Workers, Heartbeat(w) \/ Disturb(w)  PROVE Rows'
    BY <2>3, <1>1, <1>9, LeaseFrame DEF Disturb
  <2>4. ASSUME NEW j \in Jobs, JobAges(j) \/ EvidenceChanges(j)  PROVE Rows'
    BY <2>4, <1>1 DEF JobAges, EvidenceChanges, leases, queueVars
  <2>5. ASSUME NEW q \in Queue, ClaimAges(q)  PROVE Rows'
    BY <2>5, <1>1 DEF ClaimAges, leases, jobVars
  <2>6. CASE UNCHANGED vars
    BY <2>6, <1>1 DEF vars, leases, jobVars, queueVars
  <2> QED
    BY <1>2, <2>1, <2>2, <2>3, <2>4, <2>5, <2>6 DEF Next, Normal, Fault
<1> QED  BY <1>12, AdmittedWithToken DEF Unleased

----------------------------------------------------------------------------
\* The theorems on leases

\* Nobody else can write under a worker's lease: an active job lease and an
\* active queue claim are in the hands of at most one worker (OneHolder).
THEOREM TokenHasOneHolder == Spec => []OneHolder
<1>1. Init => TokensUnique /\ Unleased
  BY DEF Init, TokensUnique, Unleased, Idle, NoPass, At
<1>2. TypeOK /\ TokensUnique /\ Unleased => OneHolder
  <2> SUFFICES ASSUME TypeOK, TokensUnique, Unleased  PROVE OneHolder  OBVIOUS
  <2>a. \A w \in Workers :
          /\ wk[w].job # None => wk[w].job \in Jobs
          /\ wk[w].item # None => wk[w].item \in Queue
    BY DEF TypeOK, Worker
  <2>1. ASSUME NEW v \in Workers, NEW w \in Workers, v # w,
               wk[v].tok = wk[w].tok
        PROVE  wk[v].tok = None
    BY <2>1 DEF TokensUnique
  <2>2. ASSUME NEW w \in Workers, LeaseActive(w)
        PROVE  wk[w].tok = jobToken[wk[w].job] /\ wk[w].tok # None
    BY <2>2, <2>a DEF Unleased, LeaseActive
  <2>3. ASSUME NEW w \in Workers, ClaimActive(w)
        PROVE  wk[w].tok = queueToken[wk[w].item] /\ wk[w].tok # None
    BY <2>3, <2>a DEF Unleased, ClaimActive
  <2>4. \A v, w \in Workers : \A c \in pass[v].claims : c.tok # wk[w].tok
    BY DEF TokensUnique
  <2> QED  BY <2>1, <2>2, <2>3, <2>4 DEF OneHolder
<1> QED  BY <1>1, <1>2, TypeCorrect, TokensUniqueStep, UnleasedStep, PTL DEF Spec

----------------------------------------------------------------------------
\* A sealed mission is final

\* What SealedIsFinal says of one step.
Final ==
  \A j \in Jobs : jobStatus[j] = "complete" =>
    /\ jobStatus'[j] = "complete"
    /\ jobToken'[j] = None
    /\ good'[j] = good[j]
    /\ asg'[j] = asg[j]

\* Steps of _execute_job write under an active lease, which a sealed job does
\* not give.
LEMMA FinalExecute ==
  ASSUME TypeOK, Unleased, NEW w \in Workers
  PROVE  /\ StartStage(w) => Final
         /\ RecordResult(w) => Final
         /\ RecordFailure(w) => Final
         /\ SealReport(w) => Final
<1> USE DEF TypeOK, Unleased, Final
<1>1. StartStage(w) => Final
  BY DEF StartStage, LoseLease, LeaseActive, SetAsg, jobVars
<1>2. RecordResult(w) => Final
  BY DEF RecordResult, LoseLease, LeaseActive, SetAsg, jobVars
<1>3. RecordFailure(w) => Final
  BY DEF RecordFailure, LeaseActive, SetAsg, jobVars
<1>4. SealReport(w) => Final
  BY DEF SealReport, LeaseActive, jobVars
<1> QED  BY <1>1, <1>2, <1>3, <1>4

\* Admission takes an absent job, a resume one that failed, recovery one that
\* runs.
LEMMA FinalStart ==
  ASSUME TypeOK, Unleased, NEW w \in Workers
  PROVE  /\ \A j \in Jobs : InsertJob(w, j) => Final
         /\ \A t : CommitResume(w, t) => Final
         /\ Recover(w) => Final
<1> USE DEF TypeOK, Unleased, Final
<1>1. ASSUME NEW j \in Jobs, InsertJob(w, j)  PROVE Final
  BY <1>1 DEF InsertJob
<1>2. ASSUME NEW t, CommitResume(w, t)  PROVE Final
  <2>1. CASE UNCHANGED jobVars  BY <2>1 DEF jobVars
  <2>2. CASE ~UNCHANGED jobVars
    <3>1. /\ jobStatus[wk[w].job] # "complete"
          /\ jobStatus' = [jobStatus EXCEPT ![wk[w].job] = "running"]
          /\ jobToken' = [jobToken EXCEPT ![wk[w].job] = t]
          /\ \E a : asg' = [asg EXCEPT ![wk[w].job] = a]
          /\ good' = good
      BY <1>2, <2>2 DEF CommitResume, StillResumable
    <3> QED  BY <3>1
  <2> QED  BY <2>1, <2>2
<1>3. ASSUME Recover(w)  PROVE Final
  <2>1. PICK sealed \in SUBSET StaleRunning, claimed \in SUBSET RunningItems :
          \E deferred \in SUBSET (StaleRunning \ sealed), f \in [claimed -> Fresh] :
            RecoverStaleJobs(w, sealed, deferred, f)
    BY <1>3 DEF Recover
  <2>2. PICK deferred \in SUBSET (StaleRunning \ sealed), f \in [claimed -> Fresh] :
          RecoverStaleJobs(w, sealed, deferred, f)
    BY <2>1
  <2> DEFINE abandoned == StaleRunning \ (sealed \cup deferred)
  <2>3. ASSUME NEW j \in Jobs, jobStatus[j] = "complete"
        PROVE  j \notin sealed /\ j \notin abandoned
    BY <2>3 DEF StaleRunning, RunningJobs
  <2>4. /\ \A j \in Jobs : j \notin sealed \cup abandoned =>
             jobStatus'[j] = jobStatus[j] /\ jobToken'[j] = jobToken[j]
        /\ \A j \in Jobs : j \notin sealed => good'[j] = good[j]
    BY <2>2 DEF RecoverStaleJobs
  <2>5. ASSUME NEW j \in Jobs, j \notin abandoned
        PROVE  asg'[j] = asg[j]
    <3>1. asg'[j] = [r \in Roles |-> asg[j][r]]
      BY <2>2, <2>5 DEF RecoverStaleJobs
    <3> QED  BY <3>1
  <2> QED  BY <2>3, <2>4, <2>5
<1> QED  BY <1>1, <1>2, <1>3

\* Every other step leaves those columns alone.
LEMMA FinalFrame ==
  ASSUME NEW w \in Workers
  PROVE  LET kept == <<jobStatus, jobToken, good, asg>> IN
         /\ \A q, t : ClaimNextQueueItem(w, q, t) => UNCHANGED kept
         /\ \A p, t : BeginRun(w, p, t) => UNCHANGED kept
         /\ \A j : ReuseJob(w, j) => UNCHANGED kept
         /\ \A j : BeginEvaluation(w, j) => UNCHANGED kept
         /\ \A j : ReadForResume(w, j) => UNCHANGED kept
         /\ RefuseAdmission(w) => UNCHANGED kept
         /\ RefuseSensitive(w) => UNCHANGED kept
         /\ Heartbeat(w) => UNCHANGED kept
         /\ ModelReturns(w) => UNCHANGED kept
         /\ PrepareReport(w) => UNCHANGED kept
         /\ ReadEvaluation(w) => UNCHANGED kept
         /\ CommitEvaluation(w) => UNCHANGED kept
         /\ FailClaim(w) => UNCHANGED kept
         /\ NeedApproval(w) => UNCHANGED kept
         /\ Raise(w) => UNCHANGED kept
         /\ AbandonQueueClaim(w) => UNCHANGED kept
         /\ Crash(w) => UNCHANGED kept
         /\ \A j : RecheckJob(w, j) => UNCHANGED kept
         /\ \A c : RecheckClaim(w, c) => UNCHANGED kept
         /\ Reconcile(w) => UNCHANGED kept
<1> USE DEF jobVars
<1>1. PrepareReport(w) => UNCHANGED <<jobStatus, jobToken, good, asg>>
  BY DEF PrepareReport, LoseLease
<1> QED
  BY <1>1
  DEF ClaimNextQueueItem, BeginRun, ReuseJob, BeginEvaluation, ReadForResume,
      RefuseAdmission, RefuseSensitive, Heartbeat, ModelReturns, ReadEvaluation,
      CommitEvaluation, FailClaim, NeedApproval, Raise, AbandonQueueClaim, Crash,
      RecheckJob, RecheckClaim, Reconcile

\* So every step leaves sealed jobs as they are.
LEMMA FinalStep ==
  ASSUME TypeOK, Unleased, [Next]_vars
  PROVE  Final
<1>1. UNCHANGED <<jobStatus, jobToken, good, asg>> => Final
  BY DEF Final, Unleased
<1>2. ASSUME NEW w \in Workers, Call(w)  PROVE Final
  BY <1>1, <1>2, FinalFrame, FinalStart DEF Call
<1>3. ASSUME NEW w \in Workers, Work(w)  PROVE Final
  BY <1>1, <1>3, FinalFrame, FinalStart, FinalExecute DEF Work
<1>4. ASSUME NEW w \in Workers, Heartbeat(w) \/ Disturb(w)  PROVE Final
  BY <1>1, <1>4, FinalFrame DEF Disturb
<1>5. CASE \/ \E q \in Queue : Command(q) \/ ClaimAges(q)
           \/ \E j \in Jobs : JobAges(j) \/ EvidenceChanges(j)
           \/ UNCHANGED vars
  BY <1>1, <1>5 DEF Command, Enqueue, CancelQueueItem, ParkQueueItem,
     UnparkQueueItem, ResetQueueItem, SupersedeQualityFailure, ClaimAges,
     JobAges, EvidenceChanges, vars, jobVars
<1> QED  BY <1>2, <1>3, <1>4, <1>5 DEF Next, Normal, Fault

\* A sealed mission is final: no resume, failure or recovery that was under way
\* when it was sealed touches the job or its assignments again (SealedIsFinal).
THEOREM SealedStaysFinal == Spec => SealedIsFinal
<1>1. Init => Unleased  BY DEF Init, Unleased, Idle, At
<1>2. TypeOK /\ Unleased /\ [Next]_vars => [Final]_vars  BY FinalStep
<1>3. ([][Final]_vars) => SealedIsFinal  BY PTL DEF SealedIsFinal, Final
<1> QED  BY <1>1, <1>2, <1>3, TypeCorrect, UnleasedStep, PTL DEF Spec

----------------------------------------------------------------------------
\* Late results are discarded

\* The places of a worker that executes a job.
Executing == {"stage", "model", "result", "failing", "prepare", "seal"}

\* What such a worker may not write without its lease.
results == <<jobStatus, jobToken, asg, intent>>

\* A worker in the middle of _execute_job whose lease is gone writes nothing.
LEMMA DiscardStep ==
  ASSUME NEW w \in Workers, wk[w].pc \in Executing, ~LeaseActive(w),
         Call(w) \/ Work(w) \/ Heartbeat(w) \/ Disturb(w)
  PROVE  UNCHANGED results
<1> USE DEF results, jobVars, At, Executing
<1>1. ~Call(w)
  <2>1. Recover(w) => wk[w].pc = "idle"  BY DEF Recover, RecoverStaleJobs
  <2>2. /\ \A q, t : ClaimNextQueueItem(w, q, t) => wk[w].pc = "idle"
        /\ \A p, t : BeginRun(w, p, t) => wk[w].pc = "idle"
        /\ \A j : BeginEvaluation(w, j) => wk[w].pc = "idle"
        /\ \A j : ReadForResume(w, j) => wk[w].pc = "idle"
    BY DEF ClaimNextQueueItem, BeginRun, BeginEvaluation, ReadForResume
  <2> QED  BY <2>1, <2>2 DEF Call
<1>2. Disturb(w) => UNCHANGED results
  BY DEF Disturb, Raise, AbandonQueueClaim, Crash
<1>3. Heartbeat(w) => UNCHANGED results
  BY DEF Heartbeat
<1>4. ASSUME Work(w)  PROVE UNCHANGED results
  <2>1. /\ StartStage(w) => UNCHANGED results
        /\ RecordResult(w) => UNCHANGED results
        /\ PrepareReport(w) => UNCHANGED results
    BY DEF StartStage, RecordResult, PrepareReport, LoseLease
  <2>2. /\ ModelReturns(w) => UNCHANGED results
        /\ RecordFailure(w) => UNCHANGED results
        /\ SealReport(w) => UNCHANGED results
    BY DEF ModelReturns, RecordFailure, SealReport
  <2>3. /\ \A j : ~InsertJob(w, j) /\ ~ReuseJob(w, j) /\ ~RecheckJob(w, j)
        /\ ~RefuseAdmission(w) /\ ~RefuseSensitive(w)
        /\ ~ReadEvaluation(w) /\ ~CommitEvaluation(w)
        /\ ~FailClaim(w) /\ ~NeedApproval(w)
        /\ \A t : ~CommitResume(w, t)
        /\ \A c : ~RecheckClaim(w, c)
        /\ ~Reconcile(w)
    BY DEF InsertJob, ReuseJob, RecheckJob, RefuseAdmission, RefuseSensitive,
           ReadEvaluation, CommitEvaluation, FailClaim, NeedApproval,
           CommitResume, RecheckClaim, Reconcile
  <2> QED  BY <1>4, <2>1, <2>2, <2>3 DEF Work
<1> QED  BY <1>1, <1>2, <1>3, <1>4

\* A step of one worker changes the local variables of no other.
LEMMA OwnStep ==
  ASSUME TypeOK, NEW w \in Workers, NEW v \in Workers, v # w,
         Call(w) \/ Work(w) \/ Heartbeat(w) \/ Disturb(w)
  PROVE  wk'[v] = wk[v]
<1>1. Onward(w) => wk'[v] = wk[v]  BY DEF Onward
<1>2. Draws(w) => wk'[v] = wk[v]  BY DrawsLocally
<1>3. CASE \E j \in pass[w].todo : RecheckJob(w, j)  BY <1>1, <1>3, OnwardElse
<1>4. CASE Call(w)  BY <1>1, <1>2, <1>4, OnwardElse DEF Call, Draws
<1>5. CASE Work(w)
  BY <1>1, <1>2, <1>3, <1>5, OnwardAdmit, OnwardExecute, OnwardElse
  DEF Work, Draws
<1>6. CASE Heartbeat(w) \/ Disturb(w)
  BY <1>1, <1>6, OnwardExecute, OnwardElse DEF Disturb
<1> QED  BY <1>4, <1>5, <1>6

\* Any old model response arriving after recovery is discarded: a worker whose
\* lease is gone changes nothing in the jobs, assignments and
\* report_finalizations tables (LateResultsDiscarded).
THEOREM LateResultsAreDiscarded == Spec => LateResultsDiscarded
<1> DEFINE Discards ==
      \A w \in Workers :
        /\ wk'[w] # wk[w]
        /\ wk[w].pc \in {"stage", "model", "result", "failing", "prepare", "seal"}
        /\ ~LeaseActive(w)
        => UNCHANGED <<jobStatus, jobToken, asg, intent>>
<1>1. ASSUME TypeOK, [Next]_vars  PROVE Discards
  <2> SUFFICES ASSUME NEW w \in Workers, wk'[w] # wk[w],
                      wk[w].pc \in Executing, ~LeaseActive(w)
               PROVE  UNCHANGED results
    BY DEF results, Executing
  <2>1. ASSUME NEW v \in Workers,
               Call(v) \/ Work(v) \/ Heartbeat(v) \/ Disturb(v)
        PROVE  UNCHANGED results
    <3>1. v = w  BY <1>1, <2>1, OwnStep
    <3> QED  BY <2>1, <3>1, DiscardStep
  <2>2. ~UNCHANGED vars  BY DEF vars
  <2> QED  BY <1>1, <2>1, <2>2, OthersAside DEF Next, Normal, Fault
<1>2. TypeOK /\ [Next]_vars => [Discards]_vars  BY <1>1
<1>3. ([][Discards]_vars) => LateResultsDiscarded
  BY PTL DEF LateResultsDiscarded
<1> QED  BY <1>2, <1>3, TypeCorrect, PTL DEF Spec

----------------------------------------------------------------------------
\* A prepared report never outlives its lease

\* A worker that executes a job under an active lease has not prepared yet.
PreparedLast ==
  \A w \in Workers :
    LeaseActive(w) /\ wk[w].pc \in Working => intent[wk[w].job] = None

\* Whoever executes a job after the step executed it before, under one lease.
Carried ==
  \A v \in Workers : wk'[v].pc \in Working =>
    /\ wk[v].pc \in Working
    /\ wk'[v].job = wk[v].job /\ wk'[v].tok = wk[v].tok

\* All but an admission and a resume carry executions on.
LEMMA CarriedBy ==
  ASSUME TypeOK, NEW w \in Workers
  PROVE  /\ Onward(w) => Carried
         /\ \A q, t : ClaimNextQueueItem(w, q, t) => Carried
         /\ \A p, t : BeginRun(w, p, t) => Carried
         /\ Recover(w) => Carried
         /\ \A c \in pass[w].claims : RecheckClaim(w, c) => Carried
         /\ UNCHANGED wk => Carried
<1> USE DEF Carried, Working, TypeOK
<1>1. Onward(w) => Carried  BY DEF Onward
<1>2. ASSUME NEW q, NEW t, ClaimNextQueueItem(w, q, t)  PROVE Carried
  BY <1>2 DEF ClaimNextQueueItem, Idle
<1>3. ASSUME NEW p, NEW t, BeginRun(w, p, t)  PROVE Carried
  BY <1>3 DEF BeginRun, Idle
<1>4. Recover(w) => Carried  BY DEF Recover, RecoverStaleJobs, Idle
<1>5. ASSUME NEW c \in pass[w].claims, RecheckClaim(w, c)  PROVE Carried
  BY <1>5 DEF RecheckClaim, Worker
<1> QED  BY <1>1, <1>2, <1>3, <1>4, <1>5

\* Together: the invariant the proof rests on.
Prepared == IntentUnderLease /\ PreparedLast

\* What the steps that leave leases and intents alone preserve.
LEMMA PreparedFrame ==
  ASSUME Prepared, Carried, UNCHANGED <<jobStatus, jobToken, intent>>
  PROVE  Prepared'
  BY DEF Prepared, Carried, IntentUnderLease, PreparedLast, LeaseActive

\* The steps of a worker that do.
LEMMA IntentFrame ==
  ASSUME NEW w \in Workers
  PROVE  LET kept == <<jobStatus, jobToken, intent>> IN
         /\ \A q, t : ClaimNextQueueItem(w, q, t) => UNCHANGED kept
         /\ \A p, t : BeginRun(w, p, t) => UNCHANGED kept
         /\ \A j : ReuseJob(w, j) => UNCHANGED kept
         /\ \A j : BeginEvaluation(w, j) => UNCHANGED kept
         /\ \A j : ReadForResume(w, j) => UNCHANGED kept
         /\ RefuseAdmission(w) => UNCHANGED kept
         /\ RefuseSensitive(w) => UNCHANGED kept
         /\ StartStage(w) => UNCHANGED kept
         /\ Heartbeat(w) => UNCHANGED kept
         /\ ModelReturns(w) => UNCHANGED kept
         /\ RecordResult(w) => UNCHANGED kept
         /\ ReadEvaluation(w) => UNCHANGED kept
         /\ CommitEvaluation(w) => UNCHANGED kept
         /\ FailClaim(w) => UNCHANGED kept
         /\ NeedApproval(w) => UNCHANGED kept
         /\ Raise(w) => UNCHANGED kept
         /\ AbandonQueueClaim(w) => UNCHANGED kept
         /\ Crash(w) => UNCHANGED kept
         /\ \A j : RecheckJob(w, j) => UNCHANGED kept
         /\ \A c : RecheckClaim(w, c) => UNCHANGED kept
         /\ Reconcile(w) => UNCHANGED kept
<1> USE DEF jobVars
<1>1. /\ StartStage(w) => UNCHANGED <<jobStatus, jobToken, intent>>
      /\ RecordResult(w) => UNCHANGED <<jobStatus, jobToken, intent>>
  BY DEF StartStage, RecordResult, LoseLease
<1> QED
  BY <1>1
  DEF ClaimNextQueueItem, BeginRun, ReuseJob, BeginEvaluation, ReadForResume,
      RefuseAdmission, RefuseSensitive, Heartbeat, ModelReturns, ReadEvaluation,
      CommitEvaluation, FailClaim, NeedApproval, Raise, AbandonQueueClaim, Crash,
      RecheckJob, RecheckClaim, Reconcile

\* A job that stops, and drops its intent or had none, takes its lease with it.
LEMMA PreparedStop ==
  ASSUME TypeOK, TokensUnique, Unleased, Prepared, NEW w \in Workers
  PROVE  /\ RecordFailure(w) => Prepared'
         /\ PrepareReport(w) => Prepared'
         /\ SealReport(w) => Prepared'
         /\ Recover(w) => Prepared'
<1> USE DEF TypeOK
<1>a. wk[w] \in Worker  OBVIOUS
<1>j. \A v \in Workers : wk[v].job # None => wk[v].job \in Jobs
  BY DEF Worker
<1>1. ASSUME RecordFailure(w)  PROVE Prepared'
  <2>1. Carried  BY <1>1, CarriedBy, OnwardExecute
  <2>2. CASE UNCHANGED jobVars  BY <2>1, <2>2, PreparedFrame DEF jobVars
  <2>3. CASE ~UNCHANGED jobVars
    <3>1. /\ LeaseActive(w) /\ wk[w].pc = "failing"
          /\ jobStatus' = [jobStatus EXCEPT ![wk[w].job] = "failed"]
          /\ jobToken' = [jobToken EXCEPT ![wk[w].job] = None]
          /\ intent' = intent
      BY <1>1, <2>3 DEF RecordFailure, At
    <3>2. wk[w].job \in Jobs /\ intent[wk[w].job] = None
      BY <1>j, <3>1 DEF Prepared, PreparedLast, Working, LeaseActive
    <3>3. IntentUnderLease'
      BY <3>1, <3>2 DEF Prepared, IntentUnderLease
    <3>4. PreparedLast'
      BY <2>1, <3>1, <3>2, <1>j
      DEF Prepared, PreparedLast, Carried, LeaseActive
    <3> QED  BY <3>3, <3>4 DEF Prepared
  <2> QED  BY <2>2, <2>3
<1>2. ASSUME PrepareReport(w)  PROVE Prepared'
  <2>1. Carried  BY <1>2, CarriedBy, OnwardExecute
  <2>2. CASE LoseLease(w)
    BY <2>1, <2>2, PreparedFrame DEF LoseLease, jobVars
  <2>3. CASE ~LoseLease(w)
    <3>1. /\ LeaseActive(w)
          /\ intent' = [intent EXCEPT ![wk[w].job] = wk[w].tok]
          /\ UNCHANGED <<jobStatus, jobToken>>
          /\ Goto(w, "seal")
      BY <1>2, <2>3 DEF PrepareReport
    <3>2. IntentUnderLease'
      BY <1>j, <3>1 DEF Prepared, IntentUnderLease, LeaseActive
    <3>3. wk'[w].pc = "seal"  BY <1>a, <3>1 DEF Goto, Worker
    <3>4. ASSUME NEW v \in Workers, LeaseActive(v)', wk'[v].pc \in Working
          PROVE  intent'[wk'[v].job] = None
      <4>1. v # w  BY <3>3, <3>4 DEF Working
      <4>2. /\ wk[v].pc \in Working /\ LeaseActive(v)
            /\ wk'[v].job = wk[v].job
        BY <2>1, <3>1, <3>4 DEF Carried, LeaseActive
      <4>3. wk[v].tok # None /\ wk[v].job \in Jobs
        BY <1>j, <4>2 DEF Unleased, LeaseActive
      <4>4. wk[v].tok # wk[w].tok  BY <4>1, <4>3 DEF TokensUnique
      <4>5. wk[v].job # wk[w].job  BY <3>1, <4>2, <4>4 DEF LeaseActive
      <4> QED  BY <3>1, <4>2, <4>3, <4>5 DEF Prepared, PreparedLast
    <3> QED  BY <3>2, <3>4 DEF Prepared, PreparedLast
  <2> QED  BY <2>2, <2>3
<1>3. ASSUME SealReport(w)  PROVE Prepared'
  <2>1. Carried  BY <1>3, CarriedBy, OnwardExecute
  <2>2. CASE UNCHANGED jobVars  BY <2>1, <2>2, PreparedFrame DEF jobVars
  <2>3. CASE ~UNCHANGED jobVars
    <3>1. /\ LeaseActive(w)
          /\ jobStatus' = [jobStatus EXCEPT ![wk[w].job] = "complete"]
          /\ jobToken' = [jobToken EXCEPT ![wk[w].job] = None]
          /\ intent' = [intent EXCEPT ![wk[w].job] = None]
      BY <1>3, <2>3 DEF SealReport
    <3>2. IntentUnderLease'
      BY <3>1, NoneAssumption DEF Prepared, IntentUnderLease
    <3>3. PreparedLast'
      BY <2>1, <3>1, <1>j DEF Prepared, PreparedLast, Carried, LeaseActive
    <3> QED  BY <3>2, <3>3 DEF Prepared
  <2> QED  BY <2>2, <2>3
<1>4. ASSUME Recover(w)  PROVE Prepared'
  <2>1. Carried  BY <1>4, CarriedBy
  <2>2. PICK recovered \in SUBSET Jobs :
          /\ intent' = [j \in Jobs |-> IF j \in recovered THEN None ELSE intent[j]]
          /\ jobToken' = [j \in Jobs |-> IF j \in recovered THEN None ELSE jobToken[j]]
          /\ \A j \in Jobs : jobStatus'[j] = "running" <=>
               jobStatus[j] = "running" /\ j \notin recovered
    <3>1. PICK sealed \in SUBSET StaleRunning, claimed \in SUBSET RunningItems :
            \E deferred \in SUBSET (StaleRunning \ sealed), f \in [claimed -> Fresh] :
              RecoverStaleJobs(w, sealed, deferred, f)
      BY <1>4 DEF Recover
    <3>2. PICK deferred \in SUBSET (StaleRunning \ sealed), f \in [claimed -> Fresh] :
            RecoverStaleJobs(w, sealed, deferred, f)
      BY <3>1
    <3> DEFINE abandoned == StaleRunning \ (sealed \cup deferred)
    <3>3. sealed \cup abandoned \in SUBSET Jobs
      BY DEF StaleRunning, RunningJobs
    <3>4. /\ intent' = [j \in Jobs |->
                 IF j \in sealed \cup abandoned THEN None ELSE intent[j]]
          /\ jobToken' = [j \in Jobs |->
                 IF j \in sealed \cup abandoned THEN None ELSE jobToken[j]]
          /\ \A j \in Jobs : jobStatus'[j] = "running" <=>
               jobStatus[j] = "running" /\ j \notin sealed \cup abandoned
      BY <3>2 DEF RecoverStaleJobs, DropIntents
    <3> HIDE DEF abandoned
    <3> QED  BY <3>3, <3>4
  <2>3. IntentUnderLease'
    BY <2>2 DEF Prepared, IntentUnderLease
  <2>4. ASSUME NEW v \in Workers, LeaseActive(v)', wk'[v].pc \in Working
        PROVE  intent'[wk'[v].job] = None
    <3>1. /\ wk[v].pc \in Working /\ wk'[v].job = wk[v].job
          /\ wk'[v].tok = wk[v].tok /\ wk[v].job # None
      BY <2>1, <2>4 DEF Carried, LeaseActive
    <3>2. wk[v].job \in Jobs  BY <1>j, <3>1
    <3>3. LeaseActive(v)  BY <2>2, <2>4, <3>1, <3>2 DEF LeaseActive
    <3> QED  BY <2>2, <3>1, <3>2, <3>3 DEF Prepared, PreparedLast
  <2> QED  BY <2>3, <2>4 DEF Prepared, PreparedLast
<1> QED  BY <1>1, <1>2, <1>3, <1>4

\* A job that starts has no intent, and its token is in no other hands.
LEMMA PreparedStart ==
  ASSUME TypeOK, TokensUnique, Unleased, Prepared, NEW w \in Workers
  PROVE  /\ \A j \in Jobs : InsertJob(w, j) => Prepared'
         /\ \A t \in Fresh : CommitResume(w, t) => Prepared'
<1> USE DEF TypeOK
<1>a. wk[w] \in Worker  OBVIOUS
<1>j. \A v \in Workers : wk[v].job # None => wk[v].job \in Jobs
  BY DEF Worker
<1>1. ASSUME NEW j \in Jobs, InsertJob(w, j)  PROVE Prepared'
  <2>1. /\ At(w, "admitting") /\ jobStatus[j] = "absent"
        /\ jobStatus' = [jobStatus EXCEPT ![j] = "running"]
        /\ jobToken' = [jobToken EXCEPT ![j] = wk[w].tok]
        /\ intent' = intent
    BY <1>1 DEF InsertJob
  <2>2. intent[j] = None  BY <2>1 DEF Prepared, IntentUnderLease
  <2>3. /\ wk'[w].job = j
        /\ \A v \in Workers : v # w => wk'[v] = wk[v]
    BY <1>1, <1>a DEF InsertJob, Worker
  <2>4. IntentUnderLease'
    BY <2>1, <2>2 DEF Prepared, IntentUnderLease
  <2>5. ASSUME NEW v \in Workers, LeaseActive(v)', wk'[v].pc \in Working
        PROVE  intent'[wk'[v].job] = None
    <3>1. CASE v = w  BY <2>1, <2>2, <2>3, <3>1
    <3>2. CASE v # w
      <4>1. wk[v].pc \in Working /\ wk[v].job \in Jobs
        BY <1>j, <2>3, <2>5, <3>2 DEF LeaseActive
      <4>2. wk[w].tok # None  BY <2>1 DEF Unleased
      <4>3. wk[w].tok # wk[v].tok  BY <3>2, <4>2 DEF TokensUnique
      <4>4. wk[v].job # j
        BY <2>1, <2>3, <2>5, <3>2, <4>3 DEF LeaseActive
      <4>5. LeaseActive(v)
        BY <2>1, <2>3, <2>5, <3>2, <4>1, <4>4 DEF LeaseActive
      <4> QED  BY <2>1, <2>3, <3>2, <4>1, <4>5 DEF Prepared, PreparedLast
    <3> QED  BY <3>1, <3>2
  <2> QED  BY <2>4, <2>5 DEF Prepared, PreparedLast
<1>2. ASSUME NEW t \in Fresh, CommitResume(w, t)  PROVE Prepared'
  <2>1. CASE Rest(w) /\ UNCHANGED <<jobVars, queueVars, pass>>
    <3>1. Carried  BY <2>1, CarriedBy, OnwardToRest
    <3> QED  BY <2>1, <3>1, PreparedFrame DEF jobVars
  <2>2. CASE ~(Rest(w) /\ UNCHANGED <<jobVars, queueVars, pass>>)
    <3> DEFINE j == wk[w].job
    <3>1. /\ jobStatus[j] # "running"
          /\ jobStatus' = [jobStatus EXCEPT ![j] = "running"]
          /\ jobToken' = [jobToken EXCEPT ![j] = t]
          /\ intent' = intent
      BY <1>2, <2>2 DEF CommitResume, StillResumable
    <3>2. PICK s, item : wk' = [wk EXCEPT ![w] =
             [@ EXCEPT !.pc = "stage", !.tok = t, !.item = item, !.stage = s]]
      BY <1>2, <2>2 DEF CommitResume
    <3>3. wk'[w].job = j /\ \A v \in Workers : v # w => wk'[v] = wk[v]
      BY <1>a, <3>2 DEF Worker
    <3>4. j \in Jobs => intent[j] = None
      BY <3>1 DEF Prepared, IntentUnderLease
    <3> HIDE DEF j
    <3>5. IntentUnderLease'
      BY <3>1, <3>4 DEF Prepared, IntentUnderLease
    <3>6. ASSUME NEW v \in Workers, LeaseActive(v)', wk'[v].pc \in Working
          PROVE  intent'[wk'[v].job] = None
      <4>1. CASE v = w
        <5>1. j \in Jobs  BY <1>j, <3>3, <3>6, <4>1 DEF LeaseActive, j
        <5> QED  BY <3>1, <3>3, <3>4, <4>1, <5>1
      <4>2. CASE v # w
        <5>1. wk[v].pc \in Working /\ wk[v].job \in Jobs
          BY <1>j, <3>3, <3>6, <4>2 DEF LeaseActive
        <5>2. t # wk[v].tok  BY DEF Fresh, InUse
        <5>3. wk[v].job # j
          BY <3>1, <3>3, <3>6, <4>2, <5>1, <5>2 DEF LeaseActive
        <5>4. LeaseActive(v)
          BY <3>1, <3>3, <3>6, <4>2, <5>1, <5>3 DEF LeaseActive
        <5> QED  BY <3>1, <3>3, <4>2, <5>1, <5>4 DEF Prepared, PreparedLast
      <4> QED  BY <4>1, <4>2
    <3> QED  BY <3>5, <3>6 DEF Prepared, PreparedLast
  <2> QED  BY <2>1, <2>2
<1> QED  BY <1>1, <1>2

\* A prepared report never outlives the lease it was prepared under, so that
\* recovery can seal or abandon it, and a resumed job starts without one
\* (IntentUnderLease).
THEOREM IntentsStayUnderLease == Spec => []IntentUnderLease
<1>1. Init => TokensUnique /\ Unleased /\ Prepared
  BY DEF Init, TokensUnique, Unleased, Prepared, IntentUnderLease, PreparedLast,
         LeaseActive, Idle, NoPass, At
<1>2. ASSUME TypeOK, TokensUnique, Unleased, Prepared, [Next]_vars
      PROVE  Prepared'
  <2>1. Carried /\ UNCHANGED <<jobStatus, jobToken, intent>> => Prepared'
    BY <1>2, PreparedFrame
  <2>2. ASSUME NEW w \in Workers, Call(w)  PROVE Prepared'
    BY <1>2, <2>1, <2>2, CarriedBy, OnwardElse, IntentFrame, PreparedStop
    DEF Call
  <2>3. ASSUME NEW w \in Workers, Work(w)  PROVE Prepared'
    <3>1. CASE \E j \in pass[w].todo : RecheckJob(w, j)
      BY <1>2, <2>1, <3>1, CarriedBy, OnwardElse, IntentFrame
    <3>2. CASE \E j \in Jobs : InsertJob(w, j)  BY <1>2, <3>2, PreparedStart
    <3>3. CASE \E t \in Fresh : CommitResume(w, t)  BY <1>2, <3>3, PreparedStart
    <3>4. CASE RecordFailure(w) \/ PrepareReport(w) \/ SealReport(w)
      BY <1>2, <3>4, PreparedStop
    <3> QED
      BY <1>2, <2>1, <2>3, <3>1, <3>2, <3>3, <3>4, CarriedBy, OnwardAdmit,
         OnwardExecute, OnwardElse, IntentFrame
      DEF Work
  <2>4. ASSUME NEW w \in Workers, Heartbeat(w) \/ Disturb(w)  PROVE Prepared'
    BY <1>2, <2>1, <2>4, CarriedBy, OnwardExecute, OnwardElse, IntentFrame
    DEF Disturb
  <2>5. CASE \/ \E q \in Queue : Command(q) \/ ClaimAges(q)
             \/ \E j \in Jobs : JobAges(j) \/ EvidenceChanges(j)
             \/ UNCHANGED vars
    <3>1. UNCHANGED <<jobStatus, jobToken, intent>>
      BY <2>5 DEF Command, Enqueue, CancelQueueItem, ParkQueueItem,
         UnparkQueueItem, ResetQueueItem, SupersedeQualityFailure, ClaimAges,
         JobAges, EvidenceChanges, vars, jobVars
    <3>2. UNCHANGED wk  BY <2>5, OthersAside DEF vars
    <3>3. Carried  BY <3>2 DEF Carried
    <3> QED  BY <2>1, <3>1, <3>3
  <2> QED  BY <1>2, <2>2, <2>3, <2>4, <2>5 DEF Next, Normal, Fault
<1>3. Prepared => IntentUnderLease  BY DEF Prepared
<1> QED
  BY <1>1, <1>2, <1>3, TypeCorrect, TokensUniqueStep, UnleasedStep, PTL DEF Spec

----------------------------------------------------------------------------
\* Whoever judges a job judges a sealed one

Whole(j) == \A r \in Roles : asg[j][r] = "complete"

\* An evaluation under way, and every recheck a recovery pass still has to
\* make, is of a complete job, and a passing verdict was read of a whole one.
JudgesComplete ==
  \A w \in Workers :
    /\ wk[w].pc \in {"evaluate", "commit"} =>
         /\ wk[w].job \in Jobs /\ jobStatus[wk[w].job] = "complete"
         /\ wk[w].pc = "commit" /\ wk[w].verdict => Whole(wk[w].job)
    /\ \A j \in pass[w].todo : jobStatus[j] = "complete"
    /\ \A c \in pass[w].claims : jobStatus[c.job] = "complete"

\* A step of worker w that begins no evaluation and adds no recheck.
Unjudging(w) ==
  /\ \A v \in Workers : v # w => wk'[v] = wk[v]
  /\ wk'[w].pc \notin {"evaluate", "commit"}
  /\ \A v \in Workers : /\ pass'[v].todo \subseteq pass[v].todo
                        /\ pass'[v].claims \subseteq pass[v].claims

\* What is judged stays sealed and whole.
LEMMA JudgedStays ==
  ASSUME TypeOK, JudgesComplete, Final,
         NEW w \in Workers, Unjudging(w) \/ UNCHANGED <<wk, pass>>
  PROVE  JudgesComplete'
<1>1. \A v \in Workers :
        /\ \A j \in pass[v].todo : j \in Jobs
        /\ \A c \in pass[v].claims : c.job \in Jobs
  BY DEF TypeOK, Pass, Claim
<1>2. \A j \in Jobs : jobStatus[j] = "complete" =>
        jobStatus'[j] = "complete" /\ (Whole(j) => Whole(j)')
  BY DEF Final, Whole
<1> QED  BY <1>1, <1>2 DEF JudgesComplete, Unjudging

\* Coming to rest, and going to a place that is not an evaluation.
LEMMA UnjudgingPlaces ==
  ASSUME TypeOK, NEW w \in Workers, UNCHANGED pass
  PROVE  /\ Rest(w) => Unjudging(w)
         /\ \A p \in Pc \ {"evaluate", "commit"} : Goto(w, p) => Unjudging(w)
         /\ Conclude(w) => Unjudging(w)
<1> USE DEF TypeOK, Unjudging
<1>a. wk[w] \in Worker  OBVIOUS
<1>1. Rest(w) => Unjudging(w)  BY DEF Rest, Idle
<1>2. ASSUME NEW p \in Pc \ {"evaluate", "commit"}, Goto(w, p)
      PROVE  Unjudging(w)
  BY <1>a, <1>2 DEF Goto, Worker
<1>3. ASSUME Conclude(w)  PROVE Unjudging(w)
  <2>1. CASE Rest(w)  BY <1>1, <2>1
  <2>2. CASE wk' = [wk EXCEPT ![w] = [Idle EXCEPT !.pc = "rechecks",
                                                  !.via = "recover"]]
    BY <2>2 DEF Idle
  <2> QED  BY <1>3, <2>1, <2>2 DEF Conclude
<1> QED  BY <1>1, <1>2, <1>3

\* The steps that begin no evaluation, before and during an execution.
LEMMA UnjudgingExecute ==
  ASSUME TypeOK, NEW w \in Workers
  PROVE  /\ \A q \in Queue, t \in Fresh : ClaimNextQueueItem(w, q, t) => Unjudging(w)
         /\ \A p, t : BeginRun(w, p, t) => Unjudging(w)
         /\ \A j \in Jobs : InsertJob(w, j) => Unjudging(w)
         /\ RefuseAdmission(w) => Unjudging(w)
         /\ RefuseSensitive(w) => Unjudging(w)
         /\ StartStage(w) => Unjudging(w)
         /\ Heartbeat(w) => Unjudging(w)
         /\ ModelReturns(w) => Unjudging(w)
         /\ RecordResult(w) => Unjudging(w)
         /\ RecordFailure(w) => Unjudging(w)
         /\ PrepareReport(w) => Unjudging(w)
<1>a. wk[w] \in Worker  BY DEF TypeOK
<1>p. Pc \ {"evaluate", "commit"} =
        {"idle", "admitting", "stage", "model", "result", "failing", "prepare",
         "seal", "errored", "refused", "resuming", "rechecks"}
  BY DEF Pc
<1>l. LoseLease(w) => Unjudging(w)  BY UnjudgingPlaces DEF LoseLease
<1>1. ASSUME NEW q \in Queue, NEW t \in Fresh, ClaimNextQueueItem(w, q, t)
      PROVE  Unjudging(w)
  <2>1. /\ \A v \in Workers : v # w => wk'[v] = wk[v]
        /\ wk'[w].pc = "admitting"
    BY <1>1 DEF ClaimNextQueueItem, TypeOK, Idle
  <2>2. \A v \in Workers : pass'[v].todo = pass[v].todo
                           /\ pass'[v].claims = pass[v].claims
    BY <1>1 DEF ClaimNextQueueItem, Restamp, TypeOK, Pass
  <2> QED  BY <2>1, <2>2 DEF Unjudging
<1>2. ASSUME NEW p, NEW t, BeginRun(w, p, t)  PROVE Unjudging(w)
  BY <1>2 DEF BeginRun, Unjudging, TypeOK, Idle
<1>3. ASSUME NEW j \in Jobs, InsertJob(w, j)  PROVE Unjudging(w)
  BY <1>3, <1>a DEF InsertJob, Unjudging, TypeOK, Worker
<1>4. RefuseAdmission(w) => Unjudging(w)
  BY <1>p, UnjudgingPlaces DEF RefuseAdmission
<1>5. RefuseSensitive(w) => Unjudging(w)
  BY <1>p, UnjudgingPlaces DEF RefuseSensitive
<1>6. StartStage(w) => Unjudging(w)
  BY <1>l, <1>p, UnjudgingPlaces DEF StartStage
<1>7. ASSUME Heartbeat(w)  PROVE Unjudging(w)
  BY <1>7, <1>a DEF Heartbeat, At, Unjudging, TypeOK, Worker
<1>8. ModelReturns(w) => Unjudging(w)
  BY <1>p, UnjudgingPlaces DEF ModelReturns
<1>9. ASSUME RecordResult(w)  PROVE Unjudging(w)
  <2>1. ASSUME NEW p \in {"stage", "prepare"}, NEW s, NEW d, UNCHANGED pass,
               wk' = [wk EXCEPT ![w] =
                       [@ EXCEPT !.pc = p, !.stage = s, !.done = d]]
        PROVE  Unjudging(w)
    BY <2>1, <1>a DEF Unjudging, TypeOK, Worker
  <2> QED  BY <1>9, <1>l, <2>1 DEF RecordResult
<1>10. RecordFailure(w) => Unjudging(w)
  BY <1>p, UnjudgingPlaces DEF RecordFailure, Propagate
<1>11. PrepareReport(w) => Unjudging(w)
  BY <1>l, <1>p, UnjudgingPlaces DEF PrepareReport
<1> QED  BY <1>1, <1>2, <1>3, <1>4, <1>5, <1>6, <1>7, <1>8, <1>9, <1>10, <1>11

\* The steps that end an evaluation, fail, crash, resume or reconcile.
LEMMA UnjudgingElse ==
  ASSUME TypeOK, NEW w \in Workers
  PROVE  /\ CommitEvaluation(w) => Unjudging(w)
         /\ Raise(w) => Unjudging(w)
         /\ FailClaim(w) => Unjudging(w)
         /\ NeedApproval(w) => Unjudging(w)
         /\ AbandonQueueClaim(w) => Unjudging(w)
         /\ Crash(w) => Unjudging(w)
         /\ \A j : ReadForResume(w, j) => Unjudging(w)
         /\ \A t : CommitResume(w, t) => Unjudging(w)
         /\ Reconcile(w) => Unjudging(w)
<1>a. wk[w] \in Worker  BY DEF TypeOK
<1>p. Pc \ {"evaluate", "commit"} =
        {"idle", "admitting", "stage", "model", "result", "failing", "prepare",
         "seal", "errored", "refused", "resuming", "rechecks"}
  BY DEF Pc
<1>1. CommitEvaluation(w) => Unjudging(w)
  BY UnjudgingPlaces DEF CommitEvaluation
<1>2. Raise(w) => Unjudging(w)
  BY <1>p, UnjudgingPlaces DEF Raise, Propagate
<1>3. /\ FailClaim(w) => Unjudging(w)
      /\ NeedApproval(w) => Unjudging(w)
      /\ AbandonQueueClaim(w) => Unjudging(w)
  BY UnjudgingPlaces DEF FailClaim, NeedApproval, AbandonQueueClaim
<1>4. ASSUME Crash(w) \/ Reconcile(w)  PROVE Unjudging(w)
  <2>1. wk' = [wk EXCEPT ![w] = Idle] /\ pass' = [pass EXCEPT ![w] = NoPass]
    BY <1>4 DEF Crash, Reconcile, Rest
  <2> QED  BY <2>1 DEF Unjudging, TypeOK, Idle, NoPass
<1>5. ASSUME NEW j, ReadForResume(w, j)  PROVE Unjudging(w)
  BY <1>5 DEF ReadForResume, Unjudging, TypeOK, Idle
<1>6. ASSUME NEW t, CommitResume(w, t)  PROVE Unjudging(w)
  <2>1. CASE Rest(w) /\ UNCHANGED pass  BY <2>1, UnjudgingPlaces
  <2>2. CASE ~(Rest(w) /\ UNCHANGED pass)
    <3>1. PICK s, item :
            /\ wk' = [wk EXCEPT ![w] = [@ EXCEPT !.pc = "stage", !.tok = t,
                                                 !.item = item, !.stage = s]]
            /\ UNCHANGED pass \/ Restamp(item)
      BY <1>6, <2>2 DEF CommitResume
    <3>2. \A v \in Workers : pass'[v].todo = pass[v].todo
                             /\ pass'[v].claims = pass[v].claims
      BY <3>1 DEF Restamp, TypeOK, Pass
    <3>3. wk'[w].pc = "stage" /\ \A v \in Workers : v # w => wk'[v] = wk[v]
      BY <1>a, <3>1 DEF TypeOK, Worker
    <3> QED  BY <3>2, <3>3 DEF Unjudging
  <2> QED  BY <2>1, <2>2
<1> QED  BY <1>1, <1>2, <1>3, <1>4, <1>5, <1>6

\* A worker that turns to a complete job, and keeps the rechecks it had.
LEMMA JudgeBegins ==
  ASSUME TypeOK, JudgesComplete, Final, NEW w \in Workers,
         \A v \in Workers : v # w => wk'[v] = wk[v],
         wk'[w].pc = "evaluate",
         wk'[w].job \in Jobs, jobStatus'[wk'[w].job] = "complete",
         \A v \in Workers : /\ pass'[v].todo \subseteq pass[v].todo
                            /\ pass'[v].claims \subseteq pass[v].claims
  PROVE  JudgesComplete'
<1>1. \A v \in Workers :
        /\ \A j \in pass[v].todo : j \in Jobs
        /\ \A c \in pass[v].claims : c.job \in Jobs
  BY DEF TypeOK, Pass, Claim
<1>2. \A j \in Jobs : jobStatus[j] = "complete" =>
        jobStatus'[j] = "complete" /\ (Whole(j) => Whole(j)')
  BY DEF Final, Whole
<1> QED  BY <1>1, <1>2 DEF JudgesComplete

\* Evaluate(w, j) as its effect on the local variables of the workers.
LEMMA EvaluateLocally ==
  ASSUME TypeOK, NEW w \in Workers, NEW j \in Jobs, Evaluate(w, j)
  PROVE  /\ wk'[w].pc = "evaluate" /\ wk'[w].job = j
         /\ \A v \in Workers : v # w => wk'[v] = wk[v]
  BY DEF TypeOK, Evaluate, Idle

\* The steps that begin an evaluation begin it of a complete job; reading keeps
\* the job and finds it whole if the verdict passes.
LEMMA JudgesBegin ==
  ASSUME TypeOK, JudgesComplete, Final, NEW w \in Workers
  PROVE  /\ \A j \in Jobs : ReuseJob(w, j) => JudgesComplete'
         /\ SealReport(w) => JudgesComplete'
         /\ \A j \in Jobs : BeginEvaluation(w, j) => JudgesComplete'
         /\ ReadEvaluation(w) => JudgesComplete'
         /\ \A j \in pass[w].todo : RecheckJob(w, j) => JudgesComplete'
         /\ \A c \in pass[w].claims : RecheckClaim(w, c) => JudgesComplete'
         /\ Recover(w) => JudgesComplete'
<1>a. wk[w] \in Worker /\ pass[w] \in Pass  BY DEF TypeOK
<1>1. ASSUME NEW j \in Jobs, ReuseJob(w, j)  PROVE JudgesComplete'
  <2>1. /\ jobStatus[j] = "complete" /\ UNCHANGED <<jobStatus, pass>>
        /\ Rest(w) \/ Evaluate(w, j)
    BY <1>1 DEF ReuseJob, jobVars
  <2>2. CASE Rest(w)  BY <2>1, <2>2, UnjudgingPlaces, JudgedStays
  <2>3. CASE Evaluate(w, j)  BY <2>1, <2>3, EvaluateLocally, JudgeBegins
  <2> QED  BY <2>1, <2>2, <2>3
<1>2. ASSUME SealReport(w)  PROVE JudgesComplete'
  <2>1. CASE Rest(w) /\ UNCHANGED pass
    BY <2>1, UnjudgingPlaces, JudgedStays
  <2>2. CASE ~(Rest(w) /\ UNCHANGED pass)
    <3>1. /\ LeaseActive(w) /\ UNCHANGED pass
          /\ jobStatus' = [jobStatus EXCEPT ![wk[w].job] = "complete"]
          /\ Evaluate(w, wk[w].job)
      BY <1>2, <2>2 DEF SealReport
    <3>2. wk[w].job \in Jobs  BY <1>a, <3>1 DEF LeaseActive, Worker
    <3>3. jobStatus'[wk[w].job] = "complete"  BY <3>1, <3>2 DEF TypeOK
    <3> QED  BY <3>1, <3>2, <3>3, EvaluateLocally, JudgeBegins
  <2> QED  BY <2>1, <2>2
<1>3. ASSUME NEW j \in Jobs, BeginEvaluation(w, j)  PROVE JudgesComplete'
  <2>1. jobStatus'[j] = "complete" /\ Evaluate(w, j) /\ UNCHANGED pass
    BY <1>3 DEF BeginEvaluation, jobVars
  <2> QED  BY <2>1, EvaluateLocally, JudgeBegins
<1>4. ASSUME ReadEvaluation(w)  PROVE JudgesComplete'
  <2>1. /\ wk[w].pc = "evaluate" /\ UNCHANGED <<jobStatus, asg, pass>>
        /\ \A v \in Workers : v # w => wk'[v] = wk[v]
        /\ wk'[w].job = wk[w].job
        /\ wk'[w].verdict = Passes(wk[w].job)
    BY <1>4, <1>a DEF ReadEvaluation, At, TypeOK, Worker, jobVars
  <2>2. Passes(wk[w].job) => Whole(wk[w].job)  BY DEF Passes, Whole
  <2> QED  BY <2>1, <2>2 DEF JudgesComplete, Whole
<1>5. ASSUME NEW j \in pass[w].todo, RecheckJob(w, j)  PROVE JudgesComplete'
  <2>1. j \in Jobs /\ jobStatus[j] = "complete"
    BY <1>a DEF Pass, JudgesComplete
  <2>2. /\ wk'[w].pc = "evaluate" /\ wk'[w].job = j
        /\ \A v \in Workers : v # w => wk'[v] = wk[v]
        /\ jobStatus' = jobStatus
    BY <1>5, <1>a DEF RecheckJob, TypeOK, Worker, jobVars
  <2>3. \A v \in Workers : /\ pass'[v].todo \subseteq pass[v].todo
                           /\ pass'[v].claims \subseteq pass[v].claims
    BY <1>5 DEF RecheckJob, TypeOK, Pass
  <2> QED  BY <2>1, <2>2, <2>3, JudgeBegins
<1>6. ASSUME NEW c \in pass[w].claims, RecheckClaim(w, c)  PROVE JudgesComplete'
  <2>1. c.job \in Jobs /\ jobStatus[c.job] = "complete"
    BY <1>a DEF Pass, Claim, JudgesComplete
  <2>2. /\ wk'[w].pc = "evaluate" /\ wk'[w].job = c.job
        /\ \A v \in Workers : v # w => wk'[v] = wk[v]
        /\ jobStatus' = jobStatus
    BY <1>6, <1>a DEF RecheckClaim, TypeOK, Worker, jobVars
  <2>3. \A v \in Workers : /\ pass'[v].todo \subseteq pass[v].todo
                           /\ pass'[v].claims \subseteq pass[v].claims
    BY <1>6 DEF RecheckClaim, TypeOK, Pass
  <2> QED  BY <2>1, <2>2, <2>3, JudgeBegins
<1>7. ASSUME Recover(w)  PROVE JudgesComplete'
  <2>1. PICK sealed \in SUBSET StaleRunning, claimed \in SUBSET RunningItems :
          \E deferred \in SUBSET (StaleRunning \ sealed), f \in [claimed -> Fresh] :
            RecoverStaleJobs(w, sealed, deferred, f)
    BY <1>7 DEF Recover
  <2>2. PICK deferred \in SUBSET (StaleRunning \ sealed), f \in [claimed -> Fresh] :
          RecoverStaleJobs(w, sealed, deferred, f)
    BY <2>1
  <2>3. /\ \A v \in Workers : v # w => wk'[v] = wk[v] /\ pass'[v] = pass[v]
        /\ wk'[w].pc = "rechecks"
    BY <2>2 DEF RecoverStaleJobs, TypeOK, Idle
  <2>4. \A j \in Jobs : j \in sealed \/ jobStatus[j] = "complete" =>
                          jobStatus'[j] = "complete"
    BY <2>2 DEF RecoverStaleJobs, Final
  <2>5. \A j \in pass'[w].todo : jobStatus'[j] = "complete"
    <3>1. pass'[w].todo \subseteq sealed \cup {j \in Jobs : jobStatus[j] = "complete"}
      BY <2>2 DEF RecoverStaleJobs, TypeOK
    <3>2. sealed \subseteq Jobs  BY DEF StaleRunning, RunningJobs
    <3> QED  BY <2>4, <3>1, <3>2
  <2>6. \A c \in pass'[w].claims : jobStatus'[c.job] = "complete"
    <3>1. pass'[w].claims = {[item |-> q, job |-> queueJob[q], tok |-> f[q]] :
                               q \in claimed}
      BY <2>2 DEF RecoverStaleJobs, TypeOK
    <3>2. \A q \in claimed :
            /\ queueJob[q] \in Jobs
            /\ queueJob[q] \in sealed \/ jobStatus[queueJob[q]] = "complete"
      BY <2>2 DEF RecoverStaleJobs, TypeOK, RunningItems
    <3> QED  BY <2>4, <3>1, <3>2
  <2>7. \A v \in Workers :
          /\ \A j \in pass[v].todo : j \in Jobs
          /\ \A c \in pass[v].claims : c.job \in Jobs
    BY DEF TypeOK, Pass, Claim
  <2>8. \A j \in Jobs : Whole(j) /\ jobStatus[j] = "complete" => Whole(j)'
    BY DEF Final, Whole
  <2> QED  BY <2>3, <2>4, <2>5, <2>6, <2>7, <2>8 DEF JudgesComplete
<1> QED  BY <1>1, <1>2, <1>3, <1>4, <1>5, <1>6, <1>7

\* Every step keeps it.
LEMMA JudgesStep ==
  ASSUME TypeOK, Unleased, JudgesComplete, [Next]_vars
  PROVE  JudgesComplete'
<1>f. Final  BY FinalStep
<1>u. \A w \in Workers : Unjudging(w) => JudgesComplete'  BY <1>f, JudgedStays
<1>1. ASSUME NEW w \in Workers, Call(w)  PROVE JudgesComplete'
  BY <1>f, <1>u, <1>1, UnjudgingExecute, UnjudgingElse, JudgesBegin DEF Call
<1>2. ASSUME NEW w \in Workers, Work(w)  PROVE JudgesComplete'
  BY <1>f, <1>u, <1>2, UnjudgingExecute, UnjudgingElse, JudgesBegin DEF Work
<1>3. ASSUME NEW w \in Workers, Heartbeat(w) \/ Disturb(w)  PROVE JudgesComplete'
  BY <1>u, <1>3, UnjudgingExecute, UnjudgingElse DEF Disturb
<1>4. ASSUME UNCHANGED <<wk, pass>>  PROVE JudgesComplete'
  <2>1. \A v \in Workers :
          /\ \A j \in pass[v].todo : j \in Jobs
          /\ \A c \in pass[v].claims : c.job \in Jobs
    BY DEF TypeOK, Pass, Claim
  <2>2. \A j \in Jobs : jobStatus[j] = "complete" =>
          jobStatus'[j] = "complete" /\ (Whole(j) => Whole(j)')
    BY <1>f DEF Final, Whole
  <2> QED  BY <1>4, <2>1, <2>2 DEF JudgesComplete
<1>5. UNCHANGED vars => UNCHANGED <<wk, pass>>  BY DEF vars
<1> QED
  BY <1>1, <1>2, <1>3, <1>4, <1>5, OthersAside DEF Next, Normal, Fault

----------------------------------------------------------------------------
\* A passing mission is whole, and rows show verdicts

\* The columns that say what is settled, and how.
verdicts == <<evaluation, queueStatus, queueJob>>

\* The steps of a worker that leave them alone.
LEMMA VerdictFrame ==
  ASSUME NEW w \in Workers
  PROVE  /\ \A p, t : BeginRun(w, p, t) => UNCHANGED verdicts
         /\ \A j : BeginEvaluation(w, j) => UNCHANGED verdicts
         /\ \A j : ReadForResume(w, j) => UNCHANGED verdicts
         /\ RefuseAdmission(w) => UNCHANGED verdicts
         /\ RefuseSensitive(w) => UNCHANGED verdicts
         /\ StartStage(w) => UNCHANGED verdicts
         /\ Heartbeat(w) => UNCHANGED verdicts
         /\ ModelReturns(w) => UNCHANGED verdicts
         /\ RecordResult(w) => UNCHANGED verdicts
         /\ RecordFailure(w) => UNCHANGED verdicts
         /\ PrepareReport(w) => UNCHANGED verdicts
         /\ SealReport(w) => UNCHANGED verdicts
         /\ ReadEvaluation(w) => UNCHANGED verdicts
         /\ Raise(w) => UNCHANGED verdicts
         /\ Crash(w) => UNCHANGED verdicts
         /\ \A j : RecheckJob(w, j) => UNCHANGED verdicts
         /\ \A c : RecheckClaim(w, c) => UNCHANGED verdicts
         /\ Recover(w) => UNCHANGED verdicts
<1> USE DEF verdicts, jobVars, queueVars
<1>1. /\ StartStage(w) => UNCHANGED verdicts
      /\ RecordResult(w) => UNCHANGED verdicts
      /\ PrepareReport(w) => UNCHANGED verdicts
  BY DEF StartStage, RecordResult, PrepareReport, LoseLease
<1>2. RecordFailure(w) => UNCHANGED verdicts  BY DEF RecordFailure
<1>3. SealReport(w) => UNCHANGED verdicts  BY DEF SealReport
<1>4. Recover(w) => UNCHANGED verdicts  BY DEF Recover, RecoverStaleJobs
<1> QED
  BY <1>1, <1>2, <1>3, <1>4
  DEF BeginRun, BeginEvaluation, ReadForResume, RefuseAdmission,
      RefuseSensitive, Heartbeat, ModelReturns, ReadEvaluation, Raise, Crash,
      RecheckJob, RecheckClaim

\* What a step does to the rows that are settled: either it leaves them, their
\* jobs and the evaluations alone, or it is a committed evaluation.
Unsettling ==
  /\ evaluation' = evaluation
  /\ \A q \in Queue : queueStatus'[q] \in Settled =>
       queueStatus'[q] = queueStatus[q] /\ queueJob'[q] = queueJob[q]

\* Steps that settle nothing keep both properties.
LEMMA UnsettlingStep ==
  ASSUME TypeOK, Final, RowsShowVerdict, PassedIsWhole, Unsettling
  PROVE  RowsShowVerdict' /\ PassedIsWhole'
  BY DEF TypeOK, Final, RowsShowVerdict, PassedIsWhole, Unsettling

\* Claims, admissions, resumes, failed claims and reconciliation settle nothing.
LEMMA UnsettlingSteps ==
  ASSUME TypeOK, NEW w \in Workers
  PROVE  /\ UNCHANGED verdicts => Unsettling
         /\ \A q \in Queue, t \in Fresh : ClaimNextQueueItem(w, q, t) => Unsettling
         /\ \A j \in Jobs : InsertJob(w, j) \/ ReuseJob(w, j) => Unsettling
         /\ \A t : CommitResume(w, t) => Unsettling
         /\ FailClaim(w) \/ NeedApproval(w) \/ AbandonQueueClaim(w) => Unsettling
         /\ Reconcile(w) => Unsettling
<1> USE DEF TypeOK, Settled, Unsettling
<1>1. UNCHANGED verdicts => Unsettling  BY DEF verdicts
<1>2. ASSUME NEW q \in Queue, NEW t \in Fresh, ClaimNextQueueItem(w, q, t)
      PROVE  Unsettling
  BY <1>2 DEF ClaimNextQueueItem, jobVars
<1>3. ASSUME NEW j \in Jobs, InsertJob(w, j) \/ ReuseJob(w, j)
      PROVE  Unsettling
  <2>1. /\ Admissible(w) /\ LinkTo(w, j)
        /\ UNCHANGED <<queueStatus, evaluation>>
    BY <1>3 DEF InsertJob, ReuseJob, jobVars
  <2>2. \A q \in Queue : q = wk[w].item => queueStatus[q] = "running"
    BY <2>1, NoneAssumption DEF Admissible, ClaimActive
  <2> QED  BY <2>1, <2>2 DEF LinkTo
<1>4. ASSUME NEW t, CommitResume(w, t)  PROVE Unsettling
  <2>1. CASE UNCHANGED <<jobVars, queueVars, pass>>
    BY <2>1 DEF jobVars, queueVars
  <2>2. CASE ~UNCHANGED <<jobVars, queueVars, pass>>
    <3>1. /\ UNCHANGED <<evaluation, queueJob>>
          /\ \E item : \/ UNCHANGED queueStatus
                       \/ queueStatus' = [queueStatus EXCEPT ![item] = "running"]
      BY <1>4, <2>2 DEF CommitResume
    <3> QED  BY <3>1
  <2> QED  BY <2>1, <2>2
<1>5. ASSUME NEW s \in {"failed", "needs_approval"}, EndClaim(w, s),
             UNCHANGED <<jobVars, queueJob>>
      PROVE  Unsettling
  BY <1>5 DEF EndClaim, jobVars
<1>6. Reconcile(w) => Unsettling  BY DEF Reconcile, jobVars
<1> QED
  BY <1>1, <1>2, <1>3, <1>4, <1>5, <1>6
  DEF FailClaim, NeedApproval, AbandonQueueClaim

\* A committed evaluation settles its rows as it judged, and judged what is
\* there: JudgesComplete.
LEMMA SettlingStep ==
  ASSUME TypeOK, Final, JudgesComplete, RowsShowVerdict, PassedIsWhole,
         NEW w \in Workers, CommitEvaluation(w)
  PROVE  RowsShowVerdict' /\ PassedIsWhole'
<1> USE DEF TypeOK
<1> DEFINE j == wk[w].job
           v == IF wk[w].verdict THEN "passed" ELSE "failed"
           s == IF wk[w].verdict THEN "complete" ELSE "quality_failed"
<1>1. CASE UNCHANGED <<evaluation, queueStatus, queueToken>>
  BY <1>1, UnsettlingStep DEF CommitEvaluation, Unsettling
<1>2. CASE ~UNCHANGED <<evaluation, queueStatus, queueToken>>
  <2>1. /\ StillCurrent(w) /\ UNCHANGED <<jobStatus, asg, queueJob>>
        /\ evaluation' = [evaluation EXCEPT ![j] = v]
        /\ queueStatus' = [q \in Queue |->
              IF q \notin SettledBy(w) THEN queueStatus[q] ELSE s]
    BY <1>2 DEF CommitEvaluation
  <2>2. /\ j \in Jobs /\ jobStatus[j] = "complete"
        /\ wk[w].verdict => Whole(j)
    BY DEF CommitEvaluation, At, JudgesComplete
  <2>3. \A q \in SettledBy(w) : queueJob[q] = j
    <3>1. \A q \in Queue : q = wk[w].item => queueJob[q] = j
      BY <2>1, NoneAssumption DEF StillCurrent
    <3> QED  BY <3>1 DEF SettledBy
  <2> HIDE DEF j
  <2>4. PassedIsWhole'
    BY <2>1, <2>2 DEF PassedIsWhole, Whole
  <2>5. ASSUME NEW q \in Queue, queueStatus'[q] \in Settled
        PROVE  /\ queueJob'[q] # None
               /\ jobStatus'[queueJob'[q]] = "complete"
               /\ evaluation'[queueJob'[q]] =
                    IF queueStatus'[q] = "complete" THEN "passed" ELSE "failed"
    <3>1. CASE q \in SettledBy(w)
      <4>1. queueJob'[q] = j /\ queueStatus'[q] = s  BY <2>1, <2>3, <3>1
      <4>2. j # None  BY <2>2, NoneAssumption
      <4> QED  BY <2>1, <2>2, <4>1, <4>2
    <3>2. CASE q \notin SettledBy(w)
      <4>1. queueStatus'[q] = queueStatus[q] /\ queueJob'[q] = queueJob[q]
        BY <2>1, <3>2
      <4>2. queueJob[q] # j  BY <2>5, <3>2, <4>1 DEF SettledBy, j
      <4>3. evaluation'[queueJob[q]] = evaluation[queueJob[q]]
        BY <2>1, <2>5, <4>1, <4>2 DEF RowsShowVerdict
      <4> QED  BY <2>1, <2>5, <4>1, <4>3 DEF RowsShowVerdict
    <3> QED  BY <3>1, <3>2
  <2> QED  BY <2>4, <2>5 DEF RowsShowVerdict
<1> QED  BY <1>1, <1>2

\* Both are invariants of every step.
LEMMA VerdictStep ==
  ASSUME TypeOK, Unleased, JudgesComplete, RowsShowVerdict, PassedIsWhole,
         [Next]_vars
  PROVE  RowsShowVerdict' /\ PassedIsWhole'
<1>f. Final  BY FinalStep
<1>1. Unsettling => RowsShowVerdict' /\ PassedIsWhole'
  BY <1>f, UnsettlingStep
<1>2. ASSUME NEW w \in Workers, Call(w)  PROVE Unsettling
  BY <1>2, VerdictFrame, UnsettlingSteps DEF Call
<1>3. ASSUME NEW w \in Workers, Work(w), ~CommitEvaluation(w)  PROVE Unsettling
  BY <1>3, VerdictFrame, UnsettlingSteps DEF Work
<1>4. ASSUME NEW w \in Workers, Heartbeat(w) \/ Disturb(w)  PROVE Unsettling
  BY <1>4, VerdictFrame, UnsettlingSteps DEF Disturb
<1>5. ASSUME \/ \E q \in Queue : Command(q)
             \/ \E q \in Queue : ClaimAges(q)
             \/ \E j \in Jobs : JobAges(j) \/ EvidenceChanges(j)
             \/ UNCHANGED vars
      PROVE  Unsettling
  <2> USE DEF Unsettling, Settled, jobVars, queueVars, vars
  <2>1. ASSUME NEW q \in Queue, Command(q)  PROVE Unsettling
    <3> USE DEF TypeOK
    <3>1. CASE Enqueue(q)  BY <3>1 DEF Enqueue
    <3>2. CASE CancelQueueItem(q)  BY <3>2 DEF CancelQueueItem
    <3>3. CASE ParkQueueItem(q)  BY <3>3 DEF ParkQueueItem
    <3>4. CASE UnparkQueueItem(q)  BY <3>4 DEF UnparkQueueItem
    <3>5. CASE ResetQueueItem(q)  BY <3>5 DEF ResetQueueItem
    <3>6. ASSUME NEW s \in Jobs, SupersedeQualityFailure(q, s)  PROVE Unsettling
      BY <3>6 DEF SupersedeQualityFailure
    <3> QED  BY <2>1, <3>1, <3>2, <3>3, <3>4, <3>5, <3>6 DEF Command
  <2> QED  BY <1>5, <2>1 DEF ClaimAges, JobAges, EvidenceChanges
<1>6. ASSUME NEW w \in Workers, CommitEvaluation(w)
      PROVE  RowsShowVerdict' /\ PassedIsWhole'
  BY <1>f, <1>6, SettlingStep
<1> QED
  BY <1>1, <1>2, <1>3, <1>4, <1>5, <1>6 DEF Next, Normal, Fault

\* What the empty tables satisfy.
LEMMA VerdictInit ==
  Init => Unleased /\ JudgesComplete /\ RowsShowVerdict /\ PassedIsWhole
  BY DEF Init, Unleased, JudgesComplete, RowsShowVerdict, PassedIsWhole, Idle,
         NoPass, At, Settled

\* The queue shows the evaluator's verdict, however evaluations, reuse and
\* recovery interleave (RowsShowVerdict).
THEOREM RowsAlwaysShowVerdict == Spec => []RowsShowVerdict
  BY VerdictInit, VerdictStep, JudgesStep, UnleasedStep, TypeCorrect, PTL
  DEF Spec

\* A mission that passes has all its assignments (PassedIsWhole), although the
\* evaluator reads them in an earlier transaction than the one it commits in.
THEOREM PassedIsAlwaysWhole == Spec => []PassedIsWhole
  BY VerdictInit, VerdictStep, JudgesStep, UnleasedStep, TypeCorrect, PTL
  DEF Spec

----------------------------------------------------------------------------
\* The queue is the one QueueLifecycle promises

\* The operator's commands, each as the abstract command of its kind.
LEMMA CommandRefines ==
  ASSUME TypeOK, NEW q \in Queue, Command(q)
  PROVE  QL!Next
<1> USE DEF QL!Next, QL!Move
<1>1. CASE Enqueue(q)
  <2>1. queueStatus' = [p \in Queue |-> IF p \in {q} THEN "queued" ELSE queueStatus[p]]
    BY <1>1 DEF Enqueue, TypeOK
  <2>2. QL!Submit({q})  BY <1>1, <2>1 DEF Enqueue, QL!Submit
  <2> QED  BY <2>2
<1>2. CASE CancelQueueItem(q)  BY <1>2 DEF CancelQueueItem, QL!Withdraw
<1>3. CASE ParkQueueItem(q)  BY <1>3 DEF ParkQueueItem, QL!Park
<1>4. CASE UnparkQueueItem(q)  BY <1>4 DEF UnparkQueueItem, QL!Unpark
<1>5. CASE ResetQueueItem(q)  BY <1>5 DEF ResetQueueItem, QL!Reset
<1>6. ASSUME NEW s \in Jobs, SupersedeQualityFailure(q, s)  PROVE QL!Next
  BY <1>6 DEF SupersedeQualityFailure, QL!Supersede
<1> QED  BY <1>1, <1>2, <1>3, <1>4, <1>5, <1>6 DEF Command

\* A row starts only when none runs.
LEMMA StartRefines ==
  ASSUME TypeOK, NEW w \in Workers
  PROVE  /\ \A q \in Queue, t \in Fresh : ClaimNextQueueItem(w, q, t) => QL!Next
         /\ \A t : CommitResume(w, t) => QL!Next \/ UNCHANGED queueStatus
<1> USE DEF QL!Next, QL!Move, QL!Start, QL!Executing, RunningItems
<1>1. ASSUME NEW q \in Queue, NEW t \in Fresh, ClaimNextQueueItem(w, q, t)
      PROVE  QL!Next
  BY <1>1 DEF ClaimNextQueueItem
<1>2. ASSUME NEW t, CommitResume(w, t), ~UNCHANGED queueStatus
      PROVE  QL!Next
  <2>1. PICK item \in Queue \cup {None} :
          /\ IF Relinkable(wk[w].job) = {} THEN item = None
                                           ELSE item \in Relinkable(wk[w].job)
          /\ item # None => queueStatus' = [queueStatus EXCEPT ![item] = "running"]
          /\ item = None => UNCHANGED queueStatus
          /\ RunningItems = {}
    BY <1>2 DEF CommitResume, queueVars
  <2>2. item \in Queue /\ queueStatus[item] = "failed"
    BY <1>2, <2>1 DEF Relinkable
  <2> QED  BY <2>1, <2>2, NoneAssumption
<1> QED  BY <1>1, <1>2

\* A claim that ends without a verdict gives up running rows; an evaluation
\* settles a running row, if it holds one, and re-settles settled ones.
LEMMA EndRefines ==
  ASSUME TypeOK, NEW w \in Workers
  PROVE  /\ FailClaim(w) => QL!Next \/ UNCHANGED queueStatus
         /\ NeedApproval(w) => QL!Next \/ UNCHANGED queueStatus
         /\ AbandonQueueClaim(w) => QL!Next \/ UNCHANGED queueStatus
         /\ Reconcile(w) => QL!Next
         /\ CommitEvaluation(w) => QL!Next \/ UNCHANGED queueStatus
<1> USE DEF TypeOK
<1>1. ASSUME NEW s \in {"failed", "needs_approval"}, EndClaim(w, s),
             ~UNCHANGED queueStatus
      PROVE  QL!Next
  <2> DEFINE S == {wk[w].item}
  <2>1. /\ ClaimActive(w)
        /\ queueStatus' = [queueStatus EXCEPT ![wk[w].item] = s]
    BY <1>1 DEF EndClaim
  <2>2. wk[w].item \in Queue  BY <2>1 DEF ClaimActive, Worker
  <2>3. QL!GiveUp(S, s)
    BY <2>1, <2>2 DEF QL!GiveUp, QL!Executing, ClaimActive
  <2> QED  BY <2>2, <2>3 DEF QL!Next
<1>2. ASSUME Reconcile(w)  PROVE QL!Next
  <2>1. PICK S \in SUBSET RunningItems :
          queueStatus' = [q \in Queue |-> IF q \in S THEN "failed"
                                                     ELSE queueStatus[q]]
    BY <1>2 DEF Reconcile
  <2>2. QL!GiveUp(S, "failed")
    BY <2>1 DEF QL!GiveUp, QL!Executing, RunningItems
  <2>3. S \in SUBSET Queue  BY DEF RunningItems
  <2> QED  BY <2>2, <2>3 DEF QL!Next
<1>3. ASSUME CommitEvaluation(w), ~UNCHANGED queueStatus
      PROVE  QL!Next
  <2> DEFINE s == IF wk[w].verdict THEN "complete" ELSE "quality_failed"
  <2>1. /\ StillCurrent(w)
        /\ queueStatus' = [q \in Queue |->
              IF q \notin SettledBy(w) THEN queueStatus[q] ELSE s]
    BY <1>3 DEF CommitEvaluation
  <2>2. \A q \in SettledBy(w) :
          queueStatus[q] \in QL!Settled \cup {"running"}
    BY <2>1, NoneAssumption
    DEF SettledBy, StillCurrent, ClaimActive, Settled, QL!Settled
  <2>3. s \in QL!Settled  BY DEF QL!Settled
  <2>4. queueStatus' = [q \in Queue |->
          IF q \in SettledBy(w) THEN s ELSE queueStatus[q]]
    BY <2>1
  <2> HIDE DEF s
  <2>5. QL!Settle(SettledBy(w), s)  BY <2>2, <2>3, <2>4 DEF QL!Settle
  <2>6. SettledBy(w) \in SUBSET Queue  BY DEF SettledBy
  <2> QED  BY <2>3, <2>5, <2>6 DEF QL!Next
<1> QED  BY <1>1, <1>2, <1>3 DEF FailClaim, NeedApproval, AbandonQueueClaim

\* Every step of the workers, the operator and recovery is a step of the queue
\* that QueueLifecycle promises, or does not touch it (ImplementsQueueLifecycle).
THEOREM QueueRefinesLifecycle == Spec => ImplementsQueueLifecycle
<1>1. Init => QL!Init  BY DEF Init, QL!Init
<1>2. ASSUME TypeOK, [Next]_vars  PROVE QL!Next \/ UNCHANGED queueStatus
  <2>1. ASSUME NEW w \in Workers, Call(w)
        PROVE  QL!Next \/ UNCHANGED queueStatus
    BY <1>2, <2>1, VerdictFrame, StartRefines DEF Call, verdicts
  <2>2. ASSUME NEW w \in Workers, Work(w)
        PROVE  QL!Next \/ UNCHANGED queueStatus
    <3>1. \A j \in Jobs : InsertJob(w, j) \/ ReuseJob(w, j) => UNCHANGED queueStatus
      BY DEF InsertJob, ReuseJob
    <3> QED
      BY <1>2, <2>2, <3>1, VerdictFrame, StartRefines, EndRefines
      DEF Work, verdicts
  <2>3. ASSUME NEW w \in Workers, Heartbeat(w) \/ Disturb(w)
        PROVE  QL!Next \/ UNCHANGED queueStatus
    BY <1>2, <2>3, VerdictFrame, EndRefines DEF Disturb, verdicts
  <2>4. CASE \/ \E q \in Queue : ClaimAges(q)
             \/ \E j \in Jobs : JobAges(j) \/ EvidenceChanges(j)
             \/ UNCHANGED vars
    BY <2>4 DEF ClaimAges, JobAges, EvidenceChanges, vars, queueVars
  <2> QED
    BY <1>2, <2>1, <2>2, <2>3, <2>4, CommandRefines DEF Next, Normal, Fault
<1>3. TypeOK /\ [Next]_vars => [QL!Next]_queueStatus  BY <1>2
<1> QED
  BY <1>1, <1>3, TypeCorrect, PTL DEF Spec, ImplementsQueueLifecycle, QL!Spec
=============================================================================
