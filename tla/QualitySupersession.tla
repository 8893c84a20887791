------------------------ MODULE QualitySupersession ------------------------
(***************************************************************************)
(* How a quality-failed queue row is retired (core.py, 5351-5574 and       *)
(* 6894-7740): a retry of its job that passes today is found, rechecked on *)
(* a clone of the store, and proved once more inside the transaction that  *)
(* retires the row; retired rows are reviewed later with two previews.     *)
(* The report and the source files lie outside of the database and are     *)
(* edited by other programs between any two reads.  Nothing reverts an     *)
(* edit byte for byte.                                                     *)
(***************************************************************************)
EXTENDS Integers, Nothing

CONSTANTS Jobs,
          Reviewers,      \* commands at work
          FirstJob,       \* the job whose failure the queue row records
          MaxEvaluations, \* bound: rows of evaluation_history
          MaxSource       \* bound: edits of the source file

ASSUME QualityAssumption == /\ None \notin Jobs /\ FirstJob \in Jobs
                            /\ MaxEvaluations \in Nat \ {0} /\ MaxSource \in Nat

VARIABLES store,   \* the database: jobs, latest evaluations, queue row, knowledge
          edited,  \* reports that are no longer the sealed bytes
          source,  \* the content of the source file
          reviewer \* what each command is doing

qualityVars == <<store, edited, source, reviewer>>

(* A job quotes the source as it was indexed then; its text is good or not. *)
NoJob == [made |-> FALSE, parent |-> None, quoted |-> 0, good |-> FALSE]
NewJob(parent, quoted, good) == [made |-> TRUE, parent |-> parent, quoted |-> quoted, good |-> good]

NotEvaluated == [id |-> 0, passed |-> FALSE]

RowStatuses == {"quality_failed", "complete", "queued", "superseded"}

ReviewerSteps == {"idle", "evaluate", "preview", "begin", "transaction", "verified"}

ReviewerAtRest == [step |-> "idle", job |-> None, seen |-> 0, report |-> FALSE, source |-> 0,
                   store |-> None, purpose |-> "evaluate", sound |-> FALSE]

QualityTypeOK ==
    /\ store.jobs \in [Jobs -> [made : BOOLEAN, parent : Jobs \cup {None}, quoted : 0..MaxSource,
                                good : BOOLEAN]]
    /\ store.latest \in [Jobs -> [id : 0..MaxEvaluations, passed : BOOLEAN]]
    /\ store.count \in 0..MaxEvaluations
    /\ store.row \in [status : RowStatuses, job : Jobs \cup {None}]
    /\ store.indexed \in 0..source
    /\ edited \subseteq Jobs
    /\ source \in 0..MaxSource
    /\ \A c \in Reviewers : reviewer[c].step \in ReviewerSteps /\ reviewer[c].seen \in 0..6

QualityInit ==
    /\ store = [jobs    |-> [j \in Jobs |-> IF j = FirstJob THEN NewJob(None, 0, FALSE) ELSE NoJob],
                latest  |-> [j \in Jobs |-> IF j = FirstJob THEN [id |-> 1, passed |-> FALSE]
                                                            ELSE NotEvaluated],
                count   |-> 1,
                row     |-> [status |-> "quality_failed", job |-> FirstJob],
                indexed |-> 0]
    /\ edited = {}
    /\ source = 0
    /\ reviewer = [c \in Reviewers |-> ReviewerAtRest]

(* The job and the jobs it was retried from. *)
Lineage(j) ==
    LET parentOf(k) == store.jobs[k].parent
        up1 == IF j = None THEN None ELSE parentOf(j)
        up2 == IF up1 = None THEN None ELSE parentOf(up1)
    IN  {up1, up2} \ {None}

StoredPass(j) == store.latest[j].passed

(* A retry of the failed job, at any depth, that last passed. *)
Candidate(j) == store.row.job \in Lineage(j) /\ StoredPass(j)

(* The manifest quotes what is indexed, and the disk is what is indexed. *)
ManifestValid(j, disk) == store.jobs[j].quoted = store.indexed /\ disk = store.indexed

Sound(j) == j \notin edited /\ ManifestValid(j, source)

StoreUnlocked(c) == \A d \in Reviewers \ {c} : reviewer[d].step # "transaction"

--------------------------------------------------------------------------
(* Other programs, and commands that are modelled elsewhere. *)

EditJobReport(j) == /\ store.jobs[j].made /\ j \notin edited
                    /\ edited' = edited \cup {j}
                    /\ UNCHANGED <<store, source, reviewer>>

EditSource == /\ source < MaxSource
              /\ source' = source + 1
              /\ UNCHANGED <<store, edited, reviewer>>

NobodyWrites == \A d \in Reviewers : reviewer[d].step # "transaction"

RefreshSource == /\ NobodyWrites /\ store.indexed # source
                 /\ store' = [store EXCEPT !.indexed = source]
                 /\ UNCHANGED <<edited, source, reviewer>>

(* retry: the same objective once more, from current knowledge. *)
Retry(parent, j, good) ==
    /\ NobodyWrites /\ store.indexed = source
    /\ store.jobs[parent].made /\ ~store.jobs[j].made
    /\ store' = [store EXCEPT !.jobs[j] = NewJob(parent, store.indexed, good)]
    /\ UNCHANGED <<edited, source, reviewer>>

(* queue-reset, whose next run fails the gate again with a job of its own. *)
ResetFailedRow == /\ NobodyWrites /\ store.row.status \in {"quality_failed", "superseded"}
                  /\ store' = [store EXCEPT !.row = [status |-> "queued", job |-> None]]
                  /\ UNCHANGED <<edited, source, reviewer>>

FailAgain(j) ==
    /\ NobodyWrites /\ store.row.status = "queued" /\ ~store.jobs[j].made
    /\ store.count < MaxEvaluations /\ store.indexed = source
    /\ store' = [store EXCEPT !.jobs[j] = NewJob(None, store.indexed, FALSE),
                              !.latest[j] = [id |-> store.count + 1, passed |-> FALSE],
                              !.count = @ + 1,
                              !.row = [status |-> "quality_failed", job |-> j]]
    /\ UNCHANGED <<edited, source, reviewer>>

--------------------------------------------------------------------------
(* One read of a file.  Reads 1 and 2 are the fingerprint before, 3 and 4 the
   evaluation or validation, 5 and 6 the fingerprint after; odd ones read the
   report and even ones the source. *)

(* Mutant: the fingerprint is not taken again. *)
AfterIgnored(c) == TRUE

(* What the fingerprint after finds is what the one before found. *)
AfterMatches(c) ==
    LET r == reviewer[c] IN CASE r.seen = 4 -> r.report = (r.job \in edited)
                              [] r.seen = 5 -> r.source = source
                              [] OTHER -> TRUE

ReadFile(c) ==
    LET r == reviewer[c] IN
    /\ r.step \in {"preview", "transaction"} /\ r.seen < 6
    /\ r.seen = 2 => r.job \notin edited
    /\ r.seen = 3 => ManifestValid(r.job, source)
    /\ AfterMatches(c)
    /\ reviewer' = [reviewer EXCEPT ![c] =
           [r EXCEPT !.seen = @ + 1,
                     !.report = IF r.seen = 0 THEN r.job \in edited ELSE @,
                     !.source = IF r.seen = 1 THEN source ELSE @,
                     !.sound = IF r.seen = 3 THEN Sound(r.job) ELSE @]]
    /\ UNCHANGED <<store, edited, source>>

(* evaluate reads the report and the source once each. *)
BeginEvaluation(c, j) ==
    /\ reviewer[c].step = "idle" /\ store.jobs[j].made
    /\ reviewer' = [reviewer EXCEPT ![c] = [ReviewerAtRest EXCEPT !.step = "evaluate", !.job = j,
                                               !.seen = 3, !.report = j \in edited]]
    /\ UNCHANGED <<store, edited, source>>

ReadForEvaluation(c) ==
    LET r == reviewer[c] IN
    /\ r.step = "evaluate" /\ r.seen = 3
    /\ reviewer' = [reviewer EXCEPT ![c].seen = 4, ![c].sound = ManifestValid(r.job, source)]
    /\ UNCHANGED <<store, edited, source>>

(* ... and commits what it found then: nothing is read again. *)
CommitEvaluation(c) ==
    LET r == reviewer[c]
        passed == store.jobs[r.job].good /\ ~r.report /\ r.sound
        settles == store.row.job = r.job /\ store.row.status \in {"complete", "quality_failed"}
    IN  /\ r.step = "evaluate" /\ r.seen = 4 /\ StoreUnlocked(c)
        /\ store.count < MaxEvaluations
        /\ store' = [store EXCEPT
               !.latest[r.job] = [id |-> store.count + 1, passed |-> passed],
               !.count = @ + 1,
               !.row.status = IF settles THEN IF passed THEN "complete" ELSE "quality_failed" ELSE @]
        /\ reviewer' = [reviewer EXCEPT ![c] = ReviewerAtRest]
        /\ UNCHANGED <<edited, source>>

--------------------------------------------------------------------------
(* quality-supersession-preview: the store is digested before and after. *)

BeginPreview(c, j, purpose) ==
    /\ reviewer[c].step = "idle"
    /\ store.row.status = IF purpose = "retire" THEN "quality_failed" ELSE "superseded"
    /\ Candidate(j)
    /\ reviewer' = [reviewer EXCEPT ![c] = [ReviewerAtRest EXCEPT !.step = "preview", !.job = j,
                                                        !.store = store, !.purpose = purpose]]
    /\ UNCHANGED <<store, edited, source>>

Previewed(c) == /\ reviewer[c].step = "preview" /\ reviewer[c].seen = 6
                /\ reviewer[c].store = store

(* The summary of retired rows is made twice before it is believed. *)
PreviewAgain(c) ==
    /\ Previewed(c) /\ reviewer[c].purpose = "review"
    /\ reviewer' = [reviewer EXCEPT ![c].seen = 0, ![c].purpose = "second review"]
    /\ UNCHANGED <<store, edited, source>>

VerifyRetirement(c) ==
    /\ Previewed(c) /\ reviewer[c].purpose = "second review"
    /\ reviewer' = [reviewer EXCEPT ![c].step = "verified"]
    /\ UNCHANGED <<store, edited, source>>

(* Mutant: the proof of the preview is taken as it is. *)
ProofTrusted(c) == TRUE

(* The proof names the same lineage and the same passing history row. *)
ProofUnchanged(c) ==
    LET r == reviewer[c] IN
    /\ store.row = r.store.row /\ Candidate(r.job)
    /\ store.latest[r.job] = r.store.latest[r.job]

OpenSupersession(c) ==
    /\ Previewed(c) /\ reviewer[c].purpose = "retire"
    /\ reviewer' = [reviewer EXCEPT ![c].step = "begin"]
    /\ UNCHANGED <<store, edited, source>>

Prove(c) ==
    /\ reviewer[c].step = "begin" /\ StoreUnlocked(c)
    /\ ProofUnchanged(c)
    /\ reviewer' = [reviewer EXCEPT ![c].step = "transaction", ![c].seen = 0]
    /\ UNCHANGED <<store, edited, source>>

Supersede(c) ==
    /\ reviewer[c].step = "transaction" /\ reviewer[c].seen = 6
    /\ store.row.status = "quality_failed"
    /\ store' = [store EXCEPT !.row.status = "superseded"]
    /\ reviewer' = [reviewer EXCEPT ![c] = ReviewerAtRest]
    /\ UNCHANGED <<edited, source>>

(* A command refuses, fails or ends. *)
RefuseReviewer(c) == /\ reviewer[c].step # "idle"
                     /\ reviewer' = [reviewer EXCEPT ![c] = ReviewerAtRest]
                     /\ UNCHANGED <<store, edited, source>>

QualityNext ==
    \/ EditSource \/ RefreshSource \/ ResetFailedRow
    \/ \E j \in Jobs : \/ EditJobReport(j) \/ FailAgain(j)
                       \/ \E k \in Jobs, good \in BOOLEAN : Retry(j, k, good)
    \/ \E c \in Reviewers :
         \/ ReadFile(c) \/ ReadForEvaluation(c) \/ CommitEvaluation(c) \/ PreviewAgain(c)
         \/ VerifyRetirement(c) \/ OpenSupersession(c) \/ Prove(c) \/ Supersede(c) \/ RefuseReviewer(c)
         \/ \E j \in Jobs : \/ BeginEvaluation(c, j)
                            \/ \E purpose \in {"retire", "review"} : BeginPreview(c, j, purpose)

QualitySpec == QualityInit /\ [][QualityNext]_qualityVars

--------------------------------------------------------------------------
(* A failure is retired, and a retirement is called verified, only for a retry
   of the failed job whose last evaluation passes at that moment and whose
   report and sources were all as evaluated at one instant of the observation
   (a pass in the store may be older than an edit of what it judged). *)
RetiresTheProven ==
    \A c \in Reviewers :
       (\/ reviewer[c].step = "transaction" /\ store'.row.status = "superseded"
                                            /\ store.row.status # "superseded"
        \/ reviewer'[c].step = "verified" /\ reviewer[c].step # "verified") =>
          Candidate(reviewer[c].job) /\ reviewer[c].sound

RetirementIsProven == [][RetiresTheProven]_qualityVars

===========================================================================
