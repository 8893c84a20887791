-------------------------- MODULE ProductEvidence --------------------------
(***************************************************************************)
(* Product evidence (run_scheduled_cycle.py, local_ai.py 649-890 and       *)
(* 1227-1693, mcp_server.py 346-855, core.py 8961-9440).  A scheduled tick *)
(* runs one cycle of the queue and, when nothing is due and no receipt     *)
(* waits, one measured experiment.  An accepted receipt waits in the inbox *)
(* until a person reviews it; the review goes to the database, the receipt *)
(* to the archive.  Completed missions are reviewed in the same ledger.    *)
(* Commands are killed between any two steps.                              *)
(***************************************************************************)
EXTENDS Integers, Sequences, FiniteSets, Nothing

CONSTANTS Receipts,  \* receipts a run can return, by content
          Failed,    \* those that failed their checks
          Missions,  \* completed missions
          Commands,  \* commands at work
          Target,    \* PRODUCT_EVIDENCE_MISSION_TARGET
          MaxDue,    \* bound: missions due at the start
          MaxReviews \* bound: rows of the two review tables

ASSUME EvidenceAssumption == /\ None \notin Receipts /\ Failed \subseteq Receipts
                             /\ MaxDue \in Nat /\ MaxReviews \in Nat

VARIABLES due,      \* due missions in the queue
          passes,   \* does the latest evaluation of the mission pass?
          broken,   \* missions whose report is not the sealed one any more
          inbox,    \* pending-product-experiments
          archive,  \* reviewed-product-experiments
          kept,     \* product-experiment-receipts
          ledger,   \* the rows of both review tables, in order
          accepted, \* receipts the inbox ever took (history)
          command   \* what each command is doing

missionVars == <<due, passes, broken>>
inboxVars == <<inbox, archive, accepted>>
evidenceVars == <<missionVars, inboxVars, kept, ledger, command>>

Decisions == {"accepted", "rejected"}

NoWork == [missions |-> 0, runs |-> 0, trims |-> 0]

CommandAtRest == [step |-> "idle", work |-> NoWork, scheduled |-> FALSE, about |-> None,
                  receipt |-> None, pending |-> FALSE, created |-> FALSE]

CommandSteps == {"idle", "cycle", "recover", "retry", "look", "experiment", "invoke again",
                 "journal", "receipt", "record", "archive", "shown", "rechecked"}

(* A review without an experiment ID is given a new one. *)
NewIds == 1..MaxReviews

Row == [about : Receipts \cup Missions \cup NewIds, receipt : Receipts \cup {None},
        decision : Decisions, passed : BOOLEAN]

EvidenceTypeOK ==
    /\ due \in 0..MaxDue
    /\ passes \in [Missions -> BOOLEAN] /\ broken \subseteq Missions
    /\ inbox \subseteq Receipts \ Failed /\ archive \subseteq Receipts
    /\ kept \subseteq Receipts /\ accepted \subseteq Receipts
    /\ Len(ledger) <= MaxReviews /\ \A i \in DOMAIN ledger : ledger[i] \in Row
    /\ \A c \in Commands : command[c].step \in CommandSteps

EvidenceInit == /\ due \in 0..MaxDue
                /\ passes \in [Missions -> BOOLEAN] /\ broken = {}
                /\ inbox = {} /\ archive = {} /\ kept = {} /\ accepted = {}
                /\ ledger = <<>>
                /\ command = [c \in Commands |-> CommandAtRest]

Rows == {ledger[i] : i \in DOMAIN ledger}

Reviewed == {row.receipt : row \in Rows} \ {None}

(* The latest row about each mission and experiment. *)
Latest == {ledger[i] : i \in {i \in DOMAIN ledger :
              \A k \in DOMAIN ledger : ledger[k].about = ledger[i].about => k <= i}}

(* A review of a mission is stale when its evaluation or its report changed.
   The code compares score and evaluator; here their outcome stands for them. *)
Current(row) == row.about \in Missions => /\ row.passed = passes[row.about]
                                          /\ row.about \notin broken

Counted == {row \in Latest : Current(row)}

MilestoneReached == Cardinality(Counted) >= Target

BeginCommand(c, state) == /\ command[c].step = "idle"
                          /\ command' = [command EXCEPT ![c] = state]

CommandGoes(c, step) == command' = [command EXCEPT ![c].step = step]

CommandEnds(c) == command' = [command EXCEPT ![c] = CommandAtRest]

Worked(c, field, step) == command' = [command EXCEPT ![c].step = step, ![c].work[field] = @ + 1]

EvidenceFiles == <<inboxVars, kept, ledger>>

--------------------------------------------------------------------------
(* The scheduled tick; Windows ignores a trigger while one runs. *)

StartTick(c) == /\ \A d \in Commands : ~command[d].scheduled
                /\ BeginCommand(c, [CommandAtRest EXCEPT !.step = "cycle", !.scheduled = TRUE])
                /\ UNCHANGED <<missionVars, EvidenceFiles>>

(* One due mission runs, passes or not, or fails on the way. *)
RunMission(c) == /\ command[c].step \in {"cycle", "retry"}
                 /\ due > 0
                 /\ due' = due - 1
                 /\ Worked(c, "missions", "journal")
                 /\ UNCHANGED <<passes, broken, EvidenceFiles>>

(* A gate, an invalid receipt or a timeout: nothing ran that is known of. *)
CycleStops(c) == /\ command[c].step \in {"cycle", "retry"}
                 /\ CommandGoes(c, "journal")
                 /\ UNCHANGED <<missionVars, EvidenceFiles>>

(* Only the first cycle of a tick is tried again, and only when memory was
   short before anything ran. *)
MemoryShort(c) == /\ command[c].step = "cycle"
                  /\ due > 0
                  /\ CommandGoes(c, "recover")
                  /\ UNCHANGED <<missionVars, EvidenceFiles>>

RecoverMemory(c) == /\ command[c].step = "recover"
                    /\ \/ Worked(c, "trims", "retry")
                       \/ CommandGoes(c, "journal")
                    /\ UNCHANGED <<missionVars, EvidenceFiles>>

NoDueMission(c) == command[c].step \in {"cycle", "retry"} /\ due = 0

NothingDue(c) == /\ NoDueMission(c)
                 /\ CommandGoes(c, "look")
                 /\ UNCHANGED <<missionVars, EvidenceFiles>>

LookIntoInbox(c) == /\ command[c].step = "look"
                    /\ CommandGoes(c, IF inbox = {} THEN "experiment" ELSE "journal")
                    /\ UNCHANGED <<missionVars, EvidenceFiles>>

--------------------------------------------------------------------------
(* experiment-run, by the tick or by hand. *)

StartExperiment(c) == /\ BeginCommand(c, [CommandAtRest EXCEPT !.step = "experiment"])
                      /\ UNCHANGED <<missionVars, EvidenceFiles>>

Invokes(c) == command[c].step \in {"experiment", "invoke again"} /\ ~MilestoneReached

(* The runner answers with a receipt that nobody has seen: an accepted one is
   stored in the inbox. *)
RunExperiment(c, r) ==
    /\ Invokes(c)
    /\ r \notin accepted \cup kept
    /\ Worked(c, "runs", "journal")
    /\ inbox' = IF r \in Failed THEN inbox ELSE inbox \cup {r}
    /\ accepted' = IF r \in Failed THEN accepted ELSE accepted \cup {r}
    /\ UNCHANGED <<missionVars, archive, kept, ledger>>

(* No memory before the model was called: trim once and ask once more, unless
   the tick has trimmed already. *)
TrimAndInvokeAgain(c) ==
    /\ Invokes(c) /\ command[c].step = "experiment"
    /\ command[c].work.trims = 0
    /\ Worked(c, "trims", "invoke again")
    /\ UNCHANGED <<missionVars, EvidenceFiles>>

ExperimentStops(c) == /\ command[c].step \in {"experiment", "invoke again"}
                      /\ CommandGoes(c, "journal")
                      /\ UNCHANGED <<missionVars, EvidenceFiles>>

WriteJournal(c) == /\ command[c].step = "journal"
                   /\ CommandEnds(c)
                   /\ UNCHANGED <<missionVars, EvidenceFiles>>

--------------------------------------------------------------------------
(* experiment-review of an inbox item, or of an archived one once more. *)

BeginReview(c, r) ==
    /\ r \in inbox \cup archive
    /\ BeginCommand(c, [CommandAtRest EXCEPT !.step = "receipt", !.about = r, !.receipt = r,
                               !.pending = r \in inbox])
    /\ UNCHANGED <<missionVars, EvidenceFiles>>

(* product_experiment_review of any valid receipt over MCP, with no ID. *)
BeginDirectReview(c, r) ==
    /\ r \in accepted \cup Failed
    /\ BeginCommand(c, [CommandAtRest EXCEPT !.step = "receipt", !.receipt = r])
    /\ UNCHANGED <<missionVars, EvidenceFiles>>

KeepReceipt(c) ==
    LET r == command[c].receipt IN
    /\ command[c].step = "receipt"
    /\ kept' = kept \cup {r}
    /\ command' = [command EXCEPT ![c].step = "record", ![c].created = r \notin kept]
    /\ UNCHANGED <<missionVars, inboxVars, ledger>>

Append1(about, r, decision, passed) ==
    /\ Len(ledger) < MaxReviews
    /\ ledger' = Append(ledger, [about |-> about, receipt |-> r, decision |-> decision,
                                 passed |-> passed])

RecordReview(c, decision) ==
    LET r == command[c].receipt IN
    /\ command[c].step = "record"
    /\ decision = "accepted" => r \notin Failed
    /\ Append1(IF command[c].about = None THEN Len(ledger) + 1 ELSE command[c].about,
               r, decision, r \notin Failed)
    /\ IF command[c].pending THEN CommandGoes(c, "archive") ELSE CommandEnds(c)
    /\ UNCHANGED <<missionVars, inboxVars, kept>>

(* A refused review takes back the receipt file that it created. *)
RefuseRecord(c) ==
    /\ command[c].step = "record"
    /\ kept' = IF command[c].created THEN kept \ {command[c].receipt} ELSE kept
    /\ CommandEnds(c)
    /\ UNCHANGED <<missionVars, inboxVars, ledger>>

(* Mutant: the receipt is moved before its review is recorded. *)
BeforeRecord(c) == command[c].step \in {"record", "archive"} /\ command[c].pending

Archivable(c) == command[c].step = "archive"

(* The file is moved; when someone else moved it the command fails here. *)
Archive(c) ==
    LET r == command[c].receipt IN
    /\ Archivable(c)
    /\ r \in inbox
    /\ inbox' = inbox \ {r}
    /\ archive' = archive \cup {r}
    /\ CommandEnds(c)
    /\ UNCHANGED <<missionVars, kept, ledger, accepted>>

--------------------------------------------------------------------------
(* mission-review: a person judges what is shown while it may change. *)

Reevaluate(m) == /\ passes' = [passes EXCEPT ![m] = ~@]
                 /\ UNCHANGED <<due, broken, EvidenceFiles, command>>

EditReport(m) == /\ broken' = broken \cup {m}
                 /\ UNCHANGED <<due, passes, EvidenceFiles, command>>

Reviewable(m) == m \notin broken /\ \A row \in Counted : row.about # m

ShowMission(c, m) == /\ Reviewable(m)
                     /\ BeginCommand(c, [CommandAtRest EXCEPT !.step = "shown", !.about = m])
                     /\ UNCHANGED <<missionVars, EvidenceFiles>>

RecheckMission(c) == /\ command[c].step = "shown"
                     /\ Reviewable(command[c].about)
                     /\ CommandGoes(c, "rechecked")
                     /\ UNCHANGED <<missionVars, EvidenceFiles>>

(* Mutant: the verdict that was shown is not asked for again. *)
Intact(m, decision) == m \notin broken

(* One transaction reads the verdict, the seal and the file, and appends. *)
MayRecord(m, decision) == m \notin broken /\ (decision = "accepted" => passes[m])

RecordMission(c, decision) ==
    LET m == command[c].about IN
    /\ command[c].step = "rechecked"
    /\ MayRecord(m, decision)
    /\ Append1(m, None, decision, passes[m])
    /\ CommandEnds(c)
    /\ UNCHANGED <<missionVars, inboxVars, kept>>

CommandDies(c) == /\ command[c].step # "idle"
                  /\ CommandEnds(c)
                  /\ UNCHANGED <<missionVars, EvidenceFiles>>

EvidenceNext ==
    \/ \E m \in Missions : Reevaluate(m) \/ EditReport(m)
    \/ \E c \in Commands :
         \/ StartTick(c) \/ RunMission(c) \/ CycleStops(c) \/ MemoryShort(c) \/ RecoverMemory(c)
         \/ NothingDue(c) \/ LookIntoInbox(c) \/ StartExperiment(c) \/ TrimAndInvokeAgain(c)
         \/ ExperimentStops(c) \/ WriteJournal(c) \/ KeepReceipt(c) \/ RefuseRecord(c)
         \/ Archive(c) \/ RecheckMission(c) \/ CommandDies(c)
         \/ \E r \in Receipts : RunExperiment(c, r) \/ BeginReview(c, r) \/ BeginDirectReview(c, r)
         \/ \E m \in Missions : ShowMission(c, m)
         \/ \E decision \in Decisions : RecordReview(c, decision) \/ RecordMission(c, decision)

EvidenceSpec == EvidenceInit /\ [][EvidenceNext]_evidenceVars

--------------------------------------------------------------------------
(* A measured result is not lost and not closed without a judgment: every
   receipt the inbox took is still in it, or archived with a recorded review,
   whatever two reviewers and a crash between database and files do. *)
ReviewsAreKept == /\ accepted \subseteq inbox \cup archive
                  /\ archive \subseteq Reviewed

(* What counts as an accepted result passes now: the check when a judgment is
   recorded and the check for staleness when it is counted fit together, though
   missions are evaluated anew and reports edited before, between and after. *)
AcceptedResultsPass ==
    \A row \in Counted : row.decision = "accepted" =>
        IF row.about \in Missions THEN passes[row.about] /\ row.about \notin broken
                                  ELSE row.receipt \notin Failed

(* A recorded review has its receipt on disk: "Preserve one measured runner
   receipt and append a confirmed human product review" (mcp_server.py:1320),
   and the answer says receiptStored. Violated: the refusal of one review
   removes the file on which another one, recorded meanwhile, stands. *)
ReviewsHaveReceipts == Reviewed \subseteq kept

===========================================================================
