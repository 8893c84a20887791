--------------------------- MODULE WorkflowPilot ---------------------------
(***************************************************************************)
(* Learned desktop workflows and the pilot that promotes one               *)
(* (computer_use.py, workflow_pilot.py).  A run of a workflow leaves a     *)
(* directory with a receipt and the receipt's digest; while a pilot is     *)
(* open the run is also anchored in an index of its own.  A person reviews *)
(* anchored runs, and the pilot passes when enough runs in a row were      *)
(* verified and judged correct.  Runs and reviews are separate processes   *)
(* that are killed between any two steps; people delete run directories,   *)
(* damage receipts and replace the workflow.                               *)
(***************************************************************************)
EXTENDS Integers, FiniteSets, Nothing

CONSTANTS Recordings,  \* contents of workflow.json
          Processes,   \* commands at work
          Required,    \* requiredConsecutivePassingRuns
          StatusCap,   \* run IDs that the status looks at
          MaxPilotRuns \* bound: runs of the workflow

VARIABLES workflow, \* workflow.json
          pilot,    \* pilot.json: the workflow it is bound to, its run ID floor
          started,  \* runs started: run IDs are times, here 1, 2, ...
          folder,   \* the run's directory: none, or how much of it is written
          anchor,   \* pilot/run-anchors
          review,   \* pilot/reviews
          did,      \* what the run did in fact (history)
          process   \* what each command is doing

pilotFiles == <<workflow, pilot, folder, anchor, review>>
pilotVars == <<pilotFiles, started, did, process>>

RunIds == 1..MaxPilotRuns

(* Completed with its outcome checked, or anything else. *)
RunResults == {"verified", "not verified"}

Verdicts == {"correct", "incorrect"}

Deeds == [workflow : Recordings, result : RunResults]

ASSUME PilotAssumption == /\ None \notin Recordings /\ None \notin RunIds /\ None \notin Deeds
                          /\ MaxPilotRuns \in Nat /\ StatusCap \in Nat /\ Required \in Nat

(* A receipt stands for its digest; None, none that can be read. *)
Folders == [receipt : Deeds \cup {None}, sidecar : BOOLEAN]

ProcessAtRest == [step |-> "idle", workflow |-> None, run |-> None]

ProcessSteps == {"idle", "learning", "loaded", "playing", "receipt", "sidecar", "anchor",
                 "judging"}

PilotTypeOK ==
    /\ workflow \in Recordings \cup {None}
    /\ pilot \in [workflow : Recordings, floor : 1..MaxPilotRuns + 1] \cup {None}
    /\ started \in 0..MaxPilotRuns
    /\ folder \in [RunIds -> Folders \cup {None}]
    /\ anchor \in [RunIds -> Deeds \cup {None}]
    /\ review \in [RunIds -> [of : Deeds, verdict : Verdicts] \cup {None}]
    /\ did \in [RunIds -> Deeds \cup {None}]
    /\ process \in [Processes -> [step : ProcessSteps, workflow : Recordings \cup {None},
                                  run : RunIds \cup {None}]]

PilotInit == /\ workflow = None /\ pilot = None /\ started = 0
             /\ folder = [i \in RunIds |-> None]
             /\ anchor = [i \in RunIds |-> None]
             /\ review = [i \in RunIds |-> None]
             /\ did = [i \in RunIds |-> None]
             /\ process = [p \in Processes |-> ProcessAtRest]

ProcessGoes(p, step) == process' = [process EXCEPT ![p].step = step]

ProcessEnds(p) == process' = [process EXCEPT ![p] = ProcessAtRest]

--------------------------------------------------------------------------
(* learn: recorded in a staging directory that becomes the workflow's. *)

BeginLearn(p) == /\ process[p].step = "idle"
                 /\ workflow = None
                 /\ ProcessGoes(p, "learning")
                 /\ UNCHANGED <<pilotFiles, started, did>>

(* No directory is replaced: whoever comes second fails. *)
Learn(p, w) == /\ process[p].step = "learning"
               /\ workflow' = IF workflow = None THEN w ELSE workflow
               /\ ProcessEnds(p)
               /\ UNCHANGED <<pilot, started, folder, anchor, review, did>>

(* Somebody replaces the file by another sealed one. *)
ReplaceWorkflow(w) == /\ workflow \notin {None, w}
                      /\ workflow' = w
                      /\ UNCHANGED <<pilot, started, folder, anchor, review, did, process>>

StartPilot == /\ workflow # None /\ pilot = None
              /\ pilot' = [workflow |-> workflow, floor |-> started + 1]
              /\ UNCHANGED <<workflow, started, folder, anchor, review, did, process>>

--------------------------------------------------------------------------
(* run: load, preview, play, write down. *)

LoadToRun(p) == /\ process[p].step = "idle"
                /\ workflow # None /\ started < MaxPilotRuns
                /\ process' = [process EXCEPT ![p].step = "loaded", ![p].workflow = workflow]
                /\ UNCHANGED <<pilotFiles, started, did>>

CreateFolder(p) == /\ process[p].step = "loaded"
                   /\ started < MaxPilotRuns
                   /\ started' = started + 1
                   /\ folder' = [folder EXCEPT ![started'] = [receipt |-> None, sidecar |-> FALSE]]
                   /\ process' = [process EXCEPT ![p].step = "playing", ![p].run = started']
                   /\ UNCHANGED <<workflow, pilot, anchor, review, did>>

(* All steps and the final checks, or an error in any of them. *)
Play(p, result) ==
    /\ process[p].step = "playing"
    /\ did' = [did EXCEPT ![process[p].run] = [workflow |-> process[p].workflow, result |-> result]]
    /\ ProcessGoes(p, "receipt")
    /\ UNCHANGED <<pilotFiles, started>>

Into(p, step, content) ==
    LET i == process[p].run IN
    /\ folder[i] # None
    /\ folder' = [folder EXCEPT ![i] = content]
    /\ ProcessGoes(p, step)
    /\ UNCHANGED <<workflow, pilot, started, anchor, review, did>>

WriteRunReceipt(p) == /\ process[p].step = "receipt"
                      /\ Into(p, "sidecar", [receipt |-> did[process[p].run], sidecar |-> FALSE])

(* The digest of the receipt that is there now. *)
WriteRunSidecar(p) == /\ process[p].step = "sidecar"
                      /\ Into(p, "anchor", [folder[process[p].run] EXCEPT !.sidecar = TRUE])

(* A receipt in order: its digest fits and it belongs to this pilot. *)
ValidReceipt(i) == /\ i >= pilot.floor
                   /\ folder[i] # None
                   /\ folder[i].sidecar
                   /\ folder[i].receipt # None
                   /\ folder[i].receipt.workflow = pilot.workflow

Unchanged == workflow = pilot.workflow

(* A run that cannot be anchored says so in its answer and is over. *)
Anchor(p) ==
    LET i == process[p].run IN
    /\ process[p].step = "anchor"
    /\ anchor' = IF pilot # None /\ Unchanged /\ ValidReceipt(i) /\ anchor[i] = None
                 THEN [anchor EXCEPT ![i] = folder[i].receipt] ELSE anchor
    /\ ProcessEnds(p)
    /\ UNCHANGED <<workflow, pilot, started, folder, review, did>>

Fail(p) == /\ process[p].step # "idle"
           /\ ProcessEnds(p)
           /\ UNCHANGED <<pilotFiles, started, did>>

--------------------------------------------------------------------------
(* review: the receipt and its anchor are read, the verdict is written. *)

ValidAnchor(i) == ValidReceipt(i) /\ anchor[i] = folder[i].receipt

BeginJudge(p, i) == /\ process[p].step = "idle"
                    /\ pilot # None /\ Unchanged /\ ValidAnchor(i)
                    /\ process' = [process EXCEPT ![p].step = "judging", ![p].run = i]
                    /\ UNCHANGED <<pilotFiles, started, did>>

(* The review file is created exclusively, bound to the receipt that was read,
   which is the one the anchor names. *)
Judge(p, verdict) ==
    LET i == process[p].run IN
    /\ process[p].step = "judging"
    /\ review[i] = None
    /\ review' = [review EXCEPT ![i] = [of |-> anchor[i], verdict |-> verdict]]
    /\ ProcessEnds(p)
    /\ UNCHANGED <<workflow, pilot, started, folder, anchor, did>>

--------------------------------------------------------------------------
(* What happens to the files of a run. *)

DeleteFolder(i) == /\ folder[i] # None
                   /\ folder' = [folder EXCEPT ![i] = None]
                   /\ UNCHANGED <<workflow, pilot, started, anchor, review, did, process>>

DamageReceipt(i) == /\ folder[i] # None /\ folder[i].receipt # None
                    /\ folder' = [folder EXCEPT ![i].receipt = None]
                    /\ UNCHANGED <<workflow, pilot, started, anchor, review, did, process>>

PilotNext ==
    \/ StartPilot
    \/ \E w \in Recordings : ReplaceWorkflow(w) \/ \E p \in Processes : Learn(p, w)
    \/ \E i \in RunIds : DeleteFolder(i) \/ DamageReceipt(i)
    \/ \E p \in Processes :
         \/ BeginLearn(p) \/ LoadToRun(p) \/ CreateFolder(p) \/ WriteRunReceipt(p)
         \/ WriteRunSidecar(p) \/ Anchor(p) \/ Fail(p)
         \/ \E result \in RunResults : Play(p, result)
         \/ \E i \in RunIds : BeginJudge(p, i)
         \/ \E verdict \in Verdicts : Judge(p, verdict)

PilotSpec == PilotInit /\ [][PilotNext]_pilotVars

--------------------------------------------------------------------------
(* workflow_pilot_status *)

(* Mutant: a run whose directory is gone is forgotten. *)
WithFolder == {i \in RunIds : i >= pilot.floor /\ folder[i] # None}

KnownRuns == {i \in RunIds : i >= pilot.floor /\ (folder[i] # None \/ anchor[i] # None)}

(* The first StatusCap of them. *)
ListedRuns == {i \in KnownRuns : Cardinality({k \in KnownRuns : k < i}) < StatusCap}

AcceptedRun(i) == /\ ValidAnchor(i)
                  /\ folder[i].receipt.result = "verified"
                  /\ review[i] # None
                  /\ review[i] = [of |-> folder[i].receipt, verdict |-> "correct"]

(* The accepted runs after which every listed run was accepted. *)
Streak == {i \in ListedRuns : \A k \in ListedRuns : k >= i => AcceptedRun(k)}

PilotPassed == pilot # None /\ Unchanged /\ Cardinality(Streak) >= Required

(* A pilot passes on the merits of its last runs: the Required latest runs that
   were ever anchored all played the workflow that is there now to the end,
   were verified and judged correct.  No deletion, crash, late run or run of
   another recording makes a bad run disappear from the row. *)
PromotionIsEarned ==
    PilotPassed /\ started <= StatusCap =>
        \A i \in RunIds :
            anchor[i] # None /\ Cardinality({k \in RunIds : k > i /\ anchor[k] # None}) < Required
            => /\ did[i] = [workflow |-> workflow, result |-> "verified"]
               /\ review[i] # None /\ review[i].verdict = "correct"

===========================================================================
