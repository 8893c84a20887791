-------------------------- MODULE Operations_proofs -------------------------
(***************************************************************************)
(* Theorems about what runs beside the missions: workflow pilots, browser  *)
(* suites and the guard of the runtime.                                    *)
(***************************************************************************)
EXTENDS WorkflowPilot, BrowserSuite, RuntimeGuard, FiniteSetTheorems, TLAPS

----------------------------------------------------------------------------
(* WorkflowPilot *)

\* Processes, typed.
ProcessRecord == [step : ProcessSteps, workflow : Recordings \cup {None}, run : RunIds \cup {None}]

\* Steps of a run that has a number of its own.
Running == {"playing", "receipt", "sidecar", "anchor"}

\* What run i has left behind is what it did.
RunInv(i) ==
  /\ i > started => folder[i] = None /\ anchor[i] = None
  /\ folder[i] # None /\ folder[i].receipt # None => folder[i].receipt = did[i]
  /\ anchor[i] # None => anchor[i] = did[i] /\ pilot # None /\ i >= pilot.floor

\* What process k works on.
ProcessInv(k) ==
  /\ k.step \in {"loaded", "playing"} => k.workflow \in Recordings
  /\ k.step \in Running => k.run \in 1..started
  /\ k.step = "playing" =>
       anchor[k.run] = None /\ (folder[k.run] = None \/ folder[k.run].receipt = None)
  /\ k.step = "receipt" => did[k.run] \in Deeds
  /\ k.step = "judging" => k.run \in RunIds /\ anchor[k.run] # None

\* The types; what runs left is what they did; processes work on runs of their
\* own.
PilotInv ==
  /\ PilotTypeOK
  /\ \A i \in RunIds : RunInv(i)
  /\ \A p \in Processes : ProcessInv(process[p])
  /\ \A p, q \in Processes : process[p].step \in Running /\ process[q].step \in Running /\ p # q
                               => process[p].run # process[q].run

\* The types, one by one.
LEMMA PilotFacts ==
  ASSUME PilotInv
  PROVE  /\ workflow \in Recordings \cup {None}
         /\ pilot \in [workflow : Recordings, floor : 1..MaxPilotRuns + 1] \cup {None}
         /\ started \in 0..MaxPilotRuns
         /\ folder \in [RunIds -> Folders \cup {None}]
         /\ anchor \in [RunIds -> Deeds \cup {None}]
         /\ review \in [RunIds -> [of : Deeds, verdict : Verdicts] \cup {None}]
         /\ did \in [RunIds -> Deeds \cup {None}]
         /\ process \in [Processes -> ProcessRecord]
  BY DEF PilotInv, PilotTypeOK, ProcessRecord

\* A process at rest has its type.
LEMMA RestRecord == ProcessAtRest \in ProcessRecord /\ ProcessAtRest.step = "idle"
  BY DEF ProcessAtRest, ProcessRecord, ProcessSteps

\* The first state keeps the invariant.
LEMMA PilotInitInv == PilotInit => PilotInv
<1> SUFFICES ASSUME PilotInit PROVE PilotInv
  OBVIOUS
<1>1. PilotTypeOK
  BY PilotAssumption, RestRecord DEF PilotInit, PilotTypeOK, ProcessRecord
<1>2. \A i \in RunIds : RunInv(i)
  BY DEF PilotInit, RunInv
<1>3. \A p \in Processes : process[p].step = "idle"
  BY RestRecord DEF PilotInit
<1> QED  BY <1>1, <1>2, <1>3 DEF PilotInv, ProcessInv, Running

\* A process p moves that is not running a workflow afterwards, or runs the same run.
LEMMA ProcessMoves ==
  ASSUME PilotInv, NEW p \in Processes, NEW k \in ProcessRecord,
         process' = [process EXCEPT ![p] = k], ProcessInv(k),
         k.step \in Running => process[p].step \in Running /\ k.run = process[p].run,
         UNCHANGED <<pilotFiles, started, did>>
  PROVE  PilotInv'
<1>1. UNCHANGED <<workflow, pilot, folder, anchor, review, started, did>>
  BY DEF pilotFiles
<1>2. PilotTypeOK'
  BY <1>1 DEF PilotInv, PilotTypeOK, ProcessRecord
<1>3. \A i \in RunIds : RunInv(i)'
  BY <1>1 DEF PilotInv, RunInv
<1>4. ProcessInv(k)' /\ \A q \in Processes : ProcessInv(process[q])' = ProcessInv(process'[q])
  BY <1>1 DEF ProcessInv
<1>5. \A q \in Processes : ProcessInv(process[q])'
  BY <1>4, PilotFacts DEF PilotInv
<1>6. \A q, r \in Processes : process'[q].step \in Running /\ process'[r].step \in Running /\ q # r
                               => process'[q].run # process'[r].run
  BY PilotFacts DEF PilotInv
<1> QED  BY <1>2, <1>3, <1>5, <1>6 DEF PilotInv

\* A process goes on to its next step.
LEMMA ProcessStep ==
  ASSUME PilotInv, NEW p \in Processes, NEW step \in ProcessSteps, ProcessGoes(p, step)
  PROVE  \E k \in ProcessRecord :
           /\ process' = [process EXCEPT ![p] = k]
           /\ k.step = step /\ k.workflow = process[p].workflow /\ k.run = process[p].run
<1> DEFINE k == [step |-> step, workflow |-> process[p].workflow, run |-> process[p].run]
<1>1. process \in [Processes -> ProcessRecord]
  BY PilotFacts
<1>2. process'[p] = k
  BY <1>1 DEF ProcessGoes, ProcessRecord
<1>3. process' = [process EXCEPT ![p] = k]
  BY <1>1, <1>2 DEF ProcessGoes
<1>4. k \in ProcessRecord
  BY <1>1 DEF ProcessRecord
<1>5. k.step = step /\ k.workflow = process[p].workflow /\ k.run = process[p].run
  OBVIOUS
<1> HIDE DEF k
<1> QED  BY <1>3, <1>4, <1>5

\* Steps of processes that change no file.
LEMMA ProcessStarts ==
  ASSUME PilotInv, NEW p \in Processes,
         BeginLearn(p) \/ LoadToRun(p) \/ Fail(p) \/ \E i \in RunIds : BeginJudge(p, i)
  PROVE  PilotInv'
<1>1. CASE BeginLearn(p)
  <2>1. PICK k \in ProcessRecord : process' = [process EXCEPT ![p] = k] /\ k.step = "learning"
    BY <1>1, ProcessStep DEF BeginLearn, ProcessSteps
  <2> QED  BY <1>1, <2>1, ProcessMoves DEF BeginLearn, ProcessInv, Running
<1>2. CASE LoadToRun(p)
  <2> DEFINE k == [step |-> "loaded", workflow |-> workflow, run |-> process[p].run]
  <2>1. process'[p] = k
    BY <1>2, PilotFacts DEF LoadToRun, ProcessRecord
  <2>2. process' = [process EXCEPT ![p] = k]
    BY <1>2, <2>1, PilotFacts DEF LoadToRun
  <2>3. k \in ProcessRecord /\ k.step = "loaded" /\ k.workflow \in Recordings
    BY <1>2, PilotFacts DEF LoadToRun, ProcessRecord, ProcessSteps
  <2> HIDE DEF k
  <2>4. ProcessInv(k) /\ k.step \notin Running
    BY <2>3 DEF ProcessInv, Running
  <2> QED  BY <1>2, <2>2, <2>3, <2>4, ProcessMoves DEF LoadToRun
<1>3. CASE Fail(p)
  BY <1>3, RestRecord, ProcessMoves DEF Fail, ProcessEnds, ProcessInv, Running
<1>4. ASSUME NEW i \in RunIds, BeginJudge(p, i) PROVE PilotInv'
  <2> DEFINE k == [step |-> "judging", workflow |-> process[p].workflow, run |-> i]
  <2>0. process' = [process EXCEPT ![p].step = "judging", ![p].run = i] /\ process \in [Processes -> ProcessRecord]
    BY <1>4, PilotFacts DEF BeginJudge
  <2>1. process'[p] = k
    BY <2>0 DEF ProcessRecord
  <2>2. process' = [process EXCEPT ![p] = k]
    BY <2>0, <2>1
  <2>3. k \in ProcessRecord /\ k.step = "judging" /\ k.run = i
    BY PilotFacts DEF ProcessRecord, ProcessSteps
  <2>4. anchor[i] # None
    BY <1>4 DEF BeginJudge, ValidAnchor, ValidReceipt
  <2> HIDE DEF k
  <2>5. ProcessInv(k) /\ k.step \notin Running
    BY <2>3, <2>4 DEF ProcessInv, Running
  <2> QED  BY <1>4, <2>2, <2>3, <2>5, ProcessMoves DEF BeginJudge
<1> QED  BY <1>1, <1>2, <1>3, <1>4

\* The workflow is learned or replaced, or the pilot begins.
LEMMA WorkflowSteps ==
  ASSUME PilotInv,
         \/ StartPilot
         \/ \E w \in Recordings : ReplaceWorkflow(w) \/ \E p \in Processes : Learn(p, w)
  PROVE  PilotInv'
<1>1. CASE StartPilot
  <2>1. pilot' = [workflow |-> workflow, floor |-> started + 1] /\ pilot = None
        /\ UNCHANGED <<workflow, started, folder, anchor, review, did, process>>
    BY <1>1 DEF StartPilot
  <2>2. pilot' \in [workflow : Recordings, floor : 1..MaxPilotRuns + 1]
    BY <1>1, <2>1, PilotFacts, PilotAssumption DEF StartPilot
  <2>3. \A i \in RunIds : anchor[i] = None
    BY <2>1 DEF PilotInv, RunInv
  <2>4. PilotTypeOK'
    BY <2>1, <2>2 DEF PilotInv, PilotTypeOK
  <2>5. \A i \in RunIds : RunInv(i)'
    BY <2>1, <2>3 DEF PilotInv, RunInv
  <2>6. \A p \in Processes : ProcessInv(process[p])'
    BY <2>1 DEF PilotInv, ProcessInv
  <2> QED  BY <2>1, <2>4, <2>5, <2>6 DEF PilotInv
<1>2. ASSUME NEW w \in Recordings, ReplaceWorkflow(w) PROVE PilotInv'
  <2>1. workflow' = w /\ UNCHANGED <<pilot, started, folder, anchor, review, did, process>>
    BY <1>2 DEF ReplaceWorkflow
  <2>2. PilotTypeOK'
    BY <2>1 DEF PilotInv, PilotTypeOK
  <2>3. \A i \in RunIds : RunInv(i)'
    BY <2>1 DEF PilotInv, RunInv
  <2>4. \A p \in Processes : ProcessInv(process[p])'
    BY <2>1 DEF PilotInv, ProcessInv
  <2> QED  BY <2>1, <2>2, <2>3, <2>4 DEF PilotInv
<1>3. ASSUME NEW w \in Recordings, NEW p \in Processes, Learn(p, w) PROVE PilotInv'
  <2>1. /\ process' = [process EXCEPT ![p] = ProcessAtRest] /\ workflow' \in Recordings \cup {None}
        /\ UNCHANGED <<pilot, started, folder, anchor, review, did>>
    BY <1>3, PilotFacts DEF Learn, ProcessEnds
  <2>2. PilotTypeOK'
    BY <2>1, RestRecord DEF PilotInv, PilotTypeOK, ProcessRecord
  <2>3. \A i \in RunIds : RunInv(i)'
    BY <2>1 DEF PilotInv, RunInv
  <2>4. \A q \in Processes : process'[q] = IF q = p THEN ProcessAtRest ELSE process[q]
    BY <2>1, PilotFacts
  <2>5. \A q \in Processes : ProcessInv(process[q])'
    BY <2>1, <2>4, RestRecord DEF PilotInv, ProcessInv, Running
  <2> QED  BY <2>2, <2>3, <2>4, <2>5, RestRecord DEF PilotInv, Running
<1> QED  BY <1>1, <1>2, <1>3

\* A run begins: its number is new.
LEMMA NewRun ==
  ASSUME PilotInv, NEW p \in Processes, CreateFolder(p)
  PROVE  \E n \in RunIds, k \in ProcessRecord :
           /\ n = started + 1 /\ k.step = "playing" /\ k.run = n /\ k.workflow \in Recordings
           /\ process' = [process EXCEPT ![p] = k]
<1> DEFINE n == started + 1
           k == [step |-> "playing", workflow |-> process[p].workflow, run |-> n]
<1>1. n \in RunIds
  BY PilotFacts, PilotAssumption DEF CreateFolder, RunIds
<1>2. process' = [process EXCEPT ![p].step = "playing", ![p].run = n]
  BY DEF CreateFolder
<1> HIDE DEF n
<1>3. process'[p] = k
  BY <1>1, <1>2, PilotFacts DEF ProcessRecord
<1>4. process' = [process EXCEPT ![p] = k]
  BY <1>2, <1>3, PilotFacts
<1>5. process[p].workflow \in Recordings
  BY DEF CreateFolder, PilotInv, ProcessInv
<1>6. k \in ProcessRecord /\ k.step = "playing" /\ k.run = n /\ k.workflow \in Recordings
  BY <1>1, <1>5 DEF ProcessRecord, ProcessSteps
<1> HIDE DEF k
<1> QED  BY <1>1, <1>4, <1>6 DEF n

\* Its directory is new, too.
LEMMA CreateFolderStep ==
  ASSUME PilotInv, NEW p \in Processes, CreateFolder(p)
  PROVE  PilotInv'
<1> DEFINE empty == [receipt |-> None, sidecar |-> FALSE]
<1>4. PICK n \in RunIds, k \in ProcessRecord :
           /\ n = started + 1 /\ k.step = "playing" /\ k.run = n /\ k.workflow \in Recordings
           /\ process' = [process EXCEPT ![p] = k]
  BY NewRun
<1>1. n \in RunIds /\ n > started /\ started \in Nat /\ n \in Nat /\ n \in 1..n
  BY <1>4, PilotFacts, PilotAssumption DEF RunIds
<1>2. /\ started' = n /\ folder' = [folder EXCEPT ![n] = empty]
      /\ UNCHANGED <<workflow, pilot, anchor, review, did>>
  BY <1>4 DEF CreateFolder
<1>3. empty \in Folders
  BY DEF Folders
<1>5. k \in ProcessRecord /\ k.step = "playing" /\ k.run = n /\ k.workflow \in Recordings
  BY <1>4
<1>6. anchor[n] = None /\ folder'[n].receipt = None
  BY <1>1, <1>2, PilotFacts DEF PilotInv, RunInv
<1> HIDE DEF empty
<1>7. PilotTypeOK'
  BY <1>1, <1>2, <1>3, <1>4, <1>5, PilotFacts, PilotAssumption DEF PilotTypeOK, ProcessRecord,
     RunIds
<1>8. \A i \in RunIds : RunInv(i)'
  <2> TAKE i \in RunIds
  <2>1. CASE i = n
    <3>1. started' = i /\ anchor'[i] = None /\ folder'[i].receipt = None
      BY <1>2, <1>6, <2>1
    <3>2. ~(i > started')
      BY <1>1, <1>2, <2>1
    <3> QED  BY <3>1, <3>2 DEF RunInv
  <2>2. CASE i # n
    <3>1. folder'[i] = folder[i] /\ RunInv(i) /\ (i > started' => i > started)
      BY <1>1, <1>2, <2>2, PilotFacts DEF PilotInv, RunIds
    <3> QED  BY <1>2, <3>1 DEF RunInv
  <2> QED  BY <2>1, <2>2
<1>9. \A q \in Processes : process'[q] = IF q = p THEN k ELSE process[q]
  BY <1>4, PilotFacts
<1>10. ASSUME NEW q \in Processes, process[q].step \in Running PROVE process[q].run \in 1..started /\ process[q].run # n
  <2>1. ProcessInv(process[q])
    BY DEF PilotInv
  <2>2. process[q].run \in 1..started
    BY <1>10, <2>1 DEF ProcessInv
  <2> QED  BY <1>1, <2>2
<1>11. ProcessInv(k)'
  <2>1. k.run \in 1..started' /\ anchor'[k.run] = None /\ folder'[k.run].receipt = None
    BY <1>1, <1>2, <1>5, <1>6
  <2>2. k.step = "playing" /\ k.workflow \in Recordings
    BY <1>5
  <2> QED  BY <2>1, <2>2 DEF ProcessInv
<1>12. ASSUME NEW q \in Processes, q # p PROVE ProcessInv(process[q])'
  <2>1. ProcessInv(process[q])
    BY DEF PilotInv
  <2>2. process[q].step \in Running => process[q].run \in 1..started' /\ folder'[process[q].run] = folder[process[q].run]
    BY <1>1, <1>2, <1>10, PilotFacts DEF RunIds
  <2>3. process'[q] = process[q]
    BY <1>9, <1>12
  <2> DEFINE j == process[q]
  <2>4. /\ j.step \in {"loaded", "playing"} => j.workflow \in Recordings
        /\ j.step \in Running => j.run \in 1..started'
        /\ j.step = "playing" =>
             anchor'[j.run] = None /\ (folder'[j.run] = None \/ folder'[j.run].receipt = None)
        /\ j.step = "receipt" => did'[j.run] \in Deeds
        /\ j.step = "judging" => j.run \in RunIds /\ anchor'[j.run] # None
    <3> HIDE DEF j
    <3>1. ProcessInv(j) /\ (j.step \in Running => j.run \in 1..started' /\ folder'[j.run] = folder[j.run])
      BY <2>1, <2>2 DEF j
    <3> QED  BY <1>2, <3>1 DEF ProcessInv, Running
  <2> HIDE DEF j
  <2>5. process'[q] = j
    BY <2>3 DEF j
  <2> QED  BY <2>4, <2>5 DEF ProcessInv
<1>13. \A q \in Processes : ProcessInv(process[q])'
  <2> TAKE q \in Processes
  <2>1. CASE q = p
    <3>1. process'[q] = k
      BY <1>9, <2>1
    <3> QED  BY <1>11, <3>1 DEF ProcessInv
  <2> QED  BY <1>12, <2>1
<1>14. \A q, r \in Processes : process'[q].step \in Running /\ process'[r].step \in Running /\ q # r
                               => process'[q].run # process'[r].run
  BY <1>5, <1>9, <1>10 DEF PilotInv
<1> QED  BY <1>7, <1>8, <1>13, <1>14 DEF PilotInv

\* A process p goes on with a run that it owns: it moves to step and changes the
\* files of the run, and what the run did, in a way that is in order.
LEMMA OwnRunStep ==
  ASSUME PilotInv, NEW p \in Processes, NEW k \in ProcessRecord,
         process[p].step \in Running,
         k.run = process[p].run,
         process' = [process EXCEPT ![p] = k],
         UNCHANGED <<workflow, pilot, started, review>>,
         NEW f \in Folders \cup {None}, NEW a \in Deeds \cup {None}, NEW d \in Deeds \cup {None},
         folder' = [folder EXCEPT ![k.run] = f],
         anchor' = [anchor EXCEPT ![k.run] = a],
         did' = [did EXCEPT ![k.run] = d],
         f # None /\ f.receipt # None => f.receipt = d,
         a # None => a = d /\ pilot # None /\ k.run >= pilot.floor,
         anchor[k.run] # None => a # None,
         ProcessInv(k)'
  PROVE  PilotInv'
<1>1. k.run \in RunIds /\ k.run \in 1..started
  BY PilotFacts, PilotAssumption DEF PilotInv, ProcessInv, RunIds
<1>2. PilotTypeOK'
  BY <1>1, PilotFacts DEF PilotTypeOK, ProcessRecord
<1>3. \A i \in RunIds : RunInv(i)'
  <2> TAKE i \in RunIds
  <2>1. CASE i = k.run
    <3>1. folder'[i] = f /\ anchor'[i] = a /\ did'[i] = d /\ ~(i > started')
      BY <1>1, <2>1, PilotFacts
    <3> QED  BY <2>1, <3>1 DEF RunInv
  <2>2. CASE i # k.run
    <3>1. folder'[i] = folder[i] /\ anchor'[i] = anchor[i] /\ did'[i] = did[i] /\ RunInv(i)
      BY <2>2, PilotFacts DEF PilotInv
    <3> QED  BY <3>1 DEF RunInv
  <2> QED  BY <2>1, <2>2
<1>4. \A q \in Processes : process'[q] = IF q = p THEN k ELSE process[q]
  BY PilotFacts
<1>5. ASSUME NEW q \in Processes, q # p PROVE ProcessInv(process[q])'
  <2>1. ProcessInv(process[q]) /\ process'[q] = process[q]
    BY <1>4, <1>5 DEF PilotInv
  <2>2. process[q].step \in Running => process[q].run # k.run
    BY <1>5 DEF PilotInv
  <2> DEFINE j == process[q]
  <2>3. ProcessInv(j) /\ process'[q] = j /\ (j.step \in Running => j.run # k.run)
    BY <2>1, <2>2
  <2> HIDE DEF j
  <2>4. j.step \in Running => j.run \in RunIds /\ folder'[j.run] = folder[j.run]
                               /\ anchor'[j.run] = anchor[j.run] /\ did'[j.run] = did[j.run]
    BY <2>3, PilotFacts, PilotAssumption DEF ProcessInv, RunIds
  <2>5. j.step = "judging" => j.run \in RunIds /\ anchor'[j.run] # None
    BY <1>1, <2>3, PilotFacts DEF ProcessInv
  <2>6. /\ j.step \in {"loaded", "playing"} => j.workflow \in Recordings
        /\ j.step \in Running => j.run \in 1..started'
        /\ j.step = "playing" =>
             anchor'[j.run] = None /\ (folder'[j.run] = None \/ folder'[j.run].receipt = None)
        /\ j.step = "receipt" => did'[j.run] \in Deeds
    BY <2>3, <2>4 DEF ProcessInv, Running
  <2> QED  BY <2>3, <2>5, <2>6 DEF ProcessInv
<1>6. \A q \in Processes : ProcessInv(process[q])'
  <2> TAKE q \in Processes
  <2>1. CASE q = p
    <3>1. process'[q] = k
      BY <1>4, <2>1
    <3> QED  BY <3>1 DEF ProcessInv
  <2> QED  BY <1>5, <2>1
<1>7. \A q, r \in Processes : process'[q].step \in Running /\ process'[r].step \in Running /\ q # r
                               => process'[q].run # process'[r].run
  BY <1>4 DEF PilotInv
<1> QED  BY <1>2, <1>3, <1>6, <1>7 DEF PilotInv

\* The steps of a run.
LEMMA PlayStep ==
  ASSUME PilotInv, NEW p \in Processes, NEW result \in RunResults, Play(p, result)
  PROVE  PilotInv'
<1>1. PICK k \in ProcessRecord :
           /\ process' = [process EXCEPT ![p] = k]
           /\ k.step = "receipt" /\ k.workflow = process[p].workflow /\ k.run = process[p].run
  BY ProcessStep DEF Play, ProcessSteps
<1>2. /\ process[p].step = "playing" /\ k.workflow \in Recordings /\ k.run \in 1..started /\ k.run \in RunIds
      /\ anchor[k.run] = None /\ (folder[k.run] = None \/ folder[k.run].receipt = None)
  BY <1>1, PilotFacts, PilotAssumption DEF Play, PilotInv, ProcessInv, Running, RunIds
<1> DEFINE d0 == [workflow |-> k.workflow, result |-> result]
<1>3. d0 \in Deeds
  BY <1>2 DEF Deeds
<1>4. PICK d \in Deeds : d = d0
  BY <1>3
<1>5. did' = [did EXCEPT ![k.run] = d]
  BY <1>1, <1>4 DEF Play
<1>6. PICK f \in Folders \cup {None} : f = folder[k.run]
  BY <1>2, PilotFacts
<1>7. folder' = [folder EXCEPT ![k.run] = f] /\ anchor' = [anchor EXCEPT ![k.run] = None]
  BY <1>2, <1>6, PilotFacts DEF Play, pilotFiles
<1>8. UNCHANGED <<workflow, pilot, started, review>>
  BY DEF Play, pilotFiles
<1>9. did'[k.run] = d
  BY <1>2, <1>5, PilotFacts
<1>10. ProcessInv(k)'
  BY <1>1, <1>2, <1>8, <1>9 DEF ProcessInv, Running
<1> QED  BY <1>1, <1>2, <1>4, <1>5, <1>6, <1>7, <1>8, <1>10, OwnRunStep DEF Running

\* Content is written into the directory of the run.
LEMMA IntoStep ==
  ASSUME PilotInv, NEW p \in Processes, NEW step \in {"sidecar", "anchor"},
         process[p].step \in Running, NEW content \in Folders, Into(p, step, content),
         content.receipt # None => content.receipt = did[process[p].run]
  PROVE  PilotInv'
<1>1. PICK k \in ProcessRecord :
           /\ process' = [process EXCEPT ![p] = k]
           /\ k.step = step /\ k.workflow = process[p].workflow /\ k.run = process[p].run
  BY ProcessStep DEF Into, ProcessSteps
<1>2. k.run \in 1..started /\ k.run \in RunIds
  BY <1>1, PilotFacts, PilotAssumption DEF PilotInv, ProcessInv, Running, RunIds
<1>3. UNCHANGED <<workflow, pilot, started, review, anchor, did>> /\ folder' = [folder EXCEPT ![k.run] = content]
  BY <1>1 DEF Into
<1>4. PICK a \in Deeds \cup {None}, d \in Deeds \cup {None} : a = anchor[k.run] /\ d = did[k.run]
  BY <1>2, PilotFacts
<1>5. anchor' = [anchor EXCEPT ![k.run] = a] /\ did' = [did EXCEPT ![k.run] = d]
  BY <1>2, <1>3, <1>4, PilotFacts
<1>6. a # None => a = d /\ pilot # None /\ k.run >= pilot.floor
  BY <1>2, <1>4 DEF PilotInv, RunInv
<1>7. ProcessInv(k)'
  BY <1>1, <1>2, <1>3 DEF ProcessInv, Running
<1> QED  BY <1>1, <1>2, <1>3, <1>4, <1>5, <1>6, <1>7, OwnRunStep

\* The receipt of a run and its digest are written.
LEMMA WriteSteps ==
  ASSUME PilotInv, NEW p \in Processes, WriteRunReceipt(p) \/ WriteRunSidecar(p)
  PROVE  PilotInv'
<1>1. CASE WriteRunReceipt(p)
  <2>1. process[p].step = "receipt" /\ process[p].run \in RunIds /\ did[process[p].run] \in Deeds
    BY <1>1, PilotFacts, PilotAssumption DEF WriteRunReceipt, PilotInv, ProcessInv, Running,
       RunIds
  <2> DEFINE c == [receipt |-> did[process[p].run], sidecar |-> FALSE]
  <2>2. c \in Folders /\ c.receipt = did[process[p].run]
    BY <2>1 DEF Folders
  <2>3. Into(p, "sidecar", c)
    BY <1>1 DEF WriteRunReceipt
  <2> HIDE DEF c
  <2>4. PICK content \in Folders : content = c
    BY <2>2
  <2>5. Into(p, "sidecar", content)
    BY <2>3, <2>4
  <2> QED  BY <2>1, <2>2, <2>4, <2>5, IntoStep DEF Running
<1>2. CASE WriteRunSidecar(p)
  <2>1. process[p].step = "sidecar" /\ process[p].run \in RunIds
    BY <1>2, PilotFacts, PilotAssumption DEF WriteRunSidecar, PilotInv, ProcessInv, Running,
       RunIds
  <2>2. PICK f \in Folders : f = folder[process[p].run]
    BY <1>2, <2>1, PilotFacts DEF WriteRunSidecar, Into
  <2>3. f.receipt # None => f.receipt = did[process[p].run]
    BY <1>2, <2>1, <2>2 DEF PilotInv, RunInv, WriteRunSidecar, Into
  <2> DEFINE c == [f EXCEPT !.sidecar = TRUE]
  <2>4. c \in Folders /\ c.receipt = f.receipt
    BY DEF Folders
  <2>5. Into(p, "anchor", c)
    BY <1>2, <2>2 DEF WriteRunSidecar
  <2> HIDE DEF c
  <2>6. PICK content \in Folders : content = c
    BY <2>4
  <2>7. Into(p, "anchor", content)
    BY <2>5, <2>6
  <2> QED  BY <2>1, <2>3, <2>4, <2>6, <2>7, IntoStep DEF Running
<1> QED  BY <1>1, <1>2

\* A run is anchored.
LEMMA AnchorStep ==
  ASSUME PilotInv, NEW p \in Processes, Anchor(p)
  PROVE  PilotInv'
<1>1. process[p].step = "anchor" /\ process' = [process EXCEPT ![p] = ProcessAtRest]
      /\ UNCHANGED <<workflow, pilot, started, folder, review, did>>
  BY DEF Anchor, ProcessEnds
<1>2. PICK i : i = process[p].run
  OBVIOUS
<1>3. i \in 1..started /\ i \in RunIds
  BY <1>1, <1>2, PilotFacts, PilotAssumption DEF PilotInv, ProcessInv, Running, RunIds
<1>4. CASE anchor' = anchor
  BY <1>1, <1>4, RestRecord, ProcessMoves DEF pilotFiles, ProcessInv, Running
<1>5. CASE anchor' = [anchor EXCEPT ![i] = folder[i].receipt] /\ pilot # None /\ ValidReceipt(i)
  <2>1. PICK a \in Deeds : a = folder[i].receipt
    BY <1>3, <1>5, PilotFacts DEF ValidReceipt, Folders
  <2>2. a = did[i] /\ i >= pilot.floor
    BY <1>3, <1>5, <2>1 DEF ValidReceipt, PilotInv, RunInv
  <2>3. anchor' = [anchor EXCEPT ![i] = a]
    BY <1>5, <2>1
  <2>31. anchor'[i] = a /\ \A r \in RunIds : r # i => anchor'[r] = anchor[r]
    BY <1>3, <2>3, PilotFacts
  <2>4. PilotTypeOK'
    BY <1>1, <1>3, <2>3, RestRecord, PilotFacts DEF PilotTypeOK, ProcessRecord
  <2>5. \A r \in RunIds : RunInv(r)'
    <3> TAKE r \in RunIds
    <3>1. CASE r = i
      <4>1. RunInv(i)
        BY <1>3 DEF PilotInv
      <4>2. started \in Nat
        BY PilotFacts, PilotAssumption
      <4>3. ~(i > started)
        BY <1>3, <4>2
      <4> QED  BY <1>1, <1>5, <2>2, <2>31, <3>1, <4>1, <4>3 DEF RunInv
    <3>2. CASE r # i
      BY <1>1, <2>31, <3>2 DEF PilotInv, RunInv
    <3> QED  BY <3>1, <3>2
  <2>6. \A q \in Processes : process'[q] = IF q = p THEN ProcessAtRest ELSE process[q]
    BY <1>1, PilotFacts
  <2>7. ASSUME NEW q \in Processes PROVE ProcessInv(process[q])'
    <3>1. CASE q = p
      BY <2>6, <3>1, RestRecord DEF ProcessInv, Running
    <3>2. CASE q # p
      <4>1. PICK j : j = process[q] /\ j = process'[q] /\ ProcessInv(j)
        BY <2>6, <3>2 DEF PilotInv
      <4>2. j.step \in Running => j.run # i
        BY <1>1, <1>2, <3>2, <4>1 DEF PilotInv, Running
      <4>3. j.step = "playing" => anchor'[j.run] = None
        BY <2>31, <4>1, <4>2, PilotFacts, PilotAssumption DEF ProcessInv, Running, RunIds
      <4>4. j.step = "judging" => j.run \in RunIds /\ anchor'[j.run] # None
        BY <2>31, <4>1, PilotAssumption DEF ProcessInv
      <4>5. /\ j.step \in {"loaded", "playing"} => j.workflow \in Recordings
            /\ j.step \in Running => j.run \in 1..started'
            /\ j.step = "playing" => folder'[j.run] = None \/ folder'[j.run].receipt = None
            /\ j.step = "receipt" => did'[j.run] \in Deeds
        BY <1>1, <4>1 DEF ProcessInv
      <4> QED  BY <4>1, <4>3, <4>4, <4>5 DEF ProcessInv
    <3> QED  BY <3>1, <3>2
  <2>8. \A q, r \in Processes : process'[q].step \in Running /\ process'[r].step \in Running /\ q # r
                               => process'[q].run # process'[r].run
    BY <2>6, RestRecord DEF PilotInv, Running
  <2> QED  BY <2>4, <2>5, <2>7, <2>8 DEF PilotInv
<1> QED  BY <1>2, <1>4, <1>5 DEF Anchor

\* A run is judged.
LEMMA JudgeStep ==
  ASSUME PilotInv, NEW p \in Processes, NEW verdict \in Verdicts, Judge(p, verdict)
  PROVE  PilotInv'
<1>1. /\ process[p].step = "judging" /\ process' = [process EXCEPT ![p] = ProcessAtRest]
      /\ UNCHANGED <<workflow, pilot, started, folder, anchor, did>>
  BY DEF Judge, ProcessEnds
<1>2. PICK i \in RunIds, a \in Deeds : i = process[p].run /\ a = anchor[i]
  BY <1>1, PilotFacts DEF PilotInv, ProcessInv
<1> DEFINE r0 == [of |-> a, verdict |-> verdict]
<1>3. r0 \in [of : Deeds, verdict : Verdicts]
  OBVIOUS
<1>4. review' = [review EXCEPT ![i] = r0]
  BY <1>2 DEF Judge
<1> HIDE DEF r0
<1>5. PilotTypeOK'
  BY <1>1, <1>2, <1>3, <1>4, RestRecord, PilotFacts DEF PilotTypeOK, ProcessRecord
<1>6. \A r \in RunIds : RunInv(r)'
  BY <1>1 DEF PilotInv, RunInv
<1>7. \A q \in Processes : process'[q] = IF q = p THEN ProcessAtRest ELSE process[q]
  BY <1>1, PilotFacts
<1>8. \A q \in Processes : ProcessInv(process[q])'
  BY <1>1, <1>7, RestRecord DEF PilotInv, ProcessInv, Running
<1> QED  BY <1>5, <1>6, <1>7, <1>8, RestRecord DEF PilotInv, Running

\* A directory is deleted or its receipt damaged.
LEMMA DamageSteps ==
  ASSUME PilotInv, NEW i \in RunIds, DeleteFolder(i) \/ DamageReceipt(i)
  PROVE  PilotInv'
<1>1. UNCHANGED <<workflow, pilot, started, anchor, review, did, process>>
  BY DEF DeleteFolder, DamageReceipt
<1>2. PICK f \in Folders \cup {None} : folder' = [folder EXCEPT ![i] = f] /\ (f = None \/ f.receipt = None)
  <2>1. CASE DeleteFolder(i)
    BY <2>1 DEF DeleteFolder
  <2>2. CASE DamageReceipt(i)
    <3>1. PICK g \in Folders : g = folder[i] /\ folder' = [folder EXCEPT ![i].receipt = None]
      BY <2>2, PilotFacts DEF DamageReceipt
    <3> DEFINE f == [receipt |-> None, sidecar |-> g.sidecar]
    <3>2. folder'[i] = f
      BY <3>1, PilotFacts DEF Folders
    <3>3. folder' = [folder EXCEPT ![i] = f]
      BY <3>1, <3>2, PilotFacts
    <3>4. f \in Folders /\ f.receipt = None
      BY DEF Folders
    <3> HIDE DEF f
    <3> QED  BY <3>3, <3>4
  <2> QED  BY <2>1, <2>2
<1>3. PilotTypeOK'
  BY <1>1, <1>2, PilotFacts DEF PilotTypeOK, ProcessRecord
<1>4. folder'[i] = f /\ \A r \in RunIds : r # i => folder'[r] = folder[r]
  BY <1>2, PilotFacts
<1>5. ASSUME NEW r \in RunIds PROVE RunInv(r)'
  <2>0. RunInv(r) /\ (folder'[r] # None => folder'[r] = folder[r] \/ folder'[r].receipt = None)
    BY <1>2, <1>4 DEF PilotInv
  <2>1. r > started => folder'[r] = None
    <3>1. folder[i] # None
      BY DEF DeleteFolder, DamageReceipt
    <3> QED  BY <1>4, <2>0, <3>1 DEF RunInv
  <2> QED  BY <1>1, <2>0, <2>1 DEF RunInv
<1>6. ASSUME NEW q \in Processes PROVE ProcessInv(process[q])'
  <2>1. PICK j : j = process[q] /\ j = process'[q] /\ ProcessInv(j)
    BY <1>1 DEF PilotInv
  <2>2. j.step = "playing" => folder'[j.run] = None \/ folder'[j.run].receipt = None
    <3> SUFFICES ASSUME j.step = "playing" PROVE folder'[j.run] = None \/ folder'[j.run].receipt = None
      OBVIOUS
    <3>1. j.run \in RunIds /\ (folder[j.run] = None \/ folder[j.run].receipt = None)
      BY <2>1, PilotFacts, PilotAssumption DEF ProcessInv, Running, RunIds
    <3> QED  BY <1>2, <1>4, <3>1
  <2> QED  BY <1>1, <2>1, <2>2 DEF ProcessInv
<1> QED  BY <1>1, <1>3, <1>5, <1>6 DEF PilotInv

\* Every step keeps the invariant.
LEMMA PilotStepInv == PilotInv /\ [PilotNext]_pilotVars => PilotInv'
<1> SUFFICES ASSUME PilotInv, [PilotNext]_pilotVars PROVE PilotInv'
  OBVIOUS
<1>1. CASE UNCHANGED pilotVars
  BY <1>1 DEF pilotVars, pilotFiles, PilotInv, PilotTypeOK, RunInv, ProcessInv
<1>2. CASE PilotNext
  BY <1>2, WorkflowSteps, DamageSteps, ProcessStarts, CreateFolderStep, WriteSteps, AnchorStep,
     PlayStep, JudgeStep DEF PilotNext
<1> QED  BY <1>1, <1>2

\* Files, runs and processes keep their types (computer_use.py and
\* workflow_pilot.py).
THEOREM PilotTypesTheorem == PilotSpec => []PilotTypeOK
<1>1. PilotInv => PilotTypeOK
  BY DEF PilotInv
<1> QED  BY <1>1, PilotInitInv, PilotStepInv, PTL DEF PilotSpec

\* While no more runs have started than the status looks at, it looks at all.
LEMMA AllListed ==
  ASSUME PilotInv, started <= StatusCap
  PROVE  ListedRuns = KnownRuns /\ IsFiniteSet(KnownRuns)
<1>1. KnownRuns \subseteq 1..started
  <2> SUFFICES ASSUME NEW i \in KnownRuns PROVE i \in 1..started
    OBVIOUS
  <2>1. i \in RunIds /\ (folder[i] # None \/ anchor[i] # None)
    BY DEF KnownRuns
  <2>2. ~(i > started)
    <3>1. RunInv(i)
      BY <2>1 DEF PilotInv
    <3> QED  BY <2>1, <3>1 DEF RunInv
  <2>3. started \in Nat /\ i \in Nat /\ i >= 1
    BY <2>1, PilotFacts, PilotAssumption DEF RunIds
  <2> QED  BY <2>2, <2>3
<1>2. started \in Nat /\ IsFiniteSet(1..started) /\ Cardinality(1..started) = started
  <2>1. started \in Nat
    BY PilotFacts, PilotAssumption
  <2>2. 1 \in Int /\ started \in Int
    BY <2>1
  <2>3. IsFiniteSet(1..started) /\ Cardinality(1..started) = IF 1 > started THEN 0 ELSE started - 1 + 1
    BY <2>2, FS_Interval
  <2> QED  BY <2>1, <2>3
<1>3. IsFiniteSet(KnownRuns)
  BY <1>1, <1>2, FS_Subset
<1>4. ASSUME NEW i \in KnownRuns PROVE Cardinality({k \in KnownRuns : k < i}) < StatusCap
  <2> DEFINE S == {k \in KnownRuns : k < i}
  <2>0. i \in 1..started /\ i \in Nat
    BY <1>1, <1>2
  <2>1. S \subseteq 1..(i - 1)
    <3> SUFFICES ASSUME NEW k \in KnownRuns, k < i PROVE k \in 1..(i - 1)
      OBVIOUS
    <3>1. k \in 1..started
      BY <1>1
    <3> QED  BY <1>2, <2>0, <3>1
  <2>2. IsFiniteSet(1..(i - 1)) /\ Cardinality(1..(i - 1)) = i - 1
    BY <2>0, FS_Interval
  <2>3. Cardinality(S) <= i - 1 /\ Cardinality(S) \in Nat
    <3> HIDE DEF S
    <3> QED  BY <2>1, <2>2, FS_Subset, FS_CardinalityType
  <2> QED  BY <1>2, <2>0, <2>3, PilotAssumption
<1> QED  BY <1>3, <1>4 DEF ListedRuns

\* The runs of a pilot that has passed: the Required latest of them were accepted.
LEMMA LatestAccepted ==
  ASSUME PilotInv, PilotPassed, started <= StatusCap, NEW i \in RunIds, anchor[i] # None,
         Cardinality({k \in RunIds : k > i /\ anchor[k] # None}) < Required
  PROVE  i \in Streak
<1> DEFINE Later == {k \in RunIds : k > i /\ anchor[k] # None}
<1>1. ListedRuns = KnownRuns /\ IsFiniteSet(KnownRuns)
  BY AllListed
<1>2. i \in ListedRuns
  BY <1>1 DEF KnownRuns, PilotInv, RunInv
<1> SUFFICES ASSUME i \notin Streak PROVE FALSE
  OBVIOUS
<1>3. PICK j \in ListedRuns : j >= i /\ ~AcceptedRun(j)
  BY <1>2 DEF Streak
<1>4. Streak \subseteq Later
  <2> SUFFICES ASSUME NEW k \in Streak PROVE k \in Later
    OBVIOUS
  <2>1. k \in ListedRuns /\ \A r \in ListedRuns : r >= k => AcceptedRun(r)
    BY DEF Streak
  <2>2. ~(j >= k)
    BY <1>3, <2>1
  <2>3. i \in Nat /\ j \in Nat /\ k \in Nat /\ k \in RunIds
    BY <1>1, <1>3, <2>1, PilotAssumption DEF KnownRuns, RunIds
  <2>4. k > i /\ AcceptedRun(k)
    BY <1>3, <2>1, <2>2, <2>3
  <2>5. anchor[k] # None
    BY <2>4 DEF AcceptedRun, ValidAnchor, ValidReceipt
  <2> QED  BY <2>3, <2>4, <2>5
<1>5. IsFiniteSet(Later) /\ Cardinality(Later) \in Nat
  <2>1. IsFiniteSet(RunIds)
    BY FS_Interval, PilotAssumption DEF RunIds
  <2>2. Later \subseteq RunIds
    OBVIOUS
  <2> QED  BY <2>1, <2>2, FS_Subset, FS_CardinalityType
<1>6. Cardinality(Streak) <= Cardinality(Later) /\ Cardinality(Streak) \in Nat
  <2> HIDE DEF Later
  <2> QED  BY <1>4, <1>5, FS_Subset, FS_CardinalityType
<1>7. Cardinality(Later) < Required /\ Cardinality(Streak) >= Required
  BY DEF PilotPassed
<1> HIDE DEF Later
<1> QED  BY <1>5, <1>6, <1>7, PilotAssumption

\* A pilot passes on the merits of its last runs, for any recordings, processes
\* and numbers of runs: an anchored run stays listed, and an accepted one is
\* anchored with what it did.
THEOREM PromotionTheorem == PilotSpec => []PromotionIsEarned
<1>1. PilotInv => PromotionIsEarned
  <2> SUFFICES ASSUME PilotInv, PilotPassed, started <= StatusCap, NEW i \in RunIds, anchor[i] # None,
                      Cardinality({k \in RunIds : k > i /\ anchor[k] # None}) < Required
               PROVE  /\ did[i] = [workflow |-> workflow, result |-> "verified"]
                      /\ review[i] # None /\ review[i].verdict = "correct"
    BY DEF PromotionIsEarned
  <2>1. AcceptedRun(i)
    <3>1. i \in Streak /\ i >= i
      BY LatestAccepted, PilotAssumption DEF RunIds
    <3> QED  BY <3>1 DEF Streak
  <2>2. PICK d \in Deeds : d = did[i] /\ d = folder[i].receipt
    BY <2>1, PilotFacts DEF AcceptedRun, ValidAnchor, ValidReceipt, PilotInv, RunInv
  <2>3. d.workflow = workflow /\ d.result = "verified"
    BY <2>1, <2>2 DEF AcceptedRun, ValidAnchor, ValidReceipt, PilotPassed, Unchanged
  <2>4. d = [workflow |-> workflow, result |-> "verified"]
    BY <2>3 DEF Deeds
  <2>5. review[i] # None /\ review[i].verdict = "correct"
    BY <2>1 DEF AcceptedRun
  <2> QED  BY <2>2, <2>4, <2>5
<1> QED  BY <1>1, PilotInitInv, PilotStepInv, PTL DEF PilotSpec

----------------------------------------------------------------------------
(* BrowserSuite *)

\* Truth values, as a set that the provers need not take apart.
Truth == BOOLEAN

\* Suites and their receipts, typed.
SuiteRecord == [step : SuiteSteps, manifest : Manifests \cup {None}, runs : 0..MaxSuiteRuns,
                run : 0..MaxSuiteRuns, todo : SUBSET Pages, page : Pages \cup {None},
                good : Truth, passed : Truth]

GateRecord == [manifest : Manifests, sealed : Truth, gate : Truth]

\* Steps of a check of a page.
Checking == {"batch", "close", "evidence", "collect"}

\* A gate that passed has seen all the pages of its manifest.
GateEarned(s, c) ==
  c.gate => \A r \in 1..c.manifest.required, p \in c.manifest.pages : <<s, r, p>> \in observed

\* What suite s knows when it is at k.
SuiteInv(s, k) ==
  /\ k.step # "idle" => k.manifest \in Manifests
  /\ k.run <= k.runs
  /\ k.step \in Checking => k.page \in Pages
  /\ k.step = "close" => ~k.good
  /\ k.step \in {"evidence", "collect"} /\ k.good => <<s, k.run, k.page>> \in observed
  /\ k.step \in {"summary", "sidecar"} => k.todo = {} /\ k.run = k.runs
  /\ k.step # "idle" => k.run # 0
  /\ k.step = "sidecar" => receipt[s] \in GateRecord /\ GateEarned(s, receipt[s])
  /\ k.step # "idle" /\ k.passed =>
       \A r \in 1..k.run, p \in k.manifest.pages :
         (r = k.run => p \notin k.todo /\ (k.step \in Checking => p # k.page))
         => <<s, r, p>> \in observed

GateInv(s, c) == c # None => GateEarned(s, c)

\* The types, and what each suite and each receipt has seen.
SuitesInv ==
  /\ manifest \in Manifests \cup {None}
  /\ browsers \subseteq Suites
  /\ proofs \subseteq Checks /\ observed \subseteq Checks
  /\ suite \in [Suites -> SuiteRecord]
  /\ receipt \in [Suites -> GateRecord \cup {None}]
  /\ \A s \in Suites : SuiteInv(s, suite[s]) /\ GateInv(s, receipt[s])

\* Suite s moves to k and may write its receipt c.
LEMMA SuiteMoves ==
  ASSUME SuitesInv, NEW s \in Suites, NEW k \in SuiteRecord, NEW c \in GateRecord \cup {None},
         Step(s, k), receipt' = [receipt EXCEPT ![s] = c],
         manifest' = manifest, browsers' \subseteq browsers \cup {s},
         proofs' \subseteq Checks, observed \subseteq observed', observed' \subseteq Checks,
         SuiteInv(s, k)', GateInv(s, c)'
  PROVE  SuitesInv'
<1>1. suite' = [suite EXCEPT ![s] = k] /\ suite' \in [Suites -> SuiteRecord]
      /\ receipt' \in [Suites -> GateRecord \cup {None}]
  BY DEF SuitesInv, Step
<1>2. ASSUME NEW t \in Suites PROVE SuiteInv(t, suite[t])' /\ GateInv(t, receipt[t])'
  <2>1. CASE t = s
    <3>1. suite'[t] = k /\ receipt'[t] = c
      BY <1>1, <2>1 DEF SuitesInv
    <3> QED  BY <2>1, <3>1 DEF SuiteInv, GateInv, GateEarned
  <2>2. CASE t # s
    <3>1. PICK j : j = suite[t] /\ j = suite'[t] /\ SuiteInv(t, j)
      BY <1>1, <2>2 DEF SuitesInv
    <3>2. PICK b : b = receipt[t] /\ b = receipt'[t] /\ GateInv(t, b)
      BY <2>2 DEF SuitesInv
    <3>3. SuiteInv(t, j)' /\ GateInv(t, b)'
      BY <3>1, <3>2 DEF SuiteInv, GateInv, GateEarned
    <3> QED  BY <3>1, <3>2, <3>3 DEF SuiteInv, GateInv, GateEarned
  <2> QED  BY <2>1, <2>2
<1>3. manifest' \in Manifests \cup {None} /\ browsers' \subseteq Suites
  BY DEF SuitesInv
<1> QED  BY <1>1, <1>2, <1>3 DEF SuitesInv

\* It moves and writes no receipt.
LEMMA SuiteMovesOn ==
  ASSUME SuitesInv, NEW s \in Suites, NEW k \in SuiteRecord, Step(s, k),
         receipt' = receipt, manifest' = manifest, browsers' \subseteq browsers \cup {s},
         proofs' \subseteq Checks, observed \subseteq observed', observed' \subseteq Checks,
         SuiteInv(s, k)'
  PROVE  SuitesInv'
<1>1. PICK c \in GateRecord \cup {None} : c = receipt[s] /\ GateInv(s, c)
  BY DEF SuitesInv
<1>2. receipt' = [receipt EXCEPT ![s] = c]
  BY <1>1 DEF SuitesInv
<1>3. GateInv(s, c)'
  BY <1>1 DEF GateInv, GateEarned
<1> QED  BY <1>2, <1>3, SuiteMoves

\* A suite at rest has its type.
LEMMA SuiteRest ==
  /\ SuiteAtRest \in SuiteRecord
  /\ SuiteAtRest.step = "idle" /\ SuiteAtRest.run = 0 /\ SuiteAtRest.runs = 0 /\ SuiteAtRest.passed
  BY SuiteAssumption DEF SuiteAtRest, SuiteRecord, SuiteSteps, Truth

\* The first state keeps the invariant.
LEMMA SuitesInit == SuiteInit => SuitesInv
<1> SUFFICES ASSUME SuiteInit PROVE SuitesInv
  OBVIOUS
<1>1. suite \in [Suites -> SuiteRecord] /\ receipt \in [Suites -> GateRecord \cup {None}]
  BY SuiteRest DEF SuiteInit
<1>2. \A s \in Suites : suite[s] = SuiteAtRest /\ receipt[s] = None
  BY DEF SuiteInit
<1>3. \A s \in Suites : SuiteInv(s, suite[s]) /\ GateInv(s, receipt[s])
  BY <1>2, SuiteRest DEF SuiteInv, GateInv, GateEarned, Checking
<1> QED  BY <1>1, <1>3 DEF SuiteInit, SuitesInv

\* Manifests are sealed, proofs deleted, browsers time out.
LEMMA OutsideSteps ==
  ASSUME SuitesInv,
         \/ \E m \in Manifests : SealManifest(m)
         \/ \E c \in Checks : DeleteProof(c)
         \/ \E s \in Suites : IdleTimeout(s)
  PROVE  SuitesInv'
<1>1. /\ manifest' \in Manifests \cup {None} /\ browsers' \subseteq Suites /\ proofs' \subseteq Checks
      /\ UNCHANGED <<receipt, suite, observed>>
  BY DEF SealManifest, DeleteProof, IdleTimeout, suiteFiles, SuitesInv
<1>2. \A s \in Suites : SuiteInv(s, suite[s])' /\ GateInv(s, receipt[s])'
  BY <1>1 DEF SuitesInv, SuiteInv, GateInv, GateEarned
<1> QED  BY <1>1, <1>2 DEF SuitesInv

\* A suite loads its manifest.
LEMMA LoadStep ==
  ASSUME SuitesInv, NEW s \in Suites, NEW n \in 1..MaxSuiteRuns, LoadManifest(s, n)
  PROVE  SuitesInv'
<1>1. PICK m \in Manifests : m = manifest
  BY DEF SuitesInv, LoadManifest
<1>2. m.pages \subseteq Pages
  BY SuiteAssumption
<1> PICK a \in SuiteRecord : a = SuiteAtRest
  BY SuiteRest
<1>3. PICK k : k = [a EXCEPT !.step = "pages", !.manifest = m, !.runs = n, !.run = 1, !.todo = m.pages]
  OBVIOUS
<1>4. k \in SuiteRecord /\ k.step = "pages" /\ k.manifest = m /\ k.runs = n /\ k.run = 1
      /\ k.todo = m.pages
  <2>1. n \in 0..MaxSuiteRuns /\ 1 \in 0..MaxSuiteRuns /\ "pages" \in SuiteSteps
    BY SuiteAssumption DEF SuiteSteps
  <2> QED  BY <1>2, <1>3, <2>1 DEF SuiteRecord
<1>5. Step(s, k) /\ UNCHANGED <<manifest, proofs, receipt, browsers, observed>>
  BY <1>1, <1>3 DEF LoadManifest, suiteFiles
<1>6. SuiteInv(s, k)'
  BY <1>4, SuiteAssumption DEF SuiteInv, Checking, GateEarned
<1> QED  BY <1>4, <1>5, <1>6, SuiteMovesOn DEF SuitesInv

\* Where suite s is, typed.
LEMMA SuiteAt ==
  ASSUME SuitesInv, NEW s \in Suites
  PROVE  \E a \in SuiteRecord : a = suite[s] /\ SuiteInv(s, a)
  BY DEF SuitesInv

\* It opens the browser for a page.
LEMMA OpenStep ==
  ASSUME SuitesInv, NEW s \in Suites, NEW p \in Pages, OpenBrowser(s, p)
  PROVE  SuitesInv'
<1>1. PICK a \in SuiteRecord : a = suite[s] /\ SuiteInv(s, a)
  BY SuiteAt
<1>2. PICK k : k = [a EXCEPT !.step = "batch", !.page = p, !.todo = @ \ {p}]
  OBVIOUS
<1>3. k \in SuiteRecord /\ k.step = "batch" /\ k.page = p /\ k.todo = a.todo \ {p}
      /\ k.manifest = a.manifest /\ k.runs = a.runs /\ k.run = a.run /\ k.passed = a.passed
  BY <1>2 DEF SuiteRecord, SuiteSteps
<1>4. /\ a.step = "pages" /\ p \in a.todo /\ Step(s, k) /\ browsers' = browsers \cup {s}
      /\ UNCHANGED <<manifest, proofs, receipt, observed>>
  BY <1>1, <1>2 DEF OpenBrowser, suiteFiles
<1>5. SuiteInv(s, k)'
  BY <1>1, <1>3, <1>4 DEF SuiteInv, Checking, GateEarned
<1> QED  BY <1>3, <1>4, <1>5, SuiteMovesOn DEF SuitesInv

\* The page of a check is one of the checks.
LEMMA CheckOf ==
  ASSUME NEW s \in Suites, NEW a \in SuiteRecord, SuiteInv(s, a), a.step \in Checking
  PROVE  <<s, a.run, a.page>> \in Checks
  BY SuiteAssumption DEF SuiteInv, SuiteRecord, Checks, Checking

\* It checks a page.
LEMMA BatchStep ==
  ASSUME SuitesInv, NEW s \in Suites, NEW good \in BOOLEAN, Batch(s, good)
  PROVE  SuitesInv'
<1>1. PICK a \in SuiteRecord : a = suite[s] /\ SuiteInv(s, a)
  BY SuiteAt
<1>2. PICK k : k = [a EXCEPT !.step = "evidence", !.good = good]
  OBVIOUS
<1>3. k \in SuiteRecord /\ k.step = "evidence" /\ k.page = a.page /\ k.todo = a.todo
      /\ k.manifest = a.manifest /\ k.runs = a.runs /\ k.run = a.run
      /\ k.passed = a.passed /\ k.good = good
  BY <1>2 DEF SuiteRecord, SuiteSteps, Truth
<1>4. /\ a.step = "batch" /\ Step(s, k) /\ browsers' = browsers \ {s}
      /\ observed' = IF good THEN observed \cup {<<s, a.run, a.page>>} ELSE observed
      /\ UNCHANGED <<manifest, proofs, receipt>>
  BY <1>1, <1>2 DEF Batch, suiteFiles
<1>5. observed \subseteq observed' /\ observed' \subseteq Checks /\ (good => <<s, a.run, a.page>> \in observed')
  BY <1>1, <1>4, CheckOf DEF SuitesInv, Checking
<1>6. SuiteInv(s, k)'
  BY <1>1, <1>3, <1>4, <1>5 DEF SuiteInv, Checking, GateEarned
<1> QED  BY <1>3, <1>4, <1>5, <1>6, SuiteMovesOn DEF SuitesInv

\* A check fails, and the browser closes.
LEMMA FailSteps ==
  ASSUME SuitesInv, NEW s \in Suites, BatchFails(s) \/ CloseBrowser(s)
  PROVE  SuitesInv'
<1>1. PICK a \in SuiteRecord : a = suite[s] /\ SuiteInv(s, a)
  BY SuiteAt
<1>2. PICK k : k = IF BatchFails(s) THEN [a EXCEPT !.step = "close", !.good = FALSE]
                                  ELSE [a EXCEPT !.step = "evidence"]
  OBVIOUS
<1>3. k \in SuiteRecord /\ k.page = a.page /\ k.todo = a.todo
      /\ k.manifest = a.manifest /\ k.runs = a.runs /\ k.run = a.run /\ k.passed = a.passed
  BY <1>2 DEF SuiteRecord, SuiteSteps, Truth
<1>4. ~k.good /\ a.step \in {"batch", "close"} /\ k.step \in {"close", "evidence"}
  BY <1>1, <1>2 DEF BatchFails, CloseBrowser, SuiteRecord, SuiteInv
<1>5. /\ Step(s, k) /\ browsers' \subseteq browsers
      /\ UNCHANGED <<manifest, proofs, receipt, observed>>
  BY <1>1, <1>2 DEF BatchFails, CloseBrowser, suiteFiles
<1>6. SuiteInv(s, k)'
  BY <1>1, <1>3, <1>4, <1>5 DEF SuiteInv, Checking, GateEarned
<1> QED  BY <1>3, <1>5, <1>6, SuiteMovesOn DEF SuitesInv

\* The receipt of a check is written.
LEMMA ProofStep ==
  ASSUME SuitesInv, NEW s \in Suites, WriteProof(s)
  PROVE  SuitesInv'
<1>1. PICK a \in SuiteRecord : a = suite[s] /\ SuiteInv(s, a)
  BY SuiteAt
<1>2. PICK written \in BOOLEAN : Step(s, [a EXCEPT !.step = "collect", !.good = @ /\ written])
  BY <1>1 DEF WriteProof
<1> DEFINE g == a.good /\ written
<1>3. g \in Truth /\ (g => a.good)
  BY DEF Truth
<1>4. Step(s, [a EXCEPT !.step = "collect", !.good = g])
  BY <1>2
<1> HIDE DEF g
<1>5. PICK k : k = [a EXCEPT !.step = "collect", !.good = g]
  OBVIOUS
<1>6. k \in SuiteRecord /\ k.step = "collect" /\ k.page = a.page /\ k.todo = a.todo
      /\ k.manifest = a.manifest /\ k.runs = a.runs /\ k.run = a.run
      /\ k.passed = a.passed /\ k.good = g
  BY <1>3, <1>5 DEF SuiteRecord, SuiteSteps
<1>7. /\ a.step = "evidence" /\ proofs' = proofs \cup {<<s, a.run, a.page>>}
      /\ UNCHANGED <<manifest, receipt, browsers, observed>>
  BY <1>1 DEF WriteProof
<1>8. proofs' \subseteq Checks
  BY <1>1, <1>7, CheckOf DEF SuitesInv, Checking
<1>9. SuiteInv(s, k)'
  BY <1>1, <1>3, <1>6, <1>7 DEF SuiteInv, Checking, GateEarned
<1> QED  BY <1>4, <1>5, <1>6, <1>7, <1>8, <1>9, SuiteMovesOn DEF SuitesInv

\* A suite collects what the check said.
LEMMA CollectStep ==
  ASSUME SuitesInv, NEW s \in Suites, Collect(s)
  PROVE  SuitesInv'
<1>1. PICK a \in SuiteRecord : a = suite[s] /\ SuiteInv(s, a)
  BY SuiteAt
<1> DEFINE g == StillPassed(s)
           next == IF a.todo # {} THEN [step |-> "pages", run |-> a.run, todo |-> a.todo]
                   ELSE IF a.run < a.runs
                   THEN [step |-> "pages", run |-> a.run + 1, todo |-> a.manifest.pages]
                   ELSE [step |-> "summary", run |-> a.run, todo |-> {}]
<1>2. /\ a.step = "collect" /\ UNCHANGED <<manifest, proofs, receipt, browsers, observed>>
      /\ Step(s, [a EXCEPT !.step = next.step, !.run = next.run, !.todo = next.todo, !.passed = g])
  BY <1>1 DEF Collect, suiteFiles
<1>3. g \in Truth /\ (g => a.passed /\ a.good)
  BY <1>1 DEF StillPassed, Truth
<1>4. /\ a.manifest \in Manifests /\ a.manifest.pages \subseteq Pages
      /\ a.run \in Nat /\ a.runs \in Nat /\ a.runs <= MaxSuiteRuns /\ a.run <= a.runs /\ a.run # 0
      /\ a.todo \subseteq Pages
  BY <1>1, <1>2, SuiteAssumption DEF SuiteInv, SuiteRecord
<1>5. /\ next.step \in SuiteSteps /\ next.run \in 0..MaxSuiteRuns /\ next.todo \in SUBSET Pages
      /\ \/ /\ a.todo # {} /\ next.step = "pages" /\ next.run = a.run /\ next.todo = a.todo
         \/ /\ a.todo = {} /\ a.run < a.runs
            /\ next.step = "pages" /\ next.run = a.run + 1 /\ next.todo = a.manifest.pages
         \/ /\ a.todo = {} /\ a.run = a.runs
            /\ next.step = "summary" /\ next.run = a.run /\ next.todo = {}
  <2>1. CASE a.todo # {}
    <3>1. next = [step |-> "pages", run |-> a.run, todo |-> a.todo]
      BY <2>1
    <3> HIDE DEF next
    <3> QED  BY <1>4, <2>1, <3>1, SuiteAssumption DEF SuiteSteps
  <2>2. CASE a.todo = {} /\ a.run < a.runs
    <3>1. next = [step |-> "pages", run |-> a.run + 1, todo |-> a.manifest.pages]
      BY <2>2
    <3> HIDE DEF next
    <3> QED  BY <1>4, <2>2, <3>1, SuiteAssumption DEF SuiteSteps
  <2>3. CASE a.todo = {} /\ a.run = a.runs
    <3>1. next = [step |-> "summary", run |-> a.run, todo |-> {}]
      BY <1>4, <2>3
    <3> HIDE DEF next
    <3> QED  BY <1>4, <2>3, <3>1, SuiteAssumption DEF SuiteSteps
  <2> HIDE DEF next
  <2>4. a.todo = {} => a.run < a.runs \/ a.run = a.runs
    BY <1>4
  <2> QED  BY <2>1, <2>2, <2>3, <2>4
<1> HIDE DEF g, next
<1> PICK step \in SuiteSteps, run \in 0..MaxSuiteRuns, todo \in SUBSET Pages :
      step = next.step /\ run = next.run /\ todo = next.todo
  BY <1>5
<1>6. PICK k : k = [a EXCEPT !.step = step, !.run = run, !.todo = todo, !.passed = g]
  OBVIOUS
<1>7. k \in SuiteRecord /\ k.step = step /\ k.run = run /\ k.todo = todo /\ k.passed = g
      /\ k.manifest = a.manifest /\ k.runs = a.runs
  BY <1>3, <1>6 DEF SuiteRecord
<1>8. g => \A r \in 1..a.run, p \in a.manifest.pages :
             (r = a.run => p \notin a.todo) => <<s, r, p>> \in observed
  BY <1>1, <1>2, <1>3 DEF SuiteInv, Checking, GateEarned
<1>9. k.step \notin Checking /\ k.step # "idle" /\ k.step # "close"
  BY <1>5, <1>7 DEF Checking
<1>10. g => \A r \in 1..run, p \in a.manifest.pages :
              (r = run => p \notin todo) => <<s, r, p>> \in observed
  BY <1>4, <1>5, <1>8
<1>11. run <= a.runs /\ run # 0 /\ (step \in {"summary", "sidecar"} => todo = {} /\ run = a.runs)
  BY <1>4, <1>5
<1>12. SuiteInv(s, k)'
  BY <1>2, <1>4, <1>5, <1>7, <1>9, <1>10, <1>11 DEF SuiteInv
<1>13. Step(s, k)
  BY <1>2, <1>5, <1>6
<1> QED  BY <1>2, <1>7, <1>12, <1>13, SuiteMovesOn DEF SuitesInv

\* The receipt of a suite is written and sealed.
LEMMA ReceiptSteps ==
  ASSUME SuitesInv, NEW s \in Suites, WriteSuiteReceipt(s) \/ WriteSuiteSidecar(s)
  PROVE  SuitesInv'
<1>1. PICK a \in SuiteRecord : a = suite[s] /\ SuiteInv(s, a)
  BY SuiteAt
<1>2. CASE WriteSuiteReceipt(s)
  <2> DEFINE g == a.passed /\ a.runs >= a.manifest.required
             c0 == [manifest |-> a.manifest, sealed |-> FALSE, gate |-> g]
  <2>1. a.step = "summary" /\ Step(s, [a EXCEPT !.step = "sidecar"]) /\ receipt' = [receipt EXCEPT ![s] = c0]
        /\ UNCHANGED <<manifest, proofs, browsers, observed>>
    BY <1>1, <1>2 DEF WriteSuiteReceipt
  <2>2. g \in Truth /\ (g => a.passed /\ a.runs >= a.manifest.required) /\ FALSE \in Truth
    BY DEF Truth
  <2> HIDE DEF g
  <2>3. a.manifest \in Manifests /\ a.manifest.required \in Nat /\ a.run \in Nat
        /\ a.runs = a.run /\ a.todo = {}
    BY <1>1, <2>1, SuiteAssumption DEF SuiteInv, SuiteRecord
  <2>4. c0 \in GateRecord /\ c0.manifest = a.manifest /\ c0.gate = g
    BY <2>2, <2>3 DEF GateRecord
  <2> HIDE DEF c0
  <2>5. PICK c \in GateRecord : c = c0
    BY <2>4
  <2>6. PICK k : k = [a EXCEPT !.step = "sidecar"]
    OBVIOUS
  <2>7. k \in SuiteRecord /\ k.step = "sidecar" /\ k.run = a.run /\ k.todo = a.todo /\ k.passed = a.passed
        /\ k.manifest = a.manifest /\ k.runs = a.runs
    BY <2>6 DEF SuiteRecord, SuiteSteps
  <2>9. GateEarned(s, c)'
    <3>1. c.gate => a.passed /\ a.runs >= a.manifest.required
      BY <2>2, <2>4, <2>5
    <3>2. a.passed => \A r \in 1..a.run, p \in a.manifest.pages : <<s, r, p>> \in observed
      BY <1>1, <2>1, <2>3 DEF SuiteInv, Checking, GateEarned
    <3>3. a.runs >= a.manifest.required => \A r \in 1..a.manifest.required : r \in 1..a.run
      BY <2>3
    <3> QED  BY <2>1, <2>4, <2>5, <3>1, <3>2, <3>3 DEF GateEarned
  <2>8. SuiteInv(s, k)'
    <3>1. receipt'[s] = c
      BY <2>1, <2>5 DEF SuitesInv
    <3>2. receipt'[s] \in GateRecord /\ GateEarned(s, receipt[s])'
      BY <2>9, <3>1 DEF GateEarned
    <3>3. k.manifest \in Manifests /\ k.run <= k.runs /\ k.run # 0 /\ k.todo = {} /\ k.run = k.runs
      BY <1>1, <2>1, <2>7 DEF SuiteInv
    <3>4. k.passed => \A r \in 1..k.run, p \in k.manifest.pages : <<s, r, p>> \in observed'
      BY <1>1, <2>1, <2>3, <2>7 DEF SuiteInv, Checking
    <3> QED  BY <2>7, <3>2, <3>3, <3>4 DEF SuiteInv, Checking
  <2>10. GateInv(s, c)'
    BY <2>9 DEF GateInv
  <2> QED  BY <2>1, <2>5, <2>6, <2>7, <2>8, <2>10, SuiteMoves DEF SuitesInv
<1>3. CASE WriteSuiteSidecar(s)
  <2>1. PICK b \in GateRecord : b = receipt[s] /\ GateEarned(s, b)
    BY <1>1, <1>3 DEF WriteSuiteSidecar, SuiteInv
  <2>2. /\ Step(s, SuiteAtRest) /\ receipt' = [receipt EXCEPT ![s].sealed = TRUE]
        /\ UNCHANGED <<manifest, proofs, browsers, observed>>
    BY <1>3 DEF WriteSuiteSidecar
  <2>3. SuiteInv(s, SuiteAtRest)'
    BY SuiteRest DEF SuiteInv, Checking
  <2>5. PICK c : c = [b EXCEPT !.sealed = TRUE]
    OBVIOUS
  <2>6. c \in GateRecord /\ c.manifest = b.manifest /\ c.gate = b.gate
    BY <2>5 DEF GateRecord, Truth
  <2>7. receipt' = [receipt EXCEPT ![s] = c]
    BY <2>1, <2>2, <2>5
  <2>8. GateInv(s, c)'
    BY <2>1, <2>2, <2>6 DEF GateInv, GateEarned
  <2> QED  BY <2>2, <2>3, <2>6, <2>7, <2>8, SuiteRest, SuiteMoves DEF SuitesInv
<1> QED  BY <1>2, <1>3

\* A suite dies.
LEMMA DiesStep ==
  ASSUME SuitesInv, NEW s \in Suites, SuiteDies(s)
  PROVE  SuitesInv'
<1>1. Step(s, SuiteAtRest) /\ UNCHANGED <<manifest, proofs, receipt, browsers, observed>>
  BY DEF SuiteDies, suiteFiles
<1>2. SuiteInv(s, SuiteAtRest)'
  BY SuiteRest DEF SuiteInv, Checking, GateEarned
<1> QED  BY <1>1, <1>2, SuiteRest, SuiteMovesOn DEF SuitesInv

\* Every step keeps the invariant.
LEMMA SuiteStepInv == SuitesInv /\ [SuiteNext]_suiteVars => SuitesInv'
<1> SUFFICES ASSUME SuitesInv, [SuiteNext]_suiteVars PROVE SuitesInv'
  OBVIOUS
<1>1. CASE UNCHANGED suiteVars
  BY <1>1 DEF suiteVars, suiteFiles, SuitesInv, SuiteInv, GateInv, GateEarned
<1>2. CASE SuiteNext
  BY <1>2, OutsideSteps, LoadStep, OpenStep, BatchStep, FailSteps, ProofStep, CollectStep,
     ReceiptSteps, DiesStep DEF SuiteNext
<1> QED  BY <1>1, <1>2

\* Manifest, proofs, receipts and suites keep their types
\* (browser_operator.py).
THEOREM SuiteTypesTheorem == SuiteSpec => []SuiteTypeOK
<1>1. SuitesInv => SuiteTypeOK
  <2> SUFFICES ASSUME SuitesInv PROVE SuiteTypeOK
    OBVIOUS
  <2>1. ASSUME NEW s \in Suites
        PROVE  /\ suite[s].step \in SuiteSteps /\ suite[s].run <= suite[s].runs
               /\ suite[s].runs <= MaxSuiteRuns
               /\ receipt[s] # None => receipt[s].manifest \in Manifests
    <3>1. PICK a \in SuiteRecord : a = suite[s] /\ SuiteInv(s, a)
      BY SuiteAt
    <3>2. PICK c \in GateRecord \cup {None} : c = receipt[s]
      BY DEF SuitesInv
    <3>3. a.step \in SuiteSteps /\ a.run <= a.runs /\ a.runs <= MaxSuiteRuns
      BY <3>1, SuiteAssumption DEF SuiteInv, SuiteRecord
    <3>4. c # None => c.manifest \in Manifests
      BY DEF GateRecord
    <3> QED  BY <3>1, <3>2, <3>3, <3>4
  <2> QED  BY <2>1 DEF SuitesInv, SuiteTypeOK
<1> QED  BY <1>1, SuitesInit, SuiteStepInv, PTL DEF SuiteSpec

\* A gate that passed was earned, for any manifests and suites: a suite that
\* has passed so far has observed all pages of its finished runs.
THEOREM GateTheorem == SuiteSpec => []GateIsEarned
<1>1. SuitesInv => GateIsEarned
  BY DEF SuitesInv, GateInv, GateEarned, GateIsEarned
<1> QED  BY <1>1, SuitesInit, SuiteStepInv, PTL DEF SuiteSpec

----------------------------------------------------------------------------
(* RuntimeGuard *)

\* Guards, the task, the journal and the supervisor, typed.
GuardRecord == [step : GuardSteps, run : 0..MaxGuardRuns, store : Nat, build : Nat, unclear : Truth,
                backend : Truth, ready : Truth, code : Codes \cup {None}]

TaskRecord == [run : 0..MaxGuardRuns, going : Truth, result : Codes \cup {None}]

JournalRecord == [code : Codes, after : 0..MaxGuardRuns, by : 1..MaxGuardRuns]

WatchSteps == {"idle", "task", "journal", "readiness", "journal again", "again", "trusted"}

WatchRecord == [step : WatchSteps, task : TaskRecord \cup {None}, journal : JournalRecord \cup {None},
                store : Nat, build : Nat, retried : Truth]

\* The types of the variables.
MachineInv ==
  /\ ollama \in {"down", "starting", "bare", "up"} /\ owner \in Guards \cup {None}
  /\ service \in {"absent", "live", "other"}
  /\ storeId \in Nat /\ build \in Nat /\ trouble \in 0..MaxTrouble /\ storeId + build <= trouble

RecordsInv ==
  /\ guardLock \in Guards \cup {None}
  /\ guardRuns \in 0..MaxGuardRuns
  /\ journal \in JournalRecord \cup {None}
  /\ proved \subseteq 1..guardRuns

\* A task that is over with success recorded a ready result itself.
TaskInv ==
  /\ task \in TaskRecord
  /\ ~task.going /\ task.result = 0 => task.run \in proved

\* What guard g knows when it is at k.
GuardAt(g, k) ==
  /\ k.step # "idle" => k.run \in 1..guardRuns
  /\ k.step \in {"record", "commit"} => k.code \in Codes
  /\ k.step = "release" /\ k.code = 0 => k.run \in proved
  /\ g = Scheduled /\ k.step # "idle" => task.going /\ task.run = k.run

\* What the supervisor knows when it is at k.
WatchInv(k) ==
  /\ k \in WatchRecord
  /\ k.step \in {"journal", "readiness", "journal again", "again"} => ~k.task.going
  /\ k.step \in {"readiness", "journal again", "again"} => k.task.result = 0

\* The types, what the guards know of their runs, and what the supervisor knows
\* of the task.
GuardsInv ==
  /\ MachineInv /\ RecordsInv /\ TaskInv
  /\ guard \in [Guards -> GuardRecord]
  /\ \A g \in Guards : GuardAt(g, guard[g])
  /\ WatchInv(supervisor)

\* A guard at rest has its type.
LEMMA GuardRest == GuardAtRest \in GuardRecord /\ GuardAtRest.step = "idle"
  BY GuardAssumption DEF GuardAtRest, GuardRecord, GuardSteps, Truth

\* A supervisor at rest knows nothing.
LEMMA WatchRest == WatchInv(Watching) /\ Watching.step = "idle"
  BY DEF WatchInv, WatchRecord, Watching, WatchSteps, Truth

\* What the invariant says of one guard.
LEMMA GuardFunction == ASSUME GuardsInv, NEW g \in Guards
                       PROVE \E a \in GuardRecord : a = guard[g] /\ GuardAt(g, a)
  BY DEF GuardsInv

\* The first state keeps the invariant.
LEMMA GuardsInit == GuardInit => GuardsInv
<1> SUFFICES ASSUME GuardInit PROVE GuardsInv
  OBVIOUS
<1>1. MachineInv /\ RecordsInv
  BY GuardAssumption DEF GuardInit, MachineInv, RecordsInv
<1>2. task = [run |-> 0, going |-> FALSE, result |-> None]
  BY DEF GuardInit
<1>3. TaskInv
  <2>1. task \in TaskRecord
    BY <1>2, GuardAssumption DEF TaskRecord, Truth
  <2> QED  BY <1>2, <2>1, GuardAssumption DEF TaskInv, Codes
<1>4. guard \in [Guards -> GuardRecord] /\ \A g \in Guards : GuardAt(g, guard[g])
  BY GuardRest DEF GuardInit, GuardAt
<1> QED  BY <1>1, <1>3, <1>4, WatchRest DEF GuardInit, GuardsInv

\* Guard g moves to k; the task is touched by the scheduled guard alone.
LEMMA GuardMoves ==
  ASSUME GuardsInv, NEW g \in Guards, NEW k \in GuardRecord, MoveGuard(g, k), GuardAt(g, k)',
         MachineInv', RecordsInv', TaskInv', proved \subseteq proved', guardRuns <= guardRuns',
         g # Scheduled => task' = task, supervisor' = supervisor
  PROVE  GuardsInv'
<1>1. guard' = [guard EXCEPT ![g] = k] /\ guard' \in [Guards -> GuardRecord]
  BY DEF GuardsInv, MoveGuard
<1>2. ASSUME NEW q \in Guards PROVE GuardAt(q, guard[q])'
  <2>1. CASE q = g
    <3>1. guard'[q] = k
      BY <1>1, <2>1 DEF GuardsInv
    <3> QED  BY <2>1, <3>1 DEF GuardAt
  <2>2. CASE q # g
    <3>1. PICK a \in GuardRecord : a = guard[q] /\ a = guard'[q] /\ GuardAt(q, a)
      BY <1>1, <2>2 DEF GuardsInv
    <3>2. q = Scheduled => task' = task
      BY <2>2
    <3>3. guardRuns \in Int /\ guardRuns' \in Int
      BY DEF GuardsInv, RecordsInv
    <3>4. a.run \in 1..guardRuns => a.run \in 1..guardRuns'
      BY <3>3
    <3> QED  BY <3>1, <3>2, <3>4 DEF GuardAt
  <2> QED  BY <2>1, <2>2
<1>3. WatchInv(supervisor)'
  BY DEF GuardsInv, WatchInv
<1> QED  BY <1>1, <1>2, <1>3 DEF GuardsInv

\* It goes on and changes nothing but the machine.
LEMMA GuardGoesOn ==
  ASSUME GuardsInv, NEW g \in Guards, NEW k \in GuardRecord, MoveGuard(g, k),
         guard[g].step # "idle", k.run = guard[g].run,
         k.step \notin {"record", "commit"} \/ k.code \in Codes,
         k.step # "release" \/ k.code # 0,
         MachineInv', UNCHANGED <<guardLock, records, task, supervisor>>
  PROVE  GuardsInv'
<1>1. UNCHANGED <<guardLock, guardRuns, journal, proved, task, supervisor>>
  BY DEF records
<1>2. RecordsInv' /\ TaskInv' /\ guardRuns <= guardRuns'
  BY <1>1 DEF GuardsInv, RecordsInv, TaskInv
<1>3. PICK a \in GuardRecord : a = guard[g] /\ GuardAt(g, a)
  BY GuardFunction
<1>4. GuardAt(g, k)'
  BY <1>1, <1>3 DEF GuardAt
<1> QED  BY <1>1, <1>2, <1>4, GuardMoves

\* The machine rests.
LEMMA MachineStays ==
  ASSUME GuardsInv, UNCHANGED machine PROVE MachineInv'
  BY DEF machine, GuardsInv, MachineInv

\* A guard settles on its answer, with or without a record.
LEMMA AnswerRecord ==
  ASSUME GuardsInv, NEW g \in Guards, guard[g].step # "idle", NEW code \in Codes, NEW record \in BOOLEAN,
         code = 0 => record, GuardAnswers(g, code, record), MachineInv',
         UNCHANGED <<guardLock, records, task, supervisor>>
  PROVE  GuardsInv'
<1>1. PICK a \in GuardRecord : a = guard[g]
  BY GuardFunction
<1>2. PICK step \in GuardSteps : step = IF record THEN "record" ELSE "release"
  BY DEF GuardSteps
<1>3. PICK k : k = [a EXCEPT !.step = step, !.code = code]
  OBVIOUS
<1>4. k \in GuardRecord /\ k.step = step /\ k.code = code /\ k.run = a.run
  BY <1>3 DEF GuardRecord
<1>5. MoveGuard(g, k)
  BY <1>1, <1>2, <1>3 DEF GuardAnswers
<1>6. k.code \in Codes /\ (k.step # "release" \/ k.code # 0)
  BY <1>2, <1>4
<1> QED  BY <1>1, <1>4, <1>5, <1>6, GuardGoesOn

\* The machine changes on its own.
LEMMA MachineSteps ==
  ASSUME GuardsInv, OllamaListens \/ OllamaChanges \/ ServiceChanges \/ StoreOrBuildChanges
  PROVE  GuardsInv'
<1>1. UNCHANGED <<guardLock, guardRuns, journal, proved, task, guard, supervisor>>
  BY DEF OllamaListens, OllamaChanges, ServiceChanges, StoreOrBuildChanges, Elsewhere, records
<1>2. RecordsInv' /\ TaskInv' /\ WatchInv(supervisor)' /\ \A g \in Guards : GuardAt(g, guard[g])'
  BY <1>1 DEF GuardsInv, RecordsInv, TaskInv, WatchInv, GuardAt
<1>3. MachineInv
  BY DEF GuardsInv
<1>4. MachineInv'
  BY <1>3, GuardAssumption DEF MachineInv, OllamaListens, OllamaChanges, ServiceChanges,
     StoreOrBuildChanges,
     TroubleHappens
<1> QED  BY <1>1, <1>2, <1>4 DEF GuardsInv

\* A guard starts and numbers its run.
LEMMA StartStep ==
  ASSUME GuardsInv, NEW g \in Guards, StartGuard(g)
  PROVE  GuardsInv'
<1>1. /\ guardRuns' = guardRuns + 1 /\ guardRuns \in 0..MaxGuardRuns /\ guardRuns < MaxGuardRuns
      /\ UNCHANGED <<guardLock, proved, supervisor>> /\ UNCHANGED machine
  BY DEF StartGuard, Watched, GuardsInv, RecordsInv
<1> PICK n \in 1..MaxGuardRuns : n = guardRuns'
  BY <1>1, GuardAssumption
<1> PICK a \in GuardRecord : a = GuardAtRest
  BY GuardRest
<1> PICK st \in Nat : st = storeId
  BY DEF GuardsInv, MachineInv
<1>2. PICK k : k = [a EXCEPT !.step = "pinned", !.run = n, !.store = st]
  OBVIOUS
<1>3. k \in GuardRecord /\ k.step = "pinned" /\ k.run = n
  <2>1. n \in 0..MaxGuardRuns /\ "pinned" \in GuardSteps
    BY GuardAssumption DEF GuardSteps
  <2> QED  BY <1>2, <2>1 DEF GuardRecord
<1>4. MoveGuard(g, k)
  BY <1>2 DEF StartGuard
<1>5. g # Scheduled => task' = task /\ journal' = journal
  BY DEF StartGuard
<1> DEFINE t0 == [run |-> n, going |-> TRUE, result |-> None]
<1>6. g = Scheduled => task' = t0
  BY DEF StartGuard
<1>7. t0 \in TaskRecord /\ t0.going /\ t0.run = n
  BY GuardAssumption DEF TaskRecord, Truth
<1> HIDE DEF t0
<1>8. TaskInv'
  <2>1. CASE g = Scheduled
    BY <1>6, <1>7, <2>1 DEF TaskInv
  <2>2. CASE g # Scheduled
    BY <1>1, <1>5, <2>2 DEF TaskInv, GuardsInv
  <2> QED  BY <2>1, <2>2
<1>9. journal' \in JournalRecord \cup {None}
  <2>1. PICK j \in JournalRecord \cup {None} : j = journal
    BY DEF GuardsInv, RecordsInv
  <2>2. CASE journal' = journal
    BY <2>1, <2>2
  <2>3. CASE j # None /\ journal' = [j EXCEPT !.after = n]
    <3>1. j \in JournalRecord
      BY <2>3
    <3> PICK z : z = [j EXCEPT !.after = n]
      OBVIOUS
    <3>2. z \in JournalRecord
      BY <3>1, GuardAssumption DEF JournalRecord
    <3> QED  BY <2>3, <3>2
  <2>4. journal' = journal \/ (j # None /\ journal' = [j EXCEPT !.after = n])
    <3>1. CASE g = Scheduled
      <4>1. journal' \in {journal} \cup IF journal = None THEN {} ELSE {[journal EXCEPT !.after = n]}
        BY <3>1 DEF StartGuard
      <4> QED  BY <2>1, <4>1
    <3> QED  BY <1>5, <3>1
  <2> QED  BY <2>2, <2>3, <2>4
<1>10. RecordsInv'
  <2>1. guardLock' \in Guards \cup {None} /\ proved' \subseteq 1..guardRuns
    BY <1>1 DEF GuardsInv, RecordsInv
  <2>2. guardRuns' \in 0..MaxGuardRuns /\ 1..guardRuns \subseteq 1..guardRuns'
    BY <1>1, GuardAssumption
  <2> QED  BY <1>9, <2>1, <2>2 DEF RecordsInv
<1>11. GuardAt(g, k)'
  BY <1>1, <1>3, <1>6, <1>7, GuardAssumption DEF GuardAt
<1>12. guardRuns <= guardRuns'
  BY <1>1
<1> QED  BY <1>1, <1>3, <1>4, <1>5, <1>8, <1>10, <1>11, <1>12, MachineStays, GuardMoves

\* The steps of a guard that change the machine at most.
LEMMA PlainStep ==
  ASSUME GuardsInv, NEW g \in Guards, guard[g].step # "idle",
         NEW step \in GuardSteps \ {"idle", "record", "commit", "release"},
         NEW b \in BOOLEAN, NEW n \in Nat,
         \/ GuardGoes(g, step)
         \/ MoveGuard(g, [guard[g] EXCEPT !.step = step, !.unclear = b])
         \/ MoveGuard(g, [guard[g] EXCEPT !.step = step, !.backend = b])
         \/ MoveGuard(g, [guard[g] EXCEPT !.step = step, !.ready = b])
         \/ MoveGuard(g, [guard[g] EXCEPT !.step = step, !.build = n]),
         MachineInv', UNCHANGED <<guardLock, records, task, supervisor>>
  PROVE  GuardsInv'
<1> PICK a \in GuardRecord : a = guard[g]
  BY GuardFunction
<1> PICK k : \/ k = [a EXCEPT !.step = step] /\ MoveGuard(g, k)
             \/ k = [a EXCEPT !.step = step, !.unclear = b] /\ MoveGuard(g, k)
             \/ k = [a EXCEPT !.step = step, !.backend = b] /\ MoveGuard(g, k)
             \/ k = [a EXCEPT !.step = step, !.ready = b] /\ MoveGuard(g, k)
             \/ k = [a EXCEPT !.step = step, !.build = n] /\ MoveGuard(g, k)
  BY DEF GuardGoes
<1>1. k \in GuardRecord /\ k.step = step /\ k.run = a.run
  BY DEF GuardRecord, Truth
<1>2. MoveGuard(g, k)
  OBVIOUS
<1> QED  BY <1>1, <1>2, GuardGoesOn

\* No step of these ends a guard's run or records anything.
LEMMA WatchingSteps ==
  ASSUME GuardsInv, NEW g \in Guards,
         \/ PinBuild(g) \/ ProbeServer(g) \/ ConfirmMissing(g) \/ CannotSpawn(g)
         \/ ReadService(g) \/ LookAtAll(g) \/ Readiness(g) \/ LookAtAllAgain(g)
  PROVE  GuardsInv'
<1>1. guard[g].step # "idle"
  BY DEF PinBuild, ProbeServer, ConfirmMissing, CannotSpawn, ReadService, LookAtAll, Readiness,
     LookAtAllAgain
<1>2. MachineInv' /\ UNCHANGED <<guardLock, records, task, supervisor>>
  BY MachineStays DEF PinBuild, ProbeServer, ConfirmMissing, CannotSpawn, ReadService, LookAtAll,
     Readiness,
     LookAtAllAgain, Quiet, Watched
<1>3. ASSUME PinBuild(g) PROVE GuardsInv'
  <2>1. CASE MoveGuard(g, [guard[g] EXCEPT !.step = "probe", !.build = build])
    <3>1. build \in Nat /\ "probe" \in GuardSteps \ {"idle", "record", "commit", "release"} /\ TRUE \in BOOLEAN
      BY DEF GuardsInv, MachineInv, GuardSteps
    <3> QED  BY <1>1, <1>2, <2>1, <3>1, PlainStep
  <2>0. 2 \in Codes /\ 2 # 0 /\ TRUE \in BOOLEAN /\ FALSE \in BOOLEAN
    BY DEF Codes
  <2>2. CASE GuardAnswers(g, 2, TRUE)
    BY <1>1, <1>2, <2>0, <2>2, AnswerRecord
  <2>3. CASE GuardAnswers(g, 2, FALSE)
    BY <1>1, <1>2, <2>0, <2>3, AnswerRecord
  <2> QED  BY <1>3, <2>1, <2>2, <2>3 DEF PinBuild
<1>4. ASSUME ProbeServer(g) \/ ConfirmMissing(g) PROVE GuardsInv'
  <2>1. Reached(g) \/ GuardGoes(g, "confirm") \/ GuardGoes(g, "spawn") \/ Unclear(g, "service")
    BY <1>4 DEF ProbeServer, ConfirmMissing
  <2> PICK b \in BOOLEAN : b = (ollama = "up")
    OBVIOUS
  <2>2. {"service", "confirm", "spawn"} \subseteq GuardSteps \ {"idle", "record", "commit", "release"}
    BY DEF GuardSteps
  <2>3. CASE Reached(g)
    BY <1>1, <1>2, <2>2, <2>3, PlainStep DEF Reached
  <2>4. CASE Unclear(g, "service")
    BY <1>1, <1>2, <2>2, <2>4, PlainStep DEF Unclear
  <2> QED  BY <1>1, <1>2, <2>1, <2>2, <2>3, <2>4, PlainStep
<1>5. ASSUME CannotSpawn(g) PROVE GuardsInv'
  <2>1. "service" \in GuardSteps \ {"idle", "record", "commit", "release"}
    BY DEF GuardSteps
  <2> QED  BY <1>1, <1>2, <1>5, <2>1, PlainStep DEF CannotSpawn
<1>6. ASSUME ReadService(g) \/ LookAtAll(g) PROVE GuardsInv'
  <2>1. {"look", "start", "readiness", "look again"} \subseteq GuardSteps \ {"idle", "record", "commit", "release"}
    BY DEF GuardSteps
  <2>2. \/ GuardGoes(g, "look") \/ GuardGoes(g, "start") \/ GuardGoes(g, "readiness") \/ GuardGoes(g, "look again")
        \/ Unclear(g, "look")
    BY <1>6 DEF ReadService, LookAtAll
  <2>3. CASE Unclear(g, "look")
    BY <1>1, <1>2, <2>1, <2>3, PlainStep DEF Unclear
  <2> QED  BY <1>1, <1>2, <2>1, <2>2, <2>3, PlainStep
<1>7. ASSUME Readiness(g) PROVE GuardsInv'
  <2>1. "look again" \in GuardSteps \ {"idle", "record", "commit", "release"}
    BY DEF GuardSteps
  <2>2. PICK ready \in BOOLEAN : MoveGuard(g, [guard[g] EXCEPT !.step = "look again", !.ready = ready])
    BY <1>7 DEF Readiness, MachineRuns
  <2> QED  BY <1>1, <1>2, <2>1, <2>2, PlainStep
<1>8. ASSUME LookAtAllAgain(g) PROVE GuardsInv'
  <2>1. PICK code \in Codes : GuardAnswers(g, code, StoreSame(g)) /\ (code = 0 => StoreSame(g))
    <3> DEFINE Answers == IF guard[g].unclear \/ ~StoreSame(g) \/ ~BuildSame(g) THEN {2}
                          ELSE IF MachineRuns /\ guard[g].ready THEN {0}
                          ELSE IF MachineRuns \/ service = "other" THEN {1, 2} ELSE {1}
    <3>1. PICK code \in Answers : GuardAnswers(g, code, StoreSame(g))
      BY <1>8 DEF LookAtAllAgain
    <3>2. code \in {1, 2} \/ (code = 0 /\ StoreSame(g))
      BY <3>1
    <3> QED  BY <3>1, <3>2 DEF Codes
  <2>2. StoreSame(g) \in BOOLEAN
    BY DEF StoreSame
  <2> QED  BY <1>1, <1>2, <2>1, <2>2, AnswerRecord
<1> QED  BY <1>3, <1>4, <1>5, <1>6, <1>7, <1>8

\* It starts what is down and waits.
LEMMA WorkingSteps ==
  ASSUME GuardsInv, NEW g \in Guards, SpawnServer(g) \/ Wait(g) \/ StartService(g)
  PROVE  GuardsInv'
<1>1. guard[g].step # "idle" /\ UNCHANGED <<guardLock, records, task, supervisor>>
  BY DEF SpawnServer, Wait, StartService, Watched
<1>2. MachineInv
  BY DEF GuardsInv
<1>3. ASSUME SpawnServer(g) PROVE GuardsInv'
  <2>1. UNCHANGED <<service, storeId, build, trouble>>
    BY <1>3 DEF SpawnServer
  <2>2. CASE StoreSame(g) /\ BuildSame(g)
    <3>1. ollama' = (IF ollama = "down" THEN "starting" ELSE ollama) /\ GuardGoes(g, "wait")
      BY <1>3, <2>2 DEF SpawnServer
    <3>2. owner' \in {g, None}
      <4>1. ollama = "down" => owner' \in {g}
        BY <1>3, <2>2 DEF SpawnServer
      <4>2. ollama = "starting" => owner' \in {g, None}
        BY <1>3, <2>2 DEF SpawnServer
      <4>3. ollama \notin {"down", "starting"} => owner' \in {None}
        BY <1>3, <2>2 DEF SpawnServer
      <4> QED  BY <4>1, <4>2, <4>3
    <3>3. MachineInv'
      BY <1>2, <2>1, <3>1, <3>2 DEF MachineInv
    <3>4. "wait" \in GuardSteps \ {"idle", "record", "commit", "release"}
      BY DEF GuardSteps
    <3> QED  BY <1>1, <3>1, <3>3, <3>4, PlainStep
  <2>3. CASE ~(StoreSame(g) /\ BuildSame(g))
    <3>1. GuardAnswers(g, 2, StoreSame(g)) /\ UNCHANGED <<ollama, owner>>
      BY <1>3, <2>3 DEF SpawnServer
    <3>2. MachineInv'
      BY <1>2, <2>1, <3>1 DEF MachineInv
    <3>3. StoreSame(g) \in BOOLEAN /\ 2 \in Codes
      BY DEF StoreSame, Codes
    <3> QED  BY <1>1, <3>1, <3>2, <3>3, AnswerRecord
  <2> QED  BY <2>2, <2>3
<1>4. ASSUME Wait(g) PROVE GuardsInv'
  <2>1. MachineInv'
    BY <1>2, <1>4 DEF Wait, MachineInv
  <2>2. "service" \in GuardSteps \ {"idle", "record", "commit", "release"}
    BY DEF GuardSteps
  <2>3. Reached(g) \/ Unclear(g, "service")
    BY <1>4 DEF Wait
  <2> PICK b \in BOOLEAN : b = (ollama = "up")
    OBVIOUS
  <2>4. CASE Reached(g)
    BY <1>1, <2>1, <2>2, <2>4, PlainStep DEF Reached
  <2>5. CASE Unclear(g, "service")
    BY <1>1, <2>1, <2>2, <2>5, PlainStep DEF Unclear
  <2> QED  BY <2>3, <2>4, <2>5
<1>5. ASSUME StartService(g) PROVE GuardsInv'
  <2>1. MachineInv'
    BY <1>2, <1>5 DEF StartService, MachineInv
  <2>2. "look" \in GuardSteps \ {"idle", "record", "commit", "release"} /\ GuardGoes(g, "look")
    BY <1>5 DEF GuardSteps, StartService
  <2> QED  BY <1>1, <2>1, <2>2, PlainStep
<1> QED  BY <1>3, <1>4, <1>5

\* The lock is taken, and the result passed to the journal.
LEMMA LockSteps ==
  ASSUME GuardsInv, NEW g \in Guards, TakeLock(g) \/ CheckStore(g) \/ RecordFails(g)
  PROVE  GuardsInv'
<1> PICK a \in GuardRecord : a = guard[g] /\ GuardAt(g, a)
  BY GuardFunction
<1>1. MachineInv' /\ RecordsInv' /\ TaskInv' /\ UNCHANGED <<guardRuns, proved, task, supervisor>>
  <2>1. UNCHANGED <<guardRuns, journal, proved, task, supervisor>> /\ UNCHANGED machine
        /\ guardLock' \in {g, guardLock}
    BY DEF TakeLock, CheckStore, RecordFails, Quiet, Watched, records
  <2>2. MachineInv'
    BY <2>1, MachineStays
  <2> QED  BY <2>1, <2>2 DEF GuardsInv, RecordsInv, TaskInv
<1> PICK k \in GuardRecord :
      /\ MoveGuard(g, k) /\ k.run = a.run
      /\ a.step # "idle" /\ (k.step \in {"record", "commit"} => k.code \in Codes)
      /\ (k.step = "release" => k.code # 0)
  <2>0. {"locked", "commit", "release"} \subseteq GuardSteps /\ 2 \in Codes /\ 2 # 0
    BY DEF GuardSteps, Codes
  <2>1. CASE TakeLock(g)
    <3> PICK k : k = [a EXCEPT !.step = "locked"]
      OBVIOUS
    <3>1. k \in GuardRecord /\ k.step = "locked" /\ k.run = a.run
      BY <2>0 DEF GuardRecord
    <3> QED  BY <2>1, <3>1 DEF TakeLock, GuardGoes
  <2>2. CASE CheckStore(g)
    <3> PICK k : k = [a EXCEPT !.step = "commit"]
      OBVIOUS
    <3>1. k \in GuardRecord /\ k.step = "commit" /\ k.run = a.run /\ k.code = a.code
      BY <2>0 DEF GuardRecord
    <3>2. a.step = "record" /\ a.code \in Codes /\ MoveGuard(g, k)
      BY <2>2 DEF CheckStore, GuardGoes, GuardAt
    <3> QED  BY <3>1, <3>2
  <2>3. CASE RecordFails(g)
    <3> PICK k : k = [a EXCEPT !.step = "release", !.code = 2]
      OBVIOUS
    <3>1. k \in GuardRecord /\ k.step = "release" /\ k.run = a.run /\ k.code = 2
      BY <2>0 DEF GuardRecord
    <3>2. a.step # "idle" /\ MoveGuard(g, k)
      BY <2>3 DEF RecordFails
    <3> QED  BY <2>0, <3>1, <3>2
  <2> QED  BY <2>1, <2>2, <2>3
<1>5. GuardAt(g, k)'
  BY <1>1 DEF GuardAt
<1>6. guardRuns <= guardRuns'
  BY <1>1 DEF RecordsInv
<1> QED  BY <1>1, <1>5, <1>6, GuardMoves

\* It records its result in the journal.
LEMMA RecordStep ==
  ASSUME GuardsInv, NEW g \in Guards, RecordResult(g)
  PROVE  GuardsInv'
<1> PICK a \in GuardRecord : a = guard[g] /\ GuardAt(g, a)
  BY GuardFunction
<1> PICK t \in TaskRecord : t = task
  BY DEF GuardsInv, TaskInv
<1>1. a.step = "commit" /\ a.code \in Codes /\ a.run \in 1..guardRuns
  BY DEF RecordResult, GuardAt
<1>2. /\ UNCHANGED machine /\ UNCHANGED <<guardLock, guardRuns, task, supervisor>>
      /\ journal' = [code |-> a.code, after |-> t.run, by |-> a.run]
      /\ proved' = IF a.code = 0 THEN proved \cup {a.run} ELSE proved
      /\ GuardGoes(g, "release")
  BY DEF RecordResult, Watched
<1> PICK k : k = [a EXCEPT !.step = "release"]
  OBVIOUS
<1>3. k \in GuardRecord /\ k.step = "release" /\ k.run = a.run /\ k.code = a.code
  BY DEF GuardRecord, GuardSteps
<1>4. MoveGuard(g, k)
  BY <1>2 DEF GuardGoes
<1>5. guardRuns \in 0..MaxGuardRuns
  BY DEF GuardsInv, RecordsInv
<1>6. journal' \in JournalRecord
  <2>1. t.run \in 0..MaxGuardRuns /\ a.run \in 1..MaxGuardRuns
    BY <1>1, <1>5, GuardAssumption DEF TaskRecord
  <2> QED  BY <1>1, <1>2, <2>1 DEF JournalRecord
<1>7. RecordsInv' /\ proved \subseteq proved'
  BY <1>1, <1>2, <1>6 DEF GuardsInv, RecordsInv
<1>8. TaskInv'
  BY <1>2, <1>7 DEF GuardsInv, TaskInv
<1>9. GuardAt(g, k)'
  BY <1>1, <1>2, <1>3 DEF GuardAt
<1>10. guardRuns <= guardRuns' /\ MachineInv'
  BY <1>2, <1>5, MachineStays, GuardAssumption
<1> QED  BY <1>2, <1>3, <1>4, <1>7, <1>8, <1>9, <1>10, GuardMoves

\* A guard's run is over: the task has its exit code, or none after a kill.
LEMMA RunEnds ==
  ASSUME GuardsInv, NEW g \in Guards, Busy(g) \/ Release(g) \/ KillGuard(g)
  PROVE  GuardsInv'
<1> PICK a \in GuardRecord : a = guard[g] /\ GuardAt(g, a)
  BY GuardFunction
<1> PICK t \in TaskRecord : t = task
  BY DEF GuardsInv, TaskInv
<1>1. PICK result \in Codes \cup {None} : TaskEnds(g, result) /\ (result = 0 => a.step = "release" /\ a.code = 0)
  <2>1. CASE Busy(g)
    BY <2>1 DEF Busy, Codes
  <2>2. CASE Release(g)
    <3>1. a.code \in Codes \cup {None} /\ a.step = "release" /\ TaskEnds(g, a.code)
      BY <2>2 DEF GuardRecord, Release
    <3> QED  BY <3>1
  <2>3. CASE KillGuard(g)
    BY <2>3, GuardAssumption DEF KillGuard, Codes
  <2> QED  BY <2>1, <2>2, <2>3
<1>2. /\ a.step # "idle" /\ MoveGuard(g, GuardAtRest) /\ guardLock' \in {guardLock, None}
      /\ UNCHANGED machine /\ UNCHANGED <<guardRuns, journal, proved, supervisor>>
  BY DEF Busy, Release, KillGuard, Watched, records
<1>3. MachineInv' /\ RecordsInv' /\ guardRuns <= guardRuns' /\ proved \subseteq proved'
  BY <1>2, MachineStays DEF GuardsInv, RecordsInv
<1>4. TaskInv'
  <2>1. CASE g = Scheduled
    <3> PICK z : z = [t EXCEPT !.going = FALSE, !.result = result]
      OBVIOUS
    <3>1. z \in TaskRecord /\ z.run = t.run /\ z.result = result
      BY DEF TaskRecord, Truth
    <3>2. task' = z
      BY <1>1, <2>1 DEF TaskEnds
    <3>3. result = 0 => a.run \in proved /\ t.run = a.run
      BY <1>1, <2>1 DEF GuardAt
    <3> QED  BY <1>2, <3>1, <3>2, <3>3 DEF TaskInv
  <2>2. CASE g # Scheduled
    BY <1>1, <1>2, <2>2 DEF TaskEnds, GuardsInv, TaskInv
  <2> QED  BY <2>1, <2>2
<1>5. GuardAt(g, GuardAtRest)'
  BY GuardRest DEF GuardAt
<1>6. g # Scheduled => task' = task
  BY <1>1 DEF TaskEnds
<1> QED  BY <1>2, <1>3, <1>4, <1>5, <1>6, GuardRest, GuardMoves

\* The supervisor looks.
LEMMA Sees ==
  ASSUME GuardsInv, NEW k, See(k), WatchInv(k)
  PROVE  GuardsInv'
<1>1. UNCHANGED machine /\ UNCHANGED <<guardLock, guardRuns, journal, proved, task, guard>> /\ supervisor' = k
  BY DEF See, records
<1>2. MachineInv' /\ RecordsInv' /\ TaskInv' /\ \A g \in Guards : GuardAt(g, guard[g])'
  BY <1>1, MachineStays DEF GuardsInv, RecordsInv, TaskInv, GuardAt
<1> QED  BY <1>1, <1>2 DEF GuardsInv, WatchInv

\* The supervisor looks, and trusts nothing yet.
LEMMA SupervisorLooks ==
  ASSUME GuardsInv, Watch \/ SeeTask \/ SeeJournal \/ SeeReadiness \/ SupervisorGivesUp
  PROVE  GuardsInv' /\ supervisor'.step # "trusted"
<1>0. \A k : See(k) => supervisor' = k
  BY DEF See
<1> PICK w \in WatchRecord : w = supervisor /\ WatchInv(w)
  BY DEF GuardsInv, WatchInv
<1> PICK st \in Nat, bd \in Nat, t \in TaskRecord, j \in JournalRecord \cup {None} :
      st = storeId /\ bd = build /\ t = task /\ j = journal
  BY DEF GuardsInv, MachineInv, TaskInv, RecordsInv
<1>1. CASE Watch
  <2> PICK w0 \in WatchRecord : w0 = Watching
    BY WatchRest DEF WatchInv
  <2> PICK k : k = [w0 EXCEPT !.step = "task", !.store = st, !.build = bd]
    OBVIOUS
  <2>1. k \in WatchRecord /\ k.step = "task"
    BY DEF WatchRecord, WatchSteps
  <2> QED  BY <1>1, <2>1, <1>0, Sees DEF Watch, WatchInv
<1>2. CASE SeeTask
  <2> PICK k : k = [w EXCEPT !.step = "journal", !.task = t]
    OBVIOUS
  <2>1. k \in WatchRecord /\ k.step = "journal" /\ k.task = t
    BY DEF WatchRecord, WatchSteps
  <2>2. See(k) /\ ~t.going
    BY <1>2 DEF SeeTask
  <2>4. WatchInv(k)
    BY <2>1, <2>2 DEF WatchInv
  <2> QED  BY <1>0, <2>1, <2>2, <2>4, Sees
<1>3. CASE SeeJournal
  <2> PICK k : k = [w EXCEPT !.step = "readiness", !.journal = j]
    OBVIOUS
  <2>1. k \in WatchRecord /\ k.step = "readiness" /\ k.task = w.task
    BY DEF WatchRecord, WatchSteps
  <2> QED  BY <1>3, <2>1, <1>0, Sees DEF SeeJournal, FittingJournal, WatchInv
<1>4. CASE SeeReadiness
  <2> PICK k : k = [w EXCEPT !.step = "journal again"]
    OBVIOUS
  <2>1. k \in WatchRecord /\ k.step = "journal again" /\ k.task = w.task
    BY DEF WatchRecord, WatchSteps
  <2> QED  BY <1>4, <2>1, <1>0, Sees DEF SeeReadiness, WatchInv
<1>5. CASE SupervisorGivesUp
  BY <1>5, WatchRest, <1>0, Sees DEF SupervisorGivesUp
<1> QED  BY <1>1, <1>2, <1>3, <1>4, <1>5

\* It looks at the journal and the task again, and trusts.
LEMMA SupervisorDecides ==
  ASSUME GuardsInv, SeeJournalAgain \/ Trust
  PROVE  /\ GuardsInv'
         /\ supervisor'.step = "trusted" => supervisor.step = "again" /\ task = supervisor.task
<1> PICK w \in WatchRecord : w = supervisor /\ WatchInv(w)
  BY DEF GuardsInv, WatchInv
<1>1. /\ w.step \in {"journal again", "again"}
      /\ \/ w.step = "journal again" /\ See([w EXCEPT !.step = "again"])
         \/ See([w EXCEPT !.step = "trusted"]) /\ w.step = "again" /\ task = w.task
         \/ See([w EXCEPT !.step = "task", !.task = None, !.journal = None, !.retried = TRUE])
  BY DEF SeeJournalAgain, Trust, SeeAgain
<1> PICK k : \/ k = [w EXCEPT !.step = "again"] /\ See(k) /\ w.step = "journal again"
             \/ k = [w EXCEPT !.step = "trusted"] /\ See(k) /\ w.step = "again" /\ task = w.task
             \/ k = [w EXCEPT !.step = "task", !.task = None, !.journal = None, !.retried = TRUE] /\ See(k)
  BY <1>1
<1>2. /\ k \in WatchRecord /\ See(k)
      /\ \/ k.step = "task"
         \/ k.step = "again" /\ k.task = w.task
         \/ k.step = "trusted" /\ w.step = "again" /\ task = w.task
  <2>0. {"again", "trusted", "task"} \subseteq WatchSteps /\ TRUE \in Truth
    BY DEF WatchSteps, Truth
  <2>1. CASE k = [w EXCEPT !.step = "again"] /\ See(k)
    <3>1. k \in WatchRecord /\ k.step = "again" /\ k.task = w.task
      BY <2>0, <2>1 DEF WatchRecord
    <3> QED  BY <2>1, <3>1
  <2>2. CASE k = [w EXCEPT !.step = "trusted"] /\ See(k) /\ w.step = "again" /\ task = w.task
    BY <2>0, <2>2 DEF WatchRecord
  <2>3. CASE k = [w EXCEPT !.step = "task", !.task = None, !.journal = None, !.retried = TRUE] /\ See(k)
    <3>1. k \in WatchRecord /\ k.step = "task"
      BY <2>0, <2>3 DEF WatchRecord
    <3> QED  BY <2>3, <3>1
  <2> QED  BY <2>1, <2>2, <2>3
<1>3. WatchInv(k)
  BY <1>1, <1>2 DEF WatchInv
<1>4. supervisor' = k
  BY <1>2 DEF See
<1> QED  BY <1>2, <1>3, <1>4, Sees

\* Every step keeps the invariant.
LEMMA GuardStepInv == GuardsInv /\ [GuardNext]_guardVars => GuardsInv'
<1> SUFFICES ASSUME GuardsInv, [GuardNext]_guardVars PROVE GuardsInv'
  OBVIOUS
<1>1. CASE UNCHANGED guardVars
  BY <1>1 DEF guardVars, machine, records, GuardsInv, MachineInv, RecordsInv, TaskInv, GuardAt,
     WatchInv
<1>2. CASE GuardNext
  BY <1>2, MachineSteps, StartStep, WatchingSteps, WorkingSteps, LockSteps, RecordStep, RunEnds,
     SupervisorLooks, SupervisorDecides DEF GuardNext
<1> QED  BY <1>1, <1>2

\* Machine, journal, task and guards keep their types (runtime_guard.py and
\* check_runtime_supervisor.py).
THEOREM GuardTypesTheorem == GuardSpec => []GuardTypeOK
<1>1. GuardsInv => GuardTypeOK
  <2> SUFFICES ASSUME GuardsInv PROVE GuardTypeOK
    OBVIOUS
  <2>1. journal # None => journal.code \in Codes /\ journal.by \in 1..MaxGuardRuns
    BY DEF GuardsInv, RecordsInv, JournalRecord
  <2>2. \A g \in Guards : guard[g].step \in GuardSteps /\ guard[g].code \in Codes \cup {None}
    BY DEF GuardsInv, GuardRecord
  <2>3. task.run \in 0..MaxGuardRuns /\ task.result \in Codes \cup {None}
    BY DEF GuardsInv, TaskInv, TaskRecord
  <2>4. supervisor.step \in WatchSteps
    BY DEF GuardsInv, WatchInv, WatchRecord
  <2>5. guardLock \in Guards \cup {None} /\ guardRuns \in 0..MaxGuardRuns /\ proved \subseteq 1..MaxGuardRuns
    BY GuardAssumption DEF GuardsInv, RecordsInv
  <2> QED  BY <2>1, <2>2, <2>3, <2>4, <2>5 DEF GuardsInv, MachineInv, GuardTypeOK, WatchSteps
<1> QED  BY <1>1, GuardsInit, GuardStepInv, PTL DEF GuardSpec

\* The supervisor calls the machine ready only on the word of the task's last
\* run, which recorded a ready result itself, for any guards, runs and
\* troubles.
THEOREM TrustTheorem == GuardSpec => TrustIsEarned
<1>1. GuardsInv /\ [GuardNext]_guardVars => [TrustsTheProved]_guardVars
  <2> SUFFICES ASSUME GuardsInv, GuardNext, supervisor.step # "trusted", supervisor'.step = "trusted"
               PROVE  ~task.going /\ task.result = 0 /\ task.run \in proved
    BY DEF TrustsTheProved
  <2> PICK w \in WatchRecord : w = supervisor /\ WatchInv(w)
    BY DEF GuardsInv, WatchInv
  <2>1. supervisor' # supervisor
    OBVIOUS
  <2>2. Trust \/ Watch \/ SeeTask \/ SeeJournal \/ SeeReadiness \/ SeeJournalAgain \/ SupervisorGivesUp
    BY <2>1 DEF GuardNext, OllamaListens, OllamaChanges, ServiceChanges, StoreOrBuildChanges,
       Elsewhere,
       StartGuard, TakeLock, Busy, PinBuild, ProbeServer, ConfirmMissing, CannotSpawn, SpawnServer, Wait,
       ReadService, StartService, LookAtAll, Readiness, LookAtAllAgain, CheckStore, RecordResult,
       RecordFails, Release, KillGuard, Quiet, Watched
  <2>4. w.step = "again" /\ task = w.task
    BY <2>2, SupervisorLooks, SupervisorDecides
  <2> QED  BY <2>4 DEF GuardsInv, TaskInv, WatchInv
<1> QED  BY <1>1, GuardsInit, GuardStepInv, PTL DEF GuardSpec, TrustIsEarned
=============================================================================
