------------------------- MODULE ReportFinalization -------------------------
(***************************************************************************)
(* How a finished report gets onto the disk and into the ledger (core.py,  *)
(* _seal_report_finalization and the code around it): the intent that is   *)
(* committed first, the temporary file, the atomic replacement, and the    *)
(* transaction that seals the mission, for one mission.                    *)
(*                                                                         *)
(* A sealing transaction holds SQLite's write lock (BEGIN IMMEDIATE) from  *)
(* BeginSeal or BeginRecovery to its end, so that only its own file steps  *)
(* and crashes happen in between; its row updates take effect at the end.  *)
(***************************************************************************)
EXTENDS Naturals, FiniteSets, Nothing

CONSTANTS
  Reports,     \* the byte strings a mission's report may turn out to be
  Torn,        \* a file cut short or otherwise holding no report at all
  Temps,       \* names of temporary files (.JOB.md.UUID.tmp)
  Output,      \* the name of the mission's report (JOB.md)
  Workers,     \* processes
  Tokens,      \* run tokens
  PowerMayFail \* TRUE: the machine may lose power; FALSE: only processes die

ASSUME NamesAssumption ==
  /\ None \notin Reports \cup Tokens \cup Workers /\ Torn \notin Reports
  /\ Torn # None /\ Output \notin Temps /\ PowerMayFail \in BOOLEAN

VARIABLES
  status,     \* jobs.status
  runToken,   \* jobs.run_token
  sealedAs,   \* jobs.report_sha256: the report it digests, or None
  intent,     \* the report_finalizations row, or None
  files,      \* what a process reads under each name
  synced,     \* the names whose data is on the disk (fsync of the file)
  disk,       \* the directory as it is on the disk (fsync of the directory)
  tx,         \* the sealing transaction under way, or None
  wk          \* the local variables of each worker

rowVars  == <<status, runToken, sealedAs, intent>>
fileVars == <<files, synced, disk>>
vars     == <<rowVars, fileVars, tx, wk>>

Names   == Temps \cup {Output}
Content == Reports \cup {Torn, None}
Intent  == [tok : Tokens, temp : Temps, report : Reports]

\* A worker finishes its report, waits for the sealing transaction, or neither.
Worker == [pc : {"idle", "reporting", "sealing"}, tok : Tokens \cup {None}]
Idle   == [pc |-> "idle", tok |-> None]

\* A sealing transaction: whose, under which observed token, begun by recovery
\* or by the worker itself, how far, and did it write the artifact itself?
Steps == {"examine", "write", "writing", "replace", "sync", "verify", "commit"}
Tx    == [who : Workers, tok : Tokens, recovered : BOOLEAN, step : Steps,
          own : BOOLEAN]

ASSUME RowsAssumption == None \notin Intent \cup Tx

Init ==
  /\ status = "interrupted" /\ runToken = None /\ sealedAs = None
  /\ intent = None
  /\ files = [n \in Names |-> None] /\ disk = [n \in Names |-> None]
  /\ synced = {}
  /\ tx = None
  /\ wk = [w \in Workers |-> Idle]

----------------------------------------------------------------------------
InUse == {runToken} \cup {wk[w].tok : w \in Workers}
           \cup (IF intent = None THEN {} ELSE {intent.tok})
Fresh == Tokens \ InUse

Exists(n) == files[n] # None
LeaseActive(w) == status = "running" /\ runToken = wk[w].tok

At(s) == tx # None /\ tx.step = s
GoOn(s) == tx' = [tx EXCEPT !.step = s]

\* run or resume: the mission executes under a new lease.
Execute(w, t) ==
  /\ tx = None /\ wk[w] = Idle /\ status = "interrupted"
  /\ status' = "running" /\ runToken' = t
  /\ wk' = [wk EXCEPT ![w] = [pc |-> "reporting", tok |-> t]]
  /\ UNCHANGED <<sealedAs, intent, fileVars, tx>>

\* The intent is committed before any file is touched.
PrepareReport(w, r, n) ==
  /\ tx = None /\ wk[w].pc = "reporting"
  /\ \/ /\ LeaseActive(w) /\ intent = None
        /\ ~Exists(n)                                   \* a new uuid
        /\ intent' = [tok |-> wk[w].tok, temp |-> n, report |-> r]
        /\ wk' = [wk EXCEPT ![w].pc = "sealing"]
     \/ /\ ~LeaseActive(w)
        /\ wk' = [wk EXCEPT ![w] = Idle]
        /\ UNCHANGED intent
  /\ UNCHANGED <<status, runToken, sealedAs, fileVars, tx>>

BeginSeal(w) ==
  /\ tx = None /\ wk[w].pc = "sealing"
  /\ tx' = [who |-> w, tok |-> wk[w].tok, recovered |-> FALSE,
            step |-> "examine", own |-> FALSE]
  /\ UNCHANGED <<rowVars, fileVars, wk>>

\* recover_stale_jobs found the heartbeat stale; it knows the job's own token.
BeginRecovery(w) ==
  /\ tx = None /\ wk[w] = Idle /\ status = "running"
  /\ tx' = [who |-> w, tok |-> runToken, recovered |-> TRUE,
            step |-> "examine", own |-> FALSE]
  /\ UNCHANGED <<rowVars, fileVars, wk>>

----------------------------------------------------------------------------
\* The end of a sealing transaction

EndTx ==
  /\ tx' = None
  /\ wk' = [wk EXCEPT ![tx.who] = Idle]

\* Mutant: recovery only reports.
GiveUpNever == UNCHANGED <<status, runToken, intent>>

\* The artifacts do not validate.  Recovery abandons the intent and interrupts
\* the mission; the worker itself only reports that recovery is needed.
GiveUp ==
  IF tx.recovered
  THEN status' = "interrupted" /\ runToken' = None /\ intent' = None
  ELSE UNCHANGED <<status, runToken, intent>>

Refuse == EndTx /\ GiveUp /\ UNCHANGED <<sealedAs, fileVars>>

\* Mutant of Defer: an OSError is taken for artifacts that do not validate.
DeferRefusing == EndTx /\ GiveUp /\ UNCHANGED sealedAs

\* An OSError defers the seal: the row and the intent stay as they are.
Defer == EndTx /\ UNCHANGED rowVars

Commit ==
  /\ At("commit")
  /\ IF status = "running" /\ runToken = tx.tok
     THEN /\ status' = "complete" /\ runToken' = None
          /\ sealedAs' = intent.report /\ intent' = None
     ELSE UNCHANGED rowVars                \* raises ExecutionLeaseLost
  /\ EndTx /\ UNCHANGED fileVars

----------------------------------------------------------------------------
\* The file steps of a sealing transaction

Sealable == intent # None /\ intent.tok = tx.tok

MatchesByName(n) == Exists(n)         \* mutant of Matches: no digest is compared

Matches(n) == files[n] = intent.report

\* Mutant of Examined: a report that is there already is never adopted.
ExaminedOnce ==
  IF Exists(Output) THEN "refuse"
  ELSE IF ~Exists(intent.temp) THEN "write"
  ELSE IF Matches(intent.temp) THEN "replace" ELSE "refuse"

\* What to do next, from the files an earlier attempt may have left.
Examined ==
  IF Exists(Output) THEN IF Matches(Output) THEN "commit" ELSE "refuse"
  ELSE IF ~Exists(intent.temp) THEN "write"
  ELSE IF Matches(intent.temp) THEN "replace" ELSE "refuse"

Examine ==
  /\ At("examine")
  /\ \/ (Sealable => Examined = "refuse") /\ Refuse
     \/ /\ Sealable /\ Examined # "refuse"
        /\ GoOn(Examined)
        /\ UNCHANGED <<rowVars, fileVars, wk>>

\* os.open with O_CREAT and O_EXCL ...
CreateTemporary ==
  /\ At("write")
  /\ files' = [files EXCEPT ![intent.temp] = Torn]
  /\ synced' = synced \ {intent.temp}
  /\ GoOn("writing")
  /\ UNCHANGED <<rowVars, disk, wk>>

\* ... then write, flush and fsync.
WriteTemporary ==
  /\ At("writing")
  /\ files' = [files EXCEPT ![intent.temp] = intent.report]
  /\ synced' = synced \cup {intent.temp}
  /\ tx' = [tx EXCEPT !.step = "replace", !.own = TRUE]
  /\ UNCHANGED <<rowVars, disk, wk>>

\* os.replace: the name of the report changes hands in one step.
ReplaceReport ==
  /\ At("replace")
  /\ files' = [files EXCEPT ![Output] = files[intent.temp], ![intent.temp] = None]
  /\ synced' = (synced \ {Output, intent.temp})
                 \cup (IF intent.temp \in synced THEN {Output} ELSE {})
  /\ GoOn("sync")
  /\ UNCHANGED <<rowVars, disk, wk>>

\* Mutant of Flushed: the directory is not synchronized.
FlushedNot == disk

\* What fsync of the directory puts on the disk: its names, with the data that
\* got there before.
Flushed ==
  [n \in Names |-> IF Exists(n) /\ n \notin synced THEN Torn ELSE files[n]]

SyncDirectory ==
  /\ At("sync")
  /\ disk' = Flushed
  /\ GoOn("verify")
  /\ UNCHANGED <<rowVars, files, synced, wk>>

VerifyReport ==
  /\ At("verify")
  /\ IF Matches(Output)
     THEN GoOn("commit") /\ UNCHANGED <<rowVars, fileVars, wk>>
     ELSE Refuse

\* An OSError while a file is read, written, replaced or synchronized.  A
\* temporary file that could not be written is removed again, if possible.
IOError ==
  /\ tx # None /\ tx.step # "commit"
  /\ Defer
  /\ \/ UNCHANGED files
     \/ At("writing") /\ files' = [files EXCEPT ![intent.temp] = None]
  /\ UNCHANGED <<synced, disk>>

----------------------------------------------------------------------------
\* Crashes

\* A process dies; SQLite rolls its transaction back, the files stay.
Crash(w) ==
  /\ wk[w] # Idle \/ (tx # None /\ tx.who = w)
  /\ wk' = [wk EXCEPT ![w] = Idle]
  /\ tx' = IF tx # None /\ tx.who = w THEN None ELSE tx
  /\ UNCHANGED <<rowVars, fileVars>>

\* The machine loses power: of every name, what is on the disk survives, or
\* what would have been there soon; data that was not synchronized may be torn.
PowerFailure ==
  /\ PowerMayFail
  /\ \E torn \in SUBSET (Names \ synced), old \in SUBSET Names :
       files' = [n \in Names |-> IF n \in old THEN disk[n]
                                 ELSE IF n \in torn /\ Exists(n) THEN Torn
                                 ELSE files[n]]
  /\ disk' = files' /\ synced' = Names
  /\ tx' = None /\ wk' = [w \in Workers |-> Idle]
  /\ UNCHANGED rowVars

----------------------------------------------------------------------------
Call(w) ==
  \/ \E t \in Fresh : Execute(w, t)
  \/ BeginRecovery(w)

Work(w) ==
  \/ \E r \in Reports, n \in Temps : PrepareReport(w, r, n)
  \/ BeginSeal(w)

Seal ==
  \/ Examine \/ CreateTemporary \/ WriteTemporary \/ ReplaceReport
  \/ SyncDirectory \/ VerifyReport \/ Commit

Fault == IOError \/ (\E w \in Workers : Crash(w)) \/ PowerFailure

Next == (\E w \in Workers : Call(w) \/ Work(w)) \/ Seal \/ Fault

Spec == Init /\ [][Next]_vars

----------------------------------------------------------------------------
\* Properties

\* Types of the rows, the files and the variables the methods keep.
TypeOK ==
  /\ status \in {"running", "interrupted", "complete"}
  /\ runToken \in Tokens \cup {None}
  /\ sealedAs \in Reports \cup {None}
  /\ intent \in Intent \cup {None}
  /\ files \in [Names -> Content] /\ disk \in [Names -> Content]
  /\ synced \subseteq Names
  /\ tx \in Tx \cup {None}
  /\ wk \in [Workers -> Worker]

\* A complete mission has its report: whatever process died at whatever step,
\* the outputs directory holds exactly the bytes the ledger has sealed.
ReportPresent ==
  status = "complete" => sealedAs # None /\ files[Output] = sealedAs

\* The ledger says complete only after the report would survive a power
\* failure, when the transaction published the report itself.  (A transaction
\* that adopts what a dead process left synchronizes nothing again.)
DiskBeforeLedger ==
  At("commit") /\ tx.own => disk[Output] = intent.report

\* "Suspicious artifacts are never registered" (docs/OPERATIONS.md:1001): even
\* after a power failure tore or lost files, a mission is sealed only as the
\* report that is visible at that moment.
SealsWhatItSees == [][sealedAs' # sealedAs => files[Output] = sealedAs']_vars

\* "If a process or machine stops before or immediately after file replacement,
\* recover can ... seal it" (docs/OPERATIONS.md:1001): while the report is visible
\* as promised, the promise ends with the seal alone, it is not interrupted or
\* redone.
PublishedGetsSealed ==
  [][intent # None /\ files[Output] = intent.report /\ intent' = None
       => status' = "complete"]_intent

\* A published report has been flushed: other platforms than Windows "replace
\* in the same directory and flush that directory" (docs/OPERATIONS.md:1001).
\* The code does not keep this (see the README): the seal of a report that an
\* earlier process replaced, but did not flush, flushes nothing.
PublicationFlushed == status = "complete" => disk[Output] = sealedAs

\* The journal, the outputs directory and the ledger together are the report
\* of ReportSeal: promised, then visible whole, then sealed as promised; a
\* visible report is never left without the promise that gets it sealed.
RS == INSTANCE ReportSeal WITH
        promised <- (IF intent = None THEN None ELSE intent.report),
        visible <- files[Output], sealed <- sealedAs
ImplementsReportSeal == RS!Spec
=============================================================================
