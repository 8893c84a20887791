# Local Workcell: a TLA+ verification project

TLA+ models of the SuperMega Local Workcell (`src/`), checked with TLC on small
instances and, for the results that matter most, proved with TLAPS for every
value of the constants. Source lines are given as `core.py:LINE` and mean
`src/src/local_company/core.py` unless another file is named.

1. [The system](#the-system)
2. [The modules](#the-modules)
3. [What is checked](#what-is-checked)
4. [What is proved](#what-is-proved)
5. [What the code does not keep](#what-the-code-does-not-keep)
6. [What is not modelled](#what-is-not-modelled)
7. [Plan](#plan)

## The system

The workcell runs *missions*: an objective is given to a team of specialist
roles, a local model answers for each role in turn, an executive synthesis is
written, the report is sealed on disk and a deterministic evaluator judges it.
Everything durable is in one SQLite database and a directory of reports; there
is no server that owns it. Every command line call, every dashboard thread,
every MCP session and every scheduled cycle opens the same database, so that the
*processes are the concurrency* and the database's write lock (`BEGIN
IMMEDIATE`) is the only lock most of them share.

### Components

| Component | State it keeps | Operations | Interacts with | Correct when |
|---|---|---|---|---|
| Mission execution (`core.py:7742-8923`) | `jobs`, `assignments`, leases (`run_token`, `heartbeat_at`) | run, retry, resume, heartbeat, record a result or a failure | queue rows by shared token; report finalization; evaluator | one mission executes; late results change nothing; sealed missions are final |
| Report finalization (`core.py:2250-2447`, `8750-8804`) | `report_finalizations`, report files | prepare, examine, write, replace, flush, verify, seal | the filesystem; recovery | the ledger and the directory agree at every crash point |
| Recovery (`core.py:2449-2651`) | none (local lists over three transactions) | seal or interrupt stale jobs, re-claim rows, re-evaluate, reconcile | everything above | the execution slot comes free; nobody's live work is disturbed |
| Queue administration (`core.py:4955-5741`) | `mission_queue` | enqueue, cancel, park, unpark, reset, supersede | execution (by status guards) | a row's life is the one `QueueLifecycle` gives |
| Queue selection, preflight (`core.py:5040-5234`) | none | choose the due head, explain blockers | focus, knowledge freshness, dashboard | the reviewed row or none is claimed |
| Schedules (`core.py:5880-5975`) | `schedules` | create, enable, materialize | queue | one row per due schedule, next time in the future |
| Evaluation (`core.py:6379-6885`) | `evaluations`, `evaluation_history` | read, judge, commit | evidence, report bytes, queue | rows show the latest verdict; a passing mission is whole |
| Supersession and recheck previews (`core.py:6886-7740`, `9441-9970`) | events with proofs | preview, prove, retire, review | evaluation history, retry lineage | only a proved successor retires a failure |
| Knowledge, evidence manifests (`core.py:2898-3678`) | `knowledge`, `project_knowledge`, `evidence_manifests` | index, refresh, freeze, validate | run, resume, evaluate | a mission uses and cites what is current and frozen |
| Datasets (`core.py:3680-4905`, `spreadsheet.py`) | `datasets` | profile, contract, compare | run (context) | verdict follows the contract |
| Approvals (`core.py:4918-4943`) | `action_requests` | request, decide | run (sensitive objectives) | a decision is made once |
| Briefs, audit, product evidence (`core.py:6018-6378`, `8961-9440`) | review ledgers | snapshot, export, review | all tables | a snapshot is one database state |
| Store identity (`core.py:2140-2177`, `config.py`) | one identity row | create, verify | every connection | a store is never silently swapped |
| Service (`service.py`) | `service.json`, lifecycle lock | start, stop, status | dashboard process, OS | only the exact process is reported or stopped |
| Dashboard worker (`dashboard.py:382-472`) | a thread, two locks | start, run, reserve shutdown | queue claims | a shutdown never cuts a mission off |
| Focus, capacity (`focus.py`, `capacity.py`) | focus file | set, hand off, clear, enforce | run, resume, claim | nothing outside the focus executes |
| MCP server (`mcp_server.py`) | a session | tools over the company | all of the above | the reviewed item is the executed one |
| Pilots, computer use (`workflow_pilot.py`, `computer_use.py`) | workflow, pilot, run folders, anchors, reviews | learn, run, anchor, review, status | filesystem, the desktop | a pilot passes on the merits of its last runs |
| Browser operator (`browser_operator.py`) | sealed manifest, proofs, suite receipt | seal, check a page, run a suite | an external browser | a release gate passes only on pages that were seen to pass |
| Sales workspace (`supermega.py`) | evidence selection, files named for their contents | import, draft, package, intake, worker, status | an external verifier and worker | an offer stands on verified evidence |
| Runtime guard (`scripts/runtime_guard.py`) | lock, journal | probe, spawn, start, look again, journal; the supervisor's check | service, model server, task scheduler | a result is believed only of the run that proved it |
| Scheduled cycle, experiments (`scripts/local_ai.py`) | inbox, archive, journal | one cycle, one retry, one experiment, review | queue, MCP, evidence ledger | a measured result is kept until it is judged |

### What is hard here

* *Interleaving.* A caller checks, then opens a transaction; between two
  transactions of a call (a run has at least `2 * roles + 4`) any other process
  runs. What was read before a transaction may be stale under it.
* *Leases, not locks.* A mission is held through a random token written into the
  rows it owns. A stale heartbeat lets recovery revoke the token while the
  original process still runs, waiting minutes for a model.
* *Crashes.* A process may die anywhere; nothing restarts it, and `recover` is
  run by hand or by a scheduler.
* *Two stores.* A rename in the filesystem and a commit in SQLite cannot be one
  transaction; a journalled intent bridges them. Elsewhere nothing does: receipts,
  anchors, briefs and journals are files beside the ledger, in an order that every
  crash must leave harmless.
* *Other programs.* Reports, sources, tables, workflows and receipts are ordinary
  files that people edit, replace and delete. Every read of one is a moment of its
  own, and what was read may be stale when it is used.

`PROJECT.json` lists each hazard at its line with the property that covers it.

## The modules

| Module | What it is |
|---|---|
| `QueueLifecycle` | What the queue promises: the status machine of a row, one executing row, verdicts that settle rows together. |
| `EvidenceBase` | What the knowledge index promises the jobs that quote it: refreshed to one instant, quoted while it agrees with the files. |
| `ServiceLife` | What `service start` and `stop` promise: how services live, and what the one record may say of them. |
| `MissionExecution` | The execution core: jobs, rows, workers, recovery passes. Implements `QueueLifecycle`. |
| `MissionLiveness` | `MissionExecution` with a switch that ends the faults, and fairness. |
| `MissionExecution_proofs` | Types and exclusive execution of `MissionExecution`, for every size. |
| `MissionLeases_proofs` | On top of it leases, late results, sealed missions and intents, then verdicts and the refinement of `QueueLifecycle`. |
| `ReportSeal` | What report finalization promises: promised, visible whole, sealed as promised. |
| `ReportFinalization` | Intent, files, transaction and crashes of one mission's report. Implements `ReportSeal`. |
| `ReportLiveness` | `ReportFinalization` under fairness, when the faults end. |
| `ReportFinalization_proofs` | Theorems about `ReportFinalization`, its refinement of `ReportSeal` among them. |
| `ServiceSupervisor` | The commands that start and stop the dashboard service, its record, and the machine's processes. Implements `ServiceLife`. |
| `ServiceSupervisor_proofs` | Theorems about `ServiceSupervisor`. |
| `DashboardWorker` | Requests, the mission thread and the shutdown of one dashboard process. |
| `ExecutionFocus` | The focus file: set, hand off, clear under a lock that is not waited for. |
| `QueueDispatch` | How a mission gets to run: enqueue, schedules, preflight, claim, admission, parking; EXTENDS `ExecutionFocus`, implements `QueueLifecycle`. |
| `QueueDispatch_proofs` | Theorems about both. |
| `Nothing` | The one value of what is not there, which the modules below, the focus and the reports share. |
| `KnowledgeIndex` | Files, their index, the refresh that reads twice, the evidence a job is admitted with. Implements `EvidenceBase`. |
| `QualitySupersession` | Evaluations, retry lineage, and the proof that retires a failure. |
| `ProductEvidence` | The scheduled tick, experiments, and the reviews of receipts and missions. |
| `WorkflowPilot` | Runs of a learned workflow, their anchors and reviews, the pilot that promotes. |
| `RuntimeGuard` | The guard that starts what is missing, and the supervisor that believes it. |
| `BrowserSuite` | Page checks and the release gate of a suite. |
| `VisionOffers` | The sales files, and the status read from them piece by piece. |
| `DatasetQuality` | Profile, contract, the dashboard's recomputation; brief, ledger and index. |
| `Evidence_proofs` | Theorems about `KnowledgeIndex`, `QualitySupersession` and `ProductEvidence`: what decisions rest on. |
| `Operations_proofs` | Theorems about `WorkflowPilot`, `BrowserSuite` and `RuntimeGuard`: what runs unattended and is believed later. |
| `Dashboard_proofs` | Theorems about `DashboardWorker`, `VisionOffers` and `DatasetQuality`: what a dashboard shows. |
| `MCMissionExecution`, `MCReportFinalization`, `MCQueueDispatch` | Symmetry, state constraints and initial states for TLC. |
| `MCRows`, `MCEndings`, `MCRecords` | Several components side by side, for one run each; so is `KnowledgeIndex` in `MCQueueDispatch`. |

Components that are explored or proved about side by side are EXTENDed together, so no
two of them give one name to different things.

### `MissionExecution`

*State.* One function per column that control depends on: `jobStatus`,
`jobToken`, `asg` (assignment statuses), `intent` (the token of the journalled
report), `evaluation` (latest verdict), `queueStatus`, `queueToken`, `queueJob`.
Data is reduced to what control reads of it: `evidence[j]` says whether the
frozen manifest validates now, `good[j]` whether the report would pass the
content checks, `reusable[j]` whether the fingerprint still admits reuse,
`ancestors[j]` is the retry lineage. Times are one bit each: `jobStale`,
`claimStale` say whether a row is older than the recovery threshold, which is all
that any reader of the time stamps asks. `wk[w]` holds the local variables of a
call under way (where it is, its token, job, row, completed results, verdict
read); `pass[w]` those of a recovery pass.

*Steps.* One action per transaction of the code (the whole `with
self._connect(immediate=True)` block), and one per point where a call waits or
reads outside a transaction.

| Code | Actions |
|---|---|
| `claim_next_queue_item`, `abandon_queue_claim` | `ClaimNextQueueItem`, `AbandonQueueClaim` |
| `run`, `retry` | `BeginRun`, then `InsertJob`, `ReuseJob`, `RefuseAdmission` or `RefuseSensitive` |
| `_execute_job` | `StartStage`, `ModelReturns`, `RecordResult` for each role and the synthesis, `RecordFailure`, `PrepareReport`, `SealReport` |
| `_call_with_lease_heartbeat` | `Heartbeat`, `ModelReturns` |
| `evaluate_job` | `BeginEvaluation`, `ReadEvaluation`, `CommitEvaluation` |
| `execute_queue_claim`'s except blocks | `Propagate` into `FailClaim`, `NeedApproval` |
| `resume` | `ReadForResume`, `CommitResume` |
| `recover_stale_jobs` | `RecoverStaleJobs` (first transaction), `RecheckJob`, `RecheckClaim`, `Reconcile` (last transaction) |
| queue commands | `Enqueue`, `CancelQueueItem`, `ParkQueueItem`, `UnparkQueueItem`, `ResetQueueItem`, `SupersedeQualityFailure` |
| faults | `Raise` (any transaction or call may raise), `Crash` |
| environment | `JobAges`, `ClaimAges`, `EvidenceChanges` |

*Abstractions.*
The head of the queue is any queued row (ordering, due times and the preflight
are in `QueueDispatch`). The middle transactions of the structured
synthesis and of a strict resume only renew the lease and add events; they are
part of the stage they belong to. Tokens are never compared but for equality, so
a fresh one is any token nobody holds. The recovery threshold is one: passes with
`--stale-minutes 0` are passes for which everything has aged. Report edits after
sealing are folded into `evidence` and `good`: they make an evaluation fail or
raise, nothing else. A queue row whose job row is missing is not modelled (no
code deletes jobs).

### `ReportFinalization`

*State.* The row of one mission, the journalled intent, and the filesystem in
three layers: `files` is what a process reads, `synced` the names whose data has
been flushed, `disk` the directory as it is on the disk. `tx` is the sealing
transaction under way: it holds SQLite's write lock, so other workers' database
steps wait, but its own file steps and a crash do not. `wk` is the worker that
executes the mission.

*Steps.* `PrepareReport` (the intent is committed), `BeginSeal` or
`BeginRecovery` (a transaction begins), `Examine`, `CreateTemporary`,
`WriteTemporary`, `ReplaceReport`, `SyncDirectory`, `VerifyReport`, `Commit` or
`Refuse`; `IOError` anywhere in between; `Crash` and `PowerFailure`. A report is a
model value; a file holds one, or is `Torn`, or does not exist. What differs on
Windows (one write-through call instead of rename and flush) is not modelled.

### `ServiceSupervisor`

*State.* `file` is `service.json` (status, pid, identity), `lock` the holder of
`service.start.lock`, `proc` the process that has each pid, `port` the pid that
listens, `c[x]` the local variables of a command under way (where it is, the
child it has not waited for, that child's identity, whether it could be captured,
the attempts made).

*Steps.* One action per look at the machine, write, or request; the machine acts
in between (`Serves`, `Exits`, `OtherStarts`, `OtherListens`, `OtherExits`), so
that a pid or the port may be another's from one step to the next.

| Code | Actions |
|---|---|
| `start_service`: the record, the port, `Popen` | `BeginStart`, `CheckRecorded`, `CheckPort`, `Spawn`, `SpawnFails` |
| capturing the identity, the first record | `Capture`, `RecordStarting` |
| the health loop, and after it | `CheckChild`, `Probe`, `Confirm`, `Announce` |
| the except blocks, `_terminate_owned_child` | `Interrupt`, `StartWriteFails`, `Terminate`, `Linger`, `WriteOutcome` |
| `stop_service` | `BeginStop`, `OpenGuard`, `AskHealth`, `CheckExact`, `PostStop`, `StopRefused`, `AwaitExit`, `WriteStopped` |
| a command is killed, its program ends | `Die`, `Leave` |

*Abstractions.* The birth fingerprint and the instance id are drawn once per
launch, so one identity stands for both. A home has one port. The Windows handle
of the process guard is modelled as its POSIX counterpart, which looks again.
`service status` writes nothing and is left out. Identities nobody holds any more
are used again.

### `DashboardWorker`

*State.* `locked` is `_run_lock`, which is tried and never waited for; `shown` is
`_state["status"]`, with one value for all ways of ending; `row` the queue rows as
far as this process has to do with them, `thread` the mission threads, `h` the
request handlers, `server` the listening socket.

*Steps.* `TryStart`, `ShowRunning`, `Claim`, `Launch`, `Abandon`, `ShowFailed`,
`Release` are the statements of `start`; `ExecuteMission`, `ShowOutcome`, `EndThread`
those of `_run`; `Reserve`, `Answer`, `Close` the stop handler and the server's
end; `Requeue` is any other process. What a claim and an execution do in the
database is `MissionExecution`'s.

### `ExecutionFocus` and `QueueDispatch`

*State.* `focus` is the file (whether enabled, project, role budget, revision),
`focusLock` the holder of its lock file, `editor[c]` what a caller's focus command
has seen and will write. `rows` is `mission_queue` with what the order and the
claim read (status, mission, priority, due and creation time, the schedule a row
comes from), `sched` the schedules, `stale` the projects whose indexed knowledge is
not current, `slot` the running job, `now` the clock, `caller[c]` the local
variables of a queue command.

| Code | Actions |
|---|---|
| `focus show`, `set`, `handoff`, `clear` (`focus.py:169-372`, `cli.py:699-710`) | `ShowFocus`, `ChooseEdit`, `AssertIdle`, `LockAndCompare`, `ReplaceFocus`, `QuitEdit` |
| `enqueue`, `create_schedule`, `set_schedule_enabled`, `reset`, `park`, `unpark` | `Enqueue`, `CreateSchedule`, `SetScheduleEnabled`, `ResetRow`, `Park`, `Unpark`; `CheckAddition` is the MCP server's preflight before them |
| `materialize_due_schedules` | `Observe` (the clock is read), `Materialize` (the transaction) |
| `queue_preflight`, run-next, `queue_run` | `Review`, `BoundReview`, `ReviewNamed`, `Claim` |
| `run`'s admission, with or without a claim | `RunDirectly`, `RefuseGated`, `BeginAdmission`, `FailAdmission`, `CommitAdmission`, `EndMission` |
| `park-next` | `ReviewParking`, `ParkHead` |
| death, `recover` | `Quit`, `Recover` |

*Abstractions.* A digest is the record it is the digest of; the revision in it keeps
digests apart. Machine and model gates of a preflight are the reviewer's choice to go
on. An execution is one action that ends somehow (`MissionExecution` has the rest).
Knowledge is current or not (`KnowledgeIndex` has the rest).

### `KnowledgeIndex`

*State.* `onDisk` and `index` give each source's content, the index with the stamp
that every update renews; `client[c]` is a command with the rows and contents it has
read; `history` collects the states of the disk a refresh, or the transaction that
admits a job, has lived through.

*Steps.* One action per read of a file and per transaction: `ReadToAdd`, `Store`
(`knowledge add`, `add-dir`), `BeginRefresh`, `Audit`, `StartAgain`, `AuditAgain`,
`Update` (the refresh reads everything twice), `BeginRun`, `Check`, `Search`,
`OpenAdmission`, `Recheck`, `Admit` (a run); `RefuseClient` is any refusal or error,
`Edit` any other program. Contents do not come back, so that a digest names one; an edit
that restores earlier bytes between two reads is not modelled.

### `QualitySupersession`

*State.* `store` is the database as far as a retirement reads it (jobs with parent and
quoted source version, latest evaluations, the row); `edited` and `source` the files.
`reviewer[c]` counts the file reads of a preview or a transaction: fingerprint before,
evaluation, fingerprint after.

*Steps.* `BeginEvaluation`, `ReadForEvaluation`, `CommitEvaluation`; `BeginPreview`,
`ReadFile`, `PreviewAgain`, `VerifyRetirement`, `OpenSupersession`, `Prove`, `Supersede`,
`RefuseReviewer`; `EditJobReport`, `EditSource`, `RefreshSource`, `Retry`,
`ResetFailedRow`, `FailAgain` around them. The rechecks run on a clone of the store, so only their reads are steps. No
edit reverts another byte for byte.

### `ProductEvidence`

*State.* `due` missions, `passes` and `broken` (verdict and report of completed
missions), the three directories `inbox`, `archive`, `kept`, and `ledger`, the rows of
both review tables in order. `command[c]` is a tick, an experiment or a review.

*Steps.* The tick: `StartTick`, `RunMission`, `CycleStops`, `MemoryShort`,
`RecoverMemory`, `NothingDue`, `LookIntoInbox`, then `StartExperiment`, `RunExperiment`,
`TrimAndInvokeAgain`, `ExperimentStops`, `WriteJournal`. A review: `BeginReview` or
`BeginDirectReview`, `KeepReceipt`, `RecordReview` or `RefuseRecord`, `Archive`. A mission
review: `ShowMission`, `RecheckMission`, `RecordMission`. `CommandDies` between any two;
`Reevaluate` and `EditReport` at any time.

### `WorkflowPilot`

*State.* `workflow`, `pilot`, per run its `folder` (receipt, digest file), `anchor` and
`review`; `did` records what the run did in fact.

*Steps.* `BeginLearn`, `Learn`, `StartPilot`, `LoadToRun`, `CreateFolder`, `Play`,
`WriteRunReceipt`, `WriteRunSidecar`, `Anchor`, `BeginJudge`, `Judge`; people may
`DeleteFolder`, `DamageReceipt`, `ReplaceWorkflow`; `Fail` is an error or a kill.
`PilotPassed` is the status. Run IDs are times, here numbers. All input events of a run
are `Play`.

### `RuntimeGuard`

*State.* The machine (`ollama` and the guard that `owner` names as its parent,
`service`, `storeId`, `build`, with `trouble` counting outside changes), `guardLock`,
`journal`, `proved` (the runs that recorded a ready result), the scheduler's `task`,
`guard[g]` and `supervisor`. Times are reduced to which run of the task a journal was
written after, with the two seconds of clock skew as a choice.

*Steps.* `StartGuard`, `TakeLock` or `Busy`, `PinBuild`, `ProbeServer`,
`ConfirmMissing`, `SpawnServer` or `CannotSpawn`, `Wait`, `ReadService`, `StartService`,
`LookAtAll`, `Readiness`, `LookAtAllAgain`, `CheckStore`, `RecordResult` or
`RecordFails`, `Release`; `KillGuard` anywhere. The machine: `OllamaListens`,
`OllamaChanges`, `ServiceChanges`, `StoreOrBuildChanges`. The supervisor: `Watch`,
`SeeTask`, `SeeJournal`, `SeeReadiness`, `SeeJournalAgain`, `Trust`,
`SupervisorGivesUp`.

### `BrowserSuite`

*State.* `manifest`, `browsers` open, `proofs` (the receipts of page checks), the suite
`receipt`; `observed` records the checks that really saw the page pass.

*Steps.* `LoadManifest`, `OpenBrowser`, `Batch` or `BatchFails`, `CloseBrowser`,
`WriteProof`, `Collect`, `WriteSuiteReceipt`, `WriteSuiteSidecar`; outside,
`SealManifest`, `DeleteProof`, `IdleTimeout`, `SuiteDies`. What a page shows is good or not.

### `VisionOffers`

*State.* The evidence `selection` and `evidence`, each set's three files, the worker's
`bundle`, the `content` of every sales file (absent, partial, whole), `seller[c]` (what a
command still has to write), `viewer` (a status under way) and its `offer`.

*Steps.* `ImportProspects`, `CreateDrafts`, `CreatePackages`, `CreateIntake`,
`StartWorker` decide what to write; `TakeFile` and `FillFile` create a file and write
it, `EndCommand` ends; the status is `ReadSelection`, `ReadReadiness`, `ReadPlan`,
`VerifyPlan`, `ReadResearch`, `ReadOutreach`, `ReadPackages`, `AnswerStatus`, or
`Unavailable`. People `Select`, `ReplaceEvidence`, `ChangeBundle`, `Delete`;
`KillSeller` leaves a partial file. The verifier
and the worker are external programs and modelled by what `supermega.py` asks of them.

### `DatasetQuality`

*State.* `sourceTable`, a table of one column; `brief`, `stored` (the ledger row) and
`indexed`, each by the input it was made of; `profiler[p]`, a command; `agreed`,
whether the last profile ran alone and to its end.

*Steps.* `ProfileSource`, `OpenBrief`, `WriteBrief`, `StoreProfile`, `ReadBrief`,
`IndexBrief`; `EditTable`, `KillProfiler`. `Profile`, `RuleResults` and `Overview` are
the algorithms (profile, contract, the dashboard's check of a stored row) as operators, and
`Keeps` the reference they are compared with: what a contract means, row by row. A cell
is one of eight kinds, among them an absent field, an integer no float can hold, and
NaN.

## What is checked

| Run | Instance | Shows |
|---|---|---|
| `race` (`MissionRace.cfg`) | 1 job, 1 row, 2 workers, 3 tokens, 1 role | types; a report intent never outlives its lease; a lease and a claim have one holder; a passing mission is whole; late results are discarded; sealed missions are final |
| `rows` (`MissionRows.cfg`) | 1 job, 2 rows, 2 workers, 2 tokens, no roles; beside it product reviews, below | rows show the verdict; every step is one of `QueueLifecycle`; measured results are kept and judged |
| `retry` (`MissionRetry.cfg`) | 2 jobs, 1 row, 2 workers, 3 tokens, no roles | exclusive execution across direct runs, retries, resumes, claims and recovery, when both workers have passed the checks outside the transaction, or one has lost its claim by the time it inserts its job |
| `dispatch` (`Dispatch.cfg`) | 2 callers, 3 rows, 1 schedule, 3 missions of 2 projects, clock to 4; beside it the knowledge index, below | a claim takes the reviewed due head; a schedule's date makes one row; only what was claimed executes; a focus gives way only to one who saw it; every row moves as in `QueueLifecycle`; every step of the index is one of `EvidenceBase` |
| `service_faults` (`ServiceFaults.cfg`) | 2 commands, 3 pids, 3 identities, 2 health attempts; commands are killed, writes fail | every step is one of `ServiceLife`; a settled service is gone; a record outlives its service; only the recorded instance is stopped; the lifecycle lock comes free |
| `endings` (`Endings.cfg`) | a report (2 reports, 2 temporary names, 2 workers, 3 tokens, power failures); a dashboard (3 handlers, 3 rows); a mission (1 job, 1 row, 1 worker, 1 role) | only a visible, matching report is ever sealed; a published one is sealed; recovery settles every mission; a shutdown excludes missions; claims are held; the status leaves `running`; the execution slot comes free |
| `records` (`Records.cfg`) | ten worlds, below | the report of a complete mission is present, flushed before sealed, every step one of `ReportSeal`; no service is forgotten or doubled; and a property of each of the six components that follow |
| `checkpoints`, `report_adopted`, `worker_stuck`, `focus_race`, `receipt_removed` | small instances | the findings below |

| Scenario of `dispatch` | Instance | Shows |
|---|---|---|
| `rows`, `parking`, `schedules`, `focus` | as above | the properties of the queue, whatever kind of command is given; `RowsLiveAsPromised`: every step moves rows as one step of `QueueLifecycle` does, or not at all |
| `knowledge` | 2 sources, 2 clients, one edit of each source | `ImplementsEvidenceBase`: a refresh, which reads file by file, shows a state the disk was in at one instant; a job is admitted when index and disk agreed at one instant of its admission, and quotes that index |

| World of `rows` | Instance | Shows |
|---|---|---|
| `rows` | as above | `RowsShowVerdict`, `ImplementsQueueLifecycle` |
| `experiments`, `missions` | 2 receipts, one that failed; 2 missions; 2 commands, 2 reviews | `ReviewsAreKept`: a measured result is in the inbox, or archived with its review; `AcceptedResultsPass`: what counts as accepted passes now |

| World of `records` | Instance | Shows |
|---|---|---|
| `report` | 2 reports, 2 temporary names, 2 workers, 3 tokens, no power failure | `ReportPresent`, `DiskBeforeLedger`, `ImplementsReportSeal` |
| `service` | 2 commands, 3 pids, 4 identities, 2 attempts | `NobodyForgotten`, `OneService` |
| `quality` | 2 jobs, 2 commands, 3 evaluations, 1 source edit | `RetirementIsProven`: a failure is retired for a retry that passes, with report and sources as evaluated at one instant |
| `pilot` | 2 recordings, 2 runs, 2 processes, 1 required run | `PromotionIsEarned`: no deletion, crash or late run hides a bad run |
| `suites` | 2 pages, 2 manifests, 2 runs | `GateIsEarned`: a passing gate has seen every page in every required run |
| `guard` | 2 guards (one the task's), 2 runs, 1 outside change | `TrustIsEarned`: the supervisor believes only the task's own last run |
| `prospects`, `leads` | 1 prospect, 2 evidence sets; 1 lead; 2 commands, 1 outside change | `OfferIsBacked`: an offer's plan was verified in the same check, its packages had outreach |
| `tables`, `profiles` | all tables of up to 3 cells under 16 contracts; 2 commands on 2 tables | `ProfileTellsTruth`: what the dashboard says of a profile is true of the file, row by row |

*Worlds.* Components that share no state are explored side by side: a variable `world`
is chosen at the start and says which component moves, the others rest. Behaviours of
one world are those of the component alone, so that a property of the component means
there what it means in a run of its own; the scenario `knowledge` of `dispatch` is a
world in the same sense. Where a component has two worlds (`experiments` and `missions`,
`prospects` and `leads`, `tables` and `profiles`), each leaves the other kind of work
out; the theorems below are about all of it at once. That each world is explored is what
the property's mutant shows. In `endings` the specification is the conjunction of each
component's own fairness; a component that rests has no step enabled, so the fairness of
one asks nothing of the behaviours of another.

*Bounds.* A hazard here needs two actors and one thing they share: two workers
over one job and one row (`race`), two rows that share a job (`rows`), two workers
with a job each that compete for the slot and for one row (`retry`). One role gives
the two stages (a specialist and the synthesis) that make partial progress; `rows`
and `retry` need none. In `rows` and `retry`, `OneRecovery` keeps at most one recovery
pass under way (two are in `race`); `RowsInPlay` drops, in `rows`, states that differ
only in how a row out of play came to rest. `retry` needs three tokens: one for the
claim that was lost, one for the claim made anew and one for a recovery or a
competitor. It is kept small by leaving out what neither takes nor frees the slot: rows
out of play (`RowsCompete`), lost evidence (`EvidenceHolds`, which would only refuse a
resume or a reuse), the ageing of reports that are finished (`ReportsStayFresh`) and
their second evaluation by command (`VerdictsStand`). A retry is one of a mission whose
verdict failed (`RetriesOfFailures`): to the slot a retry is a direct run like any
other, and its parent matters to supersession only. The constraints cut states off
after the invariant has been checked in them, and `Exclusive` below holds without them. Tokens are reused once nobody holds them, so their number only
bounds how many are held at once. Two commands contend for the
lifecycle lock and follow one another; three pids leave room for a service, a
process that took over a recorded pid, and one that took the port; three
identities are the recorded one, the child's and one left over from before. Three
handlers are a mission, a second request and a shutdown.

`dispatch` fixes in its initial states which kind of commands is given (`rows`,
`parking`, `schedules`, `focus`, `knowledge` in `MCQueueDispatch`), since all
at once are too many: two callers, so that one acts between the review and the claim of
the other; three rows, of two priorities and due times, so that a head can be outranked
by a row that comes later, one of them left unused for it; two cadences under a clock of
five ticks, so that dates are missed and made up; four revisions of the focus, for two
handoffs that were both reviewed before either is written. In the worlds of `records`,
and beside those of `rows` and `dispatch`, each component has the two commands it takes to be overtaken, one or two outside changes, and one thing more than
needed of what is counted (two runs where one is required, a table longer than the
profile's rows). `PromotionIsEarned` is about runs within `StatusCap`; beyond it see
below.

`Symmetry` permutes jobs, rows, workers, callers and tokens (`race`, `rows`, `retry`,
`dispatch`, where the sources of the index are, too), and the commands of `records` and of the reviews in `rows` where they are
interchangeable; it is used in runs without liveness only. Datasets are interchangeable too: in `records` the
fallback evidence is of dataset 1 at the start.

*Deadlock* is checked except where the system may stop: a sealed mission leaves nothing
to do and a dashboard shuts down (`Endings.cfg`), components of `records` and the reviews
in `rows` come to rest at a bound or with their work done, and the clock and the rows of `dispatch` run out.

*Fairness.* The mission world of `endings` assumes that a call under way goes on (model
calls have timeouts; a process that stops is a `Crash`), that time passes, and that
somebody runs `recover` again and again while something is stale (the operator's or the
scheduler's duty, docs/OPERATIONS.md:995): strong fairness, because new work may
start in between. It assumes nothing about which step is taken. Faults
end at an arbitrary moment (a switch in `MissionLiveness`, the premise `FaultsEnd`
in `ReportLiveness`): as long as processes keep crashing nothing
can be promised. One worker, because two recovery passes that overlap for ever
may keep re-issuing each other's claims; operators run one. The report world assumes
the same of the sealing transaction and of recovery, the dashboard world that a request
being handled and a mission thread go on. `service_faults` assumes that
a command under way goes on: each of its waits has a timeout, and the attempts of
a start have a deadline; it may still be killed. The other worlds and `dispatch` assume
nothing: their properties are about what has happened.

*Mutants.* Every property has a mutant: an operator next to the mapped one that
changes it as a plausible bug would (a dropped guard, swapped columns, a
comparison left out), under which TLC finds the property violated. The one of
`ExclusiveExecution` leaves out whether the claim is still the worker's own when it
inserts its job; its counterexample takes two workers (the claim ages, the other worker
recovers it, the row is reset and claimed anew, and the first worker inserts a job for a
row that runs under another token). Forgetting the running jobs or the other running
rows violates it, too.

## What is proved

By TLAPS, for any sets of jobs, rows, workers and tokens and any number of
roles, from `NumRolesAssumption` (a natural number), `NoneAssumption` (SQL NULL
is none of the identities) and, for the reports, `NamesAssumption` and
`RowsAssumption` (the model's special values are none of the reports, names and
stages).

`MissionExecution_proofs`:

* `TypeCorrect`: `Spec => []TypeOK`. Inductive as it stands; one lemma per group
  of actions, one step per column an action changes.
* `Exclusive`: `Spec => []ExclusiveExecution`. Inductive together with `TypeOK`,
  because it ties the running row to the running job and their tokens to each
  other: without that conjunct a resume could start beside a row it does not
  own. The proof splits the actions into those that leave the lease columns
  alone (`LeaseFrame`), those that start something (`ExclusiveStart`: nothing
  else runs then), those that stop something (`ExclusiveStop`), and recovery
  (`ExclusiveRecover`: it re-issues the token of a row only when the row's job
  no longer runs).

`MissionLeases_proofs`:

* `TokenHasOneHolder` (`OneHolder`). Two holders of one token would have to get
  it from one draw, and a fresh token is one that nobody holds and no row shows:
  the inductive invariant is `TokensUnique`, over holders and rows together.
* `SealedStaysFinal` (`SealedIsFinal`). Every write to a job is guarded by its
  status or by its token; `Unleased` says that a job that does not run has no
  token, so a guard on the token is a guard on the status too.
* `LateResultsAreDiscarded` (`LateResultsDiscarded`): an action property that
  follows step by step from the types.
* `IntentsStayUnderLease` (`IntentUnderLease`). The intent carries the token it
  was prepared under. It is not inductive: a resume may only replace the token of
  a job whose intent is settled, and `PreparedLast` says that an open intent means
  that every assignment is complete, which resume refuses.

In the same module, about verdicts:

* `RowsAlwaysShowVerdict` (`RowsShowVerdict`) and `PassedIsAlwaysWhole`
  (`PassedIsWhole`). A verdict is read in one transaction and committed in
  another; `JudgesComplete` says that what a call is judging is sealed, hence
  (by `Final`) still what it read when the verdict is written.
* `QueueRefinesLifecycle` (`ImplementsQueueLifecycle`): initial states map to
  initial states and every step to a step or a stutter of `QueueLifecycle`, from
  the invariants above (exclusive execution for its single executing row,
  `RowsShowVerdict` for rows that settle together).

`ReportFinalization_proofs`:

* `ReportTypeCorrect`, and `DiskAlwaysBeforeLedger` (`DiskBeforeLedger`), which
  follows step by step: a sealing transaction commits after the flush.
* `SealsOnlyWhatItSees`: only a report that is visible and matches its intent is
  sealed, with power failures too. `Progress` ties each place in the sealing
  transaction to what is on the file names there.
* `PublishedIsSealed` (`PublishedGetsSealed`), with power failures too. An intent is
  only dropped by a recovery under the mission's own token (`Promised`), which finds
  a published report sealable.
* Under `ASSUME ~PowerMayFail`: `ReportAlwaysPresent` (`ReportPresent`) and
  `FinalizationRefinesSeal` (`ImplementsReportSeal`), from `Agreement` (a complete
  mission's file is the intended one). The assumption is needed: after a power
  failure an adopted, unflushed report may be gone (finding `report_adopted`).

`Dashboard_proofs`, about `DashboardWorker`, for any sets of handlers and rows:

* `WorkerTypeCorrect`, `ShutdownIsExclusive`, `MissionsAreSingle`, `StatusIsTrue`,
  `ClaimsStayHeld`. `Exclusion` says that the lock is taken exactly when a handler
  that starts a mission, a thread, or an accepted or pending shutdown has it, and
  that these exclude each other.

`ServiceSupervisor_proofs`, for any sets of commands, pids and identities and any
number of attempts, from `SupervisorAssumption` and `RecordAssumption` (the null
value is no record, process, pid or identity):

* `ServiceTypeCorrect`, and `StopsReachTheRecorded` (`OnlyTheRecordedStops`), from
  `Ident`: no two processes share an identity, the child of a command keeps pid
  and identity until the command has waited for it, and a record stays while its
  service is launched or stopped.
* `SettledServicesAreGone`, `RunningServicesHaveServed`, `RecordsOutliveServices`,
  from `Records`: what the file says is true of the machine, and what a command
  has looked at (`Knows`) stays true until it acts on it. That holds under any
  step of the machine because no step but a launch brings an identity to life
  (`Fades`).
* `NobodyIsForgotten` and `ServicesAreSingle`, from `Sole`, which is kept while
  commands are not killed and writes work: every service is the child of the
  command that holds the lock, or is recorded as active.
* `ServiceImplementsLife` (`ImplementsServiceLife`): initial states map to initial
  states and every step to a step or a stutter of `ServiceLife`. A service's life is the
  phase of the process that bears its identity (`LifeOf`, one process by `Ident`); a step
  of one process moves one life (`OneLife`) and the others rest (`LivesStay`). What
  `ServiceLife` demands of a launch and of a write is what `Records` knows of the
  recorded service, and `Sole` while nothing fails; that one service at a time has the
  port needs `PortHeld`, who serves is who listens. Where `ServiceLife` says `Exclusive`,
  it is `Reliable` here: after a killed start, two services may boot, and the theorem
  says what still holds then. The run `service_faults` is of that case; the other one is
  in the theorem, and `OneService` checks it in `records`.

`QueueDispatch_proofs`, for any sets of callers, rows, schedules and missions, any
bounds of clock and revisions, from `FocusAssumption` and `DispatchAssumption`:

* `FocusInv` adds to the focus's types that a caller about to replace the focus holds the
  lock and that what it compared is still there (`HoldsWhatItCompared`): nobody writes the
  focus without the lock, so the comparison is not stale when it is used. From it follows
  `HandoffsSwapTheReviewed`. Enforcement reads without the lock and changes nothing.
* `DispatchInv` is the types, `ExecutesWhatWasClaimed` and what makes it inductive: a
  claimed row is `running` and one caller's (`ClaimsHold`); while an admission has the
  write lock nothing else runs (`AdmissionIsAlone`); what runs is in the slot
  (`RunnersHaveTheSlot`). Most steps only turn one caller to something else and touch rows
  that do not run (`Aside`), which one lemma settles for all of them. It gives
  `DispatchTypeCorrect`, `OnlyTheClaimedExecutes` and, with the order of the due rows,
  `ClaimsTakeTheReviewedHead`.
* `DatesInv` counts a row's date in periods of its schedule's cadence from the next date:
  the rows of a schedule lie before it, in different periods. Materializing shifts all of
  them by one number (`NextDateShifts`, on the quotients of integer division), and the new
  row is in the last period. It gives `DatesAreMadeOnce`: a schedule that was missed many
  times makes one row and never that date again.
* `DispatchImplementsLifecycle` (`RowsLiveAsPromised`): initial states map to initial
  states and every step to one of `QueueLifecycle` or to none that it sees, from
  `DispatchInv` (a row is claimed, or a mission admitted, only while none executes; only
  an executing row ends). With `QueueRefinesLifecycle` both halves of the program keep to
  one abstract queue: how rows come to be claimed, and what becomes of them.

`Evidence_proofs`, from `KnowledgeAssumption`, `QualityAssumption` and
`EvidenceAssumption` (bounds are numbers, null is no job and no receipt, the failed
receipts are receipts), for any sets of files, clients, jobs, reviewers, receipts and
missions:

* `KnowledgeTypes`, `SnapshotTheorem` (`RefreshIsSnapshot`), `CurrentEvidenceTheorem`
  (`AdmitsCurrentEvidence`). `KnowledgeInv` gives each client what it knows of a world
  that moves on: during the second audit some state `d` of the disk, which lies in the
  client's history, is between what the first audit read and the files now, and equals
  what was read for every file that was looked at again. When no file is left, `d` is
  what the refresh writes. A row whose stamp is the one a run has read has the content
  it has read, as every update renews the stamp.
* `KnowledgeImplementsEvidenceBase` (`ImplementsEvidenceBase`): initial states map to
  initial states and every step to a step or a stutter of `EvidenceBase`. The same
  argument serves admission: `InstantOf` gives the transaction that admits a job a state
  of the disk since it began that agrees with the index on every file it has compared
  (`InstantInv`); the write lock keeps the index as it is meanwhile. That one instant fits
  all files rests on contents that do not come back, as the module says.
* `QualityTypesTheorem`, `RetirementTheorem` (`RetirementIsProven`). `QualityInv` follows
  the six reads of a proof: files are only edited, so that a report found sealed at the
  last read was so at every one before (`ReviewerInv`), and equal fingerprints around the
  evaluation make its verdict one of a single instant. In the transaction the job still
  is the candidate, since nobody else writes the store (`TransactionWrites`).
* `EvidenceTypesTheorem`, `ReviewsKeptTheorem` (`ReviewsAreKept`), `AcceptedTheorem`
  (`AcceptedResultsPass`). `EvidenceInv` says that a command about to archive has its
  review in the ledger, and that a row was honest when it was recorded; what has become
  stale since is not counted.

`Operations_proofs`, from `PilotAssumption`, `SuiteAssumption` and `GuardAssumption`
(null is no recording, run, deed, manifest or exit code; a manifest is some pages and a
number of runs), for any sets of recordings, processes, pages, suites and guards:

* `PilotTypesTheorem`, `PromotionTheorem` (`PromotionIsEarned`). `PilotInv` says that
  processes work on runs of their own and that receipts and anchors of a run are what it
  did. A run keeps its anchor when its folder goes, so it stays listed (`AllListed`), and
  the latest anchored runs are among the accepted ones by counting (`LatestAccepted`).
* `SuiteTypesTheorem`, `GateTheorem` (`GateIsEarned`). `SuitesInv` says that a suite that
  has passed so far has observed all pages of its finished runs, and of the current one
  those that are not left to check.
* `GuardTypesTheorem`, `TrustTheorem` (`TrustIsEarned`). `GuardsInv` ties the exit code of
  a run to what it recorded: a guard that leaves with 0 is among those that recorded a
  ready result, and so is a task that is over with 0. What the supervisor has seen of the
  task is still so when it trusts, because it looks again.

`Dashboard_proofs`, further, from `OffersAssumption` (the fallback is a set of evidence)
and `DatasetAssumption` (tables are sequences of cells, contracts of the known rules):

* `OffersTypesTheorem`, `OfferTheorem` (`OfferIsBacked`). `OffersInv` says that a status
  past `VerifyPlan` goes by the plan that it has verified, that a command only writes
  packages of prospects whose outreach was complete, and that no two commands fill one
  file.
* `DatasetTypesTheorem`, `ProfileTheorem` (`ProfileTellsTruth`). A profile keeps counts
  and no rows. Counts are cardinalities of sets of rows, so they add up over disjoint
  sets of cell kinds (`WhereSum`, `Partition`) and are zero where no row is of a kind;
  from that follows for tables of any length, without induction, that each rule passes
  exactly where the rows keep it (`RequiredPasses`, `TypesPass`, `RangePasses`,
  `AllPass`) and that what the dashboard derives from the counts is what the profile
  derived from the rows (`Readable`). For several commands `DatasetInv` says that one
  that was alone finds brief, row and index as it left them.

Every one of these inductive invariants has the types as a part. Finding them showed one
fault of the models: three `CASE` expressions (in `Collect`, `LookAtAllAgain` and
`Stage`) had arms that overlap, where TLA+ leaves open which one is taken and the code
does not; they are chains of `IF` in the order of the code now.

Some of the theorems state what no run asks any more because a property listed above
says more, or because the theorem is enough: the types of the components beside
`MissionExecution`, `SnapshotTheorem`, `CurrentEvidenceTheorem`, `MissionsAreSingle`,
`StatusIsTrue`, `RunningServicesHaveServed`.

Four abstract specifications are implemented, each by a checked property and a theorem:
`QueueLifecycle` twice, `ReportSeal` (when power does not fail), `EvidenceBase`,
`ServiceLife`. All are safety: none of them promises that something is done.

Only model-checked: liveness (`SlotComesFree`, `RunningEnds`, `LockComesFree`,
`StatusLeavesRunning`), since fairness and ENABLED are out of TLAPS's reach. Every other
property of a passing run is stated by a theorem. The finding runs are counterexamples
and have no theorem.

## What the code does not keep

* `checkpoints`: two concurrent `resume` calls of one failed job. Both read the
  results (`core.py:8828-8834`) before either takes the lease; the first
  resumes, completes a role and fails; the second's transaction finds the job
  failed, takes the lease, and runs the completed role again.
* `report_adopted`: publication is documented as "replace in the same directory
  and flush that directory" (docs/OPERATIONS.md:1001). If the flush did not
  happen (the process died after `os.replace`, or `fsync` failed), the next
  sealing transaction adopts the report it finds and flushes nothing.
* `worker_stuck`: OPERATOR.md:128 tells the operator to "wait for its status to
  leave `running`". When the mission's thread cannot be started and giving the
  claim back raises too, `start` releases the lock and leaves the status at
  `running`, with nothing left that would change it.
* `focus_race`: OPERATOR.md:34 says that an active job or running claim rejects a
  handoff. The command asks for active work (`cli.py:699-710`) before it takes the focus
  lock; a mission that is admitted in between runs on while the focus is moved away
  (`cli.py:943`).
* `receipt_removed`: a review of a receipt over MCP that fails takes back the receipt
  file it created (`mcp_server.py:844`), although another review of the same receipt may
  have been recorded meanwhile: a recorded review without its receipt.

Behaviour the models have and no document speaks about: a filesystem
`PermissionError` at `core.py:8755` turns a row into `needs_approval` while its
job still runs, and no command leads out of `needs_approval`; an evaluation
without a claim commits what it read even when the evidence has changed; a
mission whose output file does not match its intent is interrupted, and resuming
it ends at the same file, so that `retry` is the way out (as docs/OPERATIONS.md
says). A pilot's status looks at its first 2000 run IDs only
(`workflow_pilot.py:635`): later runs, bad ones too, are not seen. The file-creating
sales commands leave a partial file when they are killed between opening and writing
it, and every later command then reports a conflict until somebody removes it
(`supermega.py:768-792`); the sales worker's texts stay although its code is found
changed after the run. `park-next` decides by a focus that it read earlier: a row may be
parked that a new focus admits. A dataset's brief, ledger row and index entry may be of
three different profiles when profiles overlap. A preflight's answer is a snapshot, and
the MCP server gives up waiting for a run after its time limit while the run goes on.
Rows of a CSV with surplus fields are profiled with a column named `None`.

## What is not modelled

Left out because no property here depends on it: prompts, model output, the content
checks of the evaluator, HTML, JSON schemas, argument parsing and the read-only reports;
authentication and access control; disk exhaustion other than as an `OSError`; clock
changes; the Windows branches (write-through replacement, process handles, msvcrt
locks) where the POSIX ones are modelled.

Left out of components that are otherwise modelled:

* `set_knowledge_authority` and the ranking of search results (`core.py:3354-3398`):
  columns that only order what a search returns.
* The `action_requests` ledger (`core.py:4918-4943`): two guarded updates that nothing
  else reads to decide.
* The aggregate quality reports (`core.py:6886-7080`, `9441-9970`) and the cloned store of
  a preview: reads of one transaction.
* Parsing of CSV, JSON and XLSX (`spreadsheet.py`), numeric summaries, keys of several
  columns.
* Single input events of recording and replay, and the desktop checks between them
  (`computer_use.py`): one step, with an outcome. Two runs may play at a time, as no lock
  of the code prevents it.
* What a page check looks for; the browser's own protocol.
* Knowledge sources that belong to no project: in `QueueDispatch` a mission of no project
  is checked against the sources of all projects, and of nothing else.
* In `ProductEvidence`, whether a review of a mission is stale is decided by whether the
  evaluation passes; the code compares its score and the evaluator's version
  (`core.py:9273-9275`), so that more reviews are stale there. A review of a mission given
  over MCP (`mcp_server.py:407-410`) is the same transaction as one on the command line
  and has no action of its own; caps on the number of reviews and of inbox files are left
  out.
* In `WorkflowPilot`, an anchor is written in one step. A crash inside `_exclusive_json`
  (`workflow_pilot.py:469`) may leave part of one, which the status refuses.
* In `RuntimeGuard`, how old a task run or a journal may be and how far apart they may lie
  for the supervisor to believe them: the model believes older ones, too.
* In `VisionOffers`, the checks of the inbox and of rejections and the leads that are
  blocked (`supermega.py:1304-1322`, `1412-1416`), which only withhold an offer.
* In `DatasetQuality`, outliers and the formula and error cells of spreadsheets among the
  quality flags (`core.py:4734-4753`): the dashboard asks for a review more often.
* The text of sales artifacts, interactive prompts.
* The PowerShell that registers the scheduled task; installers and menus.

Not modelled at all: operator briefs and audit export, machine capacity (a pure
classification of one snapshot), model policy and build identity (constants), the
readiness, build and prompt scripts, the deployment checks. They read and format, and
keep no state.

## Plan

Done, in this order: `MissionExecution` with `QueueLifecycle` and `MissionLiveness`;
`ReportFinalization` with `ReportSeal` and `ReportLiveness`; the proofs about both;
`ServiceSupervisor` and `DashboardWorker` with theirs; `ExecutionFocus` and
`QueueDispatch` with theirs; `KnowledgeIndex`, `QualitySupersession`, `ProductEvidence`,
`WorkflowPilot`, `RuntimeGuard`, `BrowserSuite`, `VisionOffers`, `DatasetQuality`; the
proofs about these eight; and what the queue's dispatcher, the knowledge index and the
service promise (`QueueLifecycle`, `EvidenceBase`, `ServiceLife`), with refinements to it.

Next:

1. Abstract specifications of the components that have none, a ledger of judgments
   (`QualitySupersession`, `ProductEvidence`, `WorkflowPilot`) first, and refinements to
   them.
2. A composition of `MissionExecution` with `QueueDispatch` that moves both at once. Each
   implements `QueueLifecycle` now, but nothing says that they agree on which row moves.
3. In `QualitySupersession`, the aggregate reports over several rows.
