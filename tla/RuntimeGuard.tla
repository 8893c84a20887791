---------------------------- MODULE RuntimeGuard ----------------------------
(***************************************************************************)
(* The runtime guard (runtime_guard.py) and the check of its scheduled     *)
(* task (check_runtime_supervisor.py).  A guard starts the model server    *)
(* and the local service when they are confirmed missing, looks at         *)
(* everything twice more and records its result in the company home.       *)
(* Guards run as a scheduled task or by hand, one at a time under a lock,  *)
(* and are killed between any two steps.  The supervisor believes a        *)
(* recorded result only when it fits the last run of the task.             *)
(***************************************************************************)
EXTENDS Integers, FiniteSets, Nothing

CONSTANTS Guards,       \* guard processes
          Scheduled,    \* the one that the task scheduler starts
          MaxGuardRuns, \* bound: runs of guards
          MaxTrouble    \* bound: crashes of components, changes of store and build

VARIABLES ollama,    \* the model server; "bare": it answers, without the model
          owner,     \* the guard whose child the server is, while it waits for it
          service,   \* the local service: "absent", "live", "other"
          storeId,   \* identity of the company store
          build,     \* the checked build manifest
          trouble,   \* how much happened so far
          guardLock, \* runtime.guard.lock
          guardRuns, \* guard runs so far
          journal,   \* runtime-guard-last.json
          proved,    \* runs that recorded a ready result (history)
          task,      \* the scheduled task: its last run, running or its result
          guard,     \* what each guard is doing
          supervisor \* what the supervisor has seen

machine == <<ollama, owner, service, storeId, build, trouble>>
records == <<guardRuns, journal, proved>>
guardVars == <<machine, guardLock, records, task, guard, supervisor>>

Codes == 0..2   \* ready, action required, indeterminate

ASSUME GuardAssumption == None \notin Codes /\ MaxGuardRuns \in Nat /\ MaxTrouble \in Nat

GuardAtRest == [step |-> "idle", run |-> 0, store |-> 0, build |-> 0, unclear |-> FALSE,
                backend |-> FALSE, ready |-> FALSE, code |-> None]

GuardSteps == {"idle", "pinned", "locked", "probe", "confirm", "spawn", "wait", "service", "start",
               "look", "readiness", "look again", "record", "commit", "release"}

Watching == [step |-> "idle", task |-> None, journal |-> None, store |-> 0, build |-> 0,
             retried |-> FALSE]

GuardTypeOK ==
    /\ ollama \in {"down", "starting", "bare", "up"} /\ owner \in Guards \cup {None}
    /\ service \in {"absent", "live", "other"}
    /\ trouble \in 0..MaxTrouble /\ storeId + build <= trouble
    /\ guardLock \in Guards \cup {None} /\ guardRuns \in 0..MaxGuardRuns
    /\ journal # None => journal.code \in Codes /\ journal.by \in 1..MaxGuardRuns
    /\ proved \subseteq 1..MaxGuardRuns
    /\ task.run \in 0..MaxGuardRuns /\ task.result \in Codes \cup {None}
    /\ \A g \in Guards : guard[g].step \in GuardSteps /\ guard[g].code \in Codes \cup {None}
    /\ supervisor.step \in {"idle", "task", "journal", "readiness", "journal again", "again", "trusted"}

GuardInit == /\ ollama \in {"down", "up"} /\ owner = None /\ service \in {"absent", "live"}
             /\ storeId = 0 /\ build = 0 /\ trouble = 0
             /\ guardLock = None /\ guardRuns = 0 /\ journal = None /\ proved = {}
             /\ task = [run |-> 0, going |-> FALSE, result |-> None]
             /\ guard = [g \in Guards |-> GuardAtRest]
             /\ supervisor = Watching

--------------------------------------------------------------------------
(* The machine: components fail and come up by themselves or by hand. *)

TroubleHappens == trouble < MaxTrouble /\ trouble' = trouble + 1

Elsewhere == UNCHANGED <<guardLock, records, task, guard, supervisor>>

OllamaListens == /\ ollama = "starting" /\ ollama' \in {"bare", "up"}
                 /\ UNCHANGED <<owner, service, storeId, build, trouble>> /\ Elsewhere

OllamaChanges == /\ TroubleHappens
                 /\ \/ ollama # "down" /\ ollama' = "down"
                    \/ ollama = "down" /\ ollama' = "starting"
                 /\ owner' = None
                 /\ UNCHANGED <<service, storeId, build>> /\ Elsewhere

ServiceChanges == /\ TroubleHappens
                  /\ service' \in {"absent", "live", "other"} \ {service}
                  /\ UNCHANGED <<ollama, owner, storeId, build>> /\ Elsewhere

StoreOrBuildChanges == /\ TroubleHappens
                       /\ \/ storeId' = storeId + 1 /\ UNCHANGED build
                          \/ build' = build + 1 /\ UNCHANGED storeId
                       /\ UNCHANGED <<ollama, owner, service>> /\ Elsewhere

--------------------------------------------------------------------------
(* guard_once: pin the store, take the lock or answer that it is busy. *)

MoveGuard(g, state) == guard' = [guard EXCEPT ![g] = state]

GuardGoes(g, step) == MoveGuard(g, [guard[g] EXCEPT !.step = step])

(* The task scheduler notes the run and, in the end, its exit code. *)
TaskEnds(g, result) == task' = IF g = Scheduled THEN [task EXCEPT !.going = FALSE, !.result = result]
                                      ELSE task

Watched == UNCHANGED supervisor

(* A record of the last two seconds (CLOCK_SKEW_SECONDS) before the task began
   counts as written after it. *)
StartGuard(g) ==
    /\ guard[g].step = "idle" /\ guardRuns < MaxGuardRuns
    /\ guardRuns' = guardRuns + 1
    /\ MoveGuard(g, [GuardAtRest EXCEPT !.step = "pinned", !.run = guardRuns', !.store = storeId])
    /\ IF g = Scheduled
       THEN /\ task' = [run |-> guardRuns', going |-> TRUE, result |-> None]
            /\ journal' \in {journal} \cup
                   IF journal = None THEN {} ELSE {[journal EXCEPT !.after = guardRuns']}
       ELSE UNCHANGED <<task, journal>>
    /\ UNCHANGED <<machine, guardLock, proved>> /\ Watched

TakeLock(g) == /\ guard[g].step = "pinned" /\ guardLock = None
               /\ guardLock' = g
               /\ GuardGoes(g, "locked")
               /\ UNCHANGED <<machine, records, task>> /\ Watched

Busy(g) == /\ guard[g].step = "pinned" /\ guardLock # None
           /\ MoveGuard(g, GuardAtRest)
           /\ TaskEnds(g, 1)
           /\ UNCHANGED <<machine, guardLock, records>> /\ Watched

Quiet == UNCHANGED <<machine, guardLock, records, task>> /\ Watched

(* The end of _guard_locked: a result for another store is not recorded. *)
GuardAnswers(g, code, record) ==
    MoveGuard(g, [guard[g] EXCEPT !.step = IF record THEN "record" ELSE "release", !.code = code])

StoreSame(g) == storeId = guard[g].store

BuildSame(g) == build = guard[g].build

PinBuild(g) ==
    /\ guard[g].step = "locked"
    /\ IF StoreSame(g) THEN \/ MoveGuard(g, [guard[g] EXCEPT !.step = "probe", !.build = build])
                            \/ GuardAnswers(g, 2, TRUE)   \* the manifest is not valid
                       ELSE GuardAnswers(g, 2, FALSE)
    /\ Quiet

--------------------------------------------------------------------------
(* Ollama: missing twice and nobody at its port, or left alone. *)

Reachable == ollama \in {"bare", "up"}

Reached(g) == MoveGuard(g, [guard[g] EXCEPT !.step = "service", !.backend = ollama = "up"])

Unclear(g, step) == MoveGuard(g, [guard[g] EXCEPT !.step = step, !.unclear = TRUE])

ProbeServer(g) == /\ guard[g].step = "probe"
                  /\ IF Reachable THEN Reached(g) ELSE GuardGoes(g, "confirm")
                  /\ Quiet

(* Once more, then the port, which can leave the matter unclear. *)
ConfirmMissing(g) == /\ guard[g].step = "confirm"
                     /\ \/ IF Reachable THEN Reached(g) ELSE GuardGoes(g, "spawn")
                        \/ Unclear(g, "service")
                     /\ Quiet

(* No pinned executable, or it does not fit its digest: nothing is started. *)
CannotSpawn(g) == /\ guard[g].step = "spawn" /\ StoreSame(g) /\ BuildSame(g)
                  /\ \E unclear \in BOOLEAN :
                       MoveGuard(g, [guard[g] EXCEPT !.step = "service", !.unclear = unclear])
                  /\ Quiet

(* The child serves the port, unless somebody else's server has it. *)
SpawnServer(g) ==
    /\ guard[g].step = "spawn"
    /\ IF StoreSame(g) /\ BuildSame(g)
       THEN /\ ollama' = IF ollama = "down" THEN "starting" ELSE ollama
            /\ owner' \in CASE ollama = "down"     -> {g}
                           [] ollama = "starting" -> {g, None}
                           [] OTHER               -> {None}
            /\ GuardGoes(g, "wait")
       ELSE /\ GuardAnswers(g, 2, StoreSame(g))
            /\ UNCHANGED <<ollama, owner>>
    /\ UNCHANGED <<service, storeId, build, trouble, guardLock, records, task>> /\ Watched

(* The server came up; whether the child had already left in favour of
   somebody else's is seen or not.  A child that did not come up is ended. *)
Wait(g) ==
    /\ guard[g].step = "wait"
    /\ \/ Reachable /\ Reached(g) /\ UNCHANGED ollama
       \/ Reachable /\ owner # g /\ Unclear(g, "service") /\ UNCHANGED ollama
       \/ /\ ~Reachable
          /\ ollama' = IF owner = g THEN "down" ELSE ollama
          /\ Unclear(g, "service")
    /\ owner' = None
    /\ UNCHANGED <<service, storeId, build, trouble, guardLock, records, task>> /\ Watched

--------------------------------------------------------------------------
(* The service: started when it is safely absent and its backend is ready. *)

ReadService(g) ==
    /\ guard[g].step = "service"
    /\ IF service # "absent" \/ ~guard[g].backend THEN GuardGoes(g, "look")
       ELSE IF StoreSame(g) /\ BuildSame(g) THEN GuardGoes(g, "start")
       ELSE Unclear(g, "look")
    /\ Quiet

StartService(g) ==
    /\ guard[g].step = "start"
    /\ service' \in IF service = "absent" THEN {"absent", "live"} ELSE {service}
    /\ GuardGoes(g, "look")
    /\ UNCHANGED <<ollama, owner, storeId, build, trouble, guardLock, records, task>> /\ Watched

MachineRuns == ollama = "up" /\ service = "live"

(* Everything is read, then the full readiness is asked for. *)
LookAtAll(g) ==
    /\ guard[g].step = "look"
    /\ GuardGoes(g, IF MachineRuns /\ StoreSame(g) /\ BuildSame(g) /\ ~guard[g].unclear
             THEN "readiness" ELSE "look again")
    /\ Quiet

Readiness(g) ==
    /\ guard[g].step = "readiness"
    /\ \E ready \in {MachineRuns, FALSE} :
         MoveGuard(g, [guard[g] EXCEPT !.step = "look again", !.ready = ready])
    /\ Quiet

(* Everything is read for the last time, and the answer follows. *)
LookAtAllAgain(g) ==
    /\ guard[g].step = "look again"
    /\ \E code \in IF guard[g].unclear \/ ~StoreSame(g) \/ ~BuildSame(g) THEN {2}
                  ELSE IF MachineRuns /\ guard[g].ready THEN {0}
                  ELSE IF MachineRuns \/ service = "other" THEN {1, 2} ELSE {1} :
         GuardAnswers(g, code, StoreSame(g))
    /\ Quiet

--------------------------------------------------------------------------
(* The journal is replaced under the lock, or the result is not believed. *)

CheckStore(g) == /\ guard[g].step = "record"
                 /\ StoreSame(g)
                 /\ GuardGoes(g, "commit")
                 /\ Quiet

RecordResult(g) ==
    LET code == guard[g].code IN
    /\ guard[g].step = "commit"
    /\ journal' = [code |-> code, after |-> task.run, by |-> guard[g].run]
    /\ proved' = IF code = 0 THEN proved \cup {guard[g].run} ELSE proved
    /\ GuardGoes(g, "release")
    /\ UNCHANGED <<machine, guardLock, guardRuns, task>> /\ Watched

RecordFails(g) == /\ guard[g].step \in {"record", "commit"}
                  /\ MoveGuard(g, [guard[g] EXCEPT !.step = "release", !.code = 2])
                  /\ Quiet

Release(g) == /\ guard[g].step = "release"
              /\ guardLock' = None
              /\ TaskEnds(g, guard[g].code)
              /\ MoveGuard(g, GuardAtRest)
              /\ UNCHANGED <<machine, records>> /\ Watched

(* The system frees the lock; a child that was started goes on. *)
KillGuard(g) == /\ guard[g].step # "idle"
                /\ guardLock' = IF guardLock = g THEN None ELSE guardLock
                /\ TaskEnds(g, None)
                /\ MoveGuard(g, GuardAtRest)
                /\ UNCHANGED <<machine, records>> /\ Watched

--------------------------------------------------------------------------
(* The supervisor: the task, its journal, readiness, and all of it again. *)

See(state) == supervisor' = state /\ UNCHANGED <<machine, guardLock, records, task, guard>>

Watch == /\ supervisor.step \in {"idle", "trusted"}
         /\ See([Watching EXCEPT !.step = "task", !.store = storeId, !.build = build])

(* A run in progress or one that is too old ends the check here. *)
SeeTask == /\ supervisor.step = "task"
           /\ ~task.going /\ task.result # None
           /\ See([supervisor EXCEPT !.step = "journal", !.task = task])

(* Mutant: a fresh and ready journal is enough. *)
FreshJournal == journal # None /\ journal.code = 0

(* Written since the task's last run began, and with the code it ended with. *)
FittingJournal == /\ journal # None
                  /\ journal.after = supervisor.task.run
                  /\ journal.code = supervisor.task.result
                  /\ journal.code = 0

SeeJournal == /\ supervisor.step = "journal"
              /\ FittingJournal
              /\ See([supervisor EXCEPT !.step = "readiness", !.journal = journal])

SeeReadiness == /\ supervisor.step = "readiness"
                /\ MachineRuns
                /\ See([supervisor EXCEPT !.step = "journal again"])

(* When anything changed there is one more attempt, then none. *)
SeeAgain(step, same) ==
    IF same THEN See([supervisor EXCEPT !.step = step])
    ELSE /\ ~supervisor.retried
         /\ See([supervisor EXCEPT !.step = "task", !.task = None, !.journal = None, !.retried = TRUE])

SeeJournalAgain == /\ supervisor.step = "journal again"
                   /\ SeeAgain("again", journal = supervisor.journal)

Trust == /\ supervisor.step = "again"
         /\ SeeAgain("trusted", task = supervisor.task /\ storeId = supervisor.store
                                                       /\ build = supervisor.build)

SupervisorGivesUp == /\ supervisor.step # "idle"
                     /\ See(Watching)

GuardNext ==
    \/ OllamaListens \/ OllamaChanges \/ ServiceChanges \/ StoreOrBuildChanges
    \/ \E g \in Guards :
         \/ StartGuard(g) \/ TakeLock(g) \/ Busy(g) \/ PinBuild(g)
         \/ ProbeServer(g) \/ ConfirmMissing(g) \/ CannotSpawn(g) \/ SpawnServer(g) \/ Wait(g)
         \/ ReadService(g) \/ StartService(g) \/ LookAtAll(g) \/ Readiness(g) \/ LookAtAllAgain(g)
         \/ CheckStore(g) \/ RecordResult(g) \/ RecordFails(g) \/ Release(g) \/ KillGuard(g)
    \/ Watch \/ SeeTask \/ SeeJournal \/ SeeReadiness \/ SeeJournalAgain \/ Trust
    \/ SupervisorGivesUp

GuardSpec == GuardInit /\ [][GuardNext]_guardVars

--------------------------------------------------------------------------
(* The supervisor calls the machine ready only on the word of the task's last
   run: that run is over and recorded a ready result itself, however often
   guards were busy, killed or unable to record, and whoever else ran a guard
   and replaced the journal in the meantime. *)
TrustsTheProved ==
    supervisor.step # "trusted" /\ supervisor'.step = "trusted" =>
        ~task.going /\ task.result = 0 /\ task.run \in proved

TrustIsEarned == [][TrustsTheProved]_guardVars

===========================================================================
