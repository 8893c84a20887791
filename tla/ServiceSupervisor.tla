-------------------------- MODULE ServiceSupervisor --------------------------
(***************************************************************************)
(* The detached dashboard service (service.py): the commands that start    *)
(* and stop it, the record they keep of it in service.json, the process    *)
(* itself, and the other processes of the machine, which may get the pid   *)
(* or the port of a service that is gone.                                  *)
(*                                                                         *)
(* A process is recognised by its birth fingerprint and the listener by    *)
(* its instance id. Both are drawn once per launch, so one identity stands *)
(* for the two of them. One step is one look at the machine, one write, or *)
(* one request: between two of them anybody else may act.                  *)
(***************************************************************************)
EXTENDS Naturals, FiniteSets

CONSTANTS
  Callers,        \* processes that run `service start` or `service stop`
  Pids,           \* process numbers, which the system gives out again
  Ids,            \* identities of launched services
  MaxTries,       \* health attempts of one start
  CallersMayDie,  \* may a command be killed half way?
  WritesMayFail,  \* may writing service.json fail?
  Null            \* no file, no process, no identity

ASSUME SupervisorAssumption ==
  /\ Null \notin Callers \cup Pids \cup Ids
  /\ MaxTries \in Nat
  /\ CallersMayDie \in BOOLEAN /\ WritesMayFail \in BOOLEAN

VARIABLES
  file,   \* service.json, or Null
  lock,   \* who holds service.start.lock, or Null
  proc,   \* the process that has each pid, or Null
  port,   \* the pid that listens on the service's port, or Null
  c       \* the local variables of each command

serviceVars == <<file, lock, proc, port, c>>

\* What service.json says; a record without an identity is a legacy one.
Active == {"starting", "running", "cleanup_failed"}
Record == [status : Active \cup {"stopped", "failed"}, pid : Pids,
           id : Ids \cup {Null}]

\* A service imports, serves, shuts down; once it has exited it keeps its pid
\* until its parent has waited for it. Any other process has no identity here.
Phase   == {"booting", "serving", "closing", "exited", "other"}
Process == [id : Ids \cup {Null}, phase : Phase]

\* Where a command is, the child it launched and not yet waited for, the
\* identity of that child, and whether it has captured that identity.
StartPc == {"start", "port", "spawn", "capture", "record", "wait", "probe",
            "confirm", "announce", "give_up", "reap", "write_failed",
            "write_cleanup"}
StopPc  == {"open", "ask", "check", "post", "await", "write_stopped"}
Command == [pc : {"idle", "returned"} \cup StartPc \cup StopPc,
            pid : Pids \cup {Null}, id : Ids \cup {Null},
            captured : BOOLEAN, tries : 0..MaxTries]
IdleCaller == [pc |-> "idle", pid |-> Null, id |-> Null, captured |-> FALSE, tries |-> 0]

ASSUME RecordAssumption == Null \notin Record \cup Process

ServiceInit ==
  /\ file = Null /\ lock = Null /\ port = Null
  /\ proc = [p \in Pids |-> Null]
  /\ c = [x \in Callers |-> IdleCaller]

----------------------------------------------------------------------------
\* The machine

Has(p, i)   == proc[p] # Null /\ proc[p].id = i
Phased(p)   == IF proc[p] = Null THEN "absent" ELSE proc[p].phase
Service(p)  == Phased(p) \in {"booting", "serving", "closing"}
Running(i)  == \E p \in Pids : Has(p, i) /\ Service(p)

\* An identity nobody has any more is as good as one that never was.
FreeIds == Ids \ ({proc[p].id : p \in {q \in Pids : proc[q] # Null}}
                 \cup {c[x].id : x \in Callers}
                 \cup (IF file = Null THEN {} ELSE {file.id}))

\* The child of a command that goes away is waited for by init.
Orphaned(x) == [p \in Pids |-> IF p = c[x].pid /\ Phased(p) = "exited"
                                 THEN Null ELSE proc[p]]

Freed(p) == IF port = p THEN Null ELSE port

Serves(p) ==
  /\ Phased(p) = "booting" /\ port = Null
  /\ proc' = [proc EXCEPT ![p].phase = "serving"] /\ port' = p
  /\ UNCHANGED <<file, lock, c>>

\* A service ends: it was told to, it crashed, or the port was taken.
Exits(p) ==
  /\ Service(p)
  /\ proc' = [proc EXCEPT ![p] = IF \E x \in Callers : c[x].pid = p
                                   THEN [proc[p] EXCEPT !.phase = "exited"]
                                   ELSE Null]
  /\ port' = Freed(p)
  /\ UNCHANGED <<file, lock, c>>

OtherStarts(p) ==
  /\ proc[p] = Null
  /\ proc' = [proc EXCEPT ![p] = [id |-> Null, phase |-> "other"]]
  /\ UNCHANGED <<file, lock, port, c>>

OtherListens(p) ==
  /\ Phased(p) = "other" /\ port = Null /\ port' = p
  /\ UNCHANGED <<file, lock, proc, c>>

OtherExits(p) ==
  /\ Phased(p) = "other"
  /\ proc' = [proc EXCEPT ![p] = Null] /\ port' = Freed(p)
  /\ UNCHANGED <<file, lock, c>>

----------------------------------------------------------------------------
\* Looking at the machine

\* How the process that has the recorded pid relates to the recorded one. The
\* system may refuse to say.
Relation(r) == IF proc[r.pid] = Null THEN "absent"
               ELSE IF proc[r.pid].id = r.id THEN "match" ELSE "mismatch"
Relations(r) == {Relation(r), "unavailable"}

\* Mutant: whoever listens will do.
SomebodyListens(p, i) == port # Null

\* The listener says that it is process p under identity i.
HealthMatches(p, i) ==
  port = p /\ Has(p, i) /\ Phased(p) \in {"serving", "closing"}

\* Mutants: only a certain match blocks; only a running record does.
BlocksIfMatch(r, rel) == r.id # Null /\ rel = "match"
BlocksRunning(r, rel) == r.status = "running" /\ rel \in {"match", "unavailable"}

BlocksStart(r, rel) ==
  IF r.id = Null THEN r.status \in Active /\ rel # "absent"
                 ELSE rel \in {"match", "unavailable"}

\* What looking at the recorded process may lead to.
StartBlocked == IF file = Null THEN {FALSE}
                ELSE {BlocksStart(file, rel) : rel \in Relations(file)}

----------------------------------------------------------------------------
\* The steps of a command

CallerAt(x, s) == c[x].pc = s
GoTo(x, s) == c' = [c EXCEPT ![x].pc = s]

\* The command ends; its process goes away.
Return(x) ==
  /\ c' = [c EXCEPT ![x] = IdleCaller] /\ lock' = Null
  /\ proc' = Orphaned(x)

\* start_service
BeginStart(x) ==
  /\ CallerAt(x, "idle") /\ lock = Null
  /\ lock' = x /\ GoTo(x, "start")
  /\ UNCHANGED <<file, proc, port>>

CheckRecorded(x) ==
  /\ CallerAt(x, "start")
  /\ \/ FALSE \in StartBlocked /\ GoTo(x, "port") /\ UNCHANGED <<lock, proc>>
     \/ TRUE \in StartBlocked /\ Return(x)
  /\ UNCHANGED <<file, port>>

CheckPort(x) ==
  /\ CallerAt(x, "port")
  /\ \/ port = Null /\ GoTo(x, "spawn") /\ UNCHANGED <<lock, proc>>
     \/ port # Null /\ Return(x)
  /\ UNCHANGED <<file, port>>

\* Popen makes the child, or raises.
Spawn(x, p, i) ==
  /\ CallerAt(x, "spawn") /\ proc[p] = Null
  /\ proc' = [proc EXCEPT ![p] = [id |-> i, phase |-> "booting"]]
  /\ c' = [c EXCEPT ![x] = [@ EXCEPT !.pc = "capture", !.pid = p, !.id = i]]
  /\ UNCHANGED <<file, lock, port>>

SpawnFails(x) == CallerAt(x, "spawn") /\ Return(x) /\ UNCHANGED <<file, port>>

\* poll() says that the child has not exited.
ChildRuns(x) == Phased(c[x].pid) # "exited"

\* Its identity is captured, or cannot be.
Capture(x) ==
  /\ CallerAt(x, "capture")
  /\ \/ ChildRuns(x) /\ c' = [c EXCEPT ![x] = [@ EXCEPT !.pc = "record", !.captured = TRUE]]
     \/ GoTo(x, "reap")
  /\ UNCHANGED <<file, lock, proc, port>>

Launched(x, s) == [status |-> s, pid |-> c[x].pid, id |-> c[x].id]

RecordStarting(x) ==
  /\ CallerAt(x, "record")
  /\ file' = Launched(x, "starting") /\ GoTo(x, "wait")
  /\ UNCHANGED <<lock, proc, port>>

\* One attempt: the child still runs and is itself, or it is given up, as it is
\* at the deadline.
CheckChild(x) ==
  /\ CallerAt(x, "wait")
  /\ \/ ChildRuns(x) /\ c[x].tries < MaxTries /\ GoTo(x, "probe")
     \/ GoTo(x, "give_up")
  /\ UNCHANGED <<file, lock, proc, port>>

\* Mutant: attempts are not counted.
ProbeForever(x) ==
  /\ CallerAt(x, "probe")
  /\ \/ HealthMatches(c[x].pid, c[x].id) /\ GoTo(x, "confirm")
     \/ GoTo(x, "wait")
  /\ UNCHANGED <<file, lock, proc, port>>

Probe(x) ==
  /\ CallerAt(x, "probe")
  /\ \/ HealthMatches(c[x].pid, c[x].id) /\ GoTo(x, "confirm")
     \/ c' = [c EXCEPT ![x] = [@ EXCEPT !.pc = "wait", !.tries = c[x].tries + 1]]
  /\ UNCHANGED <<file, lock, proc, port>>

Confirm(x) ==
  /\ CallerAt(x, "confirm")
  /\ \/ ChildRuns(x) /\ GoTo(x, "announce")
     \/ GoTo(x, "give_up")
  /\ UNCHANGED <<file, lock, proc, port>>

\* The caller may live on as the parent of the service.
Announce(x) ==
  /\ CallerAt(x, "announce")
  /\ file' = Launched(x, "running") /\ lock' = Null /\ GoTo(x, "returned")
  /\ UNCHANGED <<proc, port>>

\* Mutant: the child of an interrupted start is left alone.
InterruptAway(x) ==
  /\ c[x].pc \in {"capture", "record", "wait", "probe", "confirm", "announce"}
  /\ Return(x)
  /\ UNCHANGED <<file, port>>

\* An exception or a keyboard interrupt after the launch: the child is reaped.
Interrupt(x) ==
  /\ c[x].pc \in {"capture", "record", "wait", "probe", "confirm", "announce"}
  /\ GoTo(x, "reap")
  /\ UNCHANGED <<file, lock, proc, port>>

\* A write that raises may have replaced the file before it did.
WriteFails(x, r) ==
  /\ WritesMayFail /\ file' \in {file, r}

StartWriteFails(x) ==
  /\ \/ CallerAt(x, "record")   /\ WriteFails(x, Launched(x, "starting"))
     \/ CallerAt(x, "announce") /\ WriteFails(x, Launched(x, "running"))
  /\ GoTo(x, "reap")
  /\ UNCHANGED <<lock, proc, port>>

\* _terminate_owned_child: the child is gone and waited for ...
Terminate(x) ==
  /\ c[x].pc \in {"give_up", "reap"}
  /\ proc' = [proc EXCEPT ![c[x].pid] = Null] /\ port' = Freed(c[x].pid)
  /\ \/ CallerAt(x, "give_up") /\ lock' = lock
        /\ c' = [c EXCEPT ![x] = [@ EXCEPT !.pc = "write_failed", !.pid = Null]]
     \/ CallerAt(x, "reap") /\ lock' = Null /\ c' = [c EXCEPT ![x] = IdleCaller]
  /\ UNCHANGED file

\* ... or it resists even kill().
Linger(x) ==
  /\ c[x].pc \in {"give_up", "reap"} /\ ChildRuns(x)
  /\ GoTo(x, "write_cleanup")
  /\ UNCHANGED <<file, lock, proc, port>>

\* Mutant: a child that could not be reaped is called failed all the same.
OutcomeFailed(x) ==
  IF CallerAt(x, "write_failed") THEN [file EXCEPT !.status = "failed"]
                           ELSE Launched(x, "failed")

\* What came of it is written down; without a captured identity as a legacy
\* record.
Outcome(x) ==
  IF CallerAt(x, "write_failed") THEN [file EXCEPT !.status = "failed"]
  ELSE [Launched(x, "cleanup_failed")
          EXCEPT !.id = IF c[x].captured THEN @ ELSE Null]

WriteOutcome(x) ==
  /\ c[x].pc \in {"write_failed", "write_cleanup"}
  /\ file' = Outcome(x) \/ WriteFails(x, Outcome(x))
  /\ Return(x)
  /\ UNCHANGED port

----------------------------------------------------------------------------
\* stop_service
BeginStop(x) ==
  /\ CallerAt(x, "idle") /\ lock = Null
  /\ file # Null /\ file.id # Null
  /\ lock' = x /\ GoTo(x, "open")
  /\ UNCHANGED <<file, proc, port>>

\* The recorded process is the one that has the pid, or the command ends: with
\* a report that it is gone, or refusing.
LookAgain(x, before, after) ==
  /\ CallerAt(x, before)
  /\ \/ Relation(file) = "match" /\ GoTo(x, after) /\ UNCHANGED <<lock, proc>>
     \/ Return(x)
  /\ UNCHANGED <<file, port>>

OpenGuard(x)  == LookAgain(x, "open", "ask")
CheckExact(x) == LookAgain(x, "check", "post")

AskHealth(x) ==
  /\ CallerAt(x, "ask")
  /\ \/ HealthMatches(file.pid, file.id) /\ GoTo(x, "check") /\ UNCHANGED <<lock, proc>>
     \/ Return(x)
  /\ UNCHANGED <<file, port>>

\* Mutant: the instance is not compared.
AcceptsAny(i) == port # Null /\ Phased(port) = "serving"

\* The handler of /__service/stop compares the instance before it does anything.
Accepts(i) ==
  port # Null /\ Phased(port) = "serving" /\ proc[port].id = i

\* The request is accepted; the answer arrives or is too late.
PostStop(x) ==
  /\ CallerAt(x, "post") /\ Accepts(file.id)
  /\ \/ /\ proc' = [proc EXCEPT ![port].phase = "closing"]
        /\ GoTo(x, "await") /\ UNCHANGED lock
     \/ /\ proc' = [Orphaned(x) EXCEPT ![port].phase = "closing"]
        /\ c' = [c EXCEPT ![x] = IdleCaller] /\ lock' = Null
  /\ UNCHANGED <<file, port>>

\* A mission is running, nobody answers, it is another instance, or another
\* program's server, which may even say 202.
StopRefused(x) ==
  /\ CallerAt(x, "post")
  /\ \/ Return(x)
     \/ /\ port # Null /\ Phased(port) = "other"
        /\ GoTo(x, "await") /\ UNCHANGED <<lock, proc>>
  /\ UNCHANGED <<file, port>>

\* The exact process has exited, or five seconds are over.
AwaitExit(x) ==
  /\ CallerAt(x, "await")
  /\ \/ Relation(file) \in {"absent", "mismatch"}
        /\ GoTo(x, "write_stopped") /\ UNCHANGED <<lock, proc>>
     \/ Return(x)
  /\ UNCHANGED <<file, port>>

Stopped == [file EXCEPT !.status = "stopped"]

WriteStopped(x) ==
  /\ CallerAt(x, "write_stopped")
  /\ file' = Stopped \/ WriteFails(x, Stopped)
  /\ Return(x)
  /\ UNCHANGED port

----------------------------------------------------------------------------
\* A command is killed: the system drops its lock. Its child lives on.
Die(x) ==
  /\ CallersMayDie /\ c[x].pc \notin {"idle", "returned"}
  /\ lock' = IF lock = x THEN Null ELSE lock
  /\ c' = [c EXCEPT ![x] = IdleCaller] /\ proc' = Orphaned(x)
  /\ UNCHANGED <<file, port>>

\* The program that called start_service goes away.
Leave(x) ==
  /\ CallerAt(x, "returned")
  /\ c' = [c EXCEPT ![x] = IdleCaller] /\ proc' = Orphaned(x)
  /\ UNCHANGED <<file, lock, port>>

Machine ==
  \E p \in Pids : \/ Serves(p) \/ Exits(p)
                  \/ OtherStarts(p) \/ OtherListens(p) \/ OtherExits(p)

Start(x) ==
  \/ CheckRecorded(x) \/ CheckPort(x)
  \/ \E p \in Pids, i \in FreeIds : Spawn(x, p, i)
  \/ SpawnFails(x) \/ Capture(x) \/ RecordStarting(x) \/ CheckChild(x) \/ Probe(x)
  \/ Confirm(x) \/ Announce(x) \/ StartWriteFails(x)
  \/ Terminate(x) \/ Linger(x) \/ WriteOutcome(x)

Stop(x) ==
  \/ OpenGuard(x) \/ AskHealth(x) \/ CheckExact(x) \/ PostStop(x)
  \/ StopRefused(x) \/ AwaitExit(x) \/ WriteStopped(x)

ServiceNext ==
  \/ Machine
  \/ \E x \in Callers : \/ BeginStart(x) \/ BeginStop(x) \/ Start(x) \/ Stop(x)
                        \/ Interrupt(x) \/ Die(x) \/ Leave(x)

ServiceSpec == ServiceInit /\ [][ServiceNext]_serviceVars

\* A command that has begun goes on: every wait in it has a timeout.
FairSpec == ServiceSpec /\ \A x \in Callers : WF_serviceVars(Start(x) \/ Stop(x))

----------------------------------------------------------------------------
\* Every variable has its type, and the lock is held by a command under way.
ServiceTypeOK ==
  /\ file \in Record \cup {Null}
  /\ lock \in Callers \cup {Null}
  /\ proc \in [Pids -> Process \cup {Null}]
  /\ port \in Pids \cup {Null}
  /\ c \in [Callers -> Command]
  /\ \A x \in Callers : lock = x <=> c[x].pc \in StartPc \cup StopPc

Reliable == ~CallersMayDie /\ ~WritesMayFail

\* While commands are not killed and the disk takes their writes, a service that
\* runs is never forgotten: service.json names it as active, or the command that
\* launched it is still at work (start_service's except blocks).
NobodyForgotten ==
  Reliable => \A p \in Pids : Service(p) =>
                \/ /\ file # Null /\ file.pid = p /\ file.status \in Active
                   /\ file.id \in {proc[p].id, Null}
                \/ \E x \in Callers : lock = x /\ c[x].pid = p

\* Then a home never has two services that run, whatever pids are given out
\* again and whatever the system refuses to tell (_existing_state_blocks_start).
OneService ==
  Reliable => Cardinality({p \in Pids : Service(p)}) <= 1

\* A service that service.json calls stopped or failed does not run any more.
\* This and the following hold when commands are killed and writes fail, too.
SettledIsGone ==
  file # Null /\ file.status \in {"stopped", "failed"} => ~Running(file.id)

\* A service that service.json calls running has served under its recorded pid
\* and identity: it does, it shuts down, or it is gone.
RunningHasServed ==
  file # Null /\ file.status = "running" =>
    \A p \in Pids : Has(p, file.id) => p = file.pid /\ Phased(p) # "booting"

\* The record of a service is replaced by another's only when it does not run.
RecordOutlivesService ==
  [][file # Null /\ file'.id # file.id => ~Running(file.id)]_file

\* Only the recorded service is ever made to shut down, though between the last
\* look at it and the request it may die and another take its port: "PID reuse,
\* a listener collision ... cannot ... receive a shutdown request"
\* (docs/OPERATIONS.md:1046), as far as other instances of the service go.
OnlyTheRecordedStops ==
  [][\A p \in Pids : Phased(p) = "serving" /\ Phased(p)' = "closing"
                        => file # Null /\ proc[p].id = file.id]_proc

\* To its operator the service lives as ServiceLife promises, whoever is killed
\* and whichever write fails: it begins only while the recorded one does not run,
\* one at a time has the port, only the recorded one is told to shut down, and its
\* record is replaced, or says that it is over, only when it is gone.
Bearers(i) == {p \in Pids : Has(p, i) /\ Service(p)}

LifeOf(i) == IF Bearers(i) = {} THEN "gone" ELSE proc[CHOOSE p \in Bearers(i) : TRUE].phase

Lifes == [i \in Ids |-> LifeOf(i)]

Said == IF file = Null THEN [id |-> Null, status |-> "none"]
                       ELSE [id |-> file.id, status |-> file.status]

Life == INSTANCE ServiceLife WITH life <- Lifes, record <- Said, Exclusive <- Reliable

ImplementsServiceLife == Life!Spec

\* No command holds the lifecycle lock for good.
LockComesFree == \A x \in Callers : lock = x ~> lock # x
=============================================================================
