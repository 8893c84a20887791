---------------------- MODULE ServiceSupervisor_proofs ----------------------
(***************************************************************************)
(* Theorems about ServiceSupervisor, for any sets of commands, pids and    *)
(* identities and any number of health attempts.                           *)
(***************************************************************************)
EXTENDS ServiceSupervisor, FiniteSetTheorems, TLAPS

----------------------------------------------------------------------------
\* Types

\* The first state is well typed.
LEMMA InitType == ServiceInit => ServiceTypeOK
<1> SUFFICES ASSUME ServiceInit PROVE ServiceTypeOK
  OBVIOUS
<1>1. IdleCaller \in Command /\ IdleCaller.pc = "idle"
  BY SupervisorAssumption DEF IdleCaller, Command
<1> QED
  BY <1>1, SupervisorAssumption DEF ServiceInit, ServiceTypeOK, StartPc, StopPc

\* The machine keeps the types.
LEMMA MachineType ==
  ASSUME ServiceTypeOK, NEW p \in Pids,
         Serves(p) \/ Exits(p) \/ OtherStarts(p) \/ OtherListens(p) \/ OtherExits(p)
  PROVE  ServiceTypeOK'
<1> USE SupervisorAssumption DEF ServiceTypeOK, Process, Phase, Phased, Service, Freed
<1>1. CASE Serves(p)  BY <1>1 DEF Serves
<1>2. CASE Exits(p)  BY <1>2 DEF Exits
<1>3. CASE OtherStarts(p)  BY <1>3 DEF OtherStarts
<1>4. CASE OtherListens(p)  BY <1>4 DEF OtherListens
<1>5. CASE OtherExits(p)  BY <1>5 DEF OtherExits
<1> QED  BY <1>1, <1>2, <1>3, <1>4, <1>5

Working == StartPc \cup StopPc

\* The commands' part of the types.
CommandsOK ==
  /\ c \in [Callers -> Command]
  /\ lock \in Callers \cup {Null}
  /\ \A x \in Callers : lock = x <=> c[x].pc \in Working

\* A command that goes on keeps them.
LEMMA GoOnType ==
  ASSUME CommandsOK, NEW x \in Callers, c[x].pc \in Working, lock' = lock,
         NEW s \in Working, NEW r \in Command, r.pc = s, c' = [c EXCEPT ![x] = r]
  PROVE  CommandsOK'
  BY SupervisorAssumption DEF CommandsOK

\* GoTo makes such a record.
LEMMA GoToRecord ==
  ASSUME CommandsOK, NEW x \in Callers,
         NEW s \in Working \cup {"idle", "returned"}
  PROVE  LET r == [c[x] EXCEPT !.pc = s]
         IN  /\ r \in Command /\ r.pc = s
             /\ GoTo(x, s) <=> c' = [c EXCEPT ![x] = r]
  BY DEF CommandsOK, Command, Working, StartPc, StopPc, GoTo

\* So a command that goes to another place keeps them.
LEMMA GoToType ==
  ASSUME CommandsOK, NEW x \in Callers, c[x].pc \in Working, lock' = lock,
         NEW s \in Working, GoTo(x, s)
  PROVE  CommandsOK'
<1> DEFINE r == [c[x] EXCEPT !.pc = s]
<1>1. r \in Command /\ r.pc = s /\ c' = [c EXCEPT ![x] = r]
  BY GoToRecord
<1> HIDE DEF r
<1> QED  BY <1>1, GoOnType

\* A command that ends keeps them, and the processes' types.
LEMMA EndType ==
  ASSUME ServiceTypeOK, NEW x \in Callers, c[x].pc \in Working,
         c' = [c EXCEPT ![x] = IdleCaller], lock' = Null
  PROVE  CommandsOK' /\ Orphaned(x) \in [Pids -> Process \cup {Null}]
<1>1. IdleCaller \in Command /\ IdleCaller.pc = "idle" /\ "idle" \notin Working
  BY SupervisorAssumption DEF IdleCaller, Command, Working, StartPc, StopPc
<1>2. lock = x /\ \A y \in Callers : y # x => c[y].pc \notin Working
  BY DEF ServiceTypeOK, Working
<1>3. c' \in [Callers -> Command] /\ \A y \in Callers : c'[y].pc \notin Working
  BY <1>1, <1>2 DEF ServiceTypeOK
<1>4. Orphaned(x) \in [Pids -> Process \cup {Null}]
  BY DEF Orphaned, ServiceTypeOK
<1> QED  BY <1>3, <1>4, SupervisorAssumption DEF CommandsOK

\* Records of the right form.
LEMMA RecordType ==
  ASSUME ServiceTypeOK, NEW x \in Callers, c[x].pid # Null, c[x].id # Null
  PROVE  \A s \in Active \cup {"stopped", "failed"} : Launched(x, s) \in Record
  BY DEF ServiceTypeOK, Command, Record, Launched

\* What a command writes down in the end is a record, too.
LEMMA OutcomeType ==
  ASSUME ServiceTypeOK, NEW x \in Callers,
         CallerAt(x, "write_failed") => file # Null,
         CallerAt(x, "write_cleanup") => c[x].pid # Null /\ c[x].id # Null,
         c[x].pc \in {"write_failed", "write_cleanup"}
  PROVE  Outcome(x) \in Record
  BY DEF ServiceTypeOK, Command, Record, Launched, Outcome, CallerAt, Active

----------------------------------------------------------------------------
\* Identities

\* No two processes share one, and only services have one.
Apart ==
  /\ \A p \in Pids : proc[p] # Null => (proc[p].id = Null <=> proc[p].phase = "other")
  /\ \A p, q \in Pids : proc[p] # Null /\ proc[q] # Null /\ proc[p].id # Null
                          /\ proc[p].id = proc[q].id => p = q

\* Where a command has a child it has not waited for.
Mine == {"capture", "record", "wait", "probe", "confirm", "announce", "give_up",
         "reap", "write_cleanup"}

\* The child of a command keeps its pid and identity until it is waited for.
Children ==
  /\ \A x \in Callers :
       /\ c[x].pid # Null => c[x].id # Null /\ Has(c[x].pid, c[x].id)
       /\ c[x].pc \in Mine => c[x].pid # Null
       /\ c[x].pid # Null => c[x].pc \in Mine \cup {"returned"}
  /\ \A x, y \in Callers : c[x].pid # Null /\ c[x].pid = c[y].pid => x = y

\* After its child is gone, the record is still the child's; while a service is
\* being stopped, its record stays.
Failing ==
  \A x \in Callers :
     /\ c[x].pc = "write_failed" => file # Null /\ c[x].id # Null /\ file.id = c[x].id
     /\ c[x].pc \in StopPc => file # Null /\ file.id # Null

Named == {"wait", "probe", "confirm", "announce", "give_up"}

\* Until then it is, too, once it has been written. Attempts are counted.
Naming ==
  \A x \in Callers :
     /\ c[x].pc \in Named => file # Null /\ file.pid = c[x].pid /\ file.id = c[x].id
     /\ c[x].pc = "probe" => c[x].tries < MaxTries

Ident == ServiceTypeOK /\ Apart /\ Children /\ Failing /\ Naming

\* The first state has all that.
LEMMA InitIdent == ServiceInit => Ident
  BY InitType DEF ServiceInit, Ident, Apart, Children, Failing, Naming, IdleCaller, Mine, Named, StopPc

\* The machine keeps it.
LEMMA MachineIdent ==
  ASSUME Ident, NEW p \in Pids,
         Serves(p) \/ Exits(p) \/ OtherStarts(p) \/ OtherListens(p) \/ OtherExits(p)
  PROVE  Ident'
<1>1. ServiceTypeOK'
  BY MachineType DEF Ident
<1>2. UNCHANGED <<file, c>>
  BY DEF Serves, Exits, OtherStarts, OtherListens, OtherExits
<1>3. Failing' /\ Naming'
  BY <1>2 DEF Ident, Failing, Naming
<1> USE SupervisorAssumption DEF Ident, ServiceTypeOK, Process, Phased, Service
<1>4. Apart'
  <2>1. CASE Serves(p)  BY <2>1 DEF Serves, Apart
  <2>2. CASE Exits(p)  BY <2>2 DEF Exits, Apart
  <2>3. CASE OtherStarts(p)  BY <2>3 DEF OtherStarts, Apart
  <2>4. CASE OtherListens(p)  BY <2>4 DEF OtherListens, Apart
  <2>5. CASE OtherExits(p)  BY <2>5 DEF OtherExits, Apart
  <2> QED  BY <2>1, <2>2, <2>3, <2>4, <2>5
<1>5. \A x \in Callers : c[x].pid # Null => Has(c[x].pid, c[x].id)'
  <2> SUFFICES ASSUME NEW x \in Callers, c[x].pid # Null
               PROVE  Has(c[x].pid, c[x].id)'
    OBVIOUS
  <2>0. c[x].pid \in Pids /\ c[x].id # Null /\ Has(c[x].pid, c[x].id)
    BY DEF Children, Command
  <2>a. \A f \in Phase : proc[p] # Null => [proc[p] EXCEPT !.phase = f] \in Process
    OBVIOUS
  <2>b. \A f \in Phase : proc[p] # Null => [proc[p] EXCEPT !.phase = f] # Null
    BY <2>a, RecordAssumption
  <2>1. CASE Serves(p)  BY <2>0, <2>1, <2>b DEF Serves, Has, Phase
  <2>2. CASE Exits(p)
    <3>1. CASE c[x].pid = p
      BY <2>0, <2>2, <2>b, <3>1 DEF Exits, Has, Phase
    <3>2. CASE c[x].pid # p
      BY <2>0, <2>2, <3>2 DEF Exits, Has
    <3> QED  BY <3>1, <3>2
  <2>3. CASE OtherStarts(p)  BY <2>0, <2>3 DEF OtherStarts, Has
  <2>4. CASE OtherListens(p)  BY <2>0, <2>4 DEF OtherListens, Has
  <2>5. CASE OtherExits(p)  BY <2>0, <2>5 DEF OtherExits, Has, Apart
  <2> QED  BY <2>1, <2>2, <2>3, <2>4, <2>5
<1>6. Children'
  BY <1>2, <1>5 DEF Children
<1> QED  BY <1>1, <1>3, <1>4, <1>6 DEF Ident

\* Only the command that holds the lock is at work.
LEMMA Holder ==
  ASSUME ServiceTypeOK, NEW x \in Callers, c[x].pc \in Working
  PROVE  lock = x /\ \A y \in Callers : y # x => c[y].pc \notin Working
  BY DEF ServiceTypeOK, Working

\* A command that goes on keeps it, if it knows its child from then on.
LEMMA GoOnIdent ==
  ASSUME Ident, NEW x \in Callers, c[x].pc \in Working, UNCHANGED <<lock, proc, port>>,
         file' \in Record \cup {Null},
         NEW r \in Command, c' = [c EXCEPT ![x] = r], r.pc \in Working,
         r.pid = c[x].pid, r.id = c[x].id, r.pid # Null <=> r.pc \in Mine,
         r.pc \in Named => file' # Null /\ file'.pid = r.pid /\ file'.id = r.id,
         r.pc \in StopPc => file' # Null /\ file'.id # Null,
         r.pc = "probe" => r.tries < MaxTries,
         r.pc # "write_failed"
  PROVE  Ident'
<1>1. CommandsOK'
  BY GoOnType DEF Ident, ServiceTypeOK, CommandsOK, Working
<1>2. ServiceTypeOK'
  BY <1>1 DEF Ident, ServiceTypeOK, CommandsOK, Working
<1>3. Apart'
  BY DEF Ident, Apart
<1>4. c \in [Callers -> Command] /\ c'[x] = r
         /\ \A y \in Callers : y # x => c'[y] = c[y] /\ c'[y].pc \notin Working
  BY Holder DEF Ident, ServiceTypeOK
<1>5. Named \cup StopPc \cup {"write_failed"} \subseteq Working
  BY DEF Named, Working, StartPc
<1>6. Children'
  BY <1>4 DEF Ident, Children, Has
<1>7. Failing' /\ Naming'
  BY <1>4, <1>5, Zenon DEF Failing, Naming, Named
<1> QED  BY <1>2, <1>3, <1>6, <1>7 DEF Ident

\* Waiting for a child that has exited disturbs no other.
LEMMA OrphanedApart ==
  ASSUME Ident, NEW x \in Callers, proc' = Orphaned(x)
  PROVE  /\ proc' \in [Pids -> Process \cup {Null}]
         /\ Apart'
         /\ \A p \in Pids : proc'[p] \in {Null, proc[p]}
         /\ \A y \in Callers : y # x /\ c[y].pid # Null => proc'[c[y].pid] = proc[c[y].pid]
<1>1. /\ proc' \in [Pids -> Process \cup {Null}]
      /\ \A p \in Pids : proc'[p] \in {Null, proc[p]}
      /\ \A p \in Pids : p # c[x].pid => proc'[p] = proc[p]
  BY DEF Ident, ServiceTypeOK, Orphaned
<1>2. Apart'
  BY <1>1 DEF Ident, Apart
<1>3. ASSUME NEW y \in Callers, y # x, c[y].pid # Null
      PROVE  proc'[c[y].pid] = proc[c[y].pid]
  <2>1. c[y].pid \in Pids /\ c[y].pid # c[x].pid
    BY <1>3 DEF Ident, ServiceTypeOK, Command, Children
  <2> QED  BY <2>1, <1>1
<1> QED  BY <1>1, <1>2, <1>3

\* A command that ends, is killed, or whose program goes away keeps it.
LEMMA EndIdent ==
  ASSUME Ident, NEW x \in Callers, c' = [c EXCEPT ![x] = IdleCaller],
         proc' = Orphaned(x), port' = port, file' \in Record \cup {Null},
         \/ c[x].pc \in Working /\ lock' = Null
         \/ c[x].pc = "returned" /\ lock' = lock /\ file' = file
  PROVE  Ident'
<1>1. c \in [Callers -> Command] /\ c'[x] = IdleCaller /\ \A y \in Callers : y # x => c'[y] = c[y]
  BY DEF Ident, ServiceTypeOK
<1>2. CommandsOK'
  <2>1. CASE c[x].pc \in Working /\ lock' = Null
    BY <2>1, EndType DEF Ident
  <2>2. CASE c[x].pc = "returned" /\ lock' = lock
    <3>1. IdleCaller \in Command /\ {IdleCaller.pc, "returned"} \cap Working = {}
      BY SupervisorAssumption DEF IdleCaller, Command, Working, StartPc, StopPc
    <3> QED  BY <2>2, <3>1, <1>1 DEF Ident, ServiceTypeOK, CommandsOK, Working
  <2> QED  BY <2>1, <2>2
<1>3. ServiceTypeOK' /\ Apart'
  BY <1>2, OrphanedApart DEF Ident, ServiceTypeOK, CommandsOK, Working
<1>4. Children'
  <2>1. IdleCaller.pid = Null /\ IdleCaller.pc \notin Mine
    BY DEF IdleCaller, Mine
  <2>2. \A y \in Callers : y # x /\ c[y].pid # Null => proc'[c[y].pid] = proc[c[y].pid]
    BY OrphanedApart
  <2> QED  BY <1>1, <2>1, <2>2 DEF Ident, Children, Has
<1>5. Failing' /\ Naming'
  <2>1. Named \cup StopPc \cup {"write_failed", "probe"} \subseteq Working /\ IdleCaller.pc \notin Working
    BY DEF Named, Working, StartPc, StopPc, IdleCaller
  <2>2. CASE file' = file
    BY <2>1, <2>2, <1>1 DEF Ident, Failing, Naming
  <2>3. CASE c[x].pc \in Working
    BY <2>1, <2>3, <1>1, Holder DEF Ident, Failing, Naming
  <2> QED  BY <2>2, <2>3
<1> QED  BY <1>3, <1>4, <1>5 DEF Ident

\* A command that begins keeps it.
LEMMA BeginIdent ==
  ASSUME Ident, NEW x \in Callers, BeginStart(x) \/ BeginStop(x)
  PROVE  Ident'
<1>1. PICK s \in {"start", "open"} :
        GoTo(x, s) /\ (s = "open" => file # Null /\ file.id # Null)
  BY DEF BeginStart, BeginStop
<1>2. lock = Null /\ lock' = x /\ c[x].pc = "idle" /\ UNCHANGED <<file, proc, port>>
  BY DEF BeginStart, BeginStop, CallerAt
<1>3. s \in Working /\ s \notin Named \cup Mine \cup {"write_failed", "probe"}
        /\ (s \in StopPc => s = "open") /\ "idle" \notin Mine \cup {"returned"}
  BY DEF Working, StartPc, StopPc, Named, Mine
<1> DEFINE r == [c[x] EXCEPT !.pc = s]
<1>4. r \in Command /\ r.pc = s /\ r.pid = c[x].pid /\ r.id = c[x].id
  BY <1>3 DEF Ident, ServiceTypeOK, Command, Working
<1>5. c' = [c EXCEPT ![x] = r]
  BY <1>1 DEF GoTo
<1> HIDE DEF r
<1>6. c \in [Callers -> Command] /\ c'[x] = r /\ \A y \in Callers : y # x => c'[y] = c[y]
  BY <1>5 DEF Ident, ServiceTypeOK
<1>7. \A y \in Callers : c[y].pc \notin Working
  BY <1>2, SupervisorAssumption DEF Ident, ServiceTypeOK, Working
<1>8. ServiceTypeOK'
  BY <1>2, <1>3, <1>4, <1>5, <1>6, <1>7, SupervisorAssumption DEF Ident, ServiceTypeOK, Working
<1>9. Apart' /\ Children'
  BY <1>2, <1>3, <1>4, <1>6 DEF Ident, Apart, Children, Has
<1>10. Failing' /\ Naming'
  BY <1>1, <1>2, <1>3, <1>4, <1>6 DEF Ident, Failing, Naming
<1> QED  BY <1>8, <1>9, <1>10 DEF Ident

\* A launch gives the child an identity of its own.
LEMMA SpawnIdent ==
  ASSUME Ident, NEW x \in Callers, NEW p \in Pids, NEW i \in FreeIds, Spawn(x, p, i)
  PROVE  Ident'
<1> DEFINE r == [c[x] EXCEPT !.pc = "capture", !.pid = p, !.id = i]
           q == [id |-> i, phase |-> "booting"]
<1>1. i \in Ids /\ i # Null /\ \A t \in Pids : proc[t] # Null => proc[t].id # i
  BY SupervisorAssumption DEF FreeIds
<1>2. /\ c[x].pc = "spawn" /\ proc[p] = Null /\ proc' = [proc EXCEPT ![p] = q]
      /\ c' = [c EXCEPT ![x] = r] /\ UNCHANGED <<file, lock, port>>
  BY DEF Spawn, CallerAt
<1>3. q \in Process /\ q # Null /\ q.id = i /\ q.phase = "booting"
  BY <1>1, RecordAssumption DEF Process, Phase
<1>4. /\ r \in Command /\ r.pc = "capture" /\ r.pid = p /\ r.id = i
      /\ {"spawn", "capture"} \subseteq Working
      /\ "capture" \in Mine /\ "capture" \notin Named \cup StopPc \cup {"write_failed", "probe"}
  <2>1. c[x] \in Command /\ "capture" \in StartPc
    BY DEF Ident, ServiceTypeOK, StartPc
  <2>2. r \in Command /\ r.pc = "capture" /\ r.pid = p /\ r.id = i
    BY <1>1, <2>1 DEF Command
  <2> HIDE DEF r
  <2> QED  BY <2>2 DEF StartPc, StopPc, Working, Mine, Named
<1> HIDE DEF r, q
<1>5. c \in [Callers -> Command] /\ c'[x] = r /\ \A y \in Callers : y # x => c'[y] = c[y]
  BY <1>2 DEF Ident, ServiceTypeOK
<1>6. proc \in [Pids -> Process \cup {Null}] /\ proc'[p] = q
         /\ \A t \in Pids : t # p => proc'[t] = proc[t]
  BY <1>2 DEF Ident, ServiceTypeOK
<1>7. ServiceTypeOK'
  BY <1>2, <1>3, <1>4, <1>5, <1>6 DEF Ident, ServiceTypeOK, Working
<1>8. Apart'
  BY <1>1, <1>3, <1>6 DEF Ident, Apart
<1>9. \A y \in Callers : c[y].pid # Null => c[y].pid # p /\ c[y].pid \in Pids
  BY <1>2, <1>5 DEF Ident, Children, Has, Command
<1>10. Children'
  <2>1. p # Null /\ Has(p, i)'
    BY <1>3, <1>6, SupervisorAssumption DEF Has
  <2>2. \A y \in Callers : y # x /\ c[y].pid # Null => Has(c[y].pid, c[y].id)'
    BY <1>5, <1>6, <1>9 DEF Ident, Children, Has
  <2>3. \A y \in Callers :
          /\ c'[y].pid # Null => c'[y].id # Null /\ Has(c[y].pid, c[y].id)'
          /\ c'[y].pc \in Mine => c'[y].pid # Null
          /\ c'[y].pid # Null => c'[y].pc \in Mine \cup {"returned"}
    BY <1>1, <1>4, <1>5, <2>1, <2>2 DEF Ident, Children
  <2>4. \A y, z \in Callers : c'[y].pid # Null /\ c'[y].pid = c'[z].pid => y = z
    BY <1>4, <1>5, <1>9, <2>1 DEF Ident, Children
  <2> QED  BY <2>3, <2>4 DEF Children
<1>11. Failing' /\ Naming'
  BY <1>2, <1>4, <1>5 DEF Ident, Failing, Naming
<1> QED  BY <1>7, <1>8, <1>10, <1>11 DEF Ident

\* So does one that announces its child and returns.
LEMMA AnnounceIdent ==
  ASSUME Ident, NEW x \in Callers, Announce(x)
  PROVE  Ident'
<1> DEFINE r == [c[x] EXCEPT !.pc = "returned"]
<1>1. /\ c[x].pc = "announce" /\ file' = Launched(x, "running") /\ lock' = Null
      /\ c' = [c EXCEPT ![x] = r] /\ UNCHANGED <<proc, port>>
  BY DEF Announce, CallerAt, GoTo
<1>2. /\ r \in Command /\ r.pc = "returned" /\ r.pid = c[x].pid /\ r.id = c[x].id
      /\ "returned" \notin Working \cup Mine \cup Named \cup {"write_failed"}
      /\ "announce" \in Working \cap Mine
      /\ Named \cup StopPc \cup {"write_failed", "probe"} \subseteq Working
  BY DEF Ident, ServiceTypeOK, Command, StartPc, StopPc, Working, Mine, Named
<1> HIDE DEF r
<1>3. c \in [Callers -> Command] /\ c'[x] = r /\ \A y \in Callers : y # x => c'[y] = c[y]
  BY <1>1 DEF Ident, ServiceTypeOK
<1>4. \A y \in Callers : c'[y].pc \notin Working
  BY <1>1, <1>2, <1>3, Holder DEF Ident
<1>5. file' \in Record
  BY <1>1, <1>2, RecordType DEF Ident, Children, Active
<1>6. ServiceTypeOK'
  BY <1>1, <1>2, <1>3, <1>4, <1>5, SupervisorAssumption DEF Ident, ServiceTypeOK, Working
<1>7. Apart' /\ Children'
  BY <1>1, <1>2, <1>3 DEF Ident, Apart, Children, Has
<1>8. Failing' /\ Naming'
  BY <1>2, <1>4 DEF Failing, Naming
<1> QED  BY <1>6, <1>7, <1>8 DEF Ident

\* And one that has waited for its child: nobody else has the child's pid.
LEMMA TerminateIdent ==
  ASSUME Ident, NEW x \in Callers, Terminate(x)
  PROVE  Ident'
<1>1. /\ c[x].pc \in {"give_up", "reap"} /\ file' = file
      /\ proc' = [proc EXCEPT ![c[x].pid] = Null] /\ port' = Freed(c[x].pid)
  BY DEF Terminate, CallerAt
<1>2. c[x].pid \in Pids /\ c[x].pc \in Working /\ IdleCaller \in Command /\ c[x] \in Command
  BY <1>1, SupervisorAssumption
     DEF Ident, ServiceTypeOK, Children, Mine, Working, StartPc, Command, IdleCaller
<1> DEFINE w == [c[x] EXCEPT !.pc = "write_failed", !.pid = Null]
<1>3. w \in Command /\ w.pc = "write_failed" /\ w.pid = Null /\ w.id = c[x].id
  BY <1>2 DEF Command, StartPc
<1>4. PICK r \in Command :
        /\ c' = [c EXCEPT ![x] = r] /\ r.pid = Null
        /\ \/ r.pc = "write_failed" /\ r.id = c[x].id /\ lock' = lock /\ c[x].pc = "give_up"
           \/ r.pc = "idle" /\ lock' = Null
  <2>1. \/ c' = [c EXCEPT ![x] = w] /\ lock' = lock /\ c[x].pc = "give_up"
        \/ c' = [c EXCEPT ![x] = IdleCaller] /\ lock' = Null
    BY DEF Terminate, CallerAt
  <2> HIDE DEF w
  <2> QED  BY <1>2, <1>3, <2>1 DEF IdleCaller
<1> HIDE DEF w
<1>5. c \in [Callers -> Command] /\ c'[x] = r /\ \A y \in Callers : y # x => c'[y] = c[y]
  BY <1>4 DEF Ident, ServiceTypeOK
<1>6. lock = x /\ \A y \in Callers : y # x => c'[y].pc \notin Working
  BY <1>2, <1>5, Holder DEF Ident
<1>7. /\ proc' \in [Pids -> Process \cup {Null}]
      /\ proc'[c[x].pid] = Null
      /\ \A t \in Pids : t # c[x].pid => proc'[t] = proc[t]
  BY <1>1, <1>2 DEF Ident, ServiceTypeOK
<1>8. port' \in Pids \cup {Null}
  BY <1>1 DEF Ident, ServiceTypeOK, Freed
<1>9. /\ "write_failed" \in Working /\ "idle" \notin Working
      /\ {"write_failed", "idle"} \cap (Mine \cup Named \cup StopPc \cup {"probe"}) = {}
      /\ Named \cup StopPc \cup {"write_failed", "probe"} \subseteq Working
  BY DEF Working, StartPc, StopPc, Mine, Named
<1>10. ServiceTypeOK'
  BY <1>1, <1>4, <1>5, <1>6, <1>7, <1>8, <1>9, SupervisorAssumption DEF Ident, ServiceTypeOK, Working
<1>11. Apart'
  BY <1>7 DEF Ident, Apart
<1>12. Children'
  <2>1. \A y \in Callers : y # x /\ c[y].pid # Null => c[y].pid # c[x].pid /\ c[y].pid \in Pids
    BY <1>2, <1>5 DEF Ident, Children, Command
  <2>2. \A y \in Callers : y # x /\ c[y].pid # Null => Has(c[y].pid, c[y].id)'
    <3> SUFFICES ASSUME NEW y \in Callers, y # x, c[y].pid # Null
                 PROVE  Has(c[y].pid, c[y].id)'
      OBVIOUS
    <3>1. Has(c[y].pid, c[y].id) /\ c'[y] = c[y] /\ proc'[c[y].pid] = proc[c[y].pid]
      BY <1>5, <1>7, <2>1 DEF Ident, Children
    <3> QED  BY <3>1 DEF Has
  <2> QED  BY <1>4, <1>5, <1>9, <2>2 DEF Ident, Children
<1>13. Failing'
  BY <1>1, <1>4, <1>5, <1>6, <1>9 DEF Ident, Naming, Children, Mine, Named, Failing
<1>14. Naming'
  BY <1>4, <1>5, <1>6, <1>9 DEF Naming
<1> QED  BY <1>10, <1>11, <1>12, <1>13, <1>14 DEF Ident

\* A shutdown request changes a phase alone.
LEMMA PostIdent ==
  ASSUME Ident, NEW x \in Callers, PostStop(x)
  PROVE  Ident'
<1> DEFINE q == [proc[port] EXCEPT !.phase = "closing"]
           r == [c[x] EXCEPT !.pc = "await"]
<1>1. /\ c[x].pc = "post" /\ UNCHANGED <<file, port>>
      /\ port \in Pids /\ proc[port] # Null /\ proc[port].phase = "serving"
  BY DEF PostStop, CallerAt, Accepts, Phased, Ident, ServiceTypeOK
<1>2. q \in Process /\ q # Null /\ q.id = proc[port].id /\ q.phase = "closing"
  BY <1>1, RecordAssumption DEF Ident, ServiceTypeOK, Process, Phase
<1>3. {"post", "await"} \subseteq StopPc /\ StopPc \subseteq Working
      /\ {"post", "await"} \cap (Mine \cup Named \cup {"write_failed", "returned", "probe"}) = {}
      /\ IdleCaller.pc = "idle" /\ IdleCaller.pid = Null /\ IdleCaller \in Command
      /\ "idle" \notin Working \cup Mine \cup Named \cup {"write_failed", "returned"}
      /\ Named \cup {"write_failed", "probe"} \subseteq Working
  BY SupervisorAssumption DEF Working, StartPc, StopPc, Mine, Named, IdleCaller, Command
<1>4. r \in Command /\ r.pc = "await" /\ r.pid = c[x].pid /\ r.id = c[x].id /\ c[x].pid = Null
  BY <1>1, <1>3 DEF Ident, ServiceTypeOK, Command, Children, StopPc
<1>5. proc' = [proc EXCEPT ![port] = q]
  <2>1. CASE proc' = [proc EXCEPT ![port].phase = "closing"]
    BY <2>1
  <2>2. CASE proc' = [Orphaned(x) EXCEPT ![port].phase = "closing"]
    <3>1. proc \in [Pids -> Process \cup {Null}] /\ c[x].pid \notin Pids
      BY <1>4, SupervisorAssumption DEF Ident, ServiceTypeOK
    <3>2. Orphaned(x) = [p \in Pids |-> proc[p]]
      BY <3>1 DEF Orphaned
    <3> QED  BY <2>2, <3>1, <3>2
  <2> QED  BY <2>1, <2>2 DEF PostStop
<1>6. PICK s \in {r, IdleCaller} : c' = [c EXCEPT ![x] = s]
                          /\ \/ s.pc = "await" /\ lock' = lock
                             \/ s.pc = "idle" /\ lock' = Null
  <2>1. CASE GoTo(x, "await") /\ lock' = lock
    BY <1>4, <2>1 DEF GoTo
  <2>2. CASE c' = [c EXCEPT ![x] = IdleCaller] /\ lock' = Null
    BY <1>3, <2>2
  <2> QED  BY <2>1, <2>2 DEF PostStop
<1>7. s \in Command /\ s.pid = Null
  BY <1>3, <1>4
<1> HIDE DEF q, r
<1>8. c \in [Callers -> Command] /\ c'[x] = s /\ \A y \in Callers : y # x => c'[y] = c[y]
  BY <1>6, <1>7 DEF Ident, ServiceTypeOK
<1>9. lock = x /\ \A y \in Callers : y # x => c'[y].pc \notin Working
  BY <1>1, <1>3, <1>8, Holder DEF Ident
<1>10. /\ proc' \in [Pids -> Process \cup {Null}] /\ proc'[port] = q
       /\ \A t \in Pids : t # port => proc'[t] = proc[t]
  BY <1>1, <1>2, <1>5 DEF Ident, ServiceTypeOK
<1>11. ServiceTypeOK'
  BY <1>1, <1>3, <1>6, <1>7, <1>8, <1>9, <1>10, SupervisorAssumption DEF Ident, ServiceTypeOK, Working
<1>12. Apart'
  BY <1>1, <1>2, <1>10 DEF Ident, Apart
<1>13. Children'
  <2>1. \A y \in Callers : y # x /\ c[y].pid # Null => Has(c[y].pid, c[y].id)'
    <3> SUFFICES ASSUME NEW y \in Callers, y # x, c[y].pid # Null
                 PROVE  Has(c[y].pid, c[y].id)'
      OBVIOUS
    <3>1. c[y].pid \in Pids /\ Has(c[y].pid, c[y].id) /\ c'[y] = c[y]
      BY <1>8 DEF Ident, Children, Command
    <3> QED  BY <1>1, <1>2, <1>10, <3>1 DEF Has
  <2> QED  BY <1>3, <1>6, <1>7, <1>8, <2>1 DEF Ident, Children
<1>14. Failing' /\ Naming'
  BY <1>1, <1>3, <1>6, <1>8, <1>9 DEF Ident, Failing, Naming
<1> QED  BY <1>11, <1>12, <1>13, <1>14 DEF Ident

\* A command that goes to another place keeps it, if it knows its child there.
LEMMA GoToIdent ==
  ASSUME Ident, NEW x \in Callers, c[x].pc \in Working, UNCHANGED <<lock, proc, port>>,
         file' \in Record \cup {Null}, NEW s \in Working \ {"write_failed"}, GoTo(x, s),
         c[x].pc \in Mine <=> s \in Mine,
         s \in Named => file' # Null /\ file'.pid = c[x].pid /\ file'.id = c[x].id,
         s \in StopPc => file' # Null /\ file'.id # Null,
         s = "probe" => c[x].tries < MaxTries
  PROVE  Ident'
<1> DEFINE r == [c[x] EXCEPT !.pc = s]
<1>1. c[x].pid # Null <=> c[x].pc \in Mine
  BY DEF Ident, Children, Working, StartPc, StopPc
<1>2. r \in Command /\ r.pc = s /\ r.pid = c[x].pid /\ r.id = c[x].id /\ r.tries = c[x].tries
  BY DEF Ident, ServiceTypeOK, Command, Working
<1>3. c' = [c EXCEPT ![x] = r]
  BY DEF GoTo
<1> HIDE DEF r
<1> QED  BY <1>1, <1>2, <1>3, GoOnIdent

\* Every step of a command keeps it.
LEMMA CommandIdent ==
  ASSUME Ident, NEW x \in Callers, Start(x) \/ Stop(x) \/ Interrupt(x)
  PROVE  Ident'
<1> USE DEF CallerAt, Mine, Named, Working, StartPc, StopPc
<1>1. ASSUME Return(x), c[x].pc \in Working, port' = port, file' \in Record \cup {Null}
      PROVE  Ident'
  BY <1>1, EndIdent DEF Return
<1>2. file \in Record \cup {Null} /\ c \in [Callers -> Command]
  BY DEF Ident, ServiceTypeOK
<1>3. ASSUME c[x].pc \in Working, UNCHANGED <<file, lock, proc, port>>,
             NEW s \in Working \ (Named \cup {"write_failed"}), GoTo(x, s),
             c[x].pc \in Mine <=> s \in Mine,
             s \in StopPc => c[x].pc \in StopPc
      PROVE  Ident'
  BY <1>2, <1>3, GoToIdent DEF Ident, Failing
<1>4. ASSUME c[x].pc \in Named, UNCHANGED <<file, lock, proc, port>>,
             NEW s \in Named, GoTo(x, s), s = "probe" => c[x].tries < MaxTries
      PROVE  Ident'
  BY <1>2, <1>4, GoToIdent DEF Ident, Naming
<1>5. c[x].pc \in Mine => \A t \in Active \cup {"stopped", "failed"} : Launched(x, t) \in Record
  BY RecordType DEF Ident, Children
<1>6. CASE CheckRecorded(x)  BY <1>1, <1>2, <1>3, <1>6 DEF CheckRecorded
<1>7. CASE CheckPort(x)  BY <1>1, <1>2, <1>3, <1>7 DEF CheckPort
<1>8. CASE \E p \in Pids, i \in FreeIds : Spawn(x, p, i)  BY <1>8, SpawnIdent
<1>9. CASE SpawnFails(x)  BY <1>1, <1>2, <1>9 DEF SpawnFails
<1>10. CASE Capture(x)
  <2>1. CASE GoTo(x, "reap")  BY <1>3, <1>10, <2>1 DEF Capture
  <2>2. CASE c' = [c EXCEPT ![x] = [@ EXCEPT !.pc = "record", !.captured = TRUE]]
    <3> DEFINE r == [c[x] EXCEPT !.pc = "record", !.captured = TRUE]
    <3>1. c[x] \in Command /\ c[x].pid # Null
      BY <1>2, <1>10 DEF Ident, Children, Capture
    <3>2. r \in Command /\ r.pc = "record" /\ r.pid = c[x].pid /\ r.id = c[x].id
      BY <3>1 DEF Command
    <3>3. c' = [c EXCEPT ![x] = r]
      BY <2>2
    <3> HIDE DEF r
    <3> QED  BY <1>2, <1>10, <3>1, <3>2, <3>3, GoOnIdent DEF Capture
  <2> QED  BY <1>10, <2>1, <2>2 DEF Capture
<1>11. CASE RecordStarting(x)
  <2>1. file' \in Record /\ file'.pid = c[x].pid /\ file'.id = c[x].id
    BY <1>5, <1>11 DEF RecordStarting, Launched, Active
  <2>2. file' # Null
    BY <2>1, RecordAssumption
  <2> QED  BY <1>11, <2>1, <2>2, GoToIdent DEF RecordStarting
<1>12. CASE CheckChild(x)  BY <1>4, <1>12 DEF CheckChild
<1>13. CASE Probe(x)
  <2>1. CASE GoTo(x, "confirm")  BY <1>4, <1>13, <2>1 DEF Probe
  <2>2. CASE c' = [c EXCEPT ![x] = [@ EXCEPT !.pc = "wait", !.tries = c[x].tries + 1]]
    <3> DEFINE n == c[x].tries + 1
               r == [c[x] EXCEPT !.pc = "wait", !.tries = n]
    <3>1. c[x] \in Command /\ c[x].pid # Null /\ file # Null
            /\ file.pid = c[x].pid /\ file.id = c[x].id /\ c[x].tries < MaxTries
      BY <1>2, <1>13 DEF Ident, Children, Naming, Probe
    <3>3. c' = [c EXCEPT ![x] = r]
      BY <2>2
    <3>4. n \in 0..MaxTries
      BY <3>1, SupervisorAssumption DEF Command
    <3>2. r \in Command /\ r.pc = "wait" /\ r.pid = c[x].pid /\ r.id = c[x].id
      BY <3>1, <3>4 DEF Command
    <3> HIDE DEF r
    <3> QED  BY <1>2, <1>13, <3>1, <3>2, <3>3, GoOnIdent DEF Probe
  <2> QED  BY <1>13, <2>1, <2>2 DEF Probe
<1>14. CASE Confirm(x)  BY <1>4, <1>14 DEF Confirm
<1>15. CASE Announce(x)  BY <1>15, AnnounceIdent
<1>16. CASE StartWriteFails(x)
  <2>1. file' \in Record \cup {Null}
    BY <1>2, <1>5, <1>16 DEF StartWriteFails, WriteFails, Active
  <2> QED  BY <1>16, <2>1, GoToIdent DEF StartWriteFails
<1>17. CASE Terminate(x)  BY <1>17, TerminateIdent
<1>18. CASE Linger(x)  BY <1>3, <1>18 DEF Linger
<1>19. CASE WriteOutcome(x)
  <2>1. Outcome(x) \in Record
    BY <1>19, OutcomeType DEF WriteOutcome, Ident, Failing, Children
  <2> QED  BY <1>1, <1>2, <1>19, <2>1 DEF WriteOutcome, WriteFails
<1>20. CASE Interrupt(x)  BY <1>3, <1>20 DEF Interrupt
<1>21. CASE OpenGuard(x)  BY <1>1, <1>2, <1>3, <1>21 DEF OpenGuard, LookAgain
<1>22. CASE AskHealth(x)  BY <1>1, <1>2, <1>3, <1>22 DEF AskHealth
<1>23. CASE CheckExact(x)  BY <1>1, <1>2, <1>3, <1>23 DEF CheckExact, LookAgain
<1>24. CASE PostStop(x)  BY <1>24, PostIdent
<1>25. CASE StopRefused(x)  BY <1>1, <1>2, <1>3, <1>25 DEF StopRefused
<1>26. CASE AwaitExit(x)  BY <1>1, <1>2, <1>3, <1>26 DEF AwaitExit
<1>27. CASE WriteStopped(x)
  <2>1. file' \in Record \cup {Null}
    BY <1>2, <1>27 DEF Ident, Failing, WriteStopped, Stopped, WriteFails, Record, Active
  <2> QED  BY <1>1, <1>27, <2>1 DEF WriteStopped
<1> QED
  BY <1>6, <1>7, <1>8, <1>9, <1>10, <1>11, <1>12, <1>13, <1>14, <1>15, <1>16, <1>17,
     <1>18, <1>19, <1>20, <1>21, <1>22, <1>23, <1>24, <1>25, <1>26, <1>27
     DEF Start, Stop

\* Every step keeps it.
LEMMA NextIdent == Ident /\ [ServiceNext]_serviceVars => Ident'
<1> SUFFICES ASSUME Ident, [ServiceNext]_serviceVars PROVE Ident'
  OBVIOUS
<1>1. CASE UNCHANGED serviceVars
  BY <1>1 DEF serviceVars, Ident, ServiceTypeOK, Apart, Children, Failing, Naming, Has
<1>2. CASE Machine
  BY <1>2, MachineIdent DEF Machine
<1>3. ASSUME NEW x \in Callers,
             BeginStart(x) \/ BeginStop(x) \/ Start(x) \/ Stop(x)
               \/ Interrupt(x) \/ Die(x) \/ Leave(x)
      PROVE  Ident'
  <2>1. CASE BeginStart(x) \/ BeginStop(x)
    BY <2>1, BeginIdent
  <2>2. CASE Start(x) \/ Stop(x) \/ Interrupt(x)
    BY <2>2, CommandIdent
  <2>3. CASE Die(x)
    <3>1. c[x].pc \in Working
      BY <2>3 DEF Die, Ident, ServiceTypeOK, Command, Working
    <3>2. lock = x
      BY <3>1, Holder DEF Ident
    <3> QED  BY <2>3, <3>1, <3>2, EndIdent DEF Die, Ident, ServiceTypeOK
  <2>4. CASE Leave(x)
    BY <2>4, EndIdent DEF Leave, CallerAt, Ident, ServiceTypeOK
  <2> QED  BY <1>3, <2>1, <2>2, <2>3, <2>4
<1> QED  BY <1>1, <1>2, <1>3 DEF ServiceNext

\* Hence always.
LEMMA IdentAlways == ServiceSpec => []Ident
  BY InitIdent, NextIdent, PTL DEF ServiceSpec

\* Every variable keeps its type, and the lock is always held by the command
\* under way and by no other (start_service's and stop_service's `with` on
\* service.start.lock).
THEOREM ServiceTypeCorrect == ServiceSpec => []ServiceTypeOK
<1>1. Ident => ServiceTypeOK
  BY DEF Ident
<1> QED  BY <1>1, IdentAlways, PTL

----------------------------------------------------------------------------
\* What the record says of the machine. The predicates have the file and the
\* processes as arguments, so that they can be asked of the next state, too.

Lives(P, i) == \E p \in Pids :
  P[p] # Null /\ P[p].id = i /\ P[p].phase \in {"booting", "serving", "closing"}

\* The recorded service, if it has an identity, does not run.
Gone(f, P) == f # Null /\ f.id # Null => ~Lives(P, f.id)

FileTrue(f, P) == f # Null =>
  /\ f.id = Null => f.status = "cleanup_failed"
  /\ f.id # Null => \A p \in Pids : P[p] # Null /\ P[p].id = f.id =>
                      p = f.pid /\ (f.status = "running" => P[p].phase # "booting")
  /\ f.status \in {"stopped", "failed"} => ~Lives(P, f.id)

\* What a command has established where it is.
Knows(r, f, P) ==
  /\ r.pc \in {"confirm", "announce"} =>
       \A p \in Pids : p = r.pid /\ P[p] # Null => P[p].phase # "booting"
  /\ r.pc \in {"port", "spawn", "capture", "record", "write_failed", "write_stopped"}
       => Gone(f, P)
  /\ r.pc \in Named \cup {"record"} => r.captured
  /\ r.pc \in {"reap", "write_cleanup"} =>
       \/ Gone(f, P)
       \/ r.captured /\ f # Null /\ f.id = r.id

Records == FileTrue(file, proc) /\ \A x \in Callers : Knows(c[x], file, proc)

\* Nobody comes to life from one state of the machine to the next.
Fades(P, Q) == \A p \in Pids : Q[p] # Null =>
  /\ Q[p].phase = "booting" => P[p] # Null /\ P[p].phase = "booting"
  /\ Q[p].id # Null =>
       /\ P[p] # Null /\ P[p].id = Q[p].id
       /\ Q[p].phase \in {"booting", "serving", "closing"} =>
            P[p].phase \in {"booting", "serving", "closing"}

\* Then what was true stays true.
LEMMA Faded ==
  ASSUME NEW P, NEW Q, Fades(P, Q), NEW f, NEW r
  PROVE  /\ Gone(f, P) => Gone(f, Q)
         /\ FileTrue(f, P) => FileTrue(f, Q)
         /\ Knows(r, f, P) => Knows(r, f, Q)
<1>1. \A i : i # Null /\ Lives(Q, i) => Lives(P, i)
  BY DEF Fades, Lives
<1>2. Gone(f, P) => Gone(f, Q)
  BY <1>1 DEF Gone
<1>3. FileTrue(f, P) => FileTrue(f, Q)
  <2> SUFFICES ASSUME FileTrue(f, P), f # Null PROVE FileTrue(f, Q)
    BY DEF FileTrue
  <2>1. f.id = Null => f.status = "cleanup_failed"
    BY DEF FileTrue
  <2>2. f.id # Null => \A p \in Pids : Q[p] # Null /\ Q[p].id = f.id =>
                      p = f.pid /\ (f.status = "running" => Q[p].phase # "booting")
    BY DEF FileTrue, Fades
  <2>3. f.status \in {"stopped", "failed"} => ~Lives(Q, f.id)
    BY <1>1, <2>1 DEF FileTrue
  <2> QED  BY <2>1, <2>2, <2>3 DEF FileTrue
<1>4. Knows(r, f, P) => Knows(r, f, Q)
  BY <1>2 DEF Knows, Fades
<1> QED  BY <1>2, <1>3, <1>4

\* No process without an identity is a service.
LEMMA LivesMeans ==
  ASSUME Ident
  PROVE  /\ ~Running(Null)
         /\ \A i : Running(i) <=> Lives(proc, i)
  BY DEF Ident, ServiceTypeOK, Apart, Running, Has, Service, Phased, Lives

\* A state of the machine fades into itself, also without some processes.
LEMMA FadesAway ==
  ASSUME Ident, \A p \in Pids : proc'[p] \in {Null, proc[p]}
  PROVE  Fades(proc, proc')
  BY DEF Fades

\* The machine makes no service.
LEMMA MachineFades ==
  ASSUME Ident, NEW p \in Pids,
         Serves(p) \/ Exits(p) \/ OtherStarts(p) \/ OtherListens(p) \/ OtherExits(p)
  PROVE  Fades(proc, proc')
<1> USE DEF Ident, ServiceTypeOK, Process, Phased, Service
<1>0. \A f \in Phase : proc[p] # Null =>
        /\ [proc[p] EXCEPT !.phase = f] \in Process
        /\ [proc[p] EXCEPT !.phase = f].id = proc[p].id
        /\ [proc[p] EXCEPT !.phase = f].phase = f
  OBVIOUS
<1>1. CASE Serves(p)  BY <1>0, <1>1 DEF Serves, Fades, Phase
<1>2. CASE Exits(p)  BY <1>0, <1>2 DEF Exits, Fades, Phase
<1>3. CASE OtherStarts(p)  BY <1>3 DEF OtherStarts, Fades
<1>4. CASE OtherListens(p)  BY <1>4 DEF OtherListens, Fades
<1>5. CASE OtherExits(p)  BY <1>5 DEF OtherExits, Fades
<1> QED  BY <1>1, <1>2, <1>3, <1>4, <1>5

\* Nor does a command, but for a launch.
LEMMA CommandFades ==
  ASSUME Ident, NEW x \in Callers,
         \/ UNCHANGED proc \/ proc' = Orphaned(x) \/ Terminate(x) \/ PostStop(x)
  PROVE  Fades(proc, proc')
<1>1. CASE UNCHANGED proc  BY <1>1, FadesAway
<1>2. CASE proc' = Orphaned(x)  BY <1>2, OrphanedApart, FadesAway
<1>3. CASE Terminate(x)
  <2>1. \A p \in Pids : proc'[p] \in {Null, proc[p]}
    BY <1>3 DEF Terminate, Ident, ServiceTypeOK
  <2> QED  BY <2>1, FadesAway
<1>4. CASE PostStop(x)
  <2> DEFINE q == [proc[port] EXCEPT !.phase = "closing"]
  <2>1. port \in Pids /\ proc[port] # Null /\ proc[port].phase = "serving"
    BY <1>4 DEF PostStop, Accepts, Phased, Ident, ServiceTypeOK
  <2>2. q.id = proc[port].id /\ q.phase = "closing"
    BY <2>1 DEF Ident, ServiceTypeOK, Process
  <2>3. proc \in [Pids -> Process \cup {Null}] /\ c[x].pid = Null
    BY <1>4 DEF PostStop, CallerAt, Ident, ServiceTypeOK, Children, Mine
  <2>4. \/ proc' = [proc EXCEPT ![port] = q]
        \/ proc' = [Orphaned(x) EXCEPT ![port].phase = "closing"]
    BY <1>4 DEF PostStop
  <2>5. Orphaned(x) = [p \in Pids |-> proc[p]]
    BY <2>3, SupervisorAssumption DEF Orphaned
  <2>6. proc' = [proc EXCEPT ![port] = q]
    BY <2>3, <2>4, <2>5
  <2> HIDE DEF q
  <2>7. proc'[port] = q /\ \A p \in Pids : p # port => proc'[p] = proc[p]
    BY <2>1, <2>3, <2>6
  <2> QED  BY <2>1, <2>2, <2>7 DEF Fades
<1> QED  BY <1>1, <1>2, <1>3, <1>4

\* In the first state nothing is recorded.
LEMMA InitRecords == ServiceInit => Records
  BY DEF ServiceInit, Records, FileTrue, Knows, IdleCaller, Named

\* A command whose step leaves it with a true record and true knowledge keeps
\* both: the others know nothing, or the record is as it was and nobody new lives.
LEMMA GoOnRecords ==
  ASSUME Ident, Records, NEW x \in Callers, NEW r, c' = [c EXCEPT ![x] = r],
         FileTrue(file', proc'), Knows(r, file', proc'),
         c[x].pc \in Working \/ (file' = file /\ Fades(proc, proc'))
  PROVE  Records'
<1>1. c \in [Callers -> Command] /\ c'[x] = r /\ \A y \in Callers : y # x => c'[y] = c[y]
  BY DEF Ident, ServiceTypeOK
<1>2. ASSUME NEW y \in Callers, y # x PROVE Knows(c'[y], file', proc')
  <2>1. CASE c[x].pc \in Working
    <3>1. c'[y].pc \notin Working
      BY <1>1, <1>2, <2>1, Holder DEF Ident
    <3> QED  BY <3>1 DEF Knows, Working, StartPc, StopPc, Named
  <2>2. CASE file' = file /\ Fades(proc, proc')
    BY <1>1, <1>2, <2>2, Faded DEF Records
  <2> QED  BY <2>1, <2>2
<1> QED  BY <1>1, <1>2 DEF Records

\* One that ends knows nothing.
LEMMA IdleKnows == \A f, P : Knows(IdleCaller, f, P)
  BY DEF Knows, IdleCaller, Named

\* Whoever looks and finds another process or none knows that the recorded one
\* is gone.
LEMMA NoMatch ==
  ASSUME Ident, Records, file # Null, Relation(file) # "match"
  PROVE  Gone(file, proc)
  BY DEF Records, FileTrue, Relation, Gone, Lives

\* A command that goes to another place with what it needs to know there.
LEMMA GoToRecords ==
  ASSUME Ident, Records, NEW x \in Callers, c[x].pc \in Working,
         UNCHANGED <<file, proc>>, NEW s \in Working, GoTo(x, s),
         s \in {"confirm", "announce"} =>
           \A p \in Pids : p = c[x].pid /\ proc[p] # Null => proc[p].phase # "booting",
         s \in {"port", "spawn", "capture", "record", "write_failed", "write_stopped"}
           => Gone(file, proc),
         s \in Named \cup {"record"} => c[x].captured,
         s \in {"reap", "write_cleanup"} =>
           \/ Gone(file, proc)
           \/ c[x].captured /\ file # Null /\ file.id = c[x].id
  PROVE  Records'
<1> DEFINE r == [c[x] EXCEPT !.pc = s]
<1>1. r.pc = s /\ r.pid = c[x].pid /\ r.id = c[x].id /\ r.captured = c[x].captured
  BY DEF Ident, ServiceTypeOK, Command
<1>2. c' = [c EXCEPT ![x] = r]
  BY DEF GoTo
<1> HIDE DEF r
<1>3. Knows(r, file', proc')
  BY <1>1 DEF Knows
<1>4. FileTrue(file', proc')
  BY DEF Records
<1> QED  BY <1>2, <1>3, <1>4, GoOnRecords

\* A command that ends, or goes away, leaving the record as it is or true.
LEMMA EndRecords ==
  ASSUME Ident, Records, NEW x \in Callers, c' = [c EXCEPT ![x] = IdleCaller],
         Fades(proc, proc'), file' = file \/ FileTrue(file', proc'),
         c[x].pc \in Working \/ file' = file
  PROVE  Records'
<1>1. FileTrue(file', proc')
  BY Faded DEF Records
<1> QED  BY <1>1, IdleKnows, GoOnRecords

\* What is written of a launched child is true.
LEMMA LaunchedTrue ==
  ASSUME Ident, NEW x \in Callers, c[x].pc \in Mine, NEW s \in {"starting", "running"},
         s = "running" =>
           \A p \in Pids : p = c[x].pid /\ proc[p] # Null => proc[p].phase # "booting"
  PROVE  /\ FileTrue(Launched(x, s), proc)
         /\ Launched(x, s).id = c[x].id /\ Launched(x, s) # Null
<1>1. /\ c[x].pid \in Pids /\ c[x].id # Null /\ Has(c[x].pid, c[x].id)
      /\ Launched(x, s).id = c[x].id /\ Launched(x, s).pid = c[x].pid
      /\ Launched(x, s).status = s
  BY SupervisorAssumption DEF Ident, ServiceTypeOK, Children, Launched, Command
<1>2. Launched(x, s) # Null
  BY <1>1, RecordType, RecordAssumption DEF Ident, Children, Active
<1>3. \A p \in Pids : proc[p] # Null /\ proc[p].id = c[x].id => p = c[x].pid
  BY <1>1 DEF Ident, Apart, Has
<1> QED  BY <1>1, <1>2, <1>3 DEF FileTrue

\* What is written in the end is true.
LEMMA OutcomeTrue ==
  ASSUME Ident, Records, NEW x \in Callers, WriteOutcome(x)
  PROVE  /\ FileTrue(Outcome(x), proc)
         /\ Outcome(x).id # file.id => Gone(file, proc)
<1>1. CASE CallerAt(x, "write_failed")
  <2>1. file # Null /\ file \in Record /\ file.id # Null /\ Gone(file, proc)
        /\ FileTrue(file, proc)
    BY <1>1 DEF Ident, ServiceTypeOK, Failing, Records, Knows, CallerAt
  <2>2. Outcome(x).status = "failed" /\ Outcome(x).id = file.id /\ Outcome(x).pid = file.pid
    BY <1>1, <2>1 DEF Outcome, Record
  <2> QED  BY <2>1, <2>2 DEF Gone, FileTrue
<1>2. CASE c[x].pc = "write_cleanup"
  <2>1. /\ c[x].pid \in Pids /\ Has(c[x].pid, c[x].id) /\ c[x].id # Null
        /\ Gone(file, proc) \/ (c[x].captured /\ file # Null /\ file.id = c[x].id)
    BY <1>2, SupervisorAssumption DEF Ident, ServiceTypeOK, Children, Mine, Command, Records, Knows
  <2>2. /\ Outcome(x).status = "cleanup_failed" /\ Outcome(x).pid = c[x].pid
        /\ Outcome(x).id \in {c[x].id, Null}
        /\ c[x].captured => Outcome(x).id = c[x].id
    BY <1>2 DEF Outcome, CallerAt, Launched
  <2>3. \A p \in Pids : proc[p] # Null /\ proc[p].id = c[x].id => p = c[x].pid
    BY <2>1 DEF Ident, Apart, Has
  <2> QED  BY <2>1, <2>2, <2>3 DEF FileTrue
<1> QED  BY <1>1, <1>2 DEF WriteOutcome, CallerAt

\* A launch makes no process of the recorded identity.
LEMMA SpawnRecords ==
  ASSUME Ident, Records, NEW x \in Callers, NEW p \in Pids, NEW i \in FreeIds, Spawn(x, p, i)
  PROVE  Records'
<1> DEFINE r == [c[x] EXCEPT !.pc = "capture", !.pid = p, !.id = i]
           q == [id |-> i, phase |-> "booting"]
<1>1. /\ c[x].pc = "spawn" /\ proc[p] = Null /\ proc' = [proc EXCEPT ![p] = q]
      /\ c' = [c EXCEPT ![x] = r] /\ file' = file
  BY DEF Spawn, CallerAt
<1>2. r.pc = "capture"
  BY DEF Ident, ServiceTypeOK, Command
<1>3. q.id = i /\ i # Null /\ (file # Null => file.id # i)
  BY SupervisorAssumption DEF FreeIds
<1> HIDE DEF q, r
<1>4. proc'[p] = q /\ \A t \in Pids : t # p => proc'[t] = proc[t]
  BY <1>1 DEF Ident, ServiceTypeOK
<1>5. Gone(file, proc)
  BY <1>1 DEF Records, Knows
<1>6. file # Null /\ file.id # Null => ~Lives(proc', file.id)
  BY <1>3, <1>4, <1>5 DEF Gone, Lives
<1>7. FileTrue(file, proc')
  BY <1>3, <1>4, <1>6 DEF Records, FileTrue
<1>8. Knows(r, file, proc')
  BY <1>2, <1>6 DEF Knows, Gone, Named
<1> QED  BY <1>1, <1>7, <1>8, GoOnRecords DEF Working, StartPc

\* Every step of a command keeps the record true.
LEMMA CommandRecords ==
  ASSUME Ident, Records, NEW x \in Callers, Start(x) \/ Stop(x) \/ Interrupt(x)
  PROVE  Records'
<1> USE DEF CallerAt, Mine, Named, Working, StartPc, StopPc
<1>1. ASSUME Return(x), c[x].pc \in Working, file' = file \/ FileTrue(file', proc)
      PROVE  Records'
  <2>1. Fades(proc, proc')
    BY <1>1, CommandFades DEF Return
  <2>2. file' = file \/ FileTrue(file', proc')
    BY <1>1, <2>1, Faded
  <2> QED  BY <1>1, <2>1, <2>2, EndRecords DEF Return
<1>2. Knows(c[x], file, proc) /\ FileTrue(file, proc)
  BY DEF Records
<1>3. CASE CheckRecorded(x)
  <2>1. CASE Return(x)  BY <1>1, <1>3, <2>1 DEF CheckRecorded
  <2>2. CASE FALSE \in StartBlocked /\ GoTo(x, "port") /\ UNCHANGED proc
    <3>1. Gone(file, proc)
      <4>1. CASE file = Null \/ file.id = Null
        BY <4>1 DEF Gone
      <4>2. CASE file # Null /\ file.id # Null
        <5>1. Relation(file) # "match"
          BY <2>2, <4>2 DEF StartBlocked, BlocksStart, Relations
        <5> QED  BY <4>2, <5>1, NoMatch
      <4> QED  BY <4>1, <4>2
    <3> QED  BY <1>3, <2>2, <3>1, GoToRecords DEF CheckRecorded
  <2> QED  BY <1>3, <2>1, <2>2 DEF CheckRecorded
<1>4. CASE CheckPort(x)
  <2>1. CASE Return(x)  BY <1>1, <1>4, <2>1 DEF CheckPort
  <2>2. CASE GoTo(x, "spawn") /\ UNCHANGED proc
    BY <1>2, <1>4, <2>2, GoToRecords DEF CheckPort, Knows
  <2> QED  BY <1>4, <2>1, <2>2 DEF CheckPort
<1>5. CASE \E p \in Pids, i \in FreeIds : Spawn(x, p, i)  BY <1>5, SpawnRecords
<1>6. CASE SpawnFails(x)  BY <1>1, <1>6 DEF SpawnFails
<1>7. CASE Capture(x)
  <2>1. CASE GoTo(x, "reap")  BY <1>2, <1>7, <2>1, GoToRecords DEF Capture, Knows
  <2>2. CASE c' = [c EXCEPT ![x] = [@ EXCEPT !.pc = "record", !.captured = TRUE]]
    <3> DEFINE r == [c[x] EXCEPT !.pc = "record", !.captured = TRUE]
    <3>1. r.pc = "record" /\ r.captured
      BY DEF Ident, ServiceTypeOK, Command
    <3>2. c' = [c EXCEPT ![x] = r]
      BY <2>2
    <3> HIDE DEF r
    <3>3. Knows(r, file', proc')
      BY <1>2, <1>7, <3>1 DEF Capture, Knows
    <3> QED  BY <1>2, <1>7, <3>2, <3>3, GoOnRecords DEF Capture
  <2> QED  BY <1>7, <2>1, <2>2 DEF Capture
<1>8. CASE RecordStarting(x)
  <2> DEFINE r == [c[x] EXCEPT !.pc = "wait"]
  <2>1. r.pc = "wait" /\ r.captured = c[x].captured /\ c' = [c EXCEPT ![x] = r]
    BY <1>8 DEF RecordStarting, GoTo, Ident, ServiceTypeOK, Command
  <2> HIDE DEF r
  <2>2. Knows(r, file', proc')
    BY <1>2, <1>8, <2>1 DEF RecordStarting, Knows
  <2>3. FileTrue(file', proc')
    BY <1>8, LaunchedTrue DEF RecordStarting
  <2> QED  BY <1>8, <2>1, <2>2, <2>3, GoOnRecords DEF RecordStarting
<1>9. CASE CheckChild(x)  BY <1>2, <1>9, GoToRecords DEF CheckChild, Knows
<1>10. CASE Probe(x)
  <2>1. CASE HealthMatches(c[x].pid, c[x].id) /\ GoTo(x, "confirm")
    <3>1. proc[c[x].pid] # Null => proc[c[x].pid].phase # "booting"
      BY <2>1 DEF HealthMatches, Phased
    <3> QED  BY <1>2, <1>10, <2>1, <3>1, GoToRecords DEF Probe, Knows
  <2>2. CASE c' = [c EXCEPT ![x] = [@ EXCEPT !.pc = "wait", !.tries = c[x].tries + 1]]
    <3> DEFINE n == c[x].tries + 1
               r == [c[x] EXCEPT !.pc = "wait", !.tries = n]
    <3>1. c' = [c EXCEPT ![x] = r]
      BY <2>2
    <3> HIDE DEF n
    <3>2. r.pc = "wait" /\ r.captured = c[x].captured
      BY DEF Ident, ServiceTypeOK, Command
    <3> HIDE DEF r
    <3>3. Knows(r, file', proc')
      BY <1>2, <1>10, <3>2 DEF Probe, Knows
    <3> QED  BY <1>2, <1>10, <3>1, <3>3, GoOnRecords DEF Probe
  <2> QED  BY <1>10, <2>1, <2>2 DEF Probe
<1>11. CASE Confirm(x)  BY <1>2, <1>11, GoToRecords DEF Confirm, Knows
<1>12. CASE Announce(x)
  <2> DEFINE r == [c[x] EXCEPT !.pc = "returned"]
  <2>1. r.pc = "returned" /\ c' = [c EXCEPT ![x] = r]
    BY <1>12 DEF Announce, GoTo, Ident, ServiceTypeOK, Command
  <2> HIDE DEF r
  <2>2. Knows(r, file', proc')
    BY <2>1 DEF Knows
  <2>3. FileTrue(file', proc')
    BY <1>2, <1>12, LaunchedTrue DEF Announce, Knows
  <2> QED  BY <1>12, <2>1, <2>2, <2>3, GoOnRecords DEF Announce
<1>13. CASE StartWriteFails(x)
  <2>1. /\ c[x].pc \in {"record", "announce"} /\ GoTo(x, "reap") /\ UNCHANGED proc
        /\ c[x].captured
    BY <1>2, <1>13 DEF StartWriteFails, Knows
  <2>2. CASE file' = file
    BY <1>2, <2>1, <2>2, GoToRecords DEF Knows, Ident, Naming
  <2>3. CASE file' # file
    <3>1. PICK s \in {"starting", "running"} :
            file' = Launched(x, s) /\ (s = "running" => c[x].pc = "announce")
      BY <1>13, <2>3 DEF StartWriteFails, WriteFails
    <3>2. FileTrue(file', proc) /\ file'.id = c[x].id /\ file' # Null
      BY <1>2, <2>1, <3>1, LaunchedTrue DEF Knows
    <3> DEFINE r == [c[x] EXCEPT !.pc = "reap"]
    <3>3. /\ r.pc = "reap" /\ r.captured = c[x].captured /\ r.id = c[x].id
          /\ c' = [c EXCEPT ![x] = r]
      BY <2>1 DEF GoTo, Ident, ServiceTypeOK, Command
    <3> HIDE DEF r
    <3>4. Knows(r, file', proc')
      BY <2>1, <3>2, <3>3 DEF Knows
    <3> QED  BY <2>1, <3>2, <3>3, <3>4, GoOnRecords
  <2> QED  BY <2>2, <2>3
<1>14. CASE Terminate(x)
  <2>1. Fades(proc, proc') /\ file' = file
    BY <1>14, CommandFades DEF Terminate
  <2>2. CASE c' = [c EXCEPT ![x] = IdleCaller]
    BY <1>14, <2>1, <2>2, EndRecords DEF Terminate
  <2>3. CASE CallerAt(x, "give_up") /\ c' = [c EXCEPT ![x] = [@ EXCEPT !.pc = "write_failed", !.pid = Null]]
    <3> DEFINE r == [c[x] EXCEPT !.pc = "write_failed", !.pid = Null]
    <3>1. r.pc = "write_failed" /\ c' = [c EXCEPT ![x] = r]
      BY <2>3 DEF Ident, ServiceTypeOK, Command
    <3> HIDE DEF r
    <3>2. file # Null /\ file.id = c[x].id /\ Has(c[x].pid, c[x].id) /\ c[x].id # Null
            /\ c[x].pid \in Pids
      BY <2>3 DEF Ident, ServiceTypeOK, Naming, Children, Command
    <3>3. proc'[c[x].pid] = Null /\ \A p \in Pids : p # c[x].pid => proc'[p] = proc[p]
      BY <1>14, <3>2 DEF Terminate, Ident, ServiceTypeOK
    <3>4. Gone(file, proc')
      BY <3>2, <3>3 DEF Ident, Apart, Gone, Lives, Has
    <3>5. Knows(r, file', proc')
      BY <2>1, <3>1, <3>4 DEF Knows
    <3>6. FileTrue(file', proc')
      BY <1>2, <2>1, Faded
    <3> QED  BY <2>3, <3>1, <3>5, <3>6, GoOnRecords
  <2> QED  BY <1>14, <2>2, <2>3 DEF Terminate
<1>15. CASE Linger(x)
  <2>1. Gone(file, proc) \/ (c[x].captured /\ file # Null /\ file.id = c[x].id)
    BY <1>2, <1>15 DEF Linger, Knows, Ident, Naming
  <2> QED  BY <1>15, <2>1, GoToRecords DEF Linger
<1>16. CASE WriteOutcome(x)
  <2>1. file' = file \/ FileTrue(file', proc)
    BY <1>16, OutcomeTrue DEF WriteOutcome, WriteFails
  <2> QED  BY <1>1, <1>16, <2>1 DEF WriteOutcome
<1>17. CASE Interrupt(x)
  <2>1. Gone(file, proc) \/ (c[x].captured /\ file # Null /\ file.id = c[x].id)
    BY <1>2, <1>17 DEF Interrupt, Knows, Ident, Naming
  <2> QED  BY <1>17, <2>1, GoToRecords DEF Interrupt
<1>18. ASSUME NEW s \in StopPc \ {"write_stopped"}, GoTo(x, s), c[x].pc \in Working,
              UNCHANGED <<file, proc>>
       PROVE  Records'
  BY <1>18, GoToRecords
<1>19. CASE OpenGuard(x)  BY <1>1, <1>18, <1>19 DEF OpenGuard, LookAgain
<1>20. CASE AskHealth(x)  BY <1>1, <1>18, <1>20 DEF AskHealth
<1>21. CASE CheckExact(x)  BY <1>1, <1>18, <1>21 DEF CheckExact, LookAgain
<1>22. CASE PostStop(x)
  <2>1. Fades(proc, proc') /\ file' = file /\ c[x].pc = "post"
    BY <1>22, CommandFades DEF PostStop
  <2>2. CASE c' = [c EXCEPT ![x] = IdleCaller]
    BY <2>1, <2>2, EndRecords
  <2>3. CASE GoTo(x, "await")
    <3> DEFINE r == [c[x] EXCEPT !.pc = "await"]
    <3>1. r.pc = "await" /\ c' = [c EXCEPT ![x] = r]
      BY <2>3 DEF GoTo, Ident, ServiceTypeOK, Command
    <3> HIDE DEF r
    <3>2. Knows(r, file', proc') /\ FileTrue(file', proc')
      BY <1>2, <2>1, <3>1, Faded DEF Knows
    <3> QED  BY <2>1, <3>1, <3>2, GoOnRecords
  <2> QED  BY <1>22, <2>2, <2>3 DEF PostStop
<1>23. CASE StopRefused(x)  BY <1>1, <1>18, <1>23 DEF StopRefused
<1>24. CASE AwaitExit(x)
  <2>1. CASE Return(x)  BY <1>1, <1>24, <2>1 DEF AwaitExit
  <2>2. CASE Relation(file) \in {"absent", "mismatch"} /\ GoTo(x, "write_stopped") /\ UNCHANGED proc
    <3>1. Gone(file, proc)
      BY <2>2, NoMatch DEF Gone
    <3> QED  BY <1>24, <2>2, <3>1, GoToRecords DEF AwaitExit
  <2> QED  BY <1>24, <2>1, <2>2 DEF AwaitExit
<1>25. CASE WriteStopped(x)
  <2>1. file # Null /\ file \in Record /\ file.id # Null /\ Gone(file, proc)
    BY <1>2, <1>25 DEF WriteStopped, Ident, ServiceTypeOK, Failing, Knows
  <2>2. Stopped.status = "stopped" /\ Stopped.id = file.id /\ Stopped.pid = file.pid
    BY <2>1 DEF Stopped, Record
  <2>3. FileTrue(Stopped, proc)
    BY <1>2, <2>1, <2>2 DEF FileTrue, Gone
  <2>4. file' = file \/ FileTrue(file', proc)
    BY <1>25, <2>3 DEF WriteStopped, WriteFails
  <2> QED  BY <1>1, <1>25, <2>4 DEF WriteStopped
<1> QED
  BY <1>3, <1>4, <1>5, <1>6, <1>7, <1>8, <1>9, <1>10, <1>11, <1>12, <1>13, <1>14, <1>15,
     <1>16, <1>17, <1>19, <1>20, <1>21, <1>22, <1>23, <1>24, <1>25
     DEF Start, Stop

\* Every step does.
LEMMA NextRecords == Ident /\ Records /\ [ServiceNext]_serviceVars => Records'
<1> SUFFICES ASSUME Ident, Records, [ServiceNext]_serviceVars PROVE Records'
  OBVIOUS
<1>1. CASE UNCHANGED serviceVars
  BY <1>1 DEF serviceVars, Records
<1>2. CASE Machine
  <2>1. Fades(proc, proc') /\ UNCHANGED <<file, c>>
    BY <1>2, MachineFades DEF Machine, Serves, Exits, OtherStarts, OtherListens, OtherExits
  <2> QED  BY <2>1, Faded DEF Records
<1>3. ASSUME NEW x \in Callers,
             BeginStart(x) \/ BeginStop(x) \/ Start(x) \/ Stop(x)
               \/ Interrupt(x) \/ Die(x) \/ Leave(x)
      PROVE  Records'
  <2>1. CASE BeginStart(x) \/ BeginStop(x)
    <3>1. PICK s \in {"start", "open"} : GoTo(x, s) /\ UNCHANGED <<file, proc>>
      BY <2>1 DEF BeginStart, BeginStop
    <3> DEFINE r == [c[x] EXCEPT !.pc = s]
    <3>2. r.pc = s /\ c' = [c EXCEPT ![x] = r]
      BY <3>1 DEF GoTo, Ident, ServiceTypeOK, Command
    <3> HIDE DEF r
    <3>3. Knows(r, file', proc') /\ FileTrue(file', proc')
      BY <3>1, <3>2 DEF Records, Knows, Named
    <3>4. Fades(proc, proc')
      BY <3>1, CommandFades
    <3> QED  BY <3>1, <3>2, <3>3, <3>4, GoOnRecords
  <2>2. CASE Start(x) \/ Stop(x) \/ Interrupt(x)
    BY <2>2, CommandRecords
  <2>3. CASE Die(x) \/ Leave(x)
    <3>1. proc' = Orphaned(x) /\ file' = file /\ c' = [c EXCEPT ![x] = IdleCaller]
      BY <2>3 DEF Die, Leave
    <3> QED  BY <3>1, CommandFades, EndRecords
  <2> QED  BY <1>3, <2>1, <2>2, <2>3
<1> QED  BY <1>1, <1>2, <1>3 DEF ServiceNext

\* Hence always.
LEMMA RecordsAlways == ServiceSpec => [](Ident /\ Records)
<1>1. ServiceInit => Ident /\ Records
  BY InitIdent, InitRecords
<1>2. Ident /\ Records /\ [ServiceNext]_serviceVars => (Ident /\ Records)'
  BY NextIdent, NextRecords
<1> QED  BY <1>1, <1>2, PTL DEF ServiceSpec

\* A service that service.json calls stopped or failed does not run, whoever is
\* killed and whichever write fails (stop_service's wait for the exact process,
\* _terminate_owned_child before "failed").
THEOREM SettledServicesAreGone == ServiceSpec => []SettledIsGone
<1>1. Ident /\ Records => SettledIsGone
  BY LivesMeans DEF Records, FileTrue, SettledIsGone
<1> QED  BY <1>1, RecordsAlways, PTL

\* A service that service.json calls running has served under its recorded pid
\* (start_service's health check before "running").
THEOREM RunningServicesHaveServed == ServiceSpec => []RunningHasServed
<1>1. Ident /\ Records => RunningHasServed
  BY RecordAssumption DEF Ident, ServiceTypeOK, Records, FileTrue, RunningHasServed, Has, Phased
<1> QED  BY <1>1, RecordsAlways, PTL

\* The record of a service is replaced by another's only when it does not run
\* (_existing_state_blocks_start, and the except blocks of start_service).
THEOREM RecordsOutliveServices == ServiceSpec => RecordOutlivesService
<1>1. ASSUME Ident, Records, [ServiceNext]_serviceVars, file' # file, file # Null, file'.id # file.id
      PROVE  ~Running(file.id)
  <2>1. PICK x \in Callers : RecordStarting(x) \/ Announce(x) \/ StartWriteFails(x)
                               \/ WriteOutcome(x) \/ WriteStopped(x)
    BY <1>1 DEF serviceVars, ServiceNext, Machine, Serves, Exits, OtherStarts, OtherListens, OtherExits,
       BeginStart, BeginStop, Start, Stop, CheckRecorded, CheckPort, Spawn, SpawnFails,
       Capture, CheckChild, Probe, Confirm, Terminate, Linger, OpenGuard, AskHealth,
       CheckExact, LookAgain, PostStop, StopRefused, AwaitExit, Interrupt, Die, Leave
  <2>2. Knows(c[x], file, proc) /\ file \in Record
    BY <1>1 DEF Records, Ident, ServiceTypeOK
  <2>3. Gone(file, proc) => ~Running(file.id)
    BY <1>1, LivesMeans DEF Gone
  <2>4. c[x].pc = "announce" => file.id = c[x].id
    BY <1>1 DEF Ident, Naming, Named
  <2>5. CASE RecordStarting(x)
    BY <2>2, <2>3, <2>5 DEF RecordStarting, CallerAt, Knows
  <2>6. CASE Announce(x)
    BY <1>1, <2>4, <2>6 DEF Announce, CallerAt, Launched
  <2>7. CASE StartWriteFails(x)
    BY <1>1, <2>2, <2>3, <2>4, <2>7 DEF StartWriteFails, WriteFails, CallerAt, Knows, Launched
  <2>8. CASE WriteOutcome(x)
    BY <1>1, <2>3, <2>8, OutcomeTrue DEF WriteOutcome, WriteFails
  <2>9. CASE WriteStopped(x)
    <3>1. Stopped.id = file.id
      BY <2>2 DEF Stopped, Record
    <3> QED  BY <1>1, <2>9, <3>1 DEF WriteStopped, WriteFails
  <2> QED  BY <2>1, <2>5, <2>6, <2>7, <2>8, <2>9
<1>2. Ident /\ Records /\ [ServiceNext]_serviceVars
        => [file # Null /\ file'.id # file.id => ~Running(file.id)]_file
  BY <1>1
<1> QED  BY <1>2, RecordsAlways, PTL DEF ServiceSpec, RecordOutlivesService

\* Only the recorded service is ever made to shut down (the instance that
\* do_POST's /__service/stop compares is the recorded one's).
THEOREM StopsReachTheRecorded == ServiceSpec => OnlyTheRecordedStops
<1>1. ASSUME Ident, ServiceNext, NEW p \in Pids, Phased(p) = "serving", Phased(p)' = "closing"
      PROVE  file # Null /\ proc[p].id = file.id
  <2> USE <1>1 DEF Ident, ServiceTypeOK, Phased
  <2>1. ASSUME proc'[p] \in {Null, proc[p]} PROVE FALSE
    BY <2>1
  <2>2. ASSUME NEW q \in Pids,
               Serves(q) \/ Exits(q) \/ OtherStarts(q) \/ OtherListens(q) \/ OtherExits(q)
        PROVE  FALSE
    <3>1. CASE q # p
      BY <2>1, <2>2, <3>1 DEF Serves, Exits, OtherStarts, OtherListens, OtherExits
    <3>2. CASE q = p /\ Exits(p)
      <4>1. [proc[p] EXCEPT !.phase = "exited"].phase = "exited"
        BY DEF Process
      <4> QED  BY <3>2, <4>1 DEF Exits
    <3>3. CASE q = p /\ ~Exits(p)
      BY <2>1, <2>2, <3>3 DEF Serves, OtherStarts, OtherListens, OtherExits
    <3> QED  BY <3>1, <3>2, <3>3
  <2>3. PICK x \in Callers :
          BeginStart(x) \/ BeginStop(x) \/ Start(x) \/ Stop(x) \/ Interrupt(x) \/ Die(x) \/ Leave(x)
    BY <2>2 DEF ServiceNext, Machine
  <2>4. CASE UNCHANGED proc  BY <2>1, <2>4
  <2>5. CASE proc' = Orphaned(x)  BY <2>1, <2>5, OrphanedApart
  <2>6. CASE Terminate(x)  BY <2>1, <2>6 DEF Terminate
  <2>7. CASE \E q \in Pids, i \in FreeIds : Spawn(x, q, i)  BY <2>1, <2>7 DEF Spawn
  <2>8. CASE PostStop(x)
    <3>1. port \in Pids /\ proc[port].id = file.id /\ file # Null /\ c[x].pid = Null
      BY <2>8 DEF PostStop, Accepts, CallerAt, Failing, StopPc, Children, Mine
    <3>2. Orphaned(x) = [q \in Pids |-> proc[q]]
      BY <3>1, SupervisorAssumption DEF Orphaned
    <3>3. p # port => proc'[p] = proc[p]
      BY <2>8, <3>1, <3>2 DEF PostStop
    <3> QED  BY <2>1, <3>1, <3>3
  <2> QED
    BY <2>3, <2>4, <2>5, <2>6, <2>7, <2>8
       DEF BeginStart, BeginStop, Start, Stop, CheckRecorded, CheckPort, SpawnFails, Capture,
           RecordStarting, CheckChild, Probe, Confirm, Announce, StartWriteFails, Linger,
           WriteOutcome, OpenGuard, AskHealth, CheckExact, LookAgain, StopRefused, AwaitExit,
           WriteStopped, Interrupt, Die, Leave, Return
<1>2. Ident /\ [ServiceNext]_serviceVars
        => [\A p \in Pids : Phased(p) = "serving" /\ Phased(p)' = "closing"
                              => file # Null /\ proc[p].id = file.id]_proc
  BY <1>1 DEF serviceVars
<1> QED  BY <1>2, IdentAlways, PTL DEF ServiceSpec, OnlyTheRecordedStops

----------------------------------------------------------------------------
\* Who answers for a service, while no command is killed and every write works

Serving(P, p) == P[p] # Null /\ P[p].phase \in {"booting", "serving", "closing"}

\* The record names it as active.
Told(f, P, p) == f # Null /\ f.pid = p /\ f.status \in Active /\ f.id \in {P[p].id, Null}

\* The command under way has launched it, or has found none, or has not looked.
Account(r, f, P) == \A p \in Pids : Serving(P, p) =>
  /\ r.pc \notin {"port", "spawn", "write_failed"}
  /\ r.pc \in Mine => p = r.pid
  /\ r.pc \in {"idle", "returned", "start"} \cup StopPc => Told(f, P, p)

Sole ==
  /\ \A x \in Callers : c[x].pc \in Working => Account(c[x], file, proc)
  /\ lock = Null => \A p \in Pids : Serving(proc, p) => Told(file, proc, p)

\* Accounts stay right when nobody comes to life.
LEMMA FadedAccount ==
  ASSUME Ident', Fades(proc, proc')
  PROVE  /\ \A p \in Pids : Serving(proc', p) => Serving(proc, p) /\ proc'[p].id = proc[p].id
         /\ \A f : \A p \in Pids : Serving(proc', p) /\ Told(f, proc, p) => Told(f, proc', p)
         /\ \A r, f : Account(r, f, proc) => Account(r, f, proc')
<1>1. \A p \in Pids : Serving(proc', p) => Serving(proc, p) /\ proc'[p].id = proc[p].id
  BY DEF Ident, Apart, Fades, Serving
<1> QED  BY <1>1 DEF Told, Account

\* A command under way that can account for every service after its step keeps
\* that so.
LEMMA GoOnSole ==
  ASSUME Ident, Ident', NEW x \in Callers, c[x].pc \in Working, NEW r,
         c' = [c EXCEPT ![x] = r], Account(r, file', proc')
  PROVE  Sole'
<1>1. c \in [Callers -> Command] /\ c'[x] = r
        /\ \A y \in Callers : y # x => c'[y].pc \notin Working
  BY Holder DEF Ident, ServiceTypeOK
<1>2. lock' = Null => r.pc \in {"idle", "returned"}
  <2>1. c'[x] \in Command /\ (lock' = Null => c'[x].pc \notin Working)
    BY SupervisorAssumption DEF Ident, ServiceTypeOK, Working
  <2> QED  BY <1>1, <2>1 DEF Command, Working
<1> QED  BY <1>1, <1>2 DEF Sole, Account

\* So does one that ends after nothing was launched.
LEMMA EndSole ==
  ASSUME Ident, Ident', Sole, NEW x \in Callers, Return(x), file' = file,
         c[x].pc \in {"start", "port", "spawn"} \cup StopPc
  PROVE  Sole'
<1>1. Fades(proc, proc')
  BY CommandFades DEF Return
<1>2. Account(c[x], file, proc)
  BY DEF Sole, Working, StartPc
<1>3. Account(IdleCaller, file, proc)
  BY <1>2 DEF Account, IdleCaller, Mine, StopPc
<1>4. Account(IdleCaller, file', proc')
  BY <1>1, <1>3, FadedAccount
<1> QED  BY <1>4, GoOnSole DEF Return, Working, StartPc

\* And one that goes on in the same part of its way.
LEMMA GoToSole ==
  ASSUME Ident, Ident', Sole, NEW x \in Callers, UNCHANGED proc, NEW s, GoTo(x, s),
         \/ c[x].pc \in Mine /\ s \in Mine
         \/ c[x].pc \in StopPc /\ s \in StopPc /\ file' = file
         \/ c[x].pc = "start" /\ s = "port" /\ file' = file
              /\ \A p \in Pids : Serving(proc, p) => ~Told(file, proc, p)
         \/ c[x].pc = "port" /\ s = "spawn"
  PROVE  Sole'
<1>1. c[x].pc \in Working /\ Account(c[x], file, proc)
  BY DEF Sole, Working, StartPc, StopPc, Mine
<1> DEFINE r == [c[x] EXCEPT !.pc = s]
<1>2. r.pc = s /\ r.pid = c[x].pid /\ c' = [c EXCEPT ![x] = r]
  BY DEF GoTo, Ident, ServiceTypeOK, Command
<1> HIDE DEF r
<1>3. Account(r, file', proc')
  BY <1>1, <1>2 DEF Account, Mine, StopPc
<1> QED  BY <1>1, <1>2, <1>3, GoOnSole

\* What is recorded of a launched child tells of it.
LEMMA ToldLaunched ==
  ASSUME Ident, NEW x \in Callers, c[x].pc \in Mine, NEW f, f # Null, f.pid = c[x].pid,
         f.status \in Active, f.id \in {c[x].id, Null}
  PROVE  Told(f, proc, c[x].pid)
  BY DEF Ident, Children, Has, Told

\* Every step of a command keeps the account.
LEMMA CommandSole ==
  ASSUME Ident, Ident', Records, Sole, Reliable, NEW x \in Callers,
         Start(x) \/ Stop(x) \/ Interrupt(x)
  PROVE  Sole'
<1> USE DEF CallerAt
<1>a. {"capture", "record", "wait", "probe", "confirm", "announce", "give_up", "reap",
       "write_cleanup"} \subseteq Mine
  BY DEF Mine
<1>b. {"open", "ask", "check", "post", "await", "write_stopped"} \subseteq StopPc
  BY DEF StopPc
<1>1. c[x].pc \in Working => Account(c[x], file, proc)
  BY DEF Sole
<1>2. CASE CheckRecorded(x)
  <2>1. CASE Return(x)  BY <1>2, <2>1, EndSole DEF CheckRecorded
  <2>2. CASE FALSE \in StartBlocked /\ GoTo(x, "port") /\ UNCHANGED proc
    <3>1. ASSUME NEW p \in Pids, Serving(proc, p), Told(file, proc, p) PROVE FALSE
      <4>1. PICK rel \in {Relation(file), "unavailable"} : ~BlocksStart(file, rel)
        BY <2>2, <3>1 DEF StartBlocked, Told, Relations
      <4>2. proc[p].id # Null
        BY <3>1 DEF Ident, Apart, Serving
      <4>3. Relation(file) = IF proc[p].id = file.id THEN "match" ELSE "mismatch"
        BY <3>1 DEF Relation, Told, Serving
      <4> QED  BY <3>1, <4>1, <4>2, <4>3 DEF Told, BlocksStart
    <3> QED  BY <1>2, <2>2, <3>1, GoToSole DEF CheckRecorded
  <2> QED  BY <1>2, <2>1, <2>2 DEF CheckRecorded
<1>3. CASE CheckPort(x)
  <2>1. CASE Return(x)  BY <1>3, <2>1, EndSole DEF CheckPort
  <2>2. CASE GoTo(x, "spawn") /\ UNCHANGED proc
    BY <1>3, <2>2, GoToSole DEF CheckPort
  <2> QED  BY <1>3, <2>1, <2>2 DEF CheckPort
<1>4. ASSUME NEW p \in Pids, NEW i \in FreeIds, Spawn(x, p, i) PROVE Sole'
  <2> DEFINE r == [c[x] EXCEPT !.pc = "capture", !.pid = p, !.id = i]
             q == [id |-> i, phase |-> "booting"]
  <2>1. /\ c[x].pc = "spawn" /\ proc' = [proc EXCEPT ![p] = q]
        /\ c' = [c EXCEPT ![x] = r] /\ file' = file
    BY <1>4 DEF Spawn
  <2>2. r.pc = "capture" /\ r.pid = p
    BY DEF Ident, ServiceTypeOK, Command
  <2> HIDE DEF q, r
  <2>3. \A t \in Pids : t # p => proc'[t] = proc[t]
    BY <2>1 DEF Ident, ServiceTypeOK
  <2>4. "spawn" \in Working
    BY DEF Working, StartPc
  <2>5. Account(r, file', proc')
    BY <1>1, <2>1, <2>2, <2>3, <2>4 DEF Account, Serving, StopPc
  <2> QED  BY <2>1, <2>4, <2>5, GoOnSole
<1>5. CASE SpawnFails(x)  BY <1>5, EndSole DEF SpawnFails
<1>6. CASE Capture(x)
  <2>1. CASE GoTo(x, "reap")  BY <1>a, <1>6, <2>1, GoToSole DEF Capture
  <2>2. CASE c' = [c EXCEPT ![x] = [@ EXCEPT !.pc = "record", !.captured = TRUE]]
    <3> DEFINE r == [c[x] EXCEPT !.pc = "record", !.captured = TRUE]
    <3>1. r.pc = "record" /\ r.pid = c[x].pid
      BY DEF Ident, ServiceTypeOK, Command
    <3>2. c' = [c EXCEPT ![x] = r]
      BY <2>2
    <3> HIDE DEF r
    <3>3. Account(r, file', proc') /\ c[x].pc \in Working
      BY <1>1, <1>6, <3>1 DEF Capture, Account, Mine, StopPc, Working, StartPc
    <3> QED  BY <3>2, <3>3, GoOnSole
  <2> QED  BY <1>6, <2>1, <2>2 DEF Capture
<1>7. CASE RecordStarting(x)  BY <1>a, <1>7, GoToSole DEF RecordStarting
<1>8. CASE CheckChild(x)  BY <1>a, <1>8, GoToSole DEF CheckChild
<1>9. CASE Probe(x)
  <2>1. CASE GoTo(x, "confirm")  BY <1>a, <1>9, <2>1, GoToSole DEF Probe
  <2>2. CASE c' = [c EXCEPT ![x] = [@ EXCEPT !.pc = "wait", !.tries = c[x].tries + 1]]
    <3> DEFINE n == c[x].tries + 1
               r == [c[x] EXCEPT !.pc = "wait", !.tries = n]
    <3>1. c' = [c EXCEPT ![x] = r]
      BY <2>2
    <3> HIDE DEF n
    <3>2. r.pc = "wait" /\ r.pid = c[x].pid
      BY DEF Ident, ServiceTypeOK, Command
    <3> HIDE DEF r
    <3>3. Account(r, file', proc') /\ c[x].pc \in Working
      BY <1>1, <1>9, <3>2 DEF Probe, Account, Mine, StopPc, Working, StartPc
    <3> QED  BY <3>1, <3>3, GoOnSole
  <2> QED  BY <1>9, <2>1, <2>2 DEF Probe
<1>10. CASE Confirm(x)  BY <1>a, <1>10, GoToSole DEF Confirm
<1>11. CASE Announce(x)
  <2> DEFINE r == [c[x] EXCEPT !.pc = "returned"]
  <2>1. r.pc = "returned" /\ c' = [c EXCEPT ![x] = r]
    BY <1>11 DEF Announce, GoTo, Ident, ServiceTypeOK, Command
  <2> HIDE DEF r
  <2>2. /\ file' # Null /\ file'.pid = c[x].pid /\ file'.id = c[x].id
        /\ file'.status \in Active
    BY <1>11, LaunchedTrue DEF Announce, Launched, Active, Mine, Records, Knows
  <2>3. Told(file', proc, c[x].pid)
    BY <1>a, <1>11, <2>2, ToldLaunched DEF Announce
  <2>4. Account(r, file', proc') /\ c[x].pc \in Working
    BY <1>1, <1>11, <2>1, <2>3 DEF Announce, Account, Mine, StopPc, Working, StartPc
  <2> QED  BY <2>1, <2>4, GoOnSole
<1>12. CASE StartWriteFails(x)  BY <1>12 DEF StartWriteFails, WriteFails, Reliable
<1>13. CASE Terminate(x)
  <2>1. c[x].pc \in Mine \cap Working /\ c[x].pid \in Pids
    BY <1>13 DEF Terminate, Mine, Working, StartPc, Ident, ServiceTypeOK, Children, Command
  <2>2. proc'[c[x].pid] = Null /\ \A p \in Pids : p # c[x].pid => proc'[p] = proc[p]
    BY <1>13, <2>1 DEF Terminate, Ident, ServiceTypeOK
  <2>3. \A p \in Pids : ~Serving(proc', p)
    BY <1>1, <2>1, <2>2 DEF Account, Serving
  <2>4. PICK r : c' = [c EXCEPT ![x] = r]
    BY <1>13 DEF Terminate
  <2> QED  BY <2>1, <2>3, <2>4, GoOnSole DEF Account
<1>14. CASE Linger(x)  BY <1>a, <1>14, GoToSole DEF Linger
<1>15. CASE WriteOutcome(x)
  <2>1. Fades(proc, proc') /\ c[x].pc \in Working /\ c' = [c EXCEPT ![x] = IdleCaller]
    BY <1>15, CommandFades DEF WriteOutcome, Return, Working, StartPc
  <2>2. \A p \in Pids : Serving(proc, p) => Told(file', proc, p)
    <3>1. CASE c[x].pc = "write_failed"
      BY <1>1, <2>1, <3>1 DEF Account
    <3>2. CASE c[x].pc = "write_cleanup"
      <4>1. file' = Outcome(x)
        BY <1>15 DEF WriteOutcome, WriteFails, Reliable
      <4>2. file' # Null
        <5>1. c[x].pid # Null /\ c[x].id # Null
          BY <3>2 DEF Ident, Children, Mine
        <5> QED  BY <3>2, <4>1, <5>1, OutcomeType, RecordAssumption DEF Ident
      <4>3. file'.pid = c[x].pid /\ file'.status \in Active /\ file'.id \in {c[x].id, Null}
        BY <3>2, <4>1 DEF Outcome, Launched, Active
      <4>4. Told(file', proc, c[x].pid)
        BY <1>a, <3>2, <4>2, <4>3, ToldLaunched
      <4> QED  BY <1>a, <1>1, <2>1, <3>2, <4>4 DEF Account
    <3> QED  BY <1>15, <3>1, <3>2 DEF WriteOutcome
  <2>3. \A p \in Pids : Serving(proc', p) => Told(file', proc', p)
    BY <2>1, <2>2, FadedAccount
  <2>4. Account(IdleCaller, file', proc')
    BY <2>3 DEF Account, IdleCaller, Mine
  <2> QED  BY <2>1, <2>4, GoOnSole
<1>16. CASE Interrupt(x)  BY <1>a, <1>16, GoToSole DEF Interrupt
<1>17. CASE OpenGuard(x)  BY <1>b, <1>17, EndSole, GoToSole DEF OpenGuard, LookAgain
<1>18. CASE AskHealth(x)  BY <1>b, <1>18, EndSole, GoToSole DEF AskHealth
<1>19. CASE CheckExact(x)  BY <1>b, <1>19, EndSole, GoToSole DEF CheckExact, LookAgain
<1>20. CASE PostStop(x)
  <2>1. Fades(proc, proc') /\ file' = file /\ c[x].pc = "post"
    BY <1>20, CommandFades DEF PostStop
  <2> DEFINE t == [c[x] EXCEPT !.pc = "await"]
  <2>2. t.pc = "await" /\ IdleCaller.pc = "idle"
    BY DEF Ident, ServiceTypeOK, Command, IdleCaller
  <2>3. c' = [c EXCEPT ![x] = t] \/ c' = [c EXCEPT ![x] = IdleCaller]
    BY <1>20 DEF PostStop, GoTo
  <2> HIDE DEF t
  <2>4. PICK r : c' = [c EXCEPT ![x] = r] /\ r.pc \in {"await", "idle"}
    BY <2>2, <2>3
  <2>5. c[x].pc \in StopPc \cap Working
    BY <2>1 DEF StopPc, Working
  <2>6. Account(r, file, proc)
    BY <1>1, <2>4, <2>5 DEF Account, Mine, StopPc
  <2> QED  BY <2>1, <2>4, <2>5, <2>6, FadedAccount, GoOnSole
<1>21. CASE StopRefused(x)  BY <1>b, <1>21, EndSole, GoToSole DEF StopRefused
<1>22. CASE AwaitExit(x)  BY <1>b, <1>22, EndSole, GoToSole DEF AwaitExit
<1>23. CASE WriteStopped(x)
  <2>1. Fades(proc, proc') /\ c' = [c EXCEPT ![x] = IdleCaller] /\ c[x].pc \in StopPc \cap Working
    BY <1>23, CommandFades DEF WriteStopped, Return, StopPc, Working
  <2>2. file.id # Null /\ Gone(file, proc)
    BY <1>23 DEF WriteStopped, Ident, Failing, StopPc, Records, Knows
  <2>3. \A p \in Pids : ~Serving(proc, p)
    BY <1>1, <2>1, <2>2 DEF Account, Told, Gone, Lives, Serving
  <2>4. Account(IdleCaller, file', proc)
    BY <2>3 DEF Account
  <2> QED  BY <2>1, <2>4, FadedAccount, GoOnSole
<1> QED
  BY <1>2, <1>3, <1>4, <1>5, <1>6, <1>7, <1>8, <1>9, <1>10, <1>11, <1>12, <1>13, <1>14,
     <1>15, <1>16, <1>17, <1>18, <1>19, <1>20, <1>21, <1>22, <1>23
     DEF Start, Stop

\* Every step does.
LEMMA NextSole == Ident /\ Ident' /\ Records /\ Sole /\ Reliable /\ [ServiceNext]_serviceVars => Sole'
<1> SUFFICES ASSUME Ident, Ident', Records, Sole, Reliable, [ServiceNext]_serviceVars PROVE Sole'
  OBVIOUS
<1>1. CASE UNCHANGED serviceVars
  BY <1>1 DEF serviceVars, Sole
<1>2. CASE Machine
  <2>1. Fades(proc, proc') /\ UNCHANGED <<file, lock, c>>
    BY <1>2, MachineFades DEF Machine, Serves, Exits, OtherStarts, OtherListens, OtherExits
  <2> QED  BY <2>1, FadedAccount DEF Sole
<1>3. ASSUME NEW x \in Callers,
             BeginStart(x) \/ BeginStop(x) \/ Start(x) \/ Stop(x)
               \/ Interrupt(x) \/ Die(x) \/ Leave(x)
      PROVE  Sole'
  <2>1. CASE BeginStart(x) \/ BeginStop(x)
    <3>1. PICK s \in {"start", "open"} :
            GoTo(x, s) /\ UNCHANGED <<file, proc>> /\ lock = Null /\ lock' = x
      BY <2>1 DEF BeginStart, BeginStop
    <3> DEFINE r == [c[x] EXCEPT !.pc = s]
    <3>2. r.pc = s /\ c' = [c EXCEPT ![x] = r]
      BY <3>1 DEF GoTo, Ident, ServiceTypeOK, Command
    <3> HIDE DEF r
    <3>3. c \in [Callers -> Command] /\ \A y \in Callers : c[y].pc \notin Working
      BY <3>1, SupervisorAssumption DEF Ident, ServiceTypeOK, Working
    <3>4. c'[x] = r /\ \A y \in Callers : y # x => c'[y].pc \notin Working
      BY <3>2, <3>3
    <3>5. Account(r, file', proc')
      BY <3>1, <3>2 DEF Sole, Account, Mine
    <3> QED  BY <3>1, <3>4, <3>5, SupervisorAssumption DEF Sole
  <2>2. CASE Start(x) \/ Stop(x) \/ Interrupt(x)
    BY <2>2, CommandSole
  <2>3. CASE Die(x)
    BY <2>3 DEF Die, Reliable
  <2>4. CASE Leave(x)
    <3>1. Fades(proc, proc') /\ UNCHANGED <<file, lock>> /\ c' = [c EXCEPT ![x] = IdleCaller]
      BY <2>4, CommandFades DEF Leave
    <3>2. \A y \in Callers : c'[y].pc \in Working => c'[y] = c[y]
      <4>1. IdleCaller.pc \notin Working
        BY DEF IdleCaller, Working, StartPc, StopPc
      <4> QED  BY <3>1, <4>1 DEF Ident, ServiceTypeOK
    <3>3. \A y \in Callers : c'[y].pc \in Working => Account(c'[y], file', proc')
      BY <3>1, <3>2, FadedAccount DEF Sole
    <3>4. lock' = Null => \A p \in Pids : Serving(proc', p) => Told(file', proc', p)
      BY <3>1, FadedAccount DEF Sole
    <3> QED  BY <3>3, <3>4 DEF Sole
  <2> QED  BY <1>3, <2>1, <2>2, <2>3, <2>4
<1> QED  BY <1>1, <1>2, <1>3 DEF ServiceNext

\* Hence always, while commands are not killed and writes do not fail.
LEMMA SoleAlways == ServiceSpec => [](Reliable => Ident /\ Sole)
<1>1. ServiceInit => Sole
  BY DEF ServiceInit, Sole, Serving, IdleCaller, Working, StartPc, StopPc
<1>2. Ident /\ Records /\ (Reliable => Sole) /\ [ServiceNext]_serviceVars => (Reliable => Sole)'
  BY NextSole, NextIdent DEF Reliable
<1>3. Ident /\ Records /\ [ServiceNext]_serviceVars => (Ident /\ Records)'
  BY NextIdent, NextRecords
<1> QED  BY <1>1, <1>2, <1>3, InitIdent, InitRecords, PTL DEF ServiceSpec

\* Who answers for a service.
LEMMA SoleMeans ==
  ASSUME Ident, Sole, NEW p \in Pids, Service(p)
  PROVE  \/ Told(file, proc, p)
         \/ \E x \in Callers : lock = x /\ c[x].pid = p
<1>1. Serving(proc, p)
  BY DEF Service, Phased, Serving
<1>2. CASE lock = Null
  BY <1>1, <1>2 DEF Sole
<1>3. CASE lock # Null
  <2>1. PICK x \in Callers : lock = x
    BY <1>3 DEF Ident, ServiceTypeOK
  <2>2. c[x].pc \in Working /\ Account(c[x], file, proc)
    BY <2>1 DEF Ident, ServiceTypeOK, Sole, Working
  <2> QED  BY <1>1, <2>1, <2>2 DEF Account, Working, StartPc, Mine
<1> QED  BY <1>2, <1>3

\* A service that runs is never forgotten: service.json names it as active, or
\* the command that launched it is still at work (start_service's except blocks).
THEOREM NobodyIsForgotten == ServiceSpec => []NobodyForgotten
<1>1. (Reliable => Ident /\ Sole) => NobodyForgotten
  BY SoleMeans DEF NobodyForgotten, Told
<1> QED  BY <1>1, SoleAlways, PTL

\* Hence a home never has two services that run (_existing_state_blocks_start).
THEOREM ServicesAreSingle == ServiceSpec => []OneService
<1>1. ASSUME Reliable, Ident, Sole PROVE Cardinality({p \in Pids : Service(p)}) <= 1
  <2>1. ASSUME NEW p \in Pids, NEW q \in Pids, Service(p), Service(q) PROVE p = q
    <3>1. Serving(proc, p) /\ Serving(proc, q)
      BY <2>1 DEF Service, Phased, Serving
    <3>2. CASE lock = Null
      BY <1>1, <3>1, <3>2 DEF Sole, Told
    <3>3. CASE lock # Null
      <4>1. PICK x \in Callers : lock = x
        BY <1>1, <3>3 DEF Ident, ServiceTypeOK
      <4>2. c[x].pc \in Working /\ Account(c[x], file, proc)
        BY <1>1, <4>1 DEF Ident, ServiceTypeOK, Sole, Working
      <4> QED  BY <3>1, <4>2 DEF Account, Working, StartPc, Mine, Told
    <3> QED  BY <3>2, <3>3
  <2>2. CASE {p \in Pids : Service(p)} = {}
    BY <2>2, FS_EmptySet
  <2>3. CASE {p \in Pids : Service(p)} # {}
    <3>1. PICK p \in Pids : {q \in Pids : Service(q)} = {p}
      BY <2>1, <2>3
    <3>2. Cardinality({p}) = 1
      BY FS_Singleton
    <3>3. Cardinality({q \in Pids : Service(q)}) = 1
      BY <3>1, <3>2
    <3> QED  BY <3>3
  <2> QED  BY <2>2, <2>3
<1>2. (Reliable => Ident /\ Sole) => OneService
  BY <1>1 DEF OneService
<1> QED  BY <1>2, SoleAlways, PTL

----------------------------------------------------------------------------
\* A service lives as its operator is told

\* Who serves has the port.
PortHeld == \A p \in Pids : Phased(p) \in {"serving", "closing"} => port = p

\* No service begins, changes or ends.
Quiet == \A p \in Pids : Serving(proc, p) \/ Serving(proc', p) => proc'[p] = proc[p]

\* Waiting for a child that has exited ends no service.
LEMMA OrphanedQuiet ==
  ASSUME Ident, NEW x \in Callers, UNCHANGED proc \/ proc' = Orphaned(x)
  PROVE  Quiet
  BY DEF Ident, ServiceTypeOK, Orphaned, Phased, Quiet, Serving

\* A request reaches a service that serves, and changes its phase alone.
LEMMA PostMeans ==
  ASSUME Ident, NEW x \in Callers, PostStop(x)
  PROVE  /\ UNCHANGED <<file, port>>
         /\ port \in Pids /\ proc[port] # Null /\ proc[port].phase = "serving"
         /\ file # Null /\ proc[port].id = file.id
         /\ proc'[port] = [proc[port] EXCEPT !.phase = "closing"]
         /\ proc'[port].id = proc[port].id /\ proc'[port].phase = "closing"
         /\ proc'[port] # Null
         /\ \A p \in Pids : p # port => proc'[p] = proc[p]
<1>1. /\ c[x].pc = "post" /\ UNCHANGED <<file, port>>
      /\ port \in Pids /\ proc[port] # Null /\ proc[port].phase = "serving"
      /\ proc[port].id = file.id
  BY DEF PostStop, CallerAt, Accepts, Phased, Ident, ServiceTypeOK
<1>2. file # Null /\ c[x].pid = Null
  BY <1>1 DEF Ident, Failing, StopPc, Children, Mine
<1>3. proc \in [Pids -> Process \cup {Null}]
  BY DEF Ident, ServiceTypeOK
<1>4. Orphaned(x) = [p \in Pids |-> proc[p]]
  BY <1>2, SupervisorAssumption DEF Orphaned
<1> DEFINE q == [proc[port] EXCEPT !.phase = "closing"]
<1>5. proc' = [proc EXCEPT ![port] = q]
  BY <1>3, <1>4 DEF PostStop
<1>6. q \in Process /\ q # Null /\ q.id = proc[port].id /\ q.phase = "closing"
  BY <1>1, <1>3, RecordAssumption DEF Process, Phase
<1> HIDE DEF q
<1>7. proc'[port] = q /\ \A p \in Pids : p # port => proc'[p] = proc[p]
  BY <1>1, <1>3, <1>5
<1> QED  BY <1>1, <1>2, <1>6, <1>7 DEF q

\* Where a child that is waited for was, there is nobody.
LEMMA TerminateMeans ==
  ASSUME Ident, NEW x \in Callers, Terminate(x)
  PROVE  /\ file' = file /\ port' = Freed(c[x].pid)
         /\ c[x].pid \in Pids /\ proc[c[x].pid] # Null /\ proc'[c[x].pid] = Null
         /\ \A p \in Pids : p # c[x].pid => proc'[p] = proc[p]
<1>1. c[x].pc \in Mine
  BY DEF Terminate, CallerAt, Mine
<1>2. c[x].pid \in Pids /\ proc[c[x].pid] # Null
  BY <1>1 DEF Ident, ServiceTypeOK, Children, Command, Has
<1> QED  BY <1>2 DEF Terminate, Ident, ServiceTypeOK

\* A launch puts a service where nobody was.
LEMMA SpawnMeans ==
  ASSUME Ident, NEW x \in Callers, NEW p \in Pids, NEW i \in FreeIds, Spawn(x, p, i)
  PROVE  /\ UNCHANGED <<file, port>> /\ proc[p] = Null
         /\ proc'[p] = [id |-> i, phase |-> "booting"] /\ proc'[p] # Null
         /\ \A q \in Pids : q # p => proc'[q] = proc[q]
<1>1. [id |-> i, phase |-> "booting"] \in Process
  BY DEF FreeIds, Process, Phase
<1> QED  BY <1>1, RecordAssumption DEF Spawn, Ident, ServiceTypeOK

\* Every other step of a command leaves the services alone.
LEMMA CommandQuiet ==
  ASSUME Ident, NEW x \in Callers,
         BeginStart(x) \/ BeginStop(x) \/ Start(x) \/ Stop(x) \/ Interrupt(x) \/ Die(x) \/ Leave(x),
         ~Terminate(x), ~PostStop(x), ~ \E p \in Pids, i \in FreeIds : Spawn(x, p, i)
  PROVE  Quiet /\ port' = port
<1>1. (UNCHANGED proc \/ proc' = Orphaned(x)) /\ port' = port
  BY DEF BeginStart, BeginStop, Start, Stop, CheckRecorded, CheckPort, SpawnFails, Capture,
         RecordStarting, CheckChild, Probe, Confirm, Announce, StartWriteFails, Linger,
         WriteOutcome, OpenGuard, AskHealth, CheckExact, LookAgain, StopRefused, AwaitExit,
         WriteStopped, Interrupt, Die, Leave, Return
<1> QED  BY <1>1, OrphanedQuiet

\* What the machine does to a process.
LEMMA MachineMeans ==
  ASSUME Ident, NEW p \in Pids,
         Serves(p) \/ Exits(p) \/ OtherStarts(p) \/ OtherListens(p) \/ OtherExits(p)
  PROVE  /\ file' = file
         /\ \A q \in Pids : q # p => proc'[q] = proc[q]
         /\ Serves(p) => /\ proc[p] # Null /\ proc[p].phase = "booting"
                         /\ proc'[p] # Null /\ proc'[p].id = proc[p].id
                         /\ proc'[p].phase = "serving"
         /\ Exits(p) => proc[p] # Null /\ Serving(proc, p) /\ ~Serving(proc', p)
         /\ ~Serves(p) /\ ~Exits(p) => Quiet /\ ~Serving(proc', p)
<1>0. proc \in [Pids -> Process \cup {Null}]
  BY DEF Ident, ServiceTypeOK
<1>a. \A f \in Phase : proc[p] # Null =>
        /\ [proc[p] EXCEPT !.phase = f] \in Process
        /\ [proc[p] EXCEPT !.phase = f].id = proc[p].id
        /\ [proc[p] EXCEPT !.phase = f].phase = f
  BY <1>0 DEF Process
<1>b. {"serving", "exited", "other"} \subseteq Phase
        /\ {"exited", "other"} \cap {"booting", "serving", "closing"} = {}
  BY DEF Phase
<1>1. file' = file /\ \A q \in Pids : q # p => proc'[q] = proc[q]
  BY <1>0 DEF Serves, Exits, OtherStarts, OtherListens, OtherExits
<1>2. ASSUME Serves(p)
      PROVE  /\ proc[p] # Null /\ proc[p].phase = "booting"
             /\ proc'[p] # Null /\ proc'[p].id = proc[p].id /\ proc'[p].phase = "serving"
  <2>1. proc[p] # Null /\ proc[p].phase = "booting" /\ proc' = [proc EXCEPT ![p].phase = "serving"]
    BY <1>2 DEF Serves, Phased
  <2>2. proc'[p] = [proc[p] EXCEPT !.phase = "serving"]
    BY <1>0, <2>1
  <2>3. proc'[p] \in Process /\ proc'[p].id = proc[p].id /\ proc'[p].phase = "serving"
    BY <1>a, <1>b, <2>1, <2>2
  <2>4. proc'[p] # Null
    BY <2>3, RecordAssumption
  <2> QED  BY <2>1, <2>3, <2>4
<1>3. ASSUME Exits(p)
      PROVE  proc[p] # Null /\ Serving(proc, p) /\ ~Serving(proc', p)
  <2>1. proc[p] # Null /\ Serving(proc, p)
    BY <1>3 DEF Exits, Service, Phased, Serving
  <2>2. ~Serving(proc', p)
    BY <1>0, <1>3, <1>a, <1>b, <2>1 DEF Exits, Serving
  <2> QED  BY <2>1, <2>2
<1>4. ASSUME ~Serves(p), ~Exits(p) PROVE Quiet /\ ~Serving(proc', p)
  <2>1. ~Serving(proc, p) /\ ~Serving(proc', p)
    BY <1>0, <1>4 DEF OtherStarts, OtherListens, OtherExits, Serving, Phased
  <2> QED  BY <1>1, <2>1 DEF Quiet
<1> QED  BY <1>1, <1>2, <1>3, <1>4

\* Every step keeps the port with who serves.
LEMMA NextPort == Ident /\ PortHeld /\ [ServiceNext]_serviceVars => PortHeld'
<1> SUFFICES ASSUME Ident, PortHeld, [ServiceNext]_serviceVars PROVE PortHeld'
  OBVIOUS
<1> DEFINE Holds(P, p) == P[p] # Null /\ P[p].phase \in {"serving", "closing"}
<1>a. /\ \A p \in Pids : Holds(proc, p) => port = p
      /\ (\A p \in Pids : Holds(proc', p) => port' = p) => PortHeld'
  BY DEF PortHeld, Phased
<1>b. \A p \in Pids : Holds(proc', p) => Serving(proc', p)
  BY DEF Serving
<1>c. ASSUME Quiet, port' = port PROVE PortHeld'
  BY <1>a, <1>b, <1>c DEF Quiet
<1>1. CASE UNCHANGED serviceVars
  BY <1>1 DEF serviceVars, PortHeld, Phased
<1>2. ASSUME NEW p \in Pids,
             Serves(p) \/ Exits(p) \/ OtherStarts(p) \/ OtherListens(p) \/ OtherExits(p)
      PROVE  PortHeld'
  <2>0. \A q \in Pids : q # p => proc'[q] = proc[q]
    BY <1>2, MachineMeans
  <2>1. CASE Serves(p)
    <3>1. \A q \in Pids : ~Holds(proc, q)
      BY <1>a, <2>1, SupervisorAssumption DEF Serves
    <3> QED  BY <1>a, <2>0, <2>1, <3>1 DEF Serves
  <2>2. CASE Exits(p)
    <3>1. ~Holds(proc', p)
      BY <1>b, <2>2, MachineMeans
    <3> QED  BY <1>a, <2>0, <2>2, <3>1 DEF Exits, Freed
  <2>3. CASE OtherListens(p)
    <3>1. \A q \in Pids : ~Holds(proc, q)
      BY <1>a, <2>3, SupervisorAssumption DEF OtherListens
    <3> QED  BY <1>a, <2>3, <3>1 DEF OtherListens
  <2>4. CASE ~Serves(p) /\ ~Exits(p) /\ ~OtherListens(p)
    <3>1. ~Holds(proc', p) /\ port' \in {port, Freed(p)}
      BY <1>2, <1>b, <2>4, MachineMeans DEF OtherStarts, OtherExits
    <3> QED  BY <1>a, <2>0, <3>1 DEF Freed
  <2> QED  BY <2>1, <2>2, <2>3, <2>4
<1>3. ASSUME NEW x \in Callers,
             BeginStart(x) \/ BeginStop(x) \/ Start(x) \/ Stop(x)
               \/ Interrupt(x) \/ Die(x) \/ Leave(x)
      PROVE  PortHeld'
  <2>1. CASE Terminate(x)
    BY <1>a, <2>1, TerminateMeans DEF Freed
  <2>2. CASE PostStop(x)
    BY <1>a, <2>2, PostMeans
  <2>3. ASSUME NEW p \in Pids, NEW i \in FreeIds, Spawn(x, p, i) PROVE PortHeld'
    <3>1. port' = port /\ proc'[p] = [id |-> i, phase |-> "booting"]
            /\ \A q \in Pids : q # p => proc'[q] = proc[q]
      BY <2>3, SpawnMeans
    <3>2. ~Holds(proc', p)
      BY <3>1
    <3> QED  BY <1>a, <3>1, <3>2
  <2>4. CASE ~Terminate(x) /\ ~PostStop(x) /\ ~ \E p \in Pids, i \in FreeIds : Spawn(x, p, i)
    BY <1>3, <1>c, <2>4, CommandQuiet
  <2> QED  BY <2>1, <2>2, <2>3, <2>4
<1> QED  BY <1>1, <1>2, <1>3 DEF ServiceNext, Machine

\* Hence always.
LEMMA PortAlways == ServiceSpec => [](Ident /\ Records /\ PortHeld)
<1>1. ServiceInit => PortHeld
  BY DEF ServiceInit, PortHeld, Phased
<1> QED  BY <1>1, NextPort, RecordsAlways, PTL DEF ServiceSpec

\* Where a service is in its life ...
LEMMA LifeIs ==
  ASSUME Ident, NEW i \in Ids
  PROVE  /\ \A p \in Pids : Serving(proc, p) /\ proc[p].id = i => LifeOf(i) = proc[p].phase
         /\ (\A p \in Pids : Serving(proc, p) => proc[p].id # i) => LifeOf(i) = "gone"
<1>1. \A p \in Pids : p \in Bearers(i) <=> Serving(proc, p) /\ proc[p].id = i
  BY DEF Bearers, Has, Service, Phased, Serving
<1>2. ASSUME NEW p \in Pids, Serving(proc, p), proc[p].id = i
      PROVE  LifeOf(i) = proc[p].phase
  <2>1. Bearers(i) = {p}
    BY <1>1, <1>2, SupervisorAssumption DEF Ident, Apart, Bearers, Serving
  <2> QED  BY <2>1 DEF LifeOf
<1>3. ASSUME \A p \in Pids : Serving(proc, p) => proc[p].id # i
      PROVE  LifeOf(i) = "gone"
  <2>1. Bearers(i) = {}
    BY <1>1, <1>3 DEF Bearers
  <2> QED  BY <2>1 DEF LifeOf
<1> QED  BY <1>2, <1>3

\* ... and where it is after the step.
LEMMA LifeWill ==
  ASSUME Ident', NEW i \in Ids
  PROVE  /\ \A p \in Pids : Serving(proc', p) /\ proc'[p].id = i => LifeOf(i)' = proc'[p].phase
         /\ (\A p \in Pids : Serving(proc', p) => proc'[p].id # i) => LifeOf(i)' = "gone"
<1>1. \A p \in Pids : p \in Bearers(i)' <=> Serving(proc', p) /\ proc'[p].id = i
  BY DEF Bearers, Has, Service, Phased, Serving
<1>2. ASSUME NEW p \in Pids, Serving(proc', p), proc'[p].id = i
      PROVE  LifeOf(i)' = proc'[p].phase
  <2>1. Bearers(i)' = {p}
    BY <1>1, <1>2, SupervisorAssumption DEF Ident, Apart, Bearers, Serving
  <2> QED  BY <2>1 DEF LifeOf
<1>3. ASSUME \A p \in Pids : Serving(proc', p) => proc'[p].id # i
      PROVE  LifeOf(i)' = "gone"
  <2>1. Bearers(i)' = {}
    BY <1>1, <1>3 DEF Bearers
  <2> QED  BY <2>1 DEF LifeOf
<1> QED  BY <1>2, <1>3

\* A step that begins, changes and ends no service changes no life.
LEMMA LivesStay ==
  ASSUME Ident, Ident', Quiet
  PROVE  Lifes' = Lifes
<1>1. ASSUME NEW i \in Ids PROVE LifeOf(i)' = LifeOf(i)
  <2>1. CASE \E p \in Pids : Serving(proc, p) /\ proc[p].id = i
    <3>1. PICK p \in Pids : Serving(proc, p) /\ proc[p].id = i
      BY <2>1
    <3>2. proc'[p] = proc[p] /\ Serving(proc', p)
      BY <3>1 DEF Quiet, Serving
    <3> QED  BY <3>1, <3>2, LifeIs, LifeWill
  <2>2. CASE \A p \in Pids : Serving(proc, p) => proc[p].id # i
    <3>1. \A p \in Pids : Serving(proc', p) => proc'[p].id # i
      BY <2>2 DEF Quiet, Serving
    <3> QED  BY <2>2, <3>1, LifeIs, LifeWill
  <2> QED  BY <2>1, <2>2
<1> QED  BY <1>1 DEF Lifes

\* A step of one process changes one life.
LEMMA OneLife ==
  ASSUME Ident, Ident', NEW p \in Pids, NEW i \in Ids,
         \A q \in Pids : q # p => proc'[q] = proc[q] /\ (Serving(proc, q) => proc[q].id # i),
         Serving(proc, p) => proc[p].id = i, Serving(proc', p) => proc'[p].id = i,
         NEW to, Serving(proc', p) => to = proc'[p].phase,
         ~Serving(proc', p) => to = "gone"
  PROVE  Lifes' = [Lifes EXCEPT ![i] = to]
<1>0. \A q \in Pids : q # p => (Serving(proc', q) <=> Serving(proc, q))
  BY DEF Serving
<1>1. LifeOf(i)' = to
  <2>1. CASE Serving(proc', p)
    BY <2>1, LifeWill
  <2>2. CASE ~Serving(proc', p)
    <3>1. \A q \in Pids : Serving(proc', q) => proc'[q].id # i
      BY <1>0, <2>2
    <3> QED  BY <2>2, <3>1, LifeWill
  <2> QED  BY <2>1, <2>2
<1>2. ASSUME NEW j \in Ids, j # i PROVE LifeOf(j)' = LifeOf(j)
  <2>1. CASE \E q \in Pids : Serving(proc, q) /\ proc[q].id = j
    <3>1. PICK q \in Pids : Serving(proc, q) /\ proc[q].id = j
      BY <2>1
    <3>2. proc'[q] = proc[q] /\ Serving(proc', q)
      BY <1>0, <1>2, <3>1
    <3> QED  BY <3>1, <3>2, LifeIs, LifeWill
  <2>2. CASE \A q \in Pids : Serving(proc, q) => proc[q].id # j
    <3>1. \A q \in Pids : Serving(proc', q) => proc'[q].id # j
      BY <1>0, <1>2, <2>2
    <3> QED  BY <2>2, <3>1, LifeIs, LifeWill
  <2> QED  BY <2>1, <2>2
<1> QED  BY <1>1, <1>2 DEF Lifes

\* Who serves has one of the launched identities, and nobody else has it.
LEMMA Bearer ==
  ASSUME Ident, NEW p \in Pids, Serving(proc, p)
  PROVE  /\ proc[p].id \in Ids /\ Lifes[proc[p].id] = proc[p].phase
         /\ \A q \in Pids : q # p /\ Serving(proc, q) => proc[q].id # proc[p].id
<1>1. proc[p].id \in Ids
  BY DEF Ident, ServiceTypeOK, Apart, Process, Serving
<1>2. \A q \in Pids : q # p /\ Serving(proc, q) => proc[q].id # proc[p].id
  BY <1>1, SupervisorAssumption DEF Ident, Apart, Serving
<1>3. LifeOf(proc[p].id) = proc[p].phase
  BY <1>1, LifeIs
<1> QED  BY <1>1, <1>2, <1>3 DEF Lifes

\* A service of ServiceLife runs when its process does.
LEMMA RunsIs ==
  ASSUME Ident
  PROVE  /\ \A i : Life!Runs(i) <=> i \in Ids /\ Lives(proc, i)
         /\ ~Life!Runs(Null)
         /\ Gone(file, proc) => ~Life!Runs(Said.id)
<1>1. ASSUME NEW i \in Ids PROVE Lifes[i] # "gone" <=> Lives(proc, i)
  <2>1. Lifes[i] = LifeOf(i)
    BY DEF Lifes
  <2>2. CASE \E p \in Pids : Serving(proc, p) /\ proc[p].id = i
    <3>1. PICK p \in Pids : Serving(proc, p) /\ proc[p].id = i
      BY <2>2
    <3> QED  BY <2>1, <3>1, LifeIs DEF Lives, Serving
  <2>3. CASE \A p \in Pids : Serving(proc, p) => proc[p].id # i
    BY <2>1, <2>3, LifeIs DEF Lives, Serving
  <2> QED  BY <2>2, <2>3
<1>2. \A i : Life!Runs(i) <=> i \in Ids /\ Lives(proc, i)
  BY <1>1 DEF Life!Runs
<1>3. ~Life!Runs(Null)
  BY <1>2, SupervisorAssumption
<1>4. Gone(file, proc) => ~Life!Runs(Said.id)
  BY <1>2, <1>3 DEF Gone, Said
<1> QED  BY <1>2, <1>3, <1>4

\* A service gets the port when nobody has it, and ends by itself.
LEMMA MachineLives ==
  ASSUME Ident, Ident', PortHeld, NEW p \in Pids,
         Serves(p) \/ Exits(p) \/ OtherStarts(p) \/ OtherListens(p) \/ OtherExits(p)
  PROVE  [Life!Next]_<<Lifes, Said>>
<1>0. Said' = Said /\ \A q \in Pids : q # p => proc'[q] = proc[q]
  BY MachineMeans DEF Said
<1>1. CASE Serves(p)
  <2>1. /\ proc[p] # Null /\ proc[p].phase = "booting"
        /\ proc'[p] # Null /\ proc'[p].id = proc[p].id /\ proc'[p].phase = "serving"
    BY <1>1, MachineMeans
  <2>2. Serving(proc, p) /\ Serving(proc', p)
    BY <2>1 DEF Serving
  <2>3. proc[p].id \in Ids /\ Lifes[proc[p].id] = "booting"
          /\ Lifes' = [Lifes EXCEPT ![proc[p].id] = "serving"]
    BY <1>0, <2>1, <2>2, Bearer, OneLife
  <2>4. \A j \in Ids : Lifes[j] \notin {"serving", "closing"}
    <3> SUFFICES ASSUME NEW j \in Ids PROVE LifeOf(j) \notin {"serving", "closing"}
      BY DEF Lifes
    <3>1. \A q \in Pids : proc[q] # Null => proc[q].phase \notin {"serving", "closing"}
      BY <1>1, SupervisorAssumption DEF Serves, PortHeld, Phased
    <3> QED  BY <3>1, LifeIs DEF Serving
  <2>5. Life!Serve(proc[p].id)
    BY <1>0, <2>3, <2>4 DEF Life!Serve, Life!Becomes
  <2> QED  BY <2>3, <2>5 DEF Life!Next
<1>2. CASE Exits(p)
  <2>1. Serving(proc, p) /\ ~Serving(proc', p)
    BY <1>2, MachineMeans
  <2>2. proc[p].id \in Ids /\ Lifes[proc[p].id] = proc[p].phase
          /\ Lifes' = [Lifes EXCEPT ![proc[p].id] = "gone"]
    BY <1>0, <2>1, Bearer, OneLife
  <2>3. Life!End(proc[p].id)
    BY <1>0, <2>1, <2>2 DEF Life!End, Life!Becomes, Serving
  <2> QED  BY <2>2, <2>3 DEF Life!Next
<1>3. CASE ~Serves(p) /\ ~Exits(p)
  BY <1>0, <1>3, MachineMeans, LivesStay
<1> QED  BY <1>1, <1>2, <1>3

\* A launch is one: the recorded service does not run, and while commands are not
\* killed and writes do not fail, nobody does.
LEMMA SpawnLives ==
  ASSUME Ident, Ident', Records, Reliable => Sole,
         NEW x \in Callers, NEW p \in Pids, NEW i \in FreeIds, Spawn(x, p, i)
  PROVE  Life!Launch(i)
<1>1. /\ file' = file /\ proc[p] = Null /\ c[x].pc = "spawn" /\ i \in Ids
      /\ proc'[p] # Null /\ proc'[p].id = i /\ proc'[p].phase = "booting"
      /\ \A q \in Pids : q # p => proc'[q] = proc[q]
      /\ \A q \in Pids : proc[q] # Null => proc[q].id # i
      /\ file # Null => file.id # i
  <2>1. /\ file' = file /\ proc[p] = Null /\ proc'[p] # Null
        /\ proc'[p] = [id |-> i, phase |-> "booting"]
        /\ \A q \in Pids : q # p => proc'[q] = proc[q]
    BY SpawnMeans
  <2>2. c[x].pc = "spawn"
    BY DEF Spawn, CallerAt
  <2>3. /\ i \in Ids /\ (file # Null => file.id # i)
        /\ \A q \in Pids : proc[q] # Null => proc[q].id # i
    BY DEF FreeIds
  <2> QED  BY <2>1, <2>2, <2>3
<1>2. Gone(file, proc)
  BY <1>1 DEF Records, Knows
<1>3. Lifes[i] = "gone"
  BY <1>1, LifeIs DEF Lifes, Serving
<1>4. Lifes' = [Lifes EXCEPT ![i] = "booting"]
  BY <1>1, OneLife DEF Serving
<1>5. i # Said.id /\ Said' = Said
  BY <1>1, SupervisorAssumption DEF Said
<1>6. Reliable => \A j \in Ids : ~Life!Runs(j)
  <2> SUFFICES ASSUME Reliable PROVE \A q \in Pids : ~Serving(proc, q)
    BY RunsIs DEF Lives, Serving
  <2>1. Account(c[x], file, proc)
    BY <1>1 DEF Sole, Working, StartPc
  <2> QED  BY <1>1, <2>1 DEF Account
<1> QED  BY <1>1, <1>2, <1>3, <1>4, <1>5, <1>6, RunsIs DEF Life!Launch, Life!Becomes

\* Who waits for its child sees it end, or it had.
LEMMA TerminateLives ==
  ASSUME Ident, Ident', NEW x \in Callers, Terminate(x)
  PROVE  [Life!Next]_<<Lifes, Said>>
<1> DEFINE p == c[x].pid
<1>1. /\ Said' = Said /\ p \in Pids /\ ~Serving(proc', p)
      /\ \A q \in Pids : q # p => proc'[q] = proc[q]
  BY TerminateMeans DEF Said, Serving
<1> HIDE DEF p
<1>2. CASE Serving(proc, p)
  <2>1. proc[p].id \in Ids /\ Lifes[proc[p].id] = proc[p].phase
          /\ Lifes' = [Lifes EXCEPT ![proc[p].id] = "gone"]
    BY <1>1, <1>2, Bearer, OneLife
  <2>2. Life!End(proc[p].id)
    BY <1>1, <1>2, <2>1 DEF Life!End, Life!Becomes, Serving
  <2> QED  BY <2>1, <2>2 DEF Life!Next
<1>3. CASE ~Serving(proc, p)
  <2>1. Quiet
    BY <1>1, <1>3 DEF Quiet
  <2> QED  BY <1>1, <2>1, LivesStay
<1> QED  BY <1>2, <1>3

\* A request that is accepted closes the recorded service.
LEMMA PostLives ==
  ASSUME Ident, Ident', NEW x \in Callers, PostStop(x)
  PROVE  [Life!Next]_<<Lifes, Said>>
<1>1. Said' = Said /\ Said.id = proc[port].id
  BY PostMeans DEF Said
<1>2. port \in Pids /\ Serving(proc, port) /\ Serving(proc', port)
  BY PostMeans DEF Serving
<1>3. proc[port].id \in Ids /\ Lifes[proc[port].id] = "serving"
        /\ Lifes' = [Lifes EXCEPT ![proc[port].id] = "closing"]
  BY <1>2, PostMeans, Bearer, OneLife
<1>4. Life!Close(proc[port].id)
  BY <1>1, <1>3 DEF Life!Close, Life!Becomes
<1> QED  BY <1>3, <1>4 DEF Life!Next

\* What may be written of a launched child.
LEMMA WriteLives ==
  ASSUME Ident, Lifes' = Lifes, NEW f \in Record, file' = f,
         (file = Null \/ f.id # file.id) => Gone(file, proc),
         FileTrue(f, proc),
         f.status \in {"stopped", "failed"} => file # Null /\ f.id = file.id
  PROVE  [Life!Next]_<<Lifes, Said>>
<1>1. f # Null /\ f.id \in Ids \cup {Null} /\ f.status \in Life!Says
  BY RecordAssumption DEF Record, Active, Life!Says
<1>2. Said' = [id |-> f.id, status |-> f.status]
  BY <1>1 DEF Said
<1>3. f.id # Said.id => ~Life!Runs(Said.id)
  BY RunsIs DEF Said
<1>4. f.status = "running" => f.id \in Ids /\ Lifes[f.id] # "booting"
  <2> SUFFICES ASSUME f.status = "running" PROVE f.id \in Ids /\ Lifes[f.id] # "booting"
    OBVIOUS
  <2>1. f.id \in Ids
    BY <1>1 DEF FileTrue
  <2>2. \A p \in Pids : Serving(proc, p) /\ proc[p].id = f.id => proc[p].phase # "booting"
    BY <1>1, <2>1, SupervisorAssumption DEF FileTrue, Serving
  <2> QED  BY <2>1, <2>2, LifeIs DEF Lifes
<1>5. f.status \in {"stopped", "failed"} => f.id = Said.id /\ ~Life!Runs(f.id)
  BY <1>1, RunsIs DEF FileTrue, Said
<1>6. f.id = Null => f.status = "cleanup_failed"
  BY <1>1 DEF FileTrue
<1>7. Life!Write(f.id, f.status)
  BY <1>2, <1>3, <1>4, <1>5, <1>6 DEF Life!Write
<1> QED  BY <1>1, <1>7 DEF Life!Next

\* Every step of a command is one of a service's life, a write, or none of both.
LEMMA CommandLives ==
  ASSUME Ident, Ident', Records, Reliable => Sole, NEW x \in Callers,
         BeginStart(x) \/ BeginStop(x) \/ Start(x) \/ Stop(x) \/ Interrupt(x) \/ Die(x) \/ Leave(x)
  PROVE  [Life!Next]_<<Lifes, Said>>
<1>1. CASE \E p \in Pids, i \in FreeIds : Spawn(x, p, i)
  <2>1. PICK p \in Pids, i \in FreeIds : Spawn(x, p, i)
    BY <1>1
  <2> QED  BY <2>1, SpawnLives DEF Life!Next, FreeIds
<1>2. CASE Terminate(x)  BY <1>2, TerminateLives
<1>3. CASE PostStop(x)  BY <1>3, PostLives
<1>4. ASSUME ~Terminate(x), ~PostStop(x), ~ \E p \in Pids, i \in FreeIds : Spawn(x, p, i)
      PROVE  [Life!Next]_<<Lifes, Said>>
  <2>1. Lifes' = Lifes
    BY <1>4, CommandQuiet, LivesStay
  <2>2. Knows(c[x], file, proc) /\ file \in Record \cup {Null}
    BY DEF Records, Ident, ServiceTypeOK
  <2>3. CASE file' = file
    BY <2>1, <2>3 DEF Said
  <2>4. CASE file' # file
    <3>1. RecordStarting(x) \/ Announce(x) \/ StartWriteFails(x) \/ WriteOutcome(x) \/ WriteStopped(x)
      BY <1>4, <2>4 DEF BeginStart, BeginStop, Start, Stop, CheckRecorded, CheckPort, SpawnFails,
         Capture, CheckChild, Probe, Confirm, Linger, OpenGuard, AskHealth,
         CheckExact, LookAgain, StopRefused, AwaitExit, Interrupt, Die, Leave
    <3>2. ASSUME NEW s \in {"starting", "running"}, file' = Launched(x, s),
                 s = "starting" => c[x].pc = "record", s = "running" => c[x].pc = "announce"
          PROVE  [Life!Next]_<<Lifes, Said>>
      <4>1. c[x].pc \in Mine
        BY <3>2 DEF Mine
      <4>2. Launched(x, s) \in Record /\ Launched(x, s).status = s
        BY <4>1, RecordType DEF Ident, Children, Active, Launched
      <4>3. FileTrue(Launched(x, s), proc) /\ Launched(x, s).id = c[x].id
        BY <2>2, <3>2, <4>1, LaunchedTrue DEF Knows
      <4>4. file = Null \/ c[x].id # file.id => Gone(file, proc)
        BY <2>2, <3>2 DEF Knows, Ident, Naming, Named
      <4> QED  BY <2>1, <3>2, <4>2, <4>3, <4>4, WriteLives
    <3>3. CASE RecordStarting(x)
      BY <3>2, <3>3 DEF RecordStarting, CallerAt
    <3>4. CASE Announce(x)
      BY <3>2, <3>4 DEF Announce, CallerAt
    <3>5. CASE StartWriteFails(x)
      BY <2>4, <3>2, <3>5 DEF StartWriteFails, WriteFails, CallerAt
    <3>6. CASE WriteOutcome(x)
      <4>1. file' = Outcome(x)
        BY <2>4, <3>6 DEF WriteOutcome, WriteFails
      <4>2. Outcome(x) \in Record
        BY <3>6, OutcomeType DEF WriteOutcome, Ident, Failing, Children, CallerAt, Mine
      <4>3. FileTrue(Outcome(x), proc) /\ (file = Null \/ Outcome(x).id # file.id => Gone(file, proc))
        BY <3>6, OutcomeTrue DEF Gone
      <4>4. Outcome(x).status \in {"stopped", "failed"} => file # Null /\ Outcome(x).id = file.id
        <5>1. CASE CallerAt(x, "write_failed")
          BY <2>2, <5>1 DEF Outcome, Ident, Failing, CallerAt, Record
        <5>2. CASE ~CallerAt(x, "write_failed")
          BY <5>2 DEF Outcome, Launched
        <5> QED  BY <5>1, <5>2
      <4> QED  BY <2>1, <4>1, <4>2, <4>3, <4>4, WriteLives
    <3>7. CASE WriteStopped(x)
      <4>1. file # Null /\ file \in Record /\ file.id # Null /\ Gone(file, proc)
        BY <2>2, <3>7 DEF WriteStopped, CallerAt, Ident, Failing, StopPc, Knows
      <4>2. /\ file' = Stopped /\ Stopped \in Record
            /\ Stopped.status = "stopped" /\ Stopped.id = file.id /\ Stopped.pid = file.pid
        BY <2>4, <3>7, <4>1 DEF WriteStopped, WriteFails, Stopped, Record
      <4>3. FileTrue(Stopped, proc)
        BY <4>1, <4>2 DEF Records, FileTrue, Gone
      <4> QED  BY <2>1, <4>1, <4>2, <4>3, WriteLives
    <3> QED  BY <3>1, <3>3, <3>4, <3>5, <3>6, <3>7
  <2> QED  BY <2>3, <2>4
<1> QED  BY <1>1, <1>2, <1>3, <1>4

\* To its operator a service lives as ServiceLife promises, whoever is killed and
\* whichever write fails (start_service and stop_service as a whole, and the
\* handler of /__service/stop).
THEOREM ServiceImplementsLife == ServiceSpec => ImplementsServiceLife
<1>1. ServiceInit => Life!Init
  <2> SUFFICES ASSUME ServiceInit PROVE Life!Init
    OBVIOUS
  <2>1. Ident
    BY InitIdent
  <2>2. \A i \in Ids : LifeOf(i) = "gone"
    BY <2>1, LifeIs DEF ServiceInit, Serving
  <2> QED  BY <2>2 DEF ServiceInit, Life!Init, Life!Nobody, Lifes, Said
<1>2. ASSUME Ident, Records, PortHeld, Reliable => Sole, [ServiceNext]_serviceVars
      PROVE  [Life!Next]_<<Lifes, Said>>
  <2>1. Ident'
    BY <1>2, NextIdent
  <2>2. CASE UNCHANGED serviceVars
    <3>1. Quiet /\ Said' = Said
      BY <2>2 DEF serviceVars, Quiet, Said
    <3> QED  BY <1>2, <2>1, <3>1, LivesStay
  <2>3. CASE Machine
    BY <1>2, <2>1, <2>3, MachineLives DEF Machine
  <2>4. ASSUME NEW x \in Callers,
               BeginStart(x) \/ BeginStop(x) \/ Start(x) \/ Stop(x)
                 \/ Interrupt(x) \/ Die(x) \/ Leave(x)
        PROVE  [Life!Next]_<<Lifes, Said>>
    BY <1>2, <2>1, <2>4, CommandLives
  <2> QED  BY <1>2, <2>2, <2>3, <2>4 DEF ServiceNext
<1>3. [Life!Next]_<<Lifes, Said>> => [Life!Next]_(Life!vars)
  BY DEF Life!vars
<1>4. ServiceSpec => [](Reliable => Ident /\ Sole) /\ [](Ident /\ Records /\ PortHeld)
  BY SoleAlways, PortAlways
<1>5. (Reliable => Ident /\ Sole) /\ Ident /\ Records /\ PortHeld /\ [ServiceNext]_serviceVars
        => [Life!Next]_(Life!vars)
  BY <1>2, <1>3
<1> QED  BY <1>1, <1>4, <1>5, PTL DEF ServiceSpec, ImplementsServiceLife, Life!Spec
=============================================================================
