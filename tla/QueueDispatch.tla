--------------------------- MODULE QueueDispatch ---------------------------
(***************************************************************************)
(* How a mission gets to run: it is enqueued or materialized by a          *)
(* schedule, reviewed by a preflight, claimed when it is the due head and  *)
(* admitted by a second transaction, while other commands park rows, tick  *)
(* schedules, change the execution focus and edit knowledge.  Callers are  *)
(* processes: the command line, the MCP server's run-next child and the    *)
(* scheduled cycle of scripts/local_ai.py.  What a mission does once it    *)
(* runs is MissionExecution.                                               *)
(***************************************************************************)
EXTENDS ExecutionFocus, FiniteSets

CONSTANTS Rows,       \* identifiers of mission_queue rows
          Schedules,  \* identifiers of schedules
          Missions,   \* objectives: records with proj, team (its size) and gate
          Priorities, \* queue priorities
          Cadences,   \* cadences of schedules, in ticks of the clock
          MaxNow      \* bound: the clock stops here

ASSUME DispatchAssumption ==
    /\ None \notin Rows \cup Schedules
    /\ Missions \subseteq [proj : Projects \cup {None}, team : Nat \ {0}, gate : BOOLEAN]
    /\ Priorities \subseteq 0..100
    /\ Cadences \subseteq Nat \ {0}
    /\ MaxNow \in Nat

VARIABLES now,    \* the machine's clock
          rows,   \* the mission_queue table
          sched,  \* the schedules table
          stale,  \* projects whose indexed knowledge is not current
          slot,   \* the running job: who executes which mission of which row
          caller  \* what each caller's queue command is doing

dispatchVars == <<focus, focusLock, editor, now, rows, sched, stale, slot, caller>>

Time == 0..MaxNow

NoRow == [st |-> "none", m |-> None, prio |-> 0, due |-> 0, made |-> 0, src |-> None]

NoSchedule == [made |-> FALSE, on |-> FALSE, m |-> None, prio |-> 0, every |-> 1, next |-> 0]

NoSlot == [by |-> None, row |-> None, m |-> None]

AtRest == [step |-> "none", row |-> None, obs |-> 0, m |-> None]

CallerSteps == {"none", "ticking", "adding", "reviewed", "bound", "claimed", "admitting",
                "running", "parking"}

DispatchTypeOK ==
    /\ FocusTypeOK
    /\ now \in Time
    /\ rows \in [Rows -> [st : {"none", "queued", "parked", "running", "needs_approval", "failed",
                                "done"},
                          m : Missions \cup {None}, prio : Nat, due : Int, made : Time,
                          src : Schedules \cup {None}]]
    /\ sched \in [Schedules -> [made : BOOLEAN, on : BOOLEAN, m : Missions \cup {None},
                                prio : Nat, every : Nat \ {0}, next : Int]]
    /\ stale \subseteq Projects
    /\ slot \in [by : Callers \cup {None}, row : Rows \cup {None}, m : Missions \cup {None}]
    /\ caller \in [Callers -> [step : CallerSteps, row : Rows \cup {None}, obs : Time,
                               m : Missions \cup {None}]]

DispatchInit == /\ FocusInit
                /\ now = 0
                /\ rows = [r \in Rows |-> NoRow]
                /\ sched = [s \in Schedules |-> NoSchedule]
                /\ stale = {}
                /\ slot = NoSlot
                /\ caller = [c \in Callers |-> AtRest]

--------------------------------------------------------------------------
(* The queue and what it shows. *)

Due(r) == rows[r].st = "queued" /\ rows[r].due <= now

(* ORDER BY priority DESC, scheduled_at, created_at *)
Outranks(q, r) ==
    \/ rows[q].prio > rows[r].prio
    \/ rows[q].prio = rows[r].prio /\ rows[q].due < rows[r].due
    \/ rows[q].prio = rows[r].prio /\ rows[q].due = rows[r].due /\ rows[q].made < rows[r].made

IsHead(r) == Due(r) /\ \A q \in Rows : Due(q) => ~Outranks(q, r)

(* The write lock of the database: admission keeps it from its reads to its commit. *)
Writable == \A c \in Callers : caller[c].step # "admitting"

(* Mutant: a claim that has not been admitted yet is not seen. *)
SlotTaken == slot.by # None

SlotBusy == slot.by # None \/ \E r \in Rows : rows[r].st = "running"

(* The blockers of a preflight other than the slot and the reviewed id. *)
FocusBlocks(m) == ~FocusAllows(focus, m.proj, m.team)

(* A mission of no project is checked against the sources of all. *)
KnowledgeBlocks(m) == /\ ~m.gate
                      /\ IF m.proj = None THEN stale # {} ELSE m.proj \in stale

Submittable(r) == ~FocusBlocks(rows[r].m) /\ ~KnowledgeBlocks(rows[r].m)

Ready(r) == IsHead(r) /\ ~SlotBusy /\ Submittable(r) /\ ~rows[r].m.gate

Free == {c \in Callers : caller[c].step = "none" /\ editor[c].step = "none"}

--------------------------------------------------------------------------
(* Commands that are one transaction. *)

(* The command line adds what it is told; the MCP server adds only what its
   preflight found ready a moment ago. *)
MayAdd(c, m) == c \in Free \/ (caller[c].step = "adding" /\ caller[c].m = m)

CheckAddition(c) ==
    /\ c \in Free
    /\ \E m \in Missions :
         /\ ~m.gate /\ ~KnowledgeBlocks(m) /\ ~FocusBlocks(m)
         /\ caller' = [caller EXCEPT ![c].step = "adding", ![c].m = m]
    /\ UNCHANGED <<focusVars, now, rows, sched, stale, slot>>

Enqueue(c, due) ==
    /\ Writable
    /\ \E r \in Rows, m \in Missions, prio \in Priorities :
         /\ MayAdd(c, m)
         /\ rows[r].st = "none"
         /\ rows' = [rows EXCEPT ![r] = [st |-> "queued", m |-> m, prio |-> prio, due |-> due,
                                         made |-> now, src |-> None]]
    /\ caller' = [caller EXCEPT ![c] = AtRest]
    /\ UNCHANGED <<focusVars, now, sched, stale, slot>>

CreateSchedule(c) ==
    /\ Writable
    /\ \E s \in Schedules, m \in Missions, prio \in Priorities, every \in Cadences, next \in Time :
         /\ MayAdd(c, m)
         /\ ~sched[s].made
         /\ sched' = [sched EXCEPT ![s] = [made |-> TRUE, on |-> TRUE, m |-> m, prio |-> prio,
                                           every |-> every, next |-> next]]
    /\ caller' = [caller EXCEPT ![c] = AtRest]
    /\ UNCHANGED <<focusVars, now, rows, stale, slot>>

SetScheduleEnabled(c) ==
    /\ Writable
    /\ \E s \in Schedules, on \in BOOLEAN :
         /\ sched[s].made
         /\ MayAdd(c, sched[s].m)
         /\ sched' = [sched EXCEPT ![s].on = on]
    /\ caller' = [caller EXCEPT ![c] = AtRest]
    /\ UNCHANGED <<focusVars, now, rows, stale, slot>>

(* reset of a row that failed; a retry preflight tells whether it could run now. *)
ResetRow(c) ==
    /\ c \in Free /\ Writable
    /\ \E r \in Rows : rows[r].st = "failed" /\ rows' = [rows EXCEPT ![r].st = "queued"]
    /\ UNCHANGED <<focusVars, now, sched, stale, slot, caller>>

(* park and unpark of a named row: only its status changes. *)
ParkRow(c, r) ==
    /\ rows[r].st = "queued" /\ Writable
    /\ rows' = [rows EXCEPT ![r].st = "parked"]

Park(c) ==
    /\ c \in Free
    /\ \E r \in Rows : ParkRow(c, r)
    /\ UNCHANGED <<focusVars, now, sched, stale, slot, caller>>

Unpark(c) ==
    /\ c \in Free /\ Writable
    /\ \E r \in Rows : rows[r].st = "parked" /\ rows' = [rows EXCEPT ![r].st = "queued"]
    /\ UNCHANGED <<focusVars, now, sched, stale, slot, caller>>

--------------------------------------------------------------------------
(* schedules tick: the clock is read before the transaction is opened. *)

Observe(c) ==
    /\ c \in Free
    /\ caller' = [caller EXCEPT ![c].step = "ticking", ![c].obs = now]
    /\ UNCHANGED <<focusVars, now, rows, sched, stale, slot>>

DueSchedules(obs) == {s \in Schedules : sched[s].made /\ sched[s].on /\ sched[s].next <= obs}

(* Mutant: the next date is not carried past obs. *)
NextDateOnce(s, obs) == s.next + s.every

(* The first date of the cadence after obs. *)
NextDate(s, obs) == s.next + s.every * ((obs - s.next) \div s.every + 1)

(* One row for each due schedule, however many dates it missed. *)
Materialize(c) ==
    /\ caller[c].step = "ticking" /\ Writable
    /\ LET due == DueSchedules(caller[c].obs)
           obs == caller[c].obs IN
       \E new \in [due -> {r \in Rows : rows[r].st = "none"}] :
         /\ \A s, t \in due : s # t => new[s] # new[t]
         /\ rows' = [r \in Rows |->
                       IF \E s \in due : new[s] = r
                         THEN LET s == CHOOSE s \in due : new[s] = r IN
                              [st |-> "queued", m |-> sched[s].m, prio |-> sched[s].prio,
                               due |-> obs, made |-> now, src |-> s]
                         ELSE rows[r]]
         /\ sched' = [s \in Schedules |->
                        IF s \in due THEN [sched[s] EXCEPT !.next = NextDate(sched[s], obs)]
                                     ELSE sched[s]]
    /\ caller' = [caller EXCEPT ![c] = AtRest]
    /\ UNCHANGED <<focusVars, now, stale, slot>>

--------------------------------------------------------------------------
(* Review, claim, admission. *)

(* queue preflight: what is reported ready is what run-next will be asked for. *)
Review(c) ==
    /\ c \in Free
    /\ \E r \in Rows : /\ Ready(r)
                       /\ caller' = [caller EXCEPT ![c].step = "reviewed", ![c].row = r]
    /\ UNCHANGED <<focusVars, now, rows, sched, stale, slot>>

(* The MCP server asks for a row its client names. *)
ReviewNamed(c) ==
    /\ c \in Free
    /\ \E r \in Rows : /\ Ready(r)
                       /\ caller' = [caller EXCEPT ![c].step = "bound", ![c].row = r]
    /\ UNCHANGED <<focusVars, now, rows, sched, stale, slot>>

(* The cycle asks again for the very row it reviewed. *)
BoundReview(c) ==
    /\ caller[c].step = "reviewed"
    /\ caller' = [caller EXCEPT ![c] = IF Ready(@.row) THEN [@ EXCEPT !.step = "bound"] ELSE AtRest]
    /\ UNCHANGED <<focusVars, now, rows, sched, stale, slot>>

(* Mutant: the reviewed row is only known to wait still. *)
AsStillQueued(c, r) == \A q \in Rows \cap {caller[c].row} : rows[q].st = "queued"

(* The reviewed row is still the head, or no row was named. *)
AsReviewed(c, r) == caller[c].row \in {None, r}

Claim(c) ==
    /\ c \in Free \/ caller[c].step \in {"reviewed", "bound"}
    /\ Writable
    /\ ~SlotBusy
    /\ \E r \in Rows :
         /\ IsHead(r)
         /\ AsReviewed(c, r)
         /\ Submittable(r)
         /\ rows' = [rows EXCEPT ![r].st = "running"]
         /\ caller' = [caller EXCEPT ![c] = [AtRest EXCEPT !.step = "claimed", !.row = r,
                                                         !.m = rows[r].m]]
    /\ UNCHANGED <<focusVars, now, sched, stale, slot>>

(* A mission run directly, without the queue, within the focus at that moment. *)
RunDirectly(c) ==
    /\ c \in Free
    /\ \E m \in Missions : /\ ~FocusBlocks(m)
                           /\ caller' = [caller EXCEPT ![c].step = "claimed", ![c].m = m]
    /\ UNCHANGED <<focusVars, now, rows, sched, stale, slot>>

(* A refused row is left as the exception says. *)
SettleRow(c, st) ==
    rows' = IF caller[c].row = None THEN rows ELSE [rows EXCEPT ![caller[c].row].st = st]

(* run refuses a sensitive objective before it opens its transaction. *)
RefuseGated(c) ==
    /\ caller[c].step = "claimed" /\ Writable
    /\ caller[c].m.gate /\ ~FocusBlocks(caller[c].m)
    /\ SettleRow(c, "needs_approval")
    /\ caller' = [caller EXCEPT ![c] = AtRest]
    /\ UNCHANGED <<focusVars, now, sched, stale, slot>>

(* Mutant: another claimed row is not looked for. *)
OtherJob(c) == slot.by # None

(* The admitting transaction: with the write lock held, the slot, the focus
   and the knowledge scope are read again. *)
OthersBusy(c) == slot.by # None \/ \E r \in Rows : r # caller[c].row /\ rows[r].st = "running"

Admissible(c) == /\ ~caller[c].m.gate
                 /\ ~OthersBusy(c)
                 /\ ~FocusBlocks(caller[c].m)
                 /\ ~KnowledgeBlocks(caller[c].m)

BeginAdmission(c) ==
    /\ caller[c].step = "claimed" /\ Writable
    /\ Admissible(c)
    /\ caller' = [caller EXCEPT ![c].step = "admitting"]
    /\ UNCHANGED <<focusVars, now, rows, sched, stale, slot>>

FailAdmission(c) ==
    /\ caller[c].step = "claimed" /\ Writable
    /\ FocusBlocks(caller[c].m) \/ (~caller[c].m.gate /\ ~Admissible(c))
    /\ SettleRow(c, "failed")
    /\ caller' = [caller EXCEPT ![c] = AtRest]
    /\ UNCHANGED <<focusVars, now, sched, stale, slot>>

CommitAdmission(c) ==
    /\ caller[c].step = "admitting"
    /\ slot' = [by |-> c, row |-> caller[c].row, m |-> caller[c].m]
    /\ caller' = [caller EXCEPT ![c].step = "running"]
    /\ UNCHANGED <<focusVars, now, rows, sched, stale>>

EndMission(c) ==
    /\ caller[c].step = "running" /\ Writable
    /\ \E st \in {"done", "failed"} : SettleRow(c, st)
    /\ slot' = NoSlot
    /\ caller' = [caller EXCEPT ![c] = AtRest]
    /\ UNCHANGED <<focusVars, now, sched, stale>>

--------------------------------------------------------------------------
(* local-ai park-next: the head is parked when nothing but the focus stops it. *)

ReviewParking(c) ==
    /\ c \in Free
    /\ \E r \in Rows : /\ IsHead(r)
                       /\ ~SlotBusy
                       /\ focus.on /\ FocusBlocks(rows[r].m)
                       /\ caller' = [caller EXCEPT ![c].step = "parking", ![c].row = r]
    /\ UNCHANGED <<focusVars, now, rows, sched, stale, slot>>

ParkHead(c) ==
    /\ caller[c].step = "parking"
    /\ IsHead(caller[c].row)
    /\ ParkRow(c, caller[c].row)
    /\ caller' = [caller EXCEPT ![c] = AtRest]
    /\ UNCHANGED <<focusVars, now, sched, stale, slot>>

--------------------------------------------------------------------------
(* A command refuses, times out or is killed.  A claimed row and a running
   job stay behind; recover ends them when their holder is gone. *)
Quit(c) ==
    /\ caller[c].step # "none"
    /\ caller' = [caller EXCEPT ![c] = AtRest]
    /\ UNCHANGED <<focusVars, now, rows, sched, stale, slot>>

Orphaned(r) ==
    /\ rows[r].st = "running"
    /\ \A c \in Callers : caller[c].step \in {"claimed", "admitting"} => caller[c].row # r

Recover(c) ==
    /\ c \in Free /\ Writable
    /\ \/ /\ slot.by # None /\ caller[slot.by].step # "running"
          /\ slot' = NoSlot
          /\ rows' = IF slot.row = None THEN rows ELSE [rows EXCEPT ![slot.row].st = "failed"]
       \/ /\ slot.by = None
          /\ \E r \in Rows : Orphaned(r) /\ rows' = [rows EXCEPT ![r].st = "failed"]
          /\ UNCHANGED slot
    /\ UNCHANGED <<focusVars, now, sched, stale, caller>>

(* Files under a project's knowledge sources are edited or indexed again. *)
KnowledgeChanges(p) ==
    /\ stale' = IF p \in stale THEN stale \ {p} ELSE stale \cup {p}
    /\ UNCHANGED <<focusVars, now, rows, sched, slot, caller>>

Pass == /\ now < MaxNow
        /\ now' = now + 1
        /\ UNCHANGED <<focusVars, rows, sched, stale, slot, caller>>

EditFocus(c) == /\ caller[c].step = "none"
                /\ FocusStep(c, ~SlotBusy)
                /\ UNCHANGED <<now, rows, sched, stale, slot, caller>>

DispatchNext ==
    \/ \E c \in Callers :
         \/ \E due \in now..MaxNow : Enqueue(c, due)
         \/ CheckAddition(c) \/ CreateSchedule(c) \/ SetScheduleEnabled(c) \/ ResetRow(c)
         \/ Park(c) \/ Unpark(c)
         \/ Observe(c) \/ Materialize(c)
         \/ Review(c) \/ ReviewNamed(c) \/ BoundReview(c) \/ Claim(c) \/ RunDirectly(c) \/ RefuseGated(c)
         \/ BeginAdmission(c) \/ FailAdmission(c) \/ CommitAdmission(c) \/ EndMission(c)
         \/ ReviewParking(c) \/ ParkHead(c) \/ Quit(c) \/ Recover(c) \/ EditFocus(c)
    \/ \E p \in Projects : KnowledgeChanges(p)
    \/ Pass

DispatchSpec == DispatchInit /\ [][DispatchNext]_dispatchVars

--------------------------------------------------------------------------
(* The row a run-next claims is the row its preflight reviewed, and it is
   claimed only while no due row outranks it, whatever was enqueued, parked
   or materialized between the review and the claim. *)
ClaimsReviewedHead ==
    [][\A c \in Callers, r \in Rows :
         (caller[c].step # "claimed" /\ caller'[c].step = "claimed" /\ caller'[c].row = r) =>
            /\ caller[c].row \in {None, r}
            /\ rows[r].st = "queued" /\ rows'[r].st = "running"
            /\ \A q \in Rows : Due(q) => ~Outranks(q, r)]_dispatchVars

(* No date of a schedule is materialized twice, however late, often or
   concurrently it is ticked: the rows of one schedule lie in different
   periods of its cadence, and its next date is later than all of them. *)
DatesAreSingle ==
    \A s \in Schedules, q, r \in Rows :
        LET period(t) == (t - sched[s].next) \div sched[s].every IN
        (rows[q].src = s /\ rows[r].src = s) =>
            /\ rows[q].due < sched[s].next
            /\ q # r => period(rows[q].due) # period(rows[r].due)

(* A job executes only the mission its caller was admitted for; a mission
   that needs the owner never executes, and the row of a running job is the
   row that was claimed. *)
ExecutesWhatWasClaimed ==
    /\ slot.by # None => /\ ~slot.m.gate
                         /\ slot.row # None => /\ rows[slot.row].st = "running"
                                               /\ rows[slot.row].m = slot.m
    /\ \A q, r \in Rows : rows[q].st = "running" /\ rows[r].st = "running" => q = r
    /\ \A r \in Rows : slot.by # None /\ rows[r].st = "running" => slot.row = r

(* An active job or a running claim rejects a change of an active focus. *)
WorkKeepsFocus ==
    [][(focus.on /\ focus' # focus) => ~SlotBusy]_dispatchVars

(* The queue that reviews, claims, admissions, ticks and recoveries leave
   behind is the one QueueLifecycle promises: a row is claimed only while none
   executes, only an executing row is given up or settled, and nothing else
   moves a row.  A row is done here whatever its verdict is. *)
Lived(st) == CASE st = "none" -> "absent"
               [] st = "done" -> "complete"
               [] OTHER -> st

Statuses == [r \in Rows |-> Lived(rows[r].st)]

RowLife == INSTANCE QueueLifecycle WITH Queue <- Rows, row <- Statuses

RowsLiveAsPromised == [][RowLife!Next]_Statuses

============================================================================
