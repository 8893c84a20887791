------------------------ MODULE QueueDispatch_proofs ------------------------
(***************************************************************************)
(* Theorems about QueueDispatch and the focus in it: types, what a focus   *)
(* gives way to, what a claim takes, and what executes.                    *)
(***************************************************************************)
EXTENDS QueueDispatch, TLAPS

RowStatuses == {"none", "queued", "parked", "running", "needs_approval", "failed", "done"}

RowType == [st : RowStatuses, m : Missions \cup {None}, prio : Nat, due : Int, made : Time,
            src : Schedules \cup {None}]

ScheduleType == [made : BOOLEAN, on : BOOLEAN, m : Missions \cup {None}, prio : Nat,
                 every : Nat \ {0}, next : Int]

SlotType == [by : Callers \cup {None}, row : Rows \cup {None}, m : Missions \cup {None}]

CallerType == [step : CallerSteps, row : Rows \cup {None}, obs : Time, m : Missions \cup {None}]

LEMMA TypesNamed ==
  DispatchTypeOK <=> /\ FocusTypeOK
                     /\ now \in Time
                     /\ rows \in [Rows -> RowType]
                     /\ sched \in [Schedules -> ScheduleType]
                     /\ stale \subseteq Projects
                     /\ slot \in SlotType
                     /\ caller \in [Callers -> CallerType]
  BY DEF DispatchTypeOK, RowType, RowStatuses, ScheduleType, SlotType, CallerType

--------------------------------------------------------------------------
(* The focus. *)

LEMMA DisabledType == \A rev \in Nat : Disabled(rev) \in Focuses
  BY DEF Disabled, Focuses

LEMMA EnabledType == \A p \in Projects, n \in Budgets, rev \in Nat : Enabled(p, n, rev) \in Focuses
  BY FocusAssumption DEF Enabled, Focuses

LEMMA QuietType == Quiet \in Edits
  BY DisabledType DEF Quiet, Edits, EditSteps

\* What a command may write over the focus it finds is a focus, the next revision.
LEMMA SuccessorsType ==
  ASSUME NEW e \in Edits, NEW found \in Focuses, NEW f \in Successors(e, found)
  PROVE  /\ f \in Focuses /\ f.rev = found.rev + 1
         /\ found.on => e.cmd # "set" /\ e.seen = found
<1>1. found.rev \in Nat /\ found.rev + 1 \in Nat  BY DEF Focuses
<1>2. e.cmd \in {"set", "handoff", "clear"}  BY DEF Edits
<1>3. CASE e.cmd = "set"
  <2>1. f \in {g \in {Enabled(p, n, found.rev + 1) : p \in Projects, n \in Budgets} : ~found.on}
    BY <1>3 DEF Successors
  <2> QED  BY <1>1, <2>1, EnabledType DEF Enabled
<1>4. CASE e.cmd = "handoff"
  <2>1. f \in {g \in {Enabled(p, n, found.rev + 1) : p \in Projects, n \in Budgets} :
                 found.on /\ SameDigest(e, found) /\ g.proj # found.proj}
    BY <1>4 DEF Successors
  <2> QED  BY <1>1, <1>4, <2>1, EnabledType DEF Enabled, SameDigest
<1>5. CASE e.cmd = "clear"
  <2>1. f \in {g \in {Disabled(found.rev + 1)} : found.on /\ SameDigest(e, found)}
    BY <1>5 DEF Successors
  <2>2. f = Disabled(found.rev + 1) /\ e.seen = found
    BY <2>1 DEF SameDigest
  <2>3. f \in Focuses
    BY <1>1, <2>2, DisabledType
  <2>4. f.rev = found.rev + 1
    BY <2>2 DEF Disabled
  <2> QED  BY <1>5, <2>2, <2>3, <2>4
<1> QED  BY <1>2, <1>3, <1>4, <1>5

(* A caller that is about to replace the focus holds the lock, and what it has
   compared is still there: nobody else replaces it. *)
HoldsWhatItCompared ==
  \A c \in Callers : editor[c].step = "replacing" =>
     /\ focusLock = c
     /\ editor[c].next.rev = focus.rev + 1
     /\ focus.on => editor[c].cmd # "set" /\ editor[c].seen = focus

FocusInv == FocusTypeOK /\ HoldsWhatItCompared

LEMMA FocusStart == FocusInit => FocusInv
<1> SUFFICES ASSUME FocusInit PROVE FocusInv
  OBVIOUS
<1>1. FocusTypeOK
  BY QuietType, DisabledType DEF FocusInit, FocusTypeOK
<1>2. \A c \in Callers : editor[c].step = "none"
  BY DEF FocusInit, Quiet
<1> QED  BY <1>1, <1>2 DEF FocusInv, HoldsWhatItCompared

\* A step of an editor that leaves the focus alone and replaces nothing.
LEMMA FocusFrame ==
  ASSUME FocusInv, NEW c \in Callers, NEW e \in Edits, e.step # "replacing",
         editor' = [editor EXCEPT ![c] = e], UNCHANGED focus,
         focusLock' = focusLock \/ (focusLock = c /\ focusLock' = None)
  PROVE  FocusInv'
<1>1. FocusTypeOK'
  BY DEF FocusInv, FocusTypeOK
<1>2. HoldsWhatItCompared'
  <2> SUFFICES ASSUME NEW d \in Callers, editor'[d].step = "replacing"
               PROVE  /\ focusLock' = d
                      /\ editor'[d].next.rev = focus'.rev + 1
                      /\ focus'.on => editor'[d].cmd # "set" /\ editor'[d].seen = focus'
    BY DEF HoldsWhatItCompared
  <2>1. d # c /\ editor'[d] = editor[d]  BY DEF FocusInv, FocusTypeOK
  <2> QED  BY <2>1 DEF FocusInv, HoldsWhatItCompared
<1> QED  BY <1>1, <1>2 DEF FocusInv

\* Every focus command preserves the invariant and swaps what was reviewed.
LEMMA FocusStepKeeps ==
  ASSUME FocusInv, NEW c \in Callers, NEW idle \in BOOLEAN, FocusStep(c, idle)
  PROVE  /\ FocusInv'
         /\ focus' # focus =>
              /\ focus'.rev = focus.rev + 1
              /\ focus.on => \E d \in Callers : /\ editor[d].cmd # "set"
                                                /\ editor[d].seen = focus
                                                /\ focus' = editor[d].next
<1>0. /\ editor[c] \in Edits /\ focus \in Focuses
      /\ editor \in [Callers -> Edits] /\ focusLock \in Callers \cup {None}
  BY DEF FocusInv, FocusTypeOK
<1>1. CASE ShowFocus(c)
  <2>1. [editor[c] EXCEPT !.step = "reviewed", !.seen = focus] \in Edits
    BY <1>0 DEF Edits, EditSteps
  <2>2. editor' = [editor EXCEPT ![c] = [editor[c] EXCEPT !.step = "reviewed", !.seen = focus]]
    BY <1>0, <1>1 DEF ShowFocus
  <2>3. [editor[c] EXCEPT !.step = "reviewed", !.seen = focus].step # "replacing"
    BY <1>0 DEF Edits
  <2> QED  BY <1>1, <2>1, <2>2, <2>3, FocusFrame DEF ShowFocus
<1>2. ASSUME NEW cmd \in {"set", "handoff", "clear"}, ChooseEdit(c, cmd)
      PROVE  FocusInv' /\ focus' = focus
  <2> DEFINE e == [editor[c] EXCEPT !.step = IF cmd = "set" THEN "locking" ELSE "asserting",
                                    !.cmd = cmd]
  <2>1. e \in Edits /\ e.step # "replacing"
    BY <1>0 DEF Edits, EditSteps
  <2>2. editor' = [editor EXCEPT ![c] = e]
    BY <1>0, <1>2 DEF ChooseEdit
  <2> HIDE DEF e
  <2> QED  BY <1>2, <2>1, <2>2, FocusFrame DEF ChooseEdit
<1>3. CASE AssertIdle(c, idle)
  <2> DEFINE e == IF idle THEN [editor[c] EXCEPT !.step = "locking"] ELSE Quiet
  <2>1. e \in Edits /\ e.step # "replacing"
    BY <1>0, QuietType DEF Edits, EditSteps, Quiet
  <2>2. editor' = [editor EXCEPT ![c] = e]
    BY <1>0, <1>3 DEF AssertIdle
  <2> HIDE DEF e
  <2> QED  BY <1>3, <2>1, <2>2, FocusFrame DEF AssertIdle
<1>4. CASE LockAndCompare(c)
  <2>1. PICK f \in Successors(editor[c], focus) :
          editor' = [editor EXCEPT ![c].step = "replacing", ![c].next = f]
    BY <1>4 DEF LockAndCompare
  <2> DEFINE e == [editor[c] EXCEPT !.step = "replacing", !.next = f]
  <2>2. /\ f \in Focuses /\ f.rev = focus.rev + 1
        /\ focus.on => editor[c].cmd # "set" /\ editor[c].seen = focus
    BY <1>0, SuccessorsType
  <2>3. /\ e \in Edits /\ e.next = f /\ e.cmd = editor[c].cmd /\ e.seen = editor[c].seen
    BY <1>0, <2>2 DEF Edits, EditSteps
  <2>4. editor' = [editor EXCEPT ![c] = e]  BY <1>0, <2>1
  <2> HIDE DEF e
  <2>5. FocusTypeOK'
    BY <1>0, <1>4, <2>3, <2>4 DEF FocusTypeOK, LockAndCompare
  <2>6. ASSUME NEW d \in Callers, d # c  PROVE editor'[d].step # "replacing"
    <3>1. editor[d].step # "replacing"
      BY <1>4, FocusAssumption DEF FocusInv, HoldsWhatItCompared, LockAndCompare
    <3> QED  BY <1>0, <2>4, <2>6, <3>1
  <2>7. editor'[c] = e /\ focus' = focus /\ focusLock' = c
    BY <1>0, <1>4, <2>4 DEF LockAndCompare
  <2>8. HoldsWhatItCompared'
    BY <2>2, <2>3, <2>6, <2>7 DEF HoldsWhatItCompared
  <2> QED  BY <2>5, <2>7, <2>8 DEF FocusInv
<1>5. CASE QuitEdit(c)
  <2>1. Quiet.step # "replacing"  BY DEF Quiet
  <2> QED  BY <1>5, <2>1, QuietType, FocusFrame DEF QuitEdit
<1>6. CASE ReplaceFocus(c)
  <2>1. /\ focusLock = c /\ editor[c].next.rev = focus.rev + 1
        /\ focus.on => editor[c].cmd # "set" /\ editor[c].seen = focus
    BY <1>6 DEF ReplaceFocus, FocusInv, HoldsWhatItCompared
  <2>2. FocusTypeOK'
    BY <1>0, <1>6, QuietType DEF ReplaceFocus, FocusTypeOK, Edits
  <2>3. ASSUME NEW d \in Callers  PROVE editor'[d].step # "replacing"
    <3>1. CASE d = c  BY <1>0, <1>6, <3>1 DEF ReplaceFocus, Quiet
    <3>2. CASE d # c
      <4>1. editor[d].step # "replacing"
        BY <2>1, <3>2 DEF FocusInv, HoldsWhatItCompared
      <4> QED  BY <1>0, <1>6, <3>2, <4>1 DEF ReplaceFocus
    <3> QED  BY <3>1, <3>2
  <2>4. FocusInv'  BY <2>2, <2>3 DEF FocusInv, HoldsWhatItCompared
  <2> QED  BY <1>6, <2>1, <2>4 DEF ReplaceFocus
<1> QED  BY <1>1, <1>2, <1>3, <1>4, <1>5, <1>6 DEF FocusStep, ShowFocus, AssertIdle,
            LockAndCompare, QuitEdit

\* The queue's commands leave the focus to the focus command.
LEMMA DispatchEditsFocus ==
  ASSUME [DispatchNext]_dispatchVars
  PROVE  (\E c \in Callers, idle \in BOOLEAN : FocusStep(c, idle)) \/ UNCHANGED focusVars
<1>1. ASSUME NEW c \in Callers, EditFocus(c)
      PROVE  \E idle \in BOOLEAN : FocusStep(c, idle)
  <2>1. (~SlotBusy) \in BOOLEAN  BY DEF SlotBusy
  <2> QED  BY <1>1, <2>1 DEF EditFocus
<1>2. ASSUME NEW c \in Callers,
             \/ \E due \in now..MaxNow : Enqueue(c, due)
             \/ CheckAddition(c) \/ CreateSchedule(c) \/ SetScheduleEnabled(c) \/ ResetRow(c)
             \/ Park(c) \/ Unpark(c) \/ Observe(c) \/ Materialize(c)
      PROVE  UNCHANGED focusVars
  BY <1>2 DEF Enqueue, CheckAddition, CreateSchedule, SetScheduleEnabled, ResetRow, Park, Unpark,
              Observe, Materialize
<1>3. ASSUME NEW c \in Callers,
             \/ Review(c) \/ ReviewNamed(c) \/ BoundReview(c) \/ Claim(c) \/ RunDirectly(c)
             \/ RefuseGated(c) \/ BeginAdmission(c) \/ FailAdmission(c) \/ CommitAdmission(c)
             \/ EndMission(c) \/ ReviewParking(c) \/ ParkHead(c) \/ Quit(c) \/ Recover(c)
      PROVE  UNCHANGED focusVars
  BY <1>3 DEF Review, ReviewNamed, BoundReview, Claim, RunDirectly, RefuseGated, BeginAdmission,
              FailAdmission, CommitAdmission, EndMission, ReviewParking, ParkHead, Quit, Recover
<1>4. ASSUME \/ \E p \in Projects : KnowledgeChanges(p)
             \/ Pass \/ UNCHANGED dispatchVars
      PROVE  UNCHANGED focusVars
  BY <1>4 DEF KnowledgeChanges, Pass, dispatchVars, focusVars
<1> QED  BY <1>1, <1>2, <1>3, <1>4 DEF DispatchNext

LEMMA FocusKept ==
  ASSUME FocusInv, [DispatchNext]_dispatchVars
  PROVE  /\ FocusInv'
         /\ focus' # focus =>
              /\ focus'.rev = focus.rev + 1
              /\ focus.on => \E d \in Callers : /\ editor[d].cmd # "set"
                                                /\ editor[d].seen = focus
                                                /\ focus' = editor[d].next
<1>1. CASE UNCHANGED focusVars
  BY <1>1 DEF focusVars, FocusInv, FocusTypeOK, HoldsWhatItCompared
<1>2. CASE \E c \in Callers, idle \in BOOLEAN : FocusStep(c, idle)
  BY <1>2, FocusStepKeeps
<1> QED  BY <1>1, <1>2, DispatchEditsFocus

(***************************************************************************)
(* The focus and its lock stay well-formed, and a caller about to replace  *)
(* the focus holds the lock over the record it compared (focus.py).        *)
(***************************************************************************)
THEOREM FocusIsHeld == DispatchSpec => []FocusInv
<1>1. DispatchInit => FocusInv  BY FocusStart DEF DispatchInit
<1>2. FocusInv /\ [DispatchNext]_dispatchVars => FocusInv'  BY FocusKept
<1> QED  BY <1>1, <1>2, PTL DEF DispatchSpec

(***************************************************************************)
(* An active focus gives way only to a handoff or clear whose operator saw *)
(* exactly the record it replaces (handoff_execution_focus,                *)
(* clear_execution_focus), whatever else the queue's commands do.          *)
(***************************************************************************)
THEOREM HandoffsSwapTheReviewed == DispatchSpec => FocusSwapsReviewed
<1>1. FocusInv /\ [DispatchNext]_dispatchVars =>
        [focus' # focus =>
           /\ focus'.rev = focus.rev + 1
           /\ focus.on => \E c \in Callers : /\ editor[c].cmd # "set"
                                             /\ editor[c].seen = focus
                                             /\ focus' = editor[c].next]_focusVars
  BY FocusKept
<1> QED  BY <1>1, FocusIsHeld, PTL DEF DispatchSpec, FocusSwapsReviewed

--------------------------------------------------------------------------
(* Types of the queue's variables. *)

QueueTypeOK == /\ now \in Time
               /\ rows \in [Rows -> RowType]
               /\ sched \in [Schedules -> ScheduleType]
               /\ stale \subseteq Projects
               /\ slot \in SlotType
               /\ caller \in [Callers -> CallerType]

LEMMA RestsType == /\ AtRest \in CallerType /\ NoSlot \in SlotType
                   /\ NoRow \in RowType /\ NoSchedule \in ScheduleType
                   /\ AtRest.step = "none" /\ AtRest.row = None /\ NoSlot.by = None
  BY DispatchAssumption
  DEF AtRest, CallerType, CallerSteps, Time, NoSlot, SlotType, NoRow, RowType, RowStatuses,
      NoSchedule, ScheduleType

(* A mission that a claim or a run has in hand, and a caller that has settled. *)
Holding(c) == caller[c].step \in {"claimed", "admitting"}

Settled(x) == /\ x \in CallerType
              /\ x.step \notin {"claimed", "admitting", "running"}
              /\ x.step = "none" => x.row = None

(***************************************************************************)
(* Most steps of the queue turn one caller to something else and change    *)
(* only rows that do not run.                                              *)
(***************************************************************************)
Aside == /\ QueueTypeOK'
         /\ slot' = slot
         /\ \A r \in Rows : rows[r].st = "running" \/ rows'[r].st = "running" => rows'[r] = rows[r]
         /\ \/ caller' = caller
            \/ \E c \in Callers, x \in CallerType : Settled(x) /\ caller' = [caller EXCEPT ![c] = x]

LEMMA CallerAside ==
  ASSUME QueueTypeOK, NEW c \in Callers, NEW x \in CallerType, Settled(x),
         caller' = [caller EXCEPT ![c] = x], UNCHANGED <<now, rows, sched, stale, slot>>
  PROVE  Aside
  BY DEF Aside, QueueTypeOK

LEMMA StepType ==
  ASSUME NEW x \in CallerType, NEW s \in CallerSteps, NEW r \in Rows \cup {None}, NEW o \in Time,
         NEW m \in Missions \cup {None}
  PROVE  /\ [x EXCEPT !.step = s] \in CallerType
         /\ [x EXCEPT !.step = s, !.row = r] \in CallerType
         /\ [x EXCEPT !.step = s, !.obs = o] \in CallerType
         /\ [x EXCEPT !.step = s, !.m = m] \in CallerType
         /\ [AtRest EXCEPT !.step = s, !.row = r, !.m = m] \in CallerType
  BY RestsType DEF CallerType

\* Reviews, checks and the end of a command change one caller.
LEMMA ReviewsAreAside ==
  ASSUME QueueTypeOK, NEW c \in Callers,
         \/ CheckAddition(c) \/ Observe(c) \/ Review(c) \/ ReviewNamed(c) \/ BoundReview(c)
         \/ ReviewParking(c) \/ Quit(c)
  PROVE  Aside
<1>0. /\ caller[c] \in CallerType /\ caller \in [Callers -> CallerType] /\ now \in Time
  BY DEF QueueTypeOK
<1>1. CASE CheckAddition(c)
  <2>1. PICK m \in Missions : caller' = [caller EXCEPT ![c].step = "adding", ![c].m = m]
    BY <1>1 DEF CheckAddition
  <2> DEFINE x == [caller[c] EXCEPT !.step = "adding", !.m = m]
  <2>2. x \in CallerType  BY <1>0, StepType DEF CallerSteps
  <2>3. x.step = "adding" /\ caller' = [caller EXCEPT ![c] = x]
    BY <1>0, <2>1 DEF CallerType
  <2> HIDE DEF x
  <2> QED  BY <1>1, <2>2, <2>3, CallerAside DEF CheckAddition, Settled
<1>2. CASE Observe(c)
  <2> DEFINE x == [caller[c] EXCEPT !.step = "ticking", !.obs = now]
  <2>2. x \in CallerType  BY <1>0, StepType DEF CallerSteps
  <2>3. x.step = "ticking" /\ caller' = [caller EXCEPT ![c] = x]
    BY <1>0, <1>2 DEF CallerType, Observe
  <2> HIDE DEF x
  <2> QED  BY <1>2, <2>2, <2>3, CallerAside DEF Observe, Settled
<1>3. ASSUME NEW r \in Rows, NEW s \in {"reviewed", "bound", "parking"},
             caller' = [caller EXCEPT ![c].step = s, ![c].row = r],
             UNCHANGED <<now, rows, sched, stale, slot>>
      PROVE  Aside
  <2> DEFINE x == [caller[c] EXCEPT !.step = s, !.row = r]
  <2>1. s \in CallerSteps /\ s \notin {"none", "claimed", "admitting", "running"}
    BY <1>3 DEF CallerSteps
  <2>2. x \in CallerType  BY <1>0, <2>1, StepType
  <2>3. x.step = s /\ caller' = [caller EXCEPT ![c] = x]
    BY <1>0, <1>3 DEF CallerType
  <2> HIDE DEF x
  <2> QED  BY <1>3, <2>1, <2>2, <2>3, CallerAside DEF Settled
<1>4. CASE Review(c)  BY <1>3, <1>4 DEF Review
<1>5. CASE ReviewNamed(c)  BY <1>3, <1>5 DEF ReviewNamed
<1>6. CASE ReviewParking(c)  BY <1>3, <1>6 DEF ReviewParking
<1>7. CASE BoundReview(c)
  <2> DEFINE x == IF Ready(caller[c].row) THEN [caller[c] EXCEPT !.step = "bound"] ELSE AtRest
  <2>2. x \in CallerType  BY <1>0, StepType, RestsType DEF CallerSteps
  <2>3. /\ x.step = "bound" \/ (x.step = "none" /\ x.row = None)
        /\ caller' = [caller EXCEPT ![c] = x]
    BY <1>0, <1>7, RestsType DEF CallerType, BoundReview
  <2> HIDE DEF x
  <2> QED  BY <1>7, <2>2, <2>3, CallerAside DEF BoundReview, Settled
<1>8. CASE Quit(c)
  BY <1>8, RestsType, CallerAside DEF Quit, Settled
<1> QED  BY <1>1, <1>2, <1>4, <1>5, <1>6, <1>7, <1>8

\* A change of one row that neither ran nor runs.
LEMMA RowAside ==
  ASSUME QueueTypeOK, NEW r \in Rows, NEW x \in RowType, x.st # "running", rows[r].st # "running",
         rows' = [rows EXCEPT ![r] = x], UNCHANGED <<now, sched, stale, slot>>,
         \/ caller' = caller
         \/ \E c \in Callers : caller' = [caller EXCEPT ![c] = AtRest]
  PROVE  Aside
<1>1. Settled(AtRest)  BY RestsType DEF Settled
<1>2. caller' \in [Callers -> CallerType]  BY RestsType DEF QueueTypeOK
<1>3. rows' \in [Rows -> RowType]  BY DEF QueueTypeOK
<1>4. \A q \in Rows : rows[q].st = "running" \/ rows'[q].st = "running" => rows'[q] = rows[q]
  BY DEF QueueTypeOK
<1> QED  BY <1>1, <1>2, <1>3, <1>4, RestsType DEF Aside, QueueTypeOK

\* The status of one row, when neither the old nor the new one is running.
LEMMA StatusAside ==
  ASSUME QueueTypeOK, NEW r \in Rows, NEW st \in RowStatuses \ {"running"},
         rows[r].st # "running", rows' = [rows EXCEPT ![r].st = st],
         UNCHANGED <<now, sched, stale, slot>>,
         \/ caller' = caller
         \/ \E c \in Callers : caller' = [caller EXCEPT ![c] = AtRest]
  PROVE  Aside
<1> DEFINE x == [rows[r] EXCEPT !.st = st]
<1>1. x \in RowType /\ x.st # "running" /\ rows' = [rows EXCEPT ![r] = x]
  BY DEF QueueTypeOK, RowType
<1> HIDE DEF x
<1> QED  BY <1>1, RowAside

\* The first date of a cadence after obs is a date.
LEMMA NextDateType ==
  ASSUME NEW s \in ScheduleType, NEW obs \in Time
  PROVE  NextDate(s, obs) \in Int
<1>1. s.next \in Int /\ s.every \in Nat \ {0} /\ obs \in Int
  BY DispatchAssumption DEF ScheduleType, Time
<1>2. (obs - s.next) \div s.every \in Int  BY <1>1
<1> QED  BY <1>1, <1>2 DEF NextDate

LEMMA MaterializeIsAside ==
  ASSUME QueueTypeOK, NEW c \in Callers, Materialize(c)
  PROVE  Aside
<1> DEFINE obs == caller[c].obs
           due == DueSchedules(obs)
<1>0. /\ obs \in Time /\ now \in Time /\ due \subseteq Schedules
      /\ rows \in [Rows -> RowType] /\ sched \in [Schedules -> ScheduleType]
      /\ caller \in [Callers -> CallerType]
  BY DEF QueueTypeOK, CallerType, DueSchedules
<1>1. PICK new \in [due -> {r \in Rows : rows[r].st = "none"}] :
        /\ rows' = [r \in Rows |->
                      IF \E s \in due : new[s] = r
                        THEN LET s == CHOOSE s \in due : new[s] = r IN
                             [st |-> "queued", m |-> sched[s].m, prio |-> sched[s].prio,
                              due |-> obs, made |-> now, src |-> s]
                        ELSE rows[r]]
        /\ sched' = [s \in Schedules |->
                       IF s \in due THEN [sched[s] EXCEPT !.next = NextDate(sched[s], obs)]
                                    ELSE sched[s]]
  BY DEF Materialize
<1> HIDE DEF due
<1>2. ASSUME NEW r \in Rows
      PROVE  /\ rows'[r] \in RowType
             /\ rows[r].st = "running" \/ rows'[r].st = "running" => rows'[r] = rows[r]
  <2>1. CASE \E s \in due : new[s] = r
    <3> DEFINE s == CHOOSE s \in due : new[s] = r
               x == [st |-> "queued", m |-> sched[s].m, prio |-> sched[s].prio,
                     due |-> obs, made |-> now, src |-> s]
    <3>1. s \in due /\ new[s] = r  BY <2>1
    <3>2. rows[r].st = "none" /\ s \in Schedules  BY <1>0, <1>1, <3>1
    <3>3. rows'[r] = x  BY <1>1, <2>1
    <3>4. sched[s] \in ScheduleType  BY <1>0, <3>2
    <3> HIDE DEF s, obs
    <3>5. x \in RowType /\ x.st = "queued"
      <4>1. obs \in Int  BY <1>0, DispatchAssumption DEF Time
      <4> QED  BY <1>0, <3>2, <3>4, <4>1 DEF RowType, RowStatuses, ScheduleType
    <3> HIDE DEF x
    <3> QED  BY <3>2, <3>3, <3>5
  <2>2. CASE ~\E s \in due : new[s] = r
    BY <1>0, <1>1, <2>2
  <2> QED  BY <2>1, <2>2
<1>3. rows' \in [Rows -> RowType]
  <2>1. rows' = [r \in Rows |-> rows'[r]]  BY <1>1
  <2> QED  BY <1>2, <2>1
<1>4. sched' \in [Schedules -> ScheduleType]
  <2>1. ASSUME NEW s \in Schedules
        PROVE  [sched[s] EXCEPT !.next = NextDate(sched[s], obs)] \in ScheduleType
    <3>1. NextDate(sched[s], obs) \in Int  BY <1>0, NextDateType
    <3> QED  BY <1>0, <3>1 DEF ScheduleType
  <2> HIDE DEF obs
  <2> QED  BY <1>0, <1>1, <2>1
<1>5. /\ caller' = [caller EXCEPT ![c] = AtRest] /\ Settled(AtRest)
      /\ caller' \in [Callers -> CallerType]
  BY <1>0, RestsType DEF Materialize, Settled
<1> QED  BY <1>2, <1>3, <1>4, <1>5, RestsType DEF Aside, QueueTypeOK, Materialize

LEMMA ScheduleAside ==
  ASSUME QueueTypeOK, NEW c \in Callers, sched' \in [Schedules -> ScheduleType],
         caller' = [caller EXCEPT ![c] = AtRest], UNCHANGED <<now, rows, stale, slot>>
  PROVE  Aside
  BY RestsType DEF Aside, QueueTypeOK, Settled

\* Commands that are one transaction touch no running row.
LEMMA WritesAreAside ==
  ASSUME QueueTypeOK, NEW c \in Callers,
         \/ \E due \in now..MaxNow : Enqueue(c, due)
         \/ CreateSchedule(c) \/ SetScheduleEnabled(c) \/ ResetRow(c) \/ Park(c) \/ Unpark(c)
         \/ ParkHead(c) \/ EditFocus(c)
  PROVE  Aside
<1>0. /\ rows \in [Rows -> RowType] /\ sched \in [Schedules -> ScheduleType]
      /\ now \in Time /\ MaxNow \in Nat
      /\ Priorities \subseteq Nat /\ Cadences \subseteq Nat \ {0} /\ Time \subseteq Int
  BY DispatchAssumption DEF QueueTypeOK, Time
<1>1. ASSUME NEW due \in now..MaxNow, Enqueue(c, due)  PROVE Aside
  <2>1. PICK r \in Rows, m \in Missions, prio \in Priorities :
          /\ rows[r].st = "none"
          /\ rows' = [rows EXCEPT ![r] = [st |-> "queued", m |-> m, prio |-> prio, due |-> due,
                                          made |-> now, src |-> None]]
    BY <1>1 DEF Enqueue
  <2>2. due \in Int  BY <1>0
  <2> DEFINE x == [st |-> "queued", m |-> m, prio |-> prio, due |-> due, made |-> now, src |-> None]
  <2>3. x \in RowType /\ x.st = "queued"
    BY <1>0, <2>2 DEF RowType, RowStatuses
  <2>4. rows' = [rows EXCEPT ![r] = x]  BY <2>1
  <2> HIDE DEF x
  <2> QED  BY <1>1, <2>1, <2>3, <2>4, RowAside DEF Enqueue
<1>2. CASE CreateSchedule(c)
  <2>1. PICK s \in Schedules, m \in Missions, prio \in Priorities, every \in Cadences, next \in Time :
          sched' = [sched EXCEPT ![s] = [made |-> TRUE, on |-> TRUE, m |-> m, prio |-> prio,
                                         every |-> every, next |-> next]]
    BY <1>2 DEF CreateSchedule
  <2>2. sched' \in [Schedules -> ScheduleType]
    BY <1>0, <2>1 DEF ScheduleType
  <2> QED  BY <1>2, <2>2, ScheduleAside DEF CreateSchedule
<1>3. CASE SetScheduleEnabled(c)
  <2>1. PICK s \in Schedules, on \in BOOLEAN : sched' = [sched EXCEPT ![s].on = on]
    BY <1>3 DEF SetScheduleEnabled
  <2>2. sched' \in [Schedules -> ScheduleType]
    BY <1>0, <2>1 DEF ScheduleType
  <2> QED  BY <1>3, <2>2, ScheduleAside DEF SetScheduleEnabled
<1>4. CASE ResetRow(c)  BY <1>4, StatusAside DEF ResetRow, RowStatuses
<1>5. CASE Park(c)  BY <1>5, StatusAside DEF Park, ParkRow, RowStatuses
<1>6. CASE Unpark(c)  BY <1>6, StatusAside DEF Unpark, RowStatuses
<1>7. CASE ParkHead(c)
  <2>1. CASE caller[c].row \in Rows
    <3>1. /\ rows[caller[c].row].st # "running" /\ "parked" \in RowStatuses \ {"running"}
          /\ rows' = [rows EXCEPT ![caller[c].row].st = "parked"]
          /\ caller' = [caller EXCEPT ![c] = AtRest]
          /\ UNCHANGED <<now, sched, stale, slot>>
      BY <1>7 DEF ParkHead, ParkRow, RowStatuses
    <3> QED  BY <2>1, <3>1, StatusAside
  <2>2. CASE caller[c].row \notin Rows
    <3>1. rows' = rows  BY <1>0, <1>7, <2>2 DEF ParkHead, ParkRow
    <3> QED  BY <1>7, <3>1, RestsType DEF ParkHead, Aside, QueueTypeOK, Settled
  <2> QED  BY <2>1, <2>2
<1>8. CASE EditFocus(c)  BY <1>8 DEF EditFocus, Aside, QueueTypeOK
<1> QED  BY <1>1, <1>2, <1>3, <1>4, <1>5, <1>6, <1>7, <1>8

LEMMA WorldIsAside ==
  ASSUME QueueTypeOK, \/ \E p \in Projects : KnowledgeChanges(p)
                      \/ Pass \/ UNCHANGED dispatchVars
  PROVE  Aside
<1>1. CASE UNCHANGED dispatchVars  BY <1>1 DEF dispatchVars, Aside, QueueTypeOK
<1>2. CASE Pass
  <2>1. now' \in Time  BY <1>2, DispatchAssumption DEF Pass, QueueTypeOK, Time
  <2> QED  BY <1>2, <2>1 DEF Pass, Aside, QueueTypeOK
<1>3. ASSUME NEW p \in Projects, KnowledgeChanges(p)  PROVE Aside
  BY <1>3 DEF KnowledgeChanges, Aside, QueueTypeOK
<1> QED  BY <1>1, <1>2, <1>3

--------------------------------------------------------------------------
(***************************************************************************)
(* The inductive invariant.  A claimed row stays running and stays its     *)
(* caller's until it is settled; while one caller's admission has the      *)
(* write lock nothing else runs; a mission that runs is in the slot.       *)
(***************************************************************************)
ClaimsHold ==
  /\ \A c \in Callers : Holding(c) /\ caller[c].row # None =>
        /\ rows[caller[c].row].st = "running"
        /\ rows[caller[c].row].m = caller[c].m
        /\ slot.by = None
  /\ \A c, d \in Callers :
        Holding(c) /\ Holding(d) /\ caller[c].row # None /\ caller[c].row = caller[d].row => c = d

AdmissionIsAlone ==
  \A c \in Callers : caller[c].step = "admitting" =>
     /\ slot.by = None
     /\ ~caller[c].m.gate
     /\ \A r \in Rows : rows[r].st = "running" => r = caller[c].row
     /\ \A d \in Callers : caller[d].step = "admitting" => d = c

RunnersHaveTheSlot ==
  \A c \in Callers : caller[c].step = "running" =>
     slot = [by |-> c, row |-> caller[c].row, m |-> caller[c].m]

RestHasNoRow == \A c \in Callers : caller[c].step = "none" => caller[c].row = None

DispatchInv == /\ QueueTypeOK
               /\ RestHasNoRow
               /\ ExecutesWhatWasClaimed
               /\ ClaimsHold
               /\ AdmissionIsAlone
               /\ RunnersHaveTheSlot

LEMMA DispatchStart == DispatchInit => DispatchInv
  BY RestsType, DispatchAssumption
  DEF DispatchInit, DispatchInv, QueueTypeOK, RestHasNoRow, ExecutesWhatWasClaimed, ClaimsHold, Holding,
      AdmissionIsAlone, RunnersHaveTheSlot, Time, NoRow

\* A caller whose row changed sides is the one caller that moved.
LEMMA AsideKeeps ==
  ASSUME DispatchInv, Aside
  PROVE  DispatchInv'
<1>0. /\ caller \in [Callers -> CallerType] /\ rows \in [Rows -> RowType]
      /\ caller' \in [Callers -> CallerType] /\ slot' = slot /\ slot \in SlotType
      /\ QueueTypeOK'
  BY DEF DispatchInv, Aside, QueueTypeOK
<1>1. \A c \in Callers : caller'[c].step \in {"claimed", "admitting", "running"} =>
                            caller'[c] = caller[c]
  <2>1. CASE caller' = caller  BY <2>1
  <2>2. ASSUME NEW d \in Callers, NEW x \in CallerType, Settled(x),
               caller' = [caller EXCEPT ![d] = x]
        PROVE  \A c \in Callers : caller'[c].step \in {"claimed", "admitting", "running"} =>
                            caller'[c] = caller[c]
    BY <1>0, <2>2 DEF Settled
  <2> QED  BY <2>1, <2>2 DEF Aside
<1>2. \A r \in Rows : rows[r].st = "running" \/ rows'[r].st = "running" => rows'[r] = rows[r]
  BY DEF Aside
<1>3. ExecutesWhatWasClaimed'
  BY <1>0, <1>2 DEF DispatchInv, ExecutesWhatWasClaimed, SlotType
<1>4. ClaimsHold'
  BY <1>0, <1>1, <1>2 DEF DispatchInv, ClaimsHold, Holding, CallerType
<1>5. AdmissionIsAlone'
  BY <1>0, <1>1, <1>2 DEF DispatchInv, AdmissionIsAlone
<1>6. RunnersHaveTheSlot'
  BY <1>0, <1>1 DEF DispatchInv, RunnersHaveTheSlot
<1>7. RestHasNoRow'
  BY <1>0 DEF DispatchInv, Aside, RestHasNoRow, Settled
<1> QED  BY <1>0, <1>3, <1>4, <1>5, <1>6, <1>7 DEF DispatchInv

\* A claim: nothing runs, and the head starts to.
LEMMA ClaimKeeps ==
  ASSUME DispatchInv, NEW c \in Callers, Claim(c)
  PROVE  DispatchInv'
<1>0. /\ caller \in [Callers -> CallerType] /\ rows \in [Rows -> RowType] /\ slot \in SlotType
  BY DEF DispatchInv, QueueTypeOK
<1>1. PICK r \in Rows :
        /\ rows[r].st = "queued"
        /\ rows' = [rows EXCEPT ![r].st = "running"]
        /\ caller' = [caller EXCEPT ![c] = [AtRest EXCEPT !.step = "claimed", !.row = r,
                                                         !.m = rows[r].m]]
  BY DEF Claim, IsHead, Due
<1> DEFINE x == [AtRest EXCEPT !.step = "claimed", !.row = r, !.m = rows[r].m]
           y == [rows[r] EXCEPT !.st = "running"]
<1>2. x \in CallerType /\ x.step = "claimed" /\ x.row = r /\ x.m = rows[r].m
  BY <1>0, RestsType DEF CallerType, CallerSteps, RowType
<1>3. y \in RowType /\ y.st = "running" /\ y.m = rows[r].m
  BY <1>0 DEF RowType, RowStatuses
<1>4. caller' = [caller EXCEPT ![c] = x] /\ rows' = [rows EXCEPT ![r] = y]
  BY <1>0, <1>1
<1>5. /\ slot' = slot /\ slot.by = None /\ \A q \in Rows : rows[q].st # "running"
      /\ \A d \in Callers : caller[d].step # "admitting"
  BY DEF Claim, SlotBusy, Writable
<1> HIDE DEF x, y
<1>6. QueueTypeOK'
  BY <1>0, <1>2, <1>3, <1>4 DEF DispatchInv, QueueTypeOK, Claim
<1>7. ExecutesWhatWasClaimed'
  BY <1>0, <1>4, <1>5 DEF ExecutesWhatWasClaimed
<1>8. \A d \in Callers : d # c /\ Holding(d) => caller[d].row = None
  BY <1>0, <1>5 DEF DispatchInv, ClaimsHold, CallerType
<1>9. ClaimsHold'
  BY <1>0, <1>2, <1>3, <1>4, <1>5, <1>8 DEF ClaimsHold, Holding
<1>10. AdmissionIsAlone'
  BY <1>0, <1>2, <1>4, <1>5 DEF AdmissionIsAlone
<1>11. RunnersHaveTheSlot'
  BY <1>0, <1>2, <1>4, <1>5 DEF DispatchInv, RunnersHaveTheSlot
<1>12. RestHasNoRow'
  BY <1>0, <1>2, <1>4 DEF DispatchInv, RestHasNoRow
<1> QED  BY <1>6, <1>7, <1>9, <1>10, <1>11, <1>12 DEF DispatchInv

\* A mission without a row claims nothing.
LEMMA RunDirectlyKeeps ==
  ASSUME DispatchInv, NEW c \in Callers, RunDirectly(c)
  PROVE  DispatchInv'
<1>0. /\ caller \in [Callers -> CallerType] /\ caller[c] \in CallerType /\ now \in Time
      /\ UNCHANGED <<now, rows, sched, stale, slot>>
  BY DEF DispatchInv, QueueTypeOK, RunDirectly
<1>1. PICK m \in Missions : caller' = [caller EXCEPT ![c].step = "claimed", ![c].m = m]
  BY DEF RunDirectly
<1> DEFINE x == [caller[c] EXCEPT !.step = "claimed", !.m = m]
<1>2. x \in CallerType  BY <1>0, StepType DEF CallerSteps
<1>3. /\ x.step = "claimed" /\ x.row = None /\ caller' = [caller EXCEPT ![c] = x]
      /\ caller[c].step = "none"
  BY <1>0, <1>1 DEF CallerType, DispatchInv, RestHasNoRow, RunDirectly, Free
<1> HIDE DEF x
<1>4. QueueTypeOK'
  BY <1>0, <1>2, <1>3 DEF DispatchInv, QueueTypeOK
<1>5. ExecutesWhatWasClaimed' /\ RestHasNoRow' /\ RunnersHaveTheSlot'
  BY <1>0, <1>3 DEF DispatchInv, ExecutesWhatWasClaimed, RestHasNoRow, RunnersHaveTheSlot
<1>6. ClaimsHold'
  BY <1>0, <1>3 DEF DispatchInv, ClaimsHold, Holding
<1>7. AdmissionIsAlone'
  BY <1>0, <1>3 DEF DispatchInv, AdmissionIsAlone
<1> QED  BY <1>4, <1>5, <1>6, <1>7 DEF DispatchInv

\* The admitting transaction begins.
LEMMA BeginAdmissionKeeps ==
  ASSUME DispatchInv, NEW c \in Callers, BeginAdmission(c)
  PROVE  DispatchInv'
<1>0. /\ caller \in [Callers -> CallerType] /\ caller[c] \in CallerType /\ now \in Time
      /\ UNCHANGED <<now, rows, sched, stale, slot>> /\ rows \in [Rows -> RowType]
  BY DEF DispatchInv, QueueTypeOK, BeginAdmission
<1> DEFINE x == [caller[c] EXCEPT !.step = "admitting"]
<1>1. x \in CallerType  BY <1>0, StepType DEF CallerSteps
<1>2. /\ x.step = "admitting" /\ x.row = caller[c].row /\ x.m = caller[c].m
      /\ caller' = [caller EXCEPT ![c] = x] /\ caller[c].step = "claimed"
  BY <1>0 DEF CallerType, BeginAdmission
<1>3. /\ slot.by = None /\ ~caller[c].m.gate
      /\ \A r \in Rows : rows[r].st = "running" => r = caller[c].row
      /\ \A d \in Callers : caller[d].step # "admitting"
  BY DEF BeginAdmission, Admissible, OthersBusy, Writable
<1> HIDE DEF x
<1>4. QueueTypeOK'
  BY <1>0, <1>1, <1>2 DEF DispatchInv, QueueTypeOK
<1>5. ExecutesWhatWasClaimed' /\ RestHasNoRow' /\ RunnersHaveTheSlot'
  BY <1>0, <1>2 DEF DispatchInv, ExecutesWhatWasClaimed, RestHasNoRow, RunnersHaveTheSlot
<1>6. ClaimsHold'
  BY <1>0, <1>2 DEF DispatchInv, ClaimsHold, Holding
<1>7. AdmissionIsAlone'
  BY <1>0, <1>2, <1>3 DEF AdmissionIsAlone
<1> QED  BY <1>4, <1>5, <1>6, <1>7 DEF DispatchInv

\* ... and commits: the caller's mission takes the slot.
LEMMA CommitAdmissionKeeps ==
  ASSUME DispatchInv, NEW c \in Callers, CommitAdmission(c)
  PROVE  DispatchInv'
<1>0. /\ caller \in [Callers -> CallerType] /\ caller[c] \in CallerType /\ now \in Time
      /\ UNCHANGED <<now, rows, sched, stale>> /\ rows \in [Rows -> RowType]
      /\ caller[c].step = "admitting"
      /\ slot' = [by |-> c, row |-> caller[c].row, m |-> caller[c].m]
  BY DEF DispatchInv, QueueTypeOK, CommitAdmission
<1> DEFINE x == [caller[c] EXCEPT !.step = "running"]
<1>1. x \in CallerType  BY <1>0, StepType DEF CallerSteps
<1>2. /\ x.step = "running" /\ x.row = caller[c].row /\ x.m = caller[c].m
      /\ caller' = [caller EXCEPT ![c] = x]
  BY <1>0 DEF CallerType, CommitAdmission
<1>3. /\ slot.by = None /\ ~caller[c].m.gate
      /\ \A r \in Rows : rows[r].st = "running" => r = caller[c].row
      /\ \A d \in Callers : caller[d].step = "admitting" => d = c
  BY <1>0 DEF DispatchInv, AdmissionIsAlone
<1>4. caller[c].row # None => rows[caller[c].row].st = "running" /\ rows[caller[c].row].m = caller[c].m
  BY <1>0 DEF DispatchInv, ClaimsHold, Holding
<1> HIDE DEF x
<1>5. QueueTypeOK'
  BY <1>0, <1>1, <1>2 DEF DispatchInv, QueueTypeOK, SlotType, CallerType
<1>6. ExecutesWhatWasClaimed'
  BY <1>0, <1>3, <1>4 DEF ExecutesWhatWasClaimed
<1>7. \A d \in Callers : d # c /\ Holding(d) => caller[d].row = None
  <2> SUFFICES ASSUME NEW d \in Callers, d # c, Holding(d), caller[d].row # None  PROVE FALSE
    OBVIOUS
  <2>1. caller[d].row \in Rows  BY <1>0 DEF CallerType
  <2>2. caller[d].row = caller[c].row
    BY <1>3, <2>1 DEF DispatchInv, ClaimsHold
  <2> QED  BY <1>0, <2>2 DEF DispatchInv, ClaimsHold, Holding
<1>8. ClaimsHold'
  BY <1>0, <1>2, <1>7 DEF ClaimsHold, Holding
<1>9. AdmissionIsAlone'
  BY <1>0, <1>2, <1>3 DEF AdmissionIsAlone
<1>10. RunnersHaveTheSlot'
  <2>1. \A d \in Callers : caller[d].step # "running"
    <3> SUFFICES ASSUME NEW d \in Callers, caller[d].step = "running"  PROVE FALSE
      OBVIOUS
    <3>1. slot.by = d  BY DEF DispatchInv, RunnersHaveTheSlot
    <3> QED  BY <1>3, <3>1, FocusAssumption
  <2> QED  BY <1>0, <1>2, <2>1 DEF RunnersHaveTheSlot
<1>11. RestHasNoRow'
  BY <1>0, <1>2 DEF DispatchInv, RestHasNoRow
<1> QED  BY <1>5, <1>6, <1>8, <1>9, <1>10, <1>11 DEF DispatchInv

\* What rows are when a caller's row, if it has one, is settled.
LEMMA SettledRow ==
  ASSUME QueueTypeOK, NEW c \in Callers, NEW st \in RowStatuses \ {"running"}, SettleRow(c, st)
  PROVE  /\ rows' \in [Rows -> RowType]
         /\ \A r \in Rows : r # caller[c].row => rows'[r] = rows[r]
         /\ \A r \in Rows : rows'[r].st = "running" => r # caller[c].row /\ rows'[r] = rows[r]
<1>0. rows \in [Rows -> RowType]  BY DEF QueueTypeOK
<1>1. CASE caller[c].row = None
  BY <1>0, <1>1, DispatchAssumption DEF SettleRow
<1>2. CASE caller[c].row # None
  <2> DEFINE r == caller[c].row
             y == [rows[r] EXCEPT !.st = st]
  <2>1. r \in Rows  BY <1>2 DEF QueueTypeOK, CallerType
  <2>2. y \in RowType /\ y.st = st  BY <1>0, <2>1 DEF RowType
  <2>3. rows' = [rows EXCEPT ![r] = y]  BY <1>0, <1>2, <2>1 DEF SettleRow
  <2> HIDE DEF r, y
  <2> QED  BY <1>0, <2>1, <2>2, <2>3 DEF r
<1> QED  BY <1>1, <1>2

\* A mission that is refused: its row stops, and nothing else was running.
LEMMA RefusalKeeps ==
  ASSUME DispatchInv, NEW c \in Callers, RefuseGated(c) \/ FailAdmission(c)
  PROVE  DispatchInv'
<1>0. /\ caller \in [Callers -> CallerType] /\ rows \in [Rows -> RowType] /\ slot \in SlotType
      /\ UNCHANGED <<now, sched, stale, slot>> /\ caller[c].step = "claimed"
      /\ caller' = [caller EXCEPT ![c] = AtRest]
      /\ \A d \in Callers : caller[d].step # "admitting"
  BY DEF DispatchInv, QueueTypeOK, RefuseGated, FailAdmission, Writable
<1>1. /\ rows' \in [Rows -> RowType]
      /\ \A r \in Rows : r # caller[c].row => rows'[r] = rows[r]
      /\ \A r \in Rows : rows'[r].st = "running" => r # caller[c].row /\ rows'[r] = rows[r]
  BY SettledRow DEF DispatchInv, RefuseGated, FailAdmission, RowStatuses
<1>2. QueueTypeOK'
  BY <1>0, <1>1, RestsType DEF DispatchInv, QueueTypeOK
<1>3. slot.by # None => caller[c].row = None
  BY <1>0 DEF DispatchInv, ClaimsHold, Holding
<1>4. ExecutesWhatWasClaimed'
  BY <1>0, <1>1, <1>3, DispatchAssumption DEF DispatchInv, ExecutesWhatWasClaimed, SlotType
<1>5. ClaimsHold'
  <2>1. ASSUME NEW d \in Callers, Holding(d)'
        PROVE  d # c /\ caller'[d] = caller[d] /\ Holding(d)
    BY <1>0, <2>1, RestsType DEF Holding
  <2>2. ASSUME NEW d \in Callers, Holding(d)', caller'[d].row # None
        PROVE  /\ rows'[caller'[d].row].st = "running"
               /\ rows'[caller'[d].row].m = caller'[d].m
               /\ slot'.by = None
    <3>1. d # c /\ caller'[d] = caller[d] /\ Holding(d)  BY <2>1, <2>2
    <3>2. caller[d].row \in Rows  BY <1>0, <2>2, <3>1 DEF CallerType
    <3>3. caller[d].row # caller[c].row
      BY <1>0, <2>2, <3>1 DEF DispatchInv, ClaimsHold, Holding
    <3>4. rows'[caller[d].row] = rows[caller[d].row]  BY <1>1, <3>2, <3>3
    <3> QED  BY <1>0, <2>2, <3>1, <3>4 DEF DispatchInv, ClaimsHold
  <2> QED  BY <2>1, <2>2 DEF DispatchInv, ClaimsHold
<1>6. AdmissionIsAlone'
  BY <1>0, RestsType DEF AdmissionIsAlone
<1>7. RunnersHaveTheSlot' /\ RestHasNoRow'
  BY <1>0, RestsType DEF DispatchInv, RunnersHaveTheSlot, RestHasNoRow
<1> QED  BY <1>2, <1>4, <1>5, <1>6, <1>7 DEF DispatchInv

\* A mission that ends gives its row and the slot back.
LEMMA EndMissionKeeps ==
  ASSUME DispatchInv, NEW c \in Callers, EndMission(c)
  PROVE  DispatchInv'
<1>0. /\ caller \in [Callers -> CallerType] /\ rows \in [Rows -> RowType] /\ slot \in SlotType
      /\ UNCHANGED <<now, sched, stale>> /\ caller[c].step = "running" /\ slot' = NoSlot
      /\ caller' = [caller EXCEPT ![c] = AtRest]
      /\ \A d \in Callers : caller[d].step # "admitting"
  BY DEF DispatchInv, QueueTypeOK, EndMission, Writable
<1>1. /\ rows' \in [Rows -> RowType]
      /\ \A r \in Rows : rows'[r].st = "running" => r # caller[c].row /\ rows'[r] = rows[r]
  BY SettledRow DEF DispatchInv, EndMission, RowStatuses
<1>2. slot.by = c /\ slot.row = caller[c].row
  BY <1>0 DEF DispatchInv, RunnersHaveTheSlot
<1>3. \A r \in Rows : rows'[r].st # "running"
  BY <1>1, <1>2, FocusAssumption DEF DispatchInv, ExecutesWhatWasClaimed
<1>4. \A d \in Callers : Holding(d) => caller[d].row = None
  BY <1>2, FocusAssumption DEF DispatchInv, ClaimsHold
<1>5. \A d \in Callers : caller'[d].step # "running" /\ (Holding(d)' => caller'[d].row = None)
  <2> SUFFICES ASSUME NEW d \in Callers
               PROVE  caller'[d].step # "running" /\ (Holding(d)' => caller'[d].row = None)
    OBVIOUS
  <2>1. CASE d = c  BY <1>0, <2>1, RestsType DEF Holding
  <2>2. CASE d # c
    <3>1. caller[d].step # "running"
      BY <1>2, <2>2, FocusAssumption DEF DispatchInv, RunnersHaveTheSlot
    <3> QED  BY <1>0, <1>4, <2>2, <3>1 DEF Holding
  <2> QED  BY <2>1, <2>2
<1>6. QueueTypeOK'
  BY <1>0, <1>1, RestsType DEF DispatchInv, QueueTypeOK
<1>7. ExecutesWhatWasClaimed' /\ ClaimsHold' /\ RunnersHaveTheSlot'
  BY <1>0, <1>3, <1>5, RestsType DEF ExecutesWhatWasClaimed, ClaimsHold, RunnersHaveTheSlot
<1>8. AdmissionIsAlone' /\ RestHasNoRow'
  BY <1>0, RestsType DEF DispatchInv, AdmissionIsAlone, RestHasNoRow
<1> QED  BY <1>6, <1>7, <1>8 DEF DispatchInv

\* Recovery ends what nobody holds any more.
LEMMA RecoverKeeps ==
  ASSUME DispatchInv, NEW c \in Callers, Recover(c)
  PROVE  DispatchInv'
<1>0. /\ caller \in [Callers -> CallerType] /\ rows \in [Rows -> RowType] /\ slot \in SlotType
      /\ UNCHANGED <<now, sched, stale, caller>>
      /\ \A d \in Callers : caller[d].step # "admitting"
  BY DEF DispatchInv, QueueTypeOK, Recover, Writable
<1>1. AdmissionIsAlone' /\ RestHasNoRow'
  BY <1>0 DEF DispatchInv, AdmissionIsAlone, RestHasNoRow
<1>2. CASE /\ slot.by # None /\ caller[slot.by].step # "running"
           /\ slot' = NoSlot
           /\ rows' = IF slot.row = None THEN rows ELSE [rows EXCEPT ![slot.row].st = "failed"]
  <2>1. /\ rows' \in [Rows -> RowType]
        /\ \A r \in Rows : rows'[r].st = "running" => r # slot.row /\ rows[r].st = "running"
    <3>1. CASE slot.row = None
      BY <1>0, <1>2, <3>1, DispatchAssumption
    <3>2. CASE slot.row # None
      <4> DEFINE y == [rows[slot.row] EXCEPT !.st = "failed"]
      <4>1. slot.row \in Rows  BY <1>0, <3>2 DEF SlotType
      <4>2. y \in RowType /\ y.st = "failed"  BY <1>0, <4>1 DEF RowType, RowStatuses
      <4>3. rows' = [rows EXCEPT ![slot.row] = y]  BY <1>0, <1>2, <3>2
      <4> HIDE DEF y
      <4> QED  BY <1>0, <4>1, <4>2, <4>3
    <3> QED  BY <3>1, <3>2
  <2>2. \A r \in Rows : rows'[r].st # "running"
    BY <1>2, <2>1 DEF DispatchInv, ExecutesWhatWasClaimed
  <2>3. \A d \in Callers : caller[d].step # "running" /\ (Holding(d) => caller[d].row = None)
    BY <1>2 DEF DispatchInv, RunnersHaveTheSlot, ClaimsHold
  <2>4. QueueTypeOK'
    BY <1>0, <1>2, <2>1, RestsType DEF DispatchInv, QueueTypeOK
  <2>5. ExecutesWhatWasClaimed' /\ ClaimsHold' /\ RunnersHaveTheSlot'
    BY <1>0, <1>2, <2>2, <2>3, RestsType
    DEF ExecutesWhatWasClaimed, ClaimsHold, Holding, RunnersHaveTheSlot
  <2> QED  BY <1>1, <2>4, <2>5 DEF DispatchInv
<1>3. ASSUME NEW r \in Rows, slot.by = None, UNCHANGED slot, Orphaned(r),
             rows' = [rows EXCEPT ![r].st = "failed"]
      PROVE  DispatchInv'
  <2> DEFINE y == [rows[r] EXCEPT !.st = "failed"]
  <2>1. y \in RowType /\ y.st = "failed"  BY <1>0 DEF RowType, RowStatuses
  <2>2. rows' = [rows EXCEPT ![r] = y]  BY <1>0, <1>3
  <2> HIDE DEF y
  <2>3. QueueTypeOK'
    BY <1>0, <1>3, <2>1, <2>2 DEF DispatchInv, QueueTypeOK
  <2>4. ExecutesWhatWasClaimed' /\ RunnersHaveTheSlot'
    BY <1>0, <1>3, <2>1, <2>2 DEF DispatchInv, ExecutesWhatWasClaimed, RunnersHaveTheSlot
  <2>5. \A d \in Callers : Holding(d) => caller[d].row # r
    BY <1>3 DEF Orphaned, Holding
  <2>6. ClaimsHold'
    BY <1>0, <1>3, <2>2, <2>5 DEF DispatchInv, ClaimsHold, Holding
  <2> QED  BY <1>1, <2>3, <2>4, <2>6 DEF DispatchInv
<1> QED  BY <1>2, <1>3 DEF Recover

--------------------------------------------------------------------------
\* Every step keeps the invariant, and only a claim takes a row.
LEMMA DispatchKeeps == DispatchInv /\ [DispatchNext]_dispatchVars => DispatchInv'
<1> SUFFICES ASSUME DispatchInv, [DispatchNext]_dispatchVars  PROVE DispatchInv'
  OBVIOUS
<1>0. QueueTypeOK  BY DEF DispatchInv
<1>1. ASSUME NEW c \in Callers,
             \/ CheckAddition(c) \/ Observe(c) \/ Review(c) \/ ReviewNamed(c) \/ BoundReview(c)
             \/ ReviewParking(c) \/ Quit(c)
      PROVE  DispatchInv'
  BY <1>0, <1>1, ReviewsAreAside, AsideKeeps
<1>2. ASSUME NEW c \in Callers,
             \/ \E due \in now..MaxNow : Enqueue(c, due)
             \/ CreateSchedule(c) \/ SetScheduleEnabled(c) \/ ResetRow(c) \/ Park(c) \/ Unpark(c)
             \/ ParkHead(c) \/ EditFocus(c)
      PROVE  DispatchInv'
  BY <1>0, <1>2, WritesAreAside, AsideKeeps
<1>3. ASSUME NEW c \in Callers, Materialize(c)  PROVE DispatchInv'
  BY <1>0, <1>3, MaterializeIsAside, AsideKeeps
<1>4. ASSUME \/ \E p \in Projects : KnowledgeChanges(p)
             \/ Pass \/ UNCHANGED dispatchVars
      PROVE  DispatchInv'
  BY <1>0, <1>4, WorldIsAside, AsideKeeps
<1>5. ASSUME NEW c \in Callers,
             \/ Claim(c) \/ RunDirectly(c) \/ RefuseGated(c) \/ FailAdmission(c)
             \/ BeginAdmission(c) \/ CommitAdmission(c) \/ EndMission(c) \/ Recover(c)
      PROVE  DispatchInv'
  BY <1>5, ClaimKeeps, RunDirectlyKeeps, RefusalKeeps, BeginAdmissionKeeps, CommitAdmissionKeeps,
     EndMissionKeeps, RecoverKeeps
<1> QED  BY <1>1, <1>2, <1>3, <1>4, <1>5 DEF DispatchNext

(***************************************************************************)
(* What holds of rows, callers and the slot after any commands, and what   *)
(* the theorems below are read from (the transactions of core.py).         *)
(***************************************************************************)
THEOREM DispatchIsConsistent == DispatchSpec => []DispatchInv
<1> QED  BY DispatchStart, DispatchKeeps, PTL DEF DispatchSpec

(***************************************************************************)
(* Type correctness of the queue, the schedules, the slot and the focus,   *)
(* whatever callers do (QueueDispatch's columns of mission_queue and       *)
(* schedules).                                                             *)
(***************************************************************************)
THEOREM DispatchTypeCorrect == DispatchSpec => []DispatchTypeOK
<1>1. FocusInv /\ DispatchInv => DispatchTypeOK
  BY TypesNamed DEF FocusInv, DispatchInv, QueueTypeOK
<1> QED  BY <1>1, FocusIsHeld, DispatchIsConsistent, PTL

(***************************************************************************)
(* A job executes only what its caller claimed and was admitted for, one   *)
(* at a time, and a mission that needs the owner never executes (the       *)
(* admitting transaction of run, core.py).                                 *)
(***************************************************************************)
THEOREM OnlyTheClaimedExecutes == DispatchSpec => []ExecutesWhatWasClaimed
<1>1. DispatchInv => ExecutesWhatWasClaimed  BY DEF DispatchInv
<1> QED  BY <1>1, DispatchIsConsistent, PTL

--------------------------------------------------------------------------
\* A step that claims nothing anew, or claims no row.
LEMMA NothingClaimed ==
  ASSUME NEW c \in Callers, NEW x \in CallerType, QueueTypeOK,
         caller' = [caller EXCEPT ![c] = x], x.step # "claimed" \/ x.row = None
  PROVE  \A d \in Callers, r \in Rows :
            ~(caller[d].step # "claimed" /\ caller'[d].step = "claimed" /\ caller'[d].row = r)
  BY DispatchAssumption DEF QueueTypeOK

(***************************************************************************)
(* The row a run-next claims is the row its preflight reviewed, if one was *)
(* reviewed, and no due row outranks it (claim_next_queue_item).           *)
(***************************************************************************)
THEOREM ClaimsTakeTheReviewedHead == DispatchSpec => ClaimsReviewedHead
<1> DEFINE Taken(c, r) == caller[c].step # "claimed" /\ caller'[c].step = "claimed" /\ caller'[c].row = r
           Rightly == \A c \in Callers, r \in Rows : Taken(c, r) =>
                        /\ caller[c].row \in {None, r}
                        /\ rows[r].st = "queued" /\ rows'[r].st = "running"
                        /\ \A q \in Rows : Due(q) => ~Outranks(q, r)
<1>1. ASSUME DispatchInv, DispatchNext  PROVE Rightly
  <2>0. /\ QueueTypeOK /\ caller \in [Callers -> CallerType] /\ rows \in [Rows -> RowType]
        /\ now \in Time
    BY <1>1 DEF DispatchInv, QueueTypeOK
  <2>1. ASSUME Aside  PROVE Rightly
    <3>1. CASE caller' = caller  BY <3>1
    <3>2. ASSUME NEW c \in Callers, NEW x \in CallerType, Settled(x),
                 caller' = [caller EXCEPT ![c] = x]
          PROVE  Rightly
      <4>1. x.step # "claimed"  BY <3>2 DEF Settled
      <4> QED  BY <2>0, <3>2, <4>1, NothingClaimed
    <3> QED  BY <2>1, <3>1, <3>2 DEF Aside
  <2>2. ASSUME NEW c \in Callers, Claim(c)  PROVE Rightly
    <3>1. PICK r \in Rows :
            /\ IsHead(r) /\ AsReviewed(c, r)
            /\ rows' = [rows EXCEPT ![r].st = "running"]
            /\ caller' = [caller EXCEPT ![c] = [AtRest EXCEPT !.step = "claimed", !.row = r,
                                                             !.m = rows[r].m]]
      BY <2>2 DEF Claim
    <3>2. rows[r].st = "queued" /\ rows'[r].st = "running"
      BY <2>0, <3>1 DEF IsHead, Due, RowType
    <3>3. \A q \in Rows : Due(q) => ~Outranks(q, r)  BY <3>1 DEF IsHead
    <3>4. ASSUME NEW d \in Callers, NEW q \in Rows, Taken(d, q)  PROVE d = c /\ q = r
      <4> DEFINE x == [AtRest EXCEPT !.step = "claimed", !.row = r, !.m = rows[r].m]
      <4>0. x.row = r /\ caller' = [caller EXCEPT ![c] = x]
        BY <3>1, RestsType DEF CallerType
      <4> HIDE DEF x
      <4>1. d = c  BY <2>0, <3>4, <4>0
      <4>2. caller'[c].row = r  BY <2>0, <4>0
      <4> QED  BY <3>4, <4>1, <4>2
    <3> QED  BY <3>1, <3>2, <3>3, <3>4 DEF AsReviewed
  <2>3. ASSUME NEW c \in Callers, RunDirectly(c)  PROVE Rightly
    <3>1. PICK m \in Missions : caller' = [caller EXCEPT ![c].step = "claimed", ![c].m = m]
      BY <2>3 DEF RunDirectly
    <3> DEFINE x == [caller[c] EXCEPT !.step = "claimed", !.m = m]
    <3>2. x \in CallerType  BY <2>0, StepType DEF CallerSteps
    <3>3. caller[c].row = None  BY <1>1, <2>3 DEF DispatchInv, RestHasNoRow, RunDirectly, Free
    <3>4. caller[c] \in CallerType  BY <2>0
    <3>5. x.row = None /\ caller' = [caller EXCEPT ![c] = x]
      BY <2>0, <3>1, <3>3, <3>4 DEF CallerType
    <3> HIDE DEF x
    <3> QED  BY <2>0, <3>2, <3>5, NothingClaimed
  <2>4. ASSUME NEW c \in Callers, RefuseGated(c) \/ FailAdmission(c) \/ EndMission(c)
        PROVE  Rightly
    <3>1. caller' = [caller EXCEPT ![c] = AtRest]
      BY <2>4 DEF RefuseGated, FailAdmission, EndMission
    <3> QED  BY <2>0, <3>1, RestsType, NothingClaimed
  <2>5. ASSUME NEW c \in Callers, BeginAdmission(c) \/ CommitAdmission(c)  PROVE Rightly
    <3>1. PICK s \in {"admitting", "running"} : caller' = [caller EXCEPT ![c].step = s]
      BY <2>5 DEF BeginAdmission, CommitAdmission
    <3> QED  BY <2>0, <3>1 DEF CallerType
  <2>6. ASSUME NEW c \in Callers, Recover(c)  PROVE Rightly
    BY <2>6 DEF Recover
  <2> HIDE DEF Rightly
  <2>7. ASSUME NEW c \in Callers,
               \/ CheckAddition(c) \/ Observe(c) \/ Review(c) \/ ReviewNamed(c) \/ BoundReview(c)
               \/ ReviewParking(c) \/ Quit(c)
        PROVE  Rightly
    BY <2>0, <2>1, <2>7, ReviewsAreAside
  <2>8. ASSUME NEW c \in Callers,
               \/ \E due \in now..MaxNow : Enqueue(c, due)
               \/ CreateSchedule(c) \/ SetScheduleEnabled(c) \/ ResetRow(c) \/ Park(c) \/ Unpark(c)
               \/ ParkHead(c) \/ EditFocus(c)
        PROVE  Rightly
    BY <2>0, <2>1, <2>8, WritesAreAside
  <2>9. ASSUME NEW c \in Callers, Materialize(c)  PROVE Rightly
    BY <2>0, <2>1, <2>9, MaterializeIsAside
  <2>10. ASSUME \/ \E p \in Projects : KnowledgeChanges(p)
                \/ Pass
         PROVE  Rightly
    BY <2>0, <2>1, <2>10, WorldIsAside
  <2> QED  BY <1>1, <2>2, <2>3, <2>4, <2>5, <2>6, <2>7, <2>8, <2>9, <2>10 DEF DispatchNext
<1>2. DispatchInv /\ [DispatchNext]_dispatchVars =>
        [\A c \in Callers, r \in Rows :
           (caller[c].step # "claimed" /\ caller'[c].step = "claimed" /\ caller'[c].row = r) =>
              /\ caller[c].row \in {None, r}
              /\ rows[r].st = "queued" /\ rows'[r].st = "running"
              /\ \A q \in Rows : Due(q) => ~Outranks(q, r)]_dispatchVars
  BY <1>1
<1> QED  BY <1>2, DispatchIsConsistent, PTL DEF DispatchSpec, ClaimsReviewedHead

--------------------------------------------------------------------------
(* Dates of schedules. *)

LEMMA Division ==
  ASSUME NEW a \in Int, NEW n \in Nat \ {0}
  PROVE  a \div n \in Int /\ n * (a \div n) <= a /\ a < n * (a \div n) + n
  OBVIOUS

\* A quotient is the only number with that property.
LEMMA QuotientIsUnique ==
  ASSUME NEW a \in Int, NEW n \in Nat \ {0}, NEW p \in Int, NEW q \in Int,
         n * p <= a, a < n * p + n, n * q <= a, a < n * q + n
  PROVE  p = q
<1>1. CASE p < q
  <2>1. p + 1 <= q  BY <1>1
  <2>2. n * (p + 1) <= n * q  BY <2>1
  <2>3. n * (p + 1) = n * p + n  OBVIOUS
  <2> QED  BY <2>2, <2>3
<1>2. CASE q < p
  <2>1. q + 1 <= p  BY <1>2
  <2>2. n * (q + 1) <= n * p  BY <2>1
  <2>3. n * (q + 1) = n * q + n  OBVIOUS
  <2> QED  BY <2>2, <2>3
<1> QED  BY <1>1, <1>2

\* k periods later every quotient is k less.
LEMMA QuotientsShift ==
  ASSUME NEW a \in Int, NEW n \in Nat \ {0}, NEW k \in Int
  PROVE  (a - n * k) \div n = (a \div n) - k
<1> DEFINE p == (a \div n) - k
<1>1. a \div n \in Int /\ n * (a \div n) <= a /\ a < n * (a \div n) + n  BY Division
<1>2. n * k \in Int /\ p \in Int  BY <1>1
<1>3. n * p = n * (a \div n) - n * k  BY <1>1
<1>4. n * p <= a - n * k /\ a - n * k < n * p + n  BY <1>1, <1>2, <1>3
<1> DEFINE b == a - n * k
<1>5. b \in Int  BY <1>2
<1>6. b \div n \in Int /\ n * (b \div n) <= b /\ b < n * (b \div n) + n  BY <1>5, Division
<1> HIDE DEF p
<1>7. p = b \div n  BY <1>2, <1>4, <1>5, <1>6, QuotientIsUnique
<1> QED  BY <1>7 DEF p

Period(t, next, every) == (t - next) \div every

\* What is before next is in an earlier period than what is not.
LEMMA EarlierPeriod ==
  ASSUME NEW t \in Int, NEW next \in Int, NEW every \in Nat \ {0}
  PROVE  /\ t < next <=> Period(t, next, every) < 0
         /\ Period(t, next, every) \in Int
<1> DEFINE a == t - next
           p == a \div every
<1>1. a \in Int /\ (t < next <=> a < 0)  OBVIOUS
<1> HIDE DEF a
<1>2. p \in Int /\ every * p <= a /\ a < every * p + every  BY <1>1, Division
<1> HIDE DEF p
<1>3. CASE p < 0
  <2>1. p + 1 <= 0  BY <1>2, <1>3
  <2>2. every * (p + 1) <= 0  BY <1>2, <2>1
  <2>3. every * (p + 1) = every * p + every  BY <1>2
  <2>4. every * p \in Int  BY <1>2
  <2> QED  BY <1>1, <1>2, <1>3, <2>2, <2>3, <2>4 DEF p, a, Period
<1>4. CASE ~(p < 0)
  <2>1. every * p >= 0  BY <1>2, <1>4
  <2> QED  BY <1>1, <1>2, <1>4, <2>1 DEF p, a, Period
<1> QED  BY <1>3, <1>4

\* The next date lies after obs, in the period after that of obs.
LEMMA NextDateShifts ==
  ASSUME NEW s \in ScheduleType, NEW obs \in Int, NEW t \in Int
  PROVE  /\ NextDate(s, obs) \in Int
         /\ Period(t, NextDate(s, obs), s.every) =
              Period(t, s.next, s.every) - (Period(obs, s.next, s.every) + 1)
<1>0. s.next \in Int /\ s.every \in Nat \ {0}  BY DEF ScheduleType
<1> DEFINE k == Period(obs, s.next, s.every) + 1
           a == t - s.next
           n == s.every
<1>0a. Period(obs, s.next, s.every) \in Int
  <2> HIDE DEF k, a, n
  <2> QED  BY <1>0, EarlierPeriod
<1>1. k \in Int /\ a \in Int  BY <1>0, <1>0a
<1>2. NextDate(s, obs) = s.next + n * k  BY DEF NextDate, Period
<1> HIDE DEF k
<1>3. n * k \in Int  BY <1>0, <1>1
<1>4. t - NextDate(s, obs) = a - n * k  BY <1>0, <1>2, <1>3
<1>5. (a - n * k) \div n = (a \div n) - k  BY <1>0, <1>1, QuotientsShift
<1> QED  BY <1>0, <1>2, <1>3, <1>4, <1>5 DEF Period, k

(* The rows of a schedule lie before its next date, in different periods. *)
DatesInv ==
  \A s \in Schedules :
     /\ \A r \in Rows : rows[r].src = s => sched[s].made /\ rows[r].due < sched[s].next
     /\ \A q, r \in Rows : rows[q].src = s /\ rows[r].src = s /\ q # r =>
           Period(rows[q].due, sched[s].next, sched[s].every)
             # Period(rows[r].due, sched[s].next, sched[s].every)

\* Rows keep their source and date or get none; dates move for new schedules only.
LEMMA DatesFrame ==
  ASSUME DatesInv,
         \A r \in Rows : \/ rows'[r].src = None
                         \/ rows'[r].src = rows[r].src /\ rows'[r].due = rows[r].due,
         \A s \in Schedules : \/ ~sched[s].made
                              \/ /\ sched'[s].made /\ sched'[s].next = sched[s].next
                                 /\ sched'[s].every = sched[s].every
  PROVE  DatesInv'
  BY DispatchAssumption DEF DatesInv

LEMMA MaterializeKeepsDates ==
  ASSUME QueueTypeOK, DatesInv, NEW c \in Callers, Materialize(c)
  PROVE  DatesInv'
<1> DEFINE obs == caller[c].obs
           due == DueSchedules(obs)
<1>0. /\ obs \in Int /\ due \subseteq Schedules
      /\ rows \in [Rows -> RowType] /\ sched \in [Schedules -> ScheduleType]
  BY DispatchAssumption DEF QueueTypeOK, CallerType, DueSchedules, Time
<1>1. PICK new \in [due -> {r \in Rows : rows[r].st = "none"}] :
        /\ rows' = [r \in Rows |->
                      IF \E s \in due : new[s] = r
                        THEN LET s == CHOOSE s \in due : new[s] = r IN
                             [st |-> "queued", m |-> sched[s].m, prio |-> sched[s].prio,
                              due |-> obs, made |-> now, src |-> s]
                        ELSE rows[r]]
        /\ sched' = [s \in Schedules |->
                       IF s \in due THEN [sched[s] EXCEPT !.next = NextDate(sched[s], obs)]
                                    ELSE sched[s]]
        /\ \A s, t \in due : s # t => new[s] # new[t]
  BY DEF Materialize
<1>2. \A s \in due : sched[s].made /\ sched[s].next <= obs  BY DEF DueSchedules
<1> HIDE DEF due, obs
\* A row is new, from the one schedule it was made for, or as it was.
<1>3. ASSUME NEW r \in Rows
      PROVE  \/ rows'[r] = rows[r]
             \/ rows'[r].src \in due /\ rows'[r].due = obs /\ new[rows'[r].src] = r
  <2>1. CASE \E s \in due : new[s] = r
    <3> DEFINE s == CHOOSE s \in due : new[s] = r
    <3>1. s \in due /\ new[s] = r  BY <2>1
    <3>2. rows'[r] = [st |-> "queued", m |-> sched[s].m, prio |-> sched[s].prio,
                      due |-> obs, made |-> now, src |-> s]
      BY <1>1, <2>1
    <3> HIDE DEF s
    <3> QED  BY <3>1, <3>2
  <2> QED  BY <1>1, <2>1
<1>4. ASSUME NEW s \in Schedules
      PROVE  /\ \A r \in Rows : rows'[r].src = s => sched'[s].made /\ rows'[r].due < sched'[s].next
             /\ \A q, r \in Rows : rows'[q].src = s /\ rows'[r].src = s /\ q # r =>
                   Period(rows'[q].due, sched'[s].next, sched'[s].every)
                     # Period(rows'[r].due, sched'[s].next, sched'[s].every)
  <2>0. \A r \in Rows : rows[r].due \in Int  BY <1>0 DEF RowType
  <2>1. CASE s \notin due
    <3>1. sched'[s] = sched[s]  BY <1>1, <2>1
    <3>2. \A r \in Rows : rows'[r].src = s => rows'[r] = rows[r]  BY <1>3, <2>1
    <3> QED  BY <3>1, <3>2 DEF DatesInv
  <2>2. CASE s \in due
    <3> DEFINE old == sched[s]
               next == NextDate(old, obs)
               k == Period(obs, old.next, old.every) + 1
    <3>1. old \in ScheduleType /\ old.next \in Int /\ old.every \in Nat \ {0}
      BY <1>0 DEF ScheduleType
    <3>2. /\ sched'[s].next = next /\ sched'[s].every = old.every /\ sched'[s].made = old.made
      BY <1>1, <2>2, <3>1 DEF ScheduleType
    <3>3. old.made /\ old.next <= obs  BY <1>2, <2>2
    <3>4. Period(obs, old.next, old.every) \in Int /\ Period(obs, old.next, old.every) >= 0
      <4> HIDE DEF old, next, k
      <4>1. Period(obs, old.next, old.every) \in Int  BY <1>0, <3>1, EarlierPeriod
      <4>2. ~(Period(obs, old.next, old.every) < 0)
        <5>1. ~(obs < old.next)  BY <1>0, <3>1, <3>3
        <5> QED  BY <1>0, <3>1, <5>1, EarlierPeriod
      <4> QED  BY <4>1, <4>2
    <3>5. k \in Int /\ k >= 1  BY <3>4
    <3>6. next \in Int /\ \A t \in Int : Period(t, next, old.every) = Period(t, old.next, old.every) - k
      BY <1>0, <3>1, NextDateShifts
    <3> HIDE DEF k, next, old
    \* Of rows that were there the period is negative, and obs's is the last one.
    <3>7. Period(obs, next, old.every) = -1
      BY <1>0, <3>4, <3>6 DEF k
    <3>8. ASSUME NEW r \in Rows, rows[r].src = s
          PROVE  /\ Period(rows[r].due, old.next, old.every) \in Int
                 /\ Period(rows[r].due, old.next, old.every) < 0
                 /\ Period(rows[r].due, next, old.every) < -1
      <4>1. rows[r].due < old.next  BY <3>8 DEF DatesInv, old
      <4>2. /\ Period(rows[r].due, old.next, old.every) \in Int
            /\ Period(rows[r].due, old.next, old.every) < 0
        BY <2>0, <3>1, <4>1, EarlierPeriod
      <4> QED  BY <2>0, <3>5, <3>6, <4>2
    <3>9. ASSUME NEW r \in Rows, rows'[r].src = s
          PROVE  \/ rows[r].src = s /\ rows'[r].due = rows[r].due
                 \/ rows'[r].due = obs /\ new[s] = r
      BY <1>3, <3>9
    <3>10. ASSUME NEW r \in Rows, rows'[r].src = s
           PROVE  sched'[s].made /\ rows'[r].due < sched'[s].next
      <4>1. rows'[r].due \in Int /\ Period(rows'[r].due, next, old.every) < 0
        <5>1. CASE rows[r].src = s /\ rows'[r].due = rows[r].due
          <6>1. Period(rows[r].due, next, old.every) = Period(rows[r].due, old.next, old.every) - k
            BY <2>0, <3>6
          <6> QED  BY <2>0, <3>5, <3>8, <5>1, <6>1
        <5>2. CASE rows'[r].due = obs  BY <1>0, <3>7, <5>2
        <5> QED  BY <3>9, <3>10, <5>1, <5>2
      <4> QED  BY <3>1, <3>2, <3>3, <3>6, <4>1, EarlierPeriod
    <3>11. ASSUME NEW q \in Rows, NEW r \in Rows, rows'[q].src = s, rows'[r].src = s, q # r
           PROVE  Period(rows'[q].due, sched'[s].next, sched'[s].every)
                    # Period(rows'[r].due, sched'[s].next, sched'[s].every)
      <4>1. CASE /\ rows[q].src = s /\ rows'[q].due = rows[q].due
                 /\ rows[r].src = s /\ rows'[r].due = rows[r].due
        <5>1. Period(rows[q].due, old.next, old.every) # Period(rows[r].due, old.next, old.every)
          BY <3>11, <4>1 DEF DatesInv, old
        <5> QED  BY <2>0, <3>2, <3>5, <3>6, <3>8, <4>1, <5>1
      <4>2. CASE rows[q].src = s /\ rows'[q].due = rows[q].due /\ rows'[r].due = obs
        BY <2>0, <3>1, <3>2, <3>6, <3>7, <3>8, <4>2, EarlierPeriod
      <4>3. CASE rows[r].src = s /\ rows'[r].due = rows[r].due /\ rows'[q].due = obs
        BY <2>0, <3>1, <3>2, <3>6, <3>7, <3>8, <4>3, EarlierPeriod
      <4> QED  BY <3>9, <3>11, <4>1, <4>2, <4>3
    <3> QED  BY <3>10, <3>11
  <2> QED  BY <2>1, <2>2
<1> QED  BY <1>4 DEF DatesInv

\* A status is all that changes of a row, if one does.
LEMMA StatusKeepsDates ==
  ASSUME QueueTypeOK, DatesInv, UNCHANGED sched,
         rows' = rows \/ \E r, st : rows' = [rows EXCEPT ![r].st = st]
  PROVE  DatesInv'
<1>1. \A q \in Rows : rows'[q].src = rows[q].src /\ rows'[q].due = rows[q].due
  <2>1. CASE rows' = rows  BY <2>1
  <2>2. ASSUME NEW r, NEW st, rows' = [rows EXCEPT ![r].st = st]
        PROVE  \A q \in Rows : rows'[q].src = rows[q].src /\ rows'[q].due = rows[q].due
    BY <2>2 DEF QueueTypeOK, RowType
  <2> QED  BY <2>1, <2>2
<1>2. \A s \in Schedules : \/ ~sched[s].made
                           \/ /\ sched'[s].made /\ sched'[s].next = sched[s].next
                              /\ sched'[s].every = sched[s].every
  OBVIOUS
<1> QED  BY <1>1, <1>2, DatesFrame

LEMMA DatesKept == DispatchInv /\ DatesInv /\ [DispatchNext]_dispatchVars => DatesInv'
<1> SUFFICES ASSUME DispatchInv, DatesInv, [DispatchNext]_dispatchVars  PROVE DatesInv'
  OBVIOUS
<1>0. /\ QueueTypeOK /\ rows \in [Rows -> RowType] /\ sched \in [Schedules -> ScheduleType]
  BY DEF DispatchInv, QueueTypeOK
<1>1. ASSUME NEW c \in Callers,
             \/ CheckAddition(c) \/ Observe(c) \/ Review(c) \/ ReviewNamed(c) \/ BoundReview(c)
             \/ ReviewParking(c) \/ Quit(c) \/ RunDirectly(c) \/ BeginAdmission(c)
             \/ CommitAdmission(c) \/ EditFocus(c)
      PROVE  DatesInv'
  BY <1>0, <1>1, StatusKeepsDates
  DEF CheckAddition, Observe, Review, ReviewNamed, BoundReview, ReviewParking, Quit, RunDirectly,
      BeginAdmission, CommitAdmission, EditFocus
<1>2. ASSUME NEW c \in Callers,
             \/ ResetRow(c) \/ Park(c) \/ Unpark(c) \/ ParkHead(c) \/ Claim(c) \/ RefuseGated(c)
             \/ FailAdmission(c) \/ EndMission(c) \/ Recover(c)
      PROVE  DatesInv'
  BY <1>0, <1>2, StatusKeepsDates
  DEF ResetRow, Park, Unpark, ParkHead, ParkRow, Claim, RefuseGated, FailAdmission, EndMission,
      SettleRow, Recover
<1>3. ASSUME NEW c \in Callers, NEW due \in now..MaxNow, Enqueue(c, due)  PROVE DatesInv'
  <2>1. \A r \in Rows : \/ rows'[r].src = None
                        \/ rows'[r].src = rows[r].src /\ rows'[r].due = rows[r].due
    BY <1>0, <1>3 DEF Enqueue
  <2>2. sched' = sched  BY <1>3 DEF Enqueue
  <2> QED  BY <2>1, <2>2, DatesFrame
<1>4. ASSUME NEW c \in Callers, CreateSchedule(c)  PROVE DatesInv'
  <2>1. \A s \in Schedules : \/ ~sched[s].made \/ sched'[s] = sched[s]
    BY <1>0, <1>4 DEF CreateSchedule
  <2>2. rows' = rows  BY <1>4 DEF CreateSchedule
  <2> QED  BY <2>1, <2>2, DatesFrame
<1>5. ASSUME NEW c \in Callers, SetScheduleEnabled(c)  PROVE DatesInv'
  <2>1. \A s \in Schedules : /\ sched'[s].made = sched[s].made /\ sched'[s].next = sched[s].next
                             /\ sched'[s].every = sched[s].every
    BY <1>0, <1>5 DEF SetScheduleEnabled, ScheduleType
  <2>2. rows' = rows  BY <1>5 DEF SetScheduleEnabled
  <2> QED  BY <2>1, <2>2, DatesFrame
<1>6. ASSUME NEW c \in Callers, Materialize(c)  PROVE DatesInv'
  BY <1>0, <1>6, MaterializeKeepsDates
<1>7. ASSUME \/ \E p \in Projects : KnowledgeChanges(p)
             \/ Pass \/ UNCHANGED dispatchVars
      PROVE  DatesInv'
  BY <1>0, <1>7, StatusKeepsDates DEF KnowledgeChanges, Pass, dispatchVars
<1> QED  BY <1>1, <1>2, <1>3, <1>4, <1>5, <1>6, <1>7 DEF DispatchNext

(***************************************************************************)
(* No date of a schedule is materialized twice, however late, often or     *)
(* concurrently it is ticked (materialize_due_schedules).                  *)
(***************************************************************************)
THEOREM DatesAreMadeOnce == DispatchSpec => []DatesAreSingle
<1>1. DispatchInit => DatesInv
  BY DispatchAssumption DEF DispatchInit, DatesInv, NoRow
<1>2. DatesInv => DatesAreSingle
  BY DEF DatesInv, DatesAreSingle, Period
<1> QED  BY <1>1, <1>2, DatesKept, DispatchIsConsistent, PTL DEF DispatchSpec

--------------------------------------------------------------------------
(* The rows live as QueueLifecycle promises. *)

\* One row's status changes.
LEMMA OneRowLives ==
  ASSUME QueueTypeOK, NEW r \in Rows, NEW st, rows' = [rows EXCEPT ![r].st = st]
  PROVE  /\ Statuses' = [Statuses EXCEPT ![r] = Lived(st)]
         /\ Statuses' = [q \in Rows |-> IF q \in {r} THEN Lived(st) ELSE Statuses[q]]
  BY DEF QueueTypeOK, RowType, Statuses

\* What is asked of a row here is what is asked of it there.
LEMMA LivesAlike ==
  ASSUME QueueTypeOK, NEW r \in Rows
  PROVE  /\ Statuses[r] = Lived(rows[r].st)
         /\ Statuses[r] = "absent" <=> rows[r].st = "none"
         /\ Statuses[r] = "complete" <=> rows[r].st = "done"
         /\ \A st \in RowStatuses \ {"none", "done"} :
               Lived(st) = st /\ (Statuses[r] = st <=> rows[r].st = st)
  BY DEF QueueTypeOK, RowType, RowStatuses, Statuses, Lived

\* Rows that were not there are queued: one by an addition, several by a tick.
LEMMA SubmissionsLive ==
  ASSUME QueueTypeOK, NEW S \in SUBSET Rows, \A r \in S : rows[r].st = "none",
         \A r \in S : rows'[r].st = "queued", \A r \in Rows \ S : rows'[r] = rows[r]
  PROVE  RowLife!Next
<1>1. \A r \in S : Statuses[r] = "absent"  BY LivesAlike
<1>2. Statuses' = [r \in Rows |-> IF r \in S THEN "queued" ELSE Statuses[r]]
  BY DEF Statuses, Lived
<1>3. RowLife!Submit(S)  BY <1>1, <1>2 DEF RowLife!Submit
<1> QED  BY <1>3 DEF RowLife!Next

LEMMA MaterializeLives ==
  ASSUME QueueTypeOK, NEW c \in Callers, Materialize(c)
  PROVE  RowLife!Next
<1> DEFINE due == DueSchedules(caller[c].obs)
<1>1. PICK new \in [due -> {r \in Rows : rows[r].st = "none"}] :
        rows' = [r \in Rows |->
                   IF \E s \in due : new[s] = r
                     THEN LET s == CHOOSE s \in due : new[s] = r IN
                          [st |-> "queued", m |-> sched[s].m, prio |-> sched[s].prio,
                           due |-> caller[c].obs, made |-> now, src |-> s]
                     ELSE rows[r]]
  BY DEF Materialize
<1> DEFINE S == {r \in Rows : \E s \in due : new[s] = r}
<1> HIDE DEF due
<1>2. S \subseteq Rows /\ \A r \in S : rows[r].st = "none"  OBVIOUS
<1>3. \A r \in S : rows'[r].st = "queued"  BY <1>1
<1>4. \A r \in Rows \ S : rows'[r] = rows[r]  BY <1>1
<1> HIDE DEF S
<1> QED  BY <1>2, <1>3, <1>4, SubmissionsLive

\* A command on a named row moves it as the abstract command of its kind.
LEMMA CommandsLive ==
  ASSUME DispatchInv, NEW r \in Rows, NEW st \in RowStatuses,
         rows' = [rows EXCEPT ![r].st = st],
         \/ rows[r].st = "failed" /\ st = "queued"
         \/ rows[r].st = "queued" /\ st = "parked"
         \/ rows[r].st = "parked" /\ st = "queued"
         \/ rows[r].st = "queued" /\ st = "running" /\ ~SlotBusy
         \/ rows[r].st = "running" /\ st \in {"done", "failed", "needs_approval"}
  PROVE  RowLife!Next
<1>0. QueueTypeOK  BY DEF DispatchInv
<1>1. /\ Statuses' = [Statuses EXCEPT ![r] = Lived(st)]
      /\ Statuses' = [q \in Rows |-> IF q \in {r} THEN Lived(st) ELSE Statuses[q]]
      /\ Statuses[r] = Lived(rows[r].st)
  <2>1. Statuses[r] = Lived(rows[r].st)  BY <1>0, LivesAlike
  <2> QED  BY <1>0, <2>1, OneRowLives
<1> USE DEF RowLife!Next, RowLife!Move, Lived
<1>2. CASE rows[r].st = "failed" /\ st = "queued"
  BY <1>1, <1>2 DEF RowLife!Reset
<1>3. CASE rows[r].st = "queued" /\ st = "parked"
  BY <1>1, <1>3 DEF RowLife!Park
<1>4. CASE rows[r].st = "parked" /\ st = "queued"
  BY <1>1, <1>4 DEF RowLife!Unpark
<1>5. CASE rows[r].st = "queued" /\ st = "running" /\ ~SlotBusy
  <2>1. \A q \in Rows : Statuses[q] # "running"
    BY <1>0, <1>5, LivesAlike DEF SlotBusy, RowStatuses
  <2>2. RowLife!Executing = {}  BY <2>1 DEF RowLife!Executing
  <2> QED  BY <1>1, <1>5, <2>2 DEF RowLife!Start
<1>6. CASE rows[r].st = "running" /\ st = "done"
  <2>1. RowLife!Settle({r}, "complete")
    BY <1>1, <1>6 DEF RowLife!Settle, RowLife!Settled
  <2> QED  BY <2>1 DEF RowLife!Settled
<1>7. CASE rows[r].st = "running" /\ st \in {"failed", "needs_approval"}
  <2>1. {r} \subseteq RowLife!Executing  BY <1>1, <1>7 DEF RowLife!Executing
  <2>2. RowLife!GiveUp({r}, st)  BY <1>1, <1>7, <2>1 DEF RowLife!GiveUp
  <2> QED  BY <1>7, <2>2
<1> QED  BY <1>2, <1>3, <1>4, <1>5, <1>6, <1>7

\* A caller that settles its row has it running, if it has one.
LEMMA SettlementsLive ==
  ASSUME DispatchInv, NEW c \in Callers, NEW st \in {"done", "failed", "needs_approval"},
         caller[c].step \in {"claimed", "running"}, SettleRow(c, st)
  PROVE  RowLife!Next \/ rows' = rows
<1>1. CASE caller[c].row = None  BY <1>1 DEF SettleRow
<1>2. CASE caller[c].row # None
  <2>1. caller[c].row \in Rows  BY <1>2 DEF DispatchInv, QueueTypeOK, CallerType
  <2>2. rows[caller[c].row].st = "running"
    <3>1. CASE caller[c].step = "claimed"
      BY <1>2, <3>1 DEF DispatchInv, ClaimsHold, Holding
    <3>2. CASE caller[c].step = "running"
      BY <1>2, <3>2, FocusAssumption
      DEF DispatchInv, RunnersHaveTheSlot, ExecutesWhatWasClaimed
    <3> QED  BY <3>1, <3>2
  <2>3. rows' = [rows EXCEPT ![caller[c].row].st = st]  BY <1>2 DEF SettleRow
  <2> QED  BY <2>1, <2>2, <2>3, CommandsLive DEF RowStatuses
<1> QED  BY <1>1, <1>2

\* Recovery gives up a row that executes.
LEMMA RecoveriesLive ==
  ASSUME DispatchInv, NEW c \in Callers, Recover(c)
  PROVE  RowLife!Next \/ rows' = rows
<1>1. CASE /\ slot.by # None
           /\ rows' = IF slot.row = None THEN rows ELSE [rows EXCEPT ![slot.row].st = "failed"]
  <2>1. slot.row # None => slot.row \in Rows /\ rows[slot.row].st = "running"
    BY <1>1 DEF DispatchInv, QueueTypeOK, SlotType, ExecutesWhatWasClaimed
  <2> QED  BY <1>1, <2>1, CommandsLive DEF RowStatuses
<1>2. ASSUME NEW r \in Rows, Orphaned(r), rows' = [rows EXCEPT ![r].st = "failed"]
      PROVE  RowLife!Next
  BY <1>2, CommandsLive DEF Orphaned, RowStatuses
<1> QED  BY <1>1, <1>2 DEF Recover

\* Every step is one of the abstract queue's, or leaves the rows alone.
LEMMA StepsLive ==
  ASSUME DispatchInv, [DispatchNext]_dispatchVars
  PROVE  RowLife!Next \/ rows' = rows
<1>0. QueueTypeOK  BY DEF DispatchInv
<1>1. ASSUME NEW c \in Callers, NEW due \in now..MaxNow, Enqueue(c, due)  PROVE RowLife!Next
  <2>1. PICK r \in Rows, m \in Missions, prio \in Priorities :
          /\ rows[r].st = "none"
          /\ rows' = [rows EXCEPT ![r] = [st |-> "queued", m |-> m, prio |-> prio, due |-> due,
                                          made |-> now, src |-> None]]
    BY <1>1 DEF Enqueue
  <2> DEFINE S == {r}
  <2>2. /\ S \in SUBSET Rows /\ \A q \in S : rows[q].st = "none" /\ rows'[q].st = "queued"
        /\ \A q \in Rows \ S : rows'[q] = rows[q]
    BY <1>0, <2>1 DEF QueueTypeOK
  <2> HIDE DEF S
  <2> QED  BY <1>0, <2>2, SubmissionsLive
<1>2. ASSUME NEW c \in Callers, Materialize(c)  PROVE RowLife!Next
  BY <1>0, <1>2, MaterializeLives
<1>3. ASSUME NEW c \in Callers, ResetRow(c) \/ Park(c) \/ Unpark(c) \/ ParkHead(c)
      PROVE  RowLife!Next \/ rows' = rows
  <2>1. CASE ResetRow(c)  BY <2>1, CommandsLive DEF ResetRow, RowStatuses
  <2>2. CASE Park(c)  BY <2>2, CommandsLive DEF Park, ParkRow, RowStatuses
  <2>3. CASE Unpark(c)  BY <2>3, CommandsLive DEF Unpark, RowStatuses
  <2>4. CASE ParkHead(c) /\ caller[c].row \in Rows
    BY <2>4, CommandsLive DEF ParkHead, ParkRow, RowStatuses
  <2>5. CASE ParkHead(c) /\ caller[c].row \notin Rows
    BY <1>0, <2>5 DEF ParkHead, ParkRow, QueueTypeOK
  <2> QED  BY <1>3, <2>1, <2>2, <2>3, <2>4, <2>5
<1>4. ASSUME NEW c \in Callers, Claim(c)  PROVE RowLife!Next
  BY <1>4, CommandsLive DEF Claim, IsHead, Due, RowStatuses
<1>5. ASSUME NEW c \in Callers, RefuseGated(c) \/ FailAdmission(c) \/ EndMission(c)
      PROVE  RowLife!Next \/ rows' = rows
  BY <1>5, SettlementsLive DEF RefuseGated, FailAdmission, EndMission
<1>6. ASSUME NEW c \in Callers, Recover(c)  PROVE RowLife!Next \/ rows' = rows
  BY <1>6, RecoveriesLive
<1>7. ASSUME NEW c \in Callers,
             \/ CheckAddition(c) \/ CreateSchedule(c) \/ SetScheduleEnabled(c) \/ Observe(c)
             \/ Review(c) \/ ReviewNamed(c) \/ BoundReview(c) \/ RunDirectly(c)
             \/ BeginAdmission(c) \/ CommitAdmission(c) \/ ReviewParking(c) \/ Quit(c)
             \/ EditFocus(c)
      PROVE  rows' = rows
  BY <1>7 DEF CheckAddition, CreateSchedule, SetScheduleEnabled, Observe, Review, ReviewNamed,
              BoundReview, RunDirectly, BeginAdmission, CommitAdmission, ReviewParking, Quit,
              EditFocus
<1>8. ASSUME \/ \E p \in Projects : KnowledgeChanges(p)
             \/ Pass \/ UNCHANGED dispatchVars
      PROVE  rows' = rows
  BY <1>8 DEF KnowledgeChanges, Pass, dispatchVars
<1> QED  BY <1>1, <1>2, <1>3, <1>4, <1>5, <1>6, <1>7, <1>8 DEF DispatchNext

(***************************************************************************)
(* The commands that review, claim, admit, tick and recover implement the  *)
(* abstract queue: whatever callers do, and wherever they quit, a row is   *)
(* claimed only while none executes, and only an executing row is given up *)
(* or settled (claim_next_queue_item, execute_queue_claim,                 *)
(* recover_interrupted_jobs).                                              *)
(***************************************************************************)
THEOREM DispatchImplementsLifecycle == DispatchSpec => RowLife!Init /\ RowsLiveAsPromised
<1>1. DispatchInit => RowLife!Init
  BY DEF DispatchInit, NoRow, RowLife!Init, Statuses, Lived
<1>2. rows' = rows => Statuses' = Statuses  BY DEF Statuses
<1>3. DispatchInv /\ [DispatchNext]_dispatchVars => [RowLife!Next]_Statuses
  BY <1>2, StepsLive
<1> QED
  BY <1>1, <1>3, DispatchIsConsistent, PTL DEF DispatchSpec, RowsLiveAsPromised

============================================================================
