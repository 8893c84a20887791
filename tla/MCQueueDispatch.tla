------------------------- MODULE MCQueueDispatch -------------------------
(***************************************************************************)
(* QueueDispatch for TLC, and beside it KnowledgeIndex, on whose evidence  *)
(* missions are admitted and which shares no state with it.  All commands  *)
(* at once are more than TLC can take, so each initial state fixes which   *)
(* of five kinds of commands the callers give:                             *)
(*   "rows"       a queue with rows of every kind is reviewed, claimed and *)
(*                run while knowledge changes, under a focus or none;      *)
(*   "parking"    rows are parked, by name or as the head that the focus   *)
(*                stops, and restored while others are claimed and         *)
(*                missions are run directly;                               *)
(*   "schedules"  schedules are created, switched and ticked, late or      *)
(*                concurrently;                                            *)
(*   "focus"      the focus is set, handed off and cleared while missions  *)
(*                are run directly;                                        *)
(*   "knowledge"  files are indexed, audited and quoted while they are     *)
(*                edited.                                                  *)
(***************************************************************************)
EXTENDS QueueDispatch, KnowledgeIndex, TLC

CONSTANTS A, B, RowsUntil

VARIABLE scenario

MCMissions == {[proj |-> A, team |-> 1, gate |-> FALSE],
               [proj |-> B, team |-> 2, gate |-> FALSE],
               [proj |-> A, team |-> 1, gate |-> TRUE]}

Ordinary == {m \in Missions : ~m.gate}

QueuedRows == [st : {"queued"}, m : Ordinary, prio : Priorities, due : 0..RowsUntil, made : {0},
               src : {None}]

(* One row stays unused in this scenario. *)
Unused == Cardinality({r \in Rows : rows[r] = NoRow})

MCInit ==
    \/ /\ scenario \in {"schedules", "focus", "knowledge"}
       /\ DispatchInit /\ KnowledgeInit
    \/ /\ scenario \in {"rows", "parking"}
       /\ KnowledgeInit
       /\ focus \in {Disabled(0), Enabled(A, 1, 1)}
       /\ rows \in [Rows -> QueuedRows \cup {NoRow}]
       /\ \E r \in Rows : rows[r] = NoRow
       /\ focusLock = None /\ editor = [c \in Callers |-> Quiet]
       /\ now = 0 /\ stale = {} /\ slot = NoSlot
       /\ sched = [s \in Schedules |-> NoSchedule]
       /\ caller = [c \in Callers |-> AtRest]

Execution(c) ==
    \/ Claim(c) \/ RefuseGated(c) \/ BeginAdmission(c) \/ FailAdmission(c) \/ CommitAdmission(c)
    \/ EndMission(c) \/ Quit(c) \/ Recover(c)

MCNext ==
    /\ scenario' = scenario
    /\ scenario # "knowledge" => UNCHANGED knowledgeVars
    /\ scenario = "knowledge" => UNCHANGED dispatchVars
    /\ \/ scenario = "knowledge" /\ KnowledgeNext
       \/ /\ scenario = "rows"
          /\ \/ \E c \in Callers :
                   \/ Execution(c) \/ Review(c) \/ BoundReview(c)
                   \/ Unused # 1 /\ \E due \in now..RowsUntil : Enqueue(c, due)
             \/ KnowledgeChanges(A)
             \/ now < RowsUntil /\ Pass
       \/ /\ scenario = "parking"
          /\ \/ \E c \in Callers : \/ Park(c) \/ Unpark(c) \/ ReviewParking(c) \/ ParkHead(c)
                                   \/ Execution(c) \/ RunDirectly(c) \/ ResetRow(c)
                                   \/ ReviewNamed(c)
             \/ now < RowsUntil /\ Pass
       \/ /\ scenario = "schedules"
          /\ \/ \E c \in Callers : \/ CreateSchedule(c) \/ SetScheduleEnabled(c)
                                   \/ Observe(c) \/ Materialize(c) \/ Quit(c) \/ CheckAddition(c)
             \/ Pass
       \/ /\ scenario = "focus"
          /\ \E c \in Callers : \/ Execution(c) \/ RunDirectly(c) \/ EditFocus(c)
                              \/ CheckAddition(c)

MCSpec == MCInit /\ [][MCNext]_<<dispatchVars, knowledgeVars, scenario>>

Symmetry == Permutations(Callers) \cup Permutations(Rows) \cup Permutations(Sources)

==========================================================================
