-------------------------- MODULE ExecutionFocus --------------------------
(***************************************************************************)
(* The execution focus of a company (src/local_company/focus.py and the    *)
(* "focus" command of cli.py): one small file that says which project may  *)
(* use the model and with how many roles.  It is changed by set, handoff   *)
(* and clear under an advisory file lock that is never waited for, and it  *)
(* is read without that lock by everything that starts a mission.          *)
(* A digest is modelled by the record it is the digest of: the revision    *)
(* in it grows with every write, so no digest ever comes back.             *)
(***************************************************************************)
EXTENDS Integers, Nothing

CONSTANTS Callers,      \* processes that run commands of local-company
          Projects,     \* project identifiers
          Budgets,      \* role budgets a focus may carry
          MaxRevision   \* bound: no more writes of the file than this

ASSUME FocusAssumption ==
    /\ None \notin Callers
    /\ None \notin Projects
    /\ Budgets \subseteq Nat \ {0}
    /\ MaxRevision \in Nat

VARIABLES focus,      \* the focus file
          focusLock,  \* who holds .execution-focus.lock
          editor      \* what each caller's focus command is doing

focusVars == <<focus, focusLock, editor>>

Disabled(rev) == [on |-> FALSE, proj |-> None, max |-> 0, rev |-> rev]

Enabled(p, n, rev) == [on |-> TRUE, proj |-> p, max |-> n, rev |-> rev]

Focuses == {f \in [on : BOOLEAN, proj : Projects \cup {None}, max : Nat, rev : Nat] :
              IF f.on THEN f.proj \in Projects /\ f.max \in Budgets
                      ELSE f.proj = None /\ f.max = 0}

EditSteps == {"none", "reviewed", "asserting", "locking", "replacing"}

Edits == [step : EditSteps, cmd : {"set", "handoff", "clear"},
          seen : Focuses, next : Focuses]

Quiet == [step |-> "none", cmd |-> "set", seen |-> Disabled(0), next |-> Disabled(0)]

FocusTypeOK == /\ focus \in Focuses
               /\ focusLock \in Callers \cup {None}
               /\ editor \in [Callers -> Edits]

FocusInit == /\ focus = Disabled(0)
             /\ focusLock = None
             /\ editor = [c \in Callers |-> Quiet]

(* Whether a team of n roles may work for project p. *)
FocusAllows(f, p, n) == f.on => (p = f.proj /\ n \in 1..f.max)

(* "focus show", or the first half of "local-ai use". *)
ShowFocus(c) ==
    /\ editor[c].step = "none"
    /\ editor' = [editor EXCEPT ![c].step = "reviewed", ![c].seen = focus]
    /\ UNCHANGED <<focus, focusLock>>

(* The operator names the command; handoff and clear carry the digest shown. *)
ChooseEdit(c, cmd) ==
    /\ editor[c].step = "reviewed"
    /\ editor' = [editor EXCEPT ![c].step = IF cmd = "set" THEN "locking" ELSE "asserting",
                                ![c].cmd = cmd]
    /\ UNCHANGED <<focus, focusLock>>

(* Handoff and clear are refused while the company's tables show work. *)
AssertIdle(c, idle) ==
    /\ editor[c].step = "asserting"
    /\ editor' = [editor EXCEPT ![c] = IF idle THEN [@ EXCEPT !.step = "locking"] ELSE Quiet]
    /\ UNCHANGED <<focus, focusLock>>

(* Mutant: the project alone is compared. *)
SameProject(e, found) == e.seen.proj = found.proj

(* The digest given with the command is that of the file found. *)
SameDigest(e, found) == e.seen = found

(* What a command may write over the focus it finds: set enables a disabled
   one, handoff moves an enabled one to another project, clear disables it. *)
Successors(e, found) ==
    LET rev == found.rev + 1 IN
    CASE e.cmd = "set"     -> {f \in {Enabled(p, n, rev) : p \in Projects, n \in Budgets} :
                                 ~found.on}
      [] e.cmd = "handoff" -> {f \in {Enabled(p, n, rev) : p \in Projects, n \in Budgets} :
                                 found.on /\ SameDigest(e, found) /\ f.proj # found.proj}
      [] e.cmd = "clear"   -> {f \in {Disabled(rev)} : found.on /\ SameDigest(e, found)}

(* Under the lock the file is read and compared with what the operator saw. *)
LockAndCompare(c) ==
    /\ editor[c].step = "locking"
    /\ focusLock = None
    /\ focus.rev < MaxRevision
    /\ \E f \in Successors(editor[c], focus) :
          editor' = [editor EXCEPT ![c].step = "replacing", ![c].next = f]
    /\ focusLock' = c
    /\ UNCHANGED focus

(* The lock is busy, or the comparison refuses, or the command is killed or
   its write fails: the operating system gives the lock back. *)
QuitEdit(c) ==
    /\ editor[c].step # "none"
    /\ editor' = [editor EXCEPT ![c] = Quiet]
    /\ focusLock' = IF focusLock = c THEN None ELSE focusLock
    /\ UNCHANGED focus

(* The temporary file replaces the focus file in one step. *)
ReplaceFocus(c) ==
    /\ editor[c].step = "replacing"
    /\ focus' = editor[c].next
    /\ editor' = [editor EXCEPT ![c] = Quiet]
    /\ focusLock' = None

(* A focus command of caller c; idle tells what the company's tables show. *)
FocusStep(c, idle) ==
    \/ ShowFocus(c)
    \/ \E cmd \in {"set", "handoff", "clear"} : ChooseEdit(c, cmd)
    \/ AssertIdle(c, idle)
    \/ LockAndCompare(c)
    \/ QuitEdit(c)
    \/ ReplaceFocus(c)

FocusNext == \E c \in Callers, idle \in BOOLEAN : FocusStep(c, idle)

FocusSpec == FocusInit /\ [][FocusNext]_focusVars

(***************************************************************************)
(* An active focus gives way only to a handoff or clear whose operator saw *)
(* exactly the record it replaces, and every write is the next revision:   *)
(* two operators who reviewed the same focus cannot both replace it, and   *)
(* no write is lost (handoff_execution_focus, clear_execution_focus).      *)
(***************************************************************************)
FocusSwapsReviewed ==
    [][focus' # focus =>
         /\ focus'.rev = focus.rev + 1
         /\ focus.on => \E c \in Callers : /\ editor[c].cmd # "set"
                                           /\ editor[c].seen = focus
                                           /\ focus' = editor[c].next]_focusVars

===========================================================================
