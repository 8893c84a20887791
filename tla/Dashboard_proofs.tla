-------------------------- MODULE Dashboard_proofs --------------------------
(***************************************************************************)
(* Theorems about a dashboard: the worker behind it, and the two views     *)
(* that derive again what they show, of offers and of dataset profiles.    *)
(***************************************************************************)
EXTENDS DashboardWorker, VisionOffers, DatasetQuality, FiniteSetTheorems,
        SequenceTheorems, TLAPS

----------------------------------------------------------------------------
(* DashboardWorker *)

\* Whoever the lock keeps apart: at most one request that starts or stops
\* something, or one mission, or the shutdown, and nobody while it is free.
LockOwned ==
  /\ \A x \in Handlers : h[x].pc # "idle" => locked
  /\ \A q \in Rows : thread[q] # "none" => locked
  /\ \A x, y \in Handlers : h[x].pc # "idle" /\ h[y].pc # "idle" => x = y

Exclusion == LockOwned /\ OneMission /\ ShutdownExcludesMissions

\* A request that takes its row to a thread has shown that it runs.
ShownThroughout ==
  /\ ShownWhileRunning
  /\ \A x \in Handlers : h[x].pc \in {"claim", "launch"} => shown = "running"

\* The first state has the types and nobody has the lock.
LEMMA InitHolds ==
  WorkerInit => WorkerTypeOK /\ Exclusion /\ ClaimsAreHeld /\ ShownThroughout
<1> SUFFICES ASSUME WorkerInit
             PROVE  WorkerTypeOK /\ Exclusion /\ ClaimsAreHeld /\ ShownThroughout
  OBVIOUS
<1>1. WorkerTypeOK
  <2>1. IdleHandler \in Handler /\ IdleHandler.row = Null /\ IdleHandler.pc = "idle"
    BY DEF IdleHandler, Handler, HandlerPc
  <2> QED  BY <2>1 DEF WorkerInit, WorkerTypeOK, RowStatus, ThreadPc
<1>2. Exclusion
  BY DEF WorkerInit, Exclusion, LockOwned, OneMission, ShutdownExcludesMissions, IdleHandler
<1>3. ClaimsAreHeld
  BY DEF WorkerInit, ClaimsAreHeld
<1>4. ShownThroughout
  BY DEF WorkerInit, ShownThroughout, ShownWhileRunning, IdleHandler
<1> QED  BY <1>1, <1>2, <1>3, <1>4

\* Every step keeps the types.
LEMMA StepType == WorkerTypeOK /\ [WorkerNext]_workerVars => WorkerTypeOK'
<1> SUFFICES ASSUME WorkerTypeOK, [WorkerNext]_workerVars PROVE WorkerTypeOK'
  OBVIOUS
<1> USE DEF WorkerTypeOK, Handler, IdleHandler, RowStatus, ThreadPc, HandlerPc
<1>1. ASSUME NEW x \in Handlers, NEW q \in Rows, TryStart(x, q) PROVE WorkerTypeOK'
  BY <1>1 DEF TryStart, HandlerAt
<1>2. ASSUME NEW x \in Handlers, ShowRunning(x) PROVE WorkerTypeOK'
  BY <1>2 DEF ShowRunning, HandlerAt, GoTo
<1>3. ASSUME NEW x \in Handlers, Claim(x) PROVE WorkerTypeOK'
  BY <1>3 DEF Claim, HandlerAt, GoTo
<1>4. ASSUME NEW x \in Handlers, Launch(x) PROVE WorkerTypeOK'
  BY <1>4 DEF Launch, HandlerAt, GoTo, Done
<1>5. ASSUME NEW x \in Handlers, Abandon(x) PROVE WorkerTypeOK'
  BY <1>5 DEF Abandon, HandlerAt, GoTo
<1>6. ASSUME NEW x \in Handlers, ShowFailed(x) PROVE WorkerTypeOK'
  BY <1>6 DEF ShowFailed, HandlerAt, GoTo
<1>7. ASSUME NEW x \in Handlers, Release(x) PROVE WorkerTypeOK'
  BY <1>7 DEF Release, HandlerAt, Done
<1>8. ASSUME NEW x \in Handlers, Reserve(x) PROVE WorkerTypeOK'
  BY <1>8 DEF Reserve, HandlerAt, GoTo
<1>9. ASSUME NEW x \in Handlers, Answer(x) PROVE WorkerTypeOK'
  <2>1. h' = [h EXCEPT ![x] = IdleHandler] /\ UNCHANGED <<shown, row, thread>>
    BY <1>9 DEF Answer, Done
  <2>2. server' \in {server, "stopping"} /\ locked' \in {locked, FALSE}
    BY <1>9 DEF Answer
  <2> QED  BY <2>1, <2>2
<1>10. ASSUME NEW q \in Rows, Run(q) \/ Requeue(q) PROVE WorkerTypeOK'
  <2>1. CASE ExecuteMission(q)  BY <2>1 DEF ExecuteMission
  <2>2. CASE ShowOutcome(q)  BY <2>2 DEF ShowOutcome
  <2>3. CASE EndThread(q)  BY <2>3 DEF EndThread
  <2>4. CASE Requeue(q)  BY <2>4 DEF Requeue
  <2> QED  BY <1>10, <2>1, <2>2, <2>3, <2>4 DEF Run
<1>11. CASE Close \/ UNCHANGED workerVars
  BY <1>11 DEF Close, workerVars
<1> QED
  BY <1>1, <1>2, <1>3, <1>4, <1>5, <1>6, <1>7, <1>8, <1>9, <1>10, <1>11
     DEF WorkerNext, Handle

\* Every step keeps the lock's owners apart.
LEMMA StepExclusion == WorkerTypeOK /\ Exclusion /\ [WorkerNext]_workerVars => Exclusion'
<1> SUFFICES ASSUME WorkerTypeOK, Exclusion, [WorkerNext]_workerVars PROVE Exclusion'
  OBVIOUS
<1> USE DEF WorkerTypeOK, Exclusion, LockOwned, OneMission, ShutdownExcludesMissions,
            Handler, IdleHandler
<1>1. ASSUME NEW x \in Handlers, NEW q \in Rows, TryStart(x, q) PROVE Exclusion'
  BY <1>1 DEF TryStart, HandlerAt
<1>2. ASSUME NEW x \in Handlers,
             ShowRunning(x) \/ Claim(x) \/ Abandon(x) \/ ShowFailed(x)
      PROVE  Exclusion'
  BY <1>2 DEF ShowRunning, Claim, Abandon, ShowFailed, HandlerAt, GoTo
<1>3. ASSUME NEW x \in Handlers, Launch(x) PROVE Exclusion'
  BY <1>3 DEF Launch, HandlerAt, GoTo, Done
<1>4. ASSUME NEW x \in Handlers, Release(x) PROVE Exclusion'
  BY <1>4 DEF Release, HandlerAt, Done
<1>5. ASSUME NEW x \in Handlers, Reserve(x) PROVE Exclusion'
  BY <1>5 DEF Reserve, HandlerAt, GoTo
<1>6. ASSUME NEW x \in Handlers, Answer(x) PROVE Exclusion'
  BY <1>6 DEF Answer, HandlerAt, Done
<1>7. ASSUME NEW q \in Rows, Run(q) \/ Requeue(q) PROVE Exclusion'
  BY <1>7 DEF Run, ExecuteMission, ShowOutcome, EndThread, Requeue
<1>8. CASE Close \/ UNCHANGED workerVars
  BY <1>8 DEF Close, workerVars
<1> QED
  BY <1>1, <1>2, <1>3, <1>4, <1>5, <1>6, <1>7, <1>8 DEF WorkerNext, Handle

\* Every step keeps what is shown true while a mission is on its way or runs.
LEMMA StepShown ==
  WorkerTypeOK /\ Exclusion /\ ShownThroughout /\ [WorkerNext]_workerVars => ShownThroughout'
<1> SUFFICES ASSUME WorkerTypeOK, Exclusion, ShownThroughout, [WorkerNext]_workerVars
             PROVE  ShownThroughout'
  OBVIOUS
<1> USE DEF WorkerTypeOK, Exclusion, LockOwned, OneMission, ShutdownExcludesMissions,
            Handler, IdleHandler, ShownThroughout, ShownWhileRunning
<1>1. ASSUME NEW x \in Handlers, NEW q \in Rows, TryStart(x, q)
      PROVE  ShownThroughout'
  BY <1>1 DEF TryStart, HandlerAt
<1>2. ASSUME NEW x \in Handlers,
             ShowRunning(x) \/ Claim(x) \/ Abandon(x) \/ ShowFailed(x)
      PROVE  ShownThroughout'
  BY <1>2 DEF ShowRunning, Claim, Abandon, ShowFailed, HandlerAt, GoTo
<1>3. ASSUME NEW x \in Handlers, Launch(x) PROVE ShownThroughout'
  BY <1>3 DEF Launch, HandlerAt, GoTo, Done
<1>4. ASSUME NEW x \in Handlers, Release(x) PROVE ShownThroughout'
  BY <1>4 DEF Release, HandlerAt, Done
<1>5. ASSUME NEW x \in Handlers, Reserve(x) PROVE ShownThroughout'
  BY <1>5 DEF Reserve, HandlerAt, GoTo
<1>6. ASSUME NEW x \in Handlers, Answer(x) PROVE ShownThroughout'
  BY <1>6 DEF Answer, HandlerAt, Done
<1>7. ASSUME NEW q \in Rows, Run(q) \/ Requeue(q) PROVE ShownThroughout'
  BY <1>7 DEF Run, ExecuteMission, ShowOutcome, EndThread, Requeue
<1>8. CASE Close \/ UNCHANGED workerVars
  BY <1>8 DEF Close, workerVars
<1> QED
  BY <1>1, <1>2, <1>3, <1>4, <1>5, <1>6, <1>7, <1>8 DEF WorkerNext, Handle

\* Every step keeps claims in hand.
LEMMA StepClaims == WorkerTypeOK /\ ClaimsAreHeld /\ [WorkerNext]_workerVars => ClaimsAreHeld'
<1> SUFFICES ASSUME WorkerTypeOK, ClaimsAreHeld, [WorkerNext]_workerVars, ~AbandonMayFail,
                    NEW r \in Rows, row'[r] = "claimed"
             PROVE  Held(r)'
  BY DEF ClaimsAreHeld
<1>0. row[r] = "claimed" => Held(r)
  BY DEF ClaimsAreHeld
<1> USE <1>0 DEF WorkerTypeOK, Handler, IdleHandler, Held, Holds
<1>1. ASSUME NEW x \in Handlers, NEW q \in Rows, TryStart(x, q) PROVE Held(r)'
  BY <1>1 DEF TryStart, HandlerAt
<1>2. ASSUME NEW x \in Handlers, ShowRunning(x) \/ ShowFailed(x) PROVE Held(r)'
  BY <1>2 DEF ShowRunning, ShowFailed, HandlerAt, GoTo
<1>3. ASSUME NEW x \in Handlers, Claim(x) PROVE Held(r)'
  BY <1>3 DEF Claim, HandlerAt, GoTo
<1>4. ASSUME NEW x \in Handlers, Launch(x) PROVE Held(r)'
  BY <1>4 DEF Launch, HandlerAt, GoTo, Done
<1>5. ASSUME NEW x \in Handlers, Abandon(x) PROVE Held(r)'
  BY <1>5 DEF Abandon, HandlerAt, GoTo
<1>6. ASSUME NEW x \in Handlers, Release(x) \/ Reserve(x) \/ Answer(x)
      PROVE  Held(r)'
  BY <1>6 DEF Release, Reserve, Answer, HandlerAt, GoTo, Done
<1>7. ASSUME NEW q \in Rows, Run(q) \/ Requeue(q) PROVE Held(r)'
  BY <1>7 DEF Run, ExecuteMission, ShowOutcome, EndThread, Requeue
<1>8. CASE Close \/ UNCHANGED workerVars
  BY <1>8 DEF Close, workerVars
<1> QED
  BY <1>1, <1>2, <1>3, <1>4, <1>5, <1>6, <1>7, <1>8 DEF WorkerNext, Handle

----------------------------------------------------------------------------
\* Every variable keeps its type (LocalQueueWorker's state and its queue rows).
THEOREM WorkerTypeCorrect == WorkerSpec => []WorkerTypeOK
  BY InitHolds, StepType, PTL DEF WorkerSpec

\* A shutdown that was accepted never meets a mission, and none starts after it
\* (the stop handler's reservation of _run_lock).
THEOREM ShutdownIsExclusive == WorkerSpec => []ShutdownExcludesMissions
<1>1. WorkerTypeOK /\ Exclusion /\ [WorkerNext]_workerVars => WorkerTypeOK' /\ Exclusion'
  BY StepType, StepExclusion
<1>2. Exclusion => ShutdownExcludesMissions  BY DEF Exclusion
<1> QED  BY InitHolds, <1>1, <1>2, PTL DEF WorkerSpec

\* A mission has the process to itself (_run_lock, from start to _run's end).
THEOREM MissionsAreSingle == WorkerSpec => []OneMission
<1>1. WorkerTypeOK /\ Exclusion /\ [WorkerNext]_workerVars => WorkerTypeOK' /\ Exclusion'
  BY StepType, StepExclusion
<1>2. Exclusion => OneMission  BY DEF Exclusion
<1> QED  BY InitHolds, <1>1, <1>2, PTL DEF WorkerSpec

\* The status of an earlier mission is never shown for one that executes.
THEOREM StatusIsTrue == WorkerSpec => []ShownWhileRunning
<1>1. WorkerTypeOK /\ Exclusion /\ ShownThroughout /\ [WorkerNext]_workerVars
        => WorkerTypeOK' /\ Exclusion' /\ ShownThroughout'
  BY StepType, StepExclusion, StepShown
<1>2. ShownThroughout => ShownWhileRunning  BY DEF ShownThroughout
<1> QED  BY InitHolds, <1>1, <1>2, PTL DEF WorkerSpec

\* A claimed row is executed or given back (start's except block).
THEOREM ClaimsStayHeld == WorkerSpec => []ClaimsAreHeld
<1>1. WorkerTypeOK /\ ClaimsAreHeld /\ [WorkerNext]_workerVars => WorkerTypeOK' /\ ClaimsAreHeld'
  BY StepType, StepClaims
<1> QED  BY InitHolds, <1>1, PTL DEF WorkerSpec

----------------------------------------------------------------------------
(* VisionOffers *)

\* Truth values, as a set that the provers need not take apart.
Truth == BOOLEAN

\* Commands and the status, typed.
SellerRecord == [step : {"idle", "writing"}, todo : SUBSET SalesFiles, file : SalesFiles \cup {None}]

ViewSteps == {"idle", "readiness", "plan", "verify", "research", "outreach", "packages", "leads"}

Names == SUBSET (Prospects \cup Leads)

ViewRecord == [step : ViewSteps, selected : Sets \cup {None}, readiness : Datasets \cup {None},
               plan : Datasets \cup {None}, verified : Datasets \cup {None},
               research : Names, outreach : Names, packages : Names, sound : Truth]

\* What the files say: a package stands on outreach that was complete once.
FilesInv ==
  /\ content \in [SalesFiles -> {"absent", "partial", "whole"}]
  /\ drafted \subseteq Prospects
  /\ Complete(content) \subseteq drafted
  /\ \A p \in Prospects : content[<<"package", p>>] # "absent" => p \in drafted

\* A file that a command writes is not whole, and packages are planned for
\* complete outreach.
SellerInv(k) ==
  /\ k.file # None => content[k.file] = "partial"
  /\ \A p \in Prospects : <<"package", p>> \in k.todo => p \in drafted

\* All commands.
SellersInv ==
  /\ seller \in [Sellers -> SellerRecord]
  /\ \A c \in Sellers : SellerInv(seller[c])
  /\ \A c, d \in Sellers : c # d /\ seller[c].file # None => seller[c].file # seller[d].file

\* Steps at which the plan has been verified.
Verified == {"research", "outreach", "packages", "leads"}

\* What the status knows when it is at k.
ViewInv(k) ==
  /\ k \in ViewRecord
  /\ k.step \in {"readiness", "plan"} => k.selected \in Sets
  /\ k.step = "verify" => k.plan \in Datasets
  /\ k.step \in Verified => k.plan \in Datasets /\ k.verified = k.plan
  /\ k.packages \subseteq drafted

\* What an answer says.
OfferInv ==
  offer # None => offer.plan \in Datasets /\ offer.verified = offer.plan /\ offer.packages \subseteq drafted

\* The types of the evidence.
SourcesInv ==
  /\ selection \in Sets \cup {None} /\ bundle \in {"pinned", "changed"}
  /\ evidence \in [Sets -> Evidence]
  /\ salesChanges \in 0..MaxSalesChanges

\* The types, and what commands, status and answers stand on.
OffersInv == SourcesInv /\ FilesInv /\ SellersInv /\ ViewInv(viewer) /\ OfferInv

\* Files are named for prospects and leads.
LEMMA FileNames ==
  /\ \A kind \in ProspectKinds, p \in Prospects : <<kind, p>> \in SalesFiles
  /\ \A x : <<"package", x>> \in SalesFiles => x \in Prospects
  /\ \A kind \in LeadKinds, l \in Leads : <<kind, l>> \in SalesFiles
  BY DEF SalesFiles, ProspectKinds, LeadKinds

\* A command at rest has its type.
LEMMA SellerRest == SellerAtRest \in SellerRecord /\ SellerAtRest.todo = {} /\ SellerAtRest.file = None
  BY DEF SellerAtRest, SellerRecord

\* So has a status at rest.
LEMMA ViewRest == NoView \in ViewRecord /\ NoView.step = "idle" /\ NoView.packages = {}
  BY DEF NoView, ViewRecord, ViewSteps, Names, Truth

\* It knows nothing.
LEMMA NoViewInv == ViewInv(NoView)
  BY ViewRest DEF ViewInv, Verified

\* The first state keeps the invariant.
LEMMA OffersInitInv == OffersInit => OffersInv
<1> SUFFICES ASSUME OffersInit PROVE OffersInv
  OBVIOUS
<1>1. content = [f \in SalesFiles |-> "absent"] /\ drafted = {}
  BY DEF OffersInit
<1>2. SourcesInv
  <2>1. PICK d \in [Sets -> Datasets] :
          evidence = [s \in Sets |-> [dataset |-> d[s], readiness |-> d[s], plan |-> d[s]]]
    BY DEF OffersInit
  <2>2. evidence \in [Sets -> Evidence]
    BY <2>1 DEF Evidence
  <2> QED  BY <2>2, OffersAssumption DEF OffersInit, SourcesInv
<1>3. FilesInv
  <2>1. \A p \in Prospects : content[<<"draft", p>>] = "absent" /\ content[<<"package", p>>] = "absent"
    BY <1>1, FileNames DEF ProspectKinds
  <2> QED  BY <1>1, <2>1 DEF FilesInv, Complete
<1>4. SellersInv
  BY SellerRest DEF OffersInit, SellersInv, SellerInv
<1>5. ViewInv(viewer)
  BY ViewRest, <1>1 DEF OffersInit, ViewInv, Verified
<1> QED  BY <1>2, <1>3, <1>4, <1>5 DEF OffersInit, OffersInv, OfferInv

\* Seller c moves to k: files change at most for the worse, and drafted grows.
LEMMA SellerMoves ==
  ASSUME OffersInv, NEW c \in Sellers, NEW k \in SellerRecord, seller' = [seller EXCEPT ![c] = k],
         SourcesInv', FilesInv', drafted \subseteq drafted', UNCHANGED <<viewer, offer>>,
         SellerInv(k)',
         k.file # None => \A d \in Sellers : d # c => seller[d].file # k.file,
         \A d \in Sellers : d # c /\ seller[d].file # None => content'[seller[d].file] = "partial"
  PROVE  OffersInv'
<1>1. seller' \in [Sellers -> SellerRecord]
  BY DEF OffersInv, SellersInv
<1>2. \A d \in Sellers : seller'[d] = IF d = c THEN k ELSE seller[d]
  BY DEF OffersInv, SellersInv
<1>3. ASSUME NEW d \in Sellers PROVE SellerInv(seller[d])'
  <2>1. CASE d = c
    BY <1>2, <2>1 DEF SellerInv
  <2>2. CASE d # c
    <3>1. PICK a : a = seller[d] /\ a = seller'[d] /\ SellerInv(a)
      BY <1>2, <2>2 DEF OffersInv, SellersInv
    <3>2. a.file # None => content'[a.file] = "partial"
      BY <2>2, <3>1
    <3> QED  BY <3>1, <3>2 DEF SellerInv
  <2> QED  BY <2>1, <2>2
<1>4. \A x, y \in Sellers : x # y /\ seller'[x].file # None => seller'[x].file # seller'[y].file
  BY <1>2 DEF OffersInv, SellersInv
<1>5. ViewInv(viewer)' /\ OfferInv'
  BY DEF OffersInv, ViewInv, OfferInv
<1> QED  BY <1>1, <1>3, <1>4, <1>5 DEF OffersInv, SellersInv

\* It changes no file.
LEMMA SellerPlans ==
  ASSUME OffersInv, NEW c \in Sellers, NEW k \in SellerRecord, seller' = [seller EXCEPT ![c] = k],
         UNCHANGED <<sources, content, viewer, offer, drafted>>,
         salesChanges' \in 0..MaxSalesChanges,
         k.file = None, \A p \in Prospects : <<"package", p>> \in k.todo => p \in drafted
  PROVE  OffersInv'
<1>1. SourcesInv' /\ FilesInv'
  BY DEF OffersInv, SourcesInv, FilesInv, sources, Complete
<1>2. SellerInv(k)'
  BY DEF SellerInv
<1>3. \A d \in Sellers : d # c /\ seller[d].file # None => content'[seller[d].file] = "partial"
  BY DEF OffersInv, SellersInv, SellerInv
<1> QED  BY <1>1, <1>2, <1>3, SellerMoves

\* A command begins to write files.
LEMMA WriteStep ==
  ASSUME OffersInv, NEW c \in Sellers, NEW todo \in SUBSET SalesFiles, Write(c, todo),
         \A p \in Prospects : <<"package", p>> \in todo => p \in drafted
  PROVE  OffersInv'
<1> PICK a \in SellerRecord : a = SellerAtRest /\ a.file = None
  BY SellerRest
<1> PICK k : k = [a EXCEPT !.step = "writing", !.todo = todo]
  OBVIOUS
<1>1. k \in SellerRecord /\ k.todo = todo /\ k.file = None
  BY DEF SellerRecord
<1>2. seller' = [seller EXCEPT ![c] = k] /\ UNCHANGED <<sources, content, viewer, offer, drafted, salesChanges>>
  BY DEF Write
<1>3. salesChanges' \in 0..MaxSalesChanges
  BY <1>2 DEF OffersInv, SourcesInv
<1> QED  BY <1>1, <1>2, <1>3, SellerPlans

\* Who plans packages finds the outreach complete.
LEMMA CommandSteps ==
  ASSUME OffersInv, NEW c \in Sellers,
         \/ \E rows \in SUBSET Prospects \ {{}} : ImportProspects(c, rows)
         \/ CreateDrafts(c) \/ CreatePackages(c) \/ StartWorker(c)
         \/ \E l \in Leads : CreateIntake(c, l)
  PROVE  OffersInv'
<1>1. ASSUME NEW rows \in SUBSET Prospects, ImportProspects(c, rows) PROVE OffersInv'
  <2>1. {"research"} \X rows \in SUBSET SalesFiles /\ \A p : <<"package", p>> \notin {"research"} \X rows
    BY DEF SalesFiles, ProspectKinds
  <2> QED  BY <1>1, <2>1, WriteStep DEF ImportProspects
<1>2. ASSUME CreateDrafts(c) PROVE OffersInv'
  <2>1. Whole("research") \subseteq Prospects
    BY DEF Whole, SalesFiles, LeadKinds
  <2>2. {"draft", "receipt"} \X Whole("research") \in SUBSET SalesFiles
        /\ \A p : <<"package", p>> \notin {"draft", "receipt"} \X Whole("research")
    BY <2>1 DEF SalesFiles, ProspectKinds
  <2> QED  BY <1>2, <2>2, WriteStep DEF CreateDrafts
<1>3. ASSUME CreatePackages(c) PROVE OffersInv'
  <2>1. Whole("research") \subseteq Prospects
    BY DEF Whole, SalesFiles, LeadKinds
  <2>2. {"package", "package receipt"} \X Whole("research") \in SUBSET SalesFiles
    BY <2>1 DEF SalesFiles, ProspectKinds
  <2>3. ASSUME NEW p \in Whole("research") PROVE p \in drafted
    <3>1. p \in Whole("receipt") /\ p \in Whole("draft")
      BY <1>3, <2>3 DEF CreatePackages, InOrder
    <3>2. p \in Complete(content)
      BY <2>1, <3>1 DEF Whole, Complete
    <3> QED  BY <3>2 DEF OffersInv, FilesInv
  <2>4. \A p \in Prospects : <<"package", p>> \in {"package", "package receipt"} \X Whole("research") => p \in drafted
    BY <2>3
  <2> QED  BY <1>3, <2>2, <2>4, WriteStep DEF CreatePackages
<1>4. ASSUME StartWorker(c) PROVE OffersInv'
  <2>1. Whole("inbox") \subseteq Leads
    BY DEF Whole, SalesFiles, ProspectKinds
  <2> DEFINE todo == {"proposal", "reply", "lead receipt"} \X (Whole("inbox") \ Whole("lead receipt"))
  <2>2. todo \in SUBSET SalesFiles /\ \A p : <<"package", p>> \notin todo
    BY <2>1 DEF SalesFiles, LeadKinds
  <2>3. Write(c, todo)
    BY <1>4 DEF StartWorker
  <2> HIDE DEF todo
  <2> QED  BY <2>2, <2>3, WriteStep
<1>5. ASSUME NEW l \in Leads, CreateIntake(c, l) PROVE OffersInv'
  <2>1. {<<"inbox", l>>} \in SUBSET SalesFiles /\ \A p : <<"package", p>> \notin {<<"inbox", l>>}
    <3>1. <<"inbox", l>> \in SalesFiles
      BY FileNames DEF LeadKinds
    <3> QED  BY <3>1
  <2> QED  BY <1>5, <2>1, WriteStep DEF CreateIntake
<1> QED  BY <1>1, <1>2, <1>3, <1>4, <1>5

\* A command ends or is killed.
LEMMA RestSteps ==
  ASSUME OffersInv, NEW c \in Sellers, EndCommand(c) \/ KillSeller(c)
  PROVE  OffersInv'
<1>1. seller' = [seller EXCEPT ![c] = SellerAtRest] /\ UNCHANGED <<sources, content, viewer, offer, drafted>>
  BY DEF EndCommand, KillSeller
<1>2. salesChanges' \in 0..MaxSalesChanges
  BY OffersAssumption DEF EndCommand, KillSeller, ChangeHappens, OffersInv, SourcesInv
<1> QED  BY <1>1, <1>2, SellerRest, SellerPlans

\* It opens a file to write.
LEMMA TakeStep ==
  ASSUME OffersInv, NEW c \in Sellers, NEW f \in SalesFiles, TakeFile(c, f)
  PROVE  OffersInv'
<1> PICK a \in SellerRecord : a = seller[c] /\ SellerInv(a)
  BY DEF OffersInv, SellersInv
<1>1. /\ a.file = None /\ f \in a.todo /\ UNCHANGED <<sources, viewer, offer, drafted, salesChanges>>
      /\ content[f] \in {"absent", "partial", "whole"}
  BY DEF TakeFile, OffersInv, FilesInv
<1>2. SourcesInv' /\ salesChanges' \in 0..MaxSalesChanges
  BY <1>1 DEF OffersInv, SourcesInv, sources
<1> DEFINE rest == a.todo \ {f}
<1>3. rest \in SUBSET SalesFiles /\ \A p \in Prospects : <<"package", p>> \in rest => p \in drafted
  BY DEF SellerRecord, SellerInv
<1>4. CASE content[f] = "absent"
  <2>1. content' = [content EXCEPT ![f] = "partial"] /\ seller' = [seller EXCEPT ![c].todo = rest, ![c].file = f]
    BY <1>4 DEF TakeFile
  <2> HIDE DEF rest
  <2> DEFINE k == [step |-> a.step, todo |-> rest, file |-> f]
  <2>2. seller'[c] = k
    BY <2>1 DEF OffersInv, SellersInv, SellerRecord
  <2>3. seller' = [seller EXCEPT ![c] = k]
    BY <2>1, <2>2 DEF OffersInv, SellersInv
  <2>4. k \in SellerRecord /\ k.file = f /\ k.todo = rest
    BY <1>3 DEF SellerRecord
  <2> HIDE DEF k
  <2>5. PICK kk \in SellerRecord : kk = k
    BY <2>4
  <2>6. \A g \in SalesFiles : content'[g] = IF g = f THEN "partial" ELSE content[g]
    BY <2>1 DEF OffersInv, FilesInv
  <2>7. FilesInv'
    <3>1. content' \in [SalesFiles -> {"absent", "partial", "whole"}]
      BY <2>1 DEF OffersInv, FilesInv
    <3>2. Complete(content') \subseteq Complete(content)
      BY <2>6, FileNames DEF Complete, ProspectKinds
    <3>3. ASSUME NEW p \in Prospects, content'[<<"package", p>>] # "absent" PROVE p \in drafted
      <4>1. <<"package", p>> \in SalesFiles
        BY FileNames DEF ProspectKinds
      <4>2. CASE <<"package", p>> = f
        BY <1>1, <4>2 DEF SellerInv
      <4>3. CASE <<"package", p>> # f
        BY <2>6, <3>3, <4>1, <4>3 DEF OffersInv, FilesInv
      <4> QED  BY <4>2, <4>3
    <3> QED  BY <1>1, <3>1, <3>2, <3>3 DEF OffersInv, FilesInv
  <2>8. \A d \in Sellers : seller[d].file # None =>
           seller[d].file \in SalesFiles /\ content[seller[d].file] = "partial"
    BY DEF OffersInv, SellersInv, SellerInv, SellerRecord
  <2>9. \A d \in Sellers : seller[d].file # None => content'[seller[d].file] = "partial"
    BY <2>6, <2>8
  <2>10. \A d \in Sellers : d # c => seller[d].file # f \/ f = None
    BY <1>4, <2>8
  <2>11. SellerInv(kk)'
    BY <1>1, <1>3, <2>4, <2>5, <2>6 DEF SellerInv
  <2> QED  BY <1>1, <1>2, <2>3, <2>4, <2>5, <2>7, <2>9, <2>10, <2>11, SellerMoves
<1>5. CASE content[f] = "whole"
  <2>1. content' = content /\ seller' = [seller EXCEPT ![c].todo = rest]
    BY <1>5 DEF TakeFile
  <2> HIDE DEF rest
  <2> DEFINE k == [step |-> a.step, todo |-> rest, file |-> a.file]
  <2>2. seller'[c] = k
    BY <2>1 DEF OffersInv, SellersInv, SellerRecord
  <2>3. seller' = [seller EXCEPT ![c] = k]
    BY <2>1, <2>2 DEF OffersInv, SellersInv
  <2>4. k \in SellerRecord /\ k.file = None /\ k.todo = rest
    BY <1>1, <1>3 DEF SellerRecord
  <2> HIDE DEF k
  <2>5. PICK kk \in SellerRecord : kk = k
    BY <2>4
  <2> QED  BY <1>1, <1>2, <1>3, <2>1, <2>3, <2>4, <2>5, SellerPlans
<1>6. CASE content[f] = "partial"
  <2>1. content' = content /\ seller' = [seller EXCEPT ![c] = SellerAtRest]
    BY <1>6 DEF TakeFile
  <2> QED  BY <1>1, <1>2, <2>1, SellerRest, SellerPlans
<1> QED  BY <1>1, <1>4, <1>5, <1>6

\* It completes the file.
LEMMA FillStep ==
  ASSUME OffersInv, NEW c \in Sellers, FillFile(c)
  PROVE  OffersInv'
<1> PICK a \in SellerRecord : a = seller[c] /\ SellerInv(a)
  BY DEF OffersInv, SellersInv
<1> PICK f \in SalesFiles : f = a.file /\ content[f] = "partial" /\ f # None
  BY DEF FillFile, SellerRecord, SellerInv
<1>1. /\ content' = [content EXCEPT ![f] = "whole"] /\ drafted' = drafted \cup Complete(content')
      /\ seller' = [seller EXCEPT ![c].file = None]
      /\ UNCHANGED <<sources, viewer, offer, salesChanges>>
  BY DEF FillFile
<1>2. SourcesInv'
  BY <1>1 DEF OffersInv, SourcesInv, sources
<1>3. \A g \in SalesFiles : content'[g] = IF g = f THEN "whole" ELSE content[g]
  BY <1>1 DEF OffersInv, FilesInv
<1>4. FilesInv'
  <2>1. content' \in [SalesFiles -> {"absent", "partial", "whole"}]
    BY <1>1 DEF OffersInv, FilesInv
  <2>2. Complete(content') \subseteq Prospects
    BY DEF Complete
  <2>3. ASSUME NEW p \in Prospects, content'[<<"package", p>>] # "absent" PROVE p \in drafted
    <3>1. <<"package", p>> \in SalesFiles
      BY FileNames DEF ProspectKinds
    <3>2. content[<<"package", p>>] # "absent"
      BY <1>3, <2>3, <3>1
    <3> QED  BY <3>2 DEF OffersInv, FilesInv
  <2> QED  BY <1>1, <2>1, <2>2, <2>3 DEF OffersInv, FilesInv
<1> PICK k : k = [a EXCEPT !.file = None]
  OBVIOUS
<1>5. k \in SellerRecord /\ k.todo = a.todo /\ k.file = None
  BY DEF SellerRecord
<1>6. seller' = [seller EXCEPT ![c] = k]
  BY <1>1
<1>7. ASSUME NEW d \in Sellers, d # c, seller[d].file # None PROVE content'[seller[d].file] = "partial"
  <2>1. seller[d].file \in SalesFiles /\ content[seller[d].file] = "partial" /\ seller[d].file # f
    BY <1>7 DEF OffersInv, SellersInv, SellerInv, SellerRecord
  <2> QED  BY <1>3, <2>1
<1>8. SellerInv(k)'
  BY <1>1, <1>5 DEF SellerInv
<1>9. drafted \subseteq drafted' /\ UNCHANGED <<viewer, offer>>
  BY <1>1
<1> QED  BY <1>2, <1>4, <1>5, <1>6, <1>7, <1>8, <1>9, SellerMoves

\* What people do to files.
LEMMA PeopleSteps ==
  ASSUME OffersInv,
         \/ \E s \in Sets : \/ Select(s)
                            \/ \E kind \in {"dataset", "readiness", "plan"}, d \in Datasets : ReplaceEvidence(s, kind, d)
         \/ ChangeBundle \/ \E f \in SalesFiles : Delete(f)
  PROVE  OffersInv'
<1>0. ASSUME SourcesInv', UNCHANGED <<content, seller, viewer, offer, drafted>> PROVE OffersInv'
  BY <1>0 DEF OffersInv, FilesInv, Complete, SellersInv, SellerInv, ViewInv, OfferInv
<1>1. ASSUME NEW s \in Sets, Select(s) PROVE OffersInv'
  <2>1. SourcesInv'
    BY <1>1, OffersAssumption DEF Select, ChangeHappens, OffersInv, SourcesInv
  <2> QED  BY <1>0, <1>1, <2>1 DEF Select
<1>2. ASSUME NEW s \in Sets, NEW kind \in {"dataset", "readiness", "plan"}, NEW d \in Datasets,
             ReplaceEvidence(s, kind, d) PROVE OffersInv'
  <2> PICK e \in Evidence : e = evidence[s]
    BY DEF OffersInv, SourcesInv
  <2> PICK z : z = [e EXCEPT ![kind] = d]
    OBVIOUS
  <2>1. z \in Evidence
    <3>1. CASE kind = "dataset"
      BY <3>1 DEF Evidence
    <3>2. CASE kind = "readiness"
      BY <3>2 DEF Evidence
    <3>3. CASE kind = "plan"
      BY <3>3 DEF Evidence
    <3> QED  BY <3>1, <3>2, <3>3
  <2>2. evidence' = [evidence EXCEPT ![s] = z]
    BY <1>2 DEF ReplaceEvidence
  <2>3. SourcesInv'
    BY <1>2, <2>1, <2>2, OffersAssumption DEF ReplaceEvidence, ChangeHappens, OffersInv,
       SourcesInv
  <2> QED  BY <1>0, <1>2, <2>3 DEF ReplaceEvidence
<1>3. ASSUME ChangeBundle PROVE OffersInv'
  <2>1. SourcesInv'
    BY <1>3, OffersAssumption DEF ChangeBundle, ChangeHappens, OffersInv, SourcesInv
  <2> QED  BY <1>0, <1>3, <2>1 DEF ChangeBundle
<1>4. ASSUME NEW f \in SalesFiles, Delete(f) PROVE OffersInv'
  <2>1. /\ content' = [content EXCEPT ![f] = "absent"] /\ \A c \in Sellers : seller[c].file # f
        /\ UNCHANGED <<sources, seller, viewer, offer, drafted>>
    BY <1>4 DEF Delete
  <2>2. SourcesInv'
    BY <1>4, <2>1, OffersAssumption DEF Delete, ChangeHappens, OffersInv, SourcesInv, sources
  <2>3. \A g \in SalesFiles : content'[g] = IF g = f THEN "absent" ELSE content[g]
    BY <2>1 DEF OffersInv, FilesInv
  <2>4. FilesInv'
    <3>1. content' \in [SalesFiles -> {"absent", "partial", "whole"}]
      BY <2>1 DEF OffersInv, FilesInv
    <3>2. Complete(content') \subseteq Complete(content)
      BY <2>3, FileNames DEF Complete, ProspectKinds
    <3>3. ASSUME NEW p \in Prospects, content'[<<"package", p>>] # "absent" PROVE p \in drafted
      <4>1. <<"package", p>> \in SalesFiles
        BY FileNames DEF ProspectKinds
      <4>2. content[<<"package", p>>] # "absent"
        BY <2>3, <3>3, <4>1
      <4> QED  BY <4>2 DEF OffersInv, FilesInv
    <3> QED  BY <2>1, <3>1, <3>2, <3>3 DEF OffersInv, FilesInv
  <2>5. SellersInv'
    <3>1. ASSUME NEW c \in Sellers PROVE SellerInv(seller[c])'
      <4> PICK a \in SellerRecord : a = seller[c] /\ a = seller'[c] /\ SellerInv(a) /\ a.file # f
        BY <2>1 DEF OffersInv, SellersInv
      <4>1. a.file # None => content'[a.file] = "partial"
        BY <2>3 DEF SellerInv, SellerRecord
      <4> QED  BY <2>1, <4>1 DEF SellerInv
    <3> QED  BY <2>1, <3>1 DEF OffersInv, SellersInv
  <2> QED  BY <2>1, <2>2, <2>4, <2>5 DEF OffersInv, ViewInv, OfferInv
<1> QED  BY <1>1, <1>2, <1>3, <1>4

\* The status looks on.
LEMMA Looks ==
  ASSUME OffersInv, NEW k, viewer' = k, ViewInv(k), OfferInv',
         UNCHANGED <<sources, content, seller, drafted, salesChanges>>
  PROVE  OffersInv'
<1>1. SourcesInv' /\ FilesInv' /\ SellersInv'
  BY DEF OffersInv, SourcesInv, sources, FilesInv, Complete, SellersInv, SellerInv
<1>2. ViewInv(viewer)'
  BY DEF ViewInv
<1> QED  BY <1>1, <1>2 DEF OffersInv

\* Whoever is found among the packages had complete outreach.
LEMMA PackagesDrafted ==
  ASSUME OffersInv, NEW known PROVE InOrder("package receipt", "package", known) \subseteq drafted
<1> SUFFICES ASSUME NEW x \in Whole("package") PROVE x \in drafted
  BY DEF InOrder
<1>1. <<"package", x>> \in SalesFiles /\ content[<<"package", x>>] = "whole"
  BY DEF Whole
<1> QED  BY <1>1, FileNames DEF OffersInv, FilesInv

\* The whole files of a kind are named for prospects and leads.
LEMMA WholeNames == \A kind : Whole(kind) \in Names
  BY DEF Whole, Names

\* The status reads selection, readiness and plan, and verifies it.
LEMMA ProductLooks ==
  ASSUME OffersInv, ReadSelection \/ ReadReadiness \/ ReadPlan \/ VerifyPlan \/ Unavailable
  PROVE  OffersInv'
<1> PICK w \in ViewRecord : w = viewer /\ ViewInv(w)
  BY DEF OffersInv, ViewInv
<1>1. CASE ReadSelection
  <2> PICK s \in Sets : s = Selected
    BY OffersAssumption DEF Selected, OffersInv, SourcesInv
  <2> PICK v \in ViewRecord : v = NoView /\ v.packages = {}
    BY ViewRest
  <2> PICK k : k = [v EXCEPT !.step = "readiness", !.selected = s]
    OBVIOUS
  <2>1. k \in ViewRecord /\ k.step = "readiness" /\ k.selected = s /\ k.packages = {}
    BY DEF ViewRecord, ViewSteps
  <2>2. ViewInv(k)
    BY <2>1 DEF ViewInv, Verified
  <2>3. viewer' = k /\ offer' = None /\ UNCHANGED <<sources, content, seller, drafted, salesChanges>>
    BY <1>1 DEF ReadSelection
  <2> QED  BY <2>2, <2>3, Looks DEF OfferInv
<1>2. CASE ReadReadiness
  <2> PICK e \in Evidence : e = evidence[w.selected]
    BY <1>2 DEF ReadReadiness, LookOn, ViewInv, OffersInv, SourcesInv
  <2> PICK k : k = [w EXCEPT !.step = "plan", !.readiness = e.readiness]
    OBVIOUS
  <2>1. k \in ViewRecord /\ k.step = "plan" /\ k.selected = w.selected /\ k.packages = w.packages
    BY DEF ViewRecord, ViewSteps, Evidence
  <2>2. w.step = "readiness" /\ viewer' = k /\ UNCHANGED <<sources, content, seller, offer, drafted, salesChanges>>
    BY <1>2 DEF ReadReadiness, LookOn
  <2>3. ViewInv(k)
    BY <2>1, <2>2 DEF ViewInv, Verified
  <2> QED  BY <2>2, <2>3, Looks DEF OfferInv, OffersInv
<1>3. CASE ReadPlan
  <2> PICK e \in Evidence : e = evidence[w.selected]
    BY <1>3 DEF ReadPlan, LookOn, ViewInv, OffersInv, SourcesInv
  <2> PICK k : k = [w EXCEPT !.step = "verify", !.plan = e.plan]
    OBVIOUS
  <2>1. k \in ViewRecord /\ k.step = "verify" /\ k.plan = e.plan /\ e.plan \in Datasets /\ k.packages = w.packages
    BY DEF ViewRecord, ViewSteps, Evidence
  <2>2. viewer' = k /\ UNCHANGED <<sources, content, seller, offer, drafted, salesChanges>>
    BY <1>3 DEF ReadPlan, LookOn
  <2>3. ViewInv(k)
    BY <2>1 DEF ViewInv, Verified
  <2> QED  BY <2>2, <2>3, Looks DEF OfferInv, OffersInv
<1>4. CASE VerifyPlan
  <2> PICK e \in Evidence : e = evidence[Selected]
    BY OffersAssumption DEF Selected, OffersInv, SourcesInv
  <2> PICK d \in Datasets : d = e.dataset
    BY DEF Evidence
  <2> PICK k : k = [w EXCEPT !.step = "research", !.verified = d]
    OBVIOUS
  <2>1. k \in ViewRecord /\ k.step = "research" /\ k.plan = w.plan /\ k.verified = d /\ k.packages = w.packages
    BY DEF ViewRecord, ViewSteps
  <2>2. /\ w.step = "verify" /\ w.plan = d
        /\ viewer' = k /\ UNCHANGED <<sources, content, seller, offer, drafted, salesChanges>>
    BY <1>4 DEF VerifyPlan, LookOn, SamePlan
  <2>3. ViewInv(k)
    BY <2>1, <2>2 DEF ViewInv, Verified
  <2> QED  BY <2>2, <2>3, Looks DEF OfferInv, OffersInv
<1>5. CASE Unavailable
  <2>1. viewer' = NoView /\ UNCHANGED <<sources, content, seller, offer, drafted, salesChanges>>
    BY <1>5 DEF Unavailable, LookOn
  <2> QED  BY <2>1, NoViewInv, Looks DEF OfferInv, OffersInv
<1> QED  BY <1>1, <1>2, <1>3, <1>4, <1>5

\* It reads the files of the sale.
LEMMA SalesLooks ==
  ASSUME OffersInv, ReadResearch \/ ReadOutreach \/ ReadPackages
  PROVE  OffersInv'
<1> PICK w \in ViewRecord : w = viewer /\ ViewInv(w)
  BY DEF OffersInv, ViewInv
<1>1. UNCHANGED <<sources, content, seller, offer, drafted, salesChanges>>
  BY DEF ReadResearch, ReadOutreach, ReadPackages, LookOn
<1>2. OfferInv'
  BY <1>1 DEF OfferInv, OffersInv
<1>3. CASE ReadResearch
  <2> PICK names \in Names : names = Whole("research")
    BY WholeNames
  <2> PICK sound \in Truth : sound = ResearchSound
    BY DEF Truth, ResearchSound
  <2> PICK k : k = [w EXCEPT !.step = "outreach", !.research = names, !.sound = sound]
    OBVIOUS
  <2>1. k \in ViewRecord /\ k.step = "outreach" /\ k.plan = w.plan /\ k.verified = w.verified
        /\ k.packages = w.packages
    BY DEF ViewRecord, ViewSteps
  <2>2. w.step = "research" /\ viewer' = k
    BY <1>3 DEF ReadResearch, LookOn
  <2>3. ViewInv(k)
    BY <2>1, <2>2 DEF ViewInv, Verified
  <2> QED  BY <1>1, <1>2, <2>2, <2>3, Looks
<1>4. CASE ReadOutreach
  <2> PICK names \in Names : names = InOrder("receipt", "draft", w.research)
    BY WholeNames DEF InOrder, Names
  <2> DEFINE s0 == w.sound /\ SoundPairs("receipt", "draft", w.research)
  <2>0. s0 \in Truth
    BY DEF Truth
  <2>1. viewer' = [w EXCEPT !.step = "packages", !.outreach = names, !.sound = s0] /\ w.step = "outreach"
    BY <1>4 DEF ReadOutreach, LookOn
  <2> HIDE DEF s0
  <2> PICK k : k = [w EXCEPT !.step = "packages", !.outreach = names, !.sound = s0]
    OBVIOUS
  <2>2. k \in ViewRecord /\ k.step = "packages" /\ k.plan = w.plan /\ k.verified = w.verified
        /\ k.packages = w.packages
    BY <2>0 DEF ViewRecord, ViewSteps
  <2>3. ViewInv(k)
    BY <2>1, <2>2 DEF ViewInv, Verified
  <2>4. viewer' = k
    BY <2>1
  <2> QED  BY <1>1, <1>2, <2>3, <2>4, Looks
<1>5. CASE ReadPackages
  <2> PICK names \in Names : names = InOrder("package receipt", "package", w.research) /\ names \subseteq drafted
    <3>1. InOrder("package receipt", "package", w.research) \in Names
      BY WholeNames DEF InOrder, Names
    <3>2. InOrder("package receipt", "package", w.research) \subseteq drafted
      BY PackagesDrafted
    <3> QED  BY <3>1, <3>2
  <2> DEFINE s0 == w.sound /\ SoundPairs("package receipt", "package", w.research)
  <2>0. s0 \in Truth
    BY DEF Truth
  <2>1. viewer' = [w EXCEPT !.step = "leads", !.packages = names, !.sound = s0] /\ w.step = "packages"
    BY <1>5 DEF ReadPackages, LookOn
  <2> HIDE DEF s0
  <2> PICK k : k = [w EXCEPT !.step = "leads", !.packages = names, !.sound = s0]
    OBVIOUS
  <2>2. k \in ViewRecord /\ k.step = "leads" /\ k.plan = w.plan /\ k.verified = w.verified
        /\ k.packages = names
    BY <2>0 DEF ViewRecord, ViewSteps
  <2>3. ViewInv(k)
    BY <2>1, <2>2 DEF ViewInv, Verified
  <2>4. viewer' = k
    BY <2>1
  <2> QED  BY <1>1, <1>2, <2>3, <2>4, Looks
<1> QED  BY <1>3, <1>4, <1>5

\* It answers.
LEMMA AnswerStep ==
  ASSUME OffersInv, AnswerStatus
  PROVE  OffersInv'
<1> PICK w \in ViewRecord : w = viewer /\ ViewInv(w)
  BY DEF OffersInv, ViewInv
<1>1. w.step = "leads" /\ viewer' = NoView /\ UNCHANGED <<sources, content, seller, drafted, salesChanges>>
  BY DEF AnswerStatus
<1>2. w.plan \in Datasets /\ w.verified = w.plan /\ w.packages \subseteq drafted
  BY <1>1 DEF ViewInv, Verified
<1>3. OfferInv'
  <2> DEFINE o == [plan |-> w.plan, verified |-> w.verified, stage |-> Stage, packages |-> w.packages]
  <2>1. o.plan = w.plan /\ o.verified = w.verified /\ o.packages = w.packages
    OBVIOUS
  <2>2. offer' = offer \/ offer' = None \/ offer' = o
    BY DEF AnswerStatus
  <2> HIDE DEF o
  <2>3. CASE offer' = o
    BY <1>1, <1>2, <2>1, <2>3 DEF OfferInv
  <2>4. CASE offer' = offer \/ offer' = None
    BY <1>1, <2>4 DEF OfferInv, OffersInv
  <2> QED  BY <2>2, <2>3, <2>4
<1> QED  BY <1>1, <1>3, NoViewInv, Looks

\* Every step keeps the invariant.
LEMMA OffersStepInv == OffersInv /\ [OffersNext]_offerVars => OffersInv'
<1> SUFFICES ASSUME OffersInv, [OffersNext]_offerVars PROVE OffersInv'
  OBVIOUS
<1>1. CASE UNCHANGED offerVars
  BY <1>1 DEF offerVars, sources, OffersInv, SourcesInv, FilesInv, Complete, SellersInv,
     SellerInv, ViewInv, OfferInv
<1>2. CASE OffersNext
  BY <1>2, PeopleSteps, CommandSteps, TakeStep, FillStep, RestSteps, ProductLooks, SalesLooks,
     AnswerStep
  DEF OffersNext
<1> QED  BY <1>1, <1>2

\* Evidence, files, commands and answers keep their types (supermega.py).
THEOREM OffersTypesTheorem == OffersSpec => []OffersTypeOK
<1>1. OffersInv => OffersTypeOK
  BY DEF OffersInv, SourcesInv, FilesInv, SellersInv, SellerInv, SellerRecord, OfferInv,
     OffersTypeOK
<1> QED  BY <1>1, OffersInitInv, OffersStepInv, PTL DEF OffersSpec

\* An offer stands on a plan that was verified against its own dataset in the
\* same check, and on packages of complete outreach, for any datasets, files
\* and commands.
THEOREM OfferTheorem == OffersSpec => []OfferIsBacked
<1>1. OffersInv => OfferIsBacked
  BY DEF OffersInv, OfferInv, OfferIsBacked
<1> QED  BY <1>1, OffersInitInv, OffersStepInv, PTL DEF OffersSpec

----------------------------------------------------------------------------
(* DatasetQuality *)

\* How many rows hold one of the values of S.
Where(rows, S) == Cardinality({i \in DOMAIN rows : rows[i] \in S})

\* Cells without a value, and cells with an integer.
Blank == {"absent", "missing"}
Integral == {"low", "right", "high", "huge"}

\* The rows of a table.
LEMMA Lengths ==
  ASSUME NEW rows \in Seq(Values)
  PROVE  /\ Len(rows) \in Nat /\ DOMAIN rows = 1..Len(rows)
         /\ \A i \in DOMAIN rows : rows[i] \in Values
         /\ IsFiniteSet(DOMAIN rows) /\ Cardinality(DOMAIN rows) = Len(rows)
<1>1. Len(rows) \in Nat /\ DOMAIN rows = 1..Len(rows) /\ \A i \in DOMAIN rows : rows[i] \in Values
  BY LenProperties, ElementOfSeq
<1>2. IsFiniteSet(1..Len(rows)) /\ Cardinality(1..Len(rows)) = IF 1 > Len(rows) THEN 0 ELSE Len(rows) - 1 + 1
  BY <1>1, FS_Interval
<1> QED  BY <1>1, <1>2

\* How many rows hold one of S is a number, zero where none does.
LEMMA WhereType ==
  ASSUME NEW rows \in Seq(Values), NEW S
  PROVE  /\ IsFiniteSet({i \in DOMAIN rows : rows[i] \in S})
         /\ Where(rows, S) \in Nat
         /\ Where(rows, S) = 0 <=> \A i \in DOMAIN rows : rows[i] \notin S
<1> DEFINE X == {i \in DOMAIN rows : rows[i] \in S}
<1>1. X \subseteq DOMAIN rows /\ IsFiniteSet(DOMAIN rows)
  BY Lengths
<1>2. X = {} <=> \A i \in DOMAIN rows : rows[i] \notin S
  OBVIOUS
<1>3. Where(rows, S) = Cardinality(X)
  BY DEF Where
<1> HIDE DEF X
<1>4. IsFiniteSet(X) /\ Cardinality(X) \in Nat /\ (Cardinality(X) = 0 <=> X = {})
  BY <1>1, FS_Subset, FS_CardinalityType, FS_EmptySet
<1> QED  BY <1>2, <1>3, <1>4 DEF X

\* Rows of disjoint sets add up.
LEMMA WhereSum ==
  ASSUME NEW rows \in Seq(Values), NEW S, NEW T, S \cap T = {}
  PROVE  Where(rows, S \cup T) = Where(rows, S) + Where(rows, T)
<1> DEFINE X == {i \in DOMAIN rows : rows[i] \in S}
           Y == {i \in DOMAIN rows : rows[i] \in T}
<1>1. {i \in DOMAIN rows : rows[i] \in S \cup T} = X \cup Y /\ X \cap Y = {}
  OBVIOUS
<1>2. IsFiniteSet(X) /\ IsFiniteSet(Y) /\ Cardinality(X) \in Nat /\ Cardinality(Y) \in Nat
  BY WhereType DEF Where
<1>3. Where(rows, S) = Cardinality(X) /\ Where(rows, T) = Cardinality(Y)
      /\ Where(rows, S \cup T) = Cardinality(X \cup Y)
  BY <1>1 DEF Where
<1> HIDE DEF X, Y
<1>4. Cardinality(X \cup Y) = Cardinality(X) + Cardinality(Y) - Cardinality(X \cap Y)
  BY <1>2, FS_Union
<1>5. Cardinality(X \cap Y) = 0
  BY <1>1, FS_EmptySet DEF X, Y
<1> QED  BY <1>2, <1>3, <1>4, <1>5

\* Every row holds some value.
LEMMA WhereAll ==
  ASSUME NEW rows \in Seq(Values) PROVE Where(rows, Values) = Len(rows)
<1>1. {i \in DOMAIN rows : rows[i] \in Values} = DOMAIN rows
  BY Lengths
<1> QED  BY <1>1, Lengths DEF Where

\* Fewer values, fewer rows.
LEMMA WhereSubset ==
  ASSUME NEW rows \in Seq(Values), NEW S, NEW T \in SUBSET S
  PROVE  Where(rows, T) <= Where(rows, S)
<1>1. Where(rows, T \cup (S \ T)) = Where(rows, T) + Where(rows, S \ T)
  BY WhereSum
<1>2. T \cup (S \ T) = S
  OBVIOUS
<1>3. Where(rows, T) \in Nat /\ Where(rows, S \ T) \in Nat
  BY WhereType
<1>4. Where(rows, S) = Where(rows, T) + Where(rows, S \ T)
  BY <1>1, <1>2
<1> QED  BY <1>3, <1>4

\* The types of the values.
LEMMA ValueTypes ==
  /\ \A v \in Values : /\ TypeOf(v) = "missing" <=> v \in Blank
                       /\ TypeOf(v) = "integer" <=> v \in Integral
                       /\ TypeOf(v) = "string" <=> v = "text"
                       /\ TypeOf(v) = "non_finite_number" <=> v = "nan"
                       /\ TypeOf(v) \in {"missing", "integer", "string", "non_finite_number"}
                       /\ Finite(v) <=> v \in Integral \ {"huge"}
  /\ Types = {"integer", "string", "non_finite_number"}
<1>1. /\ TypeOf("absent") = "missing" /\ TypeOf("missing") = "missing"
      /\ TypeOf("low") = "integer" /\ TypeOf("right") = "integer"
      /\ TypeOf("high") = "integer" /\ TypeOf("huge") = "integer"
      /\ TypeOf("text") = "string" /\ TypeOf("nan") = "non_finite_number"
  BY DEF TypeOf
<1>2. Types = {TypeOf("absent"), TypeOf("missing"), TypeOf("low"), TypeOf("right"), TypeOf("high"),
               TypeOf("huge"), TypeOf("text"), TypeOf("nan")} \ {"missing"}
  BY DEF Types, Values
<1>3. Types = {"integer", "string", "non_finite_number"}
  BY <1>1, <1>2
<1> QED  BY <1>1, <1>3 DEF Values, Blank, Integral, Finite

\* What is counted, in terms of the values.
LEMMA Counts ==
  ASSUME NEW rows \in Seq(Values), NEW types \in SUBSET STRING
  PROVE  /\ Count(rows, LAMBDA v : TypeOf(v) = "missing") = Where(rows, Blank)
         /\ Count(rows, LAMBDA v : TypeOf(v) # "missing") = Where(rows, Values \ Blank)
         /\ Count(rows, LAMBDA v : TypeOf(v) = "integer") = Where(rows, Integral)
         /\ Count(rows, LAMBDA v : TypeOf(v) = "string") = Where(rows, {"text"})
         /\ Count(rows, LAMBDA v : TypeOf(v) = "non_finite_number") = Where(rows, {"nan"})
         /\ Count(rows, LAMBDA v : TypeOf(v) = "integer" /\ ~Finite(v)) = Where(rows, {"huge"})
         /\ Count(rows, LAMBDA v : TypeOf(v) # "missing" /\ ~Finite(v)) = Where(rows, {"huge", "text", "nan"})
         /\ Count(rows, LAMBDA v : Finite(v)) = Where(rows, {"low", "right", "high"})
         /\ Count(rows, LAMBDA v : TypeOf(v) # "missing" /\ ~Allows(types, TypeOf(v)))
              = Where(rows, {v \in Values \ Blank : ~Allows(types, TypeOf(v))})
<1>1. \A i \in DOMAIN rows : rows[i] \in Values
  BY Lengths
<1>2. {i \in DOMAIN rows : TypeOf(rows[i]) = "missing"} = {i \in DOMAIN rows : rows[i] \in Blank}
  BY <1>1, ValueTypes
<1>3. {i \in DOMAIN rows : TypeOf(rows[i]) # "missing"} = {i \in DOMAIN rows : rows[i] \in Values \ Blank}
  BY <1>1, ValueTypes
<1>4. {i \in DOMAIN rows : TypeOf(rows[i]) = "integer"} = {i \in DOMAIN rows : rows[i] \in Integral}
  BY <1>1, ValueTypes
<1>5. {i \in DOMAIN rows : TypeOf(rows[i]) = "string"} = {i \in DOMAIN rows : rows[i] \in {"text"}}
  BY <1>1, ValueTypes
<1>6. {i \in DOMAIN rows : TypeOf(rows[i]) = "non_finite_number"} = {i \in DOMAIN rows : rows[i] \in {"nan"}}
  BY <1>1, ValueTypes
<1>7. {i \in DOMAIN rows : TypeOf(rows[i]) = "integer" /\ ~Finite(rows[i])}
      = {i \in DOMAIN rows : rows[i] \in {"huge"}}
  BY <1>1, ValueTypes DEF Integral
<1>8. {i \in DOMAIN rows : TypeOf(rows[i]) # "missing" /\ ~Finite(rows[i])}
      = {i \in DOMAIN rows : rows[i] \in {"huge", "text", "nan"}}
  BY <1>1, ValueTypes DEF Integral, Values, Blank
<1>9. {i \in DOMAIN rows : Finite(rows[i])} = {i \in DOMAIN rows : rows[i] \in {"low", "right", "high"}}
  BY DEF Finite
<1>10. {i \in DOMAIN rows : TypeOf(rows[i]) # "missing" /\ ~Allows(types, TypeOf(rows[i]))}
       = {i \in DOMAIN rows : rows[i] \in {v \in Values \ Blank : ~Allows(types, TypeOf(v))}}
  BY <1>1, ValueTypes
<1> QED  BY <1>2, <1>3, <1>4, <1>5, <1>6, <1>7, <1>8, <1>9, <1>10 DEF Count, Where

\* The profiled rows, all of them unless they are truncated.
LEMMA RowsOf ==
  ASSUME NEW table \in Seq(Values)
  PROVE  /\ ProfiledRows(table) \in Seq(Values)
         /\ ~Truncated(table) => ProfiledRows(table) = table
<1> DEFINE n == IF Len(table) > MaxRows THEN MaxRows ELSE Len(table)
<1>1. Len(table) \in Nat /\ n \in 0..Len(table)
  BY Lengths, DatasetAssumption
<1>2. ProfiledRows(table) = SubSeq(table, 1, n)
  BY DEF ProfiledRows
<1> HIDE DEF n
<1>3. \A i \in 1..n : i \in 1..Len(table)
  BY <1>1
<1>4. SubSeq(table, 1, n) \in Seq(Values)
  BY <1>1, SubSeqProperties
<1>5. ~Truncated(table) => n = Len(table)
  BY <1>1 DEF n, Truncated
<1>6. SubSeq(table, 1, Len(table)) = table
  BY SubSeqFull
<1> QED  BY <1>2, <1>4, <1>5, <1>6

\* What a profile holds.
LEMMA ProfileOf ==
  ASSUME NEW input \in Inputs
  PROVE  LET rows == ProfiledRows(input.table)
             p    == Profile(input) IN
         /\ rows \in Seq(Values) /\ input.contract \in Contracts /\ input.table \in Seq(Values)
         /\ p.rows = Len(rows) /\ p.truncated = Truncated(input.table) /\ p.present = Present(rows)
         /\ p.missing = Where(rows, Blank)
         /\ p.types["integer"] = Where(rows, Integral) /\ p.types["string"] = Where(rows, {"text"})
         /\ p.types["non_finite_number"] = Where(rows, {"nan"})
         /\ p.mixed = (Cardinality({t \in Types : p.types[t] > 0}) > 1)
         /\ p.excluded = Where(rows, {"huge"})
         /\ p.twins = Cardinality(Twins(rows, DOMAIN rows))
         /\ p.contract = input.contract /\ p.results = RuleResults(rows, input.contract)
         /\ p.failed = FailedRules(p.results) /\ p.status = Status(p.results, p.truncated)
<1> DEFINE rows == ProfiledRows(input.table)
           p    == Profile(input)
           types == [t \in Types |-> Count(rows, LAMBDA v : TypeOf(v) = t)]
<1>1. input.contract \in Contracts /\ input.table \in Seq(Values)
  BY DatasetAssumption DEF Inputs
<1>2. rows \in Seq(Values)
  BY <1>1, RowsOf
<1>3. /\ p.rows = Len(rows) /\ p.truncated = Truncated(input.table) /\ p.present = Present(rows)
      /\ p.types = types /\ p.contract = input.contract /\ p.results = RuleResults(rows, input.contract)
      /\ p.failed = FailedRules(p.results) /\ p.status = Status(p.results, p.truncated)
      /\ p.mixed = (Cardinality({t \in Types : types[t] > 0}) > 1)
      /\ p.twins = Cardinality(Twins(rows, DOMAIN rows))
  BY DEF Profile
<1>4. /\ p.missing = Count(rows, LAMBDA v : TypeOf(v) = "missing")
      /\ p.excluded = Count(rows, LAMBDA v : TypeOf(v) = "integer" /\ ~Finite(v))
  BY DEF Profile
<1>5. /\ types["integer"] = Count(rows, LAMBDA v : TypeOf(v) = "integer")
      /\ types["string"] = Count(rows, LAMBDA v : TypeOf(v) = "string")
      /\ types["non_finite_number"] = Count(rows, LAMBDA v : TypeOf(v) = "non_finite_number")
  BY ValueTypes
<1> HIDE DEF p, types
<1>6. p.missing = Where(rows, Blank) /\ p.excluded = Where(rows, {"huge"})
      /\ types["integer"] = Where(rows, Integral) /\ types["string"] = Where(rows, {"text"})
      /\ types["non_finite_number"] = Where(rows, {"nan"})
  <2> HIDE DEF rows
  <2> QED  BY <1>2, <1>4, <1>5, Counts
<1> HIDE DEF rows
<1>7. p.types["integer"] = Where(rows, Integral) /\ p.types["string"] = Where(rows, {"text"})
      /\ p.types["non_finite_number"] = Where(rows, {"nan"})
      /\ p.mixed = (Cardinality({t \in Types : p.types[t] > 0}) > 1)
  BY <1>3, <1>6
<1> QED  BY <1>1, <1>2, <1>3, <1>6, <1>7 DEF rows, p

\* The results of the three rules.
LEMMA RequiredIs ==
  ASSUME NEW rows \in Seq(Values)
  PROVE  LET r == RequiredResult(rows) IN
         /\ r.present = Present(rows)
         /\ r.missing = IF Present(rows) THEN Where(rows, Blank) ELSE Len(rows)
         /\ r.passed = (Present(rows) /\ r.missing = 0)
<1>1. Count(rows, LAMBDA v : TypeOf(v) = "missing") = Where(rows, Blank)
  BY Counts
<1> QED  BY <1>1 DEF RequiredResult

\* Values whose type a contract does not allow.
Refused(types) == {v \in Values \ Blank : ~Allows(types, TypeOf(v))}

\* The rule of types.
LEMMA TypesIs ==
  ASSUME NEW rows \in Seq(Values), NEW types \in SUBSET STRING
  PROVE  LET r == TypeResult(rows, types) IN
         /\ r.present = Present(rows)
         /\ r.checked = IF Present(rows) THEN Where(rows, Values \ Blank) ELSE 0
         /\ r.unexpected = IF Present(rows) THEN Where(rows, Refused(types)) ELSE 0
         /\ r.passed = (Present(rows) /\ r.unexpected = 0)
<1>1. Count(rows, LAMBDA v : TypeOf(v) # "missing") = Where(rows, Values \ Blank)
      /\ Count(rows, LAMBDA v : TypeOf(v) # "missing" /\ ~Allows(types, TypeOf(v))) = Where(rows, Refused(types))
  BY Counts DEF Refused
<1> QED  BY <1>1 DEF TypeResult

\* Values out of range.
Below(bounds) == IF "minimum" \in bounds THEN {"low"} ELSE {}
Above(bounds) == IF "maximum" \in bounds THEN {"high"} ELSE {}

\* The rule of ranges.
LEMMA RangeIs ==
  ASSUME NEW rows \in Seq(Values), NEW bounds \in SUBSET {"minimum", "maximum"}
  PROVE  LET r == RangeResult(rows, bounds)
             N(S) == IF Present(rows) THEN Where(rows, S) ELSE 0 IN
         /\ r.present = Present(rows)
         /\ r.filled = N(Values \ Blank) /\ r.checked = N({"low", "right", "high"})
         /\ r.uncheckable = N({"huge", "text", "nan"})
         /\ r.below = N(Below(bounds)) /\ r.above = N(Above(bounds))
         /\ r.violations = r.uncheckable + r.below + r.above
         /\ r.passed = (Present(rows) /\ r.violations = 0)
<1>1. /\ Count(rows, LAMBDA v : TypeOf(v) # "missing") = Where(rows, Values \ Blank)
      /\ Count(rows, LAMBDA v : TypeOf(v) # "missing" /\ ~Finite(v)) = Where(rows, {"huge", "text", "nan"})
      /\ Count(rows, LAMBDA v : Finite(v)) = Where(rows, {"low", "right", "high"})
  BY Counts
<1>2. {i \in DOMAIN rows : rows[i] = "low" /\ "minimum" \in bounds} = {i \in DOMAIN rows : rows[i] \in Below(bounds)}
  BY DEF Below
<1>3. {i \in DOMAIN rows : rows[i] = "high" /\ "maximum" \in bounds} = {i \in DOMAIN rows : rows[i] \in Above(bounds)}
  BY DEF Above
<1>4. Count(rows, LAMBDA v : v = "low" /\ "minimum" \in bounds) = Where(rows, Below(bounds))
      /\ Count(rows, LAMBDA v : v = "high" /\ "maximum" \in bounds) = Where(rows, Above(bounds))
  BY <1>2, <1>3 DEF Count, Where
<1>5. Count(rows, Finite) = Count(rows, LAMBDA v : Finite(v))
  BY DEF Count
<1> QED  BY <1>1, <1>4, <1>5 DEF RangeResult

\* The counts of a profile add up.
LEMMA Partition ==
  ASSUME NEW rows \in Seq(Values)
  PROVE  /\ Where(rows, Values \ Blank) = Where(rows, Integral) + Where(rows, {"text"}) + Where(rows, {"nan"})
         /\ Len(rows) = Where(rows, Blank) + Where(rows, Values \ Blank)
         /\ Where(rows, Values \ Blank) = Where(rows, {"low", "right", "high"}) + Where(rows, {"huge", "text", "nan"})
         /\ \A types \in SUBSET STRING :
              LET n(t, S) == IF ~Allows(types, t) THEN Where(rows, S) ELSE 0 IN
              Where(rows, Refused(types)) = n("integer", Integral) + n("string", {"text"}) + n("non_finite_number", {"nan"})
         /\ \A bounds \in SUBSET {"minimum", "maximum"} :
              Where(rows, Below(bounds)) + Where(rows, Above(bounds)) <= Where(rows, {"low", "right", "high"})
<1>1. /\ Values \ Blank = (Integral \cup {"text"}) \cup {"nan"} /\ Integral \cap {"text"} = {}
      /\ (Integral \cup {"text"}) \cap {"nan"} = {}
      /\ Values = Blank \cup (Values \ Blank)
      /\ Values \ Blank = {"low", "right", "high"} \cup {"huge", "text", "nan"}
      /\ {"low", "right", "high"} \cap {"huge", "text", "nan"} = {}
  BY DEF Values, Blank, Integral
<1>2. Where(rows, (Integral \cup {"text"}) \cup {"nan"}) = Where(rows, Integral) + Where(rows, {"text"}) + Where(rows, {"nan"})
  <2>1. Where(rows, Integral \cup {"text"}) = Where(rows, Integral) + Where(rows, {"text"})
    BY <1>1, WhereSum
  <2>2. Where(rows, (Integral \cup {"text"}) \cup {"nan"}) = Where(rows, Integral \cup {"text"}) + Where(rows, {"nan"})
    BY <1>1, WhereSum
  <2> QED  BY <2>1, <2>2
<1>3. Where(rows, Blank \cup (Values \ Blank)) = Where(rows, Blank) + Where(rows, Values \ Blank)
  BY WhereSum
<1>4. Where(rows, {"low", "right", "high"} \cup {"huge", "text", "nan"})
      = Where(rows, {"low", "right", "high"}) + Where(rows, {"huge", "text", "nan"})
  BY <1>1, WhereSum
<1>5. ASSUME NEW types \in SUBSET STRING
      PROVE  LET n(t, S) == IF ~Allows(types, t) THEN Where(rows, S) ELSE 0 IN
             Where(rows, Refused(types)) = n("integer", Integral) + n("string", {"text"}) + n("non_finite_number", {"nan"})
  <2> DEFINE A == IF ~Allows(types, "integer") THEN Integral ELSE {}
             B == IF ~Allows(types, "string") THEN {"text"} ELSE {}
             C == IF ~Allows(types, "non_finite_number") THEN {"nan"} ELSE {}
  <2>1. Refused(types) = (A \cup B) \cup C
    <3> SUFFICES ASSUME NEW v \in Values PROVE v \in Refused(types) <=> v \in (A \cup B) \cup C
      BY DEF Refused, Values, Integral
    <3>1. \/ TypeOf(v) = "missing" /\ v \in Blank /\ v \notin Integral /\ v # "text" /\ v # "nan"
          \/ TypeOf(v) = "integer" /\ v \notin Blank /\ v \in Integral /\ v # "text" /\ v # "nan"
          \/ TypeOf(v) = "string" /\ v \notin Blank /\ v \notin Integral /\ v = "text" /\ v # "nan"
          \/ TypeOf(v) = "non_finite_number" /\ v \notin Blank /\ v \notin Integral /\ v # "text" /\ v = "nan"
      BY ValueTypes
    <3> QED  BY <3>1 DEF Refused
  <2>2. A \cap B = {} /\ (A \cup B) \cap C = {}
    BY DEF Integral
  <2>3. Where(rows, {}) = 0
    BY WhereType
  <2>4. /\ Where(rows, A) = IF ~Allows(types, "integer") THEN Where(rows, Integral) ELSE 0
        /\ Where(rows, B) = IF ~Allows(types, "string") THEN Where(rows, {"text"}) ELSE 0
        /\ Where(rows, C) = IF ~Allows(types, "non_finite_number") THEN Where(rows, {"nan"}) ELSE 0
    BY <2>3
  <2> HIDE DEF A, B, C
  <2>5. Where(rows, (A \cup B) \cup C) = Where(rows, A) + Where(rows, B) + Where(rows, C)
    <3>1. Where(rows, A \cup B) = Where(rows, A) + Where(rows, B)
      BY <2>2, WhereSum
    <3>2. Where(rows, (A \cup B) \cup C) = Where(rows, A \cup B) + Where(rows, C)
      BY <2>2, WhereSum
    <3> QED  BY <3>1, <3>2
  <2> QED  BY <2>1, <2>4, <2>5
<1>6. ASSUME NEW bounds \in SUBSET {"minimum", "maximum"}
      PROVE  Where(rows, Below(bounds)) + Where(rows, Above(bounds)) <= Where(rows, {"low", "right", "high"})
  <2>1. Below(bounds) \cap Above(bounds) = {} /\ Below(bounds) \cup Above(bounds) \in SUBSET {"low", "right", "high"}
    BY DEF Below, Above
  <2>2. Where(rows, Below(bounds) \cup Above(bounds)) <= Where(rows, {"low", "right", "high"})
    BY <2>1, WhereSubset
  <2>3. Where(rows, Below(bounds) \cup Above(bounds)) = Where(rows, Below(bounds)) + Where(rows, Above(bounds))
    BY <2>1, WhereSum
  <2> QED  BY <2>2, <2>3
<1>7. Where(rows, Values \ Blank) = Where(rows, Integral) + Where(rows, {"text"}) + Where(rows, {"nan"})
  BY <1>1, <1>2
<1>8. Len(rows) = Where(rows, Blank) + Where(rows, Values \ Blank)
  BY <1>1, <1>3, WhereAll
<1>9. Where(rows, Values \ Blank) = Where(rows, {"low", "right", "high"}) + Where(rows, {"huge", "text", "nan"})
  BY <1>1, <1>4
<1> QED  BY <1>5, <1>6, <1>7, <1>8, <1>9

\* A rule passes where the column is there and every row keeps it.
LEMMA RequiredPasses ==
  ASSUME NEW rows \in Seq(Values)
  PROVE  RequiredResult(rows).passed
         <=> Present(rows) /\ \A i \in DOMAIN rows : TypeOf(rows[i]) # "missing"
<1>1. RequiredResult(rows).passed = (Present(rows) /\ Where(rows, Blank) = 0)
  BY RequiredIs
<1>2. Where(rows, Blank) = 0 <=> \A i \in DOMAIN rows : rows[i] \notin Blank
  BY WhereType
<1>3. \A i \in DOMAIN rows : rows[i] \notin Blank <=> TypeOf(rows[i]) # "missing"
  BY Lengths, ValueTypes
<1> QED  BY <1>1, <1>2, <1>3

\* A table passes the rule of types where no row is refused.
LEMMA TypesPass ==
  ASSUME NEW rows \in Seq(Values), NEW types \in SUBSET STRING
  PROVE  TypeResult(rows, types).passed
         <=> Present(rows) /\ \A i \in DOMAIN rows : TypeOf(rows[i]) = "missing" \/ Allows(types, TypeOf(rows[i]))
<1>1. TypeResult(rows, types).passed = (Present(rows) /\ Where(rows, Refused(types)) = 0)
  BY TypesIs
<1>2. Where(rows, Refused(types)) = 0 <=> \A i \in DOMAIN rows : rows[i] \notin Refused(types)
  BY WhereType
<1>3. \A i \in DOMAIN rows : rows[i] \notin Refused(types)
                             <=> TypeOf(rows[i]) = "missing" \/ Allows(types, TypeOf(rows[i]))
  BY Lengths, ValueTypes DEF Refused
<1> QED  BY <1>1, <1>2, <1>3

\* What a range asks of every row.
InRange(rows, bounds) ==
  \A i \in DOMAIN rows :
    \/ TypeOf(rows[i]) = "missing"
    \/ /\ Finite(rows[i])
       /\ "minimum" \in bounds => rows[i] # "low"
       /\ "maximum" \in bounds => rows[i] # "high"

\* A table passes it where every row is in range.
LEMMA RangePasses ==
  ASSUME NEW rows \in Seq(Values), NEW bounds \in SUBSET {"minimum", "maximum"}
  PROVE  RangeResult(rows, bounds).passed <=> Present(rows) /\ InRange(rows, bounds)
<1> DEFINE U == Where(rows, {"huge", "text", "nan"})
           B == Where(rows, Below(bounds))
           A == Where(rows, Above(bounds))
<1>1. RangeResult(rows, bounds).passed = (Present(rows) /\ U + B + A = 0)
  BY RangeIs
<1>2. /\ U \in Nat /\ B \in Nat /\ A \in Nat
      /\ U = 0 <=> \A i \in DOMAIN rows : rows[i] \notin {"huge", "text", "nan"}
      /\ B = 0 <=> \A i \in DOMAIN rows : rows[i] \notin Below(bounds)
      /\ A = 0 <=> \A i \in DOMAIN rows : rows[i] \notin Above(bounds)
  BY WhereType
<1> HIDE DEF U, B, A
<1>3. U + B + A = 0 <=> U = 0 /\ B = 0 /\ A = 0
  BY <1>2
<1>4. \A i \in DOMAIN rows :
        rows[i] \notin {"huge", "text", "nan"} <=> TypeOf(rows[i]) = "missing" \/ Finite(rows[i])
  BY Lengths, ValueTypes DEF Values, Blank, Integral
<1>5. \A i \in DOMAIN rows : TypeOf(rows[i]) = "missing" => rows[i] # "low" /\ rows[i] # "high"
  BY Lengths, ValueTypes DEF Blank
<1>6. \A i \in DOMAIN rows : /\ rows[i] \notin Below(bounds) <=> ("minimum" \in bounds => rows[i] # "low")
                             /\ rows[i] \notin Above(bounds) <=> ("maximum" \in bounds => rows[i] # "high")
  BY DEF Below, Above
<1>7. (U = 0 /\ B = 0 /\ A = 0) <=> InRange(rows, bounds)
  BY <1>2, <1>4, <1>5, <1>6 DEF InRange
<1> QED  BY <1>1, <1>3, <1>7

\* The rules that fail are counted, and what a contract asks is that none does.
LEMMA Failing ==
  ASSUME NEW rows, NEW contract
  PROVE  LET results == RuleResults(rows, contract) IN
         /\ FailedRules(results) \in Nat
         /\ FailedRules(results) = 0 <=> \A r \in results : r[2].passed
<1> DEFINE results == RuleResults(rows, contract)
           failed  == {r \in results : ~r[2].passed}
           a == <<"required", RequiredResult(rows)>>
           b == <<"types", TypeResult(rows, contract.types)>>
           c == <<"range", RangeResult(rows, contract.bounds)>>
<1>1. results \subseteq {a, b, c}
  BY DEF RuleResults
<1> HIDE DEF a, b, c, results
<1>2. IsFiniteSet({a}) /\ IsFiniteSet({b}) /\ IsFiniteSet({c})
  BY FS_Singleton
<1>3. IsFiniteSet(({a} \cup {b}) \cup {c})
  BY <1>2, FS_Union
<1>4. failed \subseteq ({a} \cup {b}) \cup {c}
  BY <1>1
<1>5. failed = {} <=> \A r \in results : r[2].passed
  OBVIOUS
<1>6. FailedRules(results) = Cardinality(failed)
  BY DEF FailedRules
<1> HIDE DEF failed
<1>7. IsFiniteSet(failed)
  BY <1>3, <1>4, FS_Subset
<1>8. Cardinality(failed) \in Nat /\ (Cardinality(failed) = 0 <=> failed = {})
  BY <1>7, FS_CardinalityType, FS_EmptySet
<1> QED  BY <1>5, <1>6, <1>8 DEF results

\* All the rules of a contract pass where the rows keep it.
LEMMA AllPass ==
  ASSUME NEW rows \in Seq(Values), NEW contract \in Contracts, Configured(contract)
  PROVE  (\A r \in RuleResults(rows, contract) : r[2].passed) <=> Keeps(contract, rows)
<1> DEFINE a == <<"required", RequiredResult(rows)>>
           b == <<"types", TypeResult(rows, contract.types)>>
           c == <<"range", RangeResult(rows, contract.bounds)>>
<1>1. /\ contract.required \in BOOLEAN /\ contract.types \in SUBSET STRING
      /\ contract.bounds \in SUBSET {"minimum", "maximum"}
  BY DatasetAssumption
<1>2. \A r : r \in RuleResults(rows, contract) <=> \/ contract.required /\ r = a
                                                   \/ contract.types # {} /\ r = b
                                                   \/ contract.bounds # {} /\ r = c
  BY DEF RuleResults
<1>3. /\ a[2] = RequiredResult(rows) /\ b[2] = TypeResult(rows, contract.types)
      /\ c[2] = RangeResult(rows, contract.bounds)
  OBVIOUS
<1>4. /\ a[2].passed <=> Present(rows) /\ \A i \in DOMAIN rows : TypeOf(rows[i]) # "missing"
      /\ b[2].passed <=> Present(rows) /\ \A i \in DOMAIN rows : TypeOf(rows[i]) = "missing"
                                                                 \/ Allows(contract.types, TypeOf(rows[i]))
      /\ c[2].passed <=> Present(rows) /\ InRange(rows, contract.bounds)
  <2> HIDE DEF a, b, c
  <2> QED  BY <1>1, <1>3, RequiredPasses, TypesPass, RangePasses
<1> HIDE DEF a, b, c
<1>5. (\A r \in RuleResults(rows, contract) : r[2].passed)
      <=> /\ contract.required => a[2].passed
          /\ contract.types # {} => b[2].passed
          /\ contract.bounds # {} => c[2].passed
  BY <1>1, <1>2
<1>6. Keeps(contract, rows)
      <=> /\ contract.required => \A i \in DOMAIN rows : TypeOf(rows[i]) # "missing"
          /\ contract.types # {} => \A i \in DOMAIN rows : TypeOf(rows[i]) = "missing"
                                                           \/ Allows(contract.types, TypeOf(rows[i]))
          /\ contract.bounds # {} => InRange(rows, contract.bounds)
          /\ Present(rows)
  BY DEF Keeps, InRange, Present
<1> QED  BY <1>4, <1>5, <1>6 DEF Configured

\* A configured contract has rules, and one that is not has none.
LEMMA Configures ==
  ASSUME NEW rows, NEW contract \in Contracts
  PROVE  RuleResults(rows, contract) = {} <=> ~Configured(contract)
<1>1. contract.required \in BOOLEAN
  BY DatasetAssumption
<1> QED  BY <1>1 DEF RuleResults, Configured

\* What a profile stores can be derived again from its aggregates.
LEMMA Readable ==
  ASSUME NEW input \in Inputs
  PROVE  ReadableProfile(Profile(input))
<1> DEFINE rows == ProfiledRows(input.table)
           p    == Profile(input)
           c    == input.contract
<1>1. /\ rows \in Seq(Values) /\ c \in Contracts
      /\ p.rows = Len(rows) /\ p.present = Present(rows) /\ p.missing = Where(rows, Blank)
      /\ p.types["integer"] = Where(rows, Integral) /\ p.types["string"] = Where(rows, {"text"})
      /\ p.types["non_finite_number"] = Where(rows, {"nan"})
      /\ p.contract = c /\ p.results = RuleResults(rows, c)
      /\ p.failed = FailedRules(p.results) /\ p.status = Status(p.results, p.truncated)
  BY ProfileOf
<1> HIDE DEF p, rows, c
<1>2. c.types \in SUBSET STRING /\ c.bounds \in SUBSET {"minimum", "maximum"}
  BY <1>1, DatasetAssumption
<1>3. /\ Where(rows, Blank) \in Nat /\ Where(rows, Integral) \in Nat /\ Where(rows, {"text"}) \in Nat
      /\ Where(rows, {"nan"}) \in Nat /\ Where(rows, Values \ Blank) \in Nat
      /\ Where(rows, {"low", "right", "high"}) \in Nat /\ Where(rows, {"huge", "text", "nan"}) \in Nat
      /\ Where(rows, Below(c.bounds)) \in Nat /\ Where(rows, Above(c.bounds)) \in Nat
      /\ Len(rows) \in Nat
  BY <1>1, WhereType, Lengths
<1>4. Follows(p, "required", RequiredResult(rows))
  <2> DEFINE r == RequiredResult(rows)
  <2>1. /\ r.present = Present(rows)
        /\ r.missing = IF Present(rows) THEN Where(rows, Blank) ELSE Len(rows)
        /\ r.passed = (Present(rows) /\ r.missing = 0)
    BY <1>1, RequiredIs
  <2> HIDE DEF r
  <2>2. Follows(p, "required", r)
    BY <1>1, <2>1 DEF Follows
  <2> QED  BY <2>2 DEF r
<1>5. Follows(p, "types", TypeResult(rows, c.types))
  <2> DEFINE r == TypeResult(rows, c.types)
             bad == {t \in Types : ~Allows(p.contract.types, t)}
             n(t, S) == IF ~Allows(c.types, t) THEN Where(rows, S) ELSE 0
  <2>1. /\ r.present = Present(rows)
        /\ r.checked = IF Present(rows) THEN Where(rows, Values \ Blank) ELSE 0
        /\ r.unexpected = IF Present(rows) THEN Where(rows, Refused(c.types)) ELSE 0
        /\ r.passed = (Present(rows) /\ r.unexpected = 0)
    BY <1>1, <1>2, TypesIs
  <2>2. /\ Where(rows, Values \ Blank) = Where(rows, Integral) + Where(rows, {"text"}) + Where(rows, {"nan"})
        /\ Where(rows, Refused(c.types)) = n("integer", Integral) + n("string", {"text"}) + n("non_finite_number", {"nan"})
    BY <1>1, <1>2, Partition
  <2> HIDE DEF r
  <2>3. SumTypes(p, Types) = Where(rows, Values \ Blank)
    BY <1>1, <2>2, ValueTypes DEF SumTypes
  <2>4. \A t \in Types : t \in bad <=> ~Allows(c.types, t)
    BY <1>1
  <2> HIDE DEF bad
  <2>5. SumTypes(p, bad) = n("integer", Integral) + n("string", {"text"}) + n("non_finite_number", {"nan"})
    BY <1>1, <2>4, ValueTypes DEF SumTypes
  <2>6. SumTypes(p, bad) = Where(rows, Refused(c.types))
    BY <2>2, <2>5
  <2>7. Follows(p, "types", r)
    BY <1>1, <2>1, <2>3, <2>6 DEF Follows, bad
  <2> QED  BY <2>7 DEF r
<1>6. Follows(p, "range", RangeResult(rows, c.bounds))
  <2> DEFINE r == RangeResult(rows, c.bounds)
             N(S) == IF Present(rows) THEN Where(rows, S) ELSE 0
  <2>1. /\ r.present = Present(rows)
        /\ r.filled = N(Values \ Blank) /\ r.checked = N({"low", "right", "high"})
        /\ r.uncheckable = N({"huge", "text", "nan"})
        /\ r.below = N(Below(c.bounds)) /\ r.above = N(Above(c.bounds))
        /\ r.violations = r.uncheckable + r.below + r.above
        /\ r.passed = (Present(rows) /\ r.violations = 0)
    BY <1>1, <1>2, RangeIs
  <2> HIDE DEF r
  <2>2. /\ Len(rows) = Where(rows, Blank) + Where(rows, Values \ Blank)
        /\ Where(rows, Values \ Blank) = Where(rows, {"low", "right", "high"}) + Where(rows, {"huge", "text", "nan"})
        /\ Where(rows, Below(c.bounds)) + Where(rows, Above(c.bounds)) <= Where(rows, {"low", "right", "high"})
    BY <1>1, <1>2, Partition
  <2>3. r.filled = IF p.present THEN p.rows - p.missing ELSE 0
    BY <1>1, <1>3, <2>1, <2>2
  <2>4. r.checked + r.uncheckable = r.filled /\ r.below + r.above <= r.checked
    BY <1>3, <2>1, <2>2
  <2>5. Follows(p, "range", r)
    BY <1>1, <2>1, <2>3, <2>4 DEF Follows
  <2> QED  BY <2>5 DEF r
<1>7. \A r \in RuleResults(rows, c) : Follows(p, r[1], r[2])
  BY <1>4, <1>5, <1>6 DEF RuleResults
<1>8. ReadableProfile(p)
  BY <1>1, <1>7 DEF ReadableProfile
<1> QED  BY <1>8 DEF p

\* What the statuses of a contract mean.
LEMMA Statuses ==
  ASSUME NEW results, NEW truncated, FailedRules(results) \in Nat
  PROVE  /\ Status(results, truncated) # "unavailable"
         /\ Status(results, truncated) = "conforms"
            => results # {} /\ FailedRules(results) = 0 /\ ~truncated
         /\ Status(results, truncated) = "violations"
            <=> results # {} /\ FailedRules(results) # 0
<1>1. FailedRules(results) > 0 <=> FailedRules(results) # 0
  OBVIOUS
<1>2. CASE results = {}
  BY <1>2 DEF Status
<1>3. CASE results # {} /\ FailedRules(results) > 0
  <2>1. Status(results, truncated) = "violations"
    BY <1>3 DEF Status
  <2> QED  BY <1>1, <1>3, <2>1
<1>4. CASE results # {} /\ ~(FailedRules(results) > 0) /\ truncated
  <2>1. Status(results, truncated) = "conforms profiled rows"
    BY <1>4 DEF Status
  <2> QED  BY <1>1, <1>4, <2>1
<1>5. CASE results # {} /\ ~(FailedRules(results) > 0) /\ ~truncated
  <2>1. Status(results, truncated) = "conforms"
    BY <1>5 DEF Status
  <2> QED  BY <1>1, <1>5, <2>1
<1> QED  BY <1>2, <1>3, <1>4, <1>5

\* What a dashboard says of the contract is true.
LEMMA ContractTold ==
  ASSUME NEW input \in Inputs
  PROVE  LET view == Overview(Profile(input)) IN
         /\ view.contract # "unavailable"
         /\ view.contract = "conforms" => Keeps(input.contract, input.table)
         /\ view.contract = "violations" <=> /\ Configured(input.contract)
                                             /\ ~Keeps(input.contract, ProfiledRows(input.table))
<1> DEFINE rows == ProfiledRows(input.table)
           p    == Profile(input)
           c    == input.contract
           view == Overview(p)
<1>1. /\ rows \in Seq(Values) /\ c \in Contracts /\ input.table \in Seq(Values)
      /\ p.truncated = Truncated(input.table) /\ p.results = RuleResults(rows, c)
      /\ p.status = Status(p.results, p.truncated)
  BY ProfileOf
<1>2. ReadableProfile(p)
  BY Readable
<1>3. ~Truncated(input.table) => rows = input.table
  BY <1>1, RowsOf
<1> HIDE DEF rows, p, c
<1>4. view.contract = p.status
  BY <1>2 DEF Overview
<1>5. /\ p.results = {} <=> ~Configured(c)
      /\ FailedRules(p.results) \in Nat
      /\ FailedRules(p.results) = 0 <=> \A r \in p.results : r[2].passed
      /\ Configured(c) => ((\A r \in p.results : r[2].passed) <=> Keeps(c, rows))
  BY <1>1, Configures, Failing, AllPass
<1>6. /\ p.status # "unavailable"
      /\ p.status = "conforms" => p.results # {} /\ FailedRules(p.results) = 0 /\ ~p.truncated
      /\ p.status = "violations" <=> p.results # {} /\ FailedRules(p.results) # 0
  BY <1>1, <1>5, Statuses
<1>7. p.status = "conforms" => Configured(c) /\ FailedRules(p.results) = 0 /\ ~Truncated(input.table)
  BY <1>1, <1>5, <1>6
<1>8. p.status = "violations" <=> Configured(c) /\ FailedRules(p.results) # 0
  BY <1>5, <1>6
<1>9. p.status = "conforms" => Keeps(c, input.table)
  BY <1>3, <1>5, <1>7
<1>10. p.status = "violations" <=> Configured(c) /\ ~Keeps(c, rows)
  BY <1>5, <1>8
<1> HIDE DEF view
<1>11. /\ view.contract # "unavailable"
       /\ view.contract = "conforms" => Keeps(c, input.table)
       /\ view.contract = "violations" <=> Configured(c) /\ ~Keeps(c, rows)
  BY <1>4, <1>6, <1>9, <1>10
<1> QED  BY <1>11 DEF view, p, c, rows

\* A clean bill is of every row of the file.
LEMMA QualityTold ==
  ASSUME NEW input \in Inputs, Overview(Profile(input)).quality = "clear"
  PROVE  LET table == input.table IN
         \/ table = <<"absent">>
         \/ /\ \A i, j \in DOMAIN table : i # j => table[i] # table[j]
            /\ \/ \A i \in DOMAIN table : Finite(table[i])
               \/ \A i \in DOMAIN table : table[i] = "text"
<1> DEFINE rows  == ProfiledRows(input.table)
           p     == Profile(input)
           table == input.table
           twins == Twins(rows, DOMAIN rows)
           used  == {t \in Types : p.types[t] > 0}
<1>1. /\ rows \in Seq(Values) /\ table \in Seq(Values)
      /\ p.truncated = Truncated(table) /\ p.present = Present(rows) /\ p.missing = Where(rows, Blank)
      /\ p.types["integer"] = Where(rows, Integral) /\ p.types["string"] = Where(rows, {"text"})
      /\ p.types["non_finite_number"] = Where(rows, {"nan"})
      /\ p.mixed = (Cardinality(used) > 1) /\ p.excluded = Where(rows, {"huge"})
      /\ p.twins = Cardinality(twins)
  BY ProfileOf
<1>2. ~Truncated(table) => rows = table
  BY <1>1, RowsOf
<1>3. twins \subseteq DOMAIN rows
      /\ (twins = {} => \A i, j \in DOMAIN rows : i # j => rows[i] # rows[j])
  BY DEF Twins
<1> HIDE DEF rows, p, twins
<1>4. ~Flagged(p)
  <2>1. ReadableProfile(p) /\ Overview(p).quality = "clear"
    BY Readable DEF p
  <2>2. Overview(p).quality = IF Flagged(p) \/ KeySignals(p) THEN "review" ELSE "clear"
    BY <2>1 DEF Overview
  <2> QED  BY <2>1, <2>2
<1>5. /\ p.present => /\ ~(p.missing > 0) /\ ~p.mixed /\ ~(p.excluded > 0)
                      /\ ~(p.types["non_finite_number"] > 0)
      /\ ~(p.twins > 0) /\ ~p.truncated
  BY <1>4 DEF Flagged
<1>6. rows = table
  BY <1>1, <1>2, <1>5
<1>7. twins = {}
  <2>1. IsFiniteSet(twins)
    BY <1>1, <1>3, Lengths, FS_Subset
  <2>2. Cardinality(twins) \in Nat /\ (Cardinality(twins) = 0 <=> twins = {})
    BY <2>1, FS_CardinalityType, FS_EmptySet
  <2> QED  BY <1>1, <1>5, <2>2
<1>8. \A i, j \in DOMAIN table : i # j => table[i] # table[j]
  BY <1>3, <1>6, <1>7
<1>9. /\ Len(table) \in Nat /\ DOMAIN table = 1..Len(table)
      /\ \A i \in DOMAIN table : table[i] \in Values
  BY <1>1, Lengths
<1>10. CASE Present(rows)
  <2>1. /\ Where(rows, Blank) = 0 /\ Where(rows, {"huge"}) = 0 /\ Where(rows, {"nan"}) = 0
        /\ ~(Cardinality(used) > 1)
    <3>1. Where(rows, Blank) \in Nat /\ Where(rows, {"huge"}) \in Nat /\ Where(rows, {"nan"}) \in Nat
      BY <1>1, WhereType
    <3>2. /\ ~(Where(rows, Blank) > 0) /\ ~(Where(rows, {"huge"}) > 0)
          /\ ~(Where(rows, {"nan"}) > 0)
      BY <1>1, <1>5, <1>10
    <3>3. ~(Cardinality(used) > 1)
      <4> HIDE DEF used
      <4> QED  BY <1>1, <1>5, <1>10
    <3> HIDE DEF used
    <3> QED  BY <3>1, <3>2, <3>3
  <2>2. \A i \in DOMAIN table : table[i] \notin Blank /\ table[i] # "huge" /\ table[i] # "nan"
    <3>1. \A i \in DOMAIN rows : rows[i] \notin Blank /\ rows[i] \notin {"huge"} /\ rows[i] \notin {"nan"}
      BY <1>1, <2>1, WhereType
    <3> QED  BY <1>6, <3>1
  <2>3. \A i \in DOMAIN table : Finite(table[i]) \/ table[i] = "text"
    BY <1>9, <2>2 DEF Values, Blank, Finite
  <2>4. ~(Where(rows, Integral) > 0 /\ Where(rows, {"text"}) > 0)
    <3> SUFFICES ASSUME Where(rows, Integral) > 0, Where(rows, {"text"}) > 0 PROVE FALSE
      OBVIOUS
    <3>1. "integer" \in used /\ "string" \in used
      BY <1>1, ValueTypes
    <3>2. used \subseteq Types
      OBVIOUS
    <3> HIDE DEF used
    <3>3. IsFiniteSet({"integer"}) /\ IsFiniteSet({"string"}) /\ IsFiniteSet({"non_finite_number"})
      BY FS_Singleton
    <3>4. IsFiniteSet(({"integer"} \cup {"string"}) \cup {"non_finite_number"})
      BY <3>3, FS_Union
    <3>5. used \subseteq ({"integer"} \cup {"string"}) \cup {"non_finite_number"}
      BY <3>2, ValueTypes
    <3>6. IsFiniteSet(used)
      BY <3>4, <3>5, FS_Subset
    <3>7. Cardinality({"integer"}) = 1 /\ Cardinality({"string"}) = 1
      BY FS_Singleton
    <3>8. Cardinality({"integer"} \cap {"string"}) = 0
      BY FS_EmptySet
    <3>9. Cardinality({"integer"} \cup {"string"}) = 2
      BY <3>3, <3>7, <3>8, FS_Union
    <3>10. {"integer"} \cup {"string"} \subseteq used
      BY <3>1
    <3>11. Cardinality({"integer"} \cup {"string"}) <= Cardinality(used)
      BY <3>6, <3>10, FS_Subset
    <3>12. Cardinality(used) \in Nat
      BY <3>6, FS_CardinalityType
    <3> QED  BY <2>1, <3>9, <3>11, <3>12
  <2>5. /\ Where(rows, Integral) \in Nat /\ Where(rows, {"text"}) \in Nat
        /\ Where(rows, Integral) = 0 <=> \A i \in DOMAIN table : table[i] \notin Integral
        /\ Where(rows, {"text"}) = 0 <=> \A i \in DOMAIN table : table[i] # "text"
    <3>1. /\ Where(rows, {"text"}) = 0 <=> \A i \in DOMAIN rows : rows[i] \notin {"text"}
          /\ Where(rows, Integral) = 0 <=> \A i \in DOMAIN rows : rows[i] \notin Integral
      BY <1>1, WhereType
    <3> QED  BY <1>1, <1>6, <3>1, WhereType
  <2>6. \/ \A i \in DOMAIN table : table[i] \notin Integral
        \/ \A i \in DOMAIN table : table[i] # "text"
    BY <2>4, <2>5
  <2> QED  BY <1>8, <2>3, <2>6 DEF Integral, Finite
<1>11. CASE ~Present(rows)
  <2>1. \A i \in DOMAIN table : table[i] = "absent"
    BY <1>6, <1>11 DEF Present
  <2>2. CASE Len(table) = 0
    BY <1>8, <1>9, <2>2
  <2>3. CASE Len(table) = 1
    <3>1. table \in Seq(Values) /\ table[1] = "absent"
      BY <1>1, <1>9, <2>1, <2>3
    <3>2. table = <<"absent">>
      BY <2>3, <3>1
    <3> QED  BY <3>2
  <2>4. CASE Len(table) > 1
    <3>1. 1 \in DOMAIN table /\ 2 \in DOMAIN table
      BY <1>9, <2>4
    <3>2. table[1] = "absent" /\ table[2] = "absent"
      BY <2>1, <3>1
    <3>3. table[1] # table[2]
      BY <1>8, <3>1
    <3> QED  BY <3>2, <3>3
  <2>5. Len(table) = 0 \/ Len(table) = 1 \/ Len(table) > 1
    <3>1. Len(table) \in Nat
      BY <1>9
    <3>2. \A n \in Nat : n = 0 \/ n = 1 \/ n > 1
      OBVIOUS
    <3> HIDE DEF table
    <3> QED  BY <3>1, <3>2
  <2> QED  BY <2>2, <2>3, <2>4, <2>5
<1> QED  BY <1>10, <1>11

(* The commands *)

\* Briefs and commands, typed.
Briefs == [of : Inputs, whole : Truth]

ProfilerRecord == [step : ProfilerSteps, input : Inputs \cup {None},
                   read : Briefs \cup {None}, alone : Truth]

AtRest(p) == profiler[p].step = "idle"

\* A command that has been alone finds brief, row and reading as it left them.
InStep(k) ==
  /\ k.step = "writing" => brief = [of |-> k.input, whole |-> FALSE]
  /\ k.step \in {"brief", "ledger", "read"} => brief = [of |-> k.input, whole |-> TRUE]
  /\ k.step \in {"ledger", "read"} => stored = k.input
  /\ k.step = "read" => k.read = brief

\* The types of the files.
FilesOK ==
  /\ sourceTable \in Tables /\ stored \in Inputs \cup {None}
  /\ brief \in Briefs \cup {None} /\ indexed \in Briefs \cup {None}
  /\ profiles \in 0..MaxProfiles /\ tableChanges \in 0..MaxTableChanges

\* Every command holds an input, and one that is alone is in step.
ProfilersOK ==
  /\ profiler \in [Profilers -> ProfilerRecord]
  /\ \A p \in Profilers : profiler[p].step # "idle" => profiler[p].input \in Inputs
  /\ \A p \in Profilers : profiler[p].step # "idle" /\ profiler[p].alone =>
       /\ \A o \in Profilers \ {p} : AtRest(o)
       /\ InStep(profiler[p])

\* Where the last command ran alone to its end, brief, row and index agree.
AgreedOK == agreed => /\ \A p \in Profilers : AtRest(p)
                      /\ brief = [of |-> stored, whole |-> TRUE] /\ indexed = brief

\* What every reachable state satisfies.
DatasetInv == FilesOK /\ ProfilersOK /\ AgreedOK

\* One command moves on: it keeps what it holds, and the others were not alone.
LEMMA ProfilerMoves ==
  ASSUME ProfilersOK, AgreedOK, NEW p \in Profilers, ~AtRest(p), NEW k \in ProfilerRecord,
         profiler' = [profiler EXCEPT ![p] = k], agreed' = agreed,
         k.step # "idle" => k.input \in Inputs,
         k.step # "idle" /\ k.alone => profiler[p].alone /\ InStep(k)'
  PROVE  ProfilersOK' /\ AgreedOK'
<1>1. /\ profiler' \in [Profilers -> ProfilerRecord] /\ profiler'[p] = k
      /\ \A q \in Profilers \ {p} : profiler'[q] = profiler[q]
  BY DEF ProfilersOK
<1>2. \A q \in Profilers : profiler'[q].step # "idle" => profiler'[q].input \in Inputs
  BY <1>1 DEF ProfilersOK
<1>3. ASSUME NEW q \in Profilers \ {p}
      PROVE  ~(profiler'[q].step # "idle" /\ profiler'[q].alone)
  BY <1>1 DEF ProfilersOK, AtRest
<1>4. k.step # "idle" /\ k.alone => \A o \in Profilers \ {p} : AtRest(o)'
  BY <1>1 DEF ProfilersOK, AtRest
<1>5. k.step # "idle" /\ k.alone => InStep(k)'
  OBVIOUS
<1>6. InStep(k)' = InStep(profiler[p])'
  BY <1>1 DEF InStep
<1>7. \A q \in Profilers : profiler'[q].step # "idle" /\ profiler'[q].alone =>
        /\ \A o \in Profilers \ {q} : AtRest(o)'
        /\ InStep(profiler[q])'
  BY <1>1, <1>3, <1>4, <1>5, <1>6
<1>8. ~agreed
  BY DEF AgreedOK
<1> QED  BY <1>1, <1>2, <1>7, <1>8 DEF ProfilersOK, AgreedOK

\* The first state keeps the invariant.
LEMMA DatasetStart == DatasetInit => DatasetInv
<1> SUFFICES ASSUME DatasetInit PROVE DatasetInv
  OBVIOUS
<1>1. FilesOK
  BY DatasetAssumption DEF DatasetInit, FilesOK
<1>2. ProfilerAtRest \in ProfilerRecord
  BY DEF ProfilerAtRest, ProfilerRecord, ProfilerSteps, Truth
<1>3. \A p \in Profilers : profiler[p] = ProfilerAtRest
  BY DEF DatasetInit
<1>4. \A p \in Profilers : profiler[p].step = "idle"
  BY <1>3 DEF ProfilerAtRest
<1>5. ProfilersOK
  BY <1>2, <1>4 DEF DatasetInit, ProfilersOK
<1>6. AgreedOK
  BY DEF DatasetInit, AgreedOK
<1> QED  BY <1>1, <1>5, <1>6 DEF DatasetInv

\* A command begins, and no other is alone any more.
LEMMA SourceKeeps ==
  ASSUME DatasetInv, NEW p \in Profilers, NEW contract \in Contracts, ProfileSource(p, contract)
  PROVE  DatasetInv'
<1> DEFINE lone == \A o \in Profilers \ {p} : profiler[o].step = "idle"
           input == [table |-> sourceTable, contract |-> contract]
<1>1. PICK m \in Truth : m = lone
  BY DEF Truth
<1>2. PICK i \in Inputs : i = input
  BY DEF DatasetInv, FilesOK, Inputs
<1>3. PICK k : k = [ProfilerAtRest EXCEPT !.step = "profiled", !.input = i, !.alone = m]
  OBVIOUS
<1>4. k \in ProfilerRecord /\ k.step = "profiled" /\ k.input = i /\ k.alone = m
  <2>1. ProfilerAtRest \in ProfilerRecord /\ "profiled" \in ProfilerSteps
    BY DEF ProfilerAtRest, ProfilerRecord, ProfilerSteps, Truth
  <2> QED  BY <1>3, <2>1 DEF ProfilerRecord
<1>5. profiler' = [q \in Profilers |-> IF q = p THEN k ELSE [profiler[q] EXCEPT !.alone = FALSE]]
  <2>1. profiler' = [q \in Profilers |->
          IF q = p THEN [ProfilerAtRest EXCEPT !.step = "profiled", !.input = input, !.alone = lone]
          ELSE [profiler[q] EXCEPT !.alone = FALSE]]
    BY DEF ProfileSource
  <2> HIDE DEF lone, input
  <2> QED  BY <1>1, <1>2, <1>3, <2>1, Zenon
<1>6. profiler \in [Profilers -> ProfilerRecord]
  BY DEF DatasetInv, ProfilersOK
<1>7. FALSE \in Truth
  BY DEF Truth
<1>8. \A q \in Profilers : /\ [profiler[q] EXCEPT !.alone = FALSE] \in ProfilerRecord
                           /\ [profiler[q] EXCEPT !.alone = FALSE].alone = FALSE
                           /\ [profiler[q] EXCEPT !.alone = FALSE].step = profiler[q].step
                           /\ [profiler[q] EXCEPT !.alone = FALSE].input = profiler[q].input
  <2> SUFFICES ASSUME NEW q \in Profilers
               PROVE  /\ [profiler[q] EXCEPT !.alone = FALSE] \in ProfilerRecord
                      /\ [profiler[q] EXCEPT !.alone = FALSE].alone = FALSE
                      /\ [profiler[q] EXCEPT !.alone = FALSE].step = profiler[q].step
                      /\ [profiler[q] EXCEPT !.alone = FALSE].input = profiler[q].input
    OBVIOUS
  <2>1. PICK a \in ProfilerRecord : a = profiler[q]
    BY <1>6
  <2> QED  BY <1>7, <2>1 DEF ProfilerRecord
<1>9. /\ profiler' \in [Profilers -> ProfilerRecord] /\ profiler'[p] = k
      /\ \A q \in Profilers \ {p} : /\ profiler'[q].alone = FALSE
                                    /\ profiler'[q].step = profiler[q].step
                                    /\ profiler'[q].input = profiler[q].input
  BY <1>4, <1>5, <1>8
<1>10. ProfilersOK'
  <2>1. \A q \in Profilers : profiler'[q].step # "idle" => profiler'[q].input \in Inputs
    BY <1>4, <1>9 DEF DatasetInv, ProfilersOK
  <2>2. m => \A o \in Profilers \ {p} : AtRest(o)'
    BY <1>1, <1>9 DEF AtRest
  <2>3. InStep(profiler[p])'
    BY <1>4, <1>9 DEF InStep
  <2>4. \A q \in Profilers : profiler'[q].step # "idle" /\ profiler'[q].alone =>
          /\ \A o \in Profilers \ {q} : AtRest(o)'
          /\ InStep(profiler[q])'
    BY <1>4, <1>9, <2>2, <2>3
  <2> QED  BY <1>9, <2>1, <2>4 DEF ProfilersOK
<1>11. FilesOK'
  <2>1. /\ profiles < MaxProfiles /\ profiles' = profiles + 1
        /\ UNCHANGED <<sourceTable, brief, stored, indexed, tableChanges>>
    BY DEF ProfileSource
  <2> QED  BY <2>1, DatasetAssumption DEF DatasetInv, FilesOK
<1>12. AgreedOK'
  BY DEF ProfileSource, AgreedOK
<1> QED  BY <1>10, <1>11, <1>12 DEF DatasetInv

\* What an actual record of the table is, for the steps below.
LEMMA HeldRecord ==
  ASSUME DatasetInv, NEW p \in Profilers
  PROVE  /\ profiler[p] \in ProfilerRecord
         /\ ~AtRest(p) => profiler[p].input \in Inputs
         /\ ~AtRest(p) /\ profiler[p].alone => InStep(profiler[p])
  BY DEF DatasetInv, ProfilersOK, AtRest

\* The brief is opened.
LEMMA OpenKeeps ==
  ASSUME DatasetInv, NEW p \in Profilers, OpenBrief(p) PROVE DatasetInv'
<1>1. PICK a \in ProfilerRecord : a = profiler[p]
  BY HeldRecord
<1>2. a.step = "profiled" /\ ~AtRest(p) /\ a.input \in Inputs
  BY <1>1, HeldRecord DEF OpenBrief, MoveProfiler, AtRest
<1>3. PICK k : k = [a EXCEPT !.step = "writing"]
  OBVIOUS
<1>4. "writing" \in ProfilerSteps
  BY DEF ProfilerSteps
<1>5. k \in ProfilerRecord /\ k.step = "writing" /\ k.input = a.input /\ k.alone = a.alone
  BY <1>3, <1>4 DEF ProfilerRecord
<1>6. profiler' = [profiler EXCEPT ![p] = k]
  BY <1>1, <1>3 DEF OpenBrief, MoveProfiler
<1>7. brief' = [of |-> k.input, whole |-> FALSE]
  BY <1>1, <1>5 DEF OpenBrief
<1>8. InStep(k)'
  BY <1>5, <1>7 DEF InStep
<1>9. agreed' = agreed
  BY DEF OpenBrief, MoveProfiler
<1>10. ProfilersOK' /\ AgreedOK'
  BY <1>1, <1>2, <1>5, <1>6, <1>8, <1>9, ProfilerMoves DEF DatasetInv
<1>11. brief' \in Briefs
  BY <1>2, <1>5, <1>7 DEF Briefs, Truth
<1>12. FilesOK'
  BY <1>11 DEF DatasetInv, FilesOK, OpenBrief, MoveProfiler
<1> QED  BY <1>10, <1>12 DEF DatasetInv

\* It is written, by one command or by two.
LEMMA WriteKeeps ==
  ASSUME DatasetInv, NEW p \in Profilers, WriteBrief(p) PROVE DatasetInv'
<1>1. PICK a \in ProfilerRecord : a = profiler[p]
  BY HeldRecord
<1>2. /\ a.step = "writing" /\ ~AtRest(p) /\ a.input \in Inputs
      /\ a.alone => InStep(a)
  BY <1>1, HeldRecord DEF WriteBrief, MoveProfiler, AtRest
<1>3. PICK k : k = [a EXCEPT !.step = "brief"]
  OBVIOUS
<1>4. "brief" \in ProfilerSteps
  BY DEF ProfilerSteps
<1>5. k \in ProfilerRecord /\ k.step = "brief" /\ k.input = a.input /\ k.alone = a.alone
  BY <1>3, <1>4 DEF ProfilerRecord
<1>6. profiler' = [profiler EXCEPT ![p] = k]
  BY <1>1, <1>3 DEF WriteBrief, MoveProfiler
<1>7. PICK m : m = [of |-> k.input, whole |-> FALSE]
  OBVIOUS
<1>8. PICK whole \in Truth : /\ brief' = [m EXCEPT !.whole = whole]
                             /\ brief = m => whole = TRUE
  BY <1>1, <1>5, <1>7 DEF WriteBrief, Truth
<1>9. brief' = [of |-> k.input, whole |-> whole]
  BY <1>7, <1>8
<1>10. k.alone => brief = m
  BY <1>2, <1>5, <1>7 DEF InStep
<1>11. k.alone => InStep(k)'
  BY <1>5, <1>8, <1>9, <1>10 DEF InStep
<1>12. agreed' = agreed
  BY DEF WriteBrief, MoveProfiler
<1>13. ProfilersOK' /\ AgreedOK'
  BY <1>1, <1>2, <1>5, <1>6, <1>11, <1>12, ProfilerMoves DEF DatasetInv
<1>14. brief' \in Briefs
  BY <1>2, <1>5, <1>9 DEF Briefs
<1>15. FilesOK'
  BY <1>14 DEF DatasetInv, FilesOK, WriteBrief, MoveProfiler
<1> QED  BY <1>13, <1>15 DEF DatasetInv

\* The row is stored.
LEMMA StoreKeeps ==
  ASSUME DatasetInv, NEW p \in Profilers, StoreProfile(p) PROVE DatasetInv'
<1>1. PICK a \in ProfilerRecord : a = profiler[p]
  BY HeldRecord
<1>2. /\ a.step = "brief" /\ ~AtRest(p) /\ a.input \in Inputs
      /\ a.alone => InStep(a)
  BY <1>1, HeldRecord DEF StoreProfile, MoveProfiler, AtRest
<1>3. PICK k : k = [a EXCEPT !.step = "ledger"]
  OBVIOUS
<1>4. "ledger" \in ProfilerSteps
  BY DEF ProfilerSteps
<1>5. k \in ProfilerRecord /\ k.step = "ledger" /\ k.input = a.input /\ k.alone = a.alone
  BY <1>3, <1>4 DEF ProfilerRecord
<1>6. profiler' = [profiler EXCEPT ![p] = k]
  BY <1>1, <1>3 DEF StoreProfile, MoveProfiler
<1>7. stored' = k.input /\ brief' = brief
  BY <1>1, <1>5 DEF StoreProfile
<1>8. k.alone => InStep(k)'
  BY <1>2, <1>5, <1>7 DEF InStep
<1>9. agreed' = agreed
  BY DEF StoreProfile, MoveProfiler
<1>10. ProfilersOK' /\ AgreedOK'
  BY <1>1, <1>2, <1>5, <1>6, <1>8, <1>9, ProfilerMoves DEF DatasetInv
<1>11. FilesOK'
  BY <1>2, <1>5, <1>7 DEF DatasetInv, FilesOK, StoreProfile, MoveProfiler
<1> QED  BY <1>10, <1>11 DEF DatasetInv

\* The brief is read again.
LEMMA ReadKeeps ==
  ASSUME DatasetInv, NEW p \in Profilers, ReadBrief(p) PROVE DatasetInv'
<1>1. PICK a \in ProfilerRecord : a = profiler[p]
  BY HeldRecord
<1>2. /\ a.step = "ledger" /\ ~AtRest(p) /\ a.input \in Inputs
      /\ a.alone => InStep(a)
  BY <1>1, HeldRecord DEF ReadBrief, AtRest
<1>3. PICK b \in Briefs \cup {None} : b = brief
  BY DEF DatasetInv, FilesOK
<1>4. PICK k : k = [a EXCEPT !.step = "read", !.read = b]
  OBVIOUS
<1>5. "read" \in ProfilerSteps
  BY DEF ProfilerSteps
<1>6. /\ k \in ProfilerRecord /\ k.step = "read" /\ k.input = a.input /\ k.alone = a.alone
      /\ k.read = b
  BY <1>4, <1>5 DEF ProfilerRecord
<1>7. profiler' = [profiler EXCEPT ![p] = k]
  BY <1>1, <1>3, <1>4 DEF ReadBrief
<1>8. stored' = stored /\ brief' = brief
  BY DEF ReadBrief
<1>9. k.alone => InStep(k)'
  BY <1>2, <1>3, <1>6, <1>8 DEF InStep
<1>10. agreed' = agreed
  BY DEF ReadBrief
<1>11. ProfilersOK' /\ AgreedOK'
  BY <1>1, <1>2, <1>6, <1>7, <1>9, <1>10, ProfilerMoves DEF DatasetInv
<1>12. FilesOK'
  BY DEF DatasetInv, FilesOK, ReadBrief
<1> QED  BY <1>11, <1>12 DEF DatasetInv

\* A command is through, or killed.
LEMMA ProfilerRests ==
  ASSUME ProfilersOK, NEW p \in Profilers, ~AtRest(p),
         profiler' = [profiler EXCEPT ![p] = ProfilerAtRest]
  PROVE  /\ ProfilersOK' /\ AtRest(p)'
         /\ profiler[p].alone => \A q \in Profilers : AtRest(q)'
<1>1. ProfilerAtRest \in ProfilerRecord /\ ProfilerAtRest.step = "idle"
  BY DEF ProfilerAtRest, ProfilerRecord, ProfilerSteps, Truth
<1>2. /\ profiler' \in [Profilers -> ProfilerRecord] /\ profiler'[p].step = "idle"
      /\ \A q \in Profilers \ {p} : profiler'[q] = profiler[q]
  BY <1>1 DEF ProfilersOK
<1>3. \A q \in Profilers \ {p} : ~(profiler'[q].step # "idle" /\ profiler'[q].alone)
  BY <1>2 DEF ProfilersOK, AtRest
<1>4. \A q \in Profilers : ~(profiler'[q].step # "idle" /\ profiler'[q].alone)
  BY <1>2, <1>3
<1>5. \A q \in Profilers : profiler'[q].step # "idle" => profiler'[q].input \in Inputs
  BY <1>2 DEF ProfilersOK
<1>6. ProfilersOK'
  BY <1>2, <1>4, <1>5 DEF ProfilersOK
<1>7. profiler[p].alone => \A q \in Profilers \ {p} : AtRest(q)
  BY DEF ProfilersOK, AtRest
<1> QED  BY <1>2, <1>6, <1>7 DEF AtRest

\* It is taken into the index.
LEMMA IndexKeeps ==
  ASSUME DatasetInv, NEW p \in Profilers, IndexBrief(p) PROVE DatasetInv'
<1>1. PICK a \in ProfilerRecord : a = profiler[p]
  BY HeldRecord
<1>2. /\ a.step = "read" /\ ~AtRest(p)
      /\ a.alone => InStep(a)
  BY <1>1, HeldRecord DEF IndexBrief, AtRest
<1>3. /\ profiler' = [profiler EXCEPT ![p] = ProfilerAtRest]
      /\ indexed' = a.read /\ agreed' = a.alone /\ brief' = brief /\ stored' = stored
  BY <1>1 DEF IndexBrief
<1>4. /\ ProfilersOK'
      /\ a.alone => \A q \in Profilers : AtRest(q)'
  BY <1>1, <1>2, <1>3, ProfilerRests DEF DatasetInv
<1>5. a.alone => brief = [of |-> stored, whole |-> TRUE] /\ a.read = brief
  BY <1>2 DEF InStep
<1>6. AgreedOK'
  BY <1>3, <1>4, <1>5 DEF AgreedOK
<1>7. a.read \in Briefs \cup {None}
  BY DEF ProfilerRecord
<1>8. FilesOK'
  BY <1>3, <1>7 DEF DatasetInv, FilesOK, IndexBrief
<1> QED  BY <1>4, <1>6, <1>8 DEF DatasetInv

\* A command is killed.
LEMMA KillKeeps ==
  ASSUME DatasetInv, NEW p \in Profilers, KillProfiler(p) PROVE DatasetInv'
<1>1. ~AtRest(p) /\ profiler' = [profiler EXCEPT ![p] = ProfilerAtRest]
  BY DEF KillProfiler, AtRest
<1>2. ProfilersOK'
  BY <1>1, ProfilerRests DEF DatasetInv
<1>3. AgreedOK'
  BY <1>1 DEF DatasetInv, AgreedOK, KillProfiler
<1>4. FilesOK'
  BY DatasetAssumption DEF DatasetInv, FilesOK, KillProfiler
<1> QED  BY <1>2, <1>3, <1>4 DEF DatasetInv

\* Nothing the commands hold changes with the source.
LEMMA EditKeeps ==
  ASSUME DatasetInv, NEW table \in Tables, EditTable(table) PROVE DatasetInv'
<1>1. FilesOK'
  BY DatasetAssumption DEF DatasetInv, FilesOK, EditTable
<1>2. ProfilersOK'
  BY DEF DatasetInv, ProfilersOK, EditTable, AtRest, InStep
<1>3. AgreedOK'
  BY DEF DatasetInv, AgreedOK, EditTable, AtRest
<1> QED  BY <1>1, <1>2, <1>3 DEF DatasetInv

\* Every step keeps the invariant.
LEMMA DatasetStep == DatasetInv /\ [DatasetNext]_datasetVars => DatasetInv'
<1> SUFFICES ASSUME DatasetInv, [DatasetNext]_datasetVars PROVE DatasetInv'
  OBVIOUS
<1>1. CASE UNCHANGED datasetVars
  BY <1>1 DEF datasetVars, DatasetInv, FilesOK, ProfilersOK, AgreedOK, AtRest, InStep
<1>2. CASE DatasetNext
  BY <1>2, SourceKeeps, OpenKeeps, WriteKeeps, StoreKeeps, ReadKeeps, IndexKeeps, KillKeeps,
     EditKeeps DEF DatasetNext
<1> QED  BY <1>1, <1>2

\* So every reachable state satisfies it.
LEMMA DatasetAlways == DatasetSpec => []DatasetInv
  BY DatasetStart, DatasetStep, PTL DEF DatasetSpec

\* Source, brief, row, index and commands keep their types (profile_dataset in
\* core.py).
THEOREM DatasetTypesTheorem == DatasetSpec => []DatasetTypeOK
<1>1. DatasetInv => DatasetTypeOK
  BY DEF DatasetInv, FilesOK, ProfilersOK, ProfilerRecord, Briefs, DatasetTypeOK
<1> QED  BY <1>1, DatasetAlways, PTL

\* What a dashboard says of a stored profile is true of the file, row by row,
\* for tables and contracts of any size and any limit on the rows: the counts
\* that it derives the results from add up, and a rule passes exactly where the
\* rows keep it. A profile that ran alone leaves brief, row and index of one
\* reading.
THEOREM ProfileTheorem == DatasetSpec => []ProfileTellsTruth
<1>1. ASSUME DatasetInv PROVE ProfileTellsTruth
  <2>1. stored # None => stored \in Inputs
    BY <1>1 DEF DatasetInv, FilesOK
  <2>2. agreed => brief = [of |-> stored, whole |-> TRUE] /\ indexed = brief
    BY <1>1 DEF DatasetInv, AgreedOK
  <2>3. ASSUME NEW s \in Inputs
        PROVE  LET view == Overview(Profile(s))
                   rows == ProfiledRows(s.table) IN
               /\ view.contract # "unavailable"
               /\ view.contract = "conforms" => Keeps(s.contract, s.table)
               /\ view.contract = "violations" <=> /\ Configured(s.contract)
                                                   /\ ~Keeps(s.contract, rows)
               /\ view.quality = "clear" =>
                    \/ s.table = <<"absent">>
                    \/ /\ \A i, j \in DOMAIN s.table : i # j => s.table[i] # s.table[j]
                       /\ \/ \A i \in DOMAIN s.table : Finite(s.table[i])
                          \/ \A i \in DOMAIN s.table : s.table[i] = "text"
    BY <2>3, ContractTold, QualityTold
  <2> QED  BY <2>1, <2>2, <2>3 DEF ProfileTellsTruth
<1> QED  BY <1>1, DatasetAlways, PTL
=============================================================================
