---------------------------- MODULE VisionOffers ----------------------------
(***************************************************************************)
(* The sales workspace of one product (supermega.py).  Commands import     *)
(* researched prospects, derive an outreach draft and a pilot package for  *)
(* each, take leads in and have an external worker answer them.  Every     *)
(* file is named for its contents, created once and never replaced; a      *)
(* command that is killed leaves a file half written.  The commercial      *)
(* status reads the product's evidence and all of these files, one after   *)
(* the other, and says what offer there is to review.                      *)
(***************************************************************************)
EXTENDS Naturals, FiniteSets, Nothing

CONSTANTS Prospects, Leads, \* rows to import, requests to take in
          Datasets,         \* dataset digests
          Sets,             \* sets of product evidence that a selection names
          Fallback,         \* the set that is named by no selection file
          Sellers,          \* commands at work
          MaxSalesChanges   \* bound: what people and crashes do to files

ASSUME OffersAssumption == Fallback \in Sets /\ MaxSalesChanges \in Nat

VARIABLES selection,   \* active-product-evidence.json
          evidence,    \* the dataset, readiness and plan file of each set
          bundle,      \* the worker's code: as pinned, or not
          content,     \* the files of the workspace
          seller,      \* what each command still has to write
          viewer,      \* a commercial status under way
          offer,       \* its last answer
          drafted,     \* prospects whose outreach was complete once (history)
          salesChanges \* what happened so far

sources == <<selection, evidence, bundle>>
offerVars == <<sources, content, seller, viewer, offer, drafted, salesChanges>>

ProspectKinds == {"research", "draft", "receipt", "package", "package receipt"}
LeadKinds     == {"inbox", "proposal", "reply", "lead receipt"}

SalesFiles == (ProspectKinds \X Prospects) \cup (LeadKinds \X Leads)

(* Readiness and plan stand for the dataset that they are of. *)
Evidence == [dataset : Datasets, readiness : Datasets, plan : Datasets]

SellerAtRest == [step |-> "idle", todo |-> {}, file |-> None]

NoView == [step |-> "idle", selected |-> None, readiness |-> None, plan |-> None, verified |-> None,
           research |-> {}, outreach |-> {}, packages |-> {}, sound |-> TRUE]

OffersTypeOK ==
    /\ selection \in Sets \cup {None} /\ bundle \in {"pinned", "changed"}
    /\ evidence \in [Sets -> Evidence]
    /\ content \in [SalesFiles -> {"absent", "partial", "whole"}]
    /\ \A c \in Sellers : /\ seller[c].todo \subseteq SalesFiles
                          /\ seller[c].file # None => content[seller[c].file] = "partial"
    /\ drafted \subseteq Prospects /\ salesChanges \in 0..MaxSalesChanges
    /\ offer # None => offer.plan \in Datasets

OffersInit ==
    /\ selection = None /\ bundle = "pinned"
    /\ \E d \in [Sets -> Datasets] :
         evidence = [s \in Sets |-> [dataset |-> d[s], readiness |-> d[s], plan |-> d[s]]]
    /\ content = [f \in SalesFiles |-> "absent"]
    /\ seller = [c \in Sellers |-> SellerAtRest]
    /\ viewer = NoView /\ offer = None /\ drafted = {} /\ salesChanges = 0

--------------------------------------------------------------------------
(* What people do to files, one file at a time. *)

ChangeHappens == salesChanges < MaxSalesChanges /\ salesChanges' = salesChanges + 1

Select(s) == /\ ChangeHappens /\ selection' \in {s, None} \ {selection}
             /\ UNCHANGED <<evidence, bundle, content, seller, viewer, offer, drafted>>

ReplaceEvidence(s, kind, d) ==
    /\ ChangeHappens /\ evidence[s][kind] # d
    /\ evidence' = [evidence EXCEPT ![s][kind] = d]
    /\ UNCHANGED <<selection, bundle, content, seller, viewer, offer, drafted>>

ChangeBundle == /\ ChangeHappens /\ bundle' = "changed"
                /\ UNCHANGED <<selection, evidence, content, seller, viewer, offer, drafted>>

Delete(f) == /\ ChangeHappens /\ content[f] # "absent"
             /\ \A c \in Sellers : seller[c].file # f
             /\ content' = [content EXCEPT ![f] = "absent"]
             /\ UNCHANGED <<sources, seller, viewer, offer, drafted>>

--------------------------------------------------------------------------
(* What a look at the files finds. *)

Whole(kind) == {x \in Prospects \cup Leads :
                   <<kind, x>> \in SalesFiles /\ content[<<kind, x>>] = "whole"}

There(kind) == {x \in Prospects \cup Leads :
                   <<kind, x>> \in SalesFiles /\ content[<<kind, x>>] # "absent"}

ResearchSound == There("research") = Whole("research")

(* Pairs in order, of known prospects; everything else is a failure. *)
InOrder(receipt, text, known) == Whole(receipt) \cap Whole(text) \cap known

SoundPairs(receipt, text, known) ==
    /\ There(receipt) = InOrder(receipt, text, known)
    /\ There(text) \subseteq There(receipt) \cap known

--------------------------------------------------------------------------
(* Commands check everything first and write file by file what is missing. *)

Undamaged(todo) == \A f \in todo : content[f] # "partial"

Write(c, todo) == /\ seller[c].step = "idle"
                  /\ Undamaged(todo)
                  /\ seller' = [seller EXCEPT
                        ![c] = [SellerAtRest EXCEPT !.step = "writing", !.todo = todo]]
                  /\ UNCHANGED <<sources, content, viewer, offer, drafted, salesChanges>>

ImportProspects(c, rows) == Write(c, {"research"} \X rows)

CreateDrafts(c) == /\ ResearchSound
                   /\ Write(c, {"draft", "receipt"} \X Whole("research"))

CreatePackages(c) ==
    /\ ResearchSound
    /\ SoundPairs("receipt", "draft", Whole("research"))
    /\ InOrder("receipt", "draft", Whole("research")) = Whole("research")
    /\ Write(c, {"package", "package receipt"} \X Whole("research"))

CreateIntake(c, l) == Write(c, {<<"inbox", l>>})

(* The worker is started as pinned; what it wrote stays, even when its code is
   found changed afterwards. *)
StartWorker(c) == /\ bundle = "pinned"
                  /\ Write(c, {"proposal", "reply", "lead receipt"} \X
                              (Whole("inbox") \ Whole("lead receipt")))

(* A receipt is written after the texts that it names. *)
Before(kind) == CASE kind = "receipt"         -> {"draft"}
                  [] kind = "package receipt" -> {"package"}
                  [] kind = "lead receipt"    -> {"proposal", "reply"}
                  [] OTHER                    -> {}

Complete(files) ==
    {p \in Prospects : files[<<"draft", p>>] = "whole" /\ files[<<"receipt", p>>] = "whole"}

(* A file that is there is compared, and one that differs ends the command. *)
TakeFile(c, f) ==
    LET rest == seller[c].todo \ {f} IN
    /\ seller[c].step = "writing" /\ seller[c].file = None /\ f \in seller[c].todo
    /\ \A kind \in Before(f[1]) : <<kind, f[2]>> \notin seller[c].todo
    /\ CASE content[f] = "absent"  -> /\ content' = [content EXCEPT ![f] = "partial"]
                                      /\ seller' = [seller EXCEPT ![c].todo = rest, ![c].file = f]
         [] content[f] = "whole"   -> /\ seller' = [seller EXCEPT ![c].todo = rest]
                                      /\ UNCHANGED content
         [] content[f] = "partial" -> /\ seller' = [seller EXCEPT ![c] = SellerAtRest]
                                      /\ UNCHANGED content
    /\ UNCHANGED <<sources, viewer, offer, drafted, salesChanges>>

FillFile(c) ==
    /\ seller[c].file # None
    /\ content' = [content EXCEPT ![seller[c].file] = "whole"]
    /\ drafted' = drafted \cup Complete(content')
    /\ seller' = [seller EXCEPT ![c].file = None]
    /\ UNCHANGED <<sources, viewer, offer, salesChanges>>

EndCommand(c) == /\ seller[c].step = "writing" /\ seller[c].todo = {} /\ seller[c].file = None
                 /\ seller' = [seller EXCEPT ![c] = SellerAtRest]
                 /\ UNCHANGED <<sources, content, viewer, offer, drafted, salesChanges>>

KillSeller(c) == /\ ChangeHappens /\ seller[c].step = "writing"
                 /\ seller' = [seller EXCEPT ![c] = SellerAtRest]
                 /\ UNCHANGED <<sources, content, viewer, offer, drafted>>

--------------------------------------------------------------------------
(* vision_commercial_status: the product, then the sales files. *)

LookOn(from, state) == /\ viewer.step = from
                       /\ viewer' = state
                       /\ UNCHANGED <<sources, content, seller, offer, drafted, salesChanges>>

Selected == IF selection = None THEN Fallback ELSE selection

ReadSelection == /\ viewer.step = "idle"
                 /\ viewer' = [NoView EXCEPT !.step = "readiness", !.selected = Selected]
                 /\ offer' = None
                 /\ UNCHANGED <<sources, content, seller, drafted, salesChanges>>

ReadReadiness == LookOn("readiness", [viewer EXCEPT !.step = "plan",
                                      !.readiness = evidence[viewer.selected].readiness])

ReadPlan == LookOn("plan", [viewer EXCEPT !.step = "verify", !.plan = evidence[viewer.selected].plan])

(* Mutant: a verification counts, whatever plan it was of. *)
SomePlan(plan) == TRUE

SamePlan(plan) == plan = viewer.plan

(* The verifier reads the selection, the plan and the dataset for itself. *)
VerifyPlan == LET now == evidence[Selected] IN
              /\ viewer.plan = viewer.readiness
              /\ now.plan = now.dataset
              /\ SamePlan(now.plan)
              /\ LookOn("verify", [viewer EXCEPT !.step = "research", !.verified = now.dataset])

(* Evidence that cannot be read, does not fit or fails: no offer. *)
Unavailable == viewer.step \in {"readiness", "plan", "verify"} /\ LookOn(viewer.step, NoView)

ReadResearch == LookOn("research", [viewer EXCEPT !.step = "outreach", !.research = Whole("research"),
                                  !.sound = ResearchSound])

ReadOutreach == LookOn("outreach", [viewer EXCEPT !.step = "packages",
                     !.outreach = InOrder("receipt", "draft", viewer.research),
                     !.sound = @ /\ SoundPairs("receipt", "draft", viewer.research)])

ReadPackages == LookOn("packages", [viewer EXCEPT !.step = "leads",
                     !.packages = InOrder("package receipt", "package", viewer.research),
                     !.sound = @ /\ SoundPairs("package receipt", "package", viewer.research)])

(* A receipt with both of its texts is a lead; what the files of a stage hold
   of its own is checked by the digests in the receipt. *)
QualifiedLeads == Whole("lead receipt") \cap Whole("proposal") \cap Whole("reply")

Stage == IF QualifiedLeads # {} THEN "qualified proposal"
         ELSE IF viewer.packages # {} THEN "package"
         ELSE IF viewer.outreach # {} THEN "draft"
         ELSE IF viewer.research # {} THEN "research" ELSE "nothing"

(* More packages than outreach drafts is an error, not an answer. *)
AnswerStatus ==
    /\ viewer.step = "leads"
    /\ viewer' = NoView
    /\ IF Cardinality(viewer.packages) > Cardinality(viewer.outreach) THEN UNCHANGED offer
       ELSE offer' = IF viewer.sound /\ There("lead receipt") = QualifiedLeads
                     THEN [plan |-> viewer.plan, verified |-> viewer.verified, stage |-> Stage,
                           packages |-> viewer.packages]
                     ELSE None
    /\ UNCHANGED <<sources, content, seller, drafted, salesChanges>>

OffersNext ==
    \/ \E s \in Sets : \/ Select(s)
                       \/ \E kind \in {"dataset", "readiness", "plan"}, d \in Datasets : ReplaceEvidence(s, kind, d)
    \/ ChangeBundle \/ \E f \in SalesFiles : Delete(f)
    \/ \E c \in Sellers :
         \/ \E rows \in SUBSET Prospects \ {{}} : ImportProspects(c, rows)
         \/ CreateDrafts(c) \/ CreatePackages(c) \/ StartWorker(c)
         \/ \E l \in Leads : CreateIntake(c, l)
         \/ \E f \in SalesFiles : TakeFile(c, f)
         \/ FillFile(c) \/ EndCommand(c) \/ KillSeller(c)
    \/ ReadSelection \/ ReadReadiness \/ ReadPlan \/ VerifyPlan \/ Unavailable
    \/ ReadResearch \/ ReadOutreach \/ ReadPackages \/ AnswerStatus

OffersSpec == OffersInit /\ [][OffersNext]_offerVars

--------------------------------------------------------------------------
(* An offer stands on evidence: the plan that it goes by was verified against
   its own dataset in this very check, and every package that it counts is of
   a prospect whose outreach was complete before, however selections, kills
   and other commands fall between the readings. *)
OfferIsBacked ==
    offer # None => /\ offer.verified = offer.plan
                    /\ offer.packages \subseteq drafted

===========================================================================
