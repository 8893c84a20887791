------------------------------ MODULE MCRecords ------------------------------
(***************************************************************************)
(* An instance for TLC of the components that keep records on disk and in  *)
(* the database. None of them shares state with another one, so they are   *)
(* explored side by side: a behaviour is of one world, chosen at the start *)
(* and named in `world', in which one component moves and the others rest  *)
(* in one initial state. What each property says of the code is told in    *)
(* the module of the component.                                            *)
(***************************************************************************)
EXTENDS ReportFinalization, ServiceSupervisor, QualitySupersession, WorkflowPilot, RuntimeGuard,
        VisionOffers, DatasetQuality, BrowserSuite, TLC

VARIABLE world

(* Commands and processes are interchangeable. *)
Symmetry == Permutations(Processes)

(* Every table of up to three cells is profiled once, under every contract ... *)
Cells == {"absent", "missing", "low", "right", "high", "huge", "text", "nan"}

MCTables == UNION {[1..n -> Cells] : n \in 1..3}

MCContracts == [required : BOOLEAN, types : {{}, {"numeric"}},
                bounds : {{}, {"minimum", "maximum"}, {"minimum"}}, key : BOOLEAN]

(* ... and two tables are profiled at a time, edited, and given up. *)
ProfiledTables == {<<"right">>, <<"low", "text">>}

ProfiledContract == [required |-> TRUE, types |-> {"numeric"}, bounds |-> {"minimum"}, key |-> FALSE]

MCManifests == {[pages |-> {"a", "b"}, required |-> 2], [pages |-> {"a"}, required |-> 1]}

--------------------------------------------------------------------------
Worlds == {"report", "service", "quality", "pilot", "guard", "prospects", "leads", "tables",
           "profiles", "suites"}

OffersWorlds   == {"prospects", "leads"}
DatasetWorlds  == {"tables", "profiles"}

(* Each component starts, and where it has several initial states, one that
   rests has the one given here.  Datasets are interchangeable: 1 is the one
   that the fallback evidence is of. *)
MCInit ==
  /\ world \in Worlds
  /\ Init /\ ServiceInit /\ QualityInit /\ PilotInit
  /\ GuardInit
  /\ world # "guard" => ollama = "down" /\ service = "absent"
  /\ OffersInit
  /\ \A s \in Sets : world # "prospects" \/ s = Fallback => evidence[s].dataset = 1
  /\ DatasetInit /\ SuiteInit
  /\ world # "tables" => sourceTable \in ProfiledTables
  /\ world \notin DatasetWorlds => sourceTable = <<"right">>

(* One profile of any table, or several of two tables. *)
Profiling(p, contracts) ==
  \/ \E contract \in contracts : ProfileSource(p, contract)
  \/ OpenBrief(p) \/ WriteBrief(p) \/ StoreProfile(p) \/ ReadBrief(p) \/ IndexBrief(p)

OneProfile == Profiling("d1", IF profiles = 0 THEN Contracts ELSE {})

SeveralProfiles ==
  \/ \E p \in Profilers : Profiling(p, {ProfiledContract}) \/ KillProfiler(p)
  \/ \E table \in ProfiledTables : EditTable(table)

RecordsMove ==
  \/ world = "report"          /\ Next
  \/ world = "service"         /\ ServiceNext
  \/ world = "quality"         /\ QualityNext
  \/ world = "pilot"           /\ PilotNext
  \/ world = "guard"           /\ GuardNext
  \/ world \in OffersWorlds    /\ OffersNext
  \/ world = "tables"          /\ OneProfile
  \/ world = "profiles"        /\ SeveralProfiles
  \/ world = "suites"          /\ SuiteNext

OthersRest ==
  /\ world # "report"            => UNCHANGED vars
  /\ world # "service"           => UNCHANGED serviceVars
  /\ world # "quality"           => UNCHANGED qualityVars
  /\ world # "pilot"             => UNCHANGED pilotVars
  /\ world # "guard"             => UNCHANGED guardVars
  /\ world \notin OffersWorlds   => UNCHANGED offerVars
  /\ world \notin DatasetWorlds  => UNCHANGED datasetVars
  /\ world # "suites"            => UNCHANGED suiteVars

(* Prospects and leads are served in worlds of their own, the latter with one set
   of evidence. *)
OffersSplit ==
  /\ world = "prospects" => \A l \in Leads, k \in LeadKinds : content'[<<k, l>>] = "absent"
  /\ world = "leads" =>
       /\ \A p \in Prospects, k \in ProspectKinds : content'[<<k, p>>] = "absent"
       /\ selection' \in {None, Fallback} /\ evidence' = evidence

MCNext == RecordsMove /\ OthersRest /\ OffersSplit /\ UNCHANGED world

allVars == <<vars, serviceVars, qualityVars, pilotVars, guardVars, offerVars, datasetVars,
             suiteVars, world>>

MCSpec == MCInit /\ [][MCNext]_allVars
==============================================================================
