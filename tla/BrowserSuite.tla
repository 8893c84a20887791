---------------------------- MODULE BrowserSuite ----------------------------
(***************************************************************************)
(* Browser checks and release suites (browser_operator.py).  A suite reads *)
(* its sealed manifest once and checks every page in as many runs as were  *)
(* asked for.  A check is one batch of commands to a browser of its own,   *)
(* then evidence files and a receipt; it times out, fails to write and is  *)
(* killed.  Meanwhile pages break and recover, receipts are deleted and    *)
(* the manifest is replaced.                                               *)
(***************************************************************************)
EXTENDS Integers, Nothing

CONSTANTS Pages,       \* page IDs
          Manifests,   \* contents of the sealed manifest: the pages and runs that it requires
          Suites,      \* suite commands
          MaxSuiteRuns \* bound: runs asked for

ASSUME SuiteAssumption == /\ None \notin Manifests
                          /\ Manifests \subseteq [pages : SUBSET Pages, required : Nat]
                          /\ MaxSuiteRuns \in Nat

VARIABLES manifest, \* the manifest file
          browsers, \* suites whose browser is open
          proofs,   \* receipts of page checks: suite, run, page
          receipt,  \* suite-receipt.json of each suite
          suite,    \* what each suite is doing
          observed  \* page checks that saw the page pass (history)

suiteFiles == <<manifest, proofs, receipt>>
suiteVars == <<suiteFiles, browsers, suite, observed>>

SuiteAtRest == [step |-> "idle", manifest |-> None, runs |-> 0, run |-> 0, todo |-> {},
                page |-> None, good |-> FALSE, passed |-> TRUE]

SuiteSteps == {"idle", "pages", "batch", "close", "evidence", "collect", "summary", "sidecar"}

Checks == Suites \X (1..MaxSuiteRuns) \X Pages

SuiteTypeOK ==
    /\ manifest \in Manifests \cup {None}
    /\ browsers \subseteq Suites
    /\ proofs \subseteq Checks /\ observed \subseteq Checks
    /\ \A s \in Suites : /\ suite[s].step \in SuiteSteps
                         /\ suite[s].run <= suite[s].runs /\ suite[s].runs <= MaxSuiteRuns
                         /\ receipt[s] # None => receipt[s].manifest \in Manifests

SuiteInit == /\ manifest = None /\ browsers = {}
             /\ proofs = {} /\ observed = {}
             /\ receipt = [s \in Suites |-> None]
             /\ suite = [s \in Suites |-> SuiteAtRest]

--------------------------------------------------------------------------
(* Outside: files, and the person who seals manifests. *)

(* Sealed into a new file, or replaced as a whole. *)
SealManifest(m) == /\ manifest # m
                   /\ manifest' = m
                   /\ UNCHANGED <<proofs, receipt, browsers, suite, observed>>

DeleteProof(c) == /\ c \in proofs
                  /\ proofs' = proofs \ {c}
                  /\ UNCHANGED <<manifest, receipt, browsers, suite, observed>>

(* An open browser ends itself after ten idle seconds. *)
IdleTimeout(s) == /\ s \in browsers /\ suite[s].step # "batch"
                  /\ browsers' = browsers \ {s}
                  /\ UNCHANGED <<suiteFiles, suite, observed>>

--------------------------------------------------------------------------
Step(s, state) == suite' = [suite EXCEPT ![s] = state]

(* The definition is validated, its digest compared, and kept in memory. *)
LoadManifest(s, n) ==
    /\ suite[s].step = "idle" /\ receipt[s] = None
    /\ manifest # None
    /\ Step(s, [SuiteAtRest EXCEPT !.step = "pages", !.manifest = manifest, !.runs = n, !.run = 1,
                              !.todo = manifest.pages])
    /\ UNCHANGED <<suiteFiles, browsers, observed>>

OpenBrowser(s, p) ==
    /\ suite[s].step = "pages" /\ p \in suite[s].todo
    /\ browsers' = browsers \cup {s}
    /\ Step(s, [suite[s] EXCEPT !.step = "batch", !.page = p, !.todo = @ \ {p}])
    /\ UNCHANGED <<suiteFiles, observed>>

(* One batch, whose last command closes the browser; what the page shows then
   passes all of its checks or not. *)
Batch(s, good) ==
    /\ suite[s].step = "batch"
    /\ browsers' = browsers \ {s}
    /\ observed' = IF good THEN observed \cup {<<s, suite[s].run, suite[s].page>>} ELSE observed
    /\ Step(s, [suite[s] EXCEPT !.step = "evidence", !.good = good])
    /\ UNCHANGED suiteFiles

BatchFails(s) == /\ suite[s].step = "batch"
                 /\ Step(s, [suite[s] EXCEPT !.step = "close", !.good = FALSE])
                 /\ UNCHANGED <<suiteFiles, browsers, observed>>

(* Closing is tried once and its failure ignored. *)
CloseBrowser(s) == /\ suite[s].step = "close"
                   /\ browsers' \in {browsers, browsers \ {s}}
                   /\ Step(s, [suite[s] EXCEPT !.step = "evidence"])
                   /\ UNCHANGED <<suiteFiles, observed>>

(* Evidence that cannot be written makes a failed check; the receipt is
   written in any case. *)
WriteProof(s) ==
    /\ suite[s].step = "evidence"
    /\ proofs' = proofs \cup {<<s, suite[s].run, suite[s].page>>}
    /\ \E written \in BOOLEAN :
         Step(s, [suite[s] EXCEPT !.step = "collect", !.good = @ /\ written])
    /\ UNCHANGED <<manifest, receipt, browsers, observed>>

(* Mutant: what counts is whether the latest page passed. *)
LatestPassed(s) == suite[s].good

(* A page passes when its check did and the receipt of the check is there. *)
StillPassed(s) == /\ suite[s].passed /\ suite[s].good
                  /\ <<s, suite[s].run, suite[s].page>> \in proofs

(* No run is cut short: the next page, the next run, or the summary. *)
Collect(s) ==
    LET at == suite[s]
        next == IF at.todo # {} THEN [step |-> "pages", run |-> at.run, todo |-> at.todo]
                ELSE IF at.run < at.runs
                THEN [step |-> "pages", run |-> at.run + 1, todo |-> at.manifest.pages]
                ELSE [step |-> "summary", run |-> at.run, todo |-> {}]
    IN  /\ at.step = "collect"
        /\ Step(s, [at EXCEPT !.step = next.step, !.run = next.run, !.todo = next.todo,
                              !.passed = StillPassed(s)])
        /\ UNCHANGED <<suiteFiles, browsers, observed>>

WriteSuiteReceipt(s) ==
    LET at == suite[s] IN
    /\ at.step = "summary"
    /\ receipt' = [receipt EXCEPT ![s] =
           [manifest |-> at.manifest, sealed |-> FALSE,
            gate |-> at.passed /\ at.runs >= at.manifest.required]]
    /\ Step(s, [at EXCEPT !.step = "sidecar"])
    /\ UNCHANGED <<manifest, proofs, browsers, observed>>

WriteSuiteSidecar(s) == /\ suite[s].step = "sidecar"
                        /\ receipt' = [receipt EXCEPT ![s].sealed = TRUE]
                        /\ Step(s, SuiteAtRest)
                        /\ UNCHANGED <<manifest, proofs, browsers, observed>>

(* A kill, or an error that no check turns into a failed one. *)
SuiteDies(s) == /\ suite[s].step # "idle"
                /\ Step(s, SuiteAtRest)
                /\ UNCHANGED <<suiteFiles, browsers, observed>>

SuiteNext ==
    \/ \E p \in Pages : \E s \in Suites : OpenBrowser(s, p)
    \/ \E m \in Manifests : SealManifest(m)
    \/ \E c \in Checks : DeleteProof(c)
    \/ \E s \in Suites :
         \/ IdleTimeout(s) \/ BatchFails(s) \/ CloseBrowser(s) \/ WriteProof(s)
         \/ Collect(s) \/ WriteSuiteReceipt(s) \/ WriteSuiteSidecar(s) \/ SuiteDies(s)
         \/ \E n \in 1..MaxSuiteRuns : LoadManifest(s, n)
         \/ \E good \in BOOLEAN : Batch(s, good)

SuiteSpec == SuiteInit /\ [][SuiteNext]_suiteVars

--------------------------------------------------------------------------
(* A release gate that passed was earned: every page of one manifest was seen
   to pass in each of the runs which that manifest requires, with no failed
   check in between, whatever changed on the site and on disk meanwhile. *)
GateIsEarned ==
    \A s \in Suites : receipt[s] # None => (receipt[s].gate =>
        {s} \X (1..receipt[s].manifest.required) \X receipt[s].manifest.pages \subseteq observed)

===========================================================================
