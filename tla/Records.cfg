SPECIFICATION MCSpec
CONSTANTS
  None = None
  Null = None
\* report and service
  Workers = {a1, a2}
  Reports = {r1, r2}
  Torn = Torn
  Temps = {n1, n2}
  Output = Output
  Tokens = {t1, t2, t3}
  PowerMayFail = FALSE
  Callers = {a1, a2}
  Pids = {p1, p2, p3}
  Ids = {i1, i2, i3, i4}
  MaxTries = 2
  CallersMayDie = FALSE
  WritesMayFail = FALSE
\* pilot
  Recordings = {"w1", "w2"}
  Processes = {a1, a2}
  Required = 1
  StatusCap = 2
  MaxPilotRuns = 2
\* guard
  Guards = {"g1", "g2"}
  Scheduled = "g1"
  MaxGuardRuns = 2
  MaxTrouble = 1
\* prospects and leads
  Prospects = {"p1"}
  Leads = {"l1"}
  Datasets = {1, 2}
  Sets = {"a", "b"}
  Fallback = "a"
  Sellers = {a1, a2}
  MaxSalesChanges = 1
\* tables and profiles
  Tables <- MCTables
  Contracts <- MCContracts
  Profilers = {"d1", "d2"}
  MaxRows = 2
  MaxTableChanges = 2
  MaxProfiles = 3
\* quality
  Jobs = {"q1", "q2"}
  FirstJob = "q1"
  Reviewers = {a1, a2}
  MaxEvaluations = 3
  MaxSource = 1
\* suites
  Pages = {"a", "b"}
  Suites = {"s1"}
  Manifests <- MCManifests
  MaxSuiteRuns = 2
SYMMETRY Symmetry
INVARIANTS ReportPresent DiskBeforeLedger NobodyForgotten OneService
INVARIANTS PromotionIsEarned OfferIsBacked ProfileTellsTruth GateIsEarned
PROPERTIES ImplementsReportSeal TrustIsEarned RetirementIsProven
\* In the worlds of the report and of the service, processes die or linger, but the
\* machine keeps its power and commands are not killed.
\* All of these may come to rest, at a bound or with their work done.
CHECK_DEADLOCK FALSE
