--------------------------- MODULE DatasetQuality ---------------------------
(***************************************************************************)
(* Dataset profiles (core.py, 3679-4904).  A command reads a local table   *)
(* once, profiles its first rows and checks them against the contract it   *)
(* was given; it writes a brief, then the ledger row, then takes the brief *)
(* into the knowledge index.  Dashboards trust no ledger row: they derive  *)
(* the contract's result again from the aggregates stored with it.         *)
(* A table has one column; a profile is what Profile makes of an input.    *)
(***************************************************************************)
EXTENDS Integers, Sequences, FiniteSets, Nothing

CONSTANTS Tables,          \* contents of the source: sequences of Values
          Contracts,       \* contracts, and whether the column is declared a key
          Profilers,       \* commands at work
          MaxRows,         \* MAX_PROFILE_ROWS
          MaxTableChanges, \* bound: edits of the source and kills
          MaxProfiles      \* bound: profiles begun

VARIABLES sourceTable, \* the table on disk
          brief,       \* the brief of the dataset: of what, and written to its end
          stored,      \* the ledger row
          indexed,     \* the brief as the knowledge index has it
          profiler,    \* what each command is doing
          profiles, tableChanges,
          agreed       \* the last profile ran alone and to its end (history)

datasetVars == <<sourceTable, brief, stored, indexed, profiler, profiles, tableChanges, agreed>>

(* A cell: no such field in its row, no value, numbers on both sides of and
   within the declared range, an integer beyond every float, text, NaN. *)
Values == {"absent", "missing", "low", "right", "high", "huge", "text", "nan"}

ASSUME DatasetAssumption ==
  /\ Tables \subseteq Seq(Values)
  /\ Contracts \subseteq [required : BOOLEAN, types : SUBSET STRING,
                          bounds : SUBSET {"minimum", "maximum"}, key : BOOLEAN]
  /\ MaxRows \in Nat /\ MaxTableChanges \in Nat /\ MaxProfiles \in Nat

Inputs == [table : Tables, contract : Contracts]

ProfilerAtRest == [step |-> "idle", input |-> None, read |-> None, alone |-> FALSE]

ProfilerSteps == {"idle", "profiled", "writing", "brief", "ledger", "read"}

DatasetTypeOK ==
    /\ sourceTable \in Tables
    /\ stored \in Inputs \cup {None}
    /\ brief # None => brief.of \in Inputs
    /\ indexed # None => indexed.of \in Inputs
    /\ \A p \in Profilers : /\ profiler[p].step \in ProfilerSteps
                            /\ profiler[p].step # "idle" => profiler[p].input \in Inputs
    /\ profiles \in 0..MaxProfiles /\ tableChanges \in 0..MaxTableChanges

DatasetInit ==
    /\ sourceTable \in Tables
    /\ brief = None /\ stored = None /\ indexed = None
    /\ profiler = [p \in Profilers |-> ProfilerAtRest]
    /\ profiles = 0 /\ tableChanges = 0 /\ agreed = FALSE

--------------------------------------------------------------------------
(* What is counted in the profiled rows. *)

ProfiledRows(table) == SubSeq(table, 1, IF Len(table) > MaxRows THEN MaxRows ELSE Len(table))

Truncated(table) == Len(table) > MaxRows

TypeOf(value) == CASE value \in {"absent", "missing"}             -> "missing"
                   [] value \in {"low", "right", "high", "huge"} -> "integer"
                   [] value = "text"                             -> "string"
                   [] value = "nan"                              -> "non_finite_number"

Types == {TypeOf(v) : v \in Values} \ {"missing"}

Finite(value) == value \in {"low", "right", "high"}

Count(rows, Test(_)) == Cardinality({i \in DOMAIN rows : Test(rows[i])})

(* Mutant: a column that no row has passes for a column. *)
AlwaysPresent(rows) == TRUE

Present(rows) == \E i \in DOMAIN rows : rows[i] # "absent"

(* "numeric" stands for both kinds of numbers. *)
Allows(types, type) == type \in types \/ ("numeric" \in types /\ type \in {"integer", "number"})

(* Rows that have a twin; a row in which the column is absent is no twin of
   one in which it has no value. *)
Twins(rows, among) == {i \in among : \E j \in DOMAIN rows \ {i} : rows[i] = rows[j]}

(* _evaluate_dataset_contract, rule by rule. *)
RequiredResult(rows) ==
    LET missing == IF Present(rows) THEN Count(rows, LAMBDA v : TypeOf(v) = "missing") ELSE Len(rows) IN
    [present |-> Present(rows), missing |-> missing, passed |-> Present(rows) /\ missing = 0]

TypeResult(rows, types) ==
    LET checked    == IF Present(rows) THEN Count(rows, LAMBDA v : TypeOf(v) # "missing") ELSE 0
        unexpected == IF Present(rows)
                      THEN Count(rows, LAMBDA v : TypeOf(v) # "missing" /\ ~Allows(types, TypeOf(v)))
                      ELSE 0 IN
    [present |-> Present(rows), checked |-> checked, unexpected |-> unexpected,
     passed |-> Present(rows) /\ unexpected = 0]

RangeResult(rows, bounds) ==
    LET Number(Test(_)) == IF Present(rows) THEN Count(rows, Test) ELSE 0
        uncheckable == Number(LAMBDA v : TypeOf(v) # "missing" /\ ~Finite(v))
        below == Number(LAMBDA v : v = "low" /\ "minimum" \in bounds)
        above == Number(LAMBDA v : v = "high" /\ "maximum" \in bounds) IN
    [present |-> Present(rows), filled |-> Number(LAMBDA v : TypeOf(v) # "missing"),
     checked |-> Number(Finite), uncheckable |-> uncheckable, below |-> below, above |-> above,
     violations |-> uncheckable + below + above,
     passed |-> Present(rows) /\ uncheckable + below + above = 0]

(* The rules of a contract, each with its result. *)
RuleResults(rows, contract) ==
    (IF contract.required THEN {<<"required", RequiredResult(rows)>>} ELSE {})
    \cup (IF contract.types # {} THEN {<<"types", TypeResult(rows, contract.types)>>} ELSE {})
    \cup (IF contract.bounds # {} THEN {<<"range", RangeResult(rows, contract.bounds)>>} ELSE {})

FailedRules(results) == Cardinality({r \in results : ~r[2].passed})

Status(results, truncated) == IF results = {} THEN "not configured"
                              ELSE IF FailedRules(results) > 0 THEN "violations"
                              ELSE IF truncated THEN "conforms profiled rows" ELSE "conforms"

(* The key check and the quality flags go with the profile. *)
Profile(input) ==
    LET rows      == ProfiledRows(input.table)
        truncated == Truncated(input.table)
        results   == RuleResults(rows, input.contract)
        types     == [t \in Types |-> Count(rows, LAMBDA v : TypeOf(v) = t)] IN
    [rows |-> Len(rows), truncated |-> truncated, present |-> Present(rows),
     missing |-> Count(rows, LAMBDA v : TypeOf(v) = "missing"), types |-> types,
     mixed |-> Cardinality({t \in Types : types[t] > 0}) > 1,
     excluded |-> Count(rows, LAMBDA v : TypeOf(v) = "integer" /\ ~Finite(v)),
     twins |-> Cardinality(Twins(rows, DOMAIN rows)),
     key |-> input.contract.key,
     keyless |-> Count(rows, LAMBDA v : TypeOf(v) = "missing"),
     keyTwins |-> Cardinality(Twins(rows, {i \in DOMAIN rows : TypeOf(rows[i]) # "missing"})),
     contract |-> input.contract, results |-> results,
     failed |-> FailedRules(results), status |-> Status(results, truncated)]

--------------------------------------------------------------------------
(* _dataset_quality_overview: every result must follow from the aggregates. *)

SumTypes(profile, S) == LET n(t) == IF t \in S THEN profile.types[t] ELSE 0 IN
                        n("integer") + n("string") + n("non_finite_number")

Follows(profile, rule, r) ==
    /\ r.present = profile.present
    /\ CASE rule = "required" ->
              /\ r.missing = IF profile.present THEN profile.missing ELSE profile.rows
              /\ r.passed = (profile.present /\ r.missing = 0)
         [] rule = "types" ->
              LET bad == {t \in Types : ~Allows(profile.contract.types, t)} IN
              /\ r.checked = IF profile.present THEN SumTypes(profile, Types) ELSE 0
              /\ r.unexpected = IF profile.present THEN SumTypes(profile, bad) ELSE 0
              /\ r.passed = (profile.present /\ r.unexpected = 0)
         [] rule = "range" ->
              /\ r.filled = IF profile.present THEN profile.rows - profile.missing ELSE 0
              /\ r.checked + r.uncheckable = r.filled
              /\ r.below + r.above <= r.checked
              /\ r.violations = r.uncheckable + r.below + r.above
              /\ r.passed = (profile.present /\ r.violations = 0)

ReadableProfile(profile) ==
    /\ \A r \in profile.results : Follows(profile, r[1], r[2])
    /\ profile.failed = FailedRules(profile.results)
    /\ profile.status = Status(profile.results, profile.truncated)

(* Columns count from the aggregates of the columns there are. *)
Flagged(profile) ==
    \/ profile.present /\ \/ profile.missing > 0 \/ profile.mixed \/ profile.excluded > 0
                          \/ profile.types["non_finite_number"] > 0
    \/ profile.twins > 0
    \/ profile.truncated
    \/ profile.status = "violations"

KeySignals(profile) == profile.key /\ profile.keyless + profile.keyTwins > 0

Overview(profile) ==
    IF ReadableProfile(profile)
    THEN [contract |-> profile.status,
          quality |-> IF Flagged(profile) \/ KeySignals(profile) THEN "review" ELSE "clear"]
    ELSE [contract |-> "unavailable", quality |-> "unavailable"]

--------------------------------------------------------------------------
(* profile_dataset. *)

(* A key column that is not there is refused. *)
ProfileSource(p, contract) ==
    /\ profiler[p].step = "idle" /\ profiles < MaxProfiles
    /\ contract.key => Present(ProfiledRows(sourceTable))
    /\ profiler' = [q \in Profilers |->
         IF q = p THEN [ProfilerAtRest EXCEPT !.step = "profiled",
                        !.input = [table |-> sourceTable, contract |-> contract],
                        !.alone = \A o \in Profilers \ {p} : profiler[o].step = "idle"]
         ELSE [profiler[q] EXCEPT !.alone = FALSE]]
    /\ profiles' = profiles + 1 /\ agreed' = FALSE
    /\ UNCHANGED <<sourceTable, brief, stored, indexed, tableChanges>>

MoveProfiler(p, from, to) == /\ profiler[p].step = from
                             /\ profiler' = [profiler EXCEPT ![p].step = to]
                             /\ UNCHANGED <<sourceTable, profiles, tableChanges, agreed>>

OpenBrief(p) == /\ MoveProfiler(p, "profiled", "writing")
                /\ brief' = [of |-> profiler[p].input, whole |-> FALSE]
                /\ UNCHANGED <<stored, indexed>>

(* Two texts written into one file at a time need not make a whole one. *)
WriteBrief(p) ==
    LET mine == [of |-> profiler[p].input, whole |-> FALSE] IN
    /\ MoveProfiler(p, "writing", "brief")
    /\ \E whole \in IF brief = mine THEN {TRUE} ELSE BOOLEAN : brief' = [mine EXCEPT !.whole = whole]
    /\ UNCHANGED <<stored, indexed>>

StoreProfile(p) == /\ MoveProfiler(p, "brief", "ledger")
                   /\ stored' = profiler[p].input
                   /\ UNCHANGED <<brief, indexed>>

(* add_knowledge: whatever the brief is by now. *)
ReadBrief(p) == /\ profiler[p].step = "ledger"
                /\ profiler' = [profiler EXCEPT ![p].step = "read", ![p].read = brief]
                /\ UNCHANGED <<sourceTable, brief, stored, indexed, profiles, tableChanges, agreed>>

IndexBrief(p) == /\ profiler[p].step = "read"
                 /\ indexed' = profiler[p].read
                 /\ agreed' = profiler[p].alone
                 /\ profiler' = [profiler EXCEPT ![p] = ProfilerAtRest]
                 /\ UNCHANGED <<sourceTable, brief, stored, profiles, tableChanges>>

EditTable(table) == /\ tableChanges < MaxTableChanges /\ table # sourceTable
                    /\ sourceTable' = table /\ tableChanges' = tableChanges + 1
                    /\ UNCHANGED <<brief, stored, indexed, profiler, profiles, agreed>>

KillProfiler(p) == /\ tableChanges < MaxTableChanges /\ profiler[p].step # "idle"
                   /\ profiler' = [profiler EXCEPT ![p] = ProfilerAtRest]
                   /\ tableChanges' = tableChanges + 1
                   /\ UNCHANGED <<sourceTable, brief, stored, indexed, profiles, agreed>>

DatasetNext ==
    \/ \E p \in Profilers :
         \/ \E contract \in Contracts : ProfileSource(p, contract)
         \/ OpenBrief(p) \/ WriteBrief(p) \/ StoreProfile(p) \/ ReadBrief(p) \/ IndexBrief(p)
         \/ KillProfiler(p)
    \/ \E table \in Tables : EditTable(table)

DatasetSpec == DatasetInit /\ [][DatasetNext]_datasetVars

--------------------------------------------------------------------------
(* What a contract means, row by row. *)
Keeps(contract, rows) ==
    /\ contract.required => \A i \in DOMAIN rows : TypeOf(rows[i]) # "missing"
    /\ contract.types # {} => \A i \in DOMAIN rows : TypeOf(rows[i]) = "missing"
                                                     \/ Allows(contract.types, TypeOf(rows[i]))
    /\ contract.bounds # {} => \A i \in DOMAIN rows :
         \/ TypeOf(rows[i]) = "missing"
         \/ /\ Finite(rows[i])
            /\ "minimum" \in contract.bounds => rows[i] # "low"
            /\ "maximum" \in contract.bounds => rows[i] # "high"
    /\ \E i \in DOMAIN rows : rows[i] # "absent"

Configured(contract) == contract.required \/ contract.types # {} \/ contract.bounds # {}

(* What a dashboard says of a stored profile is true, row by row, of the file
   whose digest is stored with it: it can always be said; conformance without
   qualification is of every row of that file, and so is a clean bill; and
   violations are reported exactly where a profiled row has one.  A profile
   that ran alone leaves brief, ledger and index of one reading, whatever
   kills and overlapping runs came before it. *)
ProfileTellsTruth ==
    /\ stored # None =>
         LET view == Overview(Profile(stored))
             rows == ProfiledRows(stored.table) IN
         /\ view.contract # "unavailable"
         /\ view.contract = "conforms" => Keeps(stored.contract, stored.table)
         /\ view.contract = "violations" <=> /\ Configured(stored.contract)
                                             /\ ~Keeps(stored.contract, rows)
         /\ view.quality = "clear" =>
              \/ stored.table = <<"absent">>
              \/ /\ \A i, j \in DOMAIN stored.table : i # j => stored.table[i] # stored.table[j]
                 /\ \/ \A i \in DOMAIN stored.table : Finite(stored.table[i])
                    \/ \A i \in DOMAIN stored.table : stored.table[i] = "text"
    /\ agreed => brief = [of |-> stored, whole |-> TRUE] /\ indexed = brief

===========================================================================
