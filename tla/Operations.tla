---------------------------- MODULE Operations -----------------------------
(***************************************************************************)
(* An index of documents in service: it is replaced by appends and         *)
(* compactions, searched with a report of the plan, judged by the release  *)
(* gates of the benchmark, and put in the hands of the rollout controller. *)
(*                                                                         *)
(*   src/src/index.cpp                      Append, Compact                *)
(*   src/src/search.cpp                     Search, Estimate, TakeReport,  *)
(*                                          EvaluateGate                   *)
(*   src/bench/workload_matrix.hpp          RunScenario                    *)
(*   src/include/pergrep/rollout.hpp        RecordQuery, Guard, Enforce-   *)
(*                                          Rollback, Promote              *)
(*                                                                         *)
(* The caller is sequential: it takes the report of a search before it     *)
(* does anything else.                                                     *)
(***************************************************************************)
EXTENDS Segments, Planner

CONSTANTS
  InitialDocuments, \* what the index may be built from
  Changes,          \* sequences of changed documents
  Totals,           \* the totals <<files, bytes>> that manifests declare
  Queries,          \* keys; a search puts in its scope and the index options
  Scopes,           \* sets of file ids
  Measurements,     \* what the benchmark may measure in a scenario
  Features,         \* the flags of RolloutFeatureFlags
  MinQueries,       \* 20: queries before the ratio counts
  FallbackPercent,  \* 100 * max_fallback_ratio of the telemetry
  MaxFallbacks,     \* max_allowed_fallbacks
  GatePercent,      \* percentages of fallbacks that fail the gate ...
  RollbackPercent,  \* ... and that roll back
  MaxAppends, MaxQueryOps, MaxOps  \* bounds on what is explored

(* The caller gives from_documents one document for each path: two of one  *)
(* path would both be kept.                                                *)
ASSUME OperationsAssumption ==
  /\ MinQueries \in Nat /\ FallbackPercent \in Nat /\ MaxFallbacks \in Nat
  /\ GatePercent \in Nat /\ RollbackPercent \in Nat /\ GatePercent <= RollbackPercent
  /\ Features # {}
  /\ InitialDocuments \subseteq {docs \in Seq(Documents) : Distinct(docs)}
  /\ Changes \subseteq Seq(Documents)
  /\ Queries \subseteq PlanKeys(IndexOptions)
  /\ \A scope \in Scopes : Cardinality(scope) \in Nat
  /\ \A m \in Measurements :
       /\ m.correct \in BOOLEAN /\ m.baseline \in BOOLEAN
       /\ {m.p50, m.p95, m.perQuery, m.throughput, m.totalRatio} \subseteq {0, 1}
       /\ {m.memory, m.p95Ratio, m.p50Ratio, m.fallback, m.regret} \subseteq 0..2

VARIABLES
  index,      \* the index
  store,      \* (history) what each path that has a document should hold
  fresh,      \* (history) the paths changed since the index was last built
  report,     \* the report the caller has not taken, or NoReport
  shadow,     \* counts over the reports: asked, fell back, suboptimal
  verdicts,   \* the verdicts of the scenarios
  levels,     \* (history) how bad the measurements of the scenarios were
  gate,       \* the outcome of the release gate, "none" before
  rollout,    \* the controller: state and flags
  telemetry,  \* the controller's: queries and fallbacks
  unpolled,   \* (history) fallbacks since the guard last found them few enough
  ops         \* operations so far

searchVars  == <<report, shadow>>
indexVars   == <<index, store, fresh>>
gateVars    == <<verdicts, levels, gate>>
rolloutVars == <<rollout, telemetry, unpolled>>
vars == <<indexVars, searchVars, gateVars, rolloutVars, ops>>

NoReport == [none |-> TRUE]

Free == report = NoReport /\ ops < MaxOps

-----------------------------------------------------------------------------
(* The index.                                                              *)

Build(docs, opt) ==
  /\ index = FromDocuments(docs, opt)
  /\ store = [p \in {d.path : d \in ToSet(docs)} |->
                (CHOOSE d \in ToSet(docs) : d.path = p).content]
  /\ fresh = {}

(* What an append should leave under each path: its last change, nothing   *)
(* where there is only a tombstone, and what was there otherwise.          *)
StoreAfter(changed, tombstones) ==
  LET at(p) == {i \in 1..Len(changed) : changed[i].path = p}
  IN [p \in (DOMAIN store \ tombstones) \cup {d.path : d \in ToSet(changed)} |->
        IF at(p) = {} THEN store[p] ELSE changed[Max(at(p))].content]

AppendTo(changed, tombstones, declared, opt) ==
  LET nothing == index.docs = <<>> /\ changed = <<>> IN
  /\ Free /\ index.segments < MaxAppends
  /\ nothing \/ LET docs == Merged(index, changed, tombstones)
                IN Declares(declared[1], declared[2], docs) /\ Fits(docs)
  /\ index' = Appended(index, changed, tombstones, opt)
  /\ store' = StoreAfter(changed, tombstones)
  /\ fresh' = IF nothing THEN {}
              ELSE fresh \cup {changed[i].path : i \in 1..Len(changed)}
  /\ ops' = ops + 1
  /\ UNCHANGED <<searchVars, gateVars, rolloutVars>>

(* Compaction builds the documents of the index again.                     *)
Compact(opt) ==
  /\ Free
  /\ ShouldCompact(index)
  /\ index' = FromDocuments(index.docs, opt)
  /\ fresh' = {}
  /\ ops' = ops + 1
  /\ UNCHANGED <<store, searchVars, gateVars, rolloutVars>>

-----------------------------------------------------------------------------
(* Searches and their reports.                                             *)

KeyFor(query, scope, opt) ==
  [query EXCEPT !.scope = Cardinality(scope), !.opt = opt]

Reporting(query, scope, opt, gaveUp, searched) ==
  LET I == FiguresOf(index, scope) IN
  \E n \in 0..I.chunks :
    report' = [figures |-> I, key |-> KeyFor(query, scope, opt), hits |-> n,
               gaveUp |-> gaveUp, searched |-> searched]

(* Searcher::find makes the key from the options of the index.             *)
Search(query, scope, gaveUp) ==
  /\ Free /\ gate = "none" /\ ops < MaxQueryOps
  /\ query.kind # "broken"
  /\ gaveUp => query.kind \in {"mandatory", "plain"} /\ ~query.invert
  /\ Reporting(query, scope, index.opt, gaveUp, TRUE)
  /\ ops' = ops + 1
  /\ UNCHANGED <<indexVars, shadow, gateVars, rolloutVars>>

(* estimate_candidate_plans takes any key.                                 *)
Estimate(query, scope, opt) ==
  /\ Free /\ gate = "none" /\ ops < MaxQueryOps
  /\ Reporting(query, scope, opt, FALSE, FALSE)
  /\ ops' = ops + 1
  /\ UNCHANGED <<indexVars, shadow, gateVars, rolloutVars>>

Fell == FallbackPath(report.figures, report.key, report.hits, report.gaveUp)

Worse == Rivals(report.figures, report.key, report.hits, report.gaveUp) # {}

(* The regret of a search joins those that evaluate_shadow_plans counts.   *)
TakeReport ==
  /\ report # NoReport
  /\ report' = NoReport
  /\ shadow' = IF ~report.searched THEN shadow
               ELSE [asked |-> shadow.asked + 1,
                     fell  |-> shadow.fell + IF Fell THEN 1 ELSE 0,
                     worse |-> shadow.worse + IF Worse THEN 1 ELSE 0]
  /\ UNCHANGED <<indexVars, gateVars, rolloutVars, ops>>

-----------------------------------------------------------------------------
(* The release gates.  A measurement says by how much each figure of a     *)
(* scenario misses its threshold: 0 not at all, 1 so that the gate fails,  *)
(* 2 so that it rolls back.                                                *)

RaiseLast(status, level) ==
  CASE level = 2 -> "rollback"
    [] level = 1 -> "fail"
    [] OTHER     -> status

Raise(status, level) ==
  CASE level = 2 -> "rollback"
    [] level = 1 -> IF status = "rollback" THEN status ELSE "fail"
    [] OTHER     -> status

LatencyLevel(m) ==
  CASE m.p95Ratio = 2 \/ m.p50Ratio = 2 -> 2
    [] m.p95Ratio # 2 /\ m.p50Ratio # 2 /\ (m.p95Ratio = 1 \/ m.p50Ratio = 1) -> 1
    [] OTHER -> m.totalRatio

ScenarioVerdict(m) ==
  LET absolute == Raise(Raise(Raise(Raise("pass", m.p50), m.p95), m.perQuery), m.throughput)
      compared == IF m.baseline THEN Raise(Raise(absolute, m.memory), LatencyLevel(m))
                                ELSE absolute
  IN IF m.correct THEN Raise(Raise(compared, m.fallback), m.regret) ELSE "rollback"

(* How bad the figures of a measurement are, whatever the order in which   *)
(* they are looked at.                                                     *)
Levels(m) ==
  {m.p50, m.p95, m.perQuery, m.throughput, m.fallback, m.regret, IF m.correct THEN 0 ELSE 2}
    \cup IF m.baseline THEN {m.memory, m.p95Ratio, m.p50Ratio, m.totalRatio} ELSE {}

RunScenario(m) ==
  /\ Free /\ gate = "none"
  /\ verdicts' = verdicts \cup {ScenarioVerdict(m)}
  /\ levels' = levels \cup Levels(m)
  /\ ops' = ops + 1
  /\ UNCHANGED <<indexVars, searchVars, gate, rolloutVars>>

ShadowLevels ==
  {IF 100 * shadow.worse > 20 * shadow.asked THEN 1 ELSE 0,
   IF 100 * shadow.fell > RollbackPercent * shadow.asked THEN 2
   ELSE IF 100 * shadow.fell > GatePercent * shadow.asked THEN 1 ELSE 0}

EvaluateGate ==
  /\ Free /\ gate = "none"
  /\ gate' = CASE "rollback" \in verdicts \/ 2 \in ShadowLevels -> "rollback"
               [] "rollback" \notin verdicts /\ 2 \notin ShadowLevels
                    /\ ("fail" \in verdicts \/ 1 \in ShadowLevels) -> "fail"
               [] OTHER -> "pass"
  /\ ops' = ops + 1
  /\ UNCHANGED <<indexVars, searchVars, verdicts, levels, rolloutVars>>

(* The exit status of the benchmark.                                       *)
ExitStatus(enforced) ==
  IF ~enforced \/ gate = "pass" THEN 0 ELSE IF gate = "rollback" THEN 2 ELSE 1

-----------------------------------------------------------------------------
(* The rollout controller.                                                 *)

Exposed == rollout.state \in {"canary", "active"}

ShouldTriggerRollback ==
  \/ /\ telemetry.queries >= MinQueries
     /\ 100 * telemetry.fallbacks > FallbackPercent * telemetry.queries
  \/ telemetry.fallbacks > MaxFallbacks

RecordQuery(fellBack) ==
  LET one == IF fellBack THEN 1 ELSE 0 IN
  /\ Free
  /\ telemetry' = [queries   |-> telemetry.queries + 1,
                   fallbacks |-> telemetry.fallbacks + one]
  /\ unpolled' = unpolled + one
  /\ ops' = ops + 1
  /\ UNCHANGED <<rollout, indexVars, searchVars, gateVars>>

RolledBack == [state |-> "rollback", flags |-> {}]

Guard ==
  /\ Free
  /\ rollout' = IF Exposed /\ ShouldTriggerRollback THEN RolledBack ELSE rollout
  /\ unpolled' = IF Exposed /\ ~ShouldTriggerRollback THEN 0 ELSE unpolled
  /\ ops' = ops + 1
  /\ UNCHANGED <<telemetry, indexVars, searchVars, gateVars>>

EnforceRollback ==
  /\ Free
  /\ rollout' = RolledBack
  /\ ops' = ops + 1
  /\ UNCHANGED <<telemetry, unpolled, indexVars, searchVars, gateVars>>

Promote ==
  /\ Free
  /\ rollout.state # "rollback"
  /\ rollout' = [rollout EXCEPT !.state = "active"]
  /\ ops' = ops + 1
  /\ UNCHANGED <<telemetry, unpolled, indexVars, searchVars, gateVars>>

-----------------------------------------------------------------------------
(* No member of the controller makes a canary of it: its user does, before *)
(* anything is counted.                                                    *)
Init ==
  /\ \E docs \in InitialDocuments, opt \in IndexOptions : Fits(docs) /\ Build(docs, opt)
  /\ report = NoReport /\ shadow = [asked |-> 0, fell |-> 0, worse |-> 0]
  /\ verdicts = {} /\ levels = {} /\ gate = "none"
  /\ rollout \in [state : {"default", "canary"}, flags : {Features}]
  /\ telemetry = [queries |-> 0, fallbacks |-> 0] /\ unpolled = 0
  /\ ops = 0

Next ==
  \/ \E changed \in Changes, tombstones \in SUBSET Paths, declared \in Totals,
        opt \in IndexOptions : AppendTo(changed, tombstones, declared, opt)
  \/ \E opt \in IndexOptions : Compact(opt)
  \/ \E query \in Queries, scope \in Scopes, gaveUp \in BOOLEAN : Search(query, scope, gaveUp)
  \/ \E query \in Queries, scope \in Scopes, opt \in IndexOptions :
        Estimate(query, scope, opt)
  \/ TakeReport
  \/ \E m \in Measurements : RunScenario(m)
  \/ EvaluateGate
  \/ \E fellBack \in BOOLEAN : RecordQuery(fellBack)
  \/ Guard \/ EnforceRollback \/ Promote

Spec == Init /\ [][Next]_vars

-----------------------------------------------------------------------------
(* Safety.                                                                 *)

(* The index holds under each path what it should, in the order of the     *)
(* paths, whatever was changed twice, both removed and changed, or         *)
(* compacted.                                                              *)
IndexIsStore ==
  /\ ToSet(index.docs) = {[path |-> p, content |-> store[p]] : p \in DOMAIN store}
  /\ \A i \in 1..Len(index.docs) : \A j \in 1..(i - 1) :
       index.docs[j].path < index.docs[i].path

FreshBytes == BytesIn(index.docs, fresh)

(* As long as no compaction is asked for, at most a quarter of the bytes   *)
(* came with appends.                                                      *)
MostlyBuilt ==
  /\ FreshBytes <= index.appended
  /\ ~ShouldCompact(index) => 4 * FreshBytes <= Bytes(index.docs)

(* The layout gives the planner numbers to reckon with.                    *)
LayoutCounts == report # NoReport => report.figures \in Figures(IndexOptions)

(* What Index::append promises and Index::should_compact bounds, and what  *)
(* the planner may expect of the layout.                                   *)
AppendInv == IndexIsStore /\ MostlyBuilt /\ LayoutCounts

(* Prices are fractions.                                                   *)
SamePrice(a, b) == a[1] * b[2] = b[1] * a[2]
Cheaper(a, b)   == a[1] * b[2] < b[1] * a[2]

(* Of the candidates exactly one is marked: the one the search will use.   *)
OneChosen(I, key, n) ==
  \E c \in Candidates(I, key, n) :
    /\ c.verifier = Cost(I, key, n).verifier
    /\ \A d \in Candidates(I, key, n) : d.chosen <=> d = c

(* The guard holds of no key but the index's own, and then no candidate    *)
(* for fixed literals is cheaper than the plan.  The list charges for a    *)
(* transformed input, which the plan of the guarded dispatch does not.     *)
GuardedIsCheapest(I, key, n) ==
  Cost(I, key, n).guarded =>
    /\ key.opt = I.opt /\ key.len <= I.opt.overlap
    /\ \A c \in Candidates(I, key, n) :
         /\ c.chosen /\ key.identity % 256 = 0 => SamePrice(c.cost, Cost(I, key, n).cost)
         /\ Cheaper(c.cost, Cost(I, key, n).cost) => c.verifier = "RegexBruteForce"

(* Outside the guard the list prices the plan as the search does, but for  *)
(* a scope, a scan of everything, and a key of another index.              *)
ListedAsPriced(I, key, n) ==
  (/\ key.scope = 0 /\ key.opt = I.opt /\ ~Guarded(I, key)
   /\ IF Fixed(key) THEN ~key.icase /\ key.len <= I.opt.overlap ELSE key.kind # "plain")
  => \A c \in Candidates(I, key, n) :
       c.chosen => SamePrice(c.cost, Cost(I, key, n).cost)

(* The overload for patterns agrees with the one for keys, except that it  *)
(* names the operator of guarded plans only.                               *)
OverloadsAgree(I, key, n) ==
  LET short == PatternCost(I, key, n)
      full  == Cost(I, PatternKey(I, key), n)
  IN key.kind # "broken" =>
       /\ short.verifier = full.verifier
       /\ short.cost = full.cost
       /\ short.guarded = full.guarded
       /\ short.guarded => short.operator = full.operator

(* A search reports the operator that ran, save for an expression that is  *)
(* one literal or a search for the records without a match; one candidate  *)
(* was observed, so that no search ever shows a regret.                    *)
ReportIsWhatRan(I, key, n, gaveUp) ==
  /\ key.kind = "fixed" /\ ~key.invert => Cost(I, key, n).operator = RanOperator(I, key, n)
  /\ \E c \in Candidates(I, key, n) : Observed(I, key, n, gaveUp) = {c}
  /\ Rivals(I, key, n, gaveUp) = {}

(* The three computations of a plan tell the same story.                   *)
PlansAgree ==
  /\ shadow.worse = 0
  /\ report # NoReport /\ report.figures \in Figures(IndexOptions) =>
       LET I == report.figures
           key == report.key
           n == report.hits
       IN /\ OneChosen(I, key, n)
          /\ GuardedIsCheapest(I, key, n)
          /\ ListedAsPriced(I, key, n)
          /\ OverloadsAgree(I, key, n)
          /\ report.searched => ReportIsWhatRan(I, key, n, report.gaveUp)

(* The gate rolls back exactly when a figure of a scenario or the rate of  *)
(* fallbacks says so, and passes only when nothing failed.                 *)
GateIsWorst ==
  gate # "none" =>
    /\ gate = "rollback" <=>
         2 \in levels \/ 100 * shadow.fell > RollbackPercent * shadow.asked
    /\ gate = "pass" =>
         levels \subseteq {0} /\ 100 * shadow.fell <= GatePercent * shadow.asked
    /\ ExitStatus(TRUE) = 0 <=> gate = "pass"

(* A controller that rolled back has every feature off, and one that       *)
(* exposes features has seen few fallbacks, but for those the guard has    *)
(* not been asked about since.                                             *)
RolloutSafe ==
  /\ rollout.state = "rollback" <=> rollout.flags # Features
  /\ Exposed => telemetry.fallbacks <= MaxFallbacks + unpolled
  /\ telemetry.fallbacks <= telemetry.queries

(* What releases rest on.                                                  *)
ReleaseInv == GateIsWorst /\ RolloutSafe
=============================================================================
