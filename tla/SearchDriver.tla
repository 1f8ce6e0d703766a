---------------------------- MODULE SearchDriver ----------------------------
(***************************************************************************)
(* The control of Searcher::find and Searcher::files of src/src/search.cpp *)
(* around the verifiers: which files and units are visited, where          *)
(* should_cancel is asked, where the bound on the results is tested, and   *)
(* what is returned.                                                       *)
(*                                                                         *)
(* A corpus gives for each file whether it is binary and how many results  *)
(* each of its units yields.  A unit is what the path verifies at a time:  *)
(* a record, a region, a block, a chunk or a whole file.  A result is a    *)
(* triple of file, unit and its number in the unit; results in that order  *)
(* are in the order (file_id, offset).                                     *)
(***************************************************************************)
EXTENDS Naturals, Sequences, FiniteSets

CONSTANTS
  Corpora,    \* sequences of files
  Scopes,     \* eligible_file_ids; the empty set stands for all files
  MaxMatches  \* the values of max_matches; 0 is no bound

Paths     == {"invert", "whole", "chunk", "block", "long", "regex", "bounded", "multiline"}
AskFile   == {"invert", "whole", "regex", "bounded", "multiline"}
AskUnit   == {"invert", "block", "regex", "bounded"}
AskResult == {"long"}
\* These test the bound after every unit, the others after every result.
ByUnit    == {"regex", "bounded", "multiline"}

Calls      == {"find", "files_with_matches", "files_without_match"}
Objectives == {"Exhaustive", "FirstHit"}

ASSUME DriverAssumption ==
  /\ Corpora \subseteq Seq([binary : BOOLEAN, units : Seq(Nat)])
  /\ Scopes \subseteq SUBSET Nat
  /\ MaxMatches \subseteq Nat

VARIABLES
  corpus, req,   \* the indexed files and the request
  pc,            \* where the call is
  probe,         \* the file that files() is probing, or 0
  f, u, h,       \* the file, the unit and the result that come next
  out,           \* the results of find
  cancelled,     \* has should_cancel answered yes?
  answer         \* what the call returned: results or files

vars == <<corpus, req, pc, probe, f, u, h, out, cancelled, answer>>

Files == 1..Len(corpus)

-----------------------------------------------------------------------------
(* The options of the find that is under way.                              *)

\* files() hands its objective and bound down only as far as it may.
Objective == IF req.call = "find" \/ probe # 0 THEN req.objective ELSE "Exhaustive"

\* A bug to compare with: the bound on the files bounds the discovery.
MaxKept == req.max

Max == IF req.call = "find" THEN req.max ELSE 0

Allows(i) == IF probe # 0 THEN i = probe ELSE req.scope = {} \/ i \in req.scope

Excluded(i) == corpus[i].binary /\ ~req.include_binary

\* A bug to compare with: only max_matches stops a search.
ReachedMax(n) == Max # 0 /\ n >= Max

\* result_bound_reached does not ask whether there is a result.
Reached(n) == Objective = "FirstHit" \/ (Max # 0 /\ n >= Max)

\* How many results regex_find_all may return; 0 is no limit.
Remain == IF Objective = "FirstHit" THEN 1 ELSE IF Max # 0 THEN Max - Len(out) ELSE 0

Lesser(m, n) == IF m < n THEN m ELSE n

Taken(n) == IF Remain = 0 THEN n ELSE Lesser(n, Remain)

Hitless(i) == \A k \in DOMAIN corpus[i].units : corpus[i].units[k] = 0

-----------------------------------------------------------------------------
\* Records and whole files are there even when they are empty.
Suits(c, path) ==
  \A i \in DOMAIN c :
    /\ path \in {"invert", "regex"} => c[i].units # <<>>
    /\ path \in {"whole", "multiline"} => Len(c[i].units) = 1
    /\ path = "invert" => \A k \in DOMAIN c[i].units : c[i].units[k] <= 1

Init ==
  /\ corpus \in Corpora
  /\ req \in [call : Calls, objective : Objectives, max : MaxMatches, path : Paths,
              include_binary : BOOLEAN, scope : Scopes]
  /\ Suits(corpus, req.path)
  /\ pc = "call" /\ probe = 0
  /\ f = 0 /\ u = 0 /\ h = 0
  /\ out = <<>> /\ cancelled = FALSE /\ answer = <<>>

Quiet == UNCHANGED <<corpus, req, cancelled, answer>>

Prefix(results) == IF Max # 0 THEN SubSeq(results, 1, Lesser(Max, Len(results))) ELSE results

\* A bug to compare with: what was found before a cancellation is returned.
FoundKept(c, results) ==
  /\ pc' = "found" /\ cancelled' = c
  /\ out' = Prefix(results)
  /\ UNCHANGED <<corpus, req, probe, f, u, h, answer>>

\* done: a cancelled search returns nothing, a bounded one a prefix.
Found(c, results) ==
  /\ pc' = "found" /\ cancelled' = c
  /\ out' = IF c THEN <<>> ELSE Prefix(results)
  /\ UNCHANGED <<corpus, req, probe, f, u, h, answer>>

Cancel == Found(TRUE, out)

NextFile ==
  /\ pc' = "file" /\ f' = f + 1
  /\ UNCHANGED <<probe, u, h, out>> /\ Quiet

NextUnit(results) ==
  /\ pc' = "unit" /\ u' = u + 1 /\ out' = results
  /\ UNCHANGED <<probe, f, h>> /\ Quiet

-----------------------------------------------------------------------------
(* Searcher::find.                                                         *)

\* should_cancel is asked before anything is searched.
Enter ==
  /\ pc = "enter"
  /\ \/ Cancel
     \/ pc' = "file" /\ f' = 1 /\ out' = <<>> /\ UNCHANGED <<probe, u, h>> /\ Quiet

\* A file outside the scope, or one that the filters or the prefilter on a
\* short literal rule out; an inverted search visits every file.
PassFile ==
  /\ pc = "file" /\ f \in Files
  /\ ~Allows(f) \/ (Hitless(f) /\ req.path # "invert")
  /\ NextFile

OpenFile ==
  /\ pc = "file" /\ f \in Files
  /\ Allows(f)
  /\ IF Excluded(f) THEN NextFile
     ELSE pc' = "unit" /\ u' = 1 /\ UNCHANGED <<probe, f, h, out>> /\ Quiet

\* An inverted search asks even at a file outside the scope.
CancelFile ==
  /\ pc = "file" /\ f \in Files
  /\ req.path \in AskFile /\ (Allows(f) \/ req.path = "invert")
  /\ Cancel

LastFile == pc = "file" /\ f \notin Files /\ Found(FALSE, out)

Units == corpus[f].units

\* A bug to compare with: the filters rule out units that hold results.
PassUnitBlind ==
  /\ pc = "unit" /\ u \in DOMAIN Units
  /\ req.path \in {"chunk", "block", "long", "bounded"}
  /\ NextUnit(out)

\* A unit without results that the filters rule out; a record without regions.
PassUnit ==
  /\ pc = "unit" /\ u \in DOMAIN Units
  /\ Units[u] = 0 /\ req.path \in {"chunk", "block", "long", "bounded"}
  /\ NextUnit(out)

CancelUnit ==
  /\ pc = "unit" /\ u \in DOMAIN Units /\ req.path \in AskUnit
  /\ Cancel

\* A bug to compare with: the bound is not tested after a unit.
VerifyUnitOn ==
  /\ pc = "unit" /\ u \in DOMAIN Units /\ req.path \in ByUnit
  /\ NextUnit(out \o [k \in 1..Taken(Units[u]) |-> <<f, u, k>>])

\* regex_find_all on a record, a region or a file.
VerifyUnit ==
  /\ pc = "unit" /\ u \in DOMAIN Units /\ req.path \in ByUnit
  /\ LET results == out \o [k \in 1..Taken(Units[u]) |-> <<f, u, k>>]
     IN IF Reached(Len(results)) THEN Found(FALSE, results) ELSE NextUnit(results)

ScanUnit ==
  /\ pc = "unit" /\ u \in DOMAIN Units /\ req.path \notin ByUnit
  /\ pc' = "scan" /\ h' = 1
  /\ UNCHANGED <<probe, f, u, out>> /\ Quiet

LastUnit == pc = "unit" /\ u \notin DOMAIN Units /\ NextFile

CancelResult == pc = "scan" /\ req.path \in AskResult /\ Cancel

Push ==
  /\ pc = "scan" /\ h <= Units[u]
  /\ LET results == Append(out, <<f, u, h>>)
     IN IF Reached(Len(results)) THEN Found(FALSE, results)
        ELSE /\ h' = h + 1 /\ out' = results
             /\ UNCHANGED <<pc, probe, f, u>> /\ Quiet

LastResult == pc = "scan" /\ h > Units[u] /\ NextUnit(out)

Find ==
  \/ Enter \/ PassFile \/ OpenFile \/ CancelFile \/ LastFile
  \/ PassUnit \/ CancelUnit \/ VerifyUnit \/ ScanUnit \/ LastUnit
  \/ CancelResult \/ Push \/ LastResult

-----------------------------------------------------------------------------
(* Searcher::files.                                                        *)

Answer(a, c) ==
  /\ pc' = "answered" /\ answer' = a /\ cancelled' = c
  /\ UNCHANGED <<corpus, req, probe, f, u, h, out>>

\* A first-hit query probes file after file, others search all of them.
Call ==
  /\ pc = "call"
  /\ IF req.call # "find" /\ req.objective = "FirstHit"
       THEN pc' = "probe" /\ probe' = 1
       ELSE pc' = "enter" /\ UNCHANGED probe
  /\ UNCHANGED <<f, u, h, out>> /\ Quiet

CancelProbe == pc = "probe" /\ probe \in Files /\ Answer(<<>>, TRUE)

InScope(i) == req.scope = {} \/ i \in req.scope

Probe ==
  /\ pc = "probe" /\ probe \in Files
  /\ IF InScope(probe) /\ ~Excluded(probe)
       THEN pc' = "enter" /\ UNCHANGED probe
       ELSE probe' = probe + 1 /\ UNCHANGED pc
  /\ UNCHANGED <<f, u, h, out>> /\ Quiet

LastProbe == pc = "probe" /\ probe \notin Files /\ Answer(<<>>, FALSE)

Hit(i) == \E k \in DOMAIN out : out[k][1] = i

Wanted(i) == IF req.call = "files_without_match" THEN ~Hit(i) ELSE Hit(i)

Probed ==
  /\ pc = "found" /\ probe # 0
  /\ IF cancelled THEN Answer(<<>>, TRUE)
     ELSE IF Wanted(probe) THEN Answer(<<probe>>, FALSE)
     ELSE /\ pc' = "probe" /\ probe' = probe + 1
          /\ UNCHANGED <<f, u, h, out>> /\ Quiet

\* The selected files in ascending order, as many as are asked for.
Ascending(fs) ==
  [k \in 1..Cardinality(fs) |-> CHOOSE i \in fs : Cardinality({j \in fs : j < i}) = k - 1]

Select ==
  /\ pc = "found" /\ probe = 0 /\ req.call # "find"
  /\ LET s == Ascending({i \in Files : InScope(i) /\ ~Excluded(i) /\ Wanted(i)})
     IN IF cancelled THEN Answer(<<>>, TRUE)
        ELSE Answer(IF req.max # 0 THEN SubSeq(s, 1, Lesser(req.max, Len(s))) ELSE s, FALSE)

Return == pc = "found" /\ req.call = "find" /\ Answer(out, cancelled)

Next ==
  \/ Call \/ Find
  \/ CancelProbe \/ Probe \/ LastProbe \/ Probed
  \/ Select \/ Return

Spec == Init /\ [][Next]_vars

-----------------------------------------------------------------------------
(* Properties.                                                             *)

Triples == Nat \X Nat \X Nat

\* What the proofs need to know of the state's type.
StateOK ==
  /\ corpus \in Corpora
  /\ req \in [call : Calls, objective : Objectives, max : MaxMatches, path : Paths,
              include_binary : BOOLEAN, scope : Scopes]
  /\ pc \in {"call", "enter", "file", "unit", "scan", "found", "probe", "answered"}
  /\ probe \in Nat /\ f \in Nat /\ u \in Nat /\ h \in Nat
  /\ out \in Seq(Triples)
  /\ cancelled \in BOOLEAN
  /\ pc \in {"unit", "scan"} => f \in Files
  /\ pc = "scan" => u \in DOMAIN Units

\* The type of the state; after a cancellation nothing is left of the results.
TypeOK ==
  /\ StateOK
  /\ answer \in IF req.call = "find" THEN Seq(Triples) ELSE Seq(Nat)
  /\ cancelled => /\ answer = <<>>
                  /\ pc = "found" => out = <<>>

\* The results in the files that a search covers, and their order.
Results(fs) ==
  UNION {UNION {{<<i, k, n>> : n \in 1..corpus[i].units[k]} : k \in DOMAIN corpus[i].units}
         : i \in fs}

Before(r, s) ==
  \/ r[1] < s[1]
  \/ r[1] = s[1] /\ r[2] < s[2]
  \/ r[1] = s[1] /\ r[2] = s[2] /\ r[3] < s[3]

\* s lists the first elements of a set in their order: all of them, or as many
\* as the limit allows (0 is no limit).
Lists(s, all, limit, less(_, _)) ==
  LET listed == {s[k] : k \in DOMAIN s}
  IN /\ listed \subseteq all
     /\ \A j, k \in DOMAIN s : j < k => less(s[j], s[k])
     /\ \A r \in all \ listed : \A k \in DOMAIN s : less(s[k], r)
     /\ IF limit = 0 THEN listed = all
        ELSE Len(s) <= limit /\ (listed = all \/ Len(s) = limit)

\* The results that the find under way is to find, and how many at most.
Searched == Results({i \in Files : Allows(i) /\ ~Excluded(i)})
Limit    == IF Objective = "FirstHit" THEN 1 ELSE Max

\* Those before the place that it has come to.
Passed(r) ==
  \/ r[1] < f
  \/ pc # "file" /\ r[1] = f /\ r[2] < u
  \/ pc = "scan" /\ r[1] = f /\ r[2] = u /\ r[3] < h

Reports(s, all) ==
  /\ {s[k] : k \in DOMAIN s} = all
  /\ \A j, k \in DOMAIN s : j < k => Before(s[j], s[k])

\* A path that tests its bound after every unit stops at the first one,
\* whether or not it holds a result; FirstHitFinds is about those.
Exact == req.objective = "Exhaustive" \/ req.path \notin ByUnit

\* A find that is not cancelled returns the ordered prefix of the results in
\* its scope that the objective and max_matches ask for, on every path and
\* wherever the answers of should_cancel and the filters fall.
FindAnswer ==
  pc = "found" /\ ~cancelled /\ Exact => Lists(out, Searched, Limit, Before)

\* How far a find has come: what it has passed is what it has found, in order,
\* and there is room for more.
SearchAt ==
  pc \in {"file", "unit", "scan"} =>
    /\ Reports(out, {r \in Searched : Passed(r)})
    /\ Limit # 0 => Len(out) < Limit
    /\ f # 0
    /\ pc # "file" => u # 0 /\ Allows(f) /\ ~Excluded(f)
    /\ pc = "scan" => h # 0 /\ req.path \notin ByUnit

\* The inductive invariant.
DriverInv ==
  /\ StateOK
  /\ probe # 0 => req.call # "find" /\ req.objective = "FirstHit"
  /\ SearchAt
  /\ FindAnswer

\* files() selects the files with, or without, a result: in ascending order,
\* one under FirstHit and max_matches otherwise, although it asks find for
\* something else each time.
FilesAnswer ==
  pc = "answered" /\ ~cancelled /\ Exact /\ req.call # "find" =>
    Lists(answer, {i \in Files : /\ InScope(i) /\ ~Excluded(i)
                                 /\ Hitless(i) <=> req.call = "files_without_match"},
          IF req.objective = "FirstHit" THEN 1 ELSE req.max, LAMBDA i, j : i < j)

\* regex_find_all takes a limit of 0 for none: a search that has found as much
\* as it may never goes on to a unit with max_matches - out.size() = 0.
RoomLeft ==
  pc \in {"file", "unit", "scan"} /\ Max # 0 => Len(out) < Max

\* A first-hit search returns the first result when there is one.
FirstHitFinds ==
  pc = "answered" /\ ~cancelled /\ req.call = "find" /\ req.objective = "FirstHit" =>
    Lists(answer, Results({i \in Files : Allows(i) /\ ~Excluded(i)}), 1, Before)
=============================================================================
