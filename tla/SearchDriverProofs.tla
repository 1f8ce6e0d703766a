------------------------- MODULE SearchDriverProofs -------------------------
(* Proofs about SearchDriver. *)
EXTENDS SearchDriver, FiniteSetTheorems, TLAPS

-----------------------------------------------------------------------------
(* Lists of results.                                                       *)

\* A corpus is a sequence of files, whose units hold numbers of results.
LEMMA CorpusType ==
  ASSUME NEW c \in Corpora
  PROVE  /\ Len(c) \in Nat
         /\ \A i \in 1..Len(c) : /\ c[i].binary \in BOOLEAN
                                 /\ c[i].units \in Seq(Nat)
                                 /\ Len(c[i].units) \in Nat
                                 /\ DOMAIN c[i].units = 1..Len(c[i].units)
                                 /\ \A k \in 1..Len(c[i].units) : c[i].units[k] \in Nat
<1>1. c \in Seq([binary : BOOLEAN, units : Seq(Nat)])
  BY DriverAssumption
<1>2. Len(c) \in Nat /\ \A i \in 1..Len(c) : c[i] \in [binary : BOOLEAN, units : Seq(Nat)]
  <2> DEFINE T == [binary : BOOLEAN, units : Seq(Nat)]
  <2> HIDE DEF T
  <2>1. c \in Seq(T)
    BY <1>1 DEF T
  <2>2. Len(c) \in Nat /\ \A i \in 1..Len(c) : c[i] \in T
    BY <2>1
  <2> QED
    BY <2>2 DEF T
<1>3. \A s \in Seq(Nat) : /\ Len(s) \in Nat /\ DOMAIN s = 1..Len(s)
                         /\ \A k \in 1..Len(s) : s[k] \in Nat
  OBVIOUS
<1>4. \A i \in 1..Len(c) : c[i].binary \in BOOLEAN /\ c[i].units \in Seq(Nat)
  BY <1>2
<1> QED
  BY <1>2, <1>3, <1>4

\* A result to come that follows all of a list can be appended to it.
LEMMA AppendReports ==
  ASSUME NEW s \in Seq(Triples), NEW S, Reports(s, S),
         NEW x \in Triples, \A y \in S : Before(y, x)
  PROVE  /\ Append(s, x) \in Seq(Triples)
         /\ Len(Append(s, x)) = Len(s) + 1
         /\ Reports(Append(s, x), S \union {x})
<1> DEFINE t == Append(s, x)
<1>1. /\ t \in Seq(Triples) /\ Len(t) = Len(s) + 1 /\ Len(s) \in Nat
      /\ DOMAIN s = 1..Len(s) /\ DOMAIN t = 1..(Len(s) + 1)
      /\ \A k \in 1..Len(s) : t[k] = s[k]
      /\ t[Len(s) + 1] = x
  OBVIOUS
<1>2. {t[k] : k \in DOMAIN t} = S \union {x}
  BY <1>1 DEF Reports
<1>3. ASSUME NEW j \in DOMAIN t, NEW k \in DOMAIN t, j < k
      PROVE  Before(t[j], t[k])
  <2>1. j \in 1..Len(s) /\ t[j] = s[j] /\ s[j] \in S
    BY <1>1, <1>3 DEF Reports
  <2>2. CASE k \in 1..Len(s)
    BY <1>1, <1>3, <2>1, <2>2 DEF Reports
  <2>3. CASE k = Len(s) + 1
    BY <1>1, <2>1, <2>3
  <2> QED
    BY <1>1, <2>2, <2>3
<1> QED
  BY <1>1, <1>2, <1>3 DEF Reports

\* So can the first results of a unit.
LEMMA ConcatReports ==
  ASSUME NEW s \in Seq(Triples), NEW S, Reports(s, S),
         NEW w \in Seq(Triples), NEW T,
         \A n \in DOMAIN w : w[n] \in T,
         \A y \in T : \E n \in DOMAIN w : w[n] = y,
         \A a, b \in DOMAIN w : a < b => Before(w[a], w[b]),
         \A y \in S : \A z \in T : Before(y, z)
  PROVE  /\ s \o w \in Seq(Triples)
         /\ Len(s \o w) = Len(s) + Len(w)
         /\ Reports(s \o w, S \union T)
<1> DEFINE t == s \o w
<1>1. /\ t \in Seq(Triples) /\ Len(t) = Len(s) + Len(w) /\ Len(s) \in Nat /\ Len(w) \in Nat
      /\ DOMAIN s = 1..Len(s) /\ DOMAIN w = 1..Len(w) /\ DOMAIN t = 1..(Len(s) + Len(w))
      /\ \A j \in 1..Len(s) : t[j] = s[j]
      /\ \A j \in 1..(Len(s) + Len(w)) : j > Len(s) => t[j] = w[j - Len(s)]
  OBVIOUS
<1> HIDE DEF t
<1>2. \A j \in 1..Len(s) : t[j] \in S
  BY <1>1 DEF Reports
<1>3. \A j \in DOMAIN t : j \in 1..Len(s) \/ (j > Len(s) /\ j - Len(s) \in DOMAIN w)
  BY <1>1
<1>4. \A j \in DOMAIN t : j > Len(s) => t[j] = w[j - Len(s)] /\ t[j] \in T
  BY <1>1, <1>3
<1>5. {t[j] : j \in DOMAIN t} = S \union T
  <2>1. ASSUME NEW j \in DOMAIN t PROVE t[j] \in S \union T
    BY <1>2, <1>3, <1>4
  <2>2. ASSUME NEW y \in S PROVE \E j \in DOMAIN t : t[j] = y
    <3> PICK j \in DOMAIN s : s[j] = y
      BY DEF Reports
    <3> QED
      BY <1>1
  <2>3. ASSUME NEW y \in T PROVE \E j \in DOMAIN t : t[j] = y
    <3> PICK n \in DOMAIN w : w[n] = y
      OBVIOUS
    <3>1. Len(s) + n \in DOMAIN t /\ Len(s) + n > Len(s) /\ (Len(s) + n) - Len(s) = n
      BY <1>1
    <3> QED
      BY <1>4, <3>1
  <2> QED
    BY <2>1, <2>2, <2>3
<1>6. ASSUME NEW a \in DOMAIN t, NEW b \in DOMAIN t, a < b
      PROVE  Before(t[a], t[b])
  <2>1. CASE b \in 1..Len(s)
    BY <1>1, <1>6, <2>1 DEF Reports
  <2>2. CASE b > Len(s) /\ a \in 1..Len(s)
    BY <1>2, <1>4, <2>2
  <2>3. CASE a > Len(s)
    <3>1. /\ t[a] = w[a - Len(s)] /\ t[b] = w[b - Len(s)]
          /\ a - Len(s) \in DOMAIN w /\ b - Len(s) \in DOMAIN w
          /\ a - Len(s) < b - Len(s)
      BY <1>1, <1>3, <1>4, <1>6, <2>3
    <3> QED
      BY <3>1
  <2> QED
    BY <1>1, <1>3, <1>6, <2>1, <2>2, <2>3
<1>7. Reports(t, S \union T)
  BY <1>5, <1>6 DEF Reports
<1> QED
  BY <1>1, <1>7 DEF t

\* What a find is to return: the first elements of R, as many as the limit allows.
PrefixOf(s, R, limit) == Lists(s, R, limit, Before)

\* What lists everything before some place lists a prefix of everything.
LEMMA ReportsLists ==
  ASSUME NEW s \in Seq(Triples), NEW S, Reports(s, S), NEW R, S \subseteq R,
         NEW limit \in Nat, limit # 0 => Len(s) <= limit,
         S = R \/ (limit # 0 /\ Len(s) = limit),
         \A r \in R \ S : \A y \in S : Before(y, r)
  PROVE  PrefixOf(s, R, limit)
<1>1. \A k \in DOMAIN s : s[k] \in S
  BY DEF Reports
<1> QED
  BY <1>1 DEF PrefixOf, Lists, Reports

-----------------------------------------------------------------------------
(* The results that a search is after.                                     *)

\* A result of a search is in a unit of a file that the search covers.
LEMMA SearchedIs ==
  ASSUME StateOK
  PROVE  \A r : r \in Searched <=>
           \E i \in Files : \E k \in 1..Len(corpus[i].units) :
             \E n \in 1..corpus[i].units[k] :
               Allows(i) /\ ~Excluded(i) /\ r = <<i, k, n>>
<1>1. \A i \in Files : DOMAIN corpus[i].units = 1..Len(corpus[i].units)
  BY CorpusType DEF StateOK, Files
<1> QED
  BY <1>1 DEF Searched, Results

\* Its parts are numbers in their ranges.
LEMMA SearchedType ==
  ASSUME StateOK, NEW r \in Searched
  PROVE  /\ r \in Triples /\ r = <<r[1], r[2], r[3]>>
         /\ r[1] \in Files /\ r[1] \in Nat \ {0} /\ Allows(r[1]) /\ ~Excluded(r[1])
         /\ r[2] \in 1..Len(corpus[r[1]].units) /\ r[2] \in Nat \ {0}
         /\ r[3] \in 1..corpus[r[1]].units[r[2]] /\ r[3] \in Nat \ {0}
<1> PICK i \in Files : \E k \in 1..Len(corpus[i].units) : \E n \in 1..corpus[i].units[k] :
       Allows(i) /\ ~Excluded(i) /\ r = <<i, k, n>>
  BY SearchedIs
<1> PICK k \in 1..Len(corpus[i].units) : \E n \in 1..corpus[i].units[k] :
       Allows(i) /\ ~Excluded(i) /\ r = <<i, k, n>>
  OBVIOUS
<1>1. PICK n \in 1..corpus[i].units[k] :
        Allows(i) /\ ~Excluded(i) /\ r = <<i, k, n>>
  OBVIOUS
<1>2. /\ i \in Nat \ {0} /\ k \in Nat \ {0} /\ n \in Nat \ {0}
  BY CorpusType DEF StateOK, Files
<1>3. r[1] = i /\ r[2] = k /\ r[3] = n
  BY <1>1
<1> QED
  BY <1>1, <1>2, <1>3 DEF Triples

\* The request bounds the search by numbers.
LEMMA Bounds ==
  ASSUME StateOK
  PROVE  /\ Max \in Nat /\ Limit \in Nat
         /\ Objective \in Objectives
         /\ Len(corpus) \in Nat
BY DriverAssumption, CorpusType DEF StateOK, Max, Limit, Objective, Objectives

\* Two results are in one order or the other.
LEMMA Ordered ==
  ASSUME NEW r \in Triples, NEW s \in Triples
  PROVE  Before(r, s) \/ r = s \/ Before(s, r)
BY DEF Triples, Before

\* What has been passed comes before what has not.
LEMMA PassedBefore ==
  ASSUME StateOK, NEW r \in Searched, NEW y \in Searched, Passed(y), ~Passed(r)
  PROVE  Before(y, r)
BY SearchedType DEF Passed, Before, StateOK

\* The search stays the same while the corpus, the request and the probe do.
LEMMA SameSearch ==
  ASSUME UNCHANGED <<corpus, req, probe>>
  PROVE  /\ Searched' = Searched /\ Limit' = Limit /\ Max' = Max
         /\ Files' = Files /\ Exact' = Exact /\ Objective' = Objective
         /\ \A i : Allows(i)' = Allows(i) /\ Excluded(i)' = Excluded(i)
BY DEF Searched, Results, Limit, Max, Files, Exact, Objective, Allows, Excluded

\* A search that moves to another place, having listed all that it passed.
LEMMA MoveKeeps ==
  ASSUME DriverInv, StateOK',
         pc' \in {"file", "unit", "scan"},
         UNCHANGED <<corpus, req, probe>>,
         Reports(out', {r \in Searched : Passed(r)'}),
         Limit # 0 => Len(out') < Limit,
         f' # 0,
         pc' # "file" => u' # 0 /\ Allows(f') /\ ~Excluded(f'),
         pc' = "scan" => h' # 0 /\ req.path \notin ByUnit
  PROVE  DriverInv'
<1>1. /\ Searched' = Searched /\ Limit' = Limit
      /\ \A i : Allows(i)' = Allows(i) /\ Excluded(i)' = Excluded(i)
  BY SameSearch
<1>2. {r \in Searched : Passed(r)}' = {r \in Searched : Passed(r)'}
  BY <1>1
<1>3. Reports(out, {r \in Searched : Passed(r)})'
  BY <1>2 DEF Reports, Before
<1>4. (Allows(f) /\ ~Excluded(f))' = (Allows(f') /\ ~Excluded(f'))
  BY DEF Allows, Excluded
<1>5. SearchAt'
  BY <1>1, <1>3, <1>4 DEF SearchAt
<1>6. FindAnswer'
  BY DEF FindAnswer
<1> QED
  BY <1>5, <1>6 DEF DriverInv

\* The same when it only moves past places without results.
LEMMA PassKeeps ==
  ASSUME DriverInv, StateOK',
         pc \in {"file", "unit", "scan"}, pc' \in {"file", "unit", "scan"},
         UNCHANGED <<corpus, req, probe, out>>,
         \A r \in Searched : Passed(r)' <=> Passed(r),
         f' # 0,
         pc' # "file" => u' # 0 /\ Allows(f') /\ ~Excluded(f'),
         pc' = "scan" => h' # 0 /\ req.path \notin ByUnit
  PROVE  DriverInv'
<1>1. Reports(out, {r \in Searched : Passed(r)}) /\ (Limit # 0 => Len(out) < Limit)
  BY DEF DriverInv, SearchAt
<1>2. {r \in Searched : Passed(r)'} = {r \in Searched : Passed(r)}
  OBVIOUS
<1>3. Reports(out', {r \in Searched : Passed(r)'})
  BY <1>1, <1>2
<1> QED
  BY <1>1, <1>3, MoveKeeps

\* The end of a find, with nothing or with what it was to list.
LEMMA FoundKeeps ==
  ASSUME DriverInv, NEW c \in BOOLEAN, NEW results \in Seq(Triples),
         Found(c, results),
         ~c /\ Max # 0 => Len(results) <= Max,
         ~c /\ Exact => PrefixOf(results, Searched, Limit)
  PROVE  DriverInv'
<1>1. UNCHANGED <<corpus, req, probe>>
  BY DEF Found
<1>2. /\ Searched' = Searched /\ Limit' = Limit /\ Exact' = Exact
  BY <1>1, SameSearch
<1>3. ~c => out' = results
  <2>1. ASSUME Max # 0, ~c PROVE SubSeq(results, 1, Lesser(Max, Len(results))) = results
    <3>1. Max \in Nat /\ Len(results) \in Nat /\ Len(results) <= Max
      BY <2>1, Bounds DEF DriverInv
    <3>2. Lesser(Max, Len(results)) = Len(results)
      BY <3>1 DEF Lesser
    <3>3. SubSeq(results, 1, Len(results)) = results
      OBVIOUS
    <3> QED
      BY <3>2, <3>3
  <2> QED
    BY <2>1 DEF Found, Prefix
<1>4. c => out' = <<>>
  BY DEF Found
<1>5. out' \in Seq(Triples)
  <2>1. <<>> \in Seq(Triples)
    OBVIOUS
  <2> QED
    BY <1>3, <1>4, <2>1
<1>6. StateOK'
  BY <1>1, <1>5 DEF Found, StateOK, DriverInv
<1>7. SearchAt'
  BY DEF Found, SearchAt
<1>8. FindAnswer'
  <2>1. SUFFICES ASSUME ~c, Exact PROVE PrefixOf(out', Searched, Limit)
    BY <1>2 DEF FindAnswer, Found, PrefixOf, Lists, Before
  <2> QED
    BY <1>3, <2>1
<1> QED
  BY <1>1, <1>6, <1>7, <1>8 DEF DriverInv

\* A cancelled find.
LEMMA CancelKeeps ==
  ASSUME DriverInv, Cancel
  PROVE  DriverInv'
BY FoundKeeps DEF Cancel, DriverInv, StateOK

\* A find that is full, or that has come to the end, lists what it was to list.
LEMMA EndLists ==
  ASSUME StateOK, NEW s \in Seq(Triples), NEW S, S \subseteq Searched, Reports(s, S),
         \A r \in Searched \ S : \A y \in S : Before(y, r),
         Limit # 0 => Len(s) <= Limit,
         S = Searched \/ (Limit # 0 /\ Len(s) = Limit)
  PROVE  PrefixOf(s, Searched, Limit)
BY Bounds, ReportsLists

-----------------------------------------------------------------------------
(* The steps of a find.                                                    *)

LEMMA EnterKeeps ==
  ASSUME DriverInv, Enter
  PROVE  DriverInv'
<1>1. CASE Cancel
  BY <1>1, CancelKeeps
<1>2. CASE pc' = "file" /\ f' = 1 /\ out' = <<>> /\ UNCHANGED <<probe, u, h>> /\ Quiet
  <2>1. StateOK'
    BY <1>2 DEF DriverInv, StateOK, Quiet
  <2>2. {r \in Searched : Passed(r)'} = {}
    <3> SUFFICES ASSUME NEW r \in Searched PROVE ~Passed(r)'
      OBVIOUS
    <3> QED
      BY <1>2, SearchedType DEF Passed, DriverInv
  <2>3. Reports(out', {r \in Searched : Passed(r)'})
    BY <1>2, <2>2 DEF Reports
  <2>4. Limit # 0 => Len(out') < Limit
    BY <1>2, Bounds DEF DriverInv
  <2>5. pc' = "file" /\ f' # 0 /\ UNCHANGED <<corpus, req, probe>>
    BY <1>2 DEF Quiet
  <2> QED
    BY <2>1, <2>3, <2>4, <2>5, MoveKeeps
<1> QED
  BY <1>1, <1>2 DEF Enter

\* The next file, when the current one holds nothing more.
LEMMA NextFileKeeps ==
  ASSUME DriverInv, NextFile, pc \in {"file", "unit"},
         \A r \in Searched : r[1] = f => Passed(r)
  PROVE  DriverInv'
<1>1. StateOK'
  BY DEF NextFile, Quiet, DriverInv, StateOK
<1>2. ASSUME NEW r \in Searched PROVE Passed(r)' <=> Passed(r)
  <2>1. r[1] \in Nat /\ f \in Nat
    BY SearchedType DEF DriverInv, StateOK
  <2>2. Passed(r)' <=> r[1] < f + 1
    BY DEF Passed, NextFile
  <2>3. Passed(r) => r[1] <= f
    BY <2>1 DEF Passed
  <2>4. r[1] < f => Passed(r)
    BY DEF Passed
  <2> QED
    BY <2>1, <2>2, <2>3, <2>4
<1>3. f' # 0
  BY DEF NextFile, DriverInv, StateOK
<1> QED
  BY <1>1, <1>2, <1>3, PassKeeps DEF NextFile, Quiet

LEMMA PassFileKeeps ==
  ASSUME DriverInv, PassFile
  PROVE  DriverInv'
<1>1. ASSUME NEW r \in Searched, r[1] = f PROVE FALSE
  <2>1. /\ Allows(f) /\ f \in Files /\ r[2] \in 1..Len(corpus[f].units)
        /\ r[3] \in 1..corpus[f].units[r[2]]
    BY <1>1, SearchedType DEF DriverInv
  <2>2. Hitless(f)
    BY <2>1 DEF PassFile
  <2>3. DOMAIN corpus[f].units = 1..Len(corpus[f].units)
    BY <2>1, CorpusType DEF DriverInv, StateOK, Files
  <2> QED
    BY <2>1, <2>2, <2>3 DEF Hitless
<1> QED
  BY <1>1, NextFileKeeps DEF PassFile

LEMMA OpenFileKeeps ==
  ASSUME DriverInv, OpenFile
  PROVE  DriverInv'
<1>1. CASE Excluded(f)
  <2>1. ASSUME NEW r \in Searched, r[1] = f PROVE FALSE
    BY <1>1, <2>1, SearchedType DEF DriverInv
  <2> QED
    BY <1>1, <2>1, NextFileKeeps DEF OpenFile
<1>2. CASE ~Excluded(f)
  <2>1. pc = "file" /\ pc' = "unit" /\ u' = 1 /\ f' = f /\ f \in Files /\ Allows(f)
        /\ UNCHANGED <<probe, f, h, out>> /\ Quiet
    BY <1>2 DEF OpenFile
  <2>2. StateOK'
    BY <2>1 DEF DriverInv, StateOK, Quiet, Files
  <2>3. ASSUME NEW r \in Searched PROVE Passed(r)' <=> Passed(r)
    <3>1. r[2] \in Nat \ {0}
      BY SearchedType DEF DriverInv
    <3> QED
      BY <2>1, <3>1 DEF Passed
  <2>4. f' # 0
    BY <2>1 DEF DriverInv, SearchAt
  <2> QED
    BY <1>2, <2>1, <2>2, <2>3, <2>4, PassKeeps DEF Quiet
<1> QED
  BY <1>1, <1>2

LEMMA LastFileKeeps ==
  ASSUME DriverInv, LastFile
  PROVE  DriverInv'
<1>0. pc = "file" /\ f \notin Files /\ Found(FALSE, out)
  BY DEF LastFile
<1>1. /\ StateOK
      /\ Reports(out, {r \in Searched : Passed(r)})
      /\ Limit # 0 => Len(out) < Limit
      /\ f # 0 /\ f \in Nat /\ out \in Seq(Triples) /\ Len(out) \in Nat
  BY <1>0 DEF DriverInv, SearchAt, StateOK
<1>2. \A r \in Searched : Passed(r)
  <2> SUFFICES ASSUME NEW r \in Searched PROVE r[1] < f
    BY DEF Passed
  <2> QED
    BY <1>0, <1>1, Bounds, SearchedType DEF Files
<1>3. Reports(out, Searched)
  <2>1. {r \in Searched : Passed(r)} = Searched
    BY <1>2
  <2> QED
    BY <1>1, <2>1
<1>4. /\ Max \in Nat /\ Limit \in Nat
      /\ Max # 0 => Limit # 0 /\ Limit <= Max
  BY <1>1, Bounds DEF Limit
<1>5. PrefixOf(out, Searched, Limit)
  <2>1. /\ Searched \subseteq Searched
        /\ \A r \in Searched \ Searched : \A y \in Searched : Before(y, r)
        /\ Limit # 0 => Len(out) <= Limit
    BY <1>1, <1>4
  <2> QED
    BY <1>1, <1>3, <2>1, EndLists
<1>6. Max # 0 => Len(out) <= Max
  BY <1>1, <1>4
<1> QED
  BY <1>0, <1>1, <1>5, <1>6, FoundKeeps

-----------------------------------------------------------------------------
(* The steps within a file.                                                *)

\* What is known of the current file, its units and what has been listed.
LEMMA AtUnit ==
  ASSUME DriverInv, pc \in {"unit", "scan"}
  PROVE  /\ StateOK /\ f \in Files /\ f \in Nat \ {0} /\ u \in Nat \ {0} /\ h \in Nat
         /\ Units = corpus[f].units /\ DOMAIN Units = 1..Len(Units) /\ Len(Units) \in Nat
         /\ \A k \in DOMAIN Units : Units[k] \in Nat
         /\ Allows(f) /\ ~Excluded(f)
         /\ out \in Seq(Triples) /\ Len(out) \in Nat
         /\ Reports(out, {r \in Searched : Passed(r)})
         /\ Limit # 0 => Len(out) < Limit
         /\ Max \in Nat /\ Limit \in Nat
         /\ Max # 0 => Limit # 0 /\ Limit <= Max
<1>1. /\ StateOK /\ f \in Files /\ f \in Nat \ {0} /\ u \in Nat \ {0} /\ h \in Nat
      /\ Allows(f) /\ ~Excluded(f)
      /\ out \in Seq(Triples) /\ Len(out) \in Nat
      /\ Reports(out, {r \in Searched : Passed(r)})
      /\ Limit # 0 => Len(out) < Limit
  BY DEF DriverInv, SearchAt, StateOK
<1>2. /\ DOMAIN Units = 1..Len(Units) /\ Len(Units) \in Nat
      /\ \A k \in DOMAIN Units : Units[k] \in Nat
  BY <1>1, CorpusType DEF StateOK, Files, Units
<1>3. /\ Max \in Nat /\ Limit \in Nat
      /\ Max # 0 => Limit # 0 /\ Limit <= Max
  BY <1>1, Bounds DEF Limit
<1> QED
  BY <1>1, <1>2, <1>3 DEF Units

\* The next unit, when all of the current one has been listed.
LEMMA NextUnitKeeps ==
  ASSUME DriverInv, pc \in {"unit", "scan"},
         NEW results \in Seq(Triples), NextUnit(results),
         Reports(results, {r \in Searched : Passed(r) \/ (r[1] = f /\ r[2] = u)}),
         Limit # 0 => Len(results) < Limit
  PROVE  DriverInv'
<1>1. /\ pc' = "unit" /\ u' = u + 1 /\ out' = results /\ f' = f /\ h' = h
      /\ UNCHANGED <<corpus, req, probe, cancelled, answer>>
  BY DEF NextUnit, Quiet
<1>2. StateOK /\ f \in Files /\ f # 0 /\ f \in Nat /\ u \in Nat /\ Allows(f) /\ ~Excluded(f)
  BY AtUnit
<1>3. StateOK'
  BY <1>1, <1>2 DEF StateOK, Files
<1>4. ASSUME NEW r \in Searched
      PROVE  Passed(r)' <=> Passed(r) \/ (r[1] = f /\ r[2] = u)
  <2>1. r[1] \in Nat /\ r[2] \in Nat
    BY <1>2, SearchedType
  <2>2. Passed(r)' <=> r[1] < f \/ (r[1] = f /\ r[2] < u + 1)
    BY <1>1 DEF Passed
  <2>3. Passed(r) => r[1] < f \/ (r[1] = f /\ (r[2] < u \/ r[2] = u))
    BY DEF Passed
  <2>4. r[1] < f \/ (r[1] = f /\ r[2] < u) => Passed(r)
    BY DEF Passed
  <2> QED
    BY <1>2, <2>1, <2>2, <2>3, <2>4
<1>5. {r \in Searched : Passed(r)'} =
        {r \in Searched : Passed(r) \/ (r[1] = f /\ r[2] = u)}
  BY <1>4
<1>6. Reports(out', {r \in Searched : Passed(r)'})
  BY <1>1, <1>5
<1>7. u' # 0
  BY <1>1, <1>2
<1> QED
  BY <1>1, <1>2, <1>3, <1>6, <1>7, MoveKeeps

LEMMA PassUnitKeeps ==
  ASSUME DriverInv, PassUnit
  PROVE  DriverInv'
<1>1. /\ StateOK /\ u \in DOMAIN Units /\ Units[u] = 0 /\ pc = "unit" /\ NextUnit(out)
      /\ out \in Seq(Triples) /\ Units = corpus[f].units
      /\ Reports(out, {r \in Searched : Passed(r)})
      /\ Limit # 0 => Len(out) < Limit
  BY AtUnit DEF PassUnit
<1>2. ASSUME NEW r \in Searched, r[1] = f, r[2] = u PROVE FALSE
  <2>1. r[3] \in 1..corpus[f].units[u]
    BY <1>1, <1>2, SearchedType
  <2> QED
    BY <1>1, <2>1
<1>3. {r \in Searched : Passed(r) \/ (r[1] = f /\ r[2] = u)} = {r \in Searched : Passed(r)}
  BY <1>2
<1> QED
  BY <1>1, <1>3, NextUnitKeeps

\* The first results of a unit, taken at once.
LEMMA TakenReports ==
  ASSUME DriverInv, pc = "unit", u \in DOMAIN Units,
         NEW m \in 0..Units[u]
  PROVE  LET results == out \o [k \in 1..m |-> <<f, u, k>>]
         IN /\ results \in Seq(Triples)
            /\ Len(results) = Len(out) + m
            /\ Reports(results, {r \in Searched : Passed(r) \/ (r[1] = f /\ r[2] = u /\ r[3] <= m)})
<1> DEFINE w == [k \in 1..m |-> <<f, u, k>>]
           S == {r \in Searched : Passed(r)}
           T == {r \in Searched : r[1] = f /\ r[2] = u /\ r[3] <= m}
<1>1. /\ StateOK /\ f \in Files /\ f \in Nat \ {0} /\ u \in Nat \ {0} /\ Allows(f) /\ ~Excluded(f)
      /\ u \in 1..Len(corpus[f].units) /\ Units[u] \in Nat /\ Units = corpus[f].units
      /\ out \in Seq(Triples) /\ Reports(out, S) /\ m \in Nat
  BY AtUnit
<1>2. w \in Seq(Triples) /\ Len(w) = m /\ DOMAIN w = 1..m
  <2>1. \A n \in 1..m : <<f, u, n>> \in Triples
    BY <1>1 DEF Triples
  <2>2. w \in [1..m -> Triples]
    BY <2>1
  <2> QED
    BY <1>1, <2>2
<1>3. ASSUME NEW n \in DOMAIN w PROVE w[n] \in T
  <2>1. n \in 1..corpus[f].units[u] /\ n <= m /\ w[n] = <<f, u, n>>
    BY <1>1, <1>2, <1>3
  <2>2. <<f, u, n>> \in Searched
    BY <1>1, <2>1, SearchedIs
  <2> QED
    BY <2>1, <2>2
<1>4. ASSUME NEW y \in T PROVE \E n \in DOMAIN w : w[n] = y
  <2>1. y = <<f, u, y[3]>> /\ y[3] \in Nat \ {0} /\ y[3] <= m
    BY <1>1, SearchedType
  <2>2. y[3] \in 1..m
    BY <1>1, <2>1
  <2> QED
    BY <1>2, <2>1, <2>2
<1>5. ASSUME NEW a \in DOMAIN w, NEW b \in DOMAIN w, a < b PROVE Before(w[a], w[b])
  <2>1. w[a] = <<f, u, a>> /\ w[b] = <<f, u, b>>
    BY <1>2
  <2> HIDE DEF w
  <2> QED
    BY <1>5, <2>1 DEF Before
<1>6. ASSUME NEW y \in S, NEW z \in T PROVE Before(y, z)
  BY <1>1, SearchedType DEF Passed, Before
<1>7. S \union T =
        {r \in Searched : Passed(r) \/ (r[1] = f /\ r[2] = u /\ r[3] <= m)}
  OBVIOUS
<1> HIDE DEF S, T, w
<1>8. /\ out \o w \in Seq(Triples) /\ Len(out \o w) = Len(out) + m
      /\ Reports(out \o w, S \union T)
  BY <1>1, <1>2, <1>3, <1>4, <1>5, <1>6, ConcatReports
<1> QED
  BY <1>7, <1>8 DEF w

\* Whatever a unit still holds comes after what was taken of it.
LEMMA TakenBefore ==
  ASSUME DriverInv, pc = "unit", NEW m \in Nat,
         NEW r \in Searched, ~(Passed(r) \/ (r[1] = f /\ r[2] = u /\ r[3] <= m)),
         NEW y \in Searched, Passed(y) \/ (y[1] = f /\ y[2] = u /\ y[3] <= m)
  PROVE  Before(y, r)
<1>1. StateOK /\ f \in Nat /\ u \in Nat
  BY AtUnit
<1>2. CASE Passed(y)
  BY <1>1, <1>2, PassedBefore
<1>3. CASE y[1] = f /\ y[2] = u /\ y[3] <= m
  <2>1. /\ r[1] \in Nat /\ r[2] \in Nat /\ r[3] \in Nat /\ y[3] \in Nat
        /\ ~(r[1] < f) /\ ~(r[1] = f /\ r[2] < u)
    BY <1>1, SearchedType DEF Passed
  <2> QED
    BY <1>1, <1>3, <2>1 DEF Before
<1> QED
  BY <1>2, <1>3

\* regex_find_all takes all of a unit, or as much as there is room for.
LEMMA TakenIs ==
  ASSUME DriverInv, pc = "unit", u \in DOMAIN Units
  PROVE  /\ Taken(Units[u]) \in 0..Units[u]
         /\ Limit = 0 => Taken(Units[u]) = Units[u]
         /\ Max # 0 => Len(out) + Taken(Units[u]) <= Max
         /\ Objective # "FirstHit" /\ Max # 0 =>
              Taken(Units[u]) = Units[u] \/ Len(out) + Taken(Units[u]) = Max
<1>1. /\ Units[u] \in Nat /\ Len(out) \in Nat /\ Max \in Nat /\ Limit \in Nat
      /\ Limit # 0 => Len(out) < Limit
      /\ Max # 0 => Limit # 0 /\ Limit <= Max
  BY AtUnit
<1>2. CASE Objective = "FirstHit"
  <2>1. Remain = 1 /\ Limit = 1
    BY <1>2 DEF Remain, Limit
  <2>2. Taken(Units[u]) = IF Units[u] < 1 THEN Units[u] ELSE 1
    BY <2>1 DEF Taken, Lesser
  <2> QED
    BY <1>1, <1>2, <2>1, <2>2
<1>3. CASE Objective # "FirstHit" /\ Max # 0
  <2>1. Remain = Max - Len(out) /\ Limit = Max
    BY <1>3 DEF Remain, Limit
  <2>2. Remain # 0 /\ Remain \in Nat
    BY <1>1, <1>3, <2>1
  <2>3. Taken(Units[u]) = IF Units[u] < Remain THEN Units[u] ELSE Remain
    BY <2>2 DEF Taken, Lesser
  <2> QED
    BY <1>1, <1>3, <2>1, <2>2, <2>3
<1>4. CASE Objective # "FirstHit" /\ Max = 0
  <2>1. Remain = 0 /\ Limit = 0
    BY <1>4 DEF Remain, Limit
  <2>2. Taken(Units[u]) = Units[u]
    BY <2>1 DEF Taken
  <2> QED
    BY <1>1, <1>4, <2>1, <2>2
<1> QED
  BY <1>2, <1>3, <1>4

LEMMA VerifyUnitKeeps ==
  ASSUME DriverInv, VerifyUnit
  PROVE  DriverInv'
<1> DEFINE m       == Taken(Units[u])
           results == out \o [k \in 1..m |-> <<f, u, k>>]
           S       == {r \in Searched : Passed(r) \/ (r[1] = f /\ r[2] = u /\ r[3] <= m)}
<1>1. /\ pc = "unit" /\ u \in DOMAIN Units /\ req.path \in ByUnit
      /\ IF Reached(Len(results)) THEN Found(FALSE, results) ELSE NextUnit(results)
  BY DEF VerifyUnit
<1>2. /\ StateOK /\ Units[u] \in Nat /\ Max \in Nat /\ Limit \in Nat /\ Len(out) \in Nat
      /\ Units = corpus[f].units
  BY <1>1, AtUnit
<1>3. /\ m \in 0..Units[u] /\ m \in Nat
      /\ Limit = 0 => m = Units[u]
      /\ Max # 0 => Len(out) + m <= Max
      /\ Objective # "FirstHit" /\ Max # 0 => m = Units[u] \/ Len(out) + m = Max
  BY <1>1, <1>2, TakenIs
<1>4. results \in Seq(Triples) /\ Len(results) = Len(out) + m /\ Reports(results, S)
  <2> HIDE DEF m
  <2> QED
    BY <1>1, <1>3, TakenReports
<1> HIDE DEF m, results
<1>5. CASE Reached(Len(results))
  <2>1. ASSUME Exact PROVE PrefixOf(results, Searched, Limit)
    <3>1. Objective # "FirstHit" /\ Max # 0 /\ Len(results) = Max /\ Limit = Max
      <4>1. req.objective = "Exhaustive"
        BY <1>1, <2>1 DEF Exact
      <4>2. Objective # "FirstHit"
        BY <4>1 DEF Objective
      <4>3. Max # 0 /\ Len(results) >= Max
        BY <1>5, <4>2 DEF Reached
      <4> QED
        BY <1>2, <1>3, <1>4, <4>2, <4>3 DEF Limit
    <3>2. \A r \in Searched \ S : \A y \in S : Before(y, r)
      BY <1>1, <1>3, TakenBefore
    <3>3. S \subseteq Searched
      OBVIOUS
    <3> HIDE DEF S
    <3> QED
      BY <1>2, <1>4, <3>1, <3>2, <3>3, EndLists
  <2> QED
    BY <1>1, <1>3, <1>4, <1>5, <2>1, FoundKeeps
<1>6. CASE ~Reached(Len(results))
  <2>1. /\ Objective # "FirstHit"
        /\ Max # 0 => Len(results) < Max
    BY <1>2, <1>3, <1>4, <1>6 DEF Reached
  <2>2. m = Units[u]
    BY <1>2, <1>3, <1>4, <2>1 DEF Limit
  <2>3. Limit # 0 => Len(results) < Limit
    BY <2>1 DEF Limit
  <2>4. ASSUME NEW r \in Searched, r[1] = f, r[2] = u PROVE r[3] <= m
    <3>1. r[3] \in 1..corpus[f].units[u]
      BY <1>2, <2>4, SearchedType
    <3> QED
      BY <1>2, <2>2, <3>1
  <2>5. S = {r \in Searched : Passed(r) \/ (r[1] = f /\ r[2] = u)}
    BY <2>4
  <2> QED
    BY <1>1, <1>4, <1>6, <2>3, <2>5, NextUnitKeeps
<1> QED
  BY <1>5, <1>6

LEMMA ScanUnitKeeps ==
  ASSUME DriverInv, ScanUnit
  PROVE  DriverInv'
<1>1. /\ pc = "unit" /\ u \in DOMAIN Units /\ req.path \notin ByUnit
      /\ pc' = "scan" /\ h' = 1 /\ UNCHANGED <<corpus, req, probe, f, u, out, cancelled, answer>>
  BY DEF ScanUnit, Quiet
<1>2. StateOK /\ f # 0 /\ u # 0 /\ Allows(f) /\ ~Excluded(f)
  BY <1>1, AtUnit
<1>3. StateOK'
  BY <1>1, <1>2 DEF StateOK, Files, Units
<1>4. ASSUME NEW r \in Searched PROVE Passed(r)' <=> Passed(r)
  <2>1. r[3] \in Nat \ {0}
    BY <1>2, SearchedType
  <2> QED
    BY <1>1, <2>1 DEF Passed
<1> QED
  BY <1>1, <1>2, <1>3, <1>4, PassKeeps

LEMMA LastUnitKeeps ==
  ASSUME DriverInv, LastUnit
  PROVE  DriverInv'
<1>1. pc = "unit" /\ u \notin DOMAIN Units /\ NextFile
  BY DEF LastUnit
<1>2. /\ StateOK /\ u \in Nat \ {0} /\ Units = corpus[f].units
      /\ DOMAIN Units = 1..Len(Units) /\ Len(Units) \in Nat
  BY <1>1, AtUnit
<1>3. ASSUME NEW r \in Searched, r[1] = f PROVE Passed(r)
  <2>1. r[2] \in 1..Len(corpus[f].units)
    BY <1>2, <1>3, SearchedType
  <2>2. r[2] < u
    BY <1>1, <1>2, <2>1
  <2> QED
    BY <1>1, <1>3, <2>2 DEF Passed
<1> QED
  BY <1>1, <1>3, NextFileKeeps

-----------------------------------------------------------------------------
(* The steps within a unit.                                                *)

LEMMA PushKeeps ==
  ASSUME DriverInv, Push
  PROVE  DriverInv'
<1> DEFINE x       == <<f, u, h>>
           results == Append(out, x)
           S       == {r \in Searched : Passed(r)}
<1>1. /\ pc = "scan" /\ h <= Units[u]
      /\ IF Reached(Len(results)) THEN Found(FALSE, results)
         ELSE /\ h' = h + 1 /\ out' = results
              /\ UNCHANGED <<pc, probe, f, u>> /\ Quiet
  BY DEF Push
<1>2. /\ StateOK /\ f \in Files /\ f \in Nat \ {0} /\ u \in Nat \ {0}
      /\ Allows(f) /\ ~Excluded(f) /\ Units = corpus[f].units
      /\ out \in Seq(Triples) /\ Len(out) \in Nat /\ Reports(out, S)
      /\ Limit # 0 => Len(out) < Limit
      /\ Max \in Nat /\ Limit \in Nat
      /\ Max # 0 => Limit # 0 /\ Limit <= Max
  BY <1>1, AtUnit
<1>3. /\ u \in 1..Len(corpus[f].units) /\ Units[u] \in Nat /\ h \in Nat \ {0}
      /\ req.path \notin ByUnit /\ u \in DOMAIN Units
  BY <1>1, <1>2, AtUnit DEF DriverInv, SearchAt, StateOK
<1>4. x \in Searched /\ x \in Triples
  <2>1. h \in 1..corpus[f].units[u]
    BY <1>1, <1>2, <1>3
  <2> QED
    BY <1>2, <1>3, <2>1, SearchedIs DEF Triples
<1>5. ASSUME NEW y \in S PROVE Before(y, x)
  BY <1>1, <1>2, <1>3, SearchedType DEF Passed, Before
<1>6. /\ results \in Seq(Triples) /\ Len(results) = Len(out) + 1
      /\ Reports(results, S \union {x})
  <2> HIDE DEF S, x
  <2> QED
    BY <1>2, <1>4, <1>5, AppendReports
<1>7. ASSUME NEW r \in Searched
      PROVE  r \in S \union {x} <=>
               \/ r[1] < f
               \/ r[1] = f /\ r[2] < u
               \/ r[1] = f /\ r[2] = u /\ r[3] < h + 1
  <2>1. r[1] \in Nat /\ r[2] \in Nat /\ r[3] \in Nat /\ r = <<r[1], r[2], r[3]>>
    BY <1>2, SearchedType
  <2>2. r = x <=> r[1] = f /\ r[2] = u /\ r[3] = h
    BY <2>1
  <2>3. r[3] < h + 1 <=> r[3] < h \/ r[3] = h
    BY <1>3, <2>1
  <2> QED
    BY <1>1, <2>2, <2>3 DEF Passed
<1>8. CASE Reached(Len(results))
  <2>1. Limit # 0 /\ Len(results) = Limit
    BY <1>2, <1>6, <1>8 DEF Reached, Limit
  <2>2. \A r \in Searched \ (S \union {x}) : \A y \in S \union {x} : Before(y, r)
    <3> SUFFICES ASSUME NEW r \in Searched \ (S \union {x}), NEW y \in S \union {x}
                 PROVE  Before(y, r)
      OBVIOUS
    <3>1. r \in Triples /\ y \in Triples /\ y \in Searched /\ r # x
      BY <1>2, <1>4, SearchedType
    <3>2. CASE y \in S
      BY <1>2, <3>1, <3>2, PassedBefore
    <3>3. CASE y = x
      <4>1. Before(x, r) \/ Before(r, x)
        BY <3>1, <1>4, Ordered
      <4>2. ~Before(r, x)
        BY <1>1 DEF Passed, Before
      <4> QED
        BY <3>3, <4>1, <4>2
    <3> QED
      BY <3>2, <3>3
  <2>3. S \union {x} \subseteq Searched
    BY <1>4
  <2>4. PrefixOf(results, Searched, Limit)
    <3> HIDE DEF S, x, results
    <3> QED
      BY <1>2, <1>6, <2>1, <2>2, <2>3, EndLists
  <2>5. Max # 0 => Len(results) <= Max
    BY <1>2, <1>6, <2>1
  <2> HIDE DEF results
  <2> QED
    BY <1>1, <1>6, <1>8, <2>4, <2>5, FoundKeeps
<1>9. CASE ~Reached(Len(results))
  <2>1. /\ pc' = "scan" /\ h' = h + 1 /\ out' = results /\ f' = f /\ u' = u
        /\ UNCHANGED <<corpus, req, probe, cancelled, answer>>
    BY <1>1, <1>9 DEF Quiet
  <2>2. StateOK'
    BY <1>2, <1>3, <1>6, <2>1 DEF StateOK, Files, Units
  <2>3. Limit # 0 => Len(out') < Limit
    BY <1>2, <1>6, <1>9, <2>1 DEF Reached, Limit
  <2>4. {r \in Searched : Passed(r)'} = S \union {x}
    <3>1. \A r \in Searched : Passed(r)' <=>
               \/ r[1] < f
               \/ r[1] = f /\ r[2] < u
               \/ r[1] = f /\ r[2] = u /\ r[3] < h + 1
      BY <2>1 DEF Passed
    <3> QED
      BY <1>4, <1>7, <3>1
  <2>5. Reports(out', {r \in Searched : Passed(r)'})
    BY <1>6, <2>1, <2>4
  <2>6. h' # 0
    BY <1>3, <2>1
  <2> QED
    BY <1>2, <1>3, <2>1, <2>2, <2>3, <2>5, <2>6, MoveKeeps
<1> QED
  BY <1>8, <1>9

LEMMA LastResultKeeps ==
  ASSUME DriverInv, LastResult
  PROVE  DriverInv'
<1>1. /\ pc = "scan" /\ h > Units[u] /\ NextUnit(out) /\ StateOK
      /\ out \in Seq(Triples) /\ Units = corpus[f].units /\ h \in Nat
      /\ Reports(out, {r \in Searched : Passed(r)})
      /\ Limit # 0 => Len(out) < Limit
  BY AtUnit DEF LastResult
<1>2. Units[u] \in Nat
  BY <1>1, AtUnit DEF StateOK
<1>3. ASSUME NEW r \in Searched, r[1] = f, r[2] = u PROVE Passed(r)
  <2>1. r[3] \in 1..corpus[f].units[u]
    BY <1>1, <1>3, SearchedType
  <2>2. r[3] < h
    BY <1>1, <1>2, <2>1
  <2> QED
    BY <1>1, <1>3, <2>2 DEF Passed
<1>4. {r \in Searched : Passed(r) \/ (r[1] = f /\ r[2] = u)} = {r \in Searched : Passed(r)}
  BY <1>3
<1> QED
  BY <1>1, <1>4, NextUnitKeeps

-----------------------------------------------------------------------------
(* The theorems.                                                           *)

\* A search has not begun before the first step.
LEMMA InitKeeps == Init => DriverInv
<1>1. ASSUME Init PROVE StateOK
  <2>1. <<>> \in Seq(Triples)
    OBVIOUS
  <2> QED
    BY <1>1, <2>1 DEF Init, StateOK
<1> QED
  BY <1>1 DEF Init, DriverInv, SearchAt, FindAnswer

\* Every step of find and files keeps the invariant.
LEMMA StepKeeps ==
  ASSUME DriverInv, [Next]_vars
  PROVE  DriverInv'
<1>1. CASE Call
  <2>1. StateOK'
    BY <1>1 DEF Call, Quiet, DriverInv, StateOK
  <2> QED
    BY <1>1, <2>1 DEF Call, Quiet, DriverInv, SearchAt, FindAnswer, StateOK, Objectives
<1>2. CASE Find
  BY <1>2, EnterKeeps, PassFileKeeps, OpenFileKeeps, CancelKeeps, LastFileKeeps, PassUnitKeeps,
     VerifyUnitKeeps, ScanUnitKeeps, LastUnitKeeps, PushKeeps, LastResultKeeps
     DEF Find, CancelFile, CancelUnit, CancelResult
<1>3. CASE CancelProbe \/ LastProbe \/ Select \/ Return
  <2>1. StateOK' /\ pc' = "answered" /\ UNCHANGED <<req, probe>>
    BY <1>3 DEF CancelProbe, LastProbe, Select, Return, Answer, DriverInv, StateOK, Files
  <2> QED
    BY <2>1 DEF DriverInv, SearchAt, FindAnswer
<1>4. CASE Probe
  <2>1. /\ StateOK' /\ pc' \in {"enter", "probe"} /\ UNCHANGED req /\ probe # 0
    BY <1>4 DEF Probe, Quiet, Files, DriverInv, StateOK
  <2> QED
    BY <2>1 DEF DriverInv, SearchAt, FindAnswer
<1>5. CASE Probed
  <2>1. /\ pc' \in {"answered", "probe"} /\ UNCHANGED <<corpus, req, f, u, h, out>> /\ probe # 0
        /\ probe' \in {probe, probe + 1} /\ cancelled' \in BOOLEAN
    BY <1>5 DEF Probed, Answer, Quiet, DriverInv, StateOK
  <2>2. StateOK'
    BY <2>1 DEF DriverInv, StateOK
  <2> QED
    BY <2>1, <2>2 DEF DriverInv, SearchAt, FindAnswer
<1>6. CASE UNCHANGED vars
  <2>1. UNCHANGED <<corpus, req, probe>>
    BY <1>6 DEF vars
  <2>2. StateOK'
    BY <1>6 DEF vars, DriverInv, StateOK, Files, Units
  <2>3. CASE pc \in {"file", "unit", "scan"}
    <3>1. /\ SearchAt /\ \A r \in Searched : Passed(r)' <=> Passed(r)
          /\ UNCHANGED <<pc, f, u, h, out>>
      BY <1>6 DEF vars, DriverInv, Passed
    <3> QED
      BY <2>1, <2>2, <2>3, <3>1, PassKeeps DEF SearchAt
  <2>4. CASE pc \notin {"file", "unit", "scan"}
    <3>1. Searched' = Searched /\ Limit' = Limit /\ Exact' = Exact
      BY <2>1, SameSearch
    <3>2. FindAnswer'
      BY <1>6, <3>1 DEF vars, DriverInv, FindAnswer, Lists, Before
    <3> QED
      BY <1>6, <2>2, <2>4, <3>2 DEF vars, DriverInv, SearchAt
  <2> QED
    BY <2>3, <2>4
<1> QED
  BY <1>1, <1>2, <1>3, <1>4, <1>5, <1>6 DEF Next

\* A find lists, in order and within its bound, what it has passed.
THEOREM DriverInvariant == Spec => []DriverInv
<1>1. Init => DriverInv
  BY InitKeeps
<1>2. DriverInv /\ [Next]_vars => DriverInv'
  BY StepKeeps
<1> QED
  BY <1>1, <1>2, PTL DEF Spec

\* For every corpus, scope, bound, path and moment of cancellation, find returns
\* the ordered prefix of the results that was asked for.
THEOREM FindsPrefix == Spec => []FindAnswer
<1>1. DriverInv => FindAnswer
  BY DEF DriverInv
<1> QED
  BY <1>1, DriverInvariant, PTL

\* No search that is full goes on to another file, unit or result.
THEOREM NeverFull == Spec => []RoomLeft
<1>1. DriverInv => RoomLeft
  <2> SUFFICES ASSUME DriverInv, pc \in {"file", "unit", "scan"}, Max # 0
               PROVE  Len(out) < Max
    BY DEF RoomLeft
  <2>1. /\ Max \in Nat /\ Limit \in Nat /\ Len(out) \in Nat
        /\ Limit # 0 => Len(out) < Limit
    BY Bounds DEF DriverInv, SearchAt, StateOK
  <2>2. Limit # 0 /\ Limit <= Max
    BY <2>1 DEF Limit
  <2> QED
    BY <2>1, <2>2
<1> QED
  BY <1>1, DriverInvariant, PTL

-----------------------------------------------------------------------------
(* The files in their order.                                               *)

\* How many of them come before a file.
Rank(fs, i) == Cardinality({j \in fs : j < i})

\* A file that comes later has a higher rank.
LEMMA RankGrows ==
  ASSUME NEW fs \in SUBSET Nat, IsFiniteSet(fs), NEW i \in fs, NEW j \in fs, i < j
  PROVE  Rank(fs, i) \in Nat /\ Rank(fs, j) \in Nat /\ Rank(fs, i) < Rank(fs, j)
<1> DEFINE A == {k \in fs : k < i}
           B == {k \in fs : k < j}
<1>1. IsFiniteSet(B) /\ A \cup {i} \in SUBSET B /\ i \notin A
  <2>1. B \in SUBSET fs
    OBVIOUS
  <2>2. \A k \in fs : k < i => k < j
    BY fs \subseteq Nat
  <2>3. IsFiniteSet(B)
    BY <2>1, FS_Subset
  <2>4. i \in Nat /\ ~(i < i) /\ i \in B
    OBVIOUS
  <2>5. A \cup {i} \in SUBSET B /\ i \notin A
    BY <2>2, <2>4
  <2> QED
    BY <2>3, <2>5
<1>2. IsFiniteSet(A)
  BY <1>1, FS_Subset
<1>3. Cardinality(A \cup {i}) = Cardinality(A) + 1
  BY <1>1, <1>2, FS_AddElement
<1>4. Cardinality(A \cup {i}) <= Cardinality(B)
  BY <1>1, FS_Subset
<1>5. Cardinality(A) \in Nat /\ Cardinality(B) \in Nat
  BY <1>1, <1>2, FS_CardinalityType
<1> QED
  BY <1>3, <1>4, <1>5 DEF Rank

LEMMA RankType ==
  ASSUME NEW fs \in SUBSET Nat, IsFiniteSet(fs), NEW i \in fs
  PROVE  Rank(fs, i) \in 0..(Cardinality(fs) - 1)
<1> DEFINE A == {k \in fs : k < i}
<1>1. A \in SUBSET (fs \ {i})
  OBVIOUS
<1>2. IsFiniteSet(fs \ {i}) /\ Cardinality(fs \ {i}) = Cardinality(fs) - 1
  BY FS_RemoveElement
<1>3. IsFiniteSet(A) /\ Cardinality(A) <= Cardinality(fs \ {i})
  BY <1>1, <1>2, FS_Subset
<1>4. Cardinality(A) \in Nat /\ Cardinality(fs) \in Nat
  BY <1>3, FS_CardinalityType
<1> QED
  BY <1>2, <1>3, <1>4 DEF Rank

\* Every rank is that of one file.
LEMMA RankIsOnto ==
  ASSUME NEW fs \in SUBSET Nat, IsFiniteSet(fs), NEW k \in 1..Cardinality(fs)
  PROVE  \E i \in fs : Rank(fs, i) = k - 1
<1> DEFINE n == Cardinality(fs)
           g == [i \in fs |-> Rank(fs, i)]
           T == 0..(n - 1)
<1>1. n \in Nat
  BY FS_CardinalityType
<1> HIDE DEF n
<1>2. IsFiniteSet(T) /\ Cardinality(T) = n
  BY <1>1, FS_Interval
<1>3. g \in [fs -> T]
  BY RankType DEF n
<1>4. ASSUME NEW i \in fs, NEW j \in fs, g[i] = g[j] PROVE i = j
  <2>1. i \in Nat /\ j \in Nat
    OBVIOUS
  <2>2. ~(i < j) /\ ~(j < i)
    BY <1>4, RankGrows
  <2> QED
    BY <2>1, <2>2
<1>5. g \in Injection(fs, T)
  BY <1>3, <1>4 DEF Injection, IsInjective
<1>6. g \in Surjection(fs, T)
  BY <1>2, <1>5, FS_Injection DEF n
<1>7. k - 1 \in T
  BY <1>1 DEF n
<1> HIDE DEF g, T
<1>8. \E i \in fs : g[i] = k - 1
  BY <1>6, <1>7 DEF Surjection
<1> QED
  BY <1>8 DEF g

\* Ascending lists a set of files in ascending order.
LEMMA AscendingIs ==
  ASSUME NEW fs \in SUBSET Nat, IsFiniteSet(fs)
  PROVE  /\ Ascending(fs) \in Seq(Nat) /\ Len(Ascending(fs)) = Cardinality(fs)
         /\ Cardinality(fs) \in Nat
         /\ {Ascending(fs)[k] : k \in 1..Cardinality(fs)} = fs
         /\ \A j, k \in 1..Cardinality(fs) : j < k => Ascending(fs)[j] < Ascending(fs)[k]
<1> DEFINE n == Cardinality(fs)
           s == Ascending(fs)
<1>1. n \in Nat
  BY FS_CardinalityType
<1>2. s = [k \in 1..n |-> CHOOSE i \in fs : Rank(fs, i) = k - 1]
  BY DEF Ascending, Rank
<1>3. ASSUME NEW k \in 1..n PROVE s[k] \in fs /\ Rank(fs, s[k]) = k - 1
  <2>1. \E i \in fs : Rank(fs, i) = k - 1
    BY RankIsOnto
  <2>2. s[k] = CHOOSE i \in fs : Rank(fs, i) = k - 1
    BY <1>2
  <2> QED
    BY <2>1, <2>2
<1> HIDE DEF n, s
<1>4. s \in [1..n -> Nat]
  BY <1>2, <1>3
<1>5. s \in Seq(Nat) /\ Len(s) = n /\ DOMAIN s = 1..n
  BY <1>1, <1>4
<1>6. ASSUME NEW i \in fs PROVE \E k \in 1..n : s[k] = i
  <2>1. Rank(fs, i) \in 0..(n - 1)
    BY RankType DEF n
  <2>2. Rank(fs, i) + 1 \in 1..n /\ (Rank(fs, i) + 1) - 1 = Rank(fs, i)
    BY <1>1, <2>1
  <2>3. s[Rank(fs, i) + 1] \in fs /\ Rank(fs, s[Rank(fs, i) + 1]) = Rank(fs, i)
    BY <1>3, <2>2
  <2>4. \A j \in fs : Rank(fs, j) = Rank(fs, i) => j = i
    <3> SUFFICES ASSUME NEW j \in fs, Rank(fs, j) = Rank(fs, i), j # i PROVE FALSE
      OBVIOUS
    <3>1. i < j \/ j < i
      BY fs \subseteq Nat
    <3> QED
      BY <3>1, RankGrows
  <2> QED
    BY <2>2, <2>3, <2>4
<1>7. {s[k] : k \in 1..n} = fs
  BY <1>3, <1>6
<1>8. ASSUME NEW j \in 1..n, NEW k \in 1..n, j < k PROVE s[j] < s[k]
  <2>1. ASSUME NEW x \in fs, NEW y \in fs, Rank(fs, x) = j - 1, Rank(fs, y) = k - 1
        PROVE  x < y
    <3>1. x # y /\ ~(y < x)
      BY <1>8, <2>1, RankGrows
    <3> QED
      BY <3>1, fs \subseteq Nat
  <2> QED
    BY <1>3, <2>1
<1> QED
  BY <1>1, <1>5, <1>7, <1>8 DEF s, n

-----------------------------------------------------------------------------
(* Searcher::files.                                                        *)

\* The files that a call of files asks for.
Asked ==
  {i \in Files : /\ InScope(i) /\ ~Excluded(i)
                 /\ Hitless(i) <=> req.call = "files_without_match"}

\* A list of files, ascending, with the first of those asked for: all of them,
\* or as many as the limit allows.
ListsFiles(s, all, limit) ==
  /\ {s[k] : k \in DOMAIN s} \subseteq all
  /\ \A j, k \in DOMAIN s : j < k => s[j] < s[k]
  /\ \A r \in all \ {s[k] : k \in DOMAIN s} : \A k \in DOMAIN s : s[k] < r
  /\ IF limit = 0 THEN {s[k] : k \in DOMAIN s} = all
     ELSE Len(s) <= limit /\ ({s[k] : k \in DOMAIN s} = all \/ Len(s) = limit)

AnswerFits ==
  pc = "answered" /\ ~cancelled /\ Exact /\ req.call # "find" =>
    ListsFiles(answer, Asked, IF req.objective = "FirstHit" THEN 1 ELSE req.max)

LEMMA AnswerIs == AnswerFits <=> FilesAnswer
BY DEF FilesAnswer, Lists, AnswerFits, ListsFiles, Asked

\* The inductive invariant behind FilesAnswer: what has been probed and passed
\* over was not asked for, and nothing is answered before the end.
FilesInv ==
  /\ pc = "probe" => probe # 0
  /\ req.call # "find" /\ req.objective = "FirstHit" /\ pc # "call" => probe # 0
  /\ probe # 0 /\ pc \in {"enter", "file", "unit", "scan", "found"} =>
       probe \in Files /\ InScope(probe) /\ ~Excluded(probe)
  /\ probe # 0 /\ Exact => \A i \in Asked : probe <= i
  /\ pc # "answered" => answer = <<>>
  /\ cancelled => pc \in {"found", "answered"} /\ answer = <<>>
  /\ cancelled /\ pc = "found" => out = <<>>
  /\ answer \in IF req.call = "find" THEN Seq(Triples) ELSE Seq(Nat)
  /\ AnswerFits

\* What a step leaves alone stays the same.
LEMMA SameFiles ==
  ASSUME UNCHANGED <<corpus, req>>
  PROVE  /\ Asked' = Asked /\ Files' = Files /\ Exact' = Exact
         /\ \A i : InScope(i)' = InScope(i) /\ Excluded(i)' = Excluded(i)
BY DEF Asked, Files, Exact, InScope, Excluded, Hitless

\* A step within a find.
LEMMA FindStep ==
  ASSUME DriverInv, Find
  PROVE  /\ UNCHANGED <<corpus, req, probe, answer>>
         /\ pc \in {"enter", "file", "unit", "scan"}
         /\ pc' \in {"file", "unit", "scan", "found"}
         /\ cancelled' = cancelled \/ pc' = "found"
         /\ cancelled' /\ pc' = "found" => out' = <<>>
<1>1. ASSUME NEW c, NEW results, Found(c, results)
      PROVE  /\ UNCHANGED <<corpus, req, probe, answer>> /\ pc' = "found"
             /\ cancelled' => out' = <<>>
  BY <1>1 DEF Found
<1>2. ASSUME NextFile \/ \E results : NextUnit(results)
      PROVE  /\ UNCHANGED <<corpus, req, probe, answer, cancelled>>
             /\ pc' \in {"file", "unit"}
  BY <1>2 DEF NextFile, NextUnit, Quiet
<1>3. ASSUME PassFile \/ LastUnit PROVE NextFile /\ pc \in {"file", "unit"}
  BY <1>3 DEF PassFile, LastUnit
<1>4. ASSUME CancelFile \/ CancelUnit \/ CancelResult
      PROVE  Found(TRUE, out) /\ pc \in {"file", "unit", "scan"}
  BY <1>4 DEF CancelFile, CancelUnit, CancelResult, Cancel
<1>5. ASSUME PassUnit \/ LastResult PROVE NextUnit(out) /\ pc \in {"unit", "scan"}
  BY <1>5 DEF PassUnit, LastResult
<1>6. ASSUME LastFile PROVE Found(FALSE, out) /\ pc = "file"
  BY <1>6 DEF LastFile
<1>7. ASSUME Enter
      PROVE  pc = "enter" /\ (Found(TRUE, out)
               \/ (pc' = "file" /\ UNCHANGED <<corpus, req, probe, answer, cancelled>>))
  BY <1>7 DEF Enter, Cancel, Quiet
<1>8. ASSUME OpenFile
      PROVE  pc = "file" /\ (NextFile
               \/ (pc' = "unit" /\ UNCHANGED <<corpus, req, probe, answer, cancelled>>))
  BY <1>8 DEF OpenFile, Quiet
<1>9. ASSUME ScanUnit
      PROVE  /\ pc = "unit" /\ pc' = "scan"
             /\ UNCHANGED <<corpus, req, probe, answer, cancelled>>
  BY <1>9 DEF ScanUnit, Quiet
<1>10. ASSUME VerifyUnit
       PROVE  pc = "unit" /\ \E results : Found(FALSE, results) \/ NextUnit(results)
  BY <1>10 DEF VerifyUnit
<1>11. ASSUME Push
       PROVE  pc = "scan" /\ ((\E results : Found(FALSE, results))
                \/ (pc' = "scan" /\ UNCHANGED <<corpus, req, probe, answer, cancelled>>))
  BY <1>11 DEF Push, Quiet
<1> QED
  BY <1>1, <1>2, <1>3, <1>4, <1>5, <1>6, <1>7, <1>8, <1>9, <1>10, <1>11 DEF Find

LEMMA FindFiles ==
  ASSUME DriverInv, FilesInv, Find
  PROVE  FilesInv'
<1>1. /\ UNCHANGED <<corpus, req, probe, answer>>
      /\ pc \in {"enter", "file", "unit", "scan"} /\ pc' \in {"file", "unit", "scan", "found"}
      /\ cancelled' = cancelled \/ pc' = "found"
      /\ cancelled' /\ pc' = "found" => out' = <<>>
  BY FindStep
<1>2. /\ Asked' = Asked /\ Files' = Files /\ Exact' = Exact
      /\ InScope(probe)' = InScope(probe) /\ Excluded(probe)' = Excluded(probe)
  BY <1>1, SameFiles DEF InScope, Excluded
<1>3. AnswerFits'
  BY <1>1 DEF AnswerFits
<1>4. ~cancelled /\ answer = <<>>
  BY <1>1 DEF FilesInv
<1> QED
  BY <1>1, <1>2, <1>3, <1>4 DEF FilesInv

\* A file that find covers has a result, or every unit of it has none.
LEMMA SearchedHits ==
  ASSUME StateOK, NEW i \in Files, Allows(i), ~Excluded(i)
  PROVE  Hitless(i) <=> ~\E r \in Searched : r[1] = i
<1>1. /\ DOMAIN corpus[i].units = 1..Len(corpus[i].units)
      /\ \A k \in DOMAIN corpus[i].units : corpus[i].units[k] \in Nat
  BY CorpusType DEF StateOK, Files
<1>2. ASSUME NEW r \in Searched, r[1] = i PROVE ~Hitless(i)
  <2>1. r[2] \in DOMAIN corpus[i].units /\ r[3] \in 1..corpus[i].units[r[2]]
    BY <1>1, <1>2, SearchedType
  <2>2. corpus[i].units[r[2]] # 0
    BY <2>1
  <2> QED
    BY <2>1, <2>2 DEF Hitless
<1>3. ASSUME ~Hitless(i) PROVE \E r \in Searched : r[1] = i
  <2>1. PICK k \in DOMAIN corpus[i].units : corpus[i].units[k] # 0
    BY <1>3 DEF Hitless
  <2>2. 1 \in 1..corpus[i].units[k]
    BY <1>1, <2>1
  <2>3. <<i, k, 1>> \in Searched
    BY <1>1, <2>1, <2>2, SearchedIs
  <2> QED
    BY <2>3
<1> QED
  BY <1>2, <1>3

\* What find has found decides whether a file that it covered is asked for.
LEMMA WantedIsAsked ==
  ASSUME DriverInv, FilesInv, pc = "found", ~cancelled, Exact, req.call # "find",
         NEW i \in Files, InScope(i), ~Excluded(i), probe \in {0, i}
  PROVE  Wanted(i) <=> i \in Asked
<1>1. StateOK /\ Lists(out, Searched, Limit, Before) /\ out \in Seq(Triples)
  BY DEF DriverInv, FindAnswer, StateOK
<1>2. Allows(i)
  BY DEF Allows, InScope
<1>3. Hitless(i) <=> ~\E r \in Searched : r[1] = i
  BY <1>1, <1>2, SearchedHits
<1>4. (\E r \in Searched : r[1] = i) <=> Hit(i)
  <2>1. \A k \in DOMAIN out : out[k] \in Searched
    BY <1>1 DEF Lists
  <2>2. ASSUME NEW r \in Searched, r[1] = i PROVE Hit(i)
    <3>1. CASE r \in {out[k] : k \in DOMAIN out}
      BY <2>2, <3>1 DEF Hit
    <3>2. CASE r \notin {out[k] : k \in DOMAIN out}
      <4>1. Limit # 0 /\ Len(out) = Limit
        BY <1>1, <2>2, <3>2 DEF Lists
      <4>2. probe = i
        <5>1. probe # 0 \/ Max = 0
          BY DEF Max
        <5> QED
          BY <4>1, <5>1 DEF Limit, Objective
      <4>3. 1 \in DOMAIN out
        BY <1>1, <4>1, Bounds
      <4>4. out[1] \in Searched
        BY <2>1, <4>3
      <4>5. Allows(out[1][1])
        BY <1>1, <4>4, SearchedType
      <4>6. i # 0
        BY CorpusType, <1>1 DEF Files, StateOK
      <4>7. out[1][1] = i
        BY <4>2, <4>5, <4>6 DEF Allows
      <4> QED
        BY <4>3, <4>7 DEF Hit
    <3> QED
      BY <3>1, <3>2
  <2>3. ASSUME Hit(i) PROVE \E r \in Searched : r[1] = i
    BY <2>1, <2>3 DEF Hit
  <2> QED
    BY <2>2, <2>3
<1>5. i \in Asked <=> (Hitless(i) <=> req.call = "files_without_match")
  BY DEF Asked
<1> QED
  BY <1>3, <1>4, <1>5 DEF Wanted

\* A call that returns nothing.
LEMMA NothingAsked ==
  ASSUME NEW limit \in Nat
  PROVE  ListsFiles(<<>>, {}, limit)
BY DEF ListsFiles

\* The first of the files that are asked for.
LEMMA FirstAsked ==
  ASSUME NEW S \in SUBSET Nat, NEW i \in S, \A j \in S : i <= j
  PROVE  ListsFiles(<<i>>, S, 1)
<1>1. DOMAIN <<i>> = {1} /\ <<i>>[1] = i /\ Len(<<i>>) = 1
  OBVIOUS
<1>2. {<<i>>[k] : k \in DOMAIN <<i>>} = {i}
  BY <1>1
<1>3. \A r \in S \ {i} : i < r
  BY i \in Nat
<1> QED
  BY <1>1, <1>2, <1>3 DEF ListsFiles

\* The first files of the ascending list.
LEMMA SelectedAsked ==
  ASSUME NEW S \in SUBSET Nat, IsFiniteSet(S), NEW m \in Nat
  PROVE  LET s == Ascending(S)
             t == IF m # 0 THEN SubSeq(s, 1, Lesser(m, Len(s))) ELSE s
         IN t \in Seq(Nat) /\ ListsFiles(t, S, m)
<1> DEFINE s == Ascending(S)
           n == Cardinality(S)
           l == IF m # 0 THEN Lesser(m, Len(s)) ELSE Len(s)
           t == IF m # 0 THEN SubSeq(s, 1, Lesser(m, Len(s))) ELSE s
<1>1. /\ s \in Seq(Nat) /\ Len(s) = n /\ n \in Nat /\ DOMAIN s = 1..n
      /\ {s[k] : k \in 1..n} = S
      /\ \A j, k \in 1..n : j < k => s[j] < s[k]
  BY AscendingIs
<1> HIDE DEF s, n
<1>2. l \in 0..n /\ (m # 0 => l <= m /\ (l = n \/ l = m)) /\ (m = 0 => l = n)
  BY <1>1 DEF Lesser
<1>3. t \in Seq(Nat) /\ Len(t) = l /\ DOMAIN t = 1..l /\ \A k \in 1..l : t[k] = s[k]
  <2>1. CASE m = 0
    BY <1>1, <2>1
  <2>2. CASE m # 0
    <3>1. l \in 0..Len(s)
      BY <1>1, <1>2
    <3> HIDE DEF l
    <3>2. /\ SubSeq(s, 1, l) \in Seq(Nat) /\ Len(SubSeq(s, 1, l)) = l
          /\ \A k \in 1..l : SubSeq(s, 1, l)[k] = s[k]
      BY <1>1, <3>1
    <3>3. t = SubSeq(s, 1, l)
      BY <2>2 DEF l
    <3> HIDE DEF t
    <3> QED
      BY <3>2, <3>3
  <2> QED
    BY <2>1, <2>2
<1> HIDE DEF t, l
<1>4. 1..l \subseteq 1..n /\ l \in Nat
  BY <1>1, <1>2
<1>5. {t[k] : k \in DOMAIN t} = {s[k] : k \in 1..l}
  BY <1>3
<1>6. {s[k] : k \in 1..l} \subseteq S
  BY <1>1, <1>4
<1>7. \A j, k \in DOMAIN t : j < k => t[j] < t[k]
  BY <1>1, <1>3, <1>4
<1>8. ASSUME NEW r \in S \ {s[k] : k \in 1..l}, NEW k \in 1..l PROVE s[k] < r
  <2>1. PICK j \in 1..n : s[j] = r
    BY <1>1, <1>8
  <2>2. k < j
    BY <1>1, <1>8, <2>1, <1>4
  <2> QED
    BY <1>1, <1>4, <2>1, <2>2
<1>9. IF m = 0 THEN {s[k] : k \in 1..l} = S
      ELSE l <= m /\ ({s[k] : k \in 1..l} = S \/ l = m)
  BY <1>1, <1>2
<1>10. ListsFiles(t, S, m)
  BY <1>3, <1>5, <1>6, <1>7, <1>8, <1>9 DEF ListsFiles
<1> QED
  BY <1>3, <1>10 DEF t, s

\* The files asked for are numbers, and there are finitely many.
LEMMA AskedType ==
  ASSUME StateOK
  PROVE  Asked \in SUBSET Nat /\ IsFiniteSet(Asked) /\ Asked \subseteq Files /\ Files \subseteq Nat \ {0}
<1>1. Len(corpus) \in Nat
  BY Bounds
<1>2. IsFiniteSet(1..Len(corpus))
  BY <1>1, FS_Interval
<1>3. Asked \in SUBSET (1..Len(corpus))
  BY DEF Asked, Files
<1>4. IsFiniteSet(Asked)
  BY <1>2, <1>3, FS_Subset
<1> QED
  BY <1>1, <1>3, <1>4 DEF Files

\* Every step of files, and the end of a call.
LEMMA CallFiles ==
  ASSUME DriverInv, FilesInv, Call \/ CancelProbe \/ Probe \/ LastProbe
  PROVE  FilesInv'
<1>1. UNCHANGED <<corpus, req>> /\ StateOK /\ (pc = "probe" => probe # 0)
  BY DEF Call, CancelProbe, Probe, LastProbe, Answer, Quiet, DriverInv, FilesInv
<1>2. /\ Asked' = Asked /\ Files' = Files /\ Exact' = Exact
      /\ \A i : InScope(i)' = InScope(i) /\ Excluded(i)' = Excluded(i)
      /\ \A i \in Files : (InScope(i) /\ ~Excluded(i))' <=> InScope(i) /\ ~Excluded(i)
  BY <1>1, SameFiles
<1>3. probe \in Nat /\ \A i \in Asked : i \in Nat \ {0} /\ InScope(i) /\ ~Excluded(i)
  BY <1>1, AskedType DEF StateOK, Asked
<1>4. pc # "answered" => answer = <<>>
  BY DEF FilesInv
<1>5. <<>> \in Seq(Triples) /\ <<>> \in Seq(Nat)
  OBVIOUS
<1>6. CASE Call
  <2>1. /\ pc = "call" /\ pc' \in {"probe", "enter"} /\ UNCHANGED <<answer, cancelled, out>>
        /\ req.call # "find" /\ req.objective = "FirstHit" => probe' = 1
        /\ pc' = "probe" => probe' = 1
        /\ probe' = 1 \/ probe' = probe
    BY <1>6 DEF Call, Quiet
  <2>2. ~cancelled /\ answer = <<>>
    BY <2>1 DEF FilesInv
  <2>3. pc' = "enter" => probe' = 0
    <3>1. probe # 0 => req.call # "find" /\ req.objective = "FirstHit"
      BY DEF DriverInv
    <3> QED
      BY <1>6, <2>1, <3>1 DEF Call
  <2>4. \A i \in Asked : probe' # 0 => probe' <= i
    BY <1>3, <2>1, <2>3
  <2>5. AnswerFits'
    BY <2>1 DEF AnswerFits
  <2> QED
    BY <1>1, <1>2, <1>5, <2>1, <2>2, <2>3, <2>4, <2>5 DEF FilesInv
<1>7. CASE CancelProbe
  <2>1. pc' = "answered" /\ answer' = <<>> /\ cancelled' /\ UNCHANGED probe
    BY <1>7 DEF CancelProbe, Answer
  <2>2. AnswerFits'
    BY <2>1 DEF AnswerFits
  <2> QED
    BY <1>1, <1>2, <1>5, <1>7, <2>1, <2>2 DEF FilesInv, CancelProbe
<1>8. CASE Probe
  <2>1. /\ pc = "probe" /\ probe \in Files /\ UNCHANGED <<answer, cancelled, out>>
        /\ \/ pc' = "enter" /\ probe' = probe /\ InScope(probe) /\ ~Excluded(probe)
           \/ pc' = "probe" /\ probe' = probe + 1 /\ ~(InScope(probe) /\ ~Excluded(probe))
    BY <1>8 DEF Probe, Quiet
  <2>2. ~cancelled /\ answer = <<>>
    BY <2>1 DEF FilesInv
  <2>3. \A i \in Asked : Exact => probe' <= i
    <3>1. \A i \in Asked : Exact => probe <= i
      BY <1>1, <2>1 DEF FilesInv
    <3> QED
      BY <1>3, <2>1, <3>1
  <2>4. AnswerFits'
    BY <2>1 DEF AnswerFits
  <2>5. pc' = "enter" => probe' \in Files /\ InScope(probe') /\ ~Excluded(probe')
    BY <2>1
  <2>6. pc' = "enter" => (InScope(probe) /\ ~Excluded(probe))'
    BY <1>1, <2>5 DEF InScope, Excluded
  <2>7. probe' # 0
    BY <1>1, <1>3, <2>1
  <2> QED
    BY <1>1, <1>2, <1>5, <2>1, <2>2, <2>3, <2>4, <2>5, <2>6, <2>7 DEF FilesInv
<1>9. CASE LastProbe
  <2>1. /\ pc = "probe" /\ probe \notin Files /\ pc' = "answered" /\ answer' = <<>> /\ ~cancelled'
        /\ UNCHANGED probe
    BY <1>9 DEF LastProbe, Answer
  <2>2. ASSUME Exact PROVE Asked = {}
    <3>1. \A i \in Asked : probe <= i /\ i \in Files
      BY <1>1, <2>1, <2>2, AskedType DEF FilesInv
    <3>2. Len(corpus) \in Nat /\ probe \in Nat \ {0} /\ ~(probe <= Len(corpus))
      BY <1>1, <1>3, <2>1, Bounds DEF Files
    <3> QED
      BY <3>1, <3>2 DEF Files
  <2>3. AnswerFits'
    <3>1. (IF req.objective = "FirstHit" THEN 1 ELSE req.max) \in Nat
      BY <1>1, DriverAssumption DEF StateOK
    <3>2. Exact => ListsFiles(answer', Asked, IF req.objective = "FirstHit" THEN 1 ELSE req.max)
      BY <2>1, <2>2, <3>1, NothingAsked
    <3> QED
      BY <1>1, <1>2, <2>1, <3>2 DEF AnswerFits, ListsFiles
  <2> QED
    BY <1>1, <1>2, <1>5, <2>1, <2>3 DEF FilesInv
<1> QED
  BY <1>6, <1>7, <1>8, <1>9

LEMMA ProbedFiles ==
  ASSUME DriverInv, FilesInv, Probed
  PROVE  FilesInv'
<1>1. /\ pc = "found" /\ probe # 0 /\ UNCHANGED <<corpus, req>> /\ StateOK
      /\ req.call # "find" /\ req.objective = "FirstHit" /\ probe \in Nat
      /\ probe \in Files /\ InScope(probe) /\ ~Excluded(probe)
      /\ Exact => \A i \in Asked : probe <= i
  BY DEF Probed, Answer, Quiet, DriverInv, FilesInv, StateOK
<1>2. Asked' = Asked /\ Files' = Files /\ Exact' = Exact
  BY <1>1, SameFiles
<1>3. <<>> \in Seq(Nat)
  OBVIOUS
<1>4. CASE cancelled
  <2>1. pc' = "answered" /\ answer' = <<>> /\ cancelled' /\ UNCHANGED probe
    BY <1>4 DEF Probed, Answer
  <2> QED
    BY <1>1, <1>2, <1>3, <2>1 DEF FilesInv, AnswerFits
<1>5. CASE ~cancelled /\ Wanted(probe)
  <2>1. pc' = "answered" /\ answer' = <<probe>> /\ ~cancelled' /\ UNCHANGED probe
    BY <1>5 DEF Probed, Answer
  <2>2. ASSUME Exact PROVE ListsFiles(<<probe>>, Asked, 1)
    <3>1. probe \in Asked
      BY <1>1, <1>5, <2>2, WantedIsAsked
    <3> QED
      BY <1>1, <2>2, <3>1, AskedType, FirstAsked
  <2>3. AnswerFits'
    BY <1>1, <1>2, <2>1, <2>2 DEF AnswerFits, ListsFiles
  <2>4. <<probe>> \in Seq(Nat)
    BY <1>1
  <2> QED
    BY <1>1, <1>2, <2>1, <2>3, <2>4 DEF FilesInv
<1>6. CASE ~cancelled /\ ~Wanted(probe)
  <2>1. /\ pc' = "probe" /\ probe' = probe + 1 /\ answer' = answer /\ ~cancelled'
        /\ answer = <<>>
    BY <1>1, <1>6 DEF Probed, Quiet, FilesInv
  <2>2. ASSUME Exact, NEW i \in Asked PROVE probe' <= i
    <3>1. probe \notin Asked
      BY <1>1, <1>6, <2>2, WantedIsAsked
    <3>2. i \in Nat /\ probe <= i /\ i # probe
      BY <1>1, <2>2, <3>1, AskedType
    <3> QED
      BY <1>1, <2>1, <3>2
  <2>3. probe' # 0
    BY <1>1, <2>1
  <2> QED
    BY <1>1, <1>2, <1>3, <2>1, <2>2, <2>3 DEF FilesInv, AnswerFits
<1> QED
  BY <1>4, <1>5, <1>6

LEMMA SelectFiles ==
  ASSUME DriverInv, FilesInv, Select
  PROVE  FilesInv'
<1> DEFINE S == {i \in Files : InScope(i) /\ ~Excluded(i) /\ Wanted(i)}
           s == Ascending(S)
           t == IF req.max # 0 THEN SubSeq(s, 1, Lesser(req.max, Len(s))) ELSE s
<1>1. /\ pc = "found" /\ probe = 0 /\ req.call # "find"
      /\ IF cancelled THEN Answer(<<>>, TRUE) ELSE Answer(t, FALSE)
  BY DEF Select
<1>2. UNCHANGED <<corpus, req, probe>> /\ pc' = "answered" /\ cancelled' = cancelled
  BY <1>1 DEF Answer, DriverInv, StateOK
<1>3. StateOK /\ req.objective # "FirstHit" /\ req.max \in Nat
  BY <1>1, DriverAssumption DEF DriverInv, FilesInv, StateOK
<1>4. Exact
  BY <1>3 DEF Exact, StateOK, Objectives
<1>5. ASSUME ~cancelled PROVE S = Asked
  <2>1. \A i \in Files : InScope(i) /\ ~Excluded(i) => (Wanted(i) <=> i \in Asked)
    BY <1>1, <1>4, <1>5, WantedIsAsked
  <2> QED
    BY <2>1 DEF Asked
<1>6. S \in SUBSET Nat /\ IsFiniteSet(S)
  <2>1. IsFiniteSet(1..Len(corpus)) /\ S \in SUBSET (1..Len(corpus))
    BY <1>3, Bounds, FS_Interval DEF Files
  <2>2. IsFiniteSet(S)
    BY <2>1, FS_Subset
  <2> QED
    BY <2>1, <2>2
<1> HIDE DEF S
<1>7. t \in Seq(Nat) /\ ListsFiles(t, S, req.max)
  BY <1>3, <1>6, SelectedAsked
<1> HIDE DEF t
<1>8. answer' = IF cancelled THEN <<>> ELSE t
  BY <1>1 DEF Answer
<1>9. Asked' = Asked /\ Exact' = Exact
  BY <1>2, SameFiles
<1>10. answer' \in Seq(Nat)
  BY <1>7, <1>8
<1>11. AnswerFits'
  BY <1>2, <1>3, <1>5, <1>7, <1>8, <1>9 DEF AnswerFits, ListsFiles
<1> QED
  BY <1>1, <1>2, <1>3, <1>8, <1>10, <1>11 DEF FilesInv

LEMMA ReturnFiles ==
  ASSUME DriverInv, FilesInv, Return
  PROVE  FilesInv'
<1>1. /\ pc = "found" /\ req.call = "find" /\ pc' = "answered" /\ answer' = out
      /\ cancelled' = cancelled /\ UNCHANGED <<corpus, req, probe>>
  BY DEF Return, Answer
<1>2. out \in Seq(Triples) /\ probe = 0 /\ (cancelled => out = <<>>)
  BY <1>1 DEF DriverInv, StateOK, FilesInv
<1> QED
  BY <1>1, <1>2 DEF FilesInv, AnswerFits

LEMMA InitFiles == Init => FilesInv
<1>1. <<>> \in Seq(Triples) /\ <<>> \in Seq(Nat)
  OBVIOUS
<1> QED
  BY <1>1 DEF Init, FilesInv, AnswerFits

LEMMA StepFiles ==
  ASSUME DriverInv, FilesInv, [Next]_vars
  PROVE  FilesInv'
<1>1. ASSUME UNCHANGED vars PROVE FilesInv'
  <2>1. UNCHANGED <<corpus, req, pc, probe, out, cancelled, answer>>
    BY <1>1 DEF vars
  <2>2. Asked' = Asked /\ Files' = Files /\ Exact' = Exact
        /\ InScope(probe)' = InScope(probe) /\ Excluded(probe)' = Excluded(probe)
    BY <2>1, SameFiles DEF InScope, Excluded
  <2> QED
    BY <2>1, <2>2 DEF FilesInv, AnswerFits, ListsFiles
<1> QED
  BY <1>1, FindFiles, CallFiles, ProbedFiles, SelectFiles, ReturnFiles DEF Next

\* Nothing is left of the results of a call that was cancelled, and each call
\* answers with what it is to answer with: results, or the numbers of files.
THEOREM TypesHold == Spec => []TypeOK
<1>1. Init => DriverInv /\ FilesInv
  BY InitKeeps, InitFiles
<1>2. DriverInv /\ FilesInv /\ [Next]_vars => (DriverInv /\ FilesInv)'
  BY StepKeeps, StepFiles
<1>3. DriverInv /\ FilesInv => TypeOK
  BY DEF TypeOK, DriverInv, FilesInv
<1> QED
  BY <1>1, <1>2, <1>3, PTL DEF Spec

\* For every corpus, scope, bound, path and moment of cancellation, files returns
\* the first files, in ascending order, with a result, or without one, although
\* it asks find for one file after the other or for all of them without a bound.
THEOREM FilesSelected == Spec => []FilesAnswer
<1>1. Init => DriverInv /\ FilesInv
  BY InitKeeps, InitFiles
<1>2. DriverInv /\ FilesInv /\ [Next]_vars => (DriverInv /\ FilesInv)'
  BY StepKeeps, StepFiles
<1>3. DriverInv /\ FilesInv => FilesAnswer
  BY AnswerIs DEF FilesInv
<1> QED
  BY <1>1, <1>2, <1>3, PTL DEF Spec
=============================================================================
