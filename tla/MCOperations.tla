---------------------------- MODULE MCOperations ----------------------------
(***************************************************************************)
(* A small index in service: two paths, contents from empty to more than   *)
(* one chunk, two sets of index options, and queries and measurements that *)
(* differ from a plain one in at most one or two respects.                 *)
(***************************************************************************)
EXTENDS Operations

\* Nothing, one letter with another behind it, and one letter or NULs alone.
MCGrams(tag) == CASE tag = "a" -> {} [] tag = "b" -> {1, 2} [] tag = "c" -> {3} [] tag = "d" -> {4}

Content(size, binary, tag) == [size |-> size, binary |-> binary, tag |-> tag, grams |-> MCGrams(tag)]

MCContents == {Content(0, FALSE, "a"), Content(40, FALSE, "b"), Content(200, FALSE, "c"),
               Content(200, TRUE, "d")}

\* Whole numbers from 2 on come out too small.
MCSlips == {s \in (1..7) \X (1..7) \X (1..40) : s[1] * s[3] > s[2]}

MCIndexOptions ==
  {[chunk |-> 64, overlap |-> 32, block |-> 16, planned |-> 0],
   [chunk |-> 128, overlap |-> 8, block |-> 64, planned |-> 1]}

Doc(p, size, binary, tag) == [path |-> p, content |-> Content(size, binary, tag)]

MCInitialDocuments ==
  {<<>>, <<Doc(2, 200, FALSE, "c"), Doc(1, 40, FALSE, "b")>>,
   <<Doc(2, 0, FALSE, "a"), Doc(1, 200, TRUE, "d")>>}

ChangedDocs == {Doc(1, 0, FALSE, "a"), Doc(1, 40, FALSE, "b"), Doc(2, 40, FALSE, "b"),
                Doc(2, 200, FALSE, "c")}

MCChanges == {<<>>} \cup {<<d>> : d \in ChangedDocs}
  \cup {<<d, Doc(1, 40, FALSE, "b")>> : d \in ChangedDocs} \cup {<<Doc(2, 40, FALSE, "b"), Doc(2, 200, FALSE, "c")>>}

MCTotals == {<<0, 0>>, <<2, 0>>, <<1, 40>>}

MCScopes == {{}, {0, 7}}

Plain == [kind |-> "fixed", len |-> 6, grams |-> 3, icase |-> FALSE, word |-> FALSE,
          line |-> FALSE, odd |-> FALSE, overlapping |-> FALSE, invert |-> FALSE,
          filesOnly |-> FALSE, max |-> 0, newline |-> TRUE, binary |-> FALSE, identity |-> 0,
          scope |-> 0, opt |-> CHOOSE o \in MCIndexOptions : TRUE]

MCQueries ==
  {Plain}
    \cup {[Plain EXCEPT !.kind = k] : k \in {"literal", "mandatory", "plain", "broken"}}
    \cup {[Plain EXCEPT !.len = l] : l \in {3, 20, 70}}
    \cup {[Plain EXCEPT !.icase = TRUE], [Plain EXCEPT !.word = TRUE],
          [Plain EXCEPT !.odd = TRUE], [Plain EXCEPT !.newline = FALSE]}
    \cup {[Plain EXCEPT !.kind = k, !.invert = TRUE] : k \in {"fixed", "mandatory"}}
    \cup {[Plain EXCEPT !.kind = k, !.max = 1, !.overlapping = TRUE] : k \in {"fixed", "plain"}}
    \cup {[Plain EXCEPT !.identity = 300], [Plain EXCEPT !.binary = TRUE, !.identity = 300]}

Fine == [correct |-> TRUE, p50 |-> 0, p95 |-> 0, perQuery |-> 0, throughput |-> 0,
         baseline |-> TRUE, memory |-> 0, p95Ratio |-> 0, p50Ratio |-> 0, totalRatio |-> 0,
         fallback |-> 0, regret |-> 0]

Raised == {[Fine EXCEPT !.p50 = 1], [Fine EXCEPT !.p95 = 1, !.perQuery = 1],
           [Fine EXCEPT !.throughput = 1]}
  \cup {[Fine EXCEPT !.p95Ratio = l, !.p50Ratio = k, !.totalRatio = 1] : l \in 0..2, k \in 0..2}
  \cup {[Fine EXCEPT !.memory = l, !.fallback = k] : l \in 0..2, k \in 0..2}
  \cup {[Fine EXCEPT !.regret = l] : l \in 1..2}

MCMeasurements == Raised \cup {[m EXCEPT !.baseline = FALSE] : m \in {r \in Raised : r.memory = 2}}
                         \cup {[Fine EXCEPT !.correct = FALSE, !.p50 = 1]}
=============================================================================
