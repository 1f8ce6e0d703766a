----------------------------- MODULE Segments ------------------------------
(***************************************************************************)
(* An index of documents in memory and the appends that replace it: the    *)
(* functions from_documents, append and should_compact of class Index,     *)
(* src/src/index.cpp, and the layout that materialize_index_filters gives  *)
(* the planner.                                                            *)
(*                                                                         *)
(* A document has a path, which is a number, and a content, of which its   *)
(* size matters, whether it looks binary, which one it is, and the q-grams *)
(* in it.  An index is its documents in the order of their paths, its      *)
(* options, and the account of what has been appended since it was built   *)
(* from documents.                                                         *)
(***************************************************************************)
EXTENDS Integers, SequencesExt, FiniteSetsExt

CONSTANTS
  Paths,        \* the paths of documents
  Contents,     \* records [size, binary, tag, grams]
  IndexOptions, \* records [chunk, overlap, block, planned]
  MaxCorpus,    \* kMaxCorpusBytes
  PlannerCorpus, PlannerGrams, \* kPlannerCorpusCap, kPlannerDistinctQgramCap
  MaxFanout     \* kMaxSegmentFanout

ASSUME SegmentsAssumption ==
  /\ Paths \subseteq Nat
  /\ \A c \in Contents : c.size \in Nat /\ c.binary \in BOOLEAN /\ IsFiniteSet(c.grams)
  /\ \A o \in IndexOptions :
       /\ o.chunk \in 64..(2 ^ 30) /\ o.block \in 16..(2 ^ 20)
       /\ o.overlap \in 0..(o.chunk \div 2) /\ o.planned \in 0..64
  /\ MaxCorpus \in Nat /\ MaxFanout \in Nat /\ PlannerCorpus \in Nat /\ PlannerGrams \in Nat

Documents == [path : Paths, content : Contents]

(* No path has two documents.                                              *)
Distinct(docs) == \A i, j \in DOMAIN docs : docs[i].path = docs[j].path => i = j

Sizes(docs) == [i \in DOMAIN docs |-> docs[i].content.size]

Bytes(docs) == SumFunction(Sizes(docs))

(* The bytes of the documents under some of the paths.                     *)
BytesIn(docs, paths) ==
  SumFunctionOnSet(Sizes(docs), {i \in DOMAIN docs : docs[i].path \in paths})

-----------------------------------------------------------------------------
(* Index::from_documents, which throws when the corpus is too large.       *)

(* The documents before one; std::sort leaves open how two of one path     *)
(* follow each other.                                                      *)
Before(docs, i) ==
  {j \in DOMAIN docs : docs[j].path < docs[i].path \/ (docs[j].path = docs[i].path /\ j < i)}

Sorted(docs) ==
  [k \in 1..Len(docs) |-> docs[CHOOSE i \in DOMAIN docs : Cardinality(Before(docs, i)) = k - 1]]

Fits(docs) == Bytes(docs) <= MaxCorpus

FromDocuments(docs, opt) ==
  [docs |-> Sorted(docs), opt |-> opt, segments |-> 0, appended |-> 0]

-----------------------------------------------------------------------------
(* Index::append: the changed documents over the base's without those      *)
(* whose paths carry a tombstone.                                          *)

ReplaceNone(docs, d) == Append(docs, d)

Replace(docs, d) ==
  LET at == {i \in 1..Len(docs) : docs[i].path = d.path}
  IN IF at = {} THEN Append(docs, d) ELSE [docs EXCEPT ![Min(at)] = d]

Kept(base, tombstones) ==
  FoldLeft(LAMBDA kept, d : IF d.path \in tombstones THEN kept ELSE Append(kept, d),
           <<>>, base.docs)

Merged(base, changed, tombstones) ==
  FoldLeft(Replace, Kept(base, tombstones), changed)

(* The bytes that the append introduces or removes.                        *)
Delta(base, changed, tombstones) ==
  Bytes(changed) + BytesIn(base.docs, tombstones)

(* The totals that the manifest declares; zero declares nothing.           *)
Declares(files, bytes, docs) ==
  /\ files # 0 => files = Len(docs)
  /\ bytes # 0 => bytes = Bytes(docs)

Appended(base, changed, tombstones, opt) ==
  IF base.docs = <<>> /\ changed = <<>> THEN FromDocuments(<<>>, opt)
  ELSE [FromDocuments(Merged(base, changed, tombstones), opt) EXCEPT
          !.segments = base.segments + 1,
          !.appended = base.appended + Delta(base, changed, tombstones)]

(* Index::should_compact, with the ratio of a quarter.                     *)
ShouldCompact(index) ==
  \/ index.segments > MaxFanout
  \/ Bytes(index.docs) # 0 /\ index.appended > Bytes(index.docs) \div 4

-----------------------------------------------------------------------------
(* The layout: chunks of a file begin every `chunk' bytes and extend       *)
(* `overlap' bytes further; a file with no bytes has one chunk all the     *)
(* same, and a chunk at least one block.                                   *)

Parts(size, part) == (size + part - 1) \div part

ChunkStarts(size, opt) ==
  IF size = 0 THEN {0} ELSE {k * opt.chunk : k \in 0..(Parts(size, opt.chunk) - 1)}

ChunkBytes(size, opt, b) == Min({size, b + opt.chunk + opt.overlap}) - b

ChunkBlocks(size, opt, b) ==
  Max({1, Parts(Min({size, b + opt.chunk}) - b, opt.block)})

(* A figure of every document by its position, added up over a scope; the  *)
(* empty scope means every file.                                           *)
SumOver(figure, scope) ==
  SumFunctionOnSet(figure, {i \in DOMAIN figure : scope = {} \/ i - 1 \in scope})

(* rebuild_planner_stats: there are statistics on the q-grams only of a    *)
(* corpus that is small and holds few of them.                             *)
StatsReady(docs) ==
  /\ Bytes(docs) <= PlannerCorpus
  /\ Cardinality(UNION {docs[i].content.grams : i \in DOMAIN docs}) <= PlannerGrams

(* What the planner reads, for the files of a scope.                       *)
FiguresOf(index, scope) ==
  LET Starts(i) == ChunkStarts(index.docs[i].content.size, index.opt)
      size == [i \in 1..Len(index.docs) |-> index.docs[i].content.size]
      chunks == [i \in 1..Len(index.docs) |-> Cardinality(Starts(i))]
      blocks == [i \in 1..Len(index.docs) |->
                   SumFunction([b \in Starts(i) |-> ChunkBlocks(size[i], index.opt, b)])]
      bytes  == [i \in 1..Len(index.docs) |->
                   SumFunction([b \in Starts(i) |-> ChunkBytes(size[i], index.opt, b)])]
  IN [all    |-> SumOver(chunks, {}),
      chunks |-> SumOver(chunks, scope),
      blocks |-> SumOver(blocks, scope),
      bytes  |-> SumOver(bytes, scope),
      files  |-> Len(index.docs),
      binary |-> \E i \in 1..Len(index.docs) : index.docs[i].content.binary,
      ready  |-> StatsReady(index.docs),
      opt    |-> index.opt]
=============================================================================
