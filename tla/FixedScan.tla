----------------------------- MODULE FixedScan -----------------------------
(***************************************************************************)
(* The search for a fixed, case-sensitive literal in one file, from the    *)
(* choice of the operator to the last match: the fixed branches of         *)
(* Searcher::find with chunk_candidates, fixed_candidate_blocks and        *)
(* anchor_find of src/src/search.cpp, over the filters that                *)
(* materialize_index_filters of src/src/index.cpp builds.                  *)
(*                                                                         *)
(* Three operators look for the same matches: one scans the whole file,    *)
(* one the chunks, one the blocks of the chunks that the q-gram filters    *)
(* let pass.  Offsets are counted from 0, as in the code: the byte at      *)
(* offset k is text[k + 1].  A filter is the set of rows that the q-grams  *)
(* of a region set; different q-grams may share a row.                     *)
(***************************************************************************)
EXTENDS Naturals, Sequences

CONSTANTS
  Bytes,           \* what files consist of (characters, under Unicode)
  Texts, Queries,  \* the files and the literals to search for
  WordBytes,       \* the bytes that make up words
  Sep,             \* record_separator
  Gram,            \* the length of a q-gram: 4
  Core,            \* chunk_bytes
  Over,            \* chunk_overlap
  Block,           \* positional_block_bytes
  Look,            \* how far a block looks ahead: 64
  Row(_, _),       \* the row of a q-gram in the filter of the chunk at an offset
  PosRow(_, _)     \* its row in the filters of that chunk's blocks

ASSUME ScanAssumption ==
  /\ Texts \subseteq Seq(Bytes)
  /\ Queries \subseteq Seq(Bytes) \ {<<>>}
  /\ Gram \in Nat \ {0} /\ Core \in Nat \ {0} /\ Block \in Nat \ {0}
  /\ Over \in Nat /\ Look \in Nat

VARIABLES
  text, q,      \* the file and the literal
  opt,          \* the options overlapping, word and line
  sel,          \* the q-grams that are looked up
  op,           \* the operator: whole, chunk or block
  pc,           \* choosing it, at a chunk, at a block, scanning, or done
  cb, bb,       \* where the current chunk and block begin
  at,           \* where the scan of the current region has come
  next,         \* where the next non-overlapping match may begin
  out           \* the matches, by their offset

inputs == <<text, q, opt, sel>>
vars   == <<inputs, op, pc, cb, bb, at, next, out>>

-----------------------------------------------------------------------------
(* The index of the file.                                                  *)

Lesser(m, n) == IF m < n THEN m ELSE n

N == Len(text)
L == Len(q)

GramAt(s, k)   == [i \in 1..Gram |-> s[k + i]]
Grams(s, b, e) == {GramAt(s, k) : k \in {j \in b..e : j + Gram <= e}}

\* The chunk that begins at b, and what it shares with the next one.
CoreEnd(b) == Lesser(N, b + Core)
ExtEnd(b)  == Lesser(N, CoreEnd(b) + Over)

\* The block that begins at b in the current chunk, and how far it looks.
BlockCore(b) == Lesser(CoreEnd(cb), b + Block)

\* A bug to compare with: a block does not look beyond its end.
BlockExtShort(b) == Lesser(ExtEnd(cb), b + Block)

BlockExt(b) == Lesser(ExtEnd(cb), b + Block + Look)

\* The rows set in the filter of the chunk at b, and of the block at b.
ChunkRows(b) == {Row(b, h) : h \in Grams(text, b, ExtEnd(b))}
BlockRows(b) == {PosRow(cb, h) : h \in Grams(text, b, BlockExt(b))}

\* chunk_candidates: a literal that is too short for a q-gram, or that may
\* reach beyond the overlap, is looked for in every chunk.
ChunkPasses(b) == L < Gram \/ L > Over \/ \A g \in sel : Row(b, g) \in ChunkRows(b)

\* fixed_candidate_blocks.
BlockPasses(b) == \A g \in sel : PosRow(cb, g) \in BlockRows(b)

-----------------------------------------------------------------------------
(* The verifier.                                                           *)

Occurs(x) == x + L <= N /\ \A k \in 1..L : text[x + k] = q[k]

WordAt(x) ==
  /\ x > 0 => text[x] \notin WordBytes
  /\ x + L < N => text[x + L + 1] \notin WordBytes

LineAt(x) ==
  /\ x > 0 => text[x] = Sep
  /\ x + L < N => text[x + L + 1] = Sep

Accepts(x) == (opt.word => WordAt(x)) /\ (opt.line => LineAt(x))

\* How far the scan moves on after a match.
Stride == IF opt.overlapping THEN 1 ELSE L

\* The region being scanned: matches begin before its core's end.
ScanCore ==
  CASE op = "whole" -> N [] op = "chunk" -> CoreEnd(cb) [] op = "block" -> BlockCore(bb)
ScanEnd ==
  CASE op = "whole" -> N [] op = "chunk" -> ExtEnd(cb) [] op = "block" -> BlockExt(bb)

\* anchor_find returns the first of the occurrences ahead.
Ahead  == {x \in at..ScanCore : x < ScanCore /\ x + L <= ScanEnd /\ Occurs(x)}
Finds(x) == x \in Ahead /\ \A y \in Ahead : x <= y

-----------------------------------------------------------------------------
\* planned_hashes may select any of the literal's q-grams, but at least one.
Init ==
  /\ text \in Texts /\ q \in Queries
  /\ opt \in [overlapping : BOOLEAN, word : BOOLEAN, line : BOOLEAN]
  /\ sel \in SUBSET Grams(q, 0, L)
  /\ sel = {} => L < Gram
  /\ op = "none" /\ pc = "plan"
  /\ cb = 0 /\ bb = 0 /\ at = 0 /\ next = 0
  /\ out = <<>>

\* fixed_guard_eligible: only then may the planner's estimates decide.
Guarded ==
  /\ Gram <= L /\ L <= Look /\ L <= Over
  /\ ~opt.word /\ ~opt.line /\ ~opt.overlapping

Operators ==
  IF L > Over THEN {"whole"}
  ELSE IF Guarded THEN {"whole", "chunk", "block"}
  ELSE IF opt.word \/ opt.line \/ L > Look THEN {"chunk"}
  ELSE {"block"}

Plan ==
  /\ pc = "plan"
  /\ pc' = "chunk"
  /\ op' \in Operators
  /\ UNCHANGED <<inputs, cb, bb, at, next, out>>

HasChunk == cb < N \/ cb = 0          \* an empty file has one empty chunk

\* A bug to compare with: every operator goes on with the blocks.
ChunkBlocks ==
  /\ pc = "chunk" /\ HasChunk
  /\ IF ChunkPasses(cb)
       THEN pc' = "block" /\ at' = cb /\ bb' = cb /\ UNCHANGED cb
       ELSE cb' = cb + Core /\ UNCHANGED <<pc, bb, at>>
  /\ UNCHANGED <<inputs, op, next, out>>

\* The whole file is scanned as soon as one of its chunks passes.
Chunk ==
  /\ pc = "chunk" /\ HasChunk
  /\ IF ChunkPasses(cb)
       THEN /\ pc' = IF op = "block" THEN "block" ELSE "scan"
            /\ at' = IF op = "whole" THEN 0 ELSE cb
            /\ bb' = cb
            /\ UNCHANGED cb
       ELSE cb' = cb + Core /\ UNCHANGED <<pc, bb, at>>
  /\ UNCHANGED <<inputs, op, next, out>>

LastChunk ==
  /\ pc = "chunk" /\ ~HasChunk
  /\ pc' = "done"
  /\ UNCHANGED <<inputs, op, cb, bb, at, next, out>>

HasBlock == bb < CoreEnd(cb)

BlockStep ==
  /\ pc = "block" /\ HasBlock
  /\ IF BlockPasses(bb)
       THEN pc' = "scan" /\ at' = bb /\ UNCHANGED bb
       ELSE bb' = bb + Block /\ UNCHANGED <<pc, at>>
  /\ UNCHANGED <<inputs, op, cb, next, out>>

LastBlock ==
  /\ pc = "block" /\ ~HasBlock
  /\ pc' = "chunk"
  /\ cb' = cb + Core
  /\ UNCHANGED <<inputs, op, bb, at, next, out>>

\* The options turn an occurrence down: the scan moves on as after a match.
Reject ==
  /\ pc = "scan"
  /\ \E x \in Ahead : Finds(x) /\ ~Accepts(x) /\ at' = x + Stride
  /\ UNCHANGED <<inputs, op, pc, cb, bb, next, out>>

\* A bug to compare with: each region starts over, unaware of earlier matches.
OverlappedNever(x) == FALSE

\* The last match of an earlier region reaches beyond x.
Overlapped(x) == op # "whole" /\ ~opt.overlapping /\ x < next

Skip ==
  /\ pc = "scan"
  /\ \E x \in Ahead : Finds(x) /\ Accepts(x) /\ Overlapped(x) /\ at' = x + 1
  /\ UNCHANGED <<inputs, op, pc, cb, bb, next, out>>

Emit ==
  /\ pc = "scan"
  /\ \E x \in Ahead :
       /\ Finds(x) /\ Accepts(x) /\ ~Overlapped(x)
       /\ out' = Append(out, x)
       /\ next' = IF op # "whole" /\ ~opt.overlapping THEN x + Stride ELSE next
       /\ at' = x + Stride
  /\ UNCHANGED <<inputs, op, pc, cb, bb>>

RegionEnd ==
  /\ pc = "scan" /\ Ahead = {}
  /\ \/ op = "whole" /\ pc' = "done"  /\ UNCHANGED <<cb, bb>>
     \/ op = "chunk" /\ pc' = "chunk" /\ cb' = cb + Core /\ UNCHANGED bb
     \/ op = "block" /\ pc' = "block" /\ bb' = bb + Block /\ UNCHANGED cb
  /\ UNCHANGED <<inputs, op, at, next, out>>

Next ==
  \/ Plan \/ Chunk \/ LastChunk \/ BlockStep \/ LastBlock
  \/ Reject \/ Skip \/ Emit \/ RegionEnd

Spec == Init /\ [][Next]_vars

-----------------------------------------------------------------------------
(* Properties.                                                             *)

\* The type of the state.
TypeOK ==
  /\ text \in Texts /\ q \in Queries
  /\ opt \in [overlapping : BOOLEAN, word : BOOLEAN, line : BOOLEAN]
  /\ sel \subseteq Grams(q, 0, L)
  /\ op \in {"none", "whole", "chunk", "block"}
  /\ pc \in {"plan", "chunk", "block", "scan", "done"}
  /\ cb \in Nat /\ bb \in Nat /\ at \in Nat /\ next \in Nat
  /\ out \in Seq(Nat)
  /\ pc = "plan" <=> op = "none"
  /\ pc = "block" => op = "block"

\* The offsets a search without index, chunks or blocks would accept.
Hits == {x \in 0..N : Occurs(x) /\ Accepts(x)}

\* No accepted occurrence begins inside one that the options turn down.
Clean ==
  \/ opt.overlapping
  \/ ~opt.word /\ ~opt.line
  \/ \A i \in 1..(L - 1) : \/ opt.word /\ q[i] \in WordBytes
                           \/ opt.line /\ q[i] # Sep

\* A hit is reported, or it overlaps an earlier one that is reported.
Covered(h) == \E i \in DOMAIN out : out[i] <= h /\ h < out[i] + Stride

\* Every hit before this offset has been dealt with.
Frontier ==
  CASE pc = "plan"  -> 0
    [] pc = "chunk" -> cb
    [] pc = "block" -> Lesser(bb, CoreEnd(cb))
    [] pc = "scan"  -> at
    [] pc = "done"  -> N

Spaced == \A i, j \in DOMAIN out : i < j => out[i] + Stride <= out[j]

\* How far the search has come, whichever operator does it: the matches so far
\* are hits in order, and no hit before the frontier has been passed over.
Progress ==
  /\ \A i \in DOMAIN out : out[i] \in Hits
  /\ Spaced
  /\ Clean => \A h \in Hits : h < Frontier => Covered(h)
  /\ pc # "done" => \A i \in DOMAIN out : out[i] < Frontier

\* What the operators keep between regions.
Between ==
  /\ op = "whole" =>
       /\ pc = "chunk" => out = <<>>
       /\ pc = "scan" => \A i \in DOMAIN out : out[i] + Stride <= at
  /\ op # "whole" /\ ~opt.overlapping =>
       IF out = <<>> THEN next = 0
       ELSE /\ next = out[Len(out)] + Stride
            /\ \A i \in DOMAIN out : out[i] + Stride <= next
  /\ pc = "plan" => cb = 0
  /\ pc \in {"chunk", "block", "scan"} => op \in Operators
  /\ op = "block" /\ pc \in {"block", "scan"} => cb <= bb
  /\ op = "chunk" /\ pc = "scan" => cb <= at
  /\ op = "block" /\ pc = "scan" => bb <= at
  /\ pc = "scan" => \A i \in DOMAIN out : out[i] < ScanCore

\* The inductive invariant.
ScanInv == TypeOK /\ Progress /\ Between

\* Whatever operator the planner chooses, and wherever chunks and blocks end,
\* the search reports the matches of the reference scan: of the hits, from the
\* left, each that does not overlap the one before (all, under overlapping).
MatchesReference ==
  pc = "done" /\ Clean =>
    /\ \A i \in DOMAIN out : out[i] \in Hits
    /\ Spaced
    /\ \A h \in Hits : Covered(h)

\* The same for the word option whatever the literal consists of.
WordFound ==
  pc = "done" /\ opt.word /\ ~opt.line => \A h \in Hits : Covered(h)
=============================================================================
