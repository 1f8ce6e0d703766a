-------------------------- MODULE FixedScanProofs --------------------------
(***************************************************************************)
(* Proofs about FixedScan: for every set of files and literals, every      *)
(* layout of chunks and blocks, every hash and every choice of the         *)
(* planner, the search reports the matches of the reference scan.          *)
(***************************************************************************)
EXTENDS FixedScan, TLAPS, SequenceTheorems

-----------------------------------------------------------------------------
(* Facts about one state.                                                  *)

\* The literal has a length, and a scan always moves on.
LEMMA Lengths ==
  ASSUME TypeOK
  PROVE  /\ N \in Nat /\ text \in Seq(Bytes)
         /\ L \in Nat /\ L >= 1 /\ q \in Seq(Bytes)
         /\ Stride \in Nat /\ Stride >= 1
         /\ opt.overlapping => Stride = 1
         /\ ~opt.overlapping => Stride = L
         /\ opt.overlapping \in BOOLEAN /\ opt.word \in BOOLEAN /\ opt.line \in BOOLEAN
<1>1. text \in Seq(Bytes) /\ q \in Seq(Bytes) /\ q # <<>>
  BY ScanAssumption DEF TypeOK
<1>2. Len(q) # 0
  BY <1>1, EmptySeq
<1>3. Len(text) \in Nat /\ Len(q) \in Nat
  BY <1>1, LenProperties
<1> QED  BY <1>1, <1>2, <1>3 DEF TypeOK, N, L, Stride

\* Every q-gram of the literal is a q-gram of a region that holds it.
LEMMA GramsOfOccurrence ==
  ASSUME TypeOK, NEW h \in Nat, NEW b \in Nat, NEW e \in Nat,
         Occurs(h), b <= h, h + L <= e
  PROVE  Grams(q, 0, L) \subseteq Grams(text, b, e)
<1> USE Lengths, ScanAssumption
<1> SUFFICES ASSUME NEW k \in 0..L, k + Gram <= L
             PROVE  GramAt(q, k) \in Grams(text, b, e)
  BY DEF Grams
<1>1. \A i \in 1..Gram : q[k + i] = text[h + k + i]
  <2> SUFFICES ASSUME NEW i \in 1..Gram PROVE q[k + i] = text[h + k + i]
    OBVIOUS
  <2>1. k + i \in 1..L /\ h + (k + i) = h + k + i
    OBVIOUS
  <2> QED  BY <2>1 DEF Occurs
<1>2. GramAt(q, k) = GramAt(text, h + k)
  BY <1>1 DEF GramAt
<1>3. h + k \in b..e /\ (h + k) + Gram <= e
  OBVIOUS
<1> QED  BY <1>2, <1>3 DEF Grams

\* chunk_candidates never loses a chunk in which the literal begins.
LEMMA ChunkComplete ==
  ASSUME TypeOK, NEW h \in Nat, Occurs(h), cb <= h, h < CoreEnd(cb)
  PROVE  ChunkPasses(cb)
<1> USE Lengths, ScanAssumption
<1> SUFFICES ASSUME ~(L > Over) PROVE \A g \in sel : Row(cb, g) \in ChunkRows(cb)
  BY DEF ChunkPasses
<1>1. cb \in Nat /\ ExtEnd(cb) \in Nat
  BY DEF TypeOK, ExtEnd, CoreEnd, Lesser
<1>2. h + L <= ExtEnd(cb)
  BY <1>1 DEF ExtEnd, CoreEnd, Lesser, Occurs
<1>3. sel \subseteq Grams(text, cb, ExtEnd(cb))
  BY <1>1, <1>2, GramsOfOccurrence DEF TypeOK
<1> QED  BY <1>3 DEF ChunkRows

\* fixed_candidate_blocks never loses a block in which the literal begins.
LEMMA BlockComplete ==
  ASSUME TypeOK, NEW h \in Nat, Occurs(h), bb <= h, h < BlockCore(bb),
         L <= Look, L <= Over
  PROVE  BlockPasses(bb) /\ h + L <= BlockExt(bb)
<1> USE Lengths, ScanAssumption
<1>1. bb \in Nat /\ cb \in Nat /\ BlockExt(bb) \in Nat
  BY DEF TypeOK, BlockExt, ExtEnd, CoreEnd, Lesser
<1>2. h + L <= BlockExt(bb)
  BY <1>1 DEF BlockExt, BlockCore, ExtEnd, CoreEnd, Lesser, Occurs
<1>3. sel \subseteq Grams(text, bb, BlockExt(bb))
  BY <1>1, <1>2, GramsOfOccurrence DEF TypeOK
<1> QED  BY <1>2, <1>3 DEF BlockPasses, BlockRows

\* Only literals within reach of the overlap and the lookahead use blocks.
LEMMA OperatorReach ==
  ASSUME TypeOK, op \in Operators
  PROVE  /\ op \in {"whole", "chunk", "block"}
         /\ op # "whole" => L <= Over
         /\ op = "block" => L <= Look
BY Lengths, ScanAssumption DEF Operators, Guarded

\* CASE, spelled out.
LEMMA RegionIs ==
  /\ op = "whole" => ScanCore = N /\ ScanEnd = N
  /\ op = "chunk" => ScanCore = CoreEnd(cb) /\ ScanEnd = ExtEnd(cb)
  /\ op = "block" => ScanCore = BlockCore(bb) /\ ScanEnd = BlockExt(bb)
BY DEF ScanCore, ScanEnd

LEMMA FrontierIs ==
  /\ pc = "plan" => Frontier = 0
  /\ pc = "chunk" => Frontier = cb
  /\ pc = "block" => Frontier = Lesser(bb, CoreEnd(cb))
  /\ pc = "scan" => Frontier = at
  /\ pc = "done" => Frontier = N
BY DEF Frontier

\* What is ahead of a scan is every occurrence that begins in its region.
LEMMA RegionComplete ==
  ASSUME TypeOK, op \in Operators, NEW h \in Nat, Occurs(h), at <= h, h < ScanCore
  PROVE  h \in Ahead
<1> USE Lengths, ScanAssumption
<1>0. at \in Nat /\ cb \in Nat /\ bb \in Nat
  BY DEF TypeOK
<1>1. CASE op = "whole"
  BY <1>0, <1>1 DEF Ahead, ScanCore, ScanEnd, Occurs
<1>2. CASE op = "chunk"
  <2>1. h < CoreEnd(cb) /\ ScanCore = CoreEnd(cb) /\ ScanEnd = ExtEnd(cb) /\ L <= Over
    BY <1>2, OperatorReach DEF ScanCore, ScanEnd
  <2>2. h + L <= ExtEnd(cb) /\ CoreEnd(cb) \in Nat
    BY <1>0, <2>1 DEF ExtEnd, CoreEnd, Lesser, Occurs
  <2> QED  BY <1>0, <2>1, <2>2 DEF Ahead
<1>3. CASE op = "block"
  <2>1. h < BlockCore(bb) /\ ScanCore = BlockCore(bb) /\ ScanEnd = BlockExt(bb)
    BY <1>3 DEF ScanCore, ScanEnd
  <2>2. L <= Over /\ L <= Look /\ BlockCore(bb) \in Nat
    BY <1>0, <1>3, OperatorReach DEF BlockCore, CoreEnd, Lesser
  <2>3. CASE bb <= h
    BY <1>0, <2>1, <2>2, <2>3, BlockComplete DEF Ahead
  <2>4. CASE ~(bb <= h)
    <3>1. h + L <= BlockExt(bb)
      BY <1>0, <2>1, <2>2, <2>4 DEF BlockExt, BlockCore, ExtEnd, CoreEnd, Lesser, Occurs
    <3> QED  BY <1>0, <2>1, <2>2, <3>1 DEF Ahead
  <2> QED  BY <2>3, <2>4
<1> QED  BY <1>1, <1>2, <1>3, OperatorReach

\* No hit begins inside an occurrence that the options turn down.
LEMMA NoHitInside ==
  ASSUME TypeOK, Clean, NEW x \in Nat, Occurs(x), ~Accepts(x),
         NEW h \in Hits, x < h
  PROVE  ~(h < x + Stride)
<1> USE Lengths
<1> SUFFICES ASSUME h < x + Stride PROVE FALSE
  OBVIOUS
<1>1. h \in Nat /\ ~opt.overlapping /\ (opt.word \/ opt.line)
  BY DEF Hits, Accepts
<1>2. PICK i \in 1..(L - 1) : h = x + i
  <2>1. h - x \in 1..(L - 1) /\ h = x + (h - x)
    BY <1>1
  <2> QED  BY <2>1
<1>3. text[h] = q[i]
  BY <1>2 DEF Occurs
<1>4. (opt.word => text[h] \notin WordBytes) /\ (opt.line => text[h] = Sep)
  BY <1>1 DEF Hits, Accepts, WordAt, LineAt
<1>5. (opt.word /\ q[i] \in WordBytes) \/ (opt.line /\ q[i] # Sep)
  BY <1>1, <1>2 DEF Clean
<1> QED  BY <1>3, <1>4, <1>5

\* A hit that lies before the next permitted position overlaps the last match.
LEMMA OverlappedCovered ==
  ASSUME TypeOK, Progress, Between, NEW x \in Nat, Overlapped(x), pc = "scan", at <= x
  PROVE  Covered(x)
<1> USE Lengths
<1>1. op # "whole" /\ ~opt.overlapping /\ x < next
  BY DEF Overlapped
<1>2. out # <<>> /\ next = out[Len(out)] + Stride
  BY <1>1 DEF Between
<1>3. Len(out) \in DOMAIN out
  BY <1>2 DEF TypeOK
<1>4. out[Len(out)] < at
  BY <1>3 DEF Progress, Frontier
<1>5. out[Len(out)] \in Nat /\ at \in Nat
  BY <1>3 DEF TypeOK
<1> QED  BY <1>1, <1>2, <1>3, <1>4, <1>5 DEF Covered

-----------------------------------------------------------------------------
(* The steps.                                                              *)

LEMMA SameInputs ==
  ASSUME UNCHANGED inputs
  PROVE  /\ text' = text /\ q' = q /\ opt' = opt /\ sel' = sel
         /\ N' = N /\ L' = L /\ Stride' = Stride
         /\ Hits' = Hits /\ (Clean' <=> Clean) /\ Operators' = Operators
<1>1. text' = text /\ q' = q /\ opt' = opt /\ sel' = sel
  BY DEF inputs
<1>2. N' = N /\ L' = L /\ Stride' = Stride
  BY <1>1 DEF N, L, Stride
<1>3. Hits' = Hits
  BY <1>1, <1>2 DEF Hits, Occurs, Accepts, WordAt, LineAt
<1>4. Clean' <=> Clean
  BY <1>1, <1>2 DEF Clean
<1>5. Operators' = Operators
  BY <1>1, <1>2 DEF Operators, Guarded
<1> QED  BY <1>1, <1>2, <1>3, <1>4, <1>5

LEMMA InitInv == Init => ScanInv
<1> SUFFICES ASSUME Init PROVE ScanInv
  OBVIOUS
<1>1. TypeOK
  BY DEF Init, TypeOK
<1>2. Progress
  BY <1>1, Lengths DEF Init, Progress, Spaced, Frontier, Hits
<1>3. Between
  BY DEF Init, Between
<1> QED  BY <1>1, <1>2, <1>3 DEF ScanInv

LEMMA TypeStep ==
  ASSUME TypeOK, [Next]_vars
  PROVE  TypeOK'
<1> USE Lengths, ScanAssumption
<1>0. ASSUME UNCHANGED inputs
      PROVE  Grams(q, 0, L)' = Grams(q, 0, L)
  BY <1>0, SameInputs DEF Grams, GramAt
<1>1. CASE Plan
  BY <1>0, <1>1, SameInputs DEF TypeOK, Plan, Operators, inputs
<1>2. CASE Chunk
  BY <1>0, <1>2, SameInputs DEF TypeOK, Chunk, inputs
<1>3. CASE LastChunk
  BY <1>0, <1>3, SameInputs DEF TypeOK, LastChunk, inputs
<1>4. CASE BlockStep
  BY <1>0, <1>4, SameInputs DEF TypeOK, BlockStep, inputs
<1>5. CASE LastBlock
  BY <1>0, <1>5, SameInputs DEF TypeOK, LastBlock, inputs
<1>6. CASE Reject
  BY <1>0, <1>6, SameInputs DEF TypeOK, Reject, Ahead, inputs
<1>7. CASE Skip
  BY <1>0, <1>7, SameInputs DEF TypeOK, Skip, Ahead, inputs
<1>8. CASE Emit
  BY <1>0, <1>8, SameInputs DEF TypeOK, Emit, Ahead, inputs
<1>9. CASE RegionEnd
  BY <1>0, <1>9, SameInputs DEF TypeOK, RegionEnd, inputs
<1>10. CASE UNCHANGED vars
  BY <1>0, <1>10, SameInputs DEF TypeOK, vars, inputs
<1> QED
  BY <1>1, <1>2, <1>3, <1>4, <1>5, <1>6, <1>7, <1>8, <1>9, <1>10 DEF Next

\* A step that reports nothing keeps the progress made when it passes over no
\* hit that matters and stays behind no match.
LEMMA QuietStep ==
  ASSUME ScanInv, TypeOK', UNCHANGED inputs, out' = out,
         \A h \in Hits : Clean /\ Frontier <= h /\ h < Frontier' => Covered(h),
         pc' # "done" => \A i \in DOMAIN out : out[i] < Frontier'
  PROVE  Progress'
<1> USE Lengths DEF ScanInv
<1>1. Hits' = Hits /\ (Clean' <=> Clean) /\ Stride' = Stride
  BY SameInputs
<1>2. \A h : Covered(h)' <=> Covered(h)
  BY <1>1 DEF Covered
<1>3. Spaced'
  BY <1>1 DEF Spaced, Progress
<1>4. Frontier \in Nat
  <2>1. Lesser(bb, CoreEnd(cb)) \in Nat
    BY ScanAssumption DEF CoreEnd, Lesser, TypeOK
  <2> QED  BY <2>1, FrontierIs DEF TypeOK
<1>5. ASSUME Clean', NEW h \in Hits', h < Frontier'
      PROVE  Covered(h)'
  <2>1. h \in Nat /\ h \in Hits /\ Clean
    BY <1>1, <1>5 DEF Hits
  <2>2. CASE h < Frontier
    BY <2>1, <2>2, <1>2 DEF Progress
  <2>3. CASE ~(h < Frontier)
    BY <2>1, <2>3, <1>2, <1>4, <1>5
  <2> QED  BY <2>2, <2>3
<1> QED  BY <1>1, <1>3, <1>5 DEF Progress

\* Where a scan stands, and what it has passed over when it has found x.
LEMMA FirstFound ==
  ASSUME ScanInv, pc = "scan", NEW x \in Ahead, Finds(x)
  PROVE  /\ x \in Nat /\ at <= x /\ x < ScanCore /\ Occurs(x) /\ x <= N
         /\ Frontier = at
         /\ \A h \in Hits : at <= h => x <= h
<1> USE Lengths DEF ScanInv
<1>1. at \in Nat /\ x \in Nat /\ at <= x /\ x < ScanCore /\ Occurs(x)
  BY DEF TypeOK, Ahead
<1>2. Frontier = at
  BY DEF Frontier
<1>3. x <= N
  BY <1>1 DEF Occurs
<1>4. ScanCore \in Nat
  <2>1. op \in {"whole", "chunk", "block"}
    BY OperatorReach DEF Between
  <2>2. CoreEnd(cb) \in Nat /\ BlockCore(bb) \in Nat
    BY ScanAssumption DEF CoreEnd, BlockCore, Lesser, TypeOK
  <2> QED  BY <2>1, <2>2, RegionIs
<1>5. ASSUME NEW h \in Hits, at <= h PROVE x <= h
  <2>1. h \in Nat /\ Occurs(h)
    BY DEF Hits
  <2>2. CASE h < ScanCore
    BY <2>1, <2>2, <1>5, RegionComplete DEF Finds, Between
  <2>3. CASE ~(h < ScanCore)
    BY <2>1, <2>3, <1>1, <1>4
  <2> QED  BY <2>2, <2>3
<1> QED  BY <1>1, <1>2, <1>3, <1>5

LEMMA PlanStep ==
  ASSUME ScanInv, TypeOK', Plan
  PROVE  Progress' /\ Between'
<1> USE Lengths DEF ScanInv
<1>1. UNCHANGED inputs /\ out' = out /\ cb' = cb /\ next' = next /\ pc = "plan" /\ pc' = "chunk"
  BY DEF Plan
<1>2. cb = 0 /\ Frontier = 0 /\ Frontier' = 0
  BY <1>1 DEF Between, Frontier
<1>3. out = <<>>
  <2>1. \A i \in DOMAIN out : out[i] < 0 /\ out[i] \in Nat
    BY <1>1, <1>2 DEF Progress, TypeOK
  <2>2. ~\E i \in DOMAIN out : TRUE
    BY <2>1
  <2>3. out \in Seq(Nat) /\ DOMAIN out = 1..Len(out) /\ Len(out) \in Nat
    BY LenProperties DEF TypeOK
  <2>4. Len(out) # 0 => Len(out) \in DOMAIN out
    BY <2>3
  <2> QED  BY <2>2, <2>3, <2>4, EmptySeq
<1>4. Progress'
  <2>1. \A h \in Hits : ~(Frontier <= h /\ h < Frontier')
    BY <1>2 DEF Hits
  <2> QED  BY <1>1, <1>2, <1>3, <2>1, QuietStep
<1>5. Between'
  <2>1. op = "none" /\ op' \in Operators /\ Operators' = Operators /\ opt' = opt
    BY <1>1, SameInputs DEF Plan, TypeOK
  <2> QED  BY <1>1, <1>3, <2>1 DEF Between
<1> QED  BY <1>4, <1>5

LEMMA ChunkStep ==
  ASSUME ScanInv, TypeOK', Chunk
  PROVE  Progress' /\ Between'
<1> USE Lengths DEF ScanInv
<1>0. /\ UNCHANGED inputs /\ out' = out /\ next' = next /\ op' = op
      /\ pc = "chunk" /\ Frontier = cb /\ cb \in Nat /\ HasChunk
  BY FrontierIs DEF Chunk, TypeOK
<1>1. /\ N' = N /\ Operators' = Operators /\ opt' = opt /\ Stride' = Stride
      /\ op \in Operators /\ op \in {"whole", "chunk", "block"}
  BY <1>0, SameInputs, OperatorReach DEF Between
<1>2. \A i \in DOMAIN out : out[i] < cb /\ out[i] \in Nat
  BY <1>0 DEF Progress, TypeOK
<1>3. CASE ChunkPasses(cb)
  <2>1. cb' = cb /\ bb' = cb /\ CoreEnd(cb)' = CoreEnd(cb)
    BY <1>1, <1>3 DEF Chunk, CoreEnd, Lesser
  <2>2. CASE op = "block"
    <3>1. pc' = "block" /\ Frontier' = Lesser(cb, CoreEnd(cb))
      BY <1>3, <2>1, <2>2 DEF Chunk, Frontier
    <3>2. Frontier' = cb
      BY <1>0, <3>1, ScanAssumption DEF HasChunk, Lesser, CoreEnd
    <3>3. Progress'
      BY <1>0, <1>2, <3>2, QuietStep DEF Hits
    <3>4. Between'
      BY <1>0, <1>1, <2>1, <2>2, <3>1 DEF Between
    <3> QED  BY <3>3, <3>4
  <2>3. CASE op = "chunk"
    <3>1. pc' = "scan" /\ at' = cb /\ Frontier' = cb
      BY <1>3, <2>3 DEF Chunk, Frontier
    <3>2. Progress'
      BY <1>0, <1>2, <3>1, QuietStep DEF Hits
    <3>3. \A i \in DOMAIN out : out[i] < CoreEnd(cb)
      BY <1>0, <1>2, ScanAssumption DEF HasChunk, Lesser, CoreEnd
    <3>4. ScanCore' = CoreEnd(cb)
      BY <1>0, <2>1, <2>3 DEF ScanCore
    <3>5. Between'
      BY <1>0, <1>1, <2>1, <2>3, <3>1, <3>3, <3>4 DEF Between
    <3> QED  BY <3>2, <3>5
  <2>4. CASE op = "whole"
    <3>1. pc' = "scan" /\ at' = 0 /\ Frontier' = 0 /\ out = <<>>
      BY <1>0, <1>3, <2>4 DEF Chunk, Frontier, Between
    <3>2. Progress'
      BY <1>0, <3>1, QuietStep DEF Hits
    <3>3. Between'
      BY <1>0, <1>1, <2>1, <2>4, <3>1 DEF Between
    <3> QED  BY <3>2, <3>3
  <2> QED  BY <1>1, <2>2, <2>3, <2>4
<1>4. CASE ~ChunkPasses(cb)
  <2>1. pc' = "chunk" /\ cb' = cb + Core /\ Frontier' = cb + Core
    BY <1>0, <1>4 DEF Chunk, Frontier
  <2>2. \A h \in Hits : ~(cb <= h /\ h < cb + Core)
    <3> SUFFICES ASSUME NEW h \in Hits, cb <= h, h < cb + Core PROVE FALSE
      OBVIOUS
    <3>1. h \in Nat /\ Occurs(h) /\ h < N
      BY DEF Hits, Occurs
    <3>2. h < CoreEnd(cb)
      BY <3>1 DEF CoreEnd, Lesser
    <3> QED  BY <1>4, <3>1, <3>2, ChunkComplete
  <2>3. Progress'
    BY <1>0, <1>2, <2>1, <2>2, QuietStep, ScanAssumption
  <2>4. Between'
    BY <1>0, <1>1, <2>1 DEF Between
  <2> QED  BY <2>3, <2>4
<1> QED  BY <1>3, <1>4

LEMMA LastChunkStep ==
  ASSUME ScanInv, TypeOK', LastChunk
  PROVE  Progress' /\ Between'
<1> USE Lengths DEF ScanInv
<1>1. /\ UNCHANGED inputs /\ out' = out /\ next' = next /\ op' = op
      /\ pc = "chunk" /\ pc' = "done" /\ Frontier = cb /\ cb \in Nat /\ N <= cb
  BY FrontierIs DEF LastChunk, HasChunk, TypeOK
<1>2. N' = N /\ opt' = opt /\ Stride' = Stride
  BY <1>1, SameInputs
<1>3. Frontier' = N
  BY <1>1, <1>2 DEF Frontier
<1>4. Progress'
  BY <1>1, <1>3, QuietStep DEF Hits
<1>5. Between'
  BY <1>1, <1>2 DEF Between
<1> QED  BY <1>4, <1>5

LEMMA BlockStepStep ==
  ASSUME ScanInv, TypeOK', BlockStep
  PROVE  Progress' /\ Between'
<1> USE Lengths DEF ScanInv
<1>0. /\ UNCHANGED inputs /\ out' = out /\ next' = next /\ op' = op /\ cb' = cb
      /\ pc = "block" /\ op = "block" /\ cb \in Nat /\ bb \in Nat /\ cb <= bb
      /\ bb < CoreEnd(cb) /\ CoreEnd(cb) \in Nat
  BY ScanAssumption DEF BlockStep, HasBlock, TypeOK, Between, CoreEnd, Lesser
<1>1. /\ N' = N /\ Operators' = Operators /\ opt' = opt /\ Stride' = Stride
      /\ op \in Operators /\ CoreEnd(cb)' = CoreEnd(cb)
  BY <1>0, SameInputs DEF Between, CoreEnd, Lesser
<1>2. Frontier = bb
  BY <1>0, FrontierIs DEF Lesser
<1>3. \A i \in DOMAIN out : out[i] < bb /\ out[i] \in Nat
  BY <1>0, <1>2 DEF Progress, TypeOK
<1>4. CASE BlockPasses(bb)
  <2>1. pc' = "scan" /\ at' = bb /\ bb' = bb /\ Frontier' = bb
    BY <1>4 DEF BlockStep, Frontier
  <2>2. Progress'
    BY <1>0, <1>2, <1>3, <2>1, QuietStep DEF Hits
  <2>3. ScanCore' = BlockCore(bb) /\ bb < BlockCore(bb) /\ BlockCore(bb) \in Nat
    BY <1>0, <1>1, <2>1, ScanAssumption DEF ScanCore, BlockCore, Lesser
  <2>4. \A i \in DOMAIN out : out[i] < BlockCore(bb)
    BY <1>0, <1>3, <2>3
  <2>5. Between'
    BY <1>0, <1>1, <2>1, <2>3, <2>4 DEF Between
  <2> QED  BY <2>2, <2>5
<1>5. CASE ~BlockPasses(bb)
  <2>1. pc' = "block" /\ bb' = bb + Block
    BY <1>0, <1>5 DEF BlockStep
  <2>2. Frontier' = BlockCore(bb) /\ bb <= BlockCore(bb) /\ BlockCore(bb) \in Nat
    <3>1. Frontier' = Lesser(bb + Block, CoreEnd(cb))
      BY <1>1, <2>1 DEF Frontier, Lesser
    <3> QED  BY <1>0, <3>1, ScanAssumption DEF BlockCore, Lesser
  <2>3. \A h \in Hits : ~(bb <= h /\ h < BlockCore(bb))
    <3> SUFFICES ASSUME NEW h \in Hits, bb <= h, h < BlockCore(bb) PROVE FALSE
      OBVIOUS
    <3>1. h \in Nat /\ Occurs(h) /\ L <= Over /\ L <= Look
      BY <1>0, <1>1, OperatorReach DEF Hits
    <3> QED  BY <1>5, <3>1, BlockComplete
  <2>4. \A i \in DOMAIN out : out[i] < BlockCore(bb)
    BY <1>0, <1>2, <1>3, <2>2
  <2>5. Progress'
    BY <1>0, <1>2, <2>2, <2>3, <2>4, QuietStep
  <2>6. Between'
    BY <1>0, <1>1, <2>1, ScanAssumption DEF Between
  <2> QED  BY <2>5, <2>6
<1> QED  BY <1>4, <1>5

LEMMA LastBlockStep ==
  ASSUME ScanInv, TypeOK', LastBlock
  PROVE  Progress' /\ Between'
<1> USE Lengths DEF ScanInv
<1>0. /\ UNCHANGED inputs /\ out' = out /\ next' = next /\ op' = op
      /\ pc = "block" /\ op = "block" /\ pc' = "chunk" /\ cb' = cb + Core
      /\ cb \in Nat /\ bb \in Nat /\ ~(bb < CoreEnd(cb)) /\ CoreEnd(cb) \in Nat
  BY ScanAssumption DEF LastBlock, HasBlock, TypeOK, CoreEnd, Lesser
<1>1. /\ N' = N /\ Operators' = Operators /\ opt' = opt /\ Stride' = Stride
      /\ op \in Operators
  BY <1>0, SameInputs DEF Between
<1>2. Frontier = CoreEnd(cb) /\ Frontier' = cb + Core
  BY <1>0, FrontierIs DEF Lesser, Frontier
<1>3. \A h \in Hits : ~(CoreEnd(cb) <= h /\ h < cb + Core)
  <2> SUFFICES ASSUME NEW h \in Hits, CoreEnd(cb) <= h, h < cb + Core PROVE FALSE
    OBVIOUS
  <2>1. h \in Nat /\ h < N
    BY DEF Hits, Occurs
  <2> QED  BY <1>0, <2>1, ScanAssumption DEF CoreEnd, Lesser
<1>4. \A i \in DOMAIN out : out[i] < cb + Core
  <2>1. CoreEnd(cb) <= cb + Core
    BY <1>0, ScanAssumption DEF CoreEnd, Lesser
  <2>2. \A i \in DOMAIN out : out[i] < CoreEnd(cb) /\ out[i] \in Nat
    BY <1>0, <1>2 DEF Progress, TypeOK
  <2> QED  BY <1>0, <2>1, <2>2, ScanAssumption
<1>5. Progress'
  BY <1>0, <1>2, <1>3, <1>4, QuietStep
<1>6. Between'
  BY <1>0, <1>1 DEF Between
<1> QED  BY <1>5, <1>6

\* The region does not move while it is scanned.
LEMMA SameRegion ==
  ASSUME UNCHANGED <<inputs, op, pc, cb, bb>>
  PROVE  ScanCore' = ScanCore
<1>1. N' = N
  BY SameInputs
<1>2. CoreEnd(cb)' = CoreEnd(cb) /\ BlockCore(bb)' = BlockCore(bb)
  BY <1>1 DEF CoreEnd, BlockCore, Lesser
<1> QED  BY <1>1, <1>2 DEF ScanCore

LEMMA RejectStep ==
  ASSUME ScanInv, TypeOK', Reject
  PROVE  Progress' /\ Between'
<1> USE Lengths DEF ScanInv
<1>0. /\ UNCHANGED inputs /\ out' = out /\ next' = next /\ op' = op /\ cb' = cb
      /\ bb' = bb /\ pc = "scan" /\ pc' = "scan" /\ at \in Nat
  BY DEF Reject, TypeOK
<1>1. PICK x \in Ahead : Finds(x) /\ ~Accepts(x) /\ at' = x + Stride
  BY DEF Reject
<1>2. /\ x \in Nat /\ at <= x /\ Occurs(x) /\ Frontier = at
      /\ \A h \in Hits : at <= h => x <= h
  BY <1>0, <1>1, FirstFound
<1>3. Frontier' = x + Stride
  BY <1>0, <1>1 DEF Frontier
<1>4. ASSUME NEW h \in Hits, Clean, at <= h, h < x + Stride PROVE FALSE
  <2>1. h \in Nat /\ x <= h /\ Accepts(h)
    BY <1>2, <1>4 DEF Hits
  <2>2. h # x
    BY <1>1, <2>1
  <2>3. x < h
    BY <1>2, <2>1, <2>2
  <2> QED  BY <1>1, <1>2, <1>4, <2>3, NoHitInside
<1>5. \A i \in DOMAIN out : out[i] < x + Stride /\ out[i] + Stride <= x + Stride
  <2>1. \A i \in DOMAIN out : out[i] < at /\ out[i] \in Nat
    BY <1>0, <1>2 DEF Progress, TypeOK
  <2> QED  BY <1>0, <1>2, <2>1
<1>6. Progress'
  BY <1>0, <1>2, <1>3, <1>4, <1>5, QuietStep
<1>7. Between'
  <2>1. ScanCore' = ScanCore /\ Operators' = Operators /\ opt' = opt /\ Stride' = Stride
    BY <1>0, SameRegion, SameInputs
  <2>2. at <= at' /\ at' \in Nat /\ cb \in Nat /\ bb \in Nat
    BY <1>0, <1>1, <1>2 DEF TypeOK
  <2> QED  BY <1>0, <1>1, <1>5, <2>1, <2>2 DEF Between
<1> QED  BY <1>6, <1>7

LEMMA SkipStep ==
  ASSUME ScanInv, TypeOK', Skip
  PROVE  Progress' /\ Between'
<1> USE Lengths DEF ScanInv
<1>0. /\ UNCHANGED inputs /\ out' = out /\ next' = next /\ op' = op /\ cb' = cb
      /\ bb' = bb /\ pc = "scan" /\ pc' = "scan" /\ at \in Nat
  BY DEF Skip, TypeOK
<1>1. PICK x \in Ahead : Finds(x) /\ Overlapped(x) /\ at' = x + 1
  BY DEF Skip
<1>2. /\ x \in Nat /\ at <= x /\ Frontier = at
      /\ \A h \in Hits : at <= h => x <= h
  BY <1>0, <1>1, FirstFound
<1>3. Frontier' = x + 1 /\ op # "whole"
  BY <1>0, <1>1 DEF Frontier, Overlapped
<1>4. ASSUME NEW h \in Hits, at <= h, h < x + 1 PROVE Covered(h)
  <2>1. h = x
    BY <1>2, <1>4 DEF Hits
  <2> QED  BY <1>0, <1>1, <1>2, <2>1, OverlappedCovered
<1>5. \A i \in DOMAIN out : out[i] < x + 1
  <2>1. \A i \in DOMAIN out : out[i] < at /\ out[i] \in Nat
    BY <1>0, <1>2 DEF Progress, TypeOK
  <2> QED  BY <1>0, <1>2, <2>1
<1>6. Progress'
  BY <1>0, <1>2, <1>3, <1>4, <1>5, QuietStep
<1>7. Between'
  <2>1. ScanCore' = ScanCore /\ Operators' = Operators /\ opt' = opt /\ Stride' = Stride
    BY <1>0, SameRegion, SameInputs
  <2>2. at <= at' /\ at' \in Nat /\ cb \in Nat /\ bb \in Nat
    BY <1>0, <1>1, <1>2 DEF TypeOK
  <2> QED  BY <1>0, <1>3, <2>1, <2>2 DEF Between
<1> QED  BY <1>6, <1>7

LEMMA EmitStep ==
  ASSUME ScanInv, TypeOK', Emit
  PROVE  Progress' /\ Between'
<1> USE Lengths DEF ScanInv
<1>0. /\ UNCHANGED inputs /\ op' = op /\ cb' = cb /\ bb' = bb /\ at \in Nat
      /\ pc = "scan" /\ pc' = "scan" /\ out \in Seq(Nat) /\ op \in Operators
  BY DEF Emit, TypeOK, Between
<1>1. PICK x \in Ahead :
        /\ Finds(x) /\ Accepts(x) /\ ~Overlapped(x)
        /\ out' = Append(out, x)
        /\ next' = IF op # "whole" /\ ~opt.overlapping THEN x + Stride ELSE next
        /\ at' = x + Stride
  BY DEF Emit
<1>2. /\ x \in Nat /\ at <= x /\ x < ScanCore /\ Occurs(x) /\ x <= N /\ Frontier = at
      /\ \A h \in Hits : at <= h => x <= h
  BY <1>0, <1>1, FirstFound
<1>3. /\ N' = N /\ Operators' = Operators /\ opt' = opt /\ Stride' = Stride
      /\ Hits' = Hits /\ (Clean' <=> Clean) /\ ScanCore' = ScanCore
  BY <1>0, SameInputs, SameRegion
<1>4. Frontier' = x + Stride
  BY <1>0, <1>1 DEF Frontier
\* The sequence of matches grows at its end.
<1>5. /\ Len(out) \in Nat /\ Len(out') = Len(out) + 1
      /\ DOMAIN out = 1..Len(out) /\ DOMAIN out' = 1..(Len(out) + 1)
      /\ \A i \in DOMAIN out : out'[i] = out[i] /\ out[i] \in Nat
      /\ out'[Len(out) + 1] = x
  BY <1>0, <1>1, <1>2
<1>6. x \in Hits
  BY <1>1, <1>2 DEF Hits
<1>7. \A i \in DOMAIN out : out[i] < at
  BY <1>0, <1>2 DEF Progress
\* The new match does not overlap the earlier ones.
<1>8. \A i \in DOMAIN out : out[i] + Stride <= x
  <2> SUFFICES ASSUME NEW i \in DOMAIN out PROVE out[i] + Stride <= x
    OBVIOUS
  <2>0. out[i] \in Nat /\ out[i] < at
    BY <1>5, <1>7
  <2>1. CASE op = "whole"
    <3>1. out[i] + Stride <= at
      BY <1>0, <2>1 DEF Between
    <3> QED  BY <1>0, <1>2, <2>0, <3>1
  <2>2. CASE opt.overlapping
    BY <1>0, <1>2, <2>0, <2>2
  <2>3. CASE op # "whole" /\ ~opt.overlapping
    <3>1. out # <<>>
      BY <1>5
    <3>2. out[i] + Stride <= next /\ next \in Nat
      BY <2>3, <3>1 DEF Between, TypeOK
    <3>3. next <= x
      BY <1>1, <1>2, <2>3, <3>2 DEF Overlapped
    <3> QED  BY <1>2, <2>0, <3>2, <3>3
  <2> QED  BY <2>1, <2>2, <2>3
<1>9. Progress'
  <2>1. \A i \in DOMAIN out' : out'[i] \in Hits
    BY <1>5, <1>6 DEF Progress
  <2>2. Spaced'
    <3> SUFFICES ASSUME NEW i \in DOMAIN out', NEW j \in DOMAIN out', i < j
                 PROVE  out'[i] + Stride <= out'[j]
      BY <1>3 DEF Spaced
    <3>1. i \in DOMAIN out /\ out'[i] = out[i]
      BY <1>5
    <3>2. CASE j \in DOMAIN out
      BY <1>5, <3>1, <3>2 DEF Progress, Spaced
    <3>3. CASE j = Len(out) + 1
      BY <1>5, <1>8, <3>1, <3>3
    <3> QED  BY <1>5, <3>2, <3>3
  <2>3. ASSUME Clean', NEW h \in Hits', h < Frontier' PROVE Covered(h)'
    <3>1. h \in Hits /\ h \in Nat /\ Clean
      BY <1>3, <2>3 DEF Hits
    <3>2. CASE h < at
      <4>1. PICK i \in DOMAIN out : out[i] <= h /\ h < out[i] + Stride
        BY <1>2, <3>1, <3>2 DEF Progress, Covered
      <4>2. i \in DOMAIN out' /\ out'[i] = out[i]
        BY <1>5
      <4> QED  BY <1>3, <4>1, <4>2 DEF Covered
    <3>3. CASE ~(h < at)
      <4>1. x <= h /\ h < x + Stride
        BY <1>0, <1>2, <1>4, <2>3, <3>1, <3>3
      <4>2. Len(out) + 1 \in DOMAIN out'
        BY <1>5
      <4> QED  BY <1>3, <1>5, <4>1, <4>2 DEF Covered
    <3> QED  BY <3>2, <3>3
  <2>4. \A i \in DOMAIN out' : out'[i] < Frontier'
    <3>1. x < x + Stride
      BY <1>2
    <3>2. \A i \in DOMAIN out : out[i] < x + Stride
      BY <1>0, <1>2, <1>5, <1>7
    <3> QED  BY <1>4, <1>5, <3>1, <3>2
  <2> QED  BY <1>3, <2>1, <2>2, <2>3, <2>4 DEF Progress
<1>10. Between'
  <2>1. \A i \in DOMAIN out' : out'[i] + Stride <= x + Stride
    BY <1>2, <1>5, <1>8
  <2>2. out' # <<>> /\ out'[Len(out')] = x
    BY <1>5
  <2>3. \A i \in DOMAIN out' : out'[i] < ScanCore
    BY <1>0, <1>2, <1>5 DEF Between
  <2>4. at <= at' /\ at' \in Nat /\ cb \in Nat /\ bb \in Nat
    BY <1>0, <1>1, <1>2 DEF TypeOK
  <2>5. op' = "whole" => \A i \in DOMAIN out' : out'[i] + Stride' <= at'
    BY <1>1, <1>3, <2>1
  <2>6. op' # "whole" /\ ~opt'.overlapping =>
          /\ next' = out'[Len(out')] + Stride'
          /\ \A i \in DOMAIN out' : out'[i] + Stride' <= next'
    BY <1>0, <1>1, <1>3, <2>1, <2>2
  <2>7. /\ op' = "block" => cb' <= bb' /\ bb' <= at'
        /\ op' = "chunk" => cb' <= at'
    BY <1>0, <2>4 DEF Between
  <2> QED  BY <1>0, <1>3, <2>2, <2>3, <2>5, <2>6, <2>7 DEF Between
<1> QED  BY <1>9, <1>10

LEMMA RegionEndStep ==
  ASSUME ScanInv, TypeOK', RegionEnd
  PROVE  Progress' /\ Between'
<1> USE Lengths DEF ScanInv
<1>0. /\ UNCHANGED inputs /\ out' = out /\ next' = next /\ op' = op
      /\ pc = "scan" /\ op \in Operators /\ op \in {"whole", "chunk", "block"}
      /\ Frontier = at /\ at \in Nat /\ cb \in Nat /\ bb \in Nat
  BY FrontierIs, OperatorReach DEF RegionEnd, TypeOK, Between
<1>1. /\ N' = N /\ Operators' = Operators /\ opt' = opt /\ Stride' = Stride
  BY <1>0, SameInputs
\* Nothing is left in the region.
<1>2. \A h \in Hits : ~(at <= h /\ h < ScanCore)
  BY <1>0, RegionComplete DEF RegionEnd, Hits
<1>3. \A i \in DOMAIN out : out[i] < ScanCore /\ out[i] \in Nat
  BY <1>0 DEF Between, TypeOK
<1>4. \A h \in Hits : h \in Nat /\ h < N
  BY DEF Hits, Occurs
<1>5. CASE op = "whole"
  <2>1. pc' = "done" /\ Frontier' = N /\ ScanCore = N
    BY <1>1, <1>5, RegionIs DEF RegionEnd, Frontier
  <2>2. Progress'
    BY <1>0, <1>2, <2>1, QuietStep
  <2>3. Between'
    BY <1>0, <1>1, <1>5, <2>1 DEF Between
  <2> QED  BY <2>2, <2>3
<1>6. CASE op = "chunk"
  <2>1. pc' = "chunk" /\ cb' = cb + Core /\ Frontier' = cb + Core /\ ScanCore = CoreEnd(cb)
    BY <1>6, RegionIs DEF RegionEnd, Frontier
  <2>2. /\ \A h \in Nat : h < N /\ h < cb + Core => h < CoreEnd(cb)
        /\ CoreEnd(cb) \in Nat /\ CoreEnd(cb) <= cb + Core
    BY <1>0, ScanAssumption DEF CoreEnd, Lesser
  <2>3. \A h \in Hits : ~(at <= h /\ h < cb + Core)
    BY <1>2, <1>4, <2>1, <2>2
  <2>4. \A i \in DOMAIN out : out[i] < cb + Core
    BY <1>0, <1>3, <2>1, <2>2, ScanAssumption
  <2>5. Progress'
    BY <1>0, <2>1, <2>3, <2>4, QuietStep
  <2>6. Between'
    BY <1>0, <1>1, <1>6, <2>1 DEF Between
  <2> QED  BY <2>5, <2>6
<1>7. CASE op = "block"
  <2>1. /\ pc' = "block" /\ bb' = bb + Block /\ cb' = cb /\ ScanCore = BlockCore(bb)
        /\ CoreEnd(cb)' = CoreEnd(cb)
    BY <1>1, <1>7, RegionIs DEF RegionEnd, CoreEnd, Lesser
  <2>2. Frontier' = BlockCore(bb)
    <3>1. Frontier' = Lesser(bb + Block, CoreEnd(cb))
      BY <2>1 DEF Frontier, Lesser
    <3>2. CoreEnd(cb) \in Nat
      BY <1>0, ScanAssumption DEF CoreEnd, Lesser
    <3> QED  BY <1>0, <3>1, <3>2, ScanAssumption DEF BlockCore, Lesser
  <2>3. Progress'
    BY <1>0, <1>2, <1>3, <2>1, <2>2, QuietStep
  <2>4. Between'
    BY <1>0, <1>1, <1>7, <2>1, ScanAssumption DEF Between
  <2> QED  BY <2>3, <2>4
<1> QED  BY <1>0, <1>5, <1>6, <1>7

-----------------------------------------------------------------------------
(* The theorems.                                                           *)

LEMMA StepInv ==
  ASSUME ScanInv, [Next]_vars
  PROVE  ScanInv'
<1>1. TypeOK'
  BY TypeStep DEF ScanInv
<1>2. CASE UNCHANGED vars
  <2>1. UNCHANGED inputs /\ UNCHANGED <<op, pc, cb, bb, at, next, out>>
    BY <1>2 DEF vars
  <2>2. Frontier' = Frontier
    BY <2>1, SameInputs DEF Frontier, Lesser, CoreEnd
  <2>3. Progress'
    BY <1>1, <2>1, <2>2, QuietStep, Lengths DEF ScanInv, Progress, Hits
  <2>4. ScanCore' = ScanCore /\ Stride' = Stride /\ Operators' = Operators
    BY <2>1, SameRegion, SameInputs
  <2>5. Between'
    BY <2>1, <2>4, SameInputs DEF ScanInv, Between
  <2> QED  BY <1>1, <2>3, <2>5 DEF ScanInv
<1> QED
  BY <1>1, <1>2, PlanStep, ChunkStep, LastChunkStep, BlockStepStep, LastBlockStep,
     RejectStep, SkipStep, EmitStep, RegionEndStep DEF Next, ScanInv

\* The search keeps its invariant: at every step the matches reported are hits
\* in order, and no hit before the frontier has been passed over.
THEOREM ScanInvariant == Spec => []ScanInv
<1>1. Init => ScanInv
  BY InitInv
<1>2. ScanInv /\ [Next]_vars => ScanInv'
  BY StepInv
<1> QED  BY <1>1, <1>2, PTL DEF Spec

\* Type correctness.
THEOREM TypeCorrect == Spec => []TypeOK
<1>1. ScanInv => TypeOK
  BY DEF ScanInv
<1> QED  BY <1>1, ScanInvariant, PTL

\* The whole-file scan, the chunks and the blocks report the matches of the
\* reference scan, for every file, literal, layout, hash and plan.
THEOREM FindsReference == Spec => []MatchesReference
<1>1. ScanInv => MatchesReference
  <2> SUFFICES ASSUME ScanInv, pc = "done", Clean PROVE
                 /\ \A i \in DOMAIN out : out[i] \in Hits
                 /\ Spaced
                 /\ \A h \in Hits : Covered(h)
    BY DEF MatchesReference
  <2>1. Frontier = N /\ Progress
    BY FrontierIs DEF ScanInv
  <2>2. \A h \in Hits : h < N
    BY Lengths DEF Hits, Occurs, ScanInv
  <2> QED  BY <2>1, <2>2 DEF Progress
<1> QED  BY <1>1, ScanInvariant, PTL
=============================================================================
