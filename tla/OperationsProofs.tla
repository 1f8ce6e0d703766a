-------------------------- MODULE OperationsProofs --------------------------
(***************************************************************************)
(* Proofs about an index in service: the planner's three computations of a *)
(* plan agree for every layout and every key, the release gate and the     *)
(* rollout controller never let a bad state through, and an index that is  *)
(* appended to and compacted holds what it should.                         *)
(***************************************************************************)
EXTENDS Operations, FoldProofs, TLAPS

-----------------------------------------------------------------------------
(* Arithmetic of shares and prices.                                        *)

(* A share of natural numbers is a natural number.                         *)
LEMMA ShareType ==
  ASSUME NEW I, I.chunks \in Nat, NEW hits \in Nat, NEW m \in Nat,
         hits # I.chunks => I.chunks # 0
  PROVE  Share(I, hits, m) \in Nat
<1>1. CASE hits = I.chunks \/ m = 0
  BY <1>1 DEF Share
<1>2. CASE ~(hits = I.chunks \/ m = 0)
  <2> DEFINE product == hits * m
  <2>1. product \in Nat  OBVIOUS
  <2>2. I.chunks \in Nat /\ I.chunks > 0  BY <1>2
  <2> HIDE DEF product
  <2>3. product \div I.chunks \in Nat  BY <2>1, <2>2
  <2>4. Portion(hits, I.chunks, m) \in Int
    <3>1. PICK slip \in {0, 1} : Portion(hits, I.chunks, m) = (product \div I.chunks) - slip
      BY DEF Portion, product
    <3> QED
      BY <2>3, <3>1
  <2>5. Greater(1, Portion(hits, I.chunks, m)) \in Nat  BY <2>4 DEF Greater
  <2> QED  BY <1>2, <2>5 DEF Share
<1> QED  BY <1>1, <1>2

(* Chunks never hit more chunks than there are.                            *)
LEMMA HitsType ==
  ASSUME NEW I, I.chunks \in Nat, NEW key, NEW n \in 0..I.chunks
  PROVE  /\ Hits(I, key, n) \in Nat
         /\ Hits(I, key, n) # I.chunks => I.chunks # 0
BY DEF Hits

(* Every price of the guarded dispatch is a natural number.                *)
LEMMA PlanCostsType ==
  ASSUME NEW I \in Figures(IndexOptions), NEW key \in PlanKeys(IndexOptions),
         NEW n \in 0..I.chunks
  PROVE  PlanCosts(I, key, n) \in [positional : Nat, chunk : Nat, whole : Nat]
<1> DEFINE chunks == Share(I, Hits(I, key, n), I.chunks)
           blocks == Share(I, Hits(I, key, n), I.blocks)
           rows   == Rows(I, key)
<1>1. I.chunks \in Nat /\ I.blocks \in Nat /\ I.bytes \in Nat /\ I.opt \in IndexOptions
  BY DEF Figures
<1>2. I.opt.chunk \in Nat /\ I.opt.block \in Nat /\ I.opt.planned \in Nat
  <2>1. I.opt.planned \in 0..64  BY <1>1, SegmentsAssumption
  <2>2. I.opt.chunk \in 64..(2 ^ 30) /\ I.opt.block \in 16..(2 ^ 20)
    BY <1>1, SegmentsAssumption
  <2>3. 2 ^ 30 \in Nat /\ 2 ^ 20 \in Nat  OBVIOUS
  <2> QED  BY <2>1, <2>2, <2>3
<1>3. chunks \in Nat  BY <1>1, HitsType, ShareType
<1>4. blocks \in Nat  BY <1>1, HitsType, ShareType
<1>5. rows \in Nat
  BY <1>2 DEF Rows, Lesser, PlanKeys
<1> HIDE DEF chunks, blocks, rows
<1>6. chunks * I.opt.chunk \in Nat /\ rows * chunks \in Nat /\ blocks * (I.opt.block + Look) \in Nat
  BY <1>2, <1>3, <1>4, <1>5 DEF Look
<1>7. BlockPrice(I, chunks, blocks) \in Nat /\ ChunkPrice(chunks, I.opt.chunk) \in Nat
  BY <1>3, <1>4, <1>6 DEF BlockPrice, ChunkPrice
<1>8. /\ BlockPrice(I, chunks, blocks) + 2 * (rows * chunks) \in Nat
      /\ 2 * I.bytes + 200 * chunks \in Nat
  BY <1>1, <1>3, <1>6, <1>7
<1> QED  BY <1>7, <1>8 DEF PlanCosts, chunks, blocks, rows

-----------------------------------------------------------------------------
(* The candidates.                                                         *)

(* What a candidate of each kind looks like: its verifier names it, and it *)
(* is marked when that is the verifier of the plan.                        *)
LEMMA CandidateFields ==
  ASSUME NEW I, NEW key, NEW n
  PROVE  /\ BruteCandidate(I, key, n).verifier = "RegexBruteForce"
         /\ ChunkCandidate(I, key, n).verifier = "RegexChunk"
         /\ RareByteCandidate(I, key, n).verifier = "FixedRareByte"
         /\ PositionalCandidate(I, key, n).verifier = "FixedPositional"
         /\ BruteCandidate(I, key, n).chosen <=> Cost(I, key, n).verifier = "RegexBruteForce"
         /\ ChunkCandidate(I, key, n).chosen <=> Cost(I, key, n).verifier = "RegexChunk"
         /\ RareByteCandidate(I, key, n).chosen <=> Cost(I, key, n).verifier = "FixedRareByte"
         /\ PositionalCandidate(I, key, n).chosen
              <=> Cost(I, key, n).verifier = "FixedPositional"
BY DEF BruteCandidate, ChunkCandidate, RareByteCandidate, PositionalCandidate, Candidate

(* Which candidates there are.                                             *)
LEMMA CandidatesOf ==
  ASSUME NEW I, NEW key, key.kind # "broken", NEW n, NEW c \in Candidates(I, key, n)
  PROVE  c \in {BruteCandidate(I, key, n), ChunkCandidate(I, key, n),
                RareByteCandidate(I, key, n), PositionalCandidate(I, key, n)}
BY DEF Candidates

(* What the dispatch reads of a key.                                       *)
LEMMA KeyNumbers ==
  ASSUME NEW key \in PlanKeys(IndexOptions)
  PROVE  key.len \in Nat /\ key.opt.overlap \in Nat /\ key.kind \in Kinds
<1>1. key.opt \in IndexOptions  BY DEF PlanKeys
<1>2. key.opt.overlap \in 0..(key.opt.chunk \div 2)  BY <1>1, SegmentsAssumption
<1> QED  BY <1>2 DEF PlanKeys

(* The verifier of the plan is a candidate's, and a candidate with that    *)
(* verifier is there only once.                                            *)
LEMMA PlanIsListed ==
  ASSUME NEW I, NEW key \in PlanKeys(IndexOptions), NEW n
  PROVE  \E c \in Candidates(I, key, n) : c.verifier = Cost(I, key, n).verifier
<1>1. CASE key.kind = "broken"
  BY <1>1 DEF Candidates, Cost, Plan
<1>2. CASE key.kind # "broken" /\ Guarded(I, key)
  <2>1. RareByteCandidate(I, key, n) \in Candidates(I, key, n)
    BY <1>2 DEF Candidates, Guarded
  <2>2. PositionalCandidate(I, key, n) \in Candidates(I, key, n)
    BY <1>2 DEF Candidates, Guarded
  <2>3. Cost(I, key, n).verifier \in {"FixedRareByte", "FixedPositional"}
    BY <1>2 DEF Cost, CheapestPlan, Plan
  <2> QED  BY <2>1, <2>2, <2>3, CandidateFields
<1>3. CASE key.kind # "broken" /\ ~Guarded(I, key) /\ Fixed(key)
  <2>1. RareByteCandidate(I, key, n) \in Candidates(I, key, n)
    BY <1>3 DEF Candidates
  <2>2. Cost(I, key, n).verifier = FixedVerifier(EstablishedOperator(key))
    BY <1>3 DEF Cost, Plan
  <2>3. CASE EstablishedOperator(key) = "PositionalBlock"
    <3>1. key.len \in Nat /\ key.opt.overlap \in Nat  BY KeyNumbers
    <3>2. key.len <= Look /\ ~(key.icase \/ key.word \/ key.line)
      BY <2>3, <3>1 DEF EstablishedOperator, Look
    <3>3. PositionalCandidate(I, key, n) \in Candidates(I, key, n)
      BY <1>3, <3>2 DEF Candidates
    <3> QED  BY <2>2, <2>3, <3>3, CandidateFields DEF FixedVerifier
  <2>4. CASE EstablishedOperator(key) # "PositionalBlock"
    BY <2>1, <2>2, <2>4, CandidateFields DEF FixedVerifier
  <2> QED  BY <2>3, <2>4
<1>4. CASE key.kind # "broken" /\ ~Fixed(key)
  <2>1. Cost(I, key, n).verifier = RegexVerifier(key)
    BY <1>4 DEF Cost, Plan, Guarded
  <2>2. BruteCandidate(I, key, n) \in Candidates(I, key, n)
    BY <1>4 DEF Candidates
  <2>3. key.kind = "mandatory" => ChunkCandidate(I, key, n) \in Candidates(I, key, n)
    BY <1>4 DEF Candidates
  <2> QED  BY <2>1, <2>2, <2>3, CandidateFields DEF RegexVerifier
<1> QED  BY <1>1, <1>2, <1>3, <1>4 DEF Guarded

(* Two candidates with one verifier are the same candidate.                *)
LEMMA ListedOnce ==
  ASSUME NEW I, NEW key, NEW n,
         NEW c \in Candidates(I, key, n), NEW d \in Candidates(I, key, n),
         c.verifier = d.verifier
  PROVE  c = d
<1>1. CASE key.kind = "broken"
  BY <1>1 DEF Candidates
<1>2. CASE key.kind # "broken"
  <2>1. c \in {BruteCandidate(I, key, n), ChunkCandidate(I, key, n),
               RareByteCandidate(I, key, n), PositionalCandidate(I, key, n)}
    BY <1>2, CandidatesOf
  <2>2. d \in {BruteCandidate(I, key, n), ChunkCandidate(I, key, n),
               RareByteCandidate(I, key, n), PositionalCandidate(I, key, n)}
    BY <1>2, CandidatesOf
  <2> QED  BY <2>1, <2>2, CandidateFields
<1> QED  BY <1>1, <1>2

(* A candidate is marked just when its verifier is the plan's.             *)
LEMMA MarkedIsPlan ==
  ASSUME NEW I, NEW key, NEW n, NEW c \in Candidates(I, key, n)
  PROVE  c.chosen <=> c.verifier = Cost(I, key, n).verifier
<1>1. CASE key.kind = "broken"
  BY <1>1 DEF Candidates, Cost, Plan
<1>2. CASE key.kind # "broken"
  BY <1>2, CandidatesOf, CandidateFields
<1> QED  BY <1>1, <1>2

(* Exactly one candidate is marked, whatever the layout and the key.       *)
LEMMA OneIsChosen ==
  ASSUME NEW I, NEW key \in PlanKeys(IndexOptions), NEW n
  PROVE  OneChosen(I, key, n)
<1>1. PICK c \in Candidates(I, key, n) : c.verifier = Cost(I, key, n).verifier
  BY PlanIsListed
<1>2. ASSUME NEW d \in Candidates(I, key, n)
      PROVE  d.chosen <=> d = c
  BY <1>1, <1>2, MarkedIsPlan, ListedOnce
<1> QED  BY <1>1, <1>2 DEF OneChosen

-----------------------------------------------------------------------------
(* Prices.                                                                 *)

(* A key with plain options changes no price.                              *)
LEMMA PlainAdjustment ==
  ASSUME NEW key, NEW cost \in Nat, NEW part, NEW everything,
         key.identity \in Nat,
         ~key.overlapping, ~key.invert, ~key.filesOnly, key.max = 0, ~key.binary,
         key.scope = 0
  PROVE  Adjusted(key, cost, part, everything) = <<cost + 2 * (key.identity % 256), 1>>
<1>1. key.identity % 256 \in Nat  OBVIOUS
<1> QED  BY <1>1 DEF Adjusted

(* What the list asks for the two operators that the guard admits.         *)
LEMMA GuardedPrices ==
  ASSUME NEW I \in Figures(IndexOptions), NEW key \in PlanKeys(IndexOptions),
         NEW n \in 0..I.chunks, Guarded(I, key)
  PROVE  LET costs == PlanCosts(I, key, n)
             extra == 2 * (key.identity % 256)
         IN /\ RareByteCandidate(I, key, n).cost = <<Lesser(costs.chunk, costs.whole) + extra, 1>>
            /\ PositionalCandidate(I, key, n).cost = <<costs.positional + extra, 1>>
<1> DEFINE costs == PlanCosts(I, key, n)
<1>1. costs.chunk \in Nat /\ costs.whole \in Nat /\ costs.positional \in Nat
  BY PlanCostsType
<1>2. /\ ~key.overlapping /\ ~key.invert /\ ~key.filesOnly /\ key.max = 0 /\ ~key.binary
      /\ key.scope = 0 /\ key.identity \in Nat
  BY DEF Guarded, PlanKeys
<1>3. Lesser(costs.chunk, costs.whole) \in Nat
  BY <1>1 DEF Lesser
<1> HIDE DEF costs
<1>4. Adjusted(key, Lesser(costs.chunk, costs.whole), key.scope, I.files)
        = <<Lesser(costs.chunk, costs.whole) + 2 * (key.identity % 256), 1>>
  BY <1>2, <1>3, PlainAdjustment
<1>5. Adjusted(key, costs.positional, key.scope, I.files)
        = <<costs.positional + 2 * (key.identity % 256), 1>>
  BY <1>1, <1>2, PlainAdjustment
<1> QED  BY <1>4, <1>5 DEF RareByteCandidate, PositionalCandidate, Candidate, costs

(* The plan of the guarded dispatch is none but the cheapest of three.     *)
LEMMA CheapestOfThree ==
  ASSUME NEW costs, costs.chunk \in Nat, costs.whole \in Nat, costs.positional \in Nat
  PROVE  LET plan   == CheapestPlan(costs)
             lesser == Lesser(costs.chunk, costs.whole)
         IN /\ plan.guarded
            /\ plan.cost[2] = 1
            /\ plan.cost[1] \in Nat
            /\ plan.cost[1] <= lesser
            /\ plan.cost[1] <= costs.positional
            /\ plan.verifier = "FixedRareByte" => plan.cost[1] = lesser
            /\ plan.verifier = "FixedPositional" => plan.cost[1] = costs.positional
            /\ plan.verifier \in {"FixedRareByte", "FixedPositional"}
<1>1. CASE costs.whole < costs.chunk /\ costs.whole < costs.positional
  <2>1. CheapestPlan(costs) = Plan("FixedRareByte", "WholeFile", <<costs.whole, 1>>, TRUE)
    BY <1>1 DEF CheapestPlan
  <2> QED  BY <1>1, <2>1 DEF Plan, Lesser
<1>2. CASE /\ ~(costs.whole < costs.chunk /\ costs.whole < costs.positional)
           /\ costs.chunk < costs.positional
  <2>1. CheapestPlan(costs) = Plan("FixedRareByte", "Chunk", <<costs.chunk, 1>>, TRUE)
    BY <1>2 DEF CheapestPlan
  <2> QED  BY <1>2, <2>1 DEF Plan, Lesser
<1>3. CASE /\ ~(costs.whole < costs.chunk /\ costs.whole < costs.positional)
           /\ ~(costs.chunk < costs.positional)
  <2>1. CheapestPlan(costs)
          = Plan("FixedPositional", "PositionalBlock", <<costs.positional, 1>>, TRUE)
    BY <1>3 DEF CheapestPlan
  <2> QED  BY <1>3, <2>1 DEF Plan, Lesser
<1> QED  BY <1>1, <1>2, <1>3

(* No candidate for fixed literals is cheaper than a guarded plan.         *)
LEMMA GuardedPlanIsCheapest ==
  ASSUME NEW I \in Figures(IndexOptions), NEW key \in PlanKeys(IndexOptions),
         NEW n \in 0..I.chunks
  PROVE  GuardedIsCheapest(I, key, n)
<1> DEFINE costs == PlanCosts(I, key, n)
           plan  == Cost(I, key, n)
<1> SUFFICES ASSUME plan.guarded
             PROVE  /\ key.opt = I.opt /\ key.len <= I.opt.overlap
                    /\ \A c \in Candidates(I, key, n) :
                         /\ c.chosen /\ key.identity % 256 = 0 => SamePrice(c.cost, plan.cost)
                         /\ Cheaper(c.cost, plan.cost) => c.verifier = "RegexBruteForce"
  BY DEF GuardedIsCheapest
<1>1. Guarded(I, key) /\ key.kind # "broken"
  BY DEF Cost, Plan
<1>2. plan = CheapestPlan(costs)
  BY <1>1 DEF Cost
<1>3. costs.chunk \in Nat /\ costs.whole \in Nat /\ costs.positional \in Nat
  BY PlanCostsType
<1>4. key.opt = I.opt /\ key.len <= I.opt.overlap /\ Fixed(key) /\ key.identity \in Nat
  BY <1>1 DEF Guarded, PlanKeys
<1>5. key.identity % 256 \in Nat
  BY <1>4
<1>6. ASSUME NEW c \in Candidates(I, key, n)
      PROVE  /\ c.chosen /\ key.identity % 256 = 0 => SamePrice(c.cost, plan.cost)
             /\ Cheaper(c.cost, plan.cost) => c.verifier = "RegexBruteForce"
  <2> DEFINE lesser == Lesser(costs.chunk, costs.whole)
             extra  == 2 * (key.identity % 256)
  <2>1. lesser \in Nat
    BY <1>3 DEF Lesser
  <2>2. /\ plan.cost[2] = 1 /\ plan.cost[1] \in Nat
        /\ plan.cost[1] <= lesser /\ plan.cost[1] <= costs.positional
        /\ plan.verifier = "FixedRareByte" => plan.cost[1] = lesser
        /\ plan.verifier = "FixedPositional" => plan.cost[1] = costs.positional
        /\ plan.verifier \in {"FixedRareByte", "FixedPositional"}
    BY <1>2, <1>3, CheapestOfThree
  <2>3. RareByteCandidate(I, key, n).cost = <<lesser + extra, 1>>
    BY <1>1, GuardedPrices
  <2>4. PositionalCandidate(I, key, n).cost = <<costs.positional + extra, 1>>
    BY <1>1, GuardedPrices
  <2>5. c.chosen <=> c.verifier = plan.verifier
    BY MarkedIsPlan
  <2>6. c \in {BruteCandidate(I, key, n), RareByteCandidate(I, key, n),
               PositionalCandidate(I, key, n)}
    BY <1>1, <1>4 DEF Candidates, Fixed
  <2>7. extra \in Nat /\ (key.identity % 256 = 0 => extra = 0)
    BY <1>5
  <2> HIDE DEF costs, plan, lesser, extra
  <2>8. CASE c = BruteCandidate(I, key, n)
    BY <2>2, <2>5, <2>8, CandidateFields
  <2>9. CASE c = RareByteCandidate(I, key, n)
    <3>1. c.cost[1] = lesser + extra /\ c.cost[2] = 1 /\ c.verifier = "FixedRareByte"
      BY <2>3, <2>9, CandidateFields
    <3> QED  BY <1>3, <2>1, <2>2, <2>5, <2>7, <3>1 DEF SamePrice, Cheaper
  <2>10. CASE c = PositionalCandidate(I, key, n)
    <3>1. c.cost[1] = costs.positional + extra /\ c.cost[2] = 1
            /\ c.verifier = "FixedPositional"
      BY <2>4, <2>10, CandidateFields
    <3> QED  BY <1>3, <2>1, <2>2, <2>5, <2>7, <3>1 DEF SamePrice, Cheaper
  <2> QED  BY <2>6, <2>8, <2>9, <2>10
<1> QED  BY <1>4, <1>6

(* The list and the plan price the same scan alike.                        *)
LEMMA ListPricesPlan ==
  ASSUME NEW I, NEW key \in PlanKeys(IndexOptions), NEW n
  PROVE  ListedAsPriced(I, key, n)
<1> SUFFICES ASSUME key.scope = 0, key.opt = I.opt, ~Guarded(I, key),
                    IF Fixed(key) THEN ~key.icase /\ key.len <= I.opt.overlap
                                  ELSE key.kind # "plain",
                    NEW c \in Candidates(I, key, n), c.chosen
             PROVE  SamePrice(c.cost, Cost(I, key, n).cost)
  BY DEF ListedAsPriced
<1>1. c.verifier = Cost(I, key, n).verifier
  BY MarkedIsPlan
<1>2. \A cost : Adjusted(key, cost, key.scope, I.files) = Adjusted(key, cost, I.chunks, I.all)
  BY DEF Adjusted
<1>3. CASE key.kind = "broken"
  BY <1>3 DEF Candidates, Cost, Plan, SamePrice
<1>4. CASE key.kind # "broken" /\ Fixed(key)
  <2> DEFINE operator == EstablishedOperator(key)
             price == EstablishedPrice(I, key, n)
             chunks == Share(I, Hits(I, key, n), I.chunks)
             blocks == Share(I, Hits(I, key, n), I.blocks)
  <2>1. Cost(I, key, n) = Plan(FixedVerifier(operator), operator,
                               Adjusted(key, price, I.chunks, I.all), FALSE)
    BY <1>4 DEF Cost
  <2>2. Cost(I, key, n).verifier = FixedVerifier(operator)
          /\ Cost(I, key, n).cost = Adjusted(key, price, I.chunks, I.all)
    BY <2>1 DEF Plan
  <2>3. ~(key.len > key.opt.overlap \/ key.icase)
    BY <1>4, KeyNumbers
  <2>4. CASE operator = "PositionalBlock"
    <3>1. c = PositionalCandidate(I, key, n)
      BY <1>1, <1>4, <2>2, <2>4, CandidatesOf, CandidateFields DEF FixedVerifier
    <3>2. c.cost = Adjusted(key, BlockPrice(I, chunks, blocks), key.scope, I.files)
      BY <3>1 DEF PositionalCandidate, Candidate
    <3>3. price = BlockPrice(I, chunks, blocks)
      BY <2>3, <2>4 DEF EstablishedPrice
    <3> QED  BY <1>2, <2>2, <3>2, <3>3 DEF SamePrice
  <2>5. CASE operator # "PositionalBlock"
    <3>1. c = RareByteCandidate(I, key, n)
      BY <1>1, <1>4, <2>2, <2>5, CandidatesOf, CandidateFields DEF FixedVerifier
    <3>2. c.cost = Adjusted(key, ChunkPrice(chunks, I.opt.chunk), key.scope, I.files)
      BY <3>1 DEF RareByteCandidate, Candidate
    <3>3. price = ChunkPrice(chunks, I.opt.chunk)
      BY <2>3, <2>5 DEF EstablishedPrice
    <3> QED  BY <1>2, <2>2, <3>2, <3>3 DEF SamePrice
  <2> QED  BY <2>4, <2>5
<1>5. CASE key.kind # "broken" /\ ~Fixed(key)
  <2>1. Cost(I, key, n) = Plan(RegexVerifier(key), NoOperator,
                               Adjusted(key, RegexPrice(I, key, n), I.chunks, I.all), FALSE)
    BY <1>5 DEF Cost
  <2>2. CASE key.kind = "mandatory"
    <3>1. c = ChunkCandidate(I, key, n)
      BY <1>1, <1>5, <2>1, <2>2, CandidatesOf, CandidateFields DEF RegexVerifier, Plan
    <3>2. c.cost = Adjusted(key, RegexPrice(I, key, n), key.scope, I.files)
      BY <3>1 DEF ChunkCandidate, Candidate
    <3> QED  BY <1>2, <2>1, <3>2 DEF Plan, SamePrice
  <2> QED  BY <1>5, <2>2, KeyNumbers DEF Kinds, Fixed
<1> QED  BY <1>3, <1>4, <1>5

(* Every price of the established dispatch is a natural number.            *)
LEMMA PricesType ==
  ASSUME NEW I \in Figures(IndexOptions), NEW key \in PlanKeys(IndexOptions),
         NEW n \in 0..I.chunks
  PROVE  EstablishedPrice(I, key, n) \in Nat /\ RegexPrice(I, key, n) \in Nat
<1>1. I.chunks \in Nat /\ I.blocks \in Nat /\ I.bytes \in Nat /\ I.opt \in IndexOptions
        /\ key.opt \in IndexOptions
  BY DEF Figures, PlanKeys
<1>2. \A o \in IndexOptions : o.chunk \in Nat /\ o.block \in Nat
  <2>1. 2 ^ 30 \in Nat /\ 2 ^ 20 \in Nat  OBVIOUS
  <2> QED  BY <2>1, SegmentsAssumption
<1>3. \A hits \in {I.chunks, Hits(I, key, n)} :
        Share(I, hits, I.chunks) \in Nat /\ Share(I, hits, I.blocks) \in Nat
  BY <1>1, HitsType, ShareType
<1>4. \A chunks, blocks \in Nat :
        /\ BlockPrice(I, chunks, blocks) \in Nat /\ ChunkPrice(chunks, key.opt.chunk) \in Nat
        /\ 2 * I.bytes + 200 * chunks \in Nat /\ 2 * I.bytes + 400 * chunks \in Nat
  <2> TAKE chunks, blocks \in Nat
  <2>1. blocks * (I.opt.block + Look) \in Nat /\ chunks * key.opt.chunk \in Nat
    BY <1>1, <1>2 DEF Look
  <2> QED  BY <1>1, <2>1 DEF BlockPrice, ChunkPrice
<1>5. EstablishedPrice(I, key, n) \in Nat
  BY <1>3, <1>4 DEF EstablishedPrice
<1>6. RegexPrice(I, key, n) \in Nat
  BY <1>1, <1>3, <1>4 DEF RegexPrice
<1> QED  BY <1>5, <1>6

(* The key that the overload for patterns makes has no options of a        *)
(* search, so that its price is not adjusted.                              *)
LEMMA OverloadsDoAgree ==
  ASSUME NEW I \in Figures(IndexOptions), NEW key \in PlanKeys(IndexOptions),
         NEW n \in 0..I.chunks
  PROVE  OverloadsAgree(I, key, n)
<1> DEFINE k == PatternKey(I, key)
           short == PatternCost(I, key, n)
           full == Cost(I, k, n)
<1> SUFFICES ASSUME key.kind # "broken"
             PROVE  /\ short.verifier = full.verifier /\ short.cost = full.cost
                    /\ short.guarded = full.guarded
                    /\ short.guarded => short.operator = full.operator
  BY DEF OverloadsAgree
<1>1. /\ k.kind = key.kind /\ k.len = key.len /\ k.icase = key.icase /\ k.word = key.word
      /\ k.line = key.line /\ k.opt = I.opt /\ k.grams = key.grams
  BY DEF PatternKey, PlanKeys
<1>2. ~k.overlapping /\ ~k.invert /\ ~k.filesOnly /\ k.max = 0 /\ ~k.binary /\ k.scope = 0
        /\ k.identity = 0
  BY DEF PatternKey, PlanKeys
<1>3. I.opt \in IndexOptions /\ I.chunks \in Nat /\ I.blocks \in Nat /\ I.bytes \in Nat
  BY DEF Figures
<1>4. k \in PlanKeys(IndexOptions)
  BY <1>3 DEF PatternKey, PlanKeys
<1>5. k.len \in Nat /\ k.opt.overlap \in Nat /\ k.kind \in Kinds
  BY <1>4, KeyNumbers
<1>6. \A cost \in Nat : Adjusted(k, cost, I.chunks, I.all) = <<cost, 1>>
  <2> TAKE cost \in Nat
  <2>1. Adjusted(k, cost, I.chunks, I.all) = <<cost + 2 * (k.identity % 256), 1>>
    BY <1>2, PlainAdjustment
  <2>2. cost + 2 * (0 % 256) = cost  OBVIOUS
  <2> QED  BY <1>2, <2>1, <2>2
<1>7. CASE Guarded(I, k) /\ Fixed(key)
  BY <1>7 DEF PatternCost
<1>8. CASE ~Guarded(I, k) /\ Fixed(key)
  <2>1. full = Plan(FixedVerifier(EstablishedOperator(k)), EstablishedOperator(k),
                    Adjusted(k, EstablishedPrice(I, k, n), I.chunks, I.all), FALSE)
    BY <1>1, <1>8 DEF Cost, Fixed
  <2>2. EstablishedPrice(I, k, n) \in Nat
    BY <1>3, <1>4, PricesType
  <2>3. full.cost = <<EstablishedPrice(I, k, n), 1>> /\ full.guarded = FALSE
          /\ full.verifier = FixedVerifier(EstablishedOperator(k))
    BY <1>6, <2>1, <2>2 DEF Plan
  <2>4. short.cost = <<EstablishedPrice(I, k, n), 1>> /\ short.guarded = FALSE
    BY <1>8 DEF PatternCost, Plan
  <2>5. short.verifier = IF \/ key.len > I.opt.overlap \/ key.icase \/ key.word \/ key.line
                            \/ key.len > Look
                         THEN "FixedRareByte" ELSE "FixedPositional"
    BY <1>8 DEF PatternCost, Plan
  <2>6. short.verifier = FixedVerifier(EstablishedOperator(k))
    BY <1>1, <1>5, <2>5 DEF FixedVerifier, EstablishedOperator, Look
  <2> QED  BY <2>3, <2>4, <2>6
<1>9. CASE ~Fixed(key)
  <2>1. full = Plan(RegexVerifier(k), NoOperator,
                    Adjusted(k, RegexPrice(I, k, n), I.chunks, I.all), FALSE)
    BY <1>1, <1>9 DEF Cost, Fixed, Guarded
  <2>2. RegexPrice(I, k, n) \in Nat
    BY <1>3, <1>4, PricesType
  <2>3. RegexPrice(I, k, n) = RegexPrice(I, key, n) /\ RegexVerifier(k) = RegexVerifier(key)
    BY <1>1 DEF RegexPrice, RegexVerifier, Hits
  <2> QED  BY <1>6, <1>9, <2>1, <2>2, <2>3 DEF PatternCost, Plan
<1> QED  BY <1>7, <1>8, <1>9

(* What a search reports is what it did, and nothing else was observed.    *)
LEMMA ReportsWhatRan ==
  ASSUME NEW I, NEW key \in PlanKeys(IndexOptions), NEW n, NEW gaveUp \in BOOLEAN,
         key.opt = I.opt, key.kind # "broken"
  PROVE  ReportIsWhatRan(I, key, n, gaveUp)
<1> DEFINE ran == Reported(I, key, n, gaveUp)
<1>1. ASSUME key.kind = "fixed"
      PROVE  Cost(I, key, n).operator = RanOperator(I, key, n)
  <2>1. key.len \in Nat /\ I.opt.overlap \in Nat /\ Fixed(key)
    BY <1>1, KeyNumbers DEF Fixed
  <2>2. CASE Guarded(I, key)
    <3>1. Cost(I, key, n) = CheapestPlan(PlanCosts(I, key, n))
      BY <1>1, <2>2 DEF Cost
    <3>2. Cost(I, key, n).operator \in {"WholeFile", "Chunk", "PositionalBlock"}
      BY <3>1 DEF CheapestPlan, Plan
    <3>3. ~(key.len > I.opt.overlap) /\ ~(key.icase \/ key.word \/ key.line \/ key.len > Look)
      BY <2>1, <2>2 DEF Guarded, Look
    <3>4. Dispatched(I, key)
      BY <1>1, <2>2 DEF Dispatched
    <3> QED  BY <2>1, <3>2, <3>3, <3>4 DEF RanOperator
  <2>3. CASE ~Guarded(I, key)
    <3>1. Cost(I, key, n).operator = EstablishedOperator(key)
      BY <1>1, <2>1, <2>3 DEF Cost, Plan
    <3>2. ~Dispatched(I, key)
      BY <2>3 DEF Dispatched
    <3> QED  BY <3>1, <3>2 DEF RanOperator, EstablishedOperator
  <2> QED  BY <2>2, <2>3
<1>2. ran.name = ran.verifier
  BY DEF Reported
<1>3. PICK c \in Candidates(I, key, n) : c.verifier = ran.verifier
  <2>1. CASE gaveUp
    <3>1. BruteCandidate(I, key, n) \in Candidates(I, key, n)
      BY DEF Candidates
    <3> QED  BY <2>1, <3>1, CandidateFields DEF Reported
  <2>2. CASE ~gaveUp
    BY <2>2, PlanIsListed DEF Reported
  <2> QED  BY <2>1, <2>2
<1>4. Observed(I, key, n, gaveUp) = {c}
  BY <1>3, ListedOnce DEF Observed
<1>5. Rivals(I, key, n, gaveUp) = {}
  BY <1>2 DEF Rivals, Observed
<1> QED  BY <1>1, <1>4, <1>5 DEF ReportIsWhatRan

-----------------------------------------------------------------------------
(* The plans of a run.                                                     *)

(* What a report consists of, and that no search showed a regret.          *)
PlanInv ==
  /\ index.opt \in IndexOptions
  /\ shadow.worse = 0
  /\ report # NoReport =>
       /\ report.key \in PlanKeys(IndexOptions)
       /\ report.hits \in 0..report.figures.chunks
       /\ report.gaveUp \in BOOLEAN
       /\ report.searched => report.key.opt = report.figures.opt /\ report.key.kind # "broken"

(* The key of a search is a key.                                           *)
LEMMA KeyForType ==
  ASSUME NEW query \in Queries, NEW scope \in Scopes, NEW opt \in IndexOptions
  PROVE  /\ KeyFor(query, scope, opt) \in PlanKeys(IndexOptions)
         /\ KeyFor(query, scope, opt).opt = opt
         /\ KeyFor(query, scope, opt).kind = query.kind
<1>1. query \in PlanKeys(IndexOptions)
  BY OperationsAssumption
<1>2. Cardinality(scope) \in Nat
  BY OperationsAssumption
<1> DEFINE size == Cardinality(scope)
<1>3. KeyFor(query, scope, opt) = [query EXCEPT !.scope = size, !.opt = opt]
  BY DEF KeyFor
<1> HIDE DEF size
<1>4. [query EXCEPT !.scope = size, !.opt = opt] \in PlanKeys(IndexOptions)
  BY <1>1, <1>2 DEF PlanKeys, size
<1>5. /\ [query EXCEPT !.scope = size, !.opt = opt].opt = opt
      /\ [query EXCEPT !.scope = size, !.opt = opt].kind = query.kind
  BY <1>1 DEF PlanKeys
<1> QED  BY <1>3, <1>4, <1>5

(* A plan says everything PlansAgree asks of it.                           *)
LEMMA PlanInvAgrees == PlanInv => PlansAgree
<1> SUFFICES ASSUME PlanInv, report # NoReport, report.figures \in Figures(IndexOptions)
             PROVE  /\ OneChosen(report.figures, report.key, report.hits)
                    /\ GuardedIsCheapest(report.figures, report.key, report.hits)
                    /\ ListedAsPriced(report.figures, report.key, report.hits)
                    /\ OverloadsAgree(report.figures, report.key, report.hits)
                    /\ report.searched => ReportIsWhatRan(report.figures, report.key,
                                                          report.hits, report.gaveUp)
  BY DEF PlanInv, PlansAgree
<1>1. /\ report.key \in PlanKeys(IndexOptions)
      /\ report.hits \in 0..report.figures.chunks
      /\ report.gaveUp \in BOOLEAN
      /\ report.searched => report.key.opt = report.figures.opt /\ report.key.kind # "broken"
  BY DEF PlanInv
<1>2. OneChosen(report.figures, report.key, report.hits)
  BY <1>1, OneIsChosen
<1>3. GuardedIsCheapest(report.figures, report.key, report.hits)
  BY <1>1, GuardedPlanIsCheapest
<1>4. ListedAsPriced(report.figures, report.key, report.hits)
  BY <1>1, ListPricesPlan
<1>5. OverloadsAgree(report.figures, report.key, report.hits)
  BY <1>1, OverloadsDoAgree
<1>6. report.searched => ReportIsWhatRan(report.figures, report.key, report.hits, report.gaveUp)
  BY <1>1, ReportsWhatRan
<1> QED  BY <1>2, <1>3, <1>4, <1>5, <1>6

(* A report is made of a key of the query and of the figures of the index. *)
LEMMA ReportingMakes ==
  ASSUME NEW query \in Queries, NEW scope \in Scopes, NEW opt \in IndexOptions,
         NEW gaveUp \in BOOLEAN, NEW searched \in BOOLEAN,
         Reporting(query, scope, opt, gaveUp, searched)
  PROVE  /\ report'.key \in PlanKeys(IndexOptions)
         /\ report'.key.opt = opt /\ report'.key.kind = query.kind
         /\ report'.hits \in 0..report'.figures.chunks
         /\ report'.gaveUp = gaveUp /\ report'.searched = searched
         /\ report'.figures.opt = index.opt
<1> DEFINE I == FiguresOf(index, scope)
<1>1. I.opt = index.opt
  BY DEF FiguresOf
<1> HIDE DEF I
<1>2. PICK n \in 0..I.chunks :
        report' = [figures |-> I, key |-> KeyFor(query, scope, opt), hits |-> n,
                   gaveUp |-> gaveUp, searched |-> searched]
  BY DEF Reporting, I
<1> QED  BY <1>1, <1>2, KeyForType

(* No step makes a plan that does not agree.                               *)
LEMMA PlanStep == PlanInv /\ [Next]_vars => PlanInv'
<1> SUFFICES ASSUME PlanInv, [Next]_vars  PROVE PlanInv'
  OBVIOUS
<1> USE DEF PlanInv
<1>1. ASSUME NEW changed \in Changes, NEW tombstones \in SUBSET Paths, NEW declared \in Totals,
             NEW opt \in IndexOptions, AppendTo(changed, tombstones, declared, opt)
      PROVE  PlanInv'
  <2>1. index'.opt = opt
    BY <1>1 DEF AppendTo, Appended, FromDocuments
  <2> QED  BY <1>1, <2>1 DEF AppendTo, searchVars
<1>2. ASSUME NEW opt \in IndexOptions, Compact(opt)
      PROVE  PlanInv'
  BY <1>2 DEF Compact, FromDocuments, searchVars
<1>3. ASSUME NEW query \in Queries, NEW scope \in Scopes, NEW gaveUp \in BOOLEAN,
             Search(query, scope, gaveUp)
      PROVE  PlanInv'
  <2>1. /\ Reporting(query, scope, index.opt, gaveUp, TRUE)
        /\ query.kind # "broken" /\ index' = index /\ shadow' = shadow
    BY <1>3 DEF Search, indexVars
  <2> QED  BY <2>1, ReportingMakes
<1>4. ASSUME NEW query \in Queries, NEW scope \in Scopes, NEW opt \in IndexOptions,
             Estimate(query, scope, opt)
      PROVE  PlanInv'
  <2>1. /\ Reporting(query, scope, opt, FALSE, FALSE)
        /\ index' = index /\ shadow' = shadow
    BY <1>4 DEF Estimate, indexVars
  <2> QED  BY <2>1, ReportingMakes
<1>5. CASE TakeReport
  <2>1. report' = NoReport /\ index' = index
    BY <1>5 DEF TakeReport, indexVars
  <2>2. report.searched => ~Worse
    BY <1>5, ReportsWhatRan DEF TakeReport, Worse, ReportIsWhatRan
  <2>3. shadow'.worse = 0
    BY <1>5, <2>2 DEF TakeReport
  <2> QED  BY <2>1, <2>3
<1>6. ASSUME NEW m \in Measurements, RunScenario(m)
      PROVE  PlanInv'
  BY <1>6 DEF RunScenario, indexVars, searchVars
<1>7. CASE EvaluateGate
  BY <1>7 DEF EvaluateGate, indexVars, searchVars
<1>8. ASSUME NEW fellBack \in BOOLEAN, RecordQuery(fellBack)
      PROVE  PlanInv'
  BY <1>8 DEF RecordQuery, indexVars, searchVars
<1>9. CASE Guard
  BY <1>9 DEF Guard, indexVars, searchVars
<1>10. CASE EnforceRollback
  BY <1>10 DEF EnforceRollback, indexVars, searchVars
<1>11. CASE Promote
  BY <1>11 DEF Promote, indexVars, searchVars
<1>12. CASE UNCHANGED vars
  BY <1>12 DEF vars, indexVars, searchVars
<1> QED
  BY <1>1, <1>2, <1>3, <1>4, <1>5, <1>6, <1>7, <1>8, <1>9, <1>10, <1>11, <1>12 DEF Next

(* The three computations of a plan agree in every state, for every        *)
(* layout, with and without statistics on its q-grams, every set of index  *)
(* options and every key: PlansAgree.                                      *)
THEOREM PlansAlwaysAgree == Spec => []PlansAgree
<1>1. Init => PlanInv
  BY DEF Init, Build, FromDocuments, PlanInv
<1>2. PlanInv /\ [Next]_vars => PlanInv'
  BY PlanStep
<1> QED  BY <1>1, <1>2, PlanInvAgrees, PTL DEF Spec

-----------------------------------------------------------------------------
(* The release gate and the rollout controller.                            *)

(* What a figure can raise a status to.                                    *)
Statuses == {"pass", "fail", "rollback"}

(* A status is as bad as the worst of the levels it was raised by.         *)
Tells(status, seen) ==
  /\ status \in Statuses
  /\ seen \subseteq 0..2
  /\ status = "rollback" <=> 2 \in seen
  /\ status = "pass" <=> seen \subseteq {0}

(* Raising a status by a level adds the level to those it tells of.        *)
LEMMA RaiseTells ==
  ASSUME NEW status, NEW seen, NEW level \in 0..2, Tells(status, seen)
  PROVE  Tells(Raise(status, level), seen \cup {level})
<1>1. CASE level = 0
  BY <1>1 DEF Tells, Raise, Statuses
<1>2. CASE level = 1
  BY <1>2 DEF Tells, Raise, Statuses
<1>3. CASE level = 2
  BY <1>3 DEF Tells, Raise, Statuses
<1> QED  BY <1>1, <1>2, <1>3

(* A status that tells of some levels tells of no more and no fewer when   *)
(* they are listed otherwise.                                              *)
LEMMA LatencyTells ==
  ASSUME NEW m, m.p95Ratio \in 0..2, m.p50Ratio \in 0..2, m.totalRatio \in {0, 1},
         NEW status, NEW seen, Tells(status, seen)
  PROVE  Tells(Raise(status, LatencyLevel(m)),
               seen \cup {m.p95Ratio, m.p50Ratio, m.totalRatio})
<1> DEFINE l == LatencyLevel(m)
           listed == {m.p95Ratio, m.p50Ratio, m.totalRatio}
<1>1. l \in 0..2
  BY DEF LatencyLevel
<1>2. Tells(Raise(status, l), seen \cup {l})
  BY <1>1, RaiseTells
<1>3. l = 2 <=> 2 \in listed
  BY DEF LatencyLevel
<1>4. l = 0 <=> listed \subseteq {0}
  BY DEF LatencyLevel
<1>5. listed \subseteq 0..2
  OBVIOUS
<1> HIDE DEF l, listed
<1>6. 2 \in seen \cup {l} <=> 2 \in seen \cup listed
  BY <1>1, <1>3
<1>7. seen \cup {l} \subseteq {0} <=> seen \cup listed \subseteq {0}
  BY <1>1, <1>4
<1>8. Tells(Raise(status, l), seen \cup listed)
  BY <1>2, <1>5, <1>6, <1>7 DEF Tells
<1> QED  BY <1>8 DEF l, listed

(* The verdict of a scenario is as bad as its worst figure, in whatever    *)
(* order the figures are compared.                                         *)
LEMMA VerdictTells ==
  ASSUME NEW m \in Measurements
  PROVE  Tells(ScenarioVerdict(m), Levels(m))
<1>1. /\ m.correct \in BOOLEAN /\ m.baseline \in BOOLEAN
      /\ {m.p50, m.p95, m.perQuery, m.throughput, m.totalRatio} \subseteq {0, 1}
      /\ {m.memory, m.p95Ratio, m.p50Ratio, m.fallback, m.regret} \subseteq 0..2
  BY OperationsAssumption
<1> DEFINE one   == Raise("pass", m.p50)
           two   == Raise(one, m.p95)
           three == Raise(two, m.perQuery)
           absolute == Raise(three, m.throughput)
           figures  == {m.p50, m.p95, m.perQuery, m.throughput}
           compared == IF m.baseline THEN Raise(Raise(absolute, m.memory), LatencyLevel(m))
                                     ELSE absolute
           ratios   == IF m.baseline
                       THEN {m.memory, m.p95Ratio, m.p50Ratio, m.totalRatio} ELSE {}
<1>2. Tells(absolute, figures)
  <2>1. m.p50 \in 0..2 /\ m.p95 \in 0..2 /\ m.perQuery \in 0..2 /\ m.throughput \in 0..2
    BY <1>1
  <2>2. Tells("pass", {})
    BY DEF Tells, Statuses
  <2>3. Tells(one, {m.p50})
    <3>1. Tells(one, {} \cup {m.p50})
      BY <2>1, <2>2, RaiseTells
    <3>2. {} \cup {m.p50} = {m.p50}  OBVIOUS
    <3> QED  BY <3>1, <3>2
  <2> HIDE DEF one
  <2>4. Tells(two, {m.p50, m.p95})
    <3>1. Tells(two, {m.p50} \cup {m.p95})
      BY <2>1, <2>3, RaiseTells
    <3>2. {m.p50} \cup {m.p95} = {m.p50, m.p95}  OBVIOUS
    <3> QED  BY <3>1, <3>2
  <2> HIDE DEF two
  <2>5. Tells(three, {m.p50, m.p95, m.perQuery})
    <3>1. Tells(three, {m.p50, m.p95} \cup {m.perQuery})
      BY <2>1, <2>4, RaiseTells
    <3>2. {m.p50, m.p95} \cup {m.perQuery} = {m.p50, m.p95, m.perQuery}  OBVIOUS
    <3> QED  BY <3>1, <3>2
  <2> HIDE DEF three
  <2>6. Tells(absolute, {m.p50, m.p95, m.perQuery} \cup {m.throughput})
    BY <2>1, <2>5, RaiseTells
  <2>7. {m.p50, m.p95, m.perQuery} \cup {m.throughput} = figures
    OBVIOUS
  <2> QED  BY <2>6, <2>7
<1> HIDE DEF absolute, figures
<1>3. Tells(compared, figures \cup ratios)
  <2>1. CASE m.baseline
    <3> DEFINE remembered == Raise(absolute, m.memory)
    <3>1. Tells(remembered, figures \cup {m.memory})
      BY <1>1, <1>2, RaiseTells
    <3> HIDE DEF remembered
    <3>2. Tells(Raise(remembered, LatencyLevel(m)),
                figures \cup {m.memory} \cup {m.p95Ratio, m.p50Ratio, m.totalRatio})
      BY <1>1, <3>1, LatencyTells
    <3>3. figures \cup {m.memory} \cup {m.p95Ratio, m.p50Ratio, m.totalRatio} = figures \cup ratios
      BY <2>1
    <3> QED  BY <2>1, <3>2, <3>3 DEF remembered
  <2>2. CASE ~m.baseline
    <3>1. figures \cup ratios = figures /\ compared = absolute
      BY <2>2
    <3> QED  BY <1>2, <3>1
  <2> QED  BY <1>1, <2>1, <2>2
<1> HIDE DEF compared
<1>4. CASE m.correct
  <2> DEFINE fallen == Raise(compared, m.fallback)
  <2>1. Tells(fallen, figures \cup ratios \cup {m.fallback})
    BY <1>1, <1>3, RaiseTells
  <2> HIDE DEF fallen
  <2>2. Tells(Raise(fallen, m.regret), figures \cup ratios \cup {m.fallback} \cup {m.regret})
    BY <1>1, <2>1, RaiseTells
  <2> HIDE DEF ratios
  <2>3. Levels(m) = {m.p50, m.p95, m.perQuery, m.throughput, m.fallback, m.regret, 0} \cup ratios
    BY <1>4 DEF Levels, ratios
  <2>4. ScenarioVerdict(m) = Raise(fallen, m.regret)
    BY <1>4 DEF ScenarioVerdict, fallen, compared, absolute, one, two, three
  <2>5. Levels(m) = figures \cup ratios \cup {m.fallback} \cup {m.regret} \cup {0}
    BY <2>3 DEF figures
  <2>6. Tells(Raise(fallen, m.regret), Levels(m))
    <3> DEFINE some == figures \cup ratios \cup {m.fallback} \cup {m.regret}
    <3> HIDE DEF some
    <3>1. Tells(Raise(fallen, m.regret), some)  BY <2>2 DEF some
    <3>2. Levels(m) = some \cup {0}  BY <2>5 DEF some
    <3>3. Tells(Raise(fallen, m.regret), some \cup {0})  BY <3>1 DEF Tells
    <3> QED  BY <3>2, <3>3
  <2> QED  BY <2>4, <2>6
<1>5. CASE ~m.correct
  <2>1. ScenarioVerdict(m) = "rollback"
    BY <1>5 DEF ScenarioVerdict
  <2>2. Levels(m) \subseteq 0..2
    <3>1. figures \subseteq 0..2  BY <1>1 DEF figures
    <3>2. ratios \subseteq 0..2  BY <1>1
    <3>3. Levels(m) = figures \cup {m.fallback, m.regret, 2} \cup ratios
      BY <1>5 DEF Levels, figures
    <3>4. {m.fallback, m.regret, 2} \subseteq 0..2  BY <1>1
    <3> HIDE DEF ratios
    <3> QED  BY <3>1, <3>2, <3>3, <3>4
  <2>3. 2 \in Levels(m)
    BY <1>5 DEF Levels
  <2> QED  BY <2>1, <2>2, <2>3 DEF Tells, Statuses
<1> QED  BY <1>1, <1>4, <1>5

(* The verdicts of a run tell of all the levels seen.                      *)
VerdictsTell ==
  /\ verdicts \subseteq Statuses
  /\ levels \subseteq 0..2
  /\ "rollback" \in verdicts <=> 2 \in levels
  /\ verdicts \subseteq {"pass"} <=> levels \subseteq {0}

(* Counts are counts, fallbacks are queries, and once the gate is closed   *)
(* nothing is counted any more.                                            *)
ReleaseTypes ==
  /\ shadow.asked \in Nat /\ shadow.fell \in Nat
  /\ gate \in Statuses \cup {"none"}
  /\ rollout \in [state : {"default", "canary", "active", "rollback"}, flags : {Features, {}}]
  /\ telemetry \in [queries : Nat, fallbacks : Nat]
  /\ unpolled \in Nat
  /\ gate # "none" => report = NoReport

(* Before a rollback the guard has seen few fallbacks, also while the      *)
(* features are not exposed: it is not asked then, but nothing was counted *)
(* as seen either.                                                         *)
FewSeen == rollout.state # "rollback" => telemetry.fallbacks <= MaxFallbacks + unpolled

ReleaseIInv == VerdictsTell /\ ReleaseTypes /\ FewSeen /\ ReleaseInv
(* A gate that has been closed stays as it is.                             *)
LEMMA ClosedGate ==
  ASSUME GateIsWorst,
         gate' = gate, shadow' = shadow, levels' = levels
  PROVE  GateIsWorst'
BY DEF GateIsWorst, ExitStatus

(* The gate takes the worst of the verdicts and of the rate of fallbacks.  *)
LEMMA GateTakesWorst ==
  ASSUME VerdictsTell, ReleaseTypes, shadow.worse = 0, EvaluateGate
  PROVE  GateIsWorst' /\ gate' \in Statuses
<1>1. shadow.asked \in Nat /\ shadow.fell \in Nat /\ GatePercent \in Nat /\ RollbackPercent \in Nat
  BY OperationsAssumption DEF ReleaseTypes
<1> DEFINE rolled == 100 * shadow.fell > RollbackPercent * shadow.asked
           failed == 100 * shadow.fell > GatePercent * shadow.asked
<1>2. ShadowLevels = {0, IF rolled THEN 2 ELSE IF failed THEN 1 ELSE 0}
  <2>1. ~(100 * shadow.worse > 20 * shadow.asked)
    BY <1>1
  <2> QED  BY <2>1 DEF ShadowLevels
<1>3. /\ gate' = "rollback" <=> ("rollback" \in verdicts \/ 2 \in ShadowLevels)
      /\ gate' = "pass" => /\ "rollback" \notin verdicts /\ "fail" \notin verdicts
                           /\ 1 \notin ShadowLevels /\ 2 \notin ShadowLevels
      /\ gate' \in Statuses
      /\ shadow' = shadow /\ levels' = levels
  BY DEF EvaluateGate, Statuses, searchVars
<1>4. rolled \/ ~failed => (2 \in ShadowLevels <=> rolled) /\ 1 \notin ShadowLevels
  BY <1>2
<1>5. 2 \in ShadowLevels <=> rolled
  BY <1>2
<1>6. 1 \notin ShadowLevels /\ 2 \notin ShadowLevels => ~rolled /\ ~failed
  BY <1>2
<1>7. ~failed => 100 * shadow.fell <= GatePercent * shadow.asked
  <2>1. GatePercent * shadow.asked \in Nat /\ 100 * shadow.fell \in Nat
    BY <1>1
  <2> QED  BY <2>1
<1> HIDE DEF rolled, failed
<1>8. gate' = "rollback" <=> 2 \in levels \/ rolled
  BY <1>3, <1>5 DEF VerdictsTell
<1>9. gate' = "pass" => levels \subseteq {0} /\ ~failed
  BY <1>3, <1>6 DEF VerdictsTell, Statuses
<1>10. ExitStatus(TRUE)' = 0 <=> gate' = "pass"
  BY <1>3 DEF ExitStatus, Statuses
<1> QED  BY <1>3, <1>7, <1>8, <1>9, <1>10 DEF GateIsWorst, rolled

(* No step lets the gate or the controller down.                           *)
LEMMA ReleaseStep == PlanInv /\ ReleaseIInv /\ [Next]_vars => ReleaseIInv'
<1> SUFFICES ASSUME PlanInv, ReleaseIInv, [Next]_vars  PROVE ReleaseIInv'
  OBVIOUS
<1>a. /\ VerdictsTell /\ ReleaseTypes /\ FewSeen /\ GateIsWorst /\ RolloutSafe
      /\ shadow.worse = 0
      /\ MaxFallbacks \in Nat /\ Features # {}
  BY OperationsAssumption DEF ReleaseIInv, ReleaseInv, PlanInv
(* Steps that touch neither the controller nor the gate.                   *)
<1>b. ASSUME UNCHANGED <<gateVars, rolloutVars, shadow>>, gate # "none" => report' = NoReport
      PROVE  ReleaseIInv'
  <2>1. VerdictsTell'
    BY <1>a, <1>b DEF VerdictsTell, gateVars
  <2>2. ReleaseTypes'
    BY <1>a, <1>b DEF ReleaseTypes, gateVars, rolloutVars
  <2>3. FewSeen' /\ RolloutSafe'
    BY <1>a, <1>b DEF FewSeen, RolloutSafe, Exposed, rolloutVars
  <2>4. GateIsWorst'
    BY <1>a, <1>b, ClosedGate DEF gateVars
  <2> QED  BY <2>1, <2>2, <2>3, <2>4 DEF ReleaseIInv, ReleaseInv
(* Steps of the controller.                                                *)
<1>c. ASSUME UNCHANGED <<gateVars, searchVars>>,
             ReleaseTypes', FewSeen', RolloutSafe'
      PROVE  ReleaseIInv'
  <2>1. VerdictsTell'
    BY <1>a, <1>c DEF VerdictsTell, gateVars
  <2>2. GateIsWorst'
    BY <1>a, <1>c, ClosedGate DEF gateVars, searchVars
  <2> QED  BY <1>c, <2>1, <2>2 DEF ReleaseIInv, ReleaseInv
<1>1. ASSUME NEW changed \in Changes, NEW tombstones \in SUBSET Paths, NEW declared \in Totals,
             NEW opt \in IndexOptions, AppendTo(changed, tombstones, declared, opt)
      PROVE  ReleaseIInv'
  BY <1>1, <1>a, <1>b DEF AppendTo, searchVars, ReleaseTypes
<1>2. ASSUME NEW opt \in IndexOptions, Compact(opt)
      PROVE  ReleaseIInv'
  BY <1>2, <1>a, <1>b DEF Compact, searchVars, ReleaseTypes
<1>3. ASSUME NEW query \in Queries, NEW scope \in Scopes, NEW gaveUp \in BOOLEAN,
             Search(query, scope, gaveUp)
      PROVE  ReleaseIInv'
  BY <1>3, <1>b DEF Search
<1>4. ASSUME NEW query \in Queries, NEW scope \in Scopes, NEW opt \in IndexOptions,
             Estimate(query, scope, opt)
      PROVE  ReleaseIInv'
  BY <1>4, <1>b DEF Estimate
<1>5. CASE TakeReport
  <2>1. /\ report # NoReport /\ report' = NoReport
        /\ UNCHANGED <<gateVars, rolloutVars>>
    BY <1>5 DEF TakeReport
  <2>2. gate = "none"
    BY <1>a, <2>1 DEF ReleaseTypes
  <2>3. shadow'.asked \in Nat /\ shadow'.fell \in Nat
    BY <1>5, <1>a DEF TakeReport, ReleaseTypes
  <2>4. VerdictsTell'
    BY <1>a, <2>1 DEF VerdictsTell, gateVars
  <2>5. ReleaseTypes'
    BY <1>a, <2>1, <2>3 DEF ReleaseTypes, gateVars, rolloutVars
  <2>6. FewSeen' /\ RolloutSafe'
    BY <1>a, <2>1 DEF FewSeen, RolloutSafe, Exposed, rolloutVars
  <2>7. GateIsWorst'
    BY <2>1, <2>2 DEF GateIsWorst, gateVars
  <2> QED  BY <2>4, <2>5, <2>6, <2>7 DEF ReleaseIInv, ReleaseInv
<1>6. ASSUME NEW m \in Measurements, RunScenario(m)
      PROVE  ReleaseIInv'
  <2>1. /\ gate = "none" /\ gate' = gate
        /\ verdicts' = verdicts \cup {ScenarioVerdict(m)}
        /\ levels' = levels \cup Levels(m)
        /\ UNCHANGED <<searchVars, rolloutVars>>
    BY <1>6 DEF RunScenario
  <2>2. Tells(ScenarioVerdict(m), Levels(m))
    BY VerdictTells
  <2>3. VerdictsTell'
    <3> DEFINE status == ScenarioVerdict(m)
               seen   == Levels(m)
    <3> HIDE DEF status, seen
    <3>1. Tells(status, seen)  BY <2>2 DEF status, seen
    <3>2. verdicts' = verdicts \cup {status} /\ levels' = levels \cup seen
      BY <2>1 DEF status, seen
    <3>3. verdicts' \subseteq Statuses /\ levels' \subseteq 0..2
      BY <1>a, <3>1, <3>2 DEF VerdictsTell, Tells
    <3>4. "rollback" \in verdicts' <=> 2 \in levels'
      BY <1>a, <3>1, <3>2 DEF VerdictsTell, Tells
    <3>5. verdicts' \subseteq {"pass"} <=> levels' \subseteq {0}
      BY <1>a, <3>1, <3>2 DEF VerdictsTell, Tells
    <3> QED  BY <3>3, <3>4, <3>5 DEF VerdictsTell
  <2>4. ReleaseTypes'
    BY <1>a, <2>1 DEF ReleaseTypes, searchVars, rolloutVars
  <2>5. FewSeen' /\ RolloutSafe'
    BY <1>a, <2>1 DEF FewSeen, RolloutSafe, Exposed, rolloutVars
  <2>6. GateIsWorst'
    BY <2>1 DEF GateIsWorst
  <2> QED  BY <2>3, <2>4, <2>5, <2>6 DEF ReleaseIInv, ReleaseInv
<1>7. CASE EvaluateGate
  <2>1. /\ report = NoReport
        /\ UNCHANGED <<verdicts, levels, searchVars, rolloutVars>>
    BY <1>7 DEF EvaluateGate, Free
  <2>2. GateIsWorst' /\ gate' \in Statuses
    BY <1>a, <1>7, GateTakesWorst
  <2>3. VerdictsTell'
    BY <1>a, <2>1 DEF VerdictsTell
  <2>4. ReleaseTypes'
    BY <1>a, <2>1, <2>2 DEF ReleaseTypes, searchVars, rolloutVars
  <2>5. FewSeen' /\ RolloutSafe'
    BY <1>a, <2>1 DEF FewSeen, RolloutSafe, Exposed, rolloutVars
  <2> QED  BY <2>2, <2>3, <2>4, <2>5 DEF ReleaseIInv, ReleaseInv
<1>8. ASSUME NEW fellBack \in BOOLEAN, RecordQuery(fellBack)
      PROVE  ReleaseIInv'
  <2> DEFINE one == IF fellBack THEN 1 ELSE 0
  <2>1. one \in {0, 1}  OBVIOUS
  <2>2. /\ telemetry' = [queries   |-> telemetry.queries + 1,
                         fallbacks |-> telemetry.fallbacks + one]
        /\ unpolled' = unpolled + one
        /\ UNCHANGED <<rollout, gateVars, searchVars>>
    BY <1>8 DEF RecordQuery
  <2> HIDE DEF one
  <2>3. ReleaseTypes'
    BY <1>a, <2>1, <2>2 DEF ReleaseTypes, gateVars, searchVars
  <2>4. FewSeen'
    BY <1>a, <2>1, <2>2 DEF FewSeen, ReleaseTypes
  <2>5. RolloutSafe'
    BY <1>a, <2>1, <2>2 DEF RolloutSafe, ReleaseTypes, Exposed
  <2> QED  BY <1>c, <2>2, <2>3, <2>4, <2>5
<1>9. CASE Guard
  <2>1. UNCHANGED <<telemetry, gateVars, searchVars>>
    BY <1>9 DEF Guard
  <2>2. CASE Exposed /\ ShouldTriggerRollback
    <3>1. rollout' = RolledBack /\ unpolled' = unpolled
      BY <1>9, <2>2 DEF Guard
    <3>2. ReleaseTypes'
      BY <1>a, <2>1, <3>1 DEF ReleaseTypes, RolledBack, gateVars, searchVars
    <3>3. FewSeen' /\ RolloutSafe'
      BY <1>a, <2>1, <3>1 DEF FewSeen, RolloutSafe, RolledBack, Exposed
    <3> QED  BY <1>c, <2>1, <3>2, <3>3
  <2>3. CASE Exposed /\ ~ShouldTriggerRollback
    <3>1. rollout' = rollout /\ unpolled' = 0
      BY <1>9, <2>3 DEF Guard
    <3>2. telemetry.fallbacks <= MaxFallbacks
      BY <1>a, <2>3 DEF ShouldTriggerRollback, ReleaseTypes
    <3>3. ReleaseTypes'
      BY <1>a, <2>1, <3>1 DEF ReleaseTypes, gateVars, searchVars
    <3>4. FewSeen' /\ RolloutSafe'
      BY <1>a, <2>1, <3>1, <3>2 DEF FewSeen, RolloutSafe, Exposed, ReleaseTypes
    <3> QED  BY <1>c, <2>1, <3>3, <3>4
  <2>4. CASE ~Exposed
    <3>1. rollout' = rollout /\ unpolled' = unpolled
      BY <1>9, <2>4 DEF Guard
    <3>2. ReleaseTypes' /\ FewSeen' /\ RolloutSafe'
      BY <1>a, <2>1, <3>1 DEF ReleaseTypes, FewSeen, RolloutSafe, Exposed, gateVars, searchVars
    <3> QED  BY <1>c, <2>1, <3>2
  <2> QED  BY <2>2, <2>3, <2>4
<1>10. CASE EnforceRollback
  <2>1. rollout' = RolledBack /\ UNCHANGED <<telemetry, unpolled, gateVars, searchVars>>
    BY <1>10 DEF EnforceRollback
  <2>2. ReleaseTypes'
    BY <1>a, <2>1 DEF ReleaseTypes, RolledBack, gateVars, searchVars
  <2>3. FewSeen' /\ RolloutSafe'
    BY <1>a, <2>1 DEF FewSeen, RolloutSafe, RolledBack, Exposed
  <2> QED  BY <1>c, <2>1, <2>2, <2>3
<1>11. CASE Promote
  <2>1. /\ rollout.state # "rollback" /\ rollout' = [rollout EXCEPT !.state = "active"]
        /\ UNCHANGED <<telemetry, unpolled, gateVars, searchVars>>
    BY <1>11 DEF Promote
  <2>2. rollout'.state = "active" /\ rollout'.flags = rollout.flags
    BY <1>a, <2>1 DEF ReleaseTypes
  <2>3. ReleaseTypes'
    BY <1>a, <2>1 DEF ReleaseTypes, gateVars, searchVars
  <2>4. FewSeen' /\ RolloutSafe'
    BY <1>a, <2>1, <2>2 DEF FewSeen, RolloutSafe, Exposed
  <2> QED  BY <1>c, <2>1, <2>3, <2>4
<1>12. CASE UNCHANGED vars
  BY <1>12, <1>a, <1>b DEF vars, searchVars, ReleaseTypes
<1> QED
  BY <1>1, <1>2, <1>3, <1>4, <1>5, <1>6, <1>7, <1>8, <1>9, <1>10, <1>11, <1>12 DEF Next

(* The state an index enters service in.                                   *)
LEMMA ReleaseInit == Init => ReleaseIInv
<1> SUFFICES ASSUME Init  PROVE ReleaseIInv
  OBVIOUS
<1>1. /\ shadow.asked = 0 /\ shadow.fell = 0 /\ verdicts = {} /\ levels = {} /\ gate = "none"
      /\ rollout \in [state : {"default", "canary"}, flags : {Features}]
      /\ telemetry = [queries |-> 0, fallbacks |-> 0] /\ unpolled = 0
  BY DEF Init
<1>2. VerdictsTell  BY <1>1 DEF VerdictsTell
<1>3. ReleaseTypes  BY <1>1 DEF ReleaseTypes
<1>4. FewSeen /\ RolloutSafe
  BY <1>1, OperationsAssumption DEF FewSeen, RolloutSafe, Exposed
<1>5. GateIsWorst  BY <1>1 DEF GateIsWorst
<1> QED  BY <1>2, <1>3, <1>4, <1>5 DEF ReleaseIInv, ReleaseInv

(* The gate rolls back exactly when a figure or the rate of fallbacks says *)
(* so, and a controller never exposes features after more fallbacks than   *)
(* it allows but for those its guard has not been asked about: ReleaseInv. *)
THEOREM ReleasesAreSafe == Spec => []ReleaseInv
<1>1. Init => PlanInv /\ ReleaseIInv
  <2>1. Init => PlanInv
    BY DEF Init, Build, FromDocuments, PlanInv
  <2> QED  BY <2>1, ReleaseInit
<1>2. (PlanInv /\ ReleaseIInv) /\ [Next]_vars => (PlanInv /\ ReleaseIInv)'
  BY PlanStep, ReleaseStep
<1>3. PlanInv /\ ReleaseIInv => ReleaseInv
  BY DEF ReleaseIInv
<1> QED  BY <1>1, <1>2, <1>3, PTL DEF Spec

-----------------------------------------------------------------------------
(* Documents: what a merge leaves under each path, their order, and their   *)
(* bytes.                                                                  *)

(* The documents kept, one after the other.                                *)
KeptStep(docs, tombstones, s, i) ==
  IF docs[i].path \in tombstones THEN s ELSE Append(s, docs[i])

LEMMA KeptRuns ==
  ASSUME NEW base, base.docs \in Seq(Documents), NEW tombstones
  PROVE  \E h \in [0..Len(base.docs) -> Seq(Documents)] :
           /\ h[0] = <<>> /\ Kept(base, tombstones) = h[Len(base.docs)]
           /\ \A k \in 1..Len(base.docs) : h[k] = KeptStep(base.docs, tombstones, h[k - 1], k)
<1> DEFINE docs == base.docs
           n == Len(docs)
           A == Seq(Documents)
           step == [i \in 1..n |-> [s \in A |-> KeptStep(docs, tombstones, s, i)]]
           empty == <<>>
<1>1. n \in Nat /\ DOMAIN docs = 1..n /\ empty \in A
  OBVIOUS
<1>2. step \in [1..n -> [A -> A]]
  BY DEF KeptStep
<1>3. PICK g \in [SUBSET (1..n) -> A] :
        /\ Folds(g, 1..n, empty, Last1(n), step)
        /\ FoldedTo(g, n) \in [0..n -> A]
        /\ Runs(FoldedTo(g, n), n, empty, step)
  <2> HIDE DEF n, A, step, empty
  <2> QED
    BY <1>1, <1>2, FoldRuns
<1> DEFINE Eq(iter) ==
      iter = [s \in SUBSET (1..n) |->
                IF s = {} THEN empty ELSE KeptStep(docs, tombstones, iter[s \ {Max(s)}], Max(s))]
<1>4. Eq(g)
  <2>1. ASSUME NEW s \in SUBSET (1..n)
        PROVE  g[s] = IF s = {} THEN empty
                      ELSE KeptStep(docs, tombstones, g[s \ {Max(s)}], Max(s))
    <3>1. CASE s = {}
      BY <1>3, <3>1 DEF Folds
    <3>2. CASE s # {}
      <4>1. Max(s) \in s /\ s \ {Max(s)} \in SUBSET (1..n)
        BY <1>1, <3>2, LastOne
      <4>2. g[s] = step[Max(s)][g[s \ {Max(s)}]]
        <5> HIDE DEF n, step, A
        <5> QED
          BY <1>3, <3>2 DEF Folds, Last1
      <4>3. g[s \ {Max(s)}] \in A /\ Max(s) \in 1..n
        BY <4>1
      <4> HIDE DEF n, A
      <4> QED
        BY <3>2, <4>2, <4>3
    <3> QED
      BY <3>1, <3>2
  <2> QED
    BY <2>1
<1> DEFINE chosen == CHOOSE iter : Eq(iter)
<1>5. Eq(chosen)
  <2> HIDE DEF Eq
  <2> QED
    BY <1>4
<1>6. Kept(base, tombstones) = chosen[1..n]
  BY <1>1 DEF Kept, FoldLeft, MapThenFoldSet, KeptStep
<1>7. \A k \in 1..n : chosen[1..k] = KeptStep(docs, tombstones, chosen[1..(k - 1)], k)
  <2> HIDE DEF chosen, n
  <2> QED
    BY <1>1, <1>5, LastOne
<1> DEFINE h == FoldedTo(g, n)
<1>8. h \in [0..n -> A] /\ h[0] = empty /\ \A k \in 1..n : h[k] = step[k][h[k - 1]]
  BY <1>3 DEF Runs
<1>9. \A k \in 1..n : h[k] = KeptStep(docs, tombstones, h[k - 1], k)
  <2> SUFFICES ASSUME NEW k \in 1..n PROVE h[k] = KeptStep(docs, tombstones, h[k - 1], k)
    OBVIOUS
  <2>1. h[k] = step[k][h[k - 1]] /\ h[k - 1] \in A
    <3> HIDE DEF h, n, A, step
    <3> QED
      BY <1>1, <1>8
  <2> HIDE DEF h, n, A
  <2> QED
    BY <2>1
<1>10. \A k \in Nat : k <= n => chosen[1..k] = h[k]
  <2> DEFINE T == {k \in Nat : k <= n => chosen[1..k] = h[k]}
  <2>1. 0 \in T
    <3>1. 1..0 = {} /\ {} \in SUBSET (1..n)
      OBVIOUS
    <3>2. chosen[1..0] = empty
      <4> HIDE DEF chosen, n, empty
      <4> QED
        BY <1>5, <3>1
    <3> HIDE DEF chosen, h, n, empty
    <3> QED
      BY <1>8, <3>2
  <2>2. ASSUME NEW k \in T PROVE k + 1 \in T
    <3> HIDE DEF chosen, h, n
    <3>1. k + 1 \in Nat /\ (k + 1) - 1 = k
      OBVIOUS
    <3>2. CASE k + 1 <= n
      <4>1. k + 1 \in 1..n /\ k <= n
        BY <1>1, <3>2
      <4>2. chosen[1..(k + 1)] = KeptStep(docs, tombstones, chosen[1..k], k + 1)
        BY <1>7, <3>1, <4>1
      <4>3. h[k + 1] = KeptStep(docs, tombstones, h[k], k + 1)
        BY <1>9, <3>1, <4>1
      <4>4. chosen[1..k] = h[k]
        BY <4>1
      <4> QED
        BY <3>1, <4>2, <4>3, <4>4
    <3> QED
      BY <3>1, <3>2
  <2>3. T \in SUBSET Nat
    OBVIOUS
  <2>4. T = Nat
    <3> HIDE DEF T
    <3> QED
      BY <2>1, <2>2, <2>3, FromZero
  <2> QED
    BY <2>4
<1>11. Kept(base, tombstones) = h[n]
  <2> HIDE DEF chosen, h
  <2> QED
    BY <1>1, <1>6, <1>10
<1> HIDE DEF h
<1> QED
  BY <1>8, <1>9, <1>11

(* What a sequence holds after an append at its end.                       *)
LEMMA AppendIs ==
  ASSUME NEW s \in Seq(Documents), NEW d \in Documents
  PROVE  /\ Append(s, d) \in Seq(Documents)
         /\ ToSet(Append(s, d)) = ToSet(s) \cup {d}
         /\ Distinct(s) /\ (\A e \in ToSet(s) : e.path # d.path) => Distinct(Append(s, d))
<1> DEFINE t == Append(s, d)
           n == Len(s)
<1>1. /\ n \in Nat /\ DOMAIN s = 1..n /\ t \in Seq(Documents) /\ DOMAIN t = 1..(n + 1)
      /\ t[n + 1] = d /\ \A i \in 1..n : t[i] = s[i]
  OBVIOUS
<1>2. 1..(n + 1) = (1..n) \cup {n + 1}
  BY <1>1
<1> HIDE DEF t, n
<1>3. ToSet(t) = ToSet(s) \cup {d}
  BY <1>1, <1>2 DEF ToSet
<1>4. ASSUME Distinct(s), \A e \in ToSet(s) : e.path # d.path PROVE Distinct(t)
  <2>1. \A i \in 1..n : s[i].path # d.path
    BY <1>1, <1>4 DEF ToSet
  <2> QED
    BY <1>1, <1>2, <1>4, <2>1 DEF Distinct
<1> QED
  BY <1>1, <1>3, <1>4 DEF t

(* A change takes the place of the document under its path, or comes last. *)
LEMMA ReplaceIs ==
  ASSUME NEW s \in Seq(Documents), Distinct(s), NEW d \in Documents
  PROVE  /\ Replace(s, d) \in Seq(Documents)
         /\ Distinct(Replace(s, d))
         /\ ToSet(Replace(s, d)) = {e \in ToSet(s) : e.path # d.path} \cup {d}
<1> DEFINE at == {i \in 1..Len(s) : s[i].path = d.path}
<1>1. CASE at = {}
  <2>1. Replace(s, d) = Append(s, d)
    BY <1>1 DEF Replace
  <2>2. \A e \in ToSet(s) : e.path # d.path
    BY <1>1 DEF ToSet
  <2> QED
    BY <2>1, <2>2, AppendIs
<1>2. CASE at # {}
  <2> DEFINE m == Min(at)
             t == [s EXCEPT ![m] = d]
  <2>1. m \in at
    <3>1. at \in SUBSET Nat
      OBVIOUS
    <3> HIDE DEF at
    <3> QED
      BY <1>2, <3>1, LeastIs
  <2>2. Replace(s, d) = t
    BY <1>2 DEF Replace
  <2>3. m \in DOMAIN s /\ s[m].path = d.path
    BY <2>1
  <2> HIDE DEF m, at
  <2>4. t \in Seq(Documents)
    BY <2>3
  <2>5. DOMAIN t = DOMAIN s /\ t[m] = d /\ \A i \in DOMAIN s : i # m => t[i] = s[i]
    BY <2>3
  <2> HIDE DEF t
  <2>6. \A i \in DOMAIN s : t[i].path = s[i].path
    BY <2>3, <2>5
  <2>7. Distinct(t)
    BY <2>5, <2>6 DEF Distinct
  <2>8. \A i \in DOMAIN s : i # m => s[i].path # d.path
    BY <2>3 DEF Distinct
  <2>9. ToSet(t) = {e \in ToSet(s) : e.path # d.path} \cup {d}
    BY <2>3, <2>5, <2>8 DEF ToSet
  <2> QED
    BY <2>2, <2>4, <2>7, <2>9
<1> QED
  BY <1>1, <1>2

(* An append keeps the documents of the base without a tombstone.          *)
LEMMA KeptIs ==
  ASSUME NEW base, base.docs \in Seq(Documents), Distinct(base.docs), NEW tombstones
  PROVE  /\ Kept(base, tombstones) \in Seq(Documents)
         /\ Distinct(Kept(base, tombstones))
         /\ ToSet(Kept(base, tombstones)) = {d \in ToSet(base.docs) : d.path \notin tombstones}
<1> DEFINE docs == base.docs
           n == Len(docs)
           some(k) == {docs[i] : i \in {j \in 1..k : docs[j].path \notin tombstones}}
<1>1. PICK h \in [0..n -> Seq(Documents)] :
        /\ h[0] = <<>> /\ Kept(base, tombstones) = h[n]
        /\ \A k \in 1..n : h[k] = KeptStep(docs, tombstones, h[k - 1], k)
  BY KeptRuns
<1>2. n \in Nat /\ DOMAIN docs = 1..n
  OBVIOUS
<1> DEFINE G == {k \in 0..n : Distinct(h[k]) /\ ToSet(h[k]) = some(k)}
<1>3. 0 \in G
  <2>1. DOMAIN h[0] = {}
    BY <1>1
  <2> QED
    BY <1>2, <2>1 DEF Distinct, ToSet
<1>4. ASSUME NEW k \in 1..n, k - 1 \in G PROVE k \in G
  <2> DEFINE s == h[k - 1]
             d == docs[k]
  <2>1. s \in Seq(Documents) /\ d \in Documents /\ Distinct(s) /\ ToSet(s) = some(k - 1)
    BY <1>2, <1>4
  <2>2. h[k] = IF d.path \in tombstones THEN s ELSE Append(s, d)
    BY <1>1 DEF KeptStep
  <2>3. 1..k = (1..(k - 1)) \cup {k}
    BY <1>2
  <2>4. CASE d.path \in tombstones
    <3>1. some(k) = some(k - 1)
      BY <2>3, <2>4
    <3> HIDE DEF some, s
    <3> QED
      BY <2>1, <2>2, <2>4, <3>1
  <2>5. CASE d.path \notin tombstones
    <3>1. some(k) = some(k - 1) \cup {d}
      BY <2>3, <2>5
    <3>2. \A e \in some(k - 1) : e.path # d.path
      <4>1. \A i \in 1..(k - 1) : i \in DOMAIN docs /\ k \in DOMAIN docs /\ i # k
        BY <1>2
      <4>2. \A i \in 1..(k - 1) : docs[i].path # docs[k].path
        BY <4>1 DEF Distinct
      <4> QED
        BY <4>2
    <3> HIDE DEF some, s, d
    <3>3. Distinct(h[k]) /\ ToSet(h[k]) = some(k)
      BY <2>1, <2>2, <2>5, <3>1, <3>2, AppendIs
    <3> QED
      BY <1>2, <3>3
  <2> QED
    BY <2>4, <2>5
<1>5. n \in G
  <2> HIDE DEF G, n
  <2> QED
    BY <1>2, <1>3, <1>4, Upwards
<1>6. some(n) = {d \in ToSet(docs) : d.path \notin tombstones}
  BY <1>2 DEF ToSet
<1>7. Kept(base, tombstones) \in Seq(Documents)
  BY <1>1, <1>2
<1> HIDE DEF some
<1> QED
  BY <1>1, <1>5, <1>6, <1>7

(* The changes made one after the other.                                   *)
NoTwo == {s \in Seq(Documents) : Distinct(s)}

LEMMA MergedRuns ==
  ASSUME NEW changed \in Seq(Documents), NEW base, NEW tombstones, Kept(base, tombstones) \in NoTwo
  PROVE  \E h \in [0..Len(changed) -> NoTwo] :
           /\ h[0] = Kept(base, tombstones)
           /\ Merged(base, changed, tombstones) = h[Len(changed)]
           /\ \A k \in 1..Len(changed) : h[k] = Replace(h[k - 1], changed[k])
<1> DEFINE n == Len(changed)
           A == NoTwo
           step == [i \in 1..n |-> [s \in A |-> Replace(s, changed[i])]]
           first == Kept(base, tombstones)
<1>1. n \in Nat /\ DOMAIN changed = 1..n /\ first \in A
  OBVIOUS
<1>2. step \in [1..n -> [A -> A]]
  <2>1. \A i \in 1..n : changed[i] \in Documents
    OBVIOUS
  <2>2. \A s \in NoTwo, d \in Documents : Replace(s, d) \in NoTwo
    BY ReplaceIs DEF NoTwo
  <2> QED
    BY <2>1, <2>2
<1>3. PICK g \in [SUBSET (1..n) -> A] :
        /\ Folds(g, 1..n, first, Last1(n), step)
        /\ FoldedTo(g, n) \in [0..n -> A]
        /\ Runs(FoldedTo(g, n), n, first, step)
  <2> HIDE DEF n, A, step, first
  <2> QED
    BY <1>1, <1>2, FoldRuns
<1> DEFINE Eq(iter) ==
      iter = [s \in SUBSET (1..n) |->
                IF s = {} THEN first ELSE Replace(iter[s \ {Max(s)}], changed[Max(s)])]
<1>4. Eq(g)
  <2>1. ASSUME NEW s \in SUBSET (1..n)
        PROVE  g[s] = IF s = {} THEN first
                      ELSE Replace(g[s \ {Max(s)}], changed[Max(s)])
    <3>1. CASE s = {}
      BY <1>3, <3>1 DEF Folds
    <3>2. CASE s # {}
      <4>1. Max(s) \in s /\ s \ {Max(s)} \in SUBSET (1..n)
        BY <1>1, <3>2, LastOne
      <4>2. g[s] = step[Max(s)][g[s \ {Max(s)}]]
        <5> HIDE DEF n, step, A
        <5> QED
          BY <1>3, <3>2 DEF Folds, Last1
      <4>3. g[s \ {Max(s)}] \in A /\ Max(s) \in 1..n
        BY <4>1
      <4> HIDE DEF n, A
      <4> QED
        BY <3>2, <4>2, <4>3
    <3> QED
      BY <3>1, <3>2
  <2> QED
    BY <2>1
<1> DEFINE chosen == CHOOSE iter : Eq(iter)
<1>5. Eq(chosen)
  <2> HIDE DEF Eq
  <2> QED
    BY <1>4
<1>6. Merged(base, changed, tombstones) = chosen[1..n]
  BY <1>1 DEF Merged, FoldLeft, MapThenFoldSet
<1>7. \A k \in 1..n : chosen[1..k] = Replace(chosen[1..(k - 1)], changed[k])
  <2> HIDE DEF chosen, n
  <2> QED
    BY <1>1, <1>5, LastOne
<1> DEFINE h == FoldedTo(g, n)
<1>8. h \in [0..n -> A] /\ h[0] = first /\ \A k \in 1..n : h[k] = step[k][h[k - 1]]
  BY <1>3 DEF Runs
<1>9. \A k \in 1..n : h[k] = Replace(h[k - 1], changed[k])
  <2> SUFFICES ASSUME NEW k \in 1..n PROVE h[k] = Replace(h[k - 1], changed[k])
    OBVIOUS
  <2>1. h[k] = step[k][h[k - 1]] /\ h[k - 1] \in A
    <3> HIDE DEF h, n, A, step
    <3> QED
      BY <1>1, <1>8
  <2> HIDE DEF h, n, A
  <2> QED
    BY <2>1
<1>10. \A k \in Nat : k <= n => chosen[1..k] = h[k]
  <2> DEFINE T == {k \in Nat : k <= n => chosen[1..k] = h[k]}
  <2>1. 0 \in T
    <3>1. 1..0 = {} /\ {} \in SUBSET (1..n)
      OBVIOUS
    <3>2. chosen[1..0] = first
      <4> HIDE DEF chosen, n, first
      <4> QED
        BY <1>5, <3>1
    <3> HIDE DEF chosen, h, n, first
    <3> QED
      BY <1>8, <3>2
  <2>2. ASSUME NEW k \in T PROVE k + 1 \in T
    <3> HIDE DEF chosen, h, n
    <3>1. k + 1 \in Nat /\ (k + 1) - 1 = k
      OBVIOUS
    <3>2. CASE k + 1 <= n
      <4>1. k + 1 \in 1..n /\ k <= n
        BY <1>1, <3>2
      <4>2. chosen[1..(k + 1)] = Replace(chosen[1..k], changed[k + 1])
        BY <1>7, <3>1, <4>1
      <4>3. h[k + 1] = Replace(h[k], changed[k + 1])
        BY <1>9, <3>1, <4>1
      <4>4. chosen[1..k] = h[k]
        BY <4>1
      <4> QED
        BY <3>1, <4>2, <4>3, <4>4
    <3> QED
      BY <3>1, <3>2
  <2>3. T \in SUBSET Nat
    OBVIOUS
  <2>4. T = Nat
    <3> HIDE DEF T
    <3> QED
      BY <2>1, <2>2, <2>3, FromZero
  <2> QED
    BY <2>4
<1>11. Merged(base, changed, tombstones) = h[n]
  <2> HIDE DEF chosen, h
  <2> QED
    BY <1>1, <1>6, <1>10
<1> HIDE DEF h
<1> QED
  BY <1>8, <1>9, <1>11

(* Whether a change is the last under its path among the first k.          *)
LastChange(changed, k, i) == \A j \in (i + 1)..k : changed[j].path # changed[i].path

(* What an append leaves: the last change under each path that has one,    *)
(* and the document of the base under any other without a tombstone.       *)
LEMMA MergedIs ==
  ASSUME NEW base, base.docs \in Seq(Documents), Distinct(base.docs), NEW tombstones,
         NEW changed \in Seq(Documents)
  PROVE  /\ Merged(base, changed, tombstones) \in Seq(Documents)
         /\ Distinct(Merged(base, changed, tombstones))
         /\ ToSet(Merged(base, changed, tombstones)) =
              {d \in ToSet(base.docs) : /\ d.path \notin tombstones
                                       /\ \A i \in 1..Len(changed) : changed[i].path # d.path}
                \cup {changed[i] : i \in {j \in 1..Len(changed) : LastChange(changed, Len(changed), j)}}
<1> DEFINE n == Len(changed)
           first == Kept(base, tombstones)
           Others(k) == {d \in ToSet(first) : \A i \in 1..k : changed[i].path # d.path}
           Latest(k) == {changed[i] : i \in {j \in 1..k : LastChange(changed, k, j)}}
<1>1. /\ first \in NoTwo
      /\ ToSet(first) = {d \in ToSet(base.docs) : d.path \notin tombstones}
  BY KeptIs DEF NoTwo
<1>2. PICK h \in [0..n -> NoTwo] :
        /\ h[0] = first /\ Merged(base, changed, tombstones) = h[n]
        /\ \A k \in 1..n : h[k] = Replace(h[k - 1], changed[k])
  BY <1>1, MergedRuns
<1>3. n \in Nat /\ \A k \in 1..n : changed[k] \in Documents
  OBVIOUS
<1> HIDE DEF n, first
<1> DEFINE G == {k \in 0..n : ToSet(h[k]) = Others(k) \cup Latest(k)}
<1>4. 0 \in G
  <2>1. Others(0) = ToSet(first) /\ Latest(0) = {}
    OBVIOUS
  <2> HIDE DEF Others, Latest
  <2> QED
    BY <1>2, <1>3, <2>1
<1>5. ASSUME NEW k \in 1..n, k - 1 \in G PROVE k \in G
  <2> DEFINE s == h[k - 1]
             d == changed[k]
  <2>1. s \in NoTwo /\ ToSet(s) = Others(k - 1) \cup Latest(k - 1) /\ d \in Documents /\ h[k] = Replace(s, d)
    BY <1>2, <1>3, <1>5
  <2>2. ToSet(h[k]) = {e \in ToSet(s) : e.path # d.path} \cup {d}
    <3> HIDE DEF s, d
    <3> QED
      BY <2>1, ReplaceIs DEF NoTwo
  <2>3. 1..k = (1..(k - 1)) \cup {k}
    BY <1>3
  <2>4. Others(k) = {e \in Others(k - 1) : e.path # d.path}
    BY <2>3
  <2>5. Latest(k) = {e \in Latest(k - 1) : e.path # d.path} \cup {d}
    <3>1. LastChange(changed, k, k)
      BY <1>3 DEF LastChange
    <3>2. ASSUME NEW i \in 1..(k - 1)
          PROVE  LastChange(changed, k, i) <=> LastChange(changed, k - 1, i) /\ changed[i].path # d.path
      <4>1. (i + 1)..k = ((i + 1)..(k - 1)) \cup {k}
        BY <1>3
      <4> QED
        BY <4>1 DEF LastChange
    <3>3. Latest(k) \subseteq {e \in Latest(k - 1) : e.path # d.path} \cup {d}
      BY <2>3, <3>2
    <3>4. {e \in Latest(k - 1) : e.path # d.path} \subseteq Latest(k)
      BY <2>3, <3>2
    <3>5. d \in Latest(k)
      BY <3>1, <1>3
    <3> HIDE DEF Latest
    <3> QED
      BY <3>3, <3>4, <3>5
  <2> HIDE DEF s, d, Others, Latest
  <2>6. ToSet(h[k]) = Others(k) \cup Latest(k)
    BY <2>1, <2>2, <2>4, <2>5
  <2> QED
    BY <1>3, <2>6
<1>6. n \in G
  <2> HIDE DEF G
  <2> QED
    BY <1>3, <1>4, <1>5, Upwards
<1>7. h[n] \in NoTwo
  BY <1>2, <1>3
<1> QED
  BY <1>1, <1>2, <1>6, <1>7 DEF NoTwo, n

-----------------------------------------------------------------------------
(* Documents in order.                                                     *)

At(docs, k) == CHOOSE i \in DOMAIN docs : Cardinality(Before(docs, i)) = k - 1

LEMMA PathsAreNumbers ==
  ASSUME NEW docs \in Seq(Documents)
  PROVE  /\ Len(docs) \in Nat /\ DOMAIN docs = 1..Len(docs) /\ IsFiniteSet(DOMAIN docs)
         /\ Cardinality(DOMAIN docs) = Len(docs)
         /\ \A i \in DOMAIN docs : /\ docs[i] \in Documents /\ docs[i].path \in Nat
                                   /\ docs[i].content \in Contents
                                   /\ docs[i].content.size \in Nat
<1>1. Len(docs) \in Nat /\ DOMAIN docs = 1..Len(docs)
  OBVIOUS
<1>2. IsFiniteSet(1..Len(docs)) /\ Cardinality(1..Len(docs)) = Len(docs)
  BY <1>1, FS_Interval
<1>3. \A i \in DOMAIN docs : docs[i] \in Documents
  OBVIOUS
<1>4. \A d \in Documents : d.path \in Nat /\ d.content \in Contents /\ d.content.size \in Nat
  BY SegmentsAssumption DEF Documents
<1> QED
  BY <1>1, <1>2, <1>3, <1>4

LEMMA BeforeOrders ==
  ASSUME NEW docs \in Seq(Documents)
  PROVE  Orders([i \in DOMAIN docs |-> Before(docs, i)], DOMAIN docs)
<1> DEFINE S == DOMAIN docs
           path == [i \in S |-> docs[i].path]
           B == [i \in S |-> {j \in S : path[j] < path[i] \/ (path[j] = path[i] /\ j < i)}]
<1>1. S \subseteq Nat /\ \A i \in S : path[i] \in Nat
  BY PathsAreNumbers
<1>2. B = [i \in S |-> Before(docs, i)]
  BY DEF Before
<1> HIDE DEF S, path
<1>3. B \in [S -> SUBSET S] /\ \A i \in S : i \notin B[i]
  BY <1>1
<1>4. ASSUME NEW i \in S, NEW j \in S, i \in B[j] PROVE B[i] \subseteq B[j]
  <2> SUFFICES ASSUME NEW k \in B[i] PROVE k \in B[j]
    OBVIOUS
  <2>1. i \in Nat /\ j \in Nat /\ k \in S /\ k \in Nat
    BY <1>1
  <2>2. path[i] \in Nat /\ path[j] \in Nat /\ path[k] \in Nat
    BY <1>1, <2>1
  <2> QED
    BY <1>4, <2>1, <2>2
<1>5. \A i, j \in S : i # j => i \in B[j] \/ j \in B[i]
  BY <1>1
<1> HIDE DEF B
<1>6. Orders(B, S)
  BY <1>3, <1>4, <1>5 DEF Orders
<1> QED
  BY <1>2, <1>6 DEF S

LEMMA AtIs ==
  ASSUME NEW docs \in Seq(Documents), NEW k \in 1..Len(docs)
  PROVE  At(docs, k) \in DOMAIN docs /\ Cardinality(Before(docs, At(docs, k))) = k - 1
<1> DEFINE S == DOMAIN docs
           B == [i \in S |-> Before(docs, i)]
<1>1. Orders(B, S) /\ IsFiniteSet(S) /\ k - 1 \in 0..(Cardinality(S) - 1)
  BY BeforeOrders, PathsAreNumbers
<1>2. \E i \in S : Cardinality(B[i]) = k - 1
  <2> HIDE DEF B, S
  <2> QED
    BY <1>1, RankIsOnto
<1>3. \E i \in S : Cardinality(Before(docs, i)) = k - 1
  BY <1>2
<1> QED
  BY <1>3 DEF At

(* std::sort loses no document, and leaves them by their paths.            *)
LEMMA SortedIs ==
  ASSUME NEW docs \in Seq(Documents)
  PROVE  /\ Sorted(docs) \in Seq(Documents) /\ Len(Sorted(docs)) = Len(docs)
         /\ ToSet(Sorted(docs)) = ToSet(docs)
         /\ Distinct(docs) => /\ Distinct(Sorted(docs))
                              /\ \A i \in 1..Len(Sorted(docs)) : \A j \in 1..(i - 1) :
                                   Sorted(docs)[j].path < Sorted(docs)[i].path
<1> DEFINE S == DOMAIN docs
           n == Len(docs)
           t == Sorted(docs)
           B == [i \in S |-> Before(docs, i)]
<1>1. Orders(B, S) /\ IsFiniteSet(S) /\ Cardinality(S) = n /\ n \in Nat /\ S = 1..n
  BY BeforeOrders, PathsAreNumbers
<1>2. \A i \in S : docs[i] \in Documents /\ docs[i].path \in Nat
  BY PathsAreNumbers
<1>3. t = [k \in 1..n |-> docs[At(docs, k)]]
  BY DEF Sorted, At
<1>4. \A k \in 1..n : At(docs, k) \in S /\ Cardinality(B[At(docs, k)]) = k - 1
  <2> TAKE k \in 1..n
  <2>1. At(docs, k) \in S /\ Cardinality(Before(docs, At(docs, k))) = k - 1
    BY AtIs
  <2> QED
    BY <2>1
<1>5. t \in Seq(Documents)
  <2> HIDE DEF S, n, t, B
  <2>1. \A k \in 1..n : docs[At(docs, k)] \in Documents
    BY <1>2, <1>4
  <2> QED
    BY <1>1, <1>3, <2>1
<1>6. Len(t) = n /\ DOMAIN t = 1..n
  BY <1>1, <1>3
<1>7. ASSUME NEW i \in S PROVE \E k \in 1..n : At(docs, k) = i
  <2> DEFINE k == Cardinality(B[i]) + 1
  <2>1. Cardinality(B[i]) \in 0..(n - 1)
    <3> HIDE DEF B, S, n
    <3> QED
      BY <1>1, RankType
  <2>2. k \in 1..n /\ k - 1 = Cardinality(B[i])
    BY <1>1, <2>1
  <2>3. Cardinality(B[At(docs, k)]) = Cardinality(B[i]) /\ At(docs, k) \in S
    <3> HIDE DEF k, B, S, n
    <3> QED
      BY <1>4, <2>2
  <2>4. At(docs, k) = i
    <3> HIDE DEF k, B, S, n
    <3> QED
      BY <1>1, <2>3, RankIsOne
  <2> QED
    BY <2>2, <2>4
<1>8. ToSet(t) = ToSet(docs)
  <2>1. ToSet(t) = {t[k] : k \in 1..n} /\ ToSet(docs) = {docs[i] : i \in S}
    BY <1>6 DEF ToSet
  <2>2. \A k \in 1..n : t[k] \in {docs[i] : i \in S}
    BY <1>3, <1>4
  <2>3. \A i \in S : docs[i] \in {t[k] : k \in 1..n}
    <3> HIDE DEF t, S, n
    <3> QED
      BY <1>3, <1>7
  <2> HIDE DEF t, S, n
  <2> QED
    BY <2>1, <2>2, <2>3
<1>9. ASSUME Distinct(docs), NEW i \in 1..n, NEW j \in 1..(i - 1) PROVE t[j].path < t[i].path
  <2> DEFINE a == At(docs, j)
             b == At(docs, i)
  <2>1. j \in 1..n /\ j - 1 < i - 1
    BY <1>1
  <2>2. a \in S /\ b \in S /\ Cardinality(B[a]) = j - 1 /\ Cardinality(B[b]) = i - 1
    BY <1>4, <2>1
  <2>3. a \in B[b]
    <3>1. a # b
      <4> HIDE DEF a, b, B, S, n
      <4> QED
        BY <2>1, <2>2
    <3>2. b \notin B[a]
      <4> HIDE DEF a, b, B, S, n
      <4>1. b \in B[a] => Cardinality(B[b]) < Cardinality(B[a])
        BY <1>1, <2>2, RankGrows
      <4> QED
        BY <2>1, <2>2, <4>1
    <3> HIDE DEF a, b, B, S, n
    <3> QED
      BY <1>1, <2>2, <3>1, <3>2 DEF Orders
  <2>4. docs[a].path < docs[b].path \/ (docs[a].path = docs[b].path /\ a < b)
    <3>1. a \in Before(docs, b)
      <4> HIDE DEF a, b
      <4> QED
        BY <2>2, <2>3
    <3> HIDE DEF a, b
    <3> QED
      BY <3>1 DEF Before
  <2>5. ~(docs[a].path = docs[b].path /\ a < b)
    <3> HIDE DEF a, b, B
    <3>1. a \in Nat /\ b \in Nat /\ a \in DOMAIN docs /\ b \in DOMAIN docs
      BY <1>1, <2>2
    <3> QED
      BY <1>9, <3>1 DEF Distinct
  <2>6. t[j] = docs[a] /\ t[i] = docs[b]
    <3> HIDE DEF t, n
    <3> QED
      BY <1>3, <2>1
  <2> HIDE DEF a, b, t
  <2> QED
    BY <2>4, <2>5, <2>6
<1>10. ASSUME Distinct(docs) PROVE Distinct(t)
  <2> SUFFICES ASSUME NEW i \in 1..n, NEW j \in 1..n, t[i].path = t[j].path PROVE i = j
    BY <1>6 DEF Distinct
  <2>1. i \in Nat /\ j \in Nat /\ (i < j => i \in 1..(j - 1)) /\ (j < i => j \in 1..(i - 1))
    BY <1>1
  <2>2. t[i].path \in Nat
    <3> HIDE DEF t, n
    <3>1. t[i] \in Documents
      BY <1>5, <1>6
    <3> QED
      BY <3>1, SegmentsAssumption DEF Documents
  <2> HIDE DEF t, n
  <2>3. ~(i < j)
    BY <1>9, <1>10, <2>1, <2>2
  <2>4. ~(j < i)
    BY <1>9, <1>10, <2>1, <2>2
  <2> QED
    BY <2>1, <2>3, <2>4
<1> HIDE DEF t, S, B
<1> QED
  BY <1>5, <1>6, <1>8, <1>9, <1>10 DEF t

-----------------------------------------------------------------------------
(* The bytes of documents.                                                 *)

LEMMA BytesType ==
  ASSUME NEW docs \in Seq(Documents)
  PROVE  /\ \A i \in DOMAIN docs : Sizes(docs)[i] \in Nat
         /\ Bytes(docs) \in Nat
         /\ \A paths : BytesIn(docs, paths) \in Nat /\ BytesIn(docs, paths) <= Bytes(docs)
<1> DEFINE S == DOMAIN docs
           f == Sizes(docs)
<1>1. IsFiniteSet(S) /\ DOMAIN f = S /\ \A i \in S : f[i] \in Nat
  BY PathsAreNumbers DEF Sizes
<1> HIDE DEF S, f
<1>2. SumFunctionOnSet(f, S) \in Nat
  BY <1>1, SumType
<1>3. Bytes(docs) = SumFunctionOnSet(f, S)
  BY <1>1 DEF Bytes, SumFunction, f
<1>4. ASSUME NEW paths PROVE BytesIn(docs, paths) \in Nat /\ BytesIn(docs, paths) <= Bytes(docs)
  <2> DEFINE R == {i \in S : docs[i].path \in paths}
  <2>1. R \subseteq S /\ IsFiniteSet(R)
    BY <1>1, FS_Subset
  <2>2. BytesIn(docs, paths) = SumFunctionOnSet(f, R)
    BY DEF BytesIn, f, S
  <2> HIDE DEF R
  <2>3. SumFunctionOnSet(f, R) \in Nat
    <3>1. \A x \in R : f[x] \in Nat
      BY <1>1, <2>1
    <3> QED
      BY <2>1, <3>1, SumType
  <2>4. SumFunctionOnSet(f, R) <= SumFunctionOnSet(f, S)
    <3>1. \A x \in R : f[x] \in Nat /\ f[x] <= f[x]
      BY <1>1, <2>1
    <3> QED
      BY <1>1, <2>1, <3>1, SumGrows
  <2> QED
    BY <1>3, <2>2, <2>3, <2>4
<1>5. \A i \in S : Sizes(docs)[i] \in Nat
  BY <1>1 DEF f
<1> QED
  BY <1>2, <1>3, <1>4, <1>5 DEF S

(* Documents that are all among others are no larger.                      *)
LEMMA PartOf ==
  ASSUME NEW a \in Seq(Documents), Distinct(a), NEW b \in Seq(Documents),
         NEW S \in SUBSET DOMAIN a, NEW T \in SUBSET DOMAIN b, \A i \in S : \E j \in T : b[j] = a[i]
  PROVE  SumFunctionOnSet(Sizes(a), S) <= SumFunctionOnSet(Sizes(b), T)
<1> DEFINE f == Sizes(a)
           g == Sizes(b)
           to == [i \in S |-> CHOOSE j \in T : b[j] = a[i]]
<1>1. IsFiniteSet(S) /\ IsFiniteSet(T)
  BY PathsAreNumbers, FS_Subset
<1>2. \A i \in S : to[i] \in T /\ b[to[i]] = a[i]
  OBVIOUS
<1>3. to \in [S -> T]
  BY <1>2
<1> HIDE DEF to
<1>4. \A x, y \in S : to[x] = to[y] => x = y
  BY <1>2 DEF Distinct
<1>5. \A x \in S : f[x] <= g[to[x]] /\ f[x] \in Nat
  <2> TAKE x \in S
  <2>1. f[x] = a[x].content.size /\ g[to[x]] = b[to[x]].content.size
    BY <1>2 DEF Sizes
  <2>2. f[x] \in Nat
    BY BytesType
  <2> HIDE DEF f, g
  <2> QED
    BY <1>2, <2>1, <2>2
<1>6. \A y \in T : g[y] \in Nat
  BY BytesType
<1> HIDE DEF f, g
<1>7. SumFunctionOnSet(f, S) <= SumFunctionOnSet(g, T)
  BY <1>1, <1>3, <1>4, <1>5, <1>6, SumInjects
<1> QED
  BY <1>7 DEF f, g

(* Of what an append leaves, no more is fresh than was fresh before and    *)
(* than it changed.                                                        *)
LEMMA FreshGrows ==
  ASSUME NEW base, base.docs \in Seq(Documents), Distinct(base.docs), NEW tombstones,
         NEW changed \in Seq(Documents), NEW old
  PROVE  BytesIn(Sorted(Merged(base, changed, tombstones)),
                 old \cup {changed[i].path : i \in 1..Len(changed)})
           <= BytesIn(base.docs, old) + Bytes(changed)
<1> DEFINE C == {changed[i].path : i \in 1..Len(changed)}
           m == Merged(base, changed, tombstones)
           t == Sorted(m)
           X == {i \in DOMAIN t : t[i].path \in old \cup C}
           Y == {i \in DOMAIN t : t[i].path \in C}
           Z == {i \in DOMAIN t : t[i].path \in old /\ t[i].path \notin C}
           R == {i \in DOMAIN base.docs : base.docs[i].path \in old}
           f == Sizes(t)
<1>1. t \in Seq(Documents) /\ Distinct(t) /\ ToSet(t) = ToSet(m)
  BY MergedIs, SortedIs
<1>2. ASSUME NEW i \in DOMAIN t
      PROVE  /\ t[i].path \in C => \E j \in DOMAIN changed : changed[j] = t[i]
             /\ t[i].path \notin C => \E j \in DOMAIN base.docs : base.docs[j] = t[i]
  <2>1. t[i] \in ToSet(m)
    <3> HIDE DEF t, m
    <3> QED
      BY <1>1 DEF ToSet
  <2>2. \/ t[i] \in {changed[j] : j \in 1..Len(changed)}
        \/ t[i] \in ToSet(base.docs) /\ t[i].path \notin C
    <3>1. ToSet(m) \subseteq {d \in ToSet(base.docs) : \A k \in 1..Len(changed) : changed[k].path # d.path}
                               \cup {changed[j] : j \in 1..Len(changed)}
      BY MergedIs
    <3> HIDE DEF t, m
    <3> QED
      BY <2>1, <3>1
  <2>3. DOMAIN changed = 1..Len(changed)
    OBVIOUS
  <2> HIDE DEF t
  <2> QED
    BY <2>2, <2>3 DEF ToSet
<1> HIDE DEF t, m, C
<1>3. X = Y \cup Z /\ X \subseteq DOMAIN t
  OBVIOUS
<1>4. IsFiniteSet(Y) /\ IsFiniteSet(Z) /\ \A i \in DOMAIN t : f[i] \in Nat
  <2>1. IsFiniteSet(DOMAIN t)
    BY <1>1, PathsAreNumbers
  <2> QED
    BY <1>1, <2>1, FS_Subset, BytesType
<1>5. SumFunctionOnSet(f, Y) <= SumFunctionOnSet(Sizes(changed), DOMAIN changed)
  <2>1. \A i \in Y : \E j \in DOMAIN changed : changed[j] = t[i]
    BY <1>2
  <2>2. Y \in SUBSET DOMAIN t
    OBVIOUS
  <2> HIDE DEF Y
  <2> QED
    BY <1>1, <2>1, <2>2, PartOf
<1>6. SumFunctionOnSet(f, Z) <= SumFunctionOnSet(Sizes(base.docs), R)
  <2>1. \A i \in Z : \E j \in R : base.docs[j] = t[i]
    BY <1>2
  <2>2. Z \in SUBSET DOMAIN t /\ R \in SUBSET DOMAIN base.docs
    OBVIOUS
  <2> HIDE DEF Z, R
  <2> QED
    BY <1>1, <2>1, <2>2, PartOf
<1>7. BytesIn(base.docs, old) = SumFunctionOnSet(Sizes(base.docs), R)
        /\ BytesIn(t, old \cup C) = SumFunctionOnSet(f, X)
  BY DEF BytesIn
<1>8. Bytes(changed) = SumFunctionOnSet(Sizes(changed), DOMAIN changed)
  BY DEF Bytes, SumFunction, Sizes
<1>9. SumFunctionOnSet(f, X) <= SumFunctionOnSet(f, Y) + SumFunctionOnSet(f, Z)
  <2>1. \A i \in Y \cup Z : f[i] \in Nat
    BY <1>3, <1>4
  <2> HIDE DEF X, Y, Z, f
  <2> QED
    BY <1>3, <1>4, <2>1, SumJoins
<1>10. /\ SumFunctionOnSet(f, Y) \in Nat /\ SumFunctionOnSet(f, Z) \in Nat
       /\ SumFunctionOnSet(f, X) \in Nat
  <2>1. IsFiniteSet(X) /\ (\A i \in X : f[i] \in Nat) /\ (\A i \in Y : f[i] \in Nat)
          /\ \A i \in Z : f[i] \in Nat
    <3>1. IsFiniteSet(Y \cup Z)
      BY <1>4, FS_Union
    <3> QED
      BY <1>3, <1>4, <3>1
  <2> HIDE DEF X, Y, Z, f
  <2> QED
    BY <1>4, <2>1, SumType
<1>11. BytesIn(base.docs, old) \in Nat /\ Bytes(changed) \in Nat
  BY BytesType
<1>12. BytesIn(t, old \cup C) <= BytesIn(base.docs, old) + Bytes(changed)
  <2> HIDE DEF X, Y, Z, R, f
  <2> QED
    BY <1>5, <1>6, <1>7, <1>8, <1>9, <1>10, <1>11
<1> QED
  BY <1>12 DEF t, m, C

-----------------------------------------------------------------------------
(* The layout.                                                             *)

LEMMA LeastOfTwo ==
  ASSUME NEW x \in Nat, NEW y \in Nat
  PROVE  Min({x, y}) \in {x, y} /\ Min({x, y}) <= x /\ Min({x, y}) <= y
BY LeastIs

LEMMA GreatestOfTwo ==
  ASSUME NEW x \in Nat
  PROVE  Max({1, x}) \in Nat
<1>1. \E z \in {1, x} : \A y \in {1, x} : z >= y
  <2>1. CASE x >= 1
    BY <2>1
  <2>2. CASE ~(x >= 1)
    BY <2>2
  <2> QED
    BY <2>1, <2>2
<1>2. Max({1, x}) \in {1, x}
  BY <1>1 DEF Max
<1> QED
  BY <1>2

LEMMA OptionsAre ==
  ASSUME NEW o \in IndexOptions
  PROVE  o.chunk \in Nat /\ o.chunk >= 64 /\ o.block \in Nat /\ o.block >= 16 /\ o.overlap \in Nat
<1>1. o.chunk \in 64..(2 ^ 30) /\ o.block \in 16..(2 ^ 20) /\ o.overlap \in 0..(o.chunk \div 2)
  BY SegmentsAssumption
<1>2. 2 ^ 30 \in Nat /\ 2 ^ 20 \in Nat
  OBVIOUS
<1> QED
  BY <1>1, <1>2

LEMMA PartsAre ==
  ASSUME NEW size \in Nat, NEW part \in Nat, part > 0
  PROVE  /\ Parts(size, part) \in Nat
         /\ \A k \in 0..(Parts(size, part) - 1) : k * part \in Nat /\ k * part < size
<1> DEFINE q == Parts(size, part)
           a == size + part - 1
<1>1. a \in Nat /\ q = a \div part
  BY DEF Parts
<1> HIDE DEF q, a
<1>2. q \in Nat /\ q * part <= a
  BY <1>1
<1>3. ASSUME NEW k \in 0..(q - 1) PROVE k * part \in Nat /\ k * part < size
  <2>1. k \in Nat /\ k + 1 <= q
    BY <1>2
  <2>2. k * part \in Nat /\ (k + 1) * part = k * part + part
    BY <2>1
  <2>3. (k + 1) * part <= q * part
    BY <1>2, <2>1
  <2>4. q * part \in Nat
    BY <1>2
  <2> QED
    BY <1>2, <2>2, <2>3, <2>4 DEF a
<1> QED
  BY <1>2, <1>3 DEF q

(* A chunk begins within its file and reaches no further than its end.     *)
LEMMA ChunksAre ==
  ASSUME NEW size \in Nat, NEW opt \in IndexOptions
  PROVE  /\ IsFiniteSet(ChunkStarts(size, opt))
         /\ Cardinality(ChunkStarts(size, opt)) \in Nat
         /\ \A b \in ChunkStarts(size, opt) :
              ChunkBytes(size, opt, b) \in Nat /\ ChunkBlocks(size, opt, b) \in Nat
<1> DEFINE S == ChunkStarts(size, opt)
           n == Parts(size, opt.chunk)
<1>1. opt.chunk \in Nat /\ opt.chunk > 0 /\ opt.block \in Nat /\ opt.block > 0 /\ opt.overlap \in Nat
  BY OptionsAre
<1>2. n \in Nat /\ \A k \in 0..(n - 1) : k * opt.chunk \in Nat /\ k * opt.chunk < size
  BY <1>1, PartsAre
<1>3. IsFiniteSet(S)
  <2>1. CASE size = 0
    BY <2>1, FS_Singleton DEF ChunkStarts
  <2>2. CASE size # 0
    <3> DEFINE T == 0..(n - 1)
    <3>1. IsFiniteSet(T)
      BY <1>2, FS_Interval
    <3>2. S = {k * opt.chunk : k \in T}
      BY <2>2 DEF ChunkStarts
    <3> DEFINE f == [k \in T |-> k * opt.chunk]
    <3>3. f \in Surjection(T, S)
      BY <3>2 DEF Surjection
    <3> HIDE DEF T, S, f
    <3> QED
      BY <3>1, <3>3, FS_Surjection
  <2> QED
    BY <2>1, <2>2
<1>4. ASSUME NEW b \in S PROVE b \in Nat /\ b <= size
  <2>1. CASE size = 0
    BY <2>1 DEF ChunkStarts
  <2>2. CASE size # 0
    <3>1. PICK k \in 0..(n - 1) : b = k * opt.chunk
      BY <2>2 DEF ChunkStarts
    <3> HIDE DEF n
    <3> QED
      BY <1>2, <3>1
  <2> QED
    BY <2>1, <2>2
<1>5. ASSUME NEW b \in S
      PROVE  ChunkBytes(size, opt, b) \in Nat /\ ChunkBlocks(size, opt, b) \in Nat
  <2>1. b \in Nat /\ b <= size
    BY <1>4
  <2> HIDE DEF S, n
  <2> DEFINE far == b + opt.chunk + opt.overlap
             near == b + opt.chunk
  <2>2. far \in Nat /\ near \in Nat /\ far >= b /\ near >= b
    BY <1>1, <2>1
  <2> HIDE DEF far, near
  <2>3. Min({size, far}) - b \in Nat
    BY <2>1, <2>2, LeastOfTwo
  <2>4. Min({size, near}) - b \in Nat
    BY <2>1, <2>2, LeastOfTwo
  <2>5. Parts(Min({size, near}) - b, opt.block) \in Nat
    BY <1>1, <2>4, PartsAre
  <2>6. Max({1, Parts(Min({size, near}) - b, opt.block)}) \in Nat
    BY <2>5, GreatestOfTwo
  <2> QED
    BY <2>3, <2>6 DEF ChunkBytes, ChunkBlocks, far, near
<1>6. Cardinality(S) \in Nat
  BY <1>3, FS_CardinalityType
<1> QED
  BY <1>3, <1>5, <1>6 DEF S

LEMMA ScopeSum ==
  ASSUME NEW figure, IsFiniteSet(DOMAIN figure), \A i \in DOMAIN figure : figure[i] \in Nat, NEW scope
  PROVE  SumOver(figure, scope) \in Nat
<1> DEFINE R == {i \in DOMAIN figure : scope = {} \/ i - 1 \in scope}
<1>1. IsFiniteSet(R) /\ \A i \in R : figure[i] \in Nat
  BY FS_Subset
<1>2. SumOver(figure, scope) = SumFunctionOnSet(figure, R)
  BY DEF SumOver
<1> HIDE DEF R
<1> QED
  BY <1>1, <1>2, SumType

LEMMA AllSum ==
  ASSUME NEW S, IsFiniteSet(S), NEW f, DOMAIN f = S, \A x \in S : f[x] \in Nat
  PROVE  SumFunction(f) \in Nat
<1>1. SumFunction(f) = SumFunctionOnSet(f, S)
  BY DEF SumFunction
<1> QED
  BY <1>1, SumType

(* The planner gets natural numbers.                                       *)
LEMMA FiguresType ==
  ASSUME NEW held, held.docs \in Seq(Documents), held.opt \in IndexOptions, NEW scope
  PROVE  LET I == FiguresOf(held, scope)
         IN I \in [all : Nat, chunks : Nat, blocks : Nat, bytes : Nat, files : Nat,
                   binary : BOOLEAN, ready : BOOLEAN, opt : IndexOptions]
<1> DEFINE docs == held.docs
           n == Len(docs)
           Starts(i) == ChunkStarts(docs[i].content.size, held.opt)
           size == [i \in 1..n |-> docs[i].content.size]
           chunks == [i \in 1..n |-> Cardinality(Starts(i))]
           block(i) == [b \in Starts(i) |-> ChunkBlocks(size[i], held.opt, b)]
           byte(i) == [b \in Starts(i) |-> ChunkBytes(size[i], held.opt, b)]
           blocks == [i \in 1..n |-> SumFunction(block(i))]
           bytes == [i \in 1..n |-> SumFunction(byte(i))]
<1>1. n \in Nat /\ IsFiniteSet(1..n) /\ \A i \in 1..n : docs[i].content.size \in Nat
  BY PathsAreNumbers, FS_Interval
<1>2. ASSUME NEW i \in 1..n
      PROVE  /\ Cardinality(Starts(i)) \in Nat /\ SumFunction(block(i)) \in Nat
             /\ SumFunction(byte(i)) \in Nat
  <2>1. size[i] = docs[i].content.size /\ size[i] \in Nat
    BY <1>1
  <2> DEFINE S == Starts(i)
             f == block(i)
             g == byte(i)
  <2>2. /\ IsFiniteSet(S) /\ Cardinality(S) \in Nat
        /\ \A b \in S : ChunkBlocks(size[i], held.opt, b) \in Nat
        /\ \A b \in S : ChunkBytes(size[i], held.opt, b) \in Nat
    <3> HIDE DEF size
    <3> QED
      BY <2>1, ChunksAre
  <2>3. DOMAIN f = S /\ (\A b \in S : f[b] \in Nat) /\ DOMAIN g = S /\ \A b \in S : g[b] \in Nat
    <3> HIDE DEF size, Starts
    <3> QED
      BY <2>2
  <2>4. SumFunction(f) \in Nat /\ SumFunction(g) \in Nat
    <3> HIDE DEF f, g, S
    <3> QED
      BY <2>2, <2>3, AllSum
  <2> QED
    BY <2>2, <2>4
<1>3. SumOver(chunks, scope) \in Nat /\ SumOver(chunks, {}) \in Nat
        /\ SumOver(blocks, scope) \in Nat /\ SumOver(bytes, scope) \in Nat
  <2>1. DOMAIN chunks = 1..n /\ DOMAIN blocks = 1..n /\ DOMAIN bytes = 1..n
          /\ \A i \in 1..n : chunks[i] \in Nat /\ blocks[i] \in Nat /\ bytes[i] \in Nat
    <3> HIDE DEF Starts, block, byte
    <3> QED
      BY <1>2
  <2> HIDE DEF chunks, blocks, bytes
  <2> QED
    BY <1>1, <2>1, ScopeSum
<1>4. FiguresOf(held, scope) =
        [all |-> SumOver(chunks, {}), chunks |-> SumOver(chunks, scope),
         blocks |-> SumOver(blocks, scope), bytes |-> SumOver(bytes, scope), files |-> n,
         binary |-> \E i \in 1..n : docs[i].content.binary, ready |-> StatsReady(docs), opt |-> held.opt]
  BY DEF FiguresOf
<1>5. StatsReady(docs) \in BOOLEAN
  BY DEF StatsReady
<1> HIDE DEF chunks, blocks, bytes
<1> QED
  BY <1>1, <1>3, <1>4, <1>5

-----------------------------------------------------------------------------
(* What the appends leave.                                                 *)

(* The documents under each path are those of the history, in order, and   *)
(* the account of the appends covers what was changed since the last       *)
(* build.                                                                  *)
KeepInv ==
  /\ index.docs \in Seq(Documents) /\ Distinct(index.docs)
  /\ index.opt \in IndexOptions
  /\ index.segments \in Nat /\ index.appended \in Nat
  /\ IndexIsStore
  /\ FreshBytes <= index.appended
  /\ LayoutCounts

(* A compaction that is not due leaves a share to the appends that is      *)
(* small enough: what should_compact answers is enough for the bound.      *)
LEMMA KeepInvAnswers == KeepInv => AppendInv
<1> SUFFICES ASSUME KeepInv, ~ShouldCompact(index) PROVE 4 * FreshBytes <= Bytes(index.docs)
  BY DEF KeepInv, AppendInv, MostlyBuilt
<1> DEFINE all == Bytes(index.docs)
           young == FreshBytes
<1>1. all \in Nat /\ young \in Nat /\ young <= all /\ young <= index.appended /\ index.appended \in Nat
  BY BytesType DEF KeepInv, FreshBytes
<1>2. all = 0 \/ index.appended <= all \div 4
  <2>1. all = 0 \/ ~(index.appended > all \div 4)
    BY DEF ShouldCompact
  <2> HIDE DEF all, young
  <2> QED
    BY <1>1, <2>1
<1> HIDE DEF all, young
<1>3. 4 * young <= all
  BY <1>1, <1>2
<1> QED
  BY <1>3 DEF all, young

(* The documents that stand for what a history says of the paths.          *)
Stored(st) == {[path |-> p, content |-> st[p]] : p \in DOMAIN st}

(* What Index::append makes of the documents is what the history makes of  *)
(* the paths.                                                              *)
LEMMA AppendStores ==
  ASSUME KeepInv, NEW changed \in Seq(Documents), NEW tombstones
  PROVE  ToSet(Merged(index, changed, tombstones)) = Stored(StoreAfter(changed, tombstones))
<1> DEFINE n == Len(changed)
           at(p) == {i \in 1..n : changed[i].path = p}
           C == {d.path : d \in ToSet(changed)}
           st == StoreAfter(changed, tombstones)
           m == ToSet(Merged(index, changed, tombstones))
           last == {i \in 1..n : LastChange(changed, n, i)}
<1>1. n \in Nat /\ DOMAIN changed = 1..n /\ \A i \in 1..n : changed[i] \in Documents
  OBVIOUS
<1>2. C = {changed[i].path : i \in 1..n}
  BY <1>1 DEF ToSet
<1>3. DOMAIN st = (DOMAIN store \ tombstones) \cup C
        /\ \A p \in DOMAIN st :
             st[p] = IF at(p) = {} THEN store[p] ELSE changed[Max(at(p))].content
  BY DEF StoreAfter
<1>4. \A p : at(p) = {} <=> p \notin C
  BY <1>2
<1>5. m = {d \in ToSet(index.docs) : d.path \notin tombstones /\ d.path \notin C}
            \cup {changed[i] : i \in last}
  <2>1. \A d : d.path \notin C <=> \A i \in 1..n : changed[i].path # d.path
    BY <1>2
  <2>2. m = {d \in ToSet(index.docs) : /\ d.path \notin tombstones
                                       /\ \A i \in 1..n : changed[i].path # d.path}
              \cup {changed[i] : i \in last}
    BY MergedIs DEF KeepInv
  <2> HIDE DEF m, C, last
  <2> QED
    BY <2>1, <2>2
<1>6. ToSet(index.docs) = Stored(store)
  BY DEF KeepInv, IndexIsStore, Stored
<1>7. ASSUME NEW i \in last PROVE Max(at(changed[i].path)) = i
  <2> DEFINE S == at(changed[i].path)
  <2>1. i \in S /\ S \in SUBSET (1..n)
    OBVIOUS
  <2>2. \A j \in S : j <= i
    BY <1>1 DEF LastChange
  <2>3. Max(S) \in S /\ i <= Max(S)
    <3> HIDE DEF S
    <3> QED
      BY <1>1, <2>1, GreatestIs
  <2>4. Max(S) \in 1..n /\ i \in 1..n
    <3> HIDE DEF S, n
    <3> QED
      BY <2>1, <2>3
  <2> HIDE DEF S
  <2>5. Max(S) = i
    BY <2>2, <2>3, <2>4
  <2> QED
    BY <2>5 DEF S
<1>8. ASSUME NEW p \in C PROVE Max(at(p)) \in last /\ changed[Max(at(p))].path = p
  <2> DEFINE S == at(p)
             k == Max(S)
  <2>1. S # {} /\ S \in SUBSET (1..n)
    BY <1>2
  <2>2. k \in S /\ \A j \in S : j <= k
    <3> HIDE DEF S
    <3> QED
      BY <1>1, <2>1, GreatestIs
  <2>3. k \in 1..n /\ changed[k].path = p
    BY <2>2
  <2>4. \A j \in (k + 1)..n : changed[j].path # p
    <3> SUFFICES ASSUME NEW j \in (k + 1)..n, changed[j].path = p PROVE FALSE
      OBVIOUS
    <3> HIDE DEF k
    <3>1. j \in S /\ j > k
      BY <1>1, <2>3
    <3> QED
      BY <1>1, <2>2, <2>3, <3>1
  <2> QED
    BY <2>3, <2>4 DEF LastChange
<1>9. \A i \in 1..n : changed[i] = [path |-> changed[i].path, content |-> changed[i].content]
  BY <1>1 DEF Documents
<1>10. \A i \in last : changed[i].path \in C /\ i \in 1..n
  BY <1>2
<1> HIDE DEF st, m, C, last, at, n
<1>11. ASSUME NEW d \in m PROVE d \in Stored(st)
  <2>1. CASE d \in ToSet(index.docs) /\ d.path \notin tombstones /\ d.path \notin C
    <3>1. PICK p \in DOMAIN store : d = [path |-> p, content |-> store[p]]
      BY <1>6, <2>1 DEF Stored
    <3>2. p \in DOMAIN st /\ st[p] = store[p]
      BY <1>3, <1>4, <2>1, <3>1
    <3> QED
      BY <3>1, <3>2 DEF Stored
  <2>2. ASSUME NEW i \in last, d = changed[i] PROVE d \in Stored(st)
    <3>1. changed[i].path \in C /\ i \in 1..n
      BY <1>10
    <3>2. changed[i].path \in DOMAIN st /\ st[changed[i].path] = changed[i].content
      BY <1>3, <1>4, <1>7, <3>1
    <3> QED
      BY <1>9, <2>2, <3>1, <3>2 DEF Stored
  <2> QED
    BY <1>5, <2>1, <2>2
<1>12. ASSUME NEW p \in DOMAIN st PROVE [path |-> p, content |-> st[p]] \in m
  <2>1. CASE p \in C
    <3>1. st[p] = changed[Max(at(p))].content /\ Max(at(p)) \in last /\ changed[Max(at(p))].path = p
      BY <1>3, <1>4, <1>8, <2>1
    <3>2. [path |-> p, content |-> st[p]] = changed[Max(at(p))]
      BY <1>9, <1>10, <3>1
    <3> QED
      BY <1>5, <3>1, <3>2
  <2>2. CASE p \notin C
    <3>1. st[p] = store[p] /\ p \in DOMAIN store /\ p \notin tombstones
      BY <1>3, <1>4, <2>2
    <3>2. [path |-> p, content |-> st[p]] \in ToSet(index.docs)
      BY <1>6, <3>1 DEF Stored
    <3> QED
      BY <1>5, <2>2, <3>1, <3>2
  <2> QED
    BY <2>1, <2>2
<1>13. m = Stored(st)
  BY <1>11, <1>12 DEF Stored
<1> QED
  BY <1>13 DEF m, st

LEMMA AppendKeeps ==
  ASSUME KeepInv, NEW changed \in Changes, NEW tombstones \in SUBSET Paths,
         NEW declared \in Totals, NEW opt \in IndexOptions,
         AppendTo(changed, tombstones, declared, opt)
  PROVE  KeepInv'
<1> DEFINE docs == index.docs
           m == Merged(index, changed, tombstones)
           t == Sorted(m)
           st == StoreAfter(changed, tombstones)
           nothing == docs = <<>> /\ changed = <<>>
<1>1. changed \in Seq(Documents) /\ docs \in Seq(Documents) /\ Distinct(docs)
        /\ index.segments \in Nat /\ index.appended \in Nat
  BY OperationsAssumption DEF KeepInv
<1>2. /\ index' = Appended(index, changed, tombstones, opt)
      /\ store' = st
      /\ fresh' = IF nothing THEN {} ELSE fresh \cup {changed[i].path : i \in 1..Len(changed)}
      /\ report = NoReport /\ report' = report
  BY DEF AppendTo, Free, searchVars
<1>3. CASE nothing
  <2> DEFINE none == <<>>
  <2>1. index' = [docs |-> Sorted(none), opt |-> opt, segments |-> 0, appended |-> 0] /\ fresh' = {}
    BY <1>2, <1>3 DEF Appended, FromDocuments
  <2>2. none \in Seq(Documents) /\ Distinct(none) /\ ToSet(none) = {} /\ ToSet(changed) = {}
    BY <1>3 DEF Distinct, ToSet
  <2>3. /\ Sorted(none) \in Seq(Documents) /\ Distinct(Sorted(none)) /\ ToSet(Sorted(none)) = {}
        /\ \A i \in 1..Len(Sorted(none)) : \A j \in 1..(i - 1) :
             Sorted(none)[j].path < Sorted(none)[i].path
    <3> HIDE DEF none
    <3> QED
      BY <2>2, SortedIs
  <2>4. DOMAIN store = {}
    <3>1. ToSet(docs) = Stored(store) /\ ToSet(docs) = {}
      BY <1>3, <2>2 DEF KeepInv, IndexIsStore, Stored
    <3> QED
      BY <3>1 DEF Stored
  <2>5. DOMAIN st = {}
    BY <2>2, <2>4 DEF StoreAfter
  <2> HIDE DEF none, st
  <2>6. IndexIsStore'
    BY <1>2, <2>1, <2>3, <2>5 DEF IndexIsStore
  <2>7. FreshBytes' <= index'.appended
    <3>1. {i \in DOMAIN index'.docs : index'.docs[i].path \in {}} = {}
      OBVIOUS
    <3>2. BytesIn(index'.docs, {}) = 0
      BY <3>1, SumOfNone DEF BytesIn
    <3> QED
      BY <2>1, <3>2 DEF FreshBytes
  <2> QED
    BY <1>2, <2>1, <2>3, <2>6, <2>7 DEF KeepInv, LayoutCounts
<1>4. CASE ~nothing
  <2>1. /\ index'.docs = t /\ index'.opt = opt /\ index'.segments = index.segments + 1
        /\ index'.appended = index.appended + (Bytes(changed) + BytesIn(docs, tombstones))
    BY <1>2, <1>4 DEF Appended, FromDocuments, Delta
  <2>2. /\ m \in Seq(Documents) /\ Distinct(m) /\ ToSet(m) = Stored(st)
    BY <1>1, MergedIs, AppendStores
  <2> HIDE DEF m, st
  <2>3. /\ t \in Seq(Documents) /\ Distinct(t) /\ ToSet(t) = Stored(st)
        /\ \A i \in 1..Len(t) : \A j \in 1..(i - 1) : t[j].path < t[i].path
    BY <2>2, SortedIs
  <2>4. BytesIn(t, fresh') <= BytesIn(docs, fresh) + Bytes(changed)
    BY <1>1, <1>2, <1>4, FreshGrows DEF m
  <2>5. /\ Bytes(changed) \in Nat /\ BytesIn(docs, tombstones) \in Nat
        /\ BytesIn(docs, fresh) \in Nat /\ BytesIn(t, fresh') \in Nat
    <3> HIDE DEF t, docs
    <3> QED
      BY <1>1, <2>3, BytesType
  <2>6. BytesIn(docs, fresh) <= index.appended
    BY DEF KeepInv, FreshBytes
  <2> HIDE DEF t, docs, nothing
  <2>7. index'.appended \in Nat /\ BytesIn(t, fresh') <= index'.appended
    BY <1>1, <2>1, <2>4, <2>5, <2>6
  <2>8. IndexIsStore'
    BY <1>2, <2>1, <2>3 DEF IndexIsStore, Stored
  <2>9. FreshBytes' <= index'.appended
    BY <2>1, <2>7 DEF FreshBytes
  <2> QED
    BY <1>1, <1>2, <2>1, <2>3, <2>7, <2>8, <2>9 DEF KeepInv, LayoutCounts
<1> QED
  BY <1>3, <1>4

LEMMA CompactKeeps ==
  ASSUME KeepInv, NEW opt \in IndexOptions, Compact(opt)
  PROVE  KeepInv'
<1> DEFINE docs == index.docs
           t == Sorted(docs)
<1>1. docs \in Seq(Documents) /\ Distinct(docs) /\ ToSet(docs) = Stored(store)
  BY DEF KeepInv, IndexIsStore, Stored
<1>2. /\ index' = [docs |-> t, opt |-> opt, segments |-> 0, appended |-> 0]
      /\ fresh' = {} /\ store' = store /\ report' = NoReport
  BY DEF Compact, FromDocuments, Free, searchVars
<1>3. /\ t \in Seq(Documents) /\ Distinct(t) /\ ToSet(t) = Stored(store)
      /\ \A i \in 1..Len(t) : \A j \in 1..(i - 1) : t[j].path < t[i].path
  <2> HIDE DEF docs
  <2> QED
    BY <1>1, SortedIs
<1> HIDE DEF t
<1>4. IndexIsStore'
  BY <1>2, <1>3 DEF IndexIsStore, Stored
<1>5. FreshBytes' = 0
  <2>1. {i \in DOMAIN t : t[i].path \in {}} = {}
    OBVIOUS
  <2> QED
    BY <1>2, <2>1, SumOfNone DEF FreshBytes, BytesIn
<1> QED
  BY <1>2, <1>3, <1>4, <1>5 DEF KeepInv, LayoutCounts

(* A report takes its figures from the index.                              *)
LEMMA ReportKeeps ==
  ASSUME KeepInv, NEW query, NEW scope, NEW opt, NEW gaveUp, NEW searched,
         Reporting(query, scope, opt, gaveUp, searched),
         UNCHANGED indexVars
  PROVE  KeepInv'
<1> DEFINE I == FiguresOf(index, scope)
<1>1. I \in Figures(IndexOptions)
  BY FiguresType DEF KeepInv, Figures
<1>2. report'.figures = I
  BY DEF Reporting
<1> HIDE DEF I
<1>3. LayoutCounts'
  BY <1>1, <1>2 DEF LayoutCounts
<1> QED
  BY <1>3 DEF KeepInv, IndexIsStore, FreshBytes, indexVars

LEMMA ReportLeaves ==
  ASSUME KeepInv, UNCHANGED indexVars, report' \in {report, NoReport}
  PROVE  KeepInv'
BY DEF KeepInv, IndexIsStore, FreshBytes, LayoutCounts, indexVars

LEMMA KeepStep == KeepInv /\ [Next]_vars => KeepInv'
<1> SUFFICES ASSUME KeepInv, [Next]_vars  PROVE KeepInv'
  OBVIOUS
<1>1. ASSUME NEW changed \in Changes, NEW tombstones \in SUBSET Paths, NEW declared \in Totals,
             NEW opt \in IndexOptions, AppendTo(changed, tombstones, declared, opt)
      PROVE  KeepInv'
  BY <1>1, AppendKeeps
<1>2. ASSUME NEW opt \in IndexOptions, Compact(opt)
      PROVE  KeepInv'
  BY <1>2, CompactKeeps
<1>3. ASSUME NEW query \in Queries, NEW scope \in Scopes, NEW gaveUp \in BOOLEAN,
             Search(query, scope, gaveUp)
      PROVE  KeepInv'
  BY <1>3, ReportKeeps DEF Search
<1>4. ASSUME NEW query \in Queries, NEW scope \in Scopes, NEW opt \in IndexOptions,
             Estimate(query, scope, opt)
      PROVE  KeepInv'
  BY <1>4, ReportKeeps DEF Estimate
<1>5. CASE TakeReport
  BY <1>5, ReportLeaves DEF TakeReport
<1>6. ASSUME NEW m \in Measurements, RunScenario(m)
      PROVE  KeepInv'
  BY <1>6, ReportLeaves DEF RunScenario, searchVars
<1>7. CASE EvaluateGate
  BY <1>7, ReportLeaves DEF EvaluateGate, searchVars
<1>8. ASSUME NEW fellBack \in BOOLEAN, RecordQuery(fellBack)
      PROVE  KeepInv'
  BY <1>8, ReportLeaves DEF RecordQuery, searchVars
<1>9. CASE Guard
  BY <1>9, ReportLeaves DEF Guard, searchVars
<1>10. CASE EnforceRollback
  BY <1>10, ReportLeaves DEF EnforceRollback, searchVars
<1>11. CASE Promote
  BY <1>11, ReportLeaves DEF Promote, searchVars
<1>12. CASE UNCHANGED vars
  BY <1>12, ReportLeaves DEF vars, searchVars
<1> QED
  BY <1>1, <1>2, <1>3, <1>4, <1>5, <1>6, <1>7, <1>8, <1>9, <1>10, <1>11, <1>12 DEF Next

(* An index that was built holds what it was built from.                   *)
LEMMA KeepInit == Init => KeepInv
<1> SUFFICES ASSUME Init PROVE KeepInv
  OBVIOUS
<1>1. PICK docs \in InitialDocuments, opt \in IndexOptions : Build(docs, opt)
  BY DEF Init
<1> DEFINE t == Sorted(docs)
<1>2. docs \in Seq(Documents) /\ Distinct(docs)
  BY OperationsAssumption
<1>3. /\ index = [docs |-> t, opt |-> opt, segments |-> 0, appended |-> 0]
      /\ DOMAIN store = {d.path : d \in ToSet(docs)}
      /\ \A p \in DOMAIN store : store[p] = (CHOOSE d \in ToSet(docs) : d.path = p).content
      /\ fresh = {} /\ report = NoReport
  BY <1>1 DEF Init, Build, FromDocuments
<1>4. /\ t \in Seq(Documents) /\ Distinct(t) /\ ToSet(t) = ToSet(docs)
      /\ \A i \in 1..Len(t) : \A j \in 1..(i - 1) : t[j].path < t[i].path
  BY <1>2, SortedIs
<1> HIDE DEF t
<1>5. ToSet(docs) = Stored(store)
  <2>1. ASSUME NEW d \in ToSet(docs)
        PROVE  d = [path |-> d.path, content |-> store[d.path]] /\ d.path \in DOMAIN store
    <3> DEFINE c == CHOOSE e \in ToSet(docs) : e.path = d.path
    <3>1. c \in ToSet(docs) /\ c.path = d.path
      OBVIOUS
    <3> HIDE DEF c
    <3>2. c = d
      BY <3>1 DEF ToSet, Distinct, c
    <3>3. d.path \in DOMAIN store /\ store[d.path] = c.content
      BY <1>3 DEF c
    <3>4. d \in Documents
      BY <1>2 DEF ToSet
    <3> QED
      BY <3>2, <3>3, <3>4 DEF Documents
  <2>2. ASSUME NEW p \in DOMAIN store PROVE [path |-> p, content |-> store[p]] \in ToSet(docs)
    <3>1. PICK d \in ToSet(docs) : d.path = p
      BY <1>3
    <3> QED
      BY <2>1, <3>1
  <2> QED
    BY <2>1, <2>2 DEF Stored
<1>6. IndexIsStore
  BY <1>3, <1>4, <1>5 DEF IndexIsStore, Stored
<1>7. FreshBytes = 0
  <2>1. {i \in DOMAIN t : t[i].path \in {}} = {}
    OBVIOUS
  <2> QED
    BY <1>3, <2>1, SumOfNone DEF FreshBytes, BytesIn
<1> QED
  BY <1>3, <1>4, <1>6, <1>7 DEF KeepInv, LayoutCounts

(* Whatever is appended and compacted, the index holds under each path     *)
(* what it should, no more than a quarter of its bytes came with appends   *)
(* unless a compaction is due, and the planner reckons with numbers:       *)
(* AppendInv.                                                              *)
THEOREM AppendsKeep == Spec => []AppendInv
<1>1. Init => KeepInv
  BY KeepInit
<1>2. KeepInv /\ [Next]_vars => KeepInv'
  BY KeepStep
<1> QED  BY <1>1, <1>2, KeepInvAnswers, PTL DEF Spec
=============================================================================
