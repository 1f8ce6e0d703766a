------------------------------ MODULE Planner ------------------------------
(***************************************************************************)
(* How a search is priced before it runs and how the price is reported     *)
(* after it: estimateCost, estimate_all_candidate_plans and                *)
(* compute_plan_regret of src/src/search.cpp, and the last part of         *)
(* Searcher::find, which joins the three.                                  *)
(*                                                                         *)
(* An index is given by the figures of its layout that lie in the scope of *)
(* the query, a query by what the planner looks at.  Costs are doubled, so *)
(* that they are whole numbers, and are fractions <<numerator,             *)
(* denominator>>: a scope scales them by a ratio.  `n' is the number of    *)
(* chunks that the rarest row of the query may hit.                        *)
(***************************************************************************)
EXTENDS Integers

CONSTANT Slips  \* <<hits, chunks, m>> where hits / chunks * m is rounded to below a whole number

Gram  == 4     \* bytes in a q-gram
Look  == 64    \* how far a block looks ahead, and the longest positional literal

Lesser(a, b)  == IF a < b THEN a ELSE b
Greater(a, b) == IF a > b THEN a ELSE b

(* What the planner knows of an index: all its chunks, those in the scope  *)
(* with their blocks and extended bytes, its files, whether one of them is *)
(* binary, and whether there are statistics on its q-grams.                *)
Figures(Options) ==
  [all : Nat, chunks : Nat, blocks : Nat, bytes : Nat, files : Nat,
   binary : BOOLEAN, ready : BOOLEAN, opt : Options]

(* `kind': a fixed literal, an expression that is one literal, one with    *)
(* literals of which one or all must occur, any other, or one that does    *)
(* not compile.  `odd' stands for the options that only the guard looks    *)
(* at, `filesOnly' for the two file-selecting modes.                       *)
Kinds == {"fixed", "literal", "mandatory", "plain", "broken"}

PlanKeys(Options) ==
  [kind : Kinds, len : Nat, grams : Nat, icase : BOOLEAN, word : BOOLEAN,
   line : BOOLEAN, odd : BOOLEAN, overlapping : BOOLEAN, invert : BOOLEAN,
   filesOnly : BOOLEAN, max : Nat, newline : BOOLEAN, binary : BOOLEAN,
   scope : Nat, identity : Nat, opt : Options]

Fixed(key) == key.kind \in {"fixed", "literal"}

-----------------------------------------------------------------------------
(* Selectivity: the hits among the chunks in scope, all of them when the   *)
(* literal has no q-gram or there are no statistics on them.               *)

Hits(I, key, n) == IF key.len < Gram \/ I.chunks = 0 \/ ~I.ready THEN I.chunks ELSE n

(* A fraction of m, rounded down; where it is whole the floating-point     *)
(* product may come out below it.                                          *)
Portion(hits, chunks, m) ==
  (hits * m) \div chunks - IF (hits * m) % chunks = 0 /\ <<hits, chunks, m>> \in Slips THEN 1 ELSE 0

Share(I, hits, m) ==
  IF hits = I.chunks \/ m = 0 THEN m ELSE Greater(1, Portion(hits, I.chunks, m))

Rows(I, key) ==
  IF key.len < Gram THEN 0
  ELSE IF I.opt.planned = 0 THEN key.grams ELSE Lesser(I.opt.planned, key.grams)

(* A scan of chunks, and the search of blocks without the probes.          *)
ChunkPrice(chunks, size) == 2 * (chunks * size) + 200 * chunks

BlockPrice(I, chunks, blocks) ==
  blocks * (I.opt.block + Look) + 100 * blocks + 20 * chunks

(* The guard without the clause on the index: it lets a key through that   *)
(* was made for another layout.                                            *)
GuardedAnyIndex(I, key) ==
  /\ Fixed(key)
  /\ Gram <= key.len /\ key.len <= Look /\ key.len <= key.opt.overlap
  /\ ~(key.icase \/ key.word \/ key.line \/ key.odd)
  /\ ~(key.overlapping \/ key.invert \/ key.filesOnly)
  /\ key.max = 0 /\ key.newline /\ ~key.binary /\ key.scope = 0
  /\ I.ready /\ I.all > 0
  /\ ~I.binary

(* The guard of the cheapest-operator dispatch: a short literal under the  *)
(* plainest options, asked of the index that the key describes.            *)
Guarded(I, key) ==
  /\ Fixed(key)
  /\ Gram <= key.len /\ key.len <= Look /\ key.len <= key.opt.overlap
  /\ ~(key.icase \/ key.word \/ key.line \/ key.odd)
  /\ ~(key.overlapping \/ key.invert \/ key.filesOnly)
  /\ key.max = 0 /\ key.newline /\ ~key.binary /\ key.scope = 0
  /\ key.opt = I.opt
  /\ I.ready /\ I.all > 0
  /\ ~I.binary

PlanCosts(I, key, n) ==
  LET chunks == Share(I, Hits(I, key, n), I.chunks)
      blocks == Share(I, Hits(I, key, n), I.blocks)
  IN [positional |-> BlockPrice(I, chunks, blocks) + 2 * (Rows(I, key) * chunks),
      chunk      |-> ChunkPrice(chunks, I.opt.chunk),
      whole      |-> 2 * I.bytes + 200 * chunks]

(* What the options of the search change in a price; the ratio is that of  *)
(* the scope to everything.                                                *)
Adjusted(key, cost, part, everything) ==
  LET modes  == cost + (IF key.invert \/ key.filesOnly THEN 2000 ELSE 0)
                     + (IF key.overlapping THEN 1000 ELSE 0)
      capped == IF key.max = 0 THEN modes ELSE Lesser(modes, 2048 * key.max)
      extra  == (IF key.binary THEN 500 ELSE 0) + 2 * (key.identity % 256)
  IN IF key.scope = 0 THEN <<capped + extra, 1>>
     ELSE LET den == 2 * Greater(everything, 1)
          IN <<capped * (Greater(everything, 1) + part) + extra * den, den>>

-----------------------------------------------------------------------------
(* estimateCost.                                                           *)

(* The operator of a plan that sets none.                                  *)
NoOperator == "WholeFile"

Plan(verifier, operator, cost, guarded) ==
  [verifier |-> verifier, operator |-> operator, cost |-> cost, guarded |-> guarded]

(* The operator the guarded dispatch takes.                                *)
CheapestPlan(costs) ==
  CASE costs.whole < costs.chunk /\ costs.whole < costs.positional ->
         Plan("FixedRareByte", "WholeFile", <<costs.whole, 1>>, TRUE)
    [] ~(costs.whole < costs.chunk /\ costs.whole < costs.positional)
         /\ costs.chunk < costs.positional ->
         Plan("FixedRareByte", "Chunk", <<costs.chunk, 1>>, TRUE)
    [] OTHER -> Plan("FixedPositional", "PositionalBlock", <<costs.positional, 1>>, TRUE)

(* The dispatch by length and options, for everything the guard refuses.   *)
EstablishedOperator(key) ==
  CASE key.len > key.opt.overlap -> "WholeFile"
    [] key.len <= key.opt.overlap /\ (key.icase \/ key.word \/ key.line \/ key.len > Look) ->
         "Chunk"
    [] OTHER -> "PositionalBlock"

EstablishedPrice(I, key, n) ==
  LET all    == key.len > key.opt.overlap \/ key.icase
      hits   == IF all THEN I.chunks ELSE Hits(I, key, n)
      chunks == Share(I, hits, I.chunks)
      blocks == Share(I, hits, I.blocks)
  IN IF EstablishedOperator(key) = "PositionalBlock"
     THEN BlockPrice(I, chunks, blocks)
     ELSE IF all THEN 2 * I.bytes + 200 * chunks ELSE ChunkPrice(chunks, key.opt.chunk)

FixedVerifier(operator) ==
  IF operator = "PositionalBlock" THEN "FixedPositional" ELSE "FixedRareByte"

RegexVerifier(key) ==
  IF key.kind = "mandatory" THEN "RegexChunk" ELSE "RegexBruteForce"

RegexPrice(I, key, n) ==
  2 * I.bytes + 400 * (IF key.kind = "mandatory" THEN Share(I, Hits(I, key, n), I.chunks)
                                                 ELSE I.chunks)

BrutePrice(I) == 2 * (I.chunks * I.opt.chunk) + 400 * I.chunks

Cost(I, key, n) ==
  IF key.kind = "broken" THEN Plan("RegexBruteForce", NoOperator, <<BrutePrice(I), 1>>, FALSE)
  ELSE IF Guarded(I, key) THEN CheapestPlan(PlanCosts(I, key, n))
  ELSE IF Fixed(key)
       THEN Plan(FixedVerifier(EstablishedOperator(key)), EstablishedOperator(key),
                 Adjusted(key, EstablishedPrice(I, key, n), I.chunks, I.all), FALSE)
  ELSE Plan(RegexVerifier(key), NoOperator,
            Adjusted(key, RegexPrice(I, key, n), I.chunks, I.all), FALSE)

(* The overload that takes a pattern and no options of a search: it has    *)
(* its own copy of the dispatch, and asks the guard of the key it makes.   *)
PatternKey(I, key) ==
  [key EXCEPT !.overlapping = FALSE, !.invert = FALSE, !.filesOnly = FALSE, !.max = 0,
              !.binary = FALSE, !.scope = 0, !.identity = 0, !.opt = I.opt]

PatternCost(I, key, n) ==
  LET k == PatternKey(I, key) IN
  IF Fixed(key)
  THEN IF Guarded(I, k) THEN Cost(I, k, n)
       ELSE Plan(IF key.len > I.opt.overlap \/ key.icase \/ key.word \/ key.line \/ key.len > Look
                   THEN "FixedRareByte" ELSE "FixedPositional",
                 NoOperator, <<EstablishedPrice(I, k, n), 1>>, FALSE)
  ELSE Plan(RegexVerifier(key), NoOperator, <<RegexPrice(I, key, n), 1>>, FALSE)

-----------------------------------------------------------------------------
(* estimate_all_candidate_plans: every operator that could run, priced,    *)
(* the one that will run marked.                                           *)

Candidate(I, key, n, verifier, cost, fallback) ==
  [verifier |-> verifier,
   cost     |-> Adjusted(key, cost, key.scope, I.files),
   fallback |-> fallback,
   chosen   |-> verifier = Cost(I, key, n).verifier]

RareByteCandidate(I, key, n) ==
  LET costs  == PlanCosts(I, key, n)
      chunks == Share(I, Hits(I, key, n), I.chunks)
  IN Candidate(I, key, n, "FixedRareByte",
       IF Guarded(I, key) THEN Lesser(costs.chunk, costs.whole)
                          ELSE ChunkPrice(chunks, I.opt.chunk),
       ~Guarded(I, key) /\ (key.len > key.opt.overlap \/ key.icase \/ key.word \/ key.line))

PositionalCandidate(I, key, n) ==
  LET chunks == Share(I, Hits(I, key, n), I.chunks)
      blocks == Share(I, Hits(I, key, n), I.blocks)
  IN Candidate(I, key, n, "FixedPositional",
       IF Guarded(I, key) THEN PlanCosts(I, key, n).positional
       ELSE BlockPrice(I, chunks, blocks),
       FALSE)

ChunkCandidate(I, key, n) ==
  Candidate(I, key, n, "RegexChunk", RegexPrice(I, key, n), FALSE)

BruteCandidate(I, key, n) ==
  Candidate(I, key, n, "RegexBruteForce", BrutePrice(I), TRUE)

Candidates(I, key, n) ==
  IF key.kind = "broken"
  THEN {[verifier |-> "RegexBruteForce", cost |-> <<BrutePrice(I), 1>>,
         fallback |-> TRUE, chosen |-> TRUE]}
  ELSE {BruteCandidate(I, key, n)}
         \cup (IF Fixed(key) THEN {RareByteCandidate(I, key, n)} ELSE {})
         \cup (IF Fixed(key) /\ (\/ Guarded(I, key)
                                 \/ key.len <= Look /\ ~(key.icase \/ key.word \/ key.line))
                 THEN {PositionalCandidate(I, key, n)} ELSE {})
         \cup (IF key.kind = "mandatory" THEN {ChunkCandidate(I, key, n)} ELSE {})

-----------------------------------------------------------------------------
(* What Searcher::find runs and what it reports.  An expression that is    *)
(* one literal is searched for by a second call of find, for the literal,  *)
(* in which the guarded dispatch is suppressed.  `gaveUp' says that the    *)
(* search of an expression in bounded regions was refused, and every chunk *)
(* searched instead.                                                       *)

Dispatched(I, key) == key.kind = "fixed" /\ Guarded(I, key)

RanOperator(I, key, n) ==
  CASE \/ key.len > I.opt.overlap
       \/ Dispatched(I, key) /\ Cost(I, key, n).operator = "WholeFile" -> "WholeFile"
    [] /\ key.len <= I.opt.overlap
       /\ \/ key.icase \/ key.word \/ key.line \/ key.len > Look
          \/ Dispatched(I, key) /\ Cost(I, key, n).operator = "Chunk" -> "Chunk"
    [] OTHER -> "PositionalBlock"

FallbackPath(I, key, n, gaveUp) ==
  \/ key.invert \/ gaveUp
  \/ Cost(I, key, n).verifier = "RegexBruteForce"
  \/ Fixed(key) /\ ~Dispatched(I, key)

(* The plan in the report: its name is written before the search and again *)
(* when the search gives up, its verifier after the search.                *)
Reported(I, key, n, gaveUp) ==
  [name     |-> IF gaveUp THEN "RegexBruteForce" ELSE Cost(I, key, n).verifier,
   verifier |-> IF gaveUp THEN "RegexBruteForce" ELSE Cost(I, key, n).verifier,
   cost     |-> Cost(I, key, n).cost]

(* The candidates that count as observed because the search ran them, and  *)
(* those of them that compute_plan_regret then compares with the plan.     *)
Observed(I, key, n, gaveUp) ==
  {c \in Candidates(I, key, n) : c.verifier = Reported(I, key, n, gaveUp).verifier}

Rivals(I, key, n, gaveUp) ==
  LET ran == Reported(I, key, n, gaveUp)
  IN {c \in Observed(I, key, n, gaveUp) : ~(c.verifier = ran.name /\ c.verifier = ran.verifier)}
=============================================================================
