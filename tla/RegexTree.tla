----------------------------- MODULE RegexTree -----------------------------
(***************************************************************************)
(* Parsed patterns, the programs the NFA compiler makes of them, and what  *)
(* the query analysis derives from them: required literals, prefixes and,  *)
(* for patterns of bounded width, the regions of a record in which a match *)
(* may begin (src/src/regex.cpp, and the region helpers of                 *)
(* src/src/search.cpp).                                                    *)
(*                                                                         *)
(* A character is one byte.  A node has all the fields of RegexNode that   *)
(* matter here; case folding is left out.  At the end stands what the      *)
(* pattern means, independently of all this.                               *)
(***************************************************************************)
EXTENDS Integers, Sequences, FiniteSetsExt, SequencesExt

CONSTANTS
  Chars,       \* what records consist of
  WordChars    \* those that make up words

\* SIZE_MAX as the maximum of a repetition, and the width it leads to.
Unbounded == 1000

-----------------------------------------------------------------------------
(* What the parser builds.                                                 *)

Node(kind, kids) ==
  [kind |-> kind, kids |-> kids, lit |-> <<>>, min |-> 0, max |-> 0, greedy |-> TRUE,
   num |-> 0, negative |-> FALSE]

Empty       == Node("empty", <<>>)
Lit(s)      == [Node("literal", <<>>) EXCEPT !.lit = s]
Dot         == Node("dot", <<>>)
Cat(kids)   == Node("concat", kids)
Alt(kids)   == Node("alt", kids)
Group(kid)  == [Node("group", <<kid>>) EXCEPT !.num = 1]
Edge(at)    == Node(at, <<>>)
Rep(kid, min, max, greedy) ==
  [Node("repeat", <<kid>>) EXCEPT !.min = min, !.max = max, !.greedy = greedy]

\* Nodes that only the extended matcher knows: look-ahead and look-behind, and
\* the text of a group once more.
Look(side, negative, kid) == [Node(side, <<kid>>) EXCEPT !.negative = negative]
BackRef(n)  == [Node("backref", <<>>) EXCEPT !.num = n]

\* The option -w wraps what was parsed, after that was analysed.
AsWord(root) == Cat(<<Edge("word start"), root, Edge("word end")>>)

Parsed(root) ==
  IF root.kind = "concat" /\ Head(root.kids).kind = "word start" THEN root.kids[2] ELSE root

\* Which assertions hold between two characters.  A record is the whole
\* source here, and it holds no separator.
Asserts == {"begin", "end", "word start", "word end"}

Holds(at, text, pos) ==
  CASE at = "begin"      -> pos = 0
    [] at = "end"        -> pos = Len(text)
    [] at = "word start" -> pos = 0 \/ text[pos] \notin WordChars
    [] at = "word end"   -> pos = Len(text) \/ text[pos + 1] \notin WordChars

-----------------------------------------------------------------------------
(* NfaCompiler.  A fragment is the code emitted so far, the instruction    *)
(* the fragment starts at, and the exits that are still open.              *)

Inst(op, arg) == [op |-> op, arg |-> arg, x |-> 0, y |-> 0]

\* emit: one more instruction, entered at start and left by its exit x.
One(code, inst) ==
  [code  |-> Append(code, inst),
   start |-> Len(code) + 1,
   out   |-> {<<Len(code) + 1, "x">>}]

Epsilon(code) == One(code, Inst("jmp", {}))

Patch(code, exits, target) ==
  [pc \in DOMAIN code |->
     [code[pc] EXCEPT !.x = IF <<pc, "x">> \in exits THEN target ELSE @,
                      !.y = IF <<pc, "y">> \in exits THEN target ELSE @]]

\* concat: b was compiled behind a, and a's exits lead to it.
Then(a, b) == [b EXCEPT !.code = Patch(b.code, a.out, b.start), !.start = a.start]

\* A choice between going into c and leaving: the first is preferred by a
\* greedy repetition, the second by a lazy one.
Choice(c, greedy) ==
  LET pc == Len(c.code) + 1
  IN [code |-> Append(c.code, IF greedy THEN [Inst("split", {}) EXCEPT !.x = c.start]
                                        ELSE [Inst("split", {}) EXCEPT !.y = c.start]),
      pc   |-> pc,
      exit |-> {<<pc, IF greedy THEN "y" ELSE "x">>}]

RECURSIVE Build(_, _)

Copies(kid, n, code) ==
  FoldLeft(LAMBDA f, k : Then(f, Build(kid, f.code)), Epsilon(code), [k \in 1..n |-> k])

\* The body loops back to the choice.
Star(node, res) ==
  LET c  == Build(node.kids[1], res.code)
      sp == Choice(c, node.greedy)
  IN [res EXCEPT !.code = Patch(sp.code, c.out \union res.out, sp.pc), !.out = sp.exit]

\* One optional copy behind another; all may be left.
Optionals(node, res) ==
  LET Step(acc, k) ==
        LET c  == Build(node.kids[1], acc.code)
            sp == Choice(c, node.greedy)
        IN [acc EXCEPT !.code = Patch(sp.code, acc.out, sp.pc),
                       !.out = c.out, !.exits = @ \union sp.exit]
      all == FoldLeft(Step, [code |-> res.code, out |-> res.out, exits |-> {}],
                      [k \in 1..(node.max - node.min) |-> k])
  IN [code |-> all.code, start |-> res.start, out |-> all.exits \union all.out]

BuildRepeat(node, code) ==
  LET res == Copies(node.kids[1], node.min, code)
  IN IF node.max = Unbounded THEN Star(node, res) ELSE Optionals(node, res)

\* Every alternative after the first is one more split, which prefers what
\* is to its left.
BuildAlt(node, code) ==
  FoldLeft(LAMBDA r, kid :
             LET b  == Build(kid, r.code)
             IN [code  |-> Append(b.code, [op |-> "split", arg |-> {}, x |-> r.start, y |-> b.start]),
                 start |-> Len(b.code) + 1,
                 out   |-> r.out \union b.out],
           Build(Head(node.kids), code), Tail(node.kids))

Build(node, code) ==
  CASE node.kind = "empty"   -> Epsilon(code)
    [] node.kind = "literal" ->
         LET first == One(code, Inst("read", {Head(node.lit)}))
         IN FoldLeft(LAMBDA f, ch : Then(f, One(f.code, Inst("read", {ch}))), first, Tail(node.lit))
    [] node.kind = "dot"     -> One(code, Inst("read", Chars))
    [] node.kind \in Asserts -> One(code, Inst("assert", {node.kind}))
    [] node.kind = "group"   -> \* the saves of a capture
         LET c == Build(node.kids[1], code)
             a == One(c.code, [Inst("save", {}) EXCEPT !.x = c.start])
             b == One(a.code, Inst("save", {}))
         IN [b EXCEPT !.code = Patch(b.code, c.out, b.start), !.start = a.start]
    [] node.kind = "concat"  ->
         FoldLeft(LAMBDA f, kid : Then(f, Build(kid, f.code)), Epsilon(code), node.kids)
    [] node.kind = "alt"     -> BuildAlt(node, code)
    [] node.kind = "repeat"  -> BuildRepeat(node, code)

Compile(root) ==
  LET f == Build(root, <<>>)
      m == One(f.code, Inst("match", {}))
  IN [code |-> Patch(m.code, f.out, m.start), start |-> f.start]

-----------------------------------------------------------------------------
(* The query analysis.                                                     *)

\* query_mandatory: the literals that every match contains, one as often as
\* it is required.  The parser has joined neighbouring literals, so a
\* concatenation adds no longer ones.
RECURSIVE Mandatory(_)
Mandatory(node) ==
  CASE node.kind = "literal" -> <<node.lit>>
    [] node.kind = "group"   -> Mandatory(node.kids[1])
    [] node.kind = "repeat"  -> IF node.min = 0 THEN <<>> ELSE Mandatory(node.kids[1])
    [] node.kind = "concat"  -> FlattenSeq([k \in DOMAIN node.kids |-> Mandatory(node.kids[k])])
    [] node.kind \in {"ahead", "behind"} /\ ~node.negative -> Mandatory(node.kids[1])
    [] node.kind = "alt"     ->
         SelectSeq(Mandatory(node.kids[1]),
                   LAMBDA m : \A kid \in ToSet(node.kids) : m \in ToSet(Mandatory(kid)))
    [] OTHER -> <<>>

\* query_prefixes: every match begins with one of them, unless there is none.
RECURSIVE QueryPrefixes(_)
QueryPrefixes(node) ==
  CASE node.kind = "literal" -> {node.lit}
    [] node.kind = "group"   -> QueryPrefixes(node.kids[1])
    [] node.kind = "repeat"  -> IF node.min = 0 THEN {} ELSE QueryPrefixes(node.kids[1])
    [] node.kind = "concat"  -> QueryPrefixes(node.kids[1])
    [] node.kind = "alt"     ->
         IF \E kid \in ToSet(node.kids) : QueryPrefixes(kid) = {} THEN {}
         ELSE UNION {QueryPrefixes(kid) : kid \in ToSet(node.kids)}
    [] OTHER -> {}

\* top_level_branches.
RECURSIVE Branches(_)
Branches(node) ==
  CASE node.kind = "group" -> Branches(node.kids[1])
    [] node.kind = "alt"   -> node.kids
    [] OTHER               -> <<node>>

\* QueryIR.mandatory: each literal once.
Required(root) == ToSet(Mandatory(root))

\* query_branch_mandatory: what each alternative requires, unless one of them
\* requires nothing.
BranchMandatory(root) ==
  LET bs == Branches(Parsed(root))
  IN IF Len(bs) > 1 /\ \A b \in ToSet(bs) : Mandatory(b) # <<>>
     THEN {Required(b) : b \in ToSet(bs)} ELSE {}

\* RegexAnalysis.byte_upper: a character that is not spelt out may take four
\* bytes.
RECURSIVE Width(_)
Width(node) ==
  CASE node.kind = "literal"         -> Len(node.lit)
    [] node.kind = "dot"             -> 4
    [] node.kind = "group"           -> Width(node.kids[1])
    [] node.kind = "concat"          ->
         FoldLeft(LAMBDA w, kid : w + Width(kid), 0, node.kids)
    [] node.kind = "alt"             -> Max({Width(kid) : kid \in ToSet(node.kids)})
    [] node.kind = "repeat"          ->
         IF node.max = Unbounded THEN Unbounded ELSE node.max * Width(node.kids[1])
    [] OTHER -> 0

\* RegexAnalysis.forward_lookahead_bytes.
RECURSIVE Lookahead(_)
Lookahead(node) ==
  CASE node.kind = "end"      -> 1
    [] node.kind = "word end" -> 4
    [] OTHER -> Max({0} \union {Lookahead(kid) : kid \in ToSet(node.kids)})

\* literal_offsets: how wide a node is, and between which offsets from its
\* start the literals lie that it requires, from left to right.
RECURSIVE Offsets(_)

Narrow(min, max, lits) == [min |-> min, max |-> max, finite |-> TRUE, lits |-> lits]

\* The literals of a part that begins between lo and hi.
Shifted(lits, lo, hi) ==
  [k \in DOMAIN lits |-> [lits[k] EXCEPT !.lo = @ + lo, !.hi = @ + hi]]

OffsetsConcat(kids) ==
  LET Behind(acc, kid) ==
        LET part == Offsets(kid)
        IN [min    |-> acc.min + part.min,
            max    |-> acc.max + part.max,
            finite |-> acc.finite /\ part.finite,
            lits   |-> acc.lits \o Shifted(part.lits, acc.min, acc.max)]
  IN FoldLeft(Behind, Narrow(0, 0, <<>>), kids)

OffsetsAlt(kids) ==
  LET parts == {Offsets(kid) : kid \in ToSet(kids)}
  IN [min    |-> Min({part.min : part \in parts}),
      max    |-> Max({part.max : part \in parts}),
      finite |-> \A part \in parts : part.finite,
      lits   |-> <<>>]

OffsetsRepeat(node) ==
  LET part == Offsets(node.kids[1])
      wide == node.max * part.max
      Anywhere(l) == [l EXCEPT !.lo = 0, !.hi = Max({0, wide - Len(l.lit)})]
  IN [min    |-> node.min * part.min,
      max    |-> IF node.max = Unbounded THEN Unbounded ELSE wide,
      finite |-> part.finite /\ node.max # Unbounded,
      lits   |-> IF node.min = 0 \/ node.max = Unbounded THEN <<>>
                 ELSE [k \in DOMAIN part.lits |-> Anywhere(part.lits[k])]]

Offsets(node) ==
  CASE node.kind = "literal" ->
         Narrow(Len(node.lit), Len(node.lit), <<[lit |-> node.lit, lo |-> 0, hi |-> 0]>>)
    [] node.kind = "dot"     -> Narrow(1, 4, <<>>)
    [] node.kind = "group"   -> Offsets(node.kids[1])
    [] node.kind = "concat"  -> OffsetsConcat(node.kids)
    [] node.kind = "alt"     -> OffsetsAlt(node.kids)
    [] node.kind = "repeat"  -> OffsetsRepeat(node)
    [] OTHER                 -> Narrow(0, 0, <<>>)

-----------------------------------------------------------------------------
(* The regions of a record.                                                *)

RECURSIVE HasUnbounded(_)
HasUnbounded(node) ==
  \/ node.kind = "repeat" /\ node.max = Unbounded
  \/ \E kid \in ToSet(node.kids) : HasUnbounded(kid)

RECURSIVE Groups(_)
Groups(node) ==
  FoldLeft(LAMBDA n, kid : n + Groups(kid), IF node.kind = "group" THEN 1 ELSE 0, node.kids)

RECURSIVE Extended(_)
Extended(node) ==
  \/ node.kind \in {"ahead", "behind", "backref"}
  \/ \E kid \in ToSet(node.kids) : Extended(kid)

\* bounded_region_requested and bounded_regex_eligible, as far as patterns in
\* which case matters can tell.
ManyEach(root) ==
  Len(Branches(root)) > 1 /\ \A b \in ToSet(Branches(root)) : Len(Mandatory(b)) >= 2

Requested(root) ==
  Cardinality(Required(root)) >= 2 \/ HasUnbounded(root) \/ Extended(root) \/ ManyEach(root)

Eligible(root) ==
  /\ ~Extended(root)
  /\ Cardinality(Required(root)) >= 2 \/ ManyEach(root)
  /\ ~HasUnbounded(root)
  /\ Groups(root) <= 1
  /\ \A m \in Required(root) : Len(m) <= Width(root)

Found(lit, text) ==
  {p \in 0..(Len(text) - Len(lit)) : SubSeq(text, p + 1, p + Len(lit)) = lit}

\* The literals of a set that are longest; the code takes one of them.
Longest(lits) == {m \in lits : \A l \in lits : Len(l) <= Len(m)}

\* A bug to compare with: the slack is one too short.
AnchorStartsShort(anchor, width, text) ==
  {s \in 0..Len(text) : \E p \in Found(anchor, text) : s <= p /\ p < s + width - Len(anchor)}

\* bounded_regex_regions: the starts from which a match can reach the anchor.
AnchorStarts(anchor, width, text) ==
  {s \in 0..Len(text) : \E p \in Found(anchor, text) : s <= p /\ p <= s + width - Len(anchor)}

\* bounded_regex_regions_joined: the starts with every literal in its range.
JoinStarts(lits, text) ==
  {s \in 0..Len(text) :
     \A l \in lits : \E p \in Found(l.lit, text) : s + l.lo <= p /\ p <= s + l.hi}

\* The places of a literal in a pattern, from left to right.
Places(offs, lit) == SelectSeq(offs.lits, LAMBDA l : l.lit = lit)

\* Where the matches of one branch may begin.  The literals are joined if the
\* branch requires several, each with bounded offsets: those of its first
\* places in the pattern, as many as it is required.
BranchStarts(branch, required, anchor, width, text) ==
  LET offs     == Offsets(branch)
      Times(m) == Len(SelectSeq(required, LAMBDA r : r = m))
  IN IF /\ offs.finite /\ Len(required) >= 2
        /\ \A m \in ToSet(required) : Len(Places(offs, m)) >= Times(m)
     THEN JoinStarts(UNION {{Places(offs, m)[k] : k \in 1..Times(m)} : m \in ToSet(required)}, text)
     ELSE AnchorStarts(anchor, width, text)

\* Neighbouring starts are one region; a match that begins in it reads no
\* further than the widest can reach.
Runs(starts, reach, text) ==
  LET Run(s) == LET e == CHOOSE e \in s..Len(text) :
                           s..e \subseteq starts /\ e + 1 \notin starts
                IN [cb |-> s, ce |-> e + 1, end |-> Min({Len(text), e + 1 + reach})]
      first == {s \in starts : s - 1 \notin starts}
  IN SetToSortSeq({Run(s) : s \in first}, LAMBDA a, b : a.cb < b.cb)

\* The whole record as one region.
WholeRecord(text) == <<[cb |-> 0, ce |-> Len(text) + 1, end |-> Len(text)]>>

\* What is required, together or of each branch.
Lists(root) ==
  LET bs == Branches(root)
  IN IF Len(bs) > 1 THEN [k \in DOMAIN bs |-> Mandatory(bs[k])]
     ELSE <<SetToSeq(Required(root))>>

\* The regions for one choice of an anchor in every branch.
Regions(root, anchors, text) ==
  LET bs == Branches(root)
  IN Runs(UNION {BranchStarts(bs[k], Lists(root)[k], anchors[k], Width(root), text) : k \in DOMAIN bs},
          Width(root) + Lookahead(root), text)

\* A record may be passed over when it holds none of the literals that were
\* looked up in the index, one for each branch: each the longest, or one of
\* them.  When regions were wanted but are not to be had, the index does not
\* decide, but a short literal is still looked for where there is one for all
\* branches.
Skippable(root, text) ==
  /\ Requested(root) /\ ~Eligible(root) => BranchMandatory(root) = {}
  /\ \A lits \in (IF BranchMandatory(root) # {} THEN BranchMandatory(root) ELSE {Required(root)}) :
       \E m \in Longest(lits) : Found(m, text) = {}

\* What may be searched of a record: a sequence of regions.
PlansOf(root, text) ==
  LET lists   == Lists(root)
      Anchors == {f \in [DOMAIN lists -> UNION {ToSet(lists[k]) : k \in DOMAIN lists}] :
                    \A k \in DOMAIN lists : f[k] \in Longest(ToSet(lists[k]))}
  IN (IF Skippable(root, text) THEN {<<>>} ELSE {})
       \union (IF Eligible(root) THEN {Regions(root, f, text) : f \in Anchors}
               ELSE {WholeRecord(text)})

-----------------------------------------------------------------------------
(* What a pattern means: the ends of its matches from a position on, in    *)
(* the order in which a backtracking matcher tries them.  A further round  *)
(* of an unbounded repetition has to consume something, and a look-around  *)
(* may be satisfied in every way there is.                                 *)

Each(s, Ahead(_)) == FoldLeft(LAMBDA all, x : all \o Ahead(x), <<>>, s)

\* Where a matcher is, and what the groups have captured.
At(pos, caps) == [pos |-> pos, caps |-> caps]

\* The nodes without a choice.
Plain(node, text, st) ==
  LET Spelt(lit) == IF st.pos \in Found(lit, text) THEN <<At(st.pos + Len(lit), st.caps)>> ELSE <<>>
  IN CASE node.kind = "empty"   -> <<st>>
       [] node.kind = "literal" -> Spelt(node.lit)
       [] node.kind = "dot"     -> IF st.pos < Len(text) THEN <<At(st.pos + 1, st.caps)>> ELSE <<>>
       [] node.kind \in Asserts -> IF Holds(node.kind, text, st.pos) THEN <<st>> ELSE <<>>
       [] node.kind = "backref" ->
            IF node.num \in DOMAIN st.caps
            THEN Spelt(SubSeq(text, st.caps[node.num][1] + 1, st.caps[node.num][2])) ELSE <<>>

Captured(node, st, z) == At(z.pos, (node.num :> <<st.pos, z.pos>>) @@ z.caps)

RECURSIVE Ways(_, _, _), Rounds(_, _, _, _)

Rounds(node, text, st, k) ==
  LET tried == IF k = node.max THEN <<>> ELSE Ways(node.kids[1], text, st)
      taken == IF node.max = Unbounded /\ k >= node.min
               THEN SelectSeq(tried, LAMBDA z : z.pos # st.pos) ELSE tried
      again == Each(taken, LAMBDA z : Rounds(node, text, z, k + 1))
      leave == IF k < node.min THEN <<>> ELSE <<st>>
  IN IF node.greedy THEN again \o leave ELSE leave \o again

\* The ways in which the body of a look-around is satisfied.
Satisfied(node, text, st) ==
  IF node.kind = "ahead" THEN Ways(node.kids[1], text, st)
  ELSE Each([k \in 1..(st.pos + 1) |-> k - 1],
            LAMBDA p : SelectSeq(Ways(node.kids[1], text, At(p, st.caps)), LAMBDA z : z.pos = st.pos))

Ways(node, text, st) ==
  CASE node.kind = "group"   ->
         Each(Ways(node.kids[1], text, st), LAMBDA z : <<Captured(node, st, z)>>)
    [] node.kind = "concat"  ->
         FoldLeft(LAMBDA ways, kid : Each(ways, LAMBDA z : Ways(kid, text, z)), <<st>>, node.kids)
    [] node.kind = "alt"     -> Each(node.kids, LAMBDA kid : Ways(kid, text, st))
    [] node.kind = "repeat"  -> Rounds(node, text, st, 0)
    [] node.kind \in {"ahead", "behind"} ->
         LET ways == Satisfied(node, text, st)
         IN IF node.negative THEN IF ways = <<>> THEN <<st>> ELSE <<>>
            ELSE Each(ways, LAMBDA z : <<At(st.pos, z.caps)>>)
    [] OTHER -> Plain(node, text, st)

Ends(node, text, pos) == Each(Ways(node, text, At(pos, <<>>)), LAMBDA z : <<z.pos>>)

\* Whether the body of a repetition may match the empty string, of one that
\* is unbounded and of one that is required.
RECURSIVE MayBeEmpty(_), EmptyRounds(_), EmptyRequired(_)
MayBeEmpty(node) ==
  CASE node.kind \in {"literal", "dot"} -> FALSE
    [] node.kind \in {"ahead", "behind"} -> TRUE
    [] node.kind = "alt"    -> \E kid \in ToSet(node.kids) : MayBeEmpty(kid)
    [] node.kind = "repeat" -> node.min = 0 \/ MayBeEmpty(node.kids[1])
    [] OTHER                -> \A kid \in ToSet(node.kids) : MayBeEmpty(kid)

EmptyRounds(node) ==
  \/ node.kind = "repeat" /\ node.max = Unbounded /\ MayBeEmpty(node.kids[1])
  \/ \E kid \in ToSet(node.kids) : EmptyRounds(kid)

EmptyRequired(node) ==
  \/ node.kind = "repeat" /\ node.min > 0 /\ MayBeEmpty(node.kids[1])
  \/ \E kid \in ToSet(node.kids) : EmptyRequired(kid)

\* Whether every round of every repetition consumes as much as any other.
RECURSIVE Lengths(_), EvenRounds(_)
Lengths(node) ==
  CASE node.kind = "literal" -> {Len(node.lit)}
    [] node.kind = "dot"     -> {1}
    [] node.kind = "group"   -> Lengths(node.kids[1])
    [] node.kind = "concat"  ->
         FoldLeft(LAMBDA sums, kid : {x + y : x \in sums, y \in Lengths(kid)}, {0}, node.kids)
    [] node.kind = "alt"     -> UNION {Lengths(kid) : kid \in ToSet(node.kids)}
    [] node.kind = "repeat" /\ node.min = node.max -> {node.min * n : n \in Lengths(node.kids[1])}
    [] node.kind \in {"repeat", "backref"} -> {0, 1}
    [] OTHER -> {0}

EvenRounds(node) ==
  /\ node.kind = "repeat" => Cardinality(Lengths(node.kids[1])) = 1
  /\ \A kid \in ToSet(node.kids) : EvenRounds(kid)
=============================================================================
