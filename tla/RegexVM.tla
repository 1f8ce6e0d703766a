------------------------------ MODULE RegexVM ------------------------------
(***************************************************************************)
(* The extended matcher, which evaluates the tree of a pattern with look-  *)
(* around or back-references: eval of src/src/regex.cpp.  It lists the     *)
(* states that are reached behind a node, the preferred one first.  Its    *)
(* limits (8192 bytes of look-behind, 10000 rounds, 50000 states) are out  *)
(* of reach here.                                                          *)
(***************************************************************************)
EXTENDS RegexTree

RECURSIVE Eval(_, _, _)

\* The states behind each number of rounds.  A round that consumes nothing is
\* dropped, and a level without states is the last.
Levels(node, text, st) ==
  LET limit == IF node.max = Unbounded THEN Len(text) - st.pos + 1 ELSE node.max
      Further(s) == SelectSeq(Eval(node.kids[1], text, s), LAMBDA z : z.pos # s.pos)
  IN FoldLeft(LAMBDA all, k :
                LET next == Each(Last(all), Further)
                IN IF next = <<>> THEN all ELSE Append(all, next),
              <<<<st>>>>, [k \in 1..limit |-> k])

\* A bug to compare with: one round more is asked for.
EvalRepeatMore(node, text, st) ==
  LET all    == Levels(node, text, st)
      enough == SubSeq(all, node.min + 2, Len(all))
  IN FlattenSeq(IF node.greedy THEN Reverse(enough) ELSE enough)

\* A greedy repetition prefers more rounds, a lazy one fewer.
EvalRepeat(node, text, st) ==
  LET all    == Levels(node, text, st)
      enough == SubSeq(all, node.min + 1, Len(all))
  IN FlattenSeq(IF node.greedy THEN Reverse(enough) ELSE enough)

\* A bug to compare with: the body of a look-behind may end before.
LookedShort(node, text, st) ==
  IF node.kind = "ahead" THEN Eval(node.kids[1], text, st)
  ELSE Each([k \in 1..(st.pos + 1) |-> k - 1],
            LAMBDA p : Eval(node.kids[1], text, At(p, st.caps)))

\* The ways in which a look-around's body matches: from here, or up to here
\* from anywhere in the record.
Looked(node, text, st) ==
  IF node.kind = "ahead" THEN Eval(node.kids[1], text, st)
  ELSE Each([k \in 1..(st.pos + 1) |-> k - 1],
            LAMBDA p : SelectSeq(Eval(node.kids[1], text, At(p, st.caps)), LAMBDA z : z.pos = st.pos))

Eval(node, text, st) ==
  CASE node.kind = "concat" ->
         FoldLeft(LAMBDA states, kid : Each(states, LAMBDA s : Eval(kid, text, s)), <<st>>, node.kids)
    [] node.kind = "alt"    -> Each(node.kids, LAMBDA kid : Eval(kid, text, st))
    [] node.kind = "group"  -> Each(Eval(node.kids[1], text, st), LAMBDA z : <<Captured(node, st, z)>>)
    [] node.kind = "repeat" -> EvalRepeat(node, text, st)
    [] node.kind \in {"ahead", "behind"} ->
         LET looked == Looked(node, text, st)
         IN IF node.negative THEN IF looked = <<>> THEN <<st>> ELSE <<>>
            ELSE Each(looked, LAMBDA z : <<At(st.pos, z.caps)>>)
    [] OTHER -> Plain(node, text, st)
=============================================================================
