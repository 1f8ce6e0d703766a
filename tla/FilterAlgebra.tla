--------------------------- MODULE FilterAlgebra ---------------------------
(***************************************************************************)
(* The filter that is derived from a parsed pattern, and its               *)
(* simplification: query_filter and class FilterExpr of src/src/regex.cpp. *)
(* A filter is a necessary condition of a match, by the literals that a    *)
(* text contains.                                                          *)
(***************************************************************************)
EXTENDS RegexTree

Filter(op, lit, terms) == [op |-> op, lit |-> lit, terms |-> terms]

Everything == Filter("true", <<>>, <<>>)

Atom(lit) == IF lit = <<>> THEN Everything ELSE Filter("atom", lit, <<>>)

\* FilterExpr::matches.
RECURSIVE Admits(_, _)
Admits(f, text) ==
  CASE f.op = "true" -> TRUE
    [] f.op = "atom" -> Found(f.lit, text) # {}
    [] f.op = "and"  -> \A t \in ToSet(f.terms) : Admits(t, text)
    [] f.op = "or"   -> \E t \in ToSet(f.terms) : Admits(t, text)

\* query_filter.
RECURSIVE QueryFilter(_)
QueryFilter(node) ==
  LET Of(op) == Filter(op, <<>>, [k \in DOMAIN node.kids |-> QueryFilter(node.kids[k])])
  IN CASE node.kind = "literal" -> Atom(node.lit)
       [] node.kind = "group"   -> QueryFilter(node.kids[1])
       [] node.kind = "repeat" /\ node.min > 0 -> QueryFilter(node.kids[1])
       [] node.kind \in {"ahead", "behind"} /\ ~node.negative -> QueryFilter(node.kids[1])
       [] node.kind = "concat"  -> Of("and")
       [] node.kind = "alt"     -> Of("or")
       [] OTHER -> Everything

\* filter_equal: the order of the terms does not matter.  Simplified terms
\* are pairwise different.
RECURSIVE FilterEqual(_, _)
FilterEqual(f, g) ==
  /\ f.op = g.op /\ f.lit = g.lit
  /\ Len(f.terms) = Len(g.terms)
  /\ \A s \in ToSet(f.terms) : \E t \in ToSet(g.terms) : FilterEqual(s, t)

\* A bug to compare with: a conjunction absorbs its terms.
SubsumesBackward(f, g) ==
  \/ FilterEqual(f, g)
  \/ f.op = "atom" /\ g.op = "atom" /\ Found(f.lit, g.lit) # {}
  \/ f.op = "and" /\ \E t \in ToSet(f.terms) : FilterEqual(t, g)

\* filter_subsumes: what g admits, f admits.
Subsumes(f, g) ==
  \/ FilterEqual(f, g)
  \/ f.op = "atom" /\ g.op = "atom" /\ Found(f.lit, g.lit) # {}
  \/ g.op = "and" /\ \E t \in ToSet(g.terms) : FilterEqual(t, f)

\* Each term once.
Once(terms) ==
  FoldLeft(LAMBDA kept, t : IF \E k \in ToSet(kept) : FilterEqual(k, t) THEN kept
                                                                        ELSE Append(kept, t),
           <<>>, terms)

\* Every term in turn, if it is still there, removes the others it subsumes:
\* which of them stay depends on their order.
Absorbed(terms) ==
  FoldLeft(LAMBDA kept, t : IF t \notin ToSet(kept) THEN kept
                            ELSE SelectSeq(kept, LAMBDA u : u = t \/ ~Subsumes(t, u)),
           terms, terms)

Junction(op, terms) ==
  CASE Len(terms) = 0 -> Everything
    [] Len(terms) = 1 -> terms[1]
    [] OTHER          -> Filter(op, <<>>, terms)

\* FilterExpr::simplified.
RECURSIVE Simplified(_)
Simplified(f) ==
  LET parts == [k \in DOMAIN f.terms |-> Simplified(f.terms[k])]
      flat  == FlattenSeq([k \in DOMAIN parts |->
                 IF parts[k].op = f.op THEN parts[k].terms ELSE <<parts[k]>>])
  IN CASE f.op = "and" -> Junction("and", Once(SelectSeq(flat, LAMBDA p : p # Everything)))
       [] f.op = "or"  -> IF Everything \in ToSet(parts) THEN Everything
                          ELSE Junction("or", Absorbed(Once(flat)))
       [] OTHER        -> f
=============================================================================
