---------------------------- MODULE MCFixedScan ----------------------------
(* Small instances of FixedScan. *)
EXTENDS FixedScan

CONSTANT MaxLen

\* A letter and a separator that is no part of a word.
ShortTexts == UNION {[1..n -> Bytes] : n \in 0..MaxLen}
Literals ==
  { <<"a">>, <<"a", "a">>, <<"a", "-">>, <<"a", "-", "a">>, <<"a", "a", "a">>,
    <<"a", "a", "-", "a">> }
WordLiterals == { <<"a", "-", "a">> }

\* Filters in which q-grams collide: by their first byte in every other
\* chunk, and by their last byte among the blocks.
FirstByte(b, g) == IF b % (2 * Core) = 0 THEN g ELSE g[1]
LastByte(b, g)  == g[Gram]
=============================================================================
