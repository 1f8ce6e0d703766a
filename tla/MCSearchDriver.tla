--------------------------- MODULE MCSearchDriver ---------------------------
(* Small instances of SearchDriver. *)
EXTENDS SearchDriver

Text(units) == [binary |-> FALSE, units |-> units]

FileKinds ==
  {Text(us) : us \in {<<>>, <<0>>, <<1>>, <<2>>, <<0, 1>>, <<1, 0>>, <<2, 1>>}}
    \union {[binary |-> TRUE, units |-> <<1>>]}

\* Up to two files of every kind, and three of some.
SmallCorpora ==
  UNION {[1..n -> FileKinds] : n \in 0..2}
    \union [1..3 -> {Text(<<0>>), Text(<<1>>), [binary |-> TRUE, units |-> <<1>>]}]

SomeScopes == {{}, {1}, {2, 3}}
=============================================================================
