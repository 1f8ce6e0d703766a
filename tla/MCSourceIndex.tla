--------------------------- MODULE MCSourceIndex ----------------------------
(* Small instances of SourceIndex. *)
EXTENDS SourceIndex, TLC

CONSTANTS p1, p2, a, b, c

\* Two contents of one size, and a longer one; two of one size.
Sizes    == a :> 1 @@ b :> 1 @@ c :> 2
SameSize == a :> 1 @@ b :> 1

\* Source-backed, exact timestamps, no faults.
Exact(ps) ==
  [persist |-> FALSE, fine |-> TRUE, faults |-> FALSE, runs |-> ps, cached |-> ps]

\* A packed corpus, coarse timestamps, faults.
Coarse(ps) ==
  [persist |-> TRUE, fine |-> FALSE, faults |-> TRUE, runs |-> {p1}, cached |-> ps]

SharedOrPacked == {Exact({p1, p2}), Coarse({p1}), Coarse({})}
Alone          == {Exact({p1})}
=============================================================================
