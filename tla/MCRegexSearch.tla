--------------------------- MODULE MCRegexSearch ---------------------------
(* Patterns and records for RegexSearch, and what its matches must be.     *)
EXTENDS RegexSearch, FilterAlgebra, RegexVM

CONSTANT MaxLen

AllTexts == BoundedSeq(Chars, MaxLen)

a == Lit(<<"a">>)
b == Lit(<<"b">>)
c == Lit(<<"c">>)

Opt(kid)  == Rep(kid, 0, 1, TRUE)
Many(kid) == Rep(kid, 0, Unbounded, TRUE)

Trees ==
  \* Alternatives, assertions, a capture.
  "a(?:bc)?|b"   :> Alt(<<Cat(<<a, Opt(Lit(<<"b", "c">>))>>), b>>) @@
  "ab|b?c$"      :> Alt(<<Lit(<<"a", "b">>), Cat(<<Opt(b), c, Edge("end")>>)>>) @@
  "^a|b$"        :> Alt(<<Cat(<<Edge("begin"), a>>), Cat(<<b, Edge("end")>>)>>) @@
  "(a)(?:b|c)"   :> Cat(<<Group(a), Alt(<<b, c>>)>>) @@
  \* Repetitions, greedy and lazy, of what may be empty too.
  "(?:a|ab)*"    :> Many(Alt(<<a, Lit(<<"a", "b">>)>>)) @@
  "(?:|a)+"      :> Rep(Alt(<<Empty, a>>), 1, Unbounded, TRUE) @@
  "(?:a*b??)*"   :> Many(Cat(<<Many(a), Rep(b, 0, 1, FALSE)>>)) @@
  "a{2,3}?"      :> Rep(a, 2, 3, FALSE) @@
  ".*?b"         :> Cat(<<Rep(Dot, 0, Unbounded, FALSE), b>>) @@
  \* Patterns searched in regions, with their literals joined or by an anchor.
  "a.{0,2}b"     :> Cat(<<a, Rep(Dot, 0, 2, TRUE), b>>) @@
  "a.a|b.?c"     :> Alt(<<Cat(<<a, Dot, a>>), Cat(<<b, Opt(Dot), c>>)>>) @@
  "a(?:b.|b)c"   :> Cat(<<a, Alt(<<Cat(<<b, Dot>>), b>>), c>>) @@
  "(?:bc?|b(a))c" :> Cat(<<Alt(<<Cat(<<b, Opt(c)>>), Cat(<<b, Group(a)>>)>>), c>>) @@
  "(?:ab){1,2}.c" :> Cat(<<Rep(Lit(<<"a", "b">>), 1, 2, TRUE), Dot, c>>) @@
  "-w a.b"       :> AsWord(Cat(<<a, Dot, b>>)) @@
  "-w a.b|b"     :> AsWord(Alt(<<Cat(<<a, Dot, b>>), b>>)) @@
  \* A start that is given up for another one's match, which is replaced in turn.
  "abc-|ab|b.*-|c" :> Alt(<<Lit(<<"a", "b", "c", "-">>), Lit(<<"a", "b">>),
                            Cat(<<b, Many(Dot), Lit(<<"-">>)>>), c>>) @@
  \* Alternatives that imply each other.
  "c(?:ab|b|a.b)" :> Cat(<<c, Alt(<<Lit(<<"a", "b">>), b, Cat(<<a, Dot, b>>)>>)>>) @@
  \* Back-references, of what a look-ahead has captured and of the last round.
  "(?=(.))\\1c"   :> Cat(<<Look("ahead", FALSE, Group(Dot)), BackRef(1), c>>) @@
  "(?:(a|b)\\1)+" :> Rep(Cat(<<Group(Alt(<<a, b>>)), BackRef(1)>>), 1, Unbounded, TRUE) @@
  \* Look-around on either side, of several widths, required literals in it.
  "(?<=a|ab)c|b" :> Alt(<<Cat(<<Look("behind", FALSE, Alt(<<a, Lit(<<"a", "b">>)>>)), c>>), b>>) @@
  "(?!ab)a{1,2}?(?<!ca)" :> Cat(<<Look("ahead", TRUE, Lit(<<"a", "b">>)), Rep(a, 1, 2, FALSE),
                                 Look("behind", TRUE, Lit(<<"c", "a">>))>>) @@
  "(?<=(a).?)b.*(?=\\1c)" :> Cat(<<Look("behind", FALSE, Cat(<<Group(a), Opt(Dot)>>)), b, Many(Dot),
                                  Look("ahead", FALSE, Cat(<<BackRef(1), c>>))>>) @@
  \* Rounds of several widths, and rounds that must and may be empty.
  "(?=a)(?:abc|a|b)*" :> Cat(<<Look("ahead", FALSE, a), Many(Alt(<<Lit(<<"a", "b", "c">>), a, b>>))>>) @@
  "(?:a?){2}b(?!c)"  :> Cat(<<Rep(Opt(a), 2, 2, TRUE), b, Look("ahead", TRUE, c)>>)

Compiled ==
  [p \in DOMAIN Trees |->
     IF Extended(Trees[p])
     THEN [extended |-> TRUE, code |-> <<>>, start |-> 0, prefixes |-> {}]
     ELSE [extended |-> FALSE,
           code     |-> Compile(Trees[p]).code,
           start    |-> Compile(Trees[p]).start,
           prefixes |-> QueryPrefixes(Parsed(Trees[p]))]]

\* A function whose values TLC computes once.
Tabulated(f) == f @@ <<>>

\* Of(p, t) for every pattern and record.
Table(pats, Of(_, _)) == Tabulated([p \in pats |-> Tabulated([t \in AllTexts |-> Of(p, t)])])

Planned         == Table(DOMAIN Trees, LAMBDA p, t : PlansOf(Trees[p], t))
TreePlans(p, t) == Planned[p][t]

First(p, t, s) ==
  LET states == Eval(Trees[p], t, At(s, <<>>)) IN IF states = <<>> THEN None ELSE states[1].pos

Evaluated ==
  Table({p \in DOMAIN Trees : Extended(Trees[p])},
        LAMBDA p, t : Tabulated([s \in 0..Len(t) |-> First(p, t, s)]))
TreeEval(p, t, s) == IF p \in DOMAIN Evaluated THEN Evaluated[p][t][s] ELSE None

Filters  == [p \in DOMAIN Trees |-> QueryFilter(Parsed(Trees[p]))]
Simplest == [p \in DOMAIN Trees |-> Simplified(Filters[p])]

-----------------------------------------------------------------------------
(* Properties.                                                             *)

Meaning == Table(DOMAIN Trees, LAMBDA p, t : Tabulated([s \in 0..Len(t) |-> Ends(Trees[p], t, s)]))

From(p)    == Meaning[q][text][p]
Matches(p) == From(p) # <<>>

\* What is reported is a match of the whole record, although only a region of
\* it was read, and among the matches with that start it is the one that comes
\* first by the order of alternatives and the greed of repetitions.  (Not so
\* where an unbounded repetition has a body that may be empty: engines differ
\* there, and the NFA orders by where it has been before; and the extended
\* matcher orders by the number of rounds, whatever each consumes.)
Preferred ==
  pc = "done" =>
    \A m \in ToSet(out) :
      /\ m.end \in ToSet(From(m.start))
      /\ ~EmptyRounds(Trees[q]) /\ (prog.extended => EvenRounds(Trees[q])) =>
           m.end = Head(From(m.start))

\* The extended matcher does not count a round that consumes nothing: where a
\* required round may be empty it loses matches.
Counts == prog.extended => ~EmptyRequired(Trees[q])

\* An attempt of the NFA passes over a start only for a match behind one that
\* begins there or before it, and was replaced; the extended matcher over none.
Leftmost ==
  pc = "report" /\ best # None /\ Counts =>
    \A p \in from..(best.start - 1) : Matches(p) =>
      /\ ~prog.extended
      /\ \E s \in from..p : \E e \in ToSet(From(s)) : e <= best.start

\* Nothing is left behind the last match that was reported; in particular a
\* record that has a match is found to have one, by whatever literals it was
\* looked up and in whatever regions it was searched.  The filter of the
\* pattern admits it too, and admits no more and no less when simplified.
NoneMissed ==
  pc = "done" =>
    /\ \A p \in 0..Len(text) : Matches(p) =>
         /\ Counts => \E m \in ToSet(out) : p <= m.start \/ (~over /\ p < m.end)
         /\ Admits(Filters[q], text)
    /\ Admits(Filters[q], text) <=> Admits(Simplest[q], text)

\* An attempt of the NFA reports the leftmost match ("leftmost-first
\* alternation", tests/test.cpp).
LeftmostFirst ==
  pc = "report" /\ best # None /\ ~prog.extended =>
    \A p \in from..(best.start - 1) : ~Matches(p)
=============================================================================
