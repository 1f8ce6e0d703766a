--------------------------- MODULE MCCommandLine ---------------------------
(***************************************************************************)
(* A small tree of texts and ignore files, four patterns and thirty        *)
(* flags for CommandLine.                                                  *)
(***************************************************************************)
EXTENDS CommandLine

Flag(name) == [flag |-> name, n |-> 0]
Value(name, n) == [flag |-> name, n |-> n]

MCFlags ==
  {Flag(x) : x \in {"passthru", "noPassthru", "count", "countMatches", "filesWith", "filesWithout", "files",
                    "invert", "stopOnNonmatch", "multiline", "onlyMatching", "quiet", "json", "vimgrep",
                    "text", "binary", "nullData", "crlf", "replace", "noContextSeparator",
                    "unrestricted", "noIgnoreVcs", "noIgnoreDot"}}
  \cup {Value("after", 1), Value("before", 1), Value("context", 0), Value("context", 2),
        Value("maxCount", 0), Value("maxCount", 1), Value("maxDepth", 1)}

MCConfigs == {<<>>, <<Value("after", 1), Value("context", 0)>>}

-----------------------------------------------------------------------------
(* Patterns are plain strings; one of them reaches into the next line, and *)
(* one more is found at the beginning of every line, without a character.  *)

Word == [x |-> <<"x">>, y |-> <<"y">>, across |-> <<"x", "n", "y">>]

At(w, text, i) == i + Len(w) <= Len(text) /\ \A k \in DOMAIN w : text[i + k] = w[k]

Beginnings(text, switches) ==
  LET end == IF "nullData" \in switches THEN "z" ELSE "n"
  IN SetToSortSeq({0} \cup {i \in 1..Len(text) - 1 : text[i] = end}, <)

\* The occurrences from left to right that do not overlap.
MCFound(p, text, switches) ==
  LET w == Word[p]
      from[i \in 0..Len(text)] ==
        IF i = Len(text) THEN <<>>
        ELSE IF At(w, text, i) THEN <<[s |-> i, e |-> i + Len(w)]>> \o from[i + Len(w)]
        ELSE from[i + 1]
  IN IF p = "begin"
     THEN [k \in DOMAIN Beginnings(text, switches) |->
             [s |-> Beginnings(text, switches)[k], e |-> Beginnings(text, switches)[k]]]
     ELSE IF p = "across" /\ {"multiline", "nullData"} \cap switches = {} THEN <<>> ELSE from[0]

\* How the patterns would be verified: a literal, one that every file with a y
\* is searched for, one that is searched by regions, and one without literals.
MCVerifier(p, switches) ==
  CASE p = "x" -> "literal" [] p = "y" -> "record" [] p = "across" -> "region" [] p = "begin" -> "brute"

-----------------------------------------------------------------------------
(* Files and ignore files.                                                 *)

File(path, text) == [path |-> path, text |-> text, size |-> Len(text)]

Rule(pat, neg, anchored, dirOnly) == [pat |-> pat, neg |-> neg, anchored |-> anchored, dirOnly |-> dirOnly]
Ignore(dir, kind, rules) == [dir |-> dir, kind |-> kind, rules |-> rules]

Top == <<"x", "n", "y", "n", "y", "n", "x", "x", "n", "x">>
Sub == <<"y", "n", "x", "n", "y", "x", "n", "y", "n", "y">>
Bin == <<"x", "n", "z", "y", "n">>
Late == <<"y", "z", "x", "n">>

Tree ==
  [files |-> <<File(<<"r", "f">>, Top), File(<<"r", "d", "f">>, Sub), File(<<"r", "d", "g">>, Bin), File(<<"r", ".h">>, Late)>>,
   dotted |-> {".h"}, git |-> TRUE, types |-> [one |-> {<<{"g"}>>}],
   ignores |-> {Ignore(<<"r">>, "gitignore", <<Rule(<<{"d"}>>, FALSE, FALSE, TRUE), Rule(<<{"g"}>>, TRUE, FALSE, FALSE)>>),
                Ignore(<<"r">>, "ignore", <<Rule(<<{"g"}>>, FALSE, FALSE, FALSE)>>),
                Ignore(<<"r", "d">>, "gitignore", <<Rule(<<{"f"}>>, TRUE, TRUE, FALSE)>>),
                Ignore(<<>>, "rgignore", <<Rule(<<{"**"}, {"f"}>>, FALSE, FALSE, FALSE)>>),
                Ignore(<<"r">>, "global", <<Rule(<<{"f", "g"}>>, FALSE, FALSE, FALSE)>>)}]

Plain ==
  [files |-> <<File(<<"r", "e">>, <<>>), File(<<"r", "f">>, Top), File(<<"r", "g">>, Sub)>>,
   dotted |-> {}, git |-> FALSE, types |-> [one |-> {<<{"g"}>>}], ignores |-> {}]

MCWorlds == {Tree, Plain}

Want(patterns, paths) == [patterns |-> patterns, paths |-> paths, globs |-> {}, types |-> {}, typeNot |-> {}]

MCWants ==
  {Want({"x"}, {<<"r">>}), Want({"across"}, {<<"r", "f">>, <<"r">>}), Want({"x", "across"}, {<<"r">>}),
   [Want({"x", "y"}, {<<"r">>}) EXCEPT !.globs = {[neg |-> TRUE, pat |-> <<{"d"}, {"**"}>>]}, !.typeNot = {"one"}],
   Want({"y"}, {<<"r">>}), Want({"begin"}, {<<"r">>}), Want({}, {<<"r">>}), Want({"y"}, {<<"q">>})}
=============================================================================
