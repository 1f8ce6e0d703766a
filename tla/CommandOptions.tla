--------------------------- MODULE CommandOptions ---------------------------
(***************************************************************************)
(* What each argument of the command line does to the options: parse_long, *)
(* parse_short and parse of src/src/cli.cpp.  The options are the set of   *)
(* the switches that are on and the values that were given; switches that  *)
(* only change wording (colour, separators of fields, paths) are left out. *)
(***************************************************************************)
EXTENDS Naturals, Sequences, FiniteSets

SummaryModes == {"count", "countMatches", "filesWith", "filesWithout"}

\* A flag that turns another one off is named "no" and the switch.
Negation == [noPassthru |-> "passthru", noHidden |-> "hidden", noInvert |-> "invert",
             noMultiline |-> "multiline", noStop |-> "stopOnNonmatch", noQuiet |-> "quiet",
             noNullData |-> "nullData", noCrlf |-> "crlf", ignore |-> "noIgnore",
             ignoreDot |-> "noIgnoreDot", ignoreVcs |-> "noIgnoreVcs", noJson |-> "json",
             noStats |-> "stats", noText |-> "text", noBinary |-> "binary"]

\* Switches that cannot both be on: one flag of a pair takes the other back.
Exclusive == {SummaryModes, {"multiline", "stopOnNonmatch"}, {"word", "line"},
              {"withFilename", "noFilename"}, {"crlf", "nullData"}}

TakesBack(flag) ==
  CASE flag \in DOMAIN Negation -> {Negation[flag]}
    [] flag = "passthru"        -> {"contextSeen"}
    [] flag = "lineRegexp"      -> {"word"}
    [] flag = "wordRegexp"      -> {"line"}
    [] OTHER -> UNION {p \in Exclusive : flag \in p}

\* unrestricted counts its own uses: the second shows hidden files, the
\* third searches binary ones.
TurnsOn(flag, times) ==
  CASE flag \in DOMAIN Negation -> {}
    [] flag = "after"        -> {"afterExplicit", "contextSeen"}
    [] flag = "before"       -> {"beforeExplicit", "contextSeen"}
    [] flag = "context"      -> {"contextSeen"}
    [] flag = "lineRegexp"   -> {"line"}
    [] flag = "wordRegexp"   -> {"word"}
    [] flag = "nullData"     -> {"nullData", "text"}
    [] flag = "pretty"       -> {"heading"}
    [] flag = "unrestricted" -> {"noIgnore"} \cup (IF times >= 2 THEN {"hidden"} ELSE {})
                                             \cup (IF times >= 3 THEN {"binary", "asText"} ELSE {})
    [] OTHER -> {flag}

\* Two bugs to compare with: nothing is taken back, and -A and -B leave no mark for -C.
SwitchedOnly(on, flag, times) == on \cup TurnsOn(flag, times)
SwitchedUnmarked(on, flag, times) ==
  (on \ TakesBack(flag)) \cup (TurnsOn(flag, times) \ {"afterExplicit", "beforeExplicit"})

\* The flags of a summary mode are not looked at once --files was given.
Switched(on, flag, times) ==
  IF flag \in SummaryModes /\ "files" \in on THEN on
  ELSE (on \ TakesBack(flag)) \cup TurnsOn(flag, times)

Given == [after : Nat, before : Nat, maxCount : Nat, maxDepth : Nat, maxFilesize : Nat, unrestricted : Nat]

NoValues == [after |-> 0, before |-> 0, maxCount |-> 0, maxDepth |-> 0, maxFilesize |-> 0, unrestricted |-> 0]

\* -C gives only the side for which neither -A nor -B was seen so far.
Valued(num, on, flag, n) ==
  CASE flag = "context" ->
         [num EXCEPT !.after  = IF "afterExplicit"  \in on THEN @ ELSE n,
                     !.before = IF "beforeExplicit" \in on THEN @ ELSE n]
    [] flag = "after"        -> [num EXCEPT !.after = n]
    [] flag = "before"       -> [num EXCEPT !.before = n]
    [] flag = "maxCount"     -> [num EXCEPT !.maxCount = n]
    [] flag = "maxDepth"     -> [num EXCEPT !.maxDepth = n]
    [] flag = "maxFilesize"  -> [num EXCEPT !.maxFilesize = n]
    [] flag = "unrestricted" -> [num EXCEPT !.unrestricted = @ + 1]
    [] OTHER -> num

\* After the last argument: context beats an earlier --passthru, and counting
\* what only_matching would print is counting matches.
Resolved(on) ==
  LET shown == IF "contextSeen" \in on THEN on \ {"passthru"} ELSE on
  IN IF {"onlyMatching", "count"} \subseteq shown
     THEN (shown \ {"count"}) \cup {"countMatches"} ELSE shown
=============================================================================
