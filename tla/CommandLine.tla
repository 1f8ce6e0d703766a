---------------------------- MODULE CommandLine ----------------------------
(***************************************************************************)
(* One run of the command line tool, src/src/cli.cpp: the arguments are    *)
(* read one by one, the files that may be searched are chosen, every       *)
(* pattern is searched for, and what was found is written file by file in  *)
(* the mode that was asked for.                                            *)
(*                                                                         *)
(* A text is a sequence of "n" (newline), "z" (NUL) and other letters; a   *)
(* match is a span [s, e) of byte offsets; lines are numbered from 1.      *)
(***************************************************************************)
EXTENDS Integers, SequencesExt, FiniteSetsExt, CommandOptions, PathRules

CONSTANTS
  Flags,          \* the flags that may be given: [flag, n]
  Configs,        \* what the configuration file may hold: sequences of flags
  Wants,          \* patterns, paths, globs and types: what a run is about
  Worlds,         \* the files, the ignore files and the names that are hidden
  MaxFlags,       \* how many flags are given at most
  Found(_, _, _), \* what Searcher::find reports for a pattern, a text and the search's switches
  Verifier(_, _)  \* how it verifies the pattern under these switches

\* Marks that the options keep for themselves: no argument is named after them.
Marks == {"afterExplicit", "beforeExplicit", "contextSeen"}

ASSUME CommandAssumption ==
  /\ Flags \subseteq [flag : STRING, n : Nat]
  /\ \A t \in Flags : t.flag \notin Marks
  /\ Configs \subseteq Seq(Flags)
  /\ MaxFlags \in Nat
  /\ \A w \in Wants : IsFiniteSet(w.patterns)
  /\ \A x \in Worlds : x.files \in Seq([path : Seq(STRING), text : Seq(STRING), size : Nat])
  \* No two ignore files of a kind, or of one name in one directory.
  /\ \A x \in Worlds :
       /\ IsFiniteSet(x.ignores) /\ \A s \in x.ignores : IgnoreFile(s)
       /\ \A s, t \in x.ignores : s.kind = t.kind /\ (s.kind \in Discovered => s.dir = t.dir) => s = t

Spans == {m \in [s : Nat, e : Nat] : m.s <= m.e}

\* The switches that a search depends on; the others of PatternOptions belong
\* to the pattern.
SearchSwitches == {"word", "line", "crlf", "multiline", "nullData"}

ASSUME FoundAssumption ==
  \A w \in Wants, x \in Worlds : \A p \in w.patterns, f \in DOMAIN x.files, S \in SUBSET SearchSwitches :
    Found(p, x.files[f].text, S) \in Seq(Spans)

\* A literal; an expression, searched by regions, or by records in the files
\* that the filters let through, or in every file.
Verifiers == {"literal", "region", "record", "brute"}

ASSUME VerifierAssumption ==
  \A w \in Wants : \A p \in w.patterns, S \in SUBSET SearchSwitches : Verifier(p, S) \in Verifiers

VARIABLES
  pc, pending,         \* where the run is; arguments of the configuration file not yet read
  argv,                \* the arguments read so far, for the properties; forgotten after the last
  on, num,             \* the switches that are on and the values given
  want, world,         \* what is searched for, and where
  allowed, byfile,     \* the files that may be searched, and the matches in each
  missed,              \* the patterns whose search ended at something that does not match
  fid,                 \* the file whose turn it is
  selected, emit,      \* the lines of the current file that are selected, and those to write
  notice,              \* is a notice on a binary file due?
  line, skip,          \* the next line, and the first one a replacement has not covered
  printed, seps, prev, \* the lines written, those with a separator before them, and the last one or 0
  copied, replaced,    \* the bytes written as they are, and the matches replaced, in order
  tally,               \* what was written in all: lines that match, and matches
  any, status          \* is there anything to report?  The exit status, or -1

parsing == <<argv, on, num, pending>>
chosen  == <<want, world, allowed, byfile, missed>>
writing == <<selected, notice, emit, line, skip, printed, seps, prev, copied, replaced>>
vars == <<pc, parsing, chosen, fid, writing, tally, any, status>>

Has(switch) == switch \in on

-----------------------------------------------------------------------------
(* Lines and matches.                                                      *)

Separator == IF Has("nullData") THEN "z" ELSE "n"

\* split_lines: [b, e) of every line, its terminator included.
Ends(text) == {i \in DOMAIN text : text[i] = Separator \/ i = Len(text)}

Lines(text) ==
  LET end(k) == IF k = 0 THEN 0 ELSE CHOOSE i \in Ends(text) : Cardinality({j \in Ends(text) : j < i}) = k - 1
  IN [k \in 1..Cardinality(Ends(text)) |-> [b |-> end(k - 1), e |-> end(k)]]

Lesser(m, n) == IF m < n THEN m ELSE n
Greater(m, n) == IF m > n THEN m ELSE n

\* line_for_offset: the last line that begins at the offset or before it.
LineFor(lines, off) == Cardinality({k \in DOMAIN lines : lines[k].b <= off})

FirstLine(lines, m) == LineFor(lines, m.s)
LastLine(lines, m)  == LineFor(lines, IF m.e > m.s THEN m.e - 1 ELSE m.s)

\* matches_by_line
MatchedLines(lines, ms) == {k \in DOMAIN lines : \E i \in DOMAIN ms : k \in FirstLine(lines, ms[i])..LastLine(lines, ms[i])}

\* The lines of the first run of selected ones.
Unbroken(lines) == {k \in lines : \A j \in Min(lines)..k : j \in lines}

\* The first n selected lines.
FirstOnes(lines, n) == {k \in lines : Cardinality({j \in lines : j < k}) < n}

Choose(lines, ms) ==
  LET matched == MatchedLines(lines, ms)
      found   == IF Has("invert") THEN DOMAIN lines \ matched ELSE matched
      run     == IF Has("stopOnNonmatch") THEN Unbroken(found) ELSE found
  IN IF Has("maxCount") THEN FirstOnes(run, num.maxCount) ELSE run

-----------------------------------------------------------------------------
(* Binary files.                                                           *)

Text(f)   == world.files[f].text

Explicit(f) == world.files[f].path \in want.paths

HasNul(f)   == ~Has("nullData") /\ "z" \in Range(Text(f))
Nul(f)      == Min({i \in DOMAIN Text(f) : Text(f)[i] = "z"}) - 1
AsText      == Has("text") \/ Has("asText")
Suppress(f) == ~AsText /\ HasNul(f) /\ (Has("binary") \/ Explicit(f))
AutoBinary(f) == ~AsText /\ HasNul(f) /\ ~Suppress(f)

\* Matches from the NUL on, which come last, are dropped.
Cut(f, ms) ==
  IF HasNul(f) /\ ~AsText THEN SubSeq(ms, 1, Cardinality({i \in DOMAIN ms : ms[i].s < Nul(f)})) ELSE ms

Kept(f) == Cut(f, byfile[f])

\* binary_notice
Notice(f) ==
  \/ AutoBinary(f) /\ Kept(f) # <<>>
  \/ Suppress(f) /\ byfile[f] # <<>>

-----------------------------------------------------------------------------
(* Reading the arguments.                                                  *)

Init ==
  /\ pc = "parse" /\ pending \in Configs /\ argv = <<>>
  /\ on = {} /\ num = NoValues
  /\ want = {} /\ world = {} /\ allowed = {} /\ byfile = <<>> /\ missed = {}
  /\ fid = 0
  /\ selected = {} /\ notice = FALSE /\ emit = {} /\ line = 0 /\ skip = 0
  /\ printed = {} /\ seps = {} /\ prev = 0 /\ copied = <<>> /\ replaced = <<>>
  /\ tally = [lines |-> 0, matches |-> 0]
  /\ any = FALSE /\ status = -1

Read(t) ==
  /\ argv' = Append(argv, t)
  /\ num' = Valued(num, on, t.flag, t.n)
  /\ on' = Switched(on, t.flag, num'.unrestricted)
  /\ UNCHANGED <<pc, chosen, fid, writing, tally, any, status>>

\* The configuration file comes before the arguments.
ReadConfig == pc = "parse" /\ pending # <<>> /\ pending' = Tail(pending) /\ Read(Head(pending))

ReadFlag ==
  /\ pc = "parse" /\ pending = <<>> /\ Len(argv) < MaxFlags
  /\ \E t \in Flags : Read(t)
  /\ UNCHANGED pending

EndOfFlags ==
  /\ pc = "parse" /\ pending = <<>>
  /\ pc' = "open" /\ on' = Resolved(on) /\ argv' = <<>>
  /\ UNCHANGED <<num, pending, chosen, fid, writing, tally, any, status>>

\* A bug to compare with: the exit status is forgotten.
ReturnUnset(code) ==
  /\ pc' = "done"
  /\ UNCHANGED <<parsing, fid, writing, tally, any, status>>

Return(code) ==
  /\ pc' = "done" /\ status' = code
  /\ UNCHANGED <<parsing, fid, writing, tally, any>>

-----------------------------------------------------------------------------
(* Choosing the files and searching them.                                  *)

\* No pattern, or a path that is not there.
Refuse ==
  /\ pc = "open"
  /\ \E w \in Wants, x \in Worlds :
       /\ (w.patterns = {} /\ ~Has("files")) \/ \E p \in w.paths : ~Exists(x, p)
       /\ want' = w /\ world' = x
  /\ UNCHANGED <<allowed, byfile, missed>>
  /\ Return(2)

Open ==
  /\ pc = "open"
  /\ \E w \in Wants, x \in Worlds :
       /\ w.patterns # {} \/ Has("files")
       /\ \A p \in w.paths : Exists(x, p)
       /\ want' = w /\ world' = x
       /\ allowed' = {f \in DOMAIN x.files : Allowed(on, num, w, x, w.paths, f)}
  /\ pc' = IF Has("files") THEN "list" ELSE "search"
  /\ UNCHANGED <<parsing, byfile, missed, fid, writing, tally, any, status>>

\* --files writes the names and looks into no file.
ListAll == pc = "list" /\ Return(0) /\ UNCHANGED chosen

\* A bug to compare with: an inverted quiet search asks only for one match too.
FirstHitAlways == Has("quiet")

\* A quiet search asks only for the first match of each pattern.
FirstHit == Has("quiet") /\ ~Has("invert")

FoundIn(p, f) == Found(p, Text(f), on \cap SearchSwitches)
Verified(p)   == Verifier(p, on \cap SearchSwitches)

\* Where the verification of an expression may begin: in a file that the
\* filters let through, and they let all through that have a match.
BeginsIn(p) ==
  {g \in allowed : \A f \in allowed : Verified(p) = "brute" \/ FoundIn(p, f) # <<>> => g <= f}

\* Is there a match in the first record of a file, which with --multiline is
\* all of it?
OpensWith(p, g) ==
  /\ FoundIn(p, g) # <<>>
  /\ Has("multiline") \/ LineFor(Lines(Text(g)), Head(FoundIn(p, g)).s) <= 1

\* A search for the first match of an expression ends after the first record
\* it verifies, match or not, and by regions after the first region.
MayHit(p)  == Verified(p) \in {"literal", "region"} \/ \E g \in BeginsIn(p) : OpensWith(p, g)
MayMiss(p) ==
  Verified(p) = "region" \/ (Verified(p) # "literal" /\ \E g \in BeginsIn(p) : ~OpensWith(p, g))

Misses == {m \in SUBSET want.patterns : \A p \in want.patterns : IF p \in m THEN MayMiss(p) ELSE MayHit(p)}

Hits(p, f, lost) ==
  IF ~FirstHit \/ FoundIn(p, f) = <<>> THEN Range(FoundIn(p, f))
  ELSE IF p \notin lost /\ \A g \in allowed : FoundIn(p, g) # <<>> => f <= g
       THEN {Head(FoundIn(p, f))} ELSE {}

SpanBefore(x, y) == x.s < y.s \/ (x.s = y.s /\ x.e < y.e)

InOrder(spans) ==
  [k \in 1..Cardinality(spans) |-> CHOOSE m \in spans : Cardinality({x \in spans : SpanBefore(x, m)}) = k - 1]

\* The matches of all patterns, in order and each once.
Merged(f, lost) == InOrder(UNION {Hits(p, f, lost) : p \in want.patterns})

Searches == allowed # {} /\ ~(Has("maxCount") /\ num.maxCount = 0)

Search ==
  /\ pc = "search"
  /\ ~(Has("json") /\ on \cap SummaryModes # {})
  /\ missed' \in IF Searches /\ FirstHit THEN Misses ELSE {{}}
  /\ byfile' = [f \in DOMAIN world.files |-> IF Searches /\ f \in allowed THEN Merged(f, missed') ELSE <<>>]
  /\ fid' = 1
  /\ pc' = "file"
  /\ UNCHANGED <<parsing, want, world, allowed, writing, tally, any, status>>

\* --json does not go with a summary mode.
RefuseJson ==
  /\ pc = "search" /\ Has("json") /\ on \cap SummaryModes # {}
  /\ Return(2) /\ UNCHANGED chosen

-----------------------------------------------------------------------------
(* Writing what was found in one file.                                     *)

LinesNow == Lines(Text(fid))
Matches  == byfile[fid]

\* The notice, the matches that count and the lines that are selected.
Begin ==
  /\ pc = "file" /\ fid \in DOMAIN world.files /\ fid \in allowed
  /\ notice' = Notice(fid)
  /\ byfile' = [byfile EXCEPT ![fid] = Kept(fid)]
  /\ selected' = Choose(LinesNow, Kept(fid))
  /\ pc' = "mode"
  /\ UNCHANGED <<parsing, want, world, allowed, missed, fid, emit, line, skip, printed, seps, prev, copied, replaced, tally, any, status>>

NextFile ==
  /\ pc' = "file" /\ fid' = fid + 1
  /\ UNCHANGED <<parsing, chosen, writing, status>>

\* A file that may not be searched is passed over.
PassFile ==
  /\ pc = "file" /\ fid \in DOMAIN world.files /\ fid \notin allowed
  /\ UNCHANGED <<any, tally>> /\ NextFile

Hit == selected # {}

\* Matches that begin in a line that is selected.
Counted == {i \in DOMAIN Matches : LineFor(LinesNow, Matches[i].s) \in selected}

Lists == Has("filesWith") \/ Has("filesWithout")
Emits == IF Has("filesWith") THEN Hit ELSE ~Hit

ListFile ==
  /\ pc = "mode" /\ Lists /\ ~(Emits /\ Has("quiet"))
  /\ any' = (any \/ Emits)
  /\ UNCHANGED tally /\ NextFile

QuietFound ==
  /\ pc = "mode" /\ Has("quiet")
  /\ IF Lists THEN Emits ELSE Hit
  /\ Return(0) /\ UNCHANGED chosen

Goes == pc = "mode" /\ ~Lists /\ ~(Has("quiet") /\ Hit)

Counts == Has("count") \/ Has("countMatches")

\* count_matches takes every match unless the lines are limited.
CountOf ==
  IF Has("countMatches") /\ ~Has("invert")
  THEN IF Has("maxCount") THEN Cardinality(Counted) ELSE Len(Matches)
  ELSE Cardinality(selected)

CountFile ==
  /\ Goes /\ Counts
  /\ any' = (any \/ CountOf > 0)
  /\ tally' = [tally EXCEPT !.matches = @ + CountOf]
  /\ NextFile

\* Nothing is selected and nothing else is to be written.
Barren == ~Hit /\ ~Has("passthru") /\ num.after = 0 /\ num.before = 0 /\ ~Has("json")

PassOver ==
  /\ Goes /\ ~Counts /\ Barren
  /\ any' = (any \/ (notice /\ Suppress(fid)))
  /\ UNCHANGED tally /\ NextFile

JsonFile ==
  /\ Goes /\ ~Counts /\ Has("json")
  /\ any' = (any \/ Hit)
  /\ tally' = [lines |-> tally.lines + Cardinality(selected),
               matches |-> tally.matches + Cardinality(IF Has("invert") THEN selected ELSE Counted)]
  /\ NextFile

\* --only-matching and --vimgrep write a line for every match.
EachMatch ==
  /\ Goes /\ ~Counts /\ ~Barren /\ ~Has("json")
  /\ Has("onlyMatching") \/ Has("vimgrep")
  /\ any' = (any \/ (Hit /\ Has("onlyMatching")) \/ (~Has("invert") /\ Counted # {}))
  /\ tally' = [tally EXCEPT !.matches = @ + IF Has("invert") THEN 0 ELSE Cardinality(Counted)]
  /\ NextFile

-----------------------------------------------------------------------------
(* Writing lines with their context.                                       *)

\* A bug to compare with: the line after the context is written too.
WindowLong(k) == {j \in DOMAIN LinesNow : k <= j + num.before /\ j <= k + num.after + 1}

Window(k) == {j \in DOMAIN LinesNow : k <= j + num.before /\ j <= k + num.after}

StartLines ==
  /\ Goes /\ ~Counts /\ ~Barren /\ ~Has("json") /\ ~Has("onlyMatching") /\ ~Has("vimgrep")
  /\ emit' = IF Has("passthru") THEN DOMAIN LinesNow ELSE UNION {Window(k) : k \in selected}
  /\ line' = 1 /\ skip' = 0
  /\ printed' = {} /\ seps' = {} /\ prev' = 0 /\ copied' = <<>> /\ replaced' = <<>>
  /\ pc' = "lines"
  /\ UNCHANGED <<parsing, chosen, fid, selected, notice, tally, any, status>>

Bytes(a, b) == [i \in 1..b - a |-> a + i - 1]

\* A bug to compare with: after a match over several lines the rest of its
\* last line is left to the line itself, which is never written.
ReplaceLineOnly(lines, ms, k) ==
  LET end == lines[k].e
      step(st, m) ==
        IF st.done \/ m.e < st.cursor THEN st
        ELSE IF m.s >= end THEN [st EXCEPT !.done = TRUE]
        ELSE [st EXCEPT !.cursor = Greater(@, m.e), !.done = Greater(st.cursor, m.e) >= end,
                        !.copied = IF m.s < st.cursor THEN @ ELSE @ \o Bytes(st.cursor, m.s),
                        !.marks = IF m.s < st.cursor THEN @ ELSE Append(@, m)]
      last == FoldLeft(step, [cursor |-> lines[k].b, copied |-> <<>>, marks |-> <<>>, done |-> FALSE], ms)
  IN [last EXCEPT !.copied = @ \o IF last.cursor < end THEN Bytes(last.cursor, end) ELSE <<>>]

\* replace_line, one match: it is passed over when it begins behind the line
\* or before the cursor; else the bytes before it stay and it is replaced.  If
\* it ends in a later line it takes the rest of that line along.
ReplaceStep(lines, k, st, m) ==
  LET end == lines[k].e
      cursor == IF m.e > end THEN lines[LastLine(lines, m)].e ELSE m.e
  IN IF st.done \/ m.e < st.cursor THEN st
     ELSE IF m.s >= end THEN [st EXCEPT !.done = TRUE]
     ELSE IF m.s < st.cursor
          THEN [st EXCEPT !.cursor = Greater(@, m.e), !.done = Greater(st.cursor, m.e) >= end]
     ELSE [cursor |-> cursor, marks |-> Append(st.marks, m), done |-> cursor >= end,
           copied |-> st.copied \o Bytes(st.cursor, m.s) \o Bytes(m.e, cursor)]

\* The bytes of line k that stay and the matches replaced in it.
ReplaceLine(lines, ms, k) ==
  LET end == lines[k].e
      last == FoldLeft(LAMBDA st, m : ReplaceStep(lines, k, st, m),
                       [cursor |-> lines[k].b, copied |-> <<>>, marks |-> <<>>, done |-> FALSE], ms)
  IN [last EXCEPT !.copied = @ \o IF last.cursor < end THEN Bytes(last.cursor, end) ELSE <<>>]

Replaces(k) == k \in selected /\ Has("replace") /\ ~Has("invert")

\* The last line that a match beginning in line k reaches.
Reach(k) ==
  LET onward == {i \in DOMAIN Matches : Matches[i].s \in LinesNow[k].b..LinesNow[k].e - 1 /\ Matches[i].e > LinesNow[k].e}
  IN IF onward = {} THEN 0 ELSE Max({LastLine(LinesNow, Matches[i]) : i \in onward})

Separated(k) ==
  /\ ~Has("passthru") /\ num.after + num.before > 0 /\ ~Has("noContextSeparator")
  /\ prev # 0 /\ k > prev + 1

PrintLine ==
  /\ pc = "lines" /\ line \in DOMAIN LinesNow /\ line > skip /\ line \in emit
  /\ seps' = IF Separated(line) THEN seps \cup {line} ELSE seps
  /\ printed' = printed \cup {line} /\ prev' = line
  /\ LET kept == [copied |-> Bytes(LinesNow[line].b, LinesNow[line].e), marks |-> <<>>]
         new == IF Replaces(line) THEN ReplaceLine(LinesNow, Matches, line) ELSE kept
     IN copied' = copied \o new.copied /\ replaced' = replaced \o new.marks
  /\ skip' = IF Replaces(line) THEN Greater(skip, Reach(line)) ELSE skip
  /\ tally' = [tally EXCEPT !.lines = @ + IF line \in selected THEN 1 ELSE 0]
  /\ any' = (any \/ line \in selected)
  /\ line' = line + 1
  /\ UNCHANGED <<pc, parsing, chosen, fid, selected, notice, emit, status>>

PassLine ==
  /\ pc = "lines" /\ line \in DOMAIN LinesNow /\ (line <= skip \/ line \notin emit)
  /\ line' = line + 1
  /\ UNCHANGED <<pc, parsing, chosen, fid, selected, notice, emit, skip, printed, seps, prev, copied, replaced, tally, any, status>>

EndLines ==
  /\ pc = "lines" /\ line \notin DOMAIN LinesNow
  /\ any' = (any \/ notice)
  /\ UNCHANGED tally /\ NextFile

Finish ==
  /\ pc = "file" /\ fid \notin DOMAIN world.files
  /\ Return(IF any THEN 0 ELSE 1) /\ UNCHANGED chosen

\* The lines selected in a file, and the matches that begin in them.
Picks(f) == Choose(Lines(Text(f)), byfile[f])
Begun(f)  == {i \in DOMAIN byfile[f] : LineFor(Lines(Text(f)), byfile[f][i].s) \in Picks(f)}

Total(count) == SumFunctionOnSet(count, allowed)

\* A bug to compare with: the matches of all lines are counted again.
RecountRaw ==
  [lines   |-> Total([f \in allowed |-> Cardinality(MatchedLines(Lines(Text(f)), byfile[f]))]),
   matches |-> Total([f \in allowed |-> Len(byfile[f])])]

\* --stats counts from the start: the lines selected and the matches in them.
Recount ==
  [lines   |-> Total([f \in allowed |-> Cardinality(Picks(f))]),
   matches |-> Total([f \in allowed |-> Cardinality(IF Has("invert") THEN Picks(f) ELSE Begun(f))])]

Next ==
  \/ ReadConfig \/ ReadFlag \/ EndOfFlags
  \/ Refuse \/ Open \/ ListAll \/ Search \/ RefuseJson
  \/ PassFile \/ Begin \/ ListFile \/ QuietFound \/ CountFile \/ PassOver \/ JsonFile \/ EachMatch
  \/ StartLines \/ PrintLine \/ PassLine \/ EndLines \/ Finish

Spec == Init /\ [][Next]_vars

-----------------------------------------------------------------------------
(* Properties.                                                             *)

\* The variables hold what they are meant to hold.
TypeOK ==
  /\ pc \in {"parse", "open", "list", "search", "file", "mode", "lines", "done"}
  /\ num \in Given
  /\ argv \in Seq(Flags) /\ pending \in Seq(Flags)
  /\ line \in Nat /\ fid \in Nat
  /\ notice \in BOOLEAN /\ any \in BOOLEAN /\ DOMAIN tally = {"lines", "matches"}
  /\ status \in {-1, 0, 1, 2} /\ (status # -1 <=> pc = "done")

\* Whatever flags are given in whatever order, two that exclude each other
\* are never both on; and once the arguments are read context and --passthru,
\* --only-matching and --count do not meet (parse_long, parse_short, parse).
OptionsInv ==
  /\ \A p \in Exclusive : \A x, y \in p : x \in on /\ y \in on => x = y
  /\ pc # "parse" =>
       /\ ~({"contextSeen", "passthru"} \subseteq on)
       /\ ~({"onlyMatching", "count"} \subseteq on)

Times(flags) == {i \in DOMAIN argv : argv[i].flag \in flags}

Latest(flags) == argv[Max(Times(flags))].n

\* -A and -B win over -C in any order and the last of a kind over the ones
\* before it; --passthru is in force when neither a context flag nor its
\* negation follows it (the setters of the context options in parse_long).
ContextAsAsked ==
  pc = "parse" =>
    /\ num.after = IF Times({"after"}) # {} THEN Latest({"after"})
                   ELSE IF Times({"context"}) # {} THEN Latest({"context"}) ELSE 0
    /\ num.before = IF Times({"before"}) # {} THEN Latest({"before"})
                    ELSE IF Times({"context"}) # {} THEN Latest({"context"}) ELSE 0
    /\ "passthru" \in Resolved(on) <=>
         \E i \in Times({"passthru"}) :
           \A j \in Times({"noPassthru", "after", "before", "context"}) : j < i

Weight(s) == CASE s.kind = "manual" -> 0 [] s.kind = "global" -> 1 [] s.kind = "exclude" -> 2
               [] OTHER -> 3 + 3 * Len(s.dir) + Rank[s.kind]

\* Of the rules that match a file the one of the nearest and highest-ranking
\* ignore file decides, and in one file the last (load_ignore, allowed_path).
NearestRuleWins ==
  pc \in {"list", "search"} =>
    LET live == Sources(on, world, Root(world, want.paths))
        speak(path) == {p \in UNION {{s} \X DOMAIN s.rules : s \in live} :
                          Below(p[1].dir, path) /\ RuleMatches(p[1].rules[p[2]], Local(p[1].dir, path))}
        yields(q, p) == Weight(q[1]) < Weight(p[1]) \/ (q[1] = p[1] /\ q[2] <= p[2])
    IN \A f \in DOMAIN world.files :
         LET path == world.files[f].path
         IN Ignored(live, path) <=>
              \E p \in speak(path) : ~p[1].rules[p[2]].neg /\ \A q \in speak(path) : yields(q, p)

Written == pc = "lines" /\ line \notin DOMAIN LinesNow

\* Without a replacement the lines written are exactly those within reach of
\* a selected one, and a separator stands exactly where two of them that
\* follow each other are not neighbours (the loop over the lines in main).
WindowsWhole ==
  Written /\ ~Has("replace") =>
    /\ printed = {k \in DOMAIN LinesNow : Has("passthru") \/
                    \E j \in selected : j <= k + num.before /\ k <= j + num.after}
    /\ seps = {k \in printed : ~Has("passthru") /\ ~Has("noContextSeparator") /\ num.after + num.before > 0
                 /\ k - 1 \notin printed /\ \E j \in printed : j < k}

Disjoint == \A i, j \in DOMAIN Matches : i < j => Matches[i].e <= Matches[j].s

Span(m) == m.s..m.e - 1

Ascends(seq, before(_, _)) == \A i, j \in DOMAIN seq : i < j => before(seq[i], seq[j])

\* With a replacement, and matches that do not overlap, every byte of the
\* lines shown that no match covers is written once and in order, also when a
\* match runs over several lines, and no match is replaced twice or both
\* replaced and written (replace_line and skip_until in main).
NoTextLost ==
  Written /\ Has("replace") /\ ~Has("invert") /\ Disjoint =>
    LET covered == UNION {FirstLine(LinesNow, m)..LastLine(LinesNow, m) : m \in Range(replaced)}
        shown == UNION {LinesNow[k].b..LinesNow[k].e - 1 : k \in printed \cup covered}
        matched == UNION {Span(m) : m \in Range(Matches)}
    IN /\ emit \subseteq printed \cup covered
       /\ Ascends(copied, <) /\ Ascends(replaced, SpanBefore)
       /\ Range(copied) \subseteq shown /\ shown \ matched \subseteq Range(copied)
       /\ \A m \in Range(replaced) : Span(m) \cap Range(copied) = {}

\* What a run that is not quiet would select in a file.
All(f) == InOrder(UNION {Range(FoundIn(p, f)) : p \in want.patterns})

Wanted(f) ==
  LET lines == Choose(Lines(Text(f)), Cut(f, All(f)))
  IN IF Has("filesWithout") THEN lines = {} ELSE lines # {}

\* A match in a file without lines, which no line shows.
Hollow(f) == Text(f) = <<>> /\ All(f) # <<>>

\* The exit status is 0 only when some file has what was asked for, and then
\* always in a run that is not quiet, and in a quiet one for literals; a quiet
\* run for an expression may end with 1 all the same, as its search gives up
\* after the first record it verifies.  With binary files, or a match in an
\* empty file, only "if" holds, and not for a quiet run, whose first match may
\* lie behind the NUL or in the empty file; a quiet --files-without-match,
\* which sees one match, and an inverted --vimgrep, which prints nothing, are
\* apart (the objective of the search, QuietFound and the last line of main).
StatusMeansFound ==
  pc = "done" /\ status \in {0, 1} /\ ~Has("files")
  /\ ~(Has("vimgrep") /\ Has("invert")) /\ ~(Has("quiet") /\ Has("filesWithout")) =>
    LET found == \E f \in allowed : Wanted(f)
        odd   == \E f \in allowed : (HasNul(f) /\ ~AsText) \/ Hollow(f)
        full  == ~Has("quiet") \/ Has("invert") \/ \A p \in want.patterns : Verified(p) = "literal"
    IN /\ ~odd /\ status = 0 => found
       /\ ~odd /\ full /\ found => status = 0
       /\ found /\ ~Has("quiet") => status = 0

\* --stats counts again what main has written: it agrees with the lines and
\* the matches written, and so does --count-matches unless
\* --stop-on-nonmatch without --max-count leaves matches uncounted, or a match
\* lies in an empty file.
TallyAgrees ==
  pc = "file" /\ fid \notin DOMAIN world.files /\ ~Has("quiet") =>
    /\ Has("json") \/ (on \cap (SummaryModes \cup {"onlyMatching", "vimgrep", "replace"}) = {})
         => tally.lines = Recount.lines
    /\ (Has("json") \/ Has("onlyMatching") \/ Has("vimgrep")) /\ on \cap SummaryModes = {} /\ ~Has("invert")
         => tally.matches = Recount.matches
    /\ Has("countMatches") /\ (Has("stopOnNonmatch") => Has("maxCount")) /\ ~(\E f \in allowed : Hollow(f))
         => tally.matches = Recount.matches
=============================================================================
