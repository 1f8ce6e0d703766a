# A verification development for pergrep

pergrep searches a tree of files for a literal or a regular expression through
an index: per chunk and per block a bitmap of hashed q-grams says where a match
may be, and an exact verifier decides. This directory holds TLA+ modules that
model the program, TLC configurations that check them on small instances, and
proofs, checked by TLAPS, of theorems that hold for every value of the constants.

Paths below are those of the repository: `src/` holds the C++ sources,
`include/pergrep/` the headers, `docs/` the documents. `PROJECT.json` gives the
lines every definition translates.

## 1. Inventory

| Component | State it keeps | Operations | What makes it correct |
|---|---|---|---|
| Snapshot file (`src/index.cpp` 802-1387) | the published file, temporaries `file.tmp.<pid>`, streams | `save`, `load`, `cleanup_orphans` | a load yields one generation that was published; a failure or a crash never replaces it by a part of one |
| Index life cycle (`src/index.cpp` 60-305, 383-740; `src/cli.cpp` 700-761) | infos, filters, bytes or providers, source identity | `build`, `fresh`, `source_identity`, `CorpusProvider::mapped`, load-or-rebuild | filters belong to the bytes; what is called fresh is fresh; the cache settles |
| Filters and fixed-literal search (`src/index.cpp` 300-380; `src/search.cpp` 400-680, 1990-2170) | chunk and block bitmaps, scan position, next free offset | whole-file, chunk and block operators | no false negative; every operator gives the same matches |
| Search driver (`src/search.cpp` 1750-2631) | results, bounds, cancellation, file under probe | `Searcher::find`, `Searcher::files` | the ordered prefix that was asked for, on every path |
| Regex engine (`src/regex.cpp`; `src/search.cpp` 128-380, 2179-2435) | compiled program, thread lists, best match, regions; for the extended matcher its alternatives | parse, compile, analyse, NFA, extended matcher (`eval`), `regex_find_all`, bounded regions | what is reported is what the pattern means, leftmost and by preference; no plan loses a match |
| Filter algebra (`src/regex.cpp` 960-1055) | filter expressions | `query_filter`, `simplified`, `matches` | what a filter demands is necessary for a match, simplified or not |
| Planner and gates (`src/search.cpp` 680-1662, 2440-2512; `bench/`) | cost models, plan keys, the report of a plan, regret statistics, levels of the gates | three cost estimates, the guarded dispatch, the report, regret, scenario and performance gates | the computations agree on what runs and what it costs; no release passes that a figure forbids |
| Segments (`src/index.cpp` 306-358, 464-604) | base, changed documents, tombstones, totals | `from_documents`, `append`, `compaction_stats`, `should_compact` | the merge is what the changes left; the accounting agrees with it |
| Rollout (`include/pergrep/rollout.hpp`) | rollout mode, features, telemetry | `record_query`, `promote_to_rollout`, the safety guard, `enforce_rollback` | what failed is switched off at the next guard, in any order of calls |
| Command line (`src/cli.cpp`) | options, configuration, rules in force, allowed files, matches by file, counters, exit status | parsing, ignore rules and path selection, the search loop, six output modes, `main` | options mean what was asked for; the nearest rule decides; the right lines are written; the status and the statistics agree with them |
| Tuned cache (`src/tuned_cache.cpp`) | identities | key, compatibility | no incompatible cache is used |
| Offline tuning (`src/autotune.cpp`, `src/pareto.cpp`, `src/platform_gate.cpp`) | measurements | selection | pure functions of measurements |
| Profiles and reports, C API, platform layer | none that outlives a call | formatting, wrappers, system calls | - |

How they interact. The command line loads the snapshot (which reaps
temporaries, checks the checksum and the source identity and attaches a
provider to every file), asks `fresh()`, and otherwise builds and saves; then it
calls `Searcher::find` for every pattern and file, or `files`, with `should_cancel`
as the only callback, merges the matches of the patterns and writes them file by file.
`find` asks the planner for an operator, runs a verifier over what the filters leave,
and reports the plan and what it observed; the benchmark turns such reports into
figures, the gates turn figures into levels, and a rollout controller is promoted and
polled by its caller.
Processes share nothing but the cache directory and the source tree, and take
no lock on either. A `Searcher` reads an immutable `Index`; nothing inside one
search runs concurrently with it except the answers of `should_cancel`.

What is hard here: the interleaving of unlocked file operations of several
processes with each other, with crashes and with edits of the tree; metadata
that is read at another moment than the bytes it vouches for; matches that reach
over the ends of chunks, blocks and regions; one driver that has to honour
four objectives, a bound and a cancellation on eight paths; a price computed in
three places that must agree; and flags that take each other back in any order,
before six ways of writing the same matches. `PROJECT.json`
lists these hazards one by one at their lines, with the property that covers
each, or why none does.

## 2. Plan

In the order in which they were written:

1. `SnapshotRegister`, `SnapshotFile`, `MCSnapshotFile`, `SnapshotFileProofs`:
   the snapshot file among processes, and the register it implements.
2. `SourceIndex`, `MCSourceIndex`, `SourceIndexProofs`: the index over a changing
   tree. It stands on the register of group 1: a save and a load of the cache
   are one step each.
3. `FixedScan`, `MCFixedScan`, `FixedScanProofs`: filters and the three operators
   for fixed literals, against a reference scan.
4. `SearchDriver`, `MCSearchDriver`, `SearchDriverProofs`: `find` and `files`
   around the verifiers.
5. `RegexTree`, `RegexVM`, `FilterAlgebra`, `RegexSearch`, `MCRegexSearch`,
   `RegexSearchProofs`: the NFA's compiler and search, the extended matcher, the query
   analysis with its filters, and the bounded regions, against what a pattern means.
6. `CommandOptions`, `PathRules`, `CommandLine`, `MCCommandLine`, `CommandLineProofs`:
   one run of the tool. It stands on group 4: what a search of one file reports is
   a constant.
7. `Segments`, `Planner`, `Operations`, `MCOperations`, `OperationsProofs`: an index in
   service. `Operations` composes the layout of an index, what the planner makes of
   it, the gates and the rollout controller.
8. `FoldProofs`: what the proofs of groups 6 and 7 need of ranks, folds, sums and of
   induction over numbers, finite sets and prefixes.

What remains to be done: the tuned cache's identity (section 6). That a program and a tree mean
the same stays with TLC (section 5).

## 3. The modules

### SnapshotRegister and SnapshotFile

`SnapshotRegister` says what the cache promises: a register that holds one
generation or nothing; a load returns a generation that the register held at
some moment of the load, or nothing; once it has been damaged from outside, the content may
disappear.

`SnapshotFile` is the code. Names stand for inodes and inodes hold cells: body
cells of a generation, holes, and a trailer that stands for the checksum of the
cells it was computed over (no collisions). Every call of `Index::save` that
touches the file system is an action: removing the stale temporary, opening it
with truncation, each write of the stream, the size, the hash over the path, the
append-open (which creates a file that is gone), the trailer, the rename, the
handler. So is every call of a load: listing and removing temporaries, the size,
and three streams opened one after the other on the published path. A step of a
save may throw (`SaveFail`), a read may fail (`LoadFail`), a process may die
(`Crash`), and a power cut may cut any suffix off a file, as nothing is synced.

A load may remove the temporary of a live save. `hurt` records that this happened
between the hash over a temporary and its append-open (`Beheads`), or that power was
lost; until then the published name always stands for a whole generation
(`WholeUntilHurt`), and afterwards for one or for something that no load accepts. In
`SnapshotRegister` the same history is `damaged`: only then may a content disappear.

Not modelled: the legacy branch for v5 and v6 snapshots, which has no checksum,
and the content of the sections beyond which generation a piece comes from.

### SourceIndex

A tree of files with content and timestamp, an editor that replaces and removes
files, and processes that run the program: load (identity, providers, `fresh`),
else build (walk, read, timestamp, filters, providers) and save (identity, rename),
then search. Walks and per-file reads and stats are steps of their own, so an
edit may fall between any two. Filters are represented by the bytes they were
computed from. Every behaviour has one setting `opts`, chosen from the constant
`Options`: `persist` is `persist_corpus`, `fine` says whether two edits may share a
timestamp, and others say whether processes may die or the cache may be lost.

One detail of the code matters. `mapped` compares the timestamp of the mapped
file (seconds since 1970) with a recorded one in the epoch of `file_clock`
(`src/index.cpp` 127-140); with libstdc++ the two never agree, and the plain read
of 159-169, which looks at the size only, is what supplies the bytes.
`MappedCopy` models that read.

Not modelled: directories, hidden and ignored files, symlinks, the limits on
sizes, and the wording of errors.

### FixedScan

One file, one non-empty case-sensitive literal. The filters of chunks and blocks
are sets of rows, with collisions given by `Row` and `PosRow`; `planned_hashes`
may pick any non-empty set of the literal's q-grams; the planner may pick any
operator that `fixed_guard_eligible` and the branches of `find` allow. The scan of a region, the
suppression of overlaps between regions and the options `word`, `line` and
`overlapping` are the code's. Case folding, CRLF records, the end bytes of
anchored literals and the empty literal (which
`docs/physical-operator-capabilities.md` calls unsupported) are left out.

### SearchDriver

`find` on eight paths (inverted, the three fixed operators, long literals, regex
by record, by bounded regions and by whole file) and `files` around it. A file is
a flag and the number of results of each of its units. A path determines where
`should_cancel` is asked and where the bound is tested; what the filters rule out
is a free choice among units without results. The statistics are left out.

### RegexTree, RegexVM, FilterAlgebra and RegexSearch

`RegexTree` holds the functions of the engine, over parsed patterns: the compiler
(`Build` and what it calls, instruction by instruction, with the exits that are
patched later), the analysis of a pattern (literals that every match contains,
prefixes, widths, offsets of literals), and the regions of a record
(`Regions`): from where in the record a match can begin, by one literal or by the join of all of them,
merged, and how far each region is read. `PlansOf` says what may be searched of a
record: its regions, the whole record, or nothing when an index lookup may pass it over.
An option `-w` wraps the pattern after it was analysed, as in `parse_regex`.

`RegexVM` is `eval`, which evaluates patterns with look-around or back-references:
the list of the states behind a node, the preferred one first, with the captures that each
carries. `FilterAlgebra` is the filter of a pattern and its simplification.

`RegexSearch` is the search: the loop over regions, `regex_find_all`, and `nfa_search`
with its two lists of threads. Every iteration is a step: the jump to a
prefix, the thread for a new start, each thread that `add_nfa_thread` takes off its
stack, the scan for a thread that has arrived, each thread that reads a character, and the
exchange of the lists. For an extended pattern each start is tried in one step (`Try`).
The module knows nothing of trees: `Program`, `Plans`, `Passes` and `EvalEnd` are
constants, which `MCRegexSearch` gives from `RegexTree` and `RegexVM`.

What a match should be is said apart from all this. `Ends` gives the ends of a pattern's
matches from one position, in the order in which a backtracking matcher
would try them (`Ways`). It shares with `eval` only the nodes without a choice.

Not modelled: reading pattern text, character classes, case folding (and the
separate loop for case-folded literals), the captures that are reported, characters of more than one byte (a `.` still
counts as up to four bytes in widths, which only makes regions larger), several
records in a source, multi-line and CRLF records, repetitions above the limits, the
limits of the extended matcher (8192 bytes of look-behind, 10000 rounds, 50000 states), and the precomputed closures of
`build_nfa_closures`, which list the same places in the same order as the
expansion that is modelled.

### CommandOptions, PathRules and CommandLine

`CommandOptions` says what each flag does to the switches that are on and the values
that are given, with the ones it takes back. `PathRules` is the choice of files: ignore
files of several kinds, one of a kind in a directory (the files of `--ignore-file`, read one after the
other, are a single source), their precedence (`Earlier`), by which a set of them is read from the
weakest on, negated, anchored and
directory-only rules, hidden names, globs, types and depths. `CommandLine` is one run:
each argument is a step (`ReadConfig`, `ReadFlag`), then the index is opened, files are
listed or searched pattern by pattern, the spans are merged, and every file is written in
its mode: a summary, JSON, single matches, or lines with their context, one step per
line. What `Searcher::find` reports is the constant `Found`: any sequence of spans, given the
pattern, the text and those switches that a search depends on (`SearchSwitches`). Files do not
change during a run. Both are the subject of other modules. A quiet run asks for the first
match of each pattern, and such a search for an expression ends after the first record, region or
file that it verifies, match or not (`src/search.cpp` 1856, 2316, 2403, 2427). The constant
`Verifier` says for each pattern whether it is a literal, or an expression that is searched by
regions, by records of the files the filters let through, or by records of every file; and
`missed` is the set of patterns whose search ended without a match although there is one. The
filters may let through any file beside those with a match (`BeginsIn`), so the search of an
expression may begin in any file up to the first that has one, and it hits only if the first record there has a match
(`OpensWith`). Where the regions of an expression begin is not modelled here: each such search
may hit or miss. Sequences that the code builds
in a loop, such as the lines of a file (`Lines`) and the merged spans (`InOrder`), are given
by rank: the k-th line is between two neighbouring ends.

Not modelled: positional words, the haystack on standard input, archives,
preprocessors and encodings, `--sort`, `--one-file-system`, `-e` after a positional
word, and how a line is written (colour, columns, trimming, truncation). `**` stands for directories in
a path (`Wild`); beside other characters of one name, where `wildcard_path_match` lets it cross a `/`, it has
no form.

### Segments, Planner and Operations

`Segments` is the index as the planner sees it: documents with their chunks and blocks,
`append` with tombstones, changed documents and the totals of a manifest, and
`should_compact` with its 64-bit threshold. `Planner` is the price of a plan, as it is
computed in three places: by plan key (`Cost`), by pattern (`PatternCost`) and in the list of
candidates (`Candidates`); then the guarded dispatch, the operator that runs, the report
and the regret. Costs are doubled so that they are whole, and are
fractions, as a scope scales them by a ratio. How many chunks the rarest row of a query
hits is any number up to all chunks where there are statistics on q-grams (`ready`). There are none of a corpus
over `PlannerCorpus` bytes or with more than `PlannerGrams` different q-grams (`StatsReady`); then
all chunks count as hit and no key is guarded. The share of the blocks and chunks that are hit is a floating-point
product rounded down, which may be one less than the whole number it stands for: `Slips` are the
ratios of which that is so, whichever they are. Other ratios are exact.

`Operations` interleaves what a service does with one index: append and compact, search
with or without an estimate, take the report, run a scenario of the benchmark and
evaluate the gates, and on the rollout controller record, promote, guard and roll back.
The caller is sequential and takes a report before it does anything else. `store`,
`fresh`, `levels` and `unpolled` are history variables: the documents the
changes left, the paths changed since the index was last built, the levels the gates gave, and
whether the guard has been asked since the telemetry last changed.

Not modelled: the hash of a plan key, the percentiles of regrets, and two documents of one
path given to `from_documents`, which would both be kept.

## 4. Runs

| Run | What it asks | Bounds |
|---|---|---|
| `snapshot_file` | Two processes save, one of them loads, with crashes and power cuts: type, the inductive invariant, loads return one published generation, renames publish their own, the published file is whole until power is lost or a save is beheaded, and the file refines the register | two generations of different layout (one and two cells), four inodes |
| `snapshot_reaped` (violation) | the published file is whole beside a process that loads | one saver, one loader |
| `source_shared` | Two processes and an editor on a source-backed cache: a run searches only contents of its own time, `fresh()` vouches for the bytes, and the cache settles. Or one process with `persist_corpus`, coarse timestamps, crashes and a lost cache: filters belong to the bytes. The inductive invariants `TimeInv` and `PackedInv` | one file, three contents of two sizes, two ticks of the clock |
| `source_torn` (violation) | filters belong to the bytes of a source-backed index too | one process, one file |
| `fixed_scan` | The three operators report the matches of a plain scan | texts up to 8 bytes over 2 letters, 6 literals, chunks of 3 + 3, blocks of 2 + 2, q-grams of 2 |
| `fixed_scan_word` (violation) | the same for whole words of any literal | literal `a-a` |
| `search_driver` | `find` and `files` return what was asked for, on every path and wherever a cancellation falls, and never look on without room; the inductive invariant | up to 3 files of up to 2 units, max 0 to 2 |
| `search_first_hit` (violation) | a first-hit search returns the first result | as above, no bound |
| `regex_search` | 25 patterns on every record, by every plan, overlapping or not: the lists of threads keep their order; every reported match is one of the whole record with the preferred end; starts are passed over only for a match behind one of their own or of an earlier start, and none by the extended matcher; nothing behind the last match is missed, neither by a plan nor by a filter; starts increase over all regions; the inductive invariant | records of up to 5 characters over 4 letters |
| `regex_leftmost` (violation) | an attempt of the NFA reports the leftmost match | records of up to 4 characters |
| `command_line` | Exclusive switches are never both on and context widths are those last asked for; a path is searched exactly when the nearest rule allows it; the lines written are those within reach of a selected one, with separators at the gaps; with a replacement no byte is lost or doubled; the status says whether something was found, but for quiet searches for an expression, which may give up; the statistics agree with what was written | up to 3 of 30 flags after either of 2 configuration files, 2 trees, 8 searches (for a literal, by records, by regions, in every file) |
| `operations` | The index holds what the changes left, with the totals and the threshold of a rebuild; the three prices, the dispatch, the report and the operator that ran agree; gates and controller expose nothing that a figure forbids | 2 paths, contents of 0, 40 and 200 bytes in chunks of 64 or 128, 2 appends, 2 queries to the controller, 4 operations; statistics of up to 200 bytes and 1 q-gram; thresholds scaled to 2 queries, 1 fallback, 50 and 25 per cent |

Why the bounds are enough. Two generations of different length tell apart every
mixture that a load could accept; four inodes are the published file, two
temporaries and one that is only held open, and with two processes no fifth is
ever in use. In `SourceIndex` files are independent but
for the identity and the path lists, and one file that comes, goes and changes
at the same size or another exercises every comparison; two ticks allow an edit
before and after each observation, and processes read each other's indexes. Eight bytes are three chunks, the last of
them short, of two blocks each, and the literals are shorter than, equal to and
longer than a q-gram, an overlap and a look-ahead. In `SearchDriver` bounds of 1
and 2 are met exactly, exceeded within a unit and not reached.

Eighteen patterns have alternatives, captures, assertions, greedy and lazy repetitions of bodies that
may be empty, several prefixes, one literal and several, joined and by an
anchor, literals that are required twice, a match that is replaced by a later start's and that by one
later still, and word boundaries at both ends of a region. Records of five characters hold
two matches of the bounded ones or one match at either end, with neighbouring and separate regions.
Seven extended ones refer back to what a look-ahead captured, to the last round
of a repetition and from a look-ahead to a look-behind, look behind over several widths, and
repeat bodies of several lengths and bodies that may be empty.

Three flags in a row are what a switch needs to be turned on, taken back and turned on again,
and the configuration file sets a value before each; every pair of output modes meets every
third flag. The trees have a rule of each kind against a rule of another from a nearer
or farther directory, a text with neighbouring and separate groups of lines, a match over two lines, a binary
file whose NUL lies before and one whose NUL lies behind the first match, and an empty file, in
which a pattern that is found at the beginning of every line has a match. In `Operations` contents are
empty, within one chunk and over several; two appends are the least that can undo one another; they
lead into and out of layouts without statistics, by either cap; and the queries differ from a plain one in one or two respects, each of which some guard looks at.

Deadlock is not checked for `FixedScan`, `SearchDriver` and `CommandLine`, which end with
their answer, and for `Operations`, whose operations are counted; the other systems never stop.

Fairness. `Settles` needs that a process which is running keeps running and that
the user starts it again: weak fairness of each process's steps. Nothing makes
the editor act, and time is bounded, so the tree is eventually left alone, which
is the premise of the property. No other property assumes fairness.

### What the violations show

- `snapshot_reaped`: `cleanup_orphans` removes temporaries of live saves. When that
  happens between the hash and the append-open, the trailer alone is renamed over
  the published snapshot, and the save succeeds. (Loads then reject the file and
  rebuild, which is what the passing runs show.)
- `source_torn`: an edit of the same size between reading a file and taking its
  timestamp, or before its provider copies it, leaves filters of the old bytes
  over the new ones, and nothing notices.
- `fixed_scan_word`: after an occurrence that `word` turns down the scan moves on by
  the whole literal; `a-a` in `aa-a-a` is missed.
- `search_first_hit`: regex paths under `FirstHit` end after the first record, region
  or file whether or not it matched. So `pergrep -q 'fo+' f` may end with 1, "no match", although
  a later line of `f` has one: the first line that is verified ends the search.
- `regex_leftmost`: `nfa_search` goes on adding threads for later starts when a match
  has been found and only a longer one from its start is still being tried; a later
  match then replaces it. `a(?:bc)?|b` on `abb` reports the last `b` instead of `a`. The match that is replaced
  may have begun before the one that is lost: `abc-|ab|b.*-|c` on `abcc-` finds `ab`, which gives up the
  thread of `bcc-`, and then the second `c` in its place. `Leftmost` in `regex_search` is
  what does hold, and `NothingPassed` (section 5) proves it of the program.

### Deviations without a run of their own

Two threads of one
process that save to the same file share a temporary, whose name has no counter,
although `docs/crash-safe-publication.md` gives it one; the theorems about the snapshot assume `OneSaver`. The regions of one
record are searched independently, so without `overlapping` a match of one region
may still overlap the first of the next: `a.{0,2}b` on `acab` gives 0..4 and 2..4, where a
search of the whole record gives the first only (`src/search.cpp` 2303-2323).

The extended matcher (`src/regex.cpp` 826) drops a round that consumes nothing also below
the minimum: `(?:a?){2}b(?!c)` does not find `b`. And it orders by the number of rounds,
whatever each consumes: `(?=a)(?:abc|a|b)*` on `abc` reports `ab`. The properties name both
exceptions (`EmptyRequired`, `EvenRounds`).

In the planner: a literal regular expression reports the operator of the guarded plan although
positional blocks were searched (`src/search.cpp` 2171-2176 against 1800-1815;
`docs/plan-regret-gates.md` 85 and `docs/physical-operator-capabilities.md` 63 describe the operator
that ran). The guarded dispatch returns before the charge for transformed input that the
list of candidates makes (1142-1158, 1388). A scope scales by chunks in one place and by files
in another (1187, 1384). Brute force is listed at the size of whole chunks and planned at the size of the
files. `estimateCost(Pattern)` leaves the operator at `WholeFile` where no
guard applies (1036-1057). The regret of a search is always 0, as one candidate alone is ever
observed. `PlansAgree` states what does agree.

In the gates: nothing sets `CanaryExperimental`, only tests call `record_query`, telemetry that was bad
before a promotion counts only at the next guard, `evaluate_scenario_gate` never warns, and
`should_compact` computes its threshold in floating point, which may be one less than the
rational one.

On the command line: on the second line of a match over two lines `--column` subtracts the line's
offset from the smaller one of the match, and the difference wraps (`src/cli.cpp` 1006; seen by
reading, columns are not modelled). A regular expression such as `^` matches in an empty file, which
has no lines (`src/search.cpp` 2412): with `--quiet` the first-hit search may stop there too, and the
run ends with 1 (`src/cli.cpp` 848-857), although a later file matches; `--count-matches`
counts that match and `--stats` does not (`src/cli.cpp` 417-427, 744-746). `StatusMeansFound` and
`TallyAgrees` name such files (`Hollow`); the first also has exceptions for `--quiet` with a NUL, for
`--quiet --files-without-match` and for an inverted `--vimgrep`, and of a quiet run for expressions
it says only that 0 is not returned without a match. The cache
that the tool keeps never holds the corpus, so the timestamp that `persist_corpus`
takes after the bytes (`src/index.cpp` 429) is met only by callers of the library.

## 5. Proofs

`SnapshotFileProofs`: under `OneSaver` (each process saves in one thread at a time,
as the command line does; otherwise two saves mix in one temporary), for
any number of processes, generations and inodes:

- `InvariantHolds`: `SnapshotInv` always holds. It is inductive by itself. Type
  correctness alone is not: that a rename publishes a whole generation or a shard
  (`FinalShape`) needs how far each save has come with its temporary (`SaveAt`), which
  needs that nobody else writes to that inode (`Exclusive`), which rests on names
  that differ between processes. `LoadAt` adds what a load may come across.
- `TypeCorrect`, `LoadsPublished` and `PublishesItsOwn` follow from it; the second
  is the step in which a load accepts what it parsed.
- `PublishedIsWhole`: until power is lost or a load beheads a save, the published name
  stands for a whole generation. `UnharmedHolds` is what makes this inductive: without either,
  a temporary that has been hashed keeps its cells until its trailer is appended.
- `ImplementsRegister`: the file is the register (`RegisterSpec`). One step of the code
  publishes, the rename, and it maps to the register's; a load maps to a load that
  returns at its last step what the register held at some moment of it; every other
  step of a save, a load, a death or a power cut changes nothing in the register or
  loses its content when it is `damaged`.

`FixedScanProofs`: for all texts, literals, filters, chunk and block sizes:

- `ScanInvariant`: `ScanInv` always holds. Its core is that every hit before the
  frontier of the search is reported or overlaps an earlier reported one. The
  lemmas `ChunkComplete` and `BlockComplete` say that the filters pass every chunk
  and block in which a hit begins, whatever q-grams are selected and whatever
  rows collide; `RegionComplete` that the scan of a region sees all hits that
  begin in its core.
- `TypeCorrect`, and `FindsReference`: every operator ends with the matches of the
  reference scan.

`SourceIndexProofs`: for any number of processes and files, any edits at any
moment, deaths and losses of the cache:

- `SourceTypes`, `TypesHold`, `TimeInvariant` and `PackedInvariant`: `StateOK`, `TypeOK`,
  `TimeInv` and `PackedInv` always hold. All but `TypeOK` are
  proved together (`Inv`). `RunSeesItsTime` is not inductive: that a
  search holds only contents of its own time needs, for each place a run may be in,
  which files it has dealt with (`RunAt`), that a walk meets a file unless the file
  is missing at that moment, that a source-backed snapshot brings no bytes along,
  and that a provider which cannot be attached ends the load.
- `SeesItsTime`: hence `RunSeesItsTime`, however old the cached index is and
  whichever process built it. Nothing is assumed of the file system's timestamps.
- `PackedFilters`: with `persist_corpus` filters belong to the bytes (`PackedFiltersOfBytes`).
  Without it that is false, as `source_torn` shows.
- `FreshVouches`: `FreshVouchesForBytes`. The bytes that a fresh index holds were read before
  `fresh` compared timestamps, so `IndexInv` says, for each place a run may be in, of which
  files it holds bytes, and of which of these the bytes are the file's as long as the file has the
  recorded timestamp (`Vouched`). An edit keeps this, as no two share a timestamp (`fine`) and
  no recorded one, in the cache or in a process, is ahead of the clock (`Past`).

`SearchDriverProofs`: for every corpus, scope, bound, path, objective and moment of
cancellation:

- `DriverInvariant`: `DriverInv` always holds. Its core, `SearchAt`, says that a search
  that goes on has listed exactly the results it has passed, in order, and has
  room for one more.
- `FindsPrefix` and `NeverFull`: hence `find` returns the ordered prefix that was asked
  for, and no verifier is called without room (where 0 would mean no limit).
- `TypesHold`, and `FilesSelected`: `files` lists the files that have, or lack, a result
  (`FilesAnswer`). `FilesInv` says that the list so far is the selected ones of the files
  that were probed; that their ranks make the list one in order is an induction over
  a finite set of files.

`RegexSearchProofs`: for every program, record and plan of regions, and any meaning of
the assertions:

- `RegexInvariant`: `SearchInv` always holds. That the lists are in order (`Priority`) is not
  inductive: a thread that reads is put behind the next list and must not be behind a
  thread that stays, so the next list, the stack and the rest of the current list are
  ordered among each other (`ListsInOrder`), as are the marks (`Marked`) that keep two threads
  from one place; `Stages` says when each list is in use. That starts rise
  (`Ordered`) needs the attempt between the last match and the end of its
  region (`Within`, `Behind`), and across regions that they follow one another.
- `TypeCorrect`, `PriorityHolds` and `OrderedHolds` follow from it. They use of a program that
  no instruction leads out of it, of a plan that its regions are not empty and
  ascend, and of the extended matcher that its matches lie in the record
  (`RegexAssumption`); TLC checks all three for what `Build`, `PlansOf` and `Eval` give.
- `ReportedAccepted`: what is reported is accepted by the program (`OutAccepted`). A run of a
  program is a path through its instructions and the record; `Reach` is the least set closed under
  its steps, so induction over a run is an instance of `ReachLeast`. The invariant `Sound` says that
  every thread is where a run from its start comes to.
- `NothingPassed`: an attempt passes over an accepted match only for one that began no later and
  ended before what is reported (`PassesNothing`). This is where the lists' economy must be paid
  for: a thread is dropped where another has been, threads behind a match are given up, and starts
  are jumped over. The invariant `NoneForgotten` says of every start that was added that each
  match of a run from it can still be come to by a thread of this start or an earlier one
  (`Covered`), or that an accepted match from it or before stands between it and all that is left
  (`Overtaken`). That a dropped thread is covered (`DroppedCarried`) needs `Explored`, a part of
  `SearchInv`: what a mark stands for leads only to marks, to the stack and to waiting threads,
  and by `MarksLead` no run gets past these. For the extended matcher `TriedInVain` is enough.
- `NothingMissed`: at the end every start of the plan's regions that has an accepted match is
  reported, inside a reported match, or given up as in `NothingPassed` (`NothingLeft`). `Progress`
  counts the regions that have been gone through; in the current one everything before the attempt
  is accounted for.

After a jump to a prefix the list's marks are those of an earlier position, as the code
does not clear them (`src/regex.cpp`, `nfa_search`). `Explored` holds nevertheless because nothing
that an attempt begins with is ever marked by another thread: `RegexAssumption` says (`EntryOK`) that
in a program with prefixes no instruction leads back to what the start leads to without a character.
The compiler emits a copy of its own for every required round of a repetition, and a pattern
that begins with an optional one has no prefixes; TLC checks the assumption for all patterns.
The theorems are about the program and the plan. That prefixes and plans leave out no match of the
tree, and that the program means what the tree means, is what `NoneMissed`, `Leftmost`
and `Preferred` check.

`CommandLineProofs`: for any flags, configurations, trees, texts and whatever `find` reports:

- `OptionsAgree`: exclusive switches are never both on, by one step per flag.
- `Types`: the type, and that a status is set exactly at the end.
- `PrintsWindows`: `WindowsWhole`. Lines are written one at a time, so the invariant says of the
  lines before the next one that those within reach are written and the others not,
  that the last one written is the greatest of them, and that a separator stands
  before those whose predecessor was not written.
- `ContextGiven`: `ContextAsAsked`. `ContextInv` says after each argument which one so far was
  the last about each side, and what stands since then for passing everything through.
- `StatusTells`: `StatusMeansFound`. `RunInv` ties the run to the searches: the matches kept of
  each file are those that were reported, cut to a maximum once the file has begun, and the
  lines selected are those in which these begin. `StatusInv` then says that something has been
  reported exactly when some file done with has what was asked. A quiet run stops each
  pattern at its first match. That status 0 tells the truth needs no more than that nothing is
  reported that was not found; that it is given where there is a match needs that a first-hit
  search finds one, which it does for literals: none of them is ever in `missed` (`Surely`,
  `FirstIsFound`). Both need that a match begins in some line of a file that has lines
  (`ChooseSome`), which is where an empty file is the exception.
- `TallyIsRight`: `TallyAgrees`. `TallyInv` says that the tally is the sum over the files done with,
  plus what was written of the current one.
- `TextKept`: `NoTextLost`. A line is rewritten by a fold over the matches, with a cursor, the bytes
  copied, the matches replaced and whether the line is done. `SoFar` says after each match that the bytes up
  to the cursor are copied, in order, unless a match covers them (`CopiedSo`, `KeptSo`), that the matches
  of the line so far are replaced, once each, and none of their bytes copied (`MarksSo`, `ApartSo`), and that
  no match of the line ahead begins before the cursor (`Ahead`);
  `ReplaceStep` keeps it, so `LineReplaced` holds of the line. A match over several lines takes the rest of the last
  with it: `TextInv` says that the lines written so far and those skipped behind such a
  match leave out nothing else.
- `NearestDecides`: `NearestRuleWins`. Sources are read in an order that `Earlier` leaves partly
  open; two of which neither comes first are in unrelated directories, and at most one of
  them says anything about a path (`EarlierEither`). So by induction over the set (`IgnoredIs`), the
  last source with a matching rule decides (`LastDecides`), in it the last rule (`VerdictIs`), whichever
  order is taken.

`OperationsProofs`: for any documents, options, queries, measurements and thresholds:

- `PlansAlwaysAgree`: `PlansAgree`, for every key, number of hits and layout, with and without
  statistics, whose figures are in `Figures` (whole blocks and chunks where there are bytes), as every layout's are
  (`FiguresType`).
- `AppendsKeep`: `AppendInv`, by `KeepInv`: the documents have distinct paths, they are the
  store's in its order, and the bytes of changed documents (`FreshBytes`) are no more than
  those counted as appended, as one document replaced twice is counted twice and held once.
  The totals are folds over documents; that they
  add up over a merge (`MergedIs`, `SortedIs`, `FreshGrows`) uses the lemmas of `FoldProofs`.
- `ReleasesAreSafe`: `ReleaseInv`, by `ReleaseIInv`: verdicts are a function of the levels that were
  computed (`VerdictsTell`), the guard has found few fallbacks in whatever it was last asked
  about (`FewSeen`), and the search's report agrees with its plan (`PlanInv`), as a regret enters
  the figures of a scenario.

`FoldProofs` holds the lemmas on which the last two stand. The library's induction theorems take
an operator and cannot be used, so induction is done in first order: a set of numbers that is not
empty has a least one (`FromZero`, `Upwards`), hence what holds of the empty set and survives one
more element holds of a finite set (`FromEmpty`). That the function behind a fold exists, and what
it gives for one element more, is proved the same way.

Every other constant's assumption (`SnapshotAssumption`, `ScanAssumption`, `SourceAssumption`,
`DriverAssumption`, `SegmentsAssumption`, `OperationsAssumption`, `CommandAssumption`,
`FoundAssumption`, `VerifierAssumption`) says what the constant is, and nothing more. `CommandAssumption` also
says that there is no second ignore file of a kind in a directory, as there is no second file of
its name.

Only model-checked:

- the liveness property `Settles` (liveness under fairness is out of the prover's reach);
- `Preferred`, `Leftmost` and `NoneMissed`, which compare with `Ends`: it recurses over
  trees, as do the compiler, the analysis, the filters and the extended matcher. What they say
  of the search apart from the tree is proved.

## 6. Not modelled

- The parser of pattern text, character classes, case folding and characters of several
  bytes: a pattern enters as its tree.
- The tuned cache: a key that hashes the fields of an identity, and a comparison of them. The
  comparison leaves out fields that the key has (`src/tuned_cache.cpp` 99: the budget and the
  source root), and the key mixes adjacent strings without a separator (56). Both are seen by reading; there is
  no state or order to explore, and no search consults the cache.
- Offline tuning, profiles and the layout of reports: arithmetic and wording over measurements
  of single calls.
- The C API, which turns exceptions into codes, and the platform layer (permissions, reparse
  points, archives, preprocessors), which is operating-system I/O.
- Of the planner, the hash of a plan key and the percentiles of regrets; of the command line
  and the engine, what section 3 lists.
