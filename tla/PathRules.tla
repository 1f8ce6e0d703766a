----------------------------- MODULE PathRules -----------------------------
(***************************************************************************)
(* Which of the indexed files a search may look at: resolve_paths,         *)
(* load_ignore, gitignore_rule_match and allowed_path of src/src/cli.cpp.  *)
(*                                                                         *)
(* A path is the sequence of its components from the root of the file      *)
(* system.  A pattern is a sequence of components too: "**", or the set of *)
(* names its wildcards match.  Names whose first byte is a dot are hidden. *)
(***************************************************************************)
EXTENDS Naturals, SequencesExt, FiniteSetsExt

Below(dir, path) == Len(dir) < Len(path) /\ SubSeq(path, 1, Len(dir)) = dir

Local(dir, path) == SubSeq(path, Len(dir) + 1, Len(path))

\* wildcard_path_match: a name never reaches over a separator; "**/" stands
\* for any number of directories, a last "**" for whatever follows.  A "**"
\* beside other characters of a name, which reaches over separators, has no
\* form here.
Wild(pat, path) ==
  LET at[i \in 1..Len(pat) + 1, j \in 1..Len(path) + 1] ==
        IF i > Len(pat) THEN j > Len(path)
        ELSE IF pat[i] # {"**"} THEN j <= Len(path) /\ path[j] \in pat[i] /\ at[i + 1, j + 1]
        ELSE IF i = Len(pat) THEN j <= Len(path) \/ i = 1
        ELSE \E k \in j..Len(path) + 1 : at[i + 1, k]
  IN at[1, 1]

\* gitignore_rule_match.  Without an anchor or a separator a rule is held
\* against every component; a rule for directories only against the
\* directories above the file.
RuleMatches(rule, local) ==
  LET fits(path) == IF rule.anchored \/ Len(rule.pat) > 1 THEN Wild(rule.pat, path)
                    ELSE Wild(rule.pat, <<Last(path)>>)
  IN IF rule.dirOnly THEN \E n \in 1..Len(local) - 1 : fits(SubSeq(local, 1, n))
     ELSE IF rule.anchored \/ Len(rule.pat) > 1 THEN Wild(rule.pat, local)
     ELSE \E n \in DOMAIN local : Wild(rule.pat, <<local[n]>>)

\* A glob is held against the path from the root of the search, then against the name.
GlobMatches(pat, local) == Wild(pat, local) \/ Wild(pat, <<Last(local)>>)

-----------------------------------------------------------------------------
(* Ignore files: [dir, kind, rules].  A rule applies below its directory.  *)

Kinds == {"manual", "global", "exclude", "gitignore", "ignore", "rgignore"}

Discovered == {"gitignore", "ignore", "rgignore"}

RuleSet == [pat : Seq(SUBSET STRING), neg : BOOLEAN, anchored : BOOLEAN, dirOnly : BOOLEAN]

IgnoreFile(s) == s \in [dir : Seq(STRING), kind : Kinds, rules : Seq(RuleSet)]

Rank == [gitignore |-> 0, ignore |-> 1, rgignore |-> 2]

\* Git's own ignore files count in a repository or on request.
Vcs(on, git) == git \/ "noRequireGit" \in on

InForce(on, source, root, git) ==
  /\ "noIgnore" \notin on
  /\ CASE source.kind = "manual"  -> "noIgnoreFiles" \notin on
       [] source.kind = "global"  -> "noIgnoreGlobal" \notin on /\ Vcs(on, git)
       [] source.kind = "exclude" -> "noIgnoreExclude" \notin on /\ git
       [] OTHER ->
            /\ IF source.kind = "gitignore" THEN "noIgnoreVcs" \notin on /\ Vcs(on, git)
               ELSE "noIgnoreDot" \notin on
            /\ \/ source.dir = root \/ Below(root, source.dir)
               \/ Below(source.dir, root) /\ "noIgnoreParent" \notin on

\* A bug to compare with: the order of the names alone.
EarlierByName(a, b) == a.kind \in Discovered /\ b.kind \in Discovered /\ Rank[a.kind] < Rank[b.kind]

\* Those found in the tree come last: nearer ones after farther ones, and in
\* one directory by name.
Earlier(a, b) ==
  LET class(s) == CASE s.kind = "manual" -> 0 [] s.kind = "global" -> 1 [] s.kind = "exclude" -> 2 [] OTHER -> 3
  IN IF class(a) # 3 \/ class(b) # 3 THEN class(a) < class(b)
     ELSE IF Len(a.dir) # Len(b.dir) THEN Len(a.dir) < Len(b.dir)
     ELSE a.dir = b.dir /\ Rank[a.kind] < Rank[b.kind]

\* load_ignore: the sources whose rules are read.  The files of --ignore-file,
\* one after the other, are one source; its rules and the global ones count
\* from the root of the search.
Sources(on, world, root) ==
  {IF s.kind \in {"manual", "global"} THEN [s EXCEPT !.dir = root] ELSE s :
     s \in {s \in world.ignores : InForce(on, s, root, world.git)}}

\* A source that none comes after.
LastOf(sources) == CHOOSE s \in sources : \A t \in sources : ~Earlier(s, t)

\* allowed_path: every rule that matches overrules those read before it.
Verdict(s, path, verdict) ==
  FoldLeft(LAMBDA v, r : IF Below(s.dir, path) /\ RuleMatches(r, Local(s.dir, path)) THEN ~r.neg ELSE v, verdict, s.rules)

Ignored(sources, path) ==
  MapThenFoldSet(LAMBDA s, v : Verdict(s, path, v), FALSE, LAMBDA s : s, LastOf, sources)

-----------------------------------------------------------------------------
(* Paths on the command line.                                              *)

IsFile(world, path) == path \in {world.files[f].path : f \in DOMAIN world.files}

Exists(world, path) == IsFile(world, path) \/ \E f \in DOMAIN world.files : Below(path, world.files[f].path)

Base(world, path) == IF IsFile(world, path) THEN Front(path) ELSE path

\* resolve_paths: the deepest directory above all of them.
Root(world, paths) == LongestCommonPrefix({Base(world, p) : p \in paths})

Names(world, selector, path) == path = selector \/ (~IsFile(world, selector) /\ Below(selector, path))

\* The negative globs exclude; if there is a positive one, one must match.
Globbed(globs, local) ==
  /\ \A g \in globs : g.neg => ~GlobMatches(g.pat, local)
  /\ (\E g \in globs : ~g.neg) => \E g \in globs : ~g.neg /\ GlobMatches(g.pat, local)

\* "all" is every type there is.
OfType(types, t, local) ==
  \E k \in DOMAIN types : t \in {"all", k} /\ \E pat \in types[k] : GlobMatches(pat, local)

\* A file named on the command line passes every test but the one on its size.
Allowed(on, num, want, world, paths, f) ==
  LET path == world.files[f].path
      root == Root(world, paths)
      local == Local(root, path)
      above == {p \in paths : ~IsFile(world, p) /\ Names(world, p, path)}
  IN /\ \E p \in paths : Names(world, p, path)
     /\ num.maxFilesize = 0 \/ world.files[f].size <= num.maxFilesize
     /\ \/ path \in paths
        \/ /\ "maxDepth" \in on => \E p \in above : Len(path) - Len(p) <= num.maxDepth
           /\ "hidden" \notin on => \A n \in DOMAIN local : local[n] \notin world.dotted
           /\ ~Ignored(Sources(on, world, root), path)
           /\ Globbed(want.globs, local)
           /\ want.types = {} \/ \E t \in want.types : OfType(world.types, t, local)
           /\ \A t \in want.typeNot : ~OfType(world.types, t, local)
=============================================================================
