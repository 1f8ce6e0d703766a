---------------------------- MODULE SourceIndex ----------------------------
(***************************************************************************)
(* A source tree that is edited while pergrep processes index it, cache    *)
(* the index, load it back, check that it is fresh and search it:          *)
(* Index::build, Index::fresh, source_identity, CorpusProvider::mapped and *)
(* the source checks of Index::load_impl of src/src/index.cpp, in the      *)
(* order in which src/src/cli.cpp calls them.                              *)
(*                                                                         *)
(* An edit replaces the content of a file in one step and stamps it with   *)
(* the clock.  The cache file is the register of SnapshotRegister: a save  *)
(* replaces it in one step, a load reads it in one step.  Filters are      *)
(* represented by the bytes they were computed from; a file whose filters  *)
(* were computed from other bytes than the ones that are searched is a     *)
(* file in which matches may be missed.                                    *)
(***************************************************************************)
EXTENDS Naturals

CONSTANTS
  Procs,       \* the processes that search the tree
  NFiles,      \* how many paths there are, numbered in path order
  Contents,    \* what a file may contain
  Size,        \* the size of each content
  None,        \* no file, no content, no cache
  MaxTime,     \* bounds the clock, and so the edits
  Options      \* the settings a behaviour may have from its beginning to its end

Settings ==
  [persist : BOOLEAN,        \* IndexOptions::persist_corpus
   fine    : BOOLEAN,        \* does every edit get a timestamp of its own?
   faults  : BOOLEAN,        \* may processes die and the cache lose its content?
   runs    : SUBSET Procs,   \* the processes that are ever started
   cached  : SUBSET Procs]   \* the processes that do not run with --follow

ASSUME SourceAssumption ==
  /\ NFiles \in Nat \ {0} /\ MaxTime \in Nat \ {0}
  /\ None \notin Contents /\ None \notin [s : Nat, m : Nat]   \* nor an entry of an index
  /\ Size \in [Contents -> Nat \ {0}]
  /\ Options \subseteq Settings

Files == 1..NFiles

VARIABLES
  tree,    \* content and mtime of each file, or None
  now,     \* the clock of the file system
  cache,   \* the published index, or None
  pc,      \* where each process is
  built,   \* is its index one that it built itself?
  todo,    \* the files left in its current pass
  seen,    \* what its current walk of the tree has found
  idx,     \* its index
  lived,   \* history: the contents of each file since its run began
  opts     \* the settings

vars == <<tree, now, cache, pc, built, todo, seen, idx, lived, opts>>

Persist    == opts.persist
Fine       == opts.fine
Faults     == opts.faults
CacheUsers == opts.cached

-----------------------------------------------------------------------------
(* An index: per file the recorded size and mtime, the bytes the filters   *)
(* were computed from and the bytes that are searched; and the identity of *)
(* the tree recorded in the manifest.                                      *)

Empty ==
  [info  |-> [f \in Files |-> None],
   filt  |-> [f \in Files |-> None],
   bytes |-> [f \in Files |-> None],
   ident |-> {}]

Listed(i) == {f \in Files : i.info[f] # None}

SizeNow(f)  == Size[tree[f].c]
MtimeNow(f) == IF tree[f] = None THEN 0 ELSE tree[f].m   \* 0: no such file

First(fs) == CHOOSE f \in fs : \A g \in fs : f <= g

Init ==
  /\ tree \in [Files -> [c : Contents, m : {1}] \union {None}]
  /\ now = 1
  /\ cache = None
  /\ pc = [p \in Procs |-> "idle"]
  /\ built = [p \in Procs |-> FALSE]
  /\ todo = [p \in Procs |-> {}]
  /\ seen = [p \in Procs |-> {}]
  /\ idx = [p \in Procs |-> Empty]
  /\ lived = [p \in Procs |-> [f \in Files |-> {}]]
  /\ opts \in Options

Go(p, to)   == pc' = [pc EXCEPT ![p] = to]
Pass(p, fs) == todo' = [todo EXCEPT ![p] = fs]
Done(p, f)  == Pass(p, todo[p] \ {f})
Forget(p)   == seen' = [seen EXCEPT ![p] = {}]

-----------------------------------------------------------------------------
(* The editor.                                                             *)

\* The tree and what the runs under way have seen of it.
Edit(f, now_f) ==
  /\ tree' = [tree EXCEPT ![f] = now_f]
  /\ lived' = [p \in Procs |->
       IF pc[p] = "idle" THEN lived[p]
       ELSE [lived[p] EXCEPT ![f] = @ \union
              {IF now_f = None THEN None ELSE now_f.c}]]
  /\ UNCHANGED <<cache, pc, built, todo, seen, idx>>

Write(f, c) ==
  /\ now' \in (IF Fine THEN {} ELSE {now}) \union {now + 1}
  /\ now' <= MaxTime
  /\ Edit(f, [c |-> c, m |-> now'])

Remove(f) ==
  /\ tree[f] # None
  /\ Edit(f, None)
  /\ UNCHANGED now

-----------------------------------------------------------------------------
(* A walk of the tree lists a directory in no particular order.            *)

Visit(p, f, found) ==
  /\ f \in todo[p]
  /\ Done(p, f)
  /\ seen' = [seen EXCEPT ![p] = @ \union (IF tree[f] = None THEN {} ELSE {found})]
  /\ UNCHANGED <<tree, now, cache, pc, built, idx, lived>>

StartWalk(p, at) ==
  /\ Go(p, at)
  /\ Pass(p, Files)
  /\ Forget(p)

\* Index::build and Index::fresh list the regular files.
WalkPaths(p, f) == pc[p] \in {"walk", "list"} /\ Visit(p, f, f)

\* source_identity records path, size and mtime; the two stats of a file are
\* taken together.
WalkIdentity(p, f) ==
  /\ pc[p] \in {"check", "ident"}
  /\ Visit(p, f, [path |-> f, size |-> SizeNow(f), mtime |-> tree[f].m])

-----------------------------------------------------------------------------
(* Index::build.                                                           *)

Rebuild(p) ==
  /\ StartWalk(p, "walk")
  /\ built' = [built EXCEPT ![p] = TRUE]
  /\ idx' = [idx EXCEPT ![p] = Empty]

BuildWalked(p) ==
  /\ pc[p] = "walk" /\ todo[p] = {}
  /\ Go(p, "read")
  /\ Pass(p, seen[p])
  /\ Forget(p)
  /\ UNCHANGED <<tree, now, cache, built, idx, lived>>

\* A bug to compare with: a file that cannot be opened is indexed as well.
ReadUnopened(p) ==
  LET f == First(todo[p])
  IN /\ pc[p] = "read" /\ todo[p] # {}
     /\ Go(p, "stat")
     /\ idx' = [idx EXCEPT
          ![p].info[f] = [s |-> IF tree[f] = None THEN 0 ELSE SizeNow(f), m |-> 0],
          ![p].bytes[f] = IF tree[f] = None THEN None ELSE tree[f].c]
     /\ UNCHANGED <<tree, now, cache, built, todo, seen, lived>>

\* The content is read first; a file that cannot be opened is skipped.
BuildRead(p) ==
  LET f == First(todo[p])
  IN /\ pc[p] = "read" /\ todo[p] # {}
     /\ IF tree[f] = None
          THEN Done(p, f) /\ UNCHANGED <<pc, idx>>
          ELSE /\ Go(p, "stat")
               /\ idx' = [idx EXCEPT ![p].info[f] = [s |-> SizeNow(f), m |-> 0],
                                     ![p].bytes[f] = tree[f].c]
               /\ UNCHANGED todo
     /\ UNCHANGED <<tree, now, cache, built, seen, lived>>

\* Only then is the timestamp taken.
BuildStat(p) ==
  LET f == First(todo[p])
  IN /\ pc[p] = "stat"
     /\ Go(p, "read")
     /\ Done(p, f)
     /\ idx' = [idx EXCEPT ![p].info[f].m = MtimeNow(f)]
     /\ UNCHANGED <<tree, now, cache, built, seen, lived>>

\* The index is complete: it is saved, unless the run goes without a cache.
Finish(p) ==
  IF p \in CacheUsers
    THEN StartWalk(p, "ident")
    ELSE Go(p, "search") /\ UNCHANGED <<todo, seen>>

\* A bug to compare with: providers are attached whatever the options say.
BuildFiltersLive(p) ==
  /\ pc[p] = "read" /\ todo[p] = {}
  /\ idx' = [idx EXCEPT ![p].filt = idx[p].bytes]
  /\ Go(p, "size") /\ Pass(p, Listed(idx[p])) /\ UNCHANGED seen
  /\ UNCHANGED <<tree, now, cache, built, lived>>

\* The filters are computed from the bytes that were read.
BuildFilters(p) ==
  /\ pc[p] = "read" /\ todo[p] = {}
  /\ idx' = [idx EXCEPT ![p].filt = idx[p].bytes]
  /\ IF Persist
       THEN Finish(p)
       ELSE Go(p, "size") /\ Pass(p, Listed(idx[p])) /\ UNCHANGED seen
  /\ UNCHANGED <<tree, now, cache, built, lived>>

-----------------------------------------------------------------------------
(* CorpusProvider::mapped, for every file of the index in turn.            *)

\* A bug to compare with: a load goes on without the bytes of the file.
RefuseNever(p, f) == Go(p, "size") /\ Done(p, f) /\ UNCHANGED <<built, seen, idx>>

\* It throws: load gives up; build keeps the bytes it has read.
Refuse(p, f) ==
  IF built[p]
    THEN Go(p, "size") /\ Done(p, f) /\ UNCHANGED <<built, seen, idx>>
    ELSE Rebuild(p)

MappedSize(p) ==
  LET f == First(todo[p])
  IN /\ pc[p] = "size" /\ todo[p] # {}
     /\ IF tree[f] # None /\ SizeNow(f) = idx[p].info[f].s
          THEN Go(p, "mtime") /\ UNCHANGED <<todo, built, seen, idx>>
          ELSE Refuse(p, f)
     /\ UNCHANGED <<tree, now, cache, lived>>

\* A recorded mtime of 0 is not compared.
MappedMtime(p) ==
  LET f == First(todo[p])
      m == idx[p].info[f].m
  IN /\ pc[p] = "mtime"
     /\ IF m \in {0, MtimeNow(f)}
          THEN Go(p, "copy") /\ UNCHANGED <<todo, built, seen, idx>>
          ELSE Refuse(p, f)
     /\ UNCHANGED <<tree, now, cache, lived>>

\* The copy is taken from a file of the same size; when the checks around the
\* private mapping fail, a plain read of that many bytes replaces it.
MappedCopy(p) ==
  LET f == First(todo[p])
  IN /\ pc[p] = "copy"
     /\ IF tree[f] # None /\ SizeNow(f) = idx[p].info[f].s
          THEN /\ Go(p, "size")
               /\ Done(p, f)
               /\ idx' = [idx EXCEPT ![p].bytes[f] = tree[f].c]
               /\ UNCHANGED <<built, seen>>
          ELSE Refuse(p, f)
     /\ UNCHANGED <<tree, now, cache, lived>>

\* All providers are attached.
Attached(p) ==
  /\ pc[p] = "size" /\ todo[p] = {}
  /\ IF built[p] THEN Finish(p) ELSE StartWalk(p, "list")
  /\ UNCHANGED <<tree, now, cache, built, idx, lived>>

-----------------------------------------------------------------------------
(* Index::save.                                                            *)

\* A bug to compare with: the identity is never filled in.
SaveAnonymous(p) ==
  /\ pc[p] = "ident" /\ todo[p] = {}
  /\ cache' = [idx[p] EXCEPT !.bytes = IF Persist THEN @ ELSE Empty.bytes]
  /\ Go(p, "search")
  /\ Forget(p)
  /\ UNCHANGED <<tree, now, built, todo, idx, lived>>

\* The identity of the tree as it is by now goes into the manifest; the bytes
\* are written only when they are to be persisted.
Save(p) ==
  /\ pc[p] = "ident" /\ todo[p] = {}
  /\ cache' = [idx[p] EXCEPT !.ident = seen[p],
                             !.bytes = IF Persist THEN @ ELSE Empty.bytes]
  /\ Go(p, "search")
  /\ Forget(p)
  /\ UNCHANGED <<tree, now, built, todo, idx, lived>>

-----------------------------------------------------------------------------
(* One run of the program: load, check, else build and save; then search.  *)

Begin(p) ==
  /\ p \in opts.runs
  /\ pc[p] = "idle"
  /\ lived' = [lived EXCEPT ![p] =
       [f \in Files |-> {IF tree[f] = None THEN None ELSE tree[f].c}]]
  /\ IF p \in CacheUsers
       THEN Go(p, "load") /\ UNCHANGED <<built, todo, seen, idx>>
       ELSE Rebuild(p)
  /\ UNCHANGED <<tree, now, cache>>

\* Index::load: a packed index needs neither the identity nor the sources.
Load(p) ==
  /\ pc[p] = "load"
  /\ IF cache = None
       THEN Rebuild(p)
       ELSE /\ idx' = [idx EXCEPT ![p] = cache]
            /\ StartWalk(p, IF Persist THEN "list" ELSE "check")
            /\ UNCHANGED built
  /\ UNCHANGED <<tree, now, cache, lived>>

LoadChecked(p) ==
  /\ pc[p] = "check" /\ todo[p] = {}
  /\ IF seen[p] = idx[p].ident
       THEN Go(p, "size") /\ Pass(p, Listed(idx[p])) /\ Forget(p) /\ UNCHANGED <<built, idx>>
       ELSE Rebuild(p)
  /\ UNCHANGED <<tree, now, cache, lived>>

\* Index::fresh: the same paths ...
\* A bug to compare with: only the recorded paths are looked for.
FreshPathsKnown(p) ==
  /\ pc[p] = "list" /\ todo[p] = {}
  /\ IF Listed(idx[p]) \subseteq seen[p]
       THEN Go(p, "fsize") /\ Pass(p, Listed(idx[p])) /\ Forget(p) /\ UNCHANGED <<built, idx>>
       ELSE Rebuild(p)
  /\ UNCHANGED <<tree, now, cache, lived>>

FreshPaths(p) ==
  /\ pc[p] = "list" /\ todo[p] = {}
  /\ IF seen[p] = Listed(idx[p])
       THEN Go(p, "fsize") /\ Pass(p, Listed(idx[p])) /\ Forget(p) /\ UNCHANGED <<built, idx>>
       ELSE Rebuild(p)
  /\ UNCHANGED <<tree, now, cache, lived>>

\* ... each of the same size ...
FreshSize(p) ==
  LET f == First(todo[p])
  IN /\ pc[p] = "fsize" /\ todo[p] # {}
     /\ IF tree[f] # None /\ SizeNow(f) = idx[p].info[f].s
          THEN Go(p, "fmtime") /\ UNCHANGED <<todo, built, seen, idx>>
          ELSE Rebuild(p)
     /\ UNCHANGED <<tree, now, cache, lived>>

\* A bug to compare with: the timestamp is not compared.
FreshSizeOnly(p) ==
  /\ pc[p] = "fmtime"
  /\ Go(p, "fsize") /\ Done(p, First(todo[p]))
  /\ UNCHANGED <<tree, now, cache, built, seen, idx, lived>>

\* ... and the same timestamp.
FreshMtime(p) ==
  LET f == First(todo[p])
  IN /\ pc[p] = "fmtime"
     /\ IF MtimeNow(f) = idx[p].info[f].m
          THEN Go(p, "fsize") /\ Done(p, f) /\ UNCHANGED <<built, seen, idx>>
          ELSE Rebuild(p)
     /\ UNCHANGED <<tree, now, cache, lived>>

Fresh(p) ==
  /\ pc[p] = "fsize" /\ todo[p] = {}
  /\ Go(p, "search")
  /\ UNCHANGED <<tree, now, cache, built, todo, seen, idx, lived>>

Leave(p) ==
  /\ Go(p, "idle")
  /\ built' = [built EXCEPT ![p] = FALSE]
  /\ Pass(p, {})
  /\ Forget(p)
  /\ idx' = [idx EXCEPT ![p] = Empty]
  /\ lived' = [lived EXCEPT ![p] = [f \in Files |-> {}]]
  /\ UNCHANGED <<tree, now, cache>>

\* The searches of the run, and its end.
Search(p) == pc[p] = "search" /\ Leave(p)

\* A process dies, or an exception ends it: a save that failed, for one.
Die(p) == Faults /\ pc[p] # "idle" /\ Leave(p)

\* See SnapshotRegister.
LoseCache ==
  /\ Faults
  /\ cache # None
  /\ cache' = None
  /\ UNCHANGED <<tree, now, pc, built, todo, seen, idx, lived>>

-----------------------------------------------------------------------------
Step(p) ==
  /\ \/ \E f \in Files : WalkPaths(p, f) \/ WalkIdentity(p, f)
     \/ BuildWalked(p) \/ BuildRead(p) \/ BuildStat(p) \/ BuildFilters(p)
     \/ MappedSize(p) \/ MappedMtime(p) \/ MappedCopy(p) \/ Attached(p)
     \/ Save(p)
     \/ Begin(p) \/ Load(p) \/ LoadChecked(p)
     \/ FreshPaths(p) \/ FreshSize(p) \/ FreshMtime(p) \/ Fresh(p)
     \/ Search(p)
  /\ UNCHANGED opts

Editor == \E f \in Files : Remove(f) \/ \E c \in Contents : Write(f, c)

Next ==
  \/ \E p \in Procs : Step(p)
  \/ UNCHANGED opts /\ ((\E p \in Procs : Die(p)) \/ LoseCache \/ Editor)

Spec == Init /\ [][Next]_vars

\* Processes that are running keep running, and the user comes back; nothing
\* makes the editor edit.
FairSpec == Spec /\ \A p \in Procs : WF_vars(Step(p))

-----------------------------------------------------------------------------
(* Properties.                                                             *)

Entries == [path : Files, size : Nat, mtime : Nat]

Indexes ==
  [info  : [Files -> [s : Nat, m : Nat] \union {None}],
   filt  : [Files -> Contents \union {None}],
   bytes : [Files -> Contents \union {None}],
   ident : SUBSET Entries]

\* What the proofs need to know of the state's type.
StateOK ==
  /\ tree \in [Files -> [c : Contents, m : Nat] \union {None}]
  /\ now \in Nat
  /\ cache \in Indexes \union {None}
  /\ pc \in [Procs -> {"idle", "load", "check", "size", "mtime", "copy", "list",
                       "fsize", "fmtime", "walk", "read", "stat", "ident", "search"}]
  /\ built \in [Procs -> BOOLEAN]
  /\ todo \in [Procs -> SUBSET Files]
  /\ idx \in [Procs -> Indexes]
  /\ lived \in [Procs -> [Files -> SUBSET (Contents \union {None})]]
  /\ seen = [p \in Procs |-> seen[p]]
  /\ opts \in Settings
  /\ \A p \in Procs :
       /\ pc[p] \in {"walk", "list"} => seen[p] \subseteq Files
       /\ pc[p] \in {"check", "ident"} => seen[p] \subseteq Entries
       /\ pc[p] \in {"stat", "mtime", "copy", "fmtime"} => todo[p] # {}
       /\ pc[p] = "stat" => idx[p].info[First(todo[p])] # None

\* The type of the state: filters are computed for listed files only, and a
\* process that is past loading or building has bytes for every file it lists.
TypeOK ==
  /\ StateOK
  /\ now <= MaxTime
  /\ \A p \in Procs :
       /\ \A f \in Files : idx[p].filt[f] # None => idx[p].info[f] # None
       /\ pc[p] \in {"fsize", "fmtime", "ident", "search"} =>
            \A f \in Files : /\ idx[p].bytes[f] # None <=> f \in Listed(idx[p])
                             /\ idx[p].filt[f] # None <=> f \in Listed(idx[p])

\* The index that is searched was never stale as a whole: of each file the run
\* searches a content that the file had during this run, and a file it does not
\* search was missing at some moment of the run, whichever process built the
\* index, from however old a tree.
RunSeesItsTime ==
  \A p \in Procs : pc[p] = "search" /\ ~Persist =>
    \A f \in Files : idx[p].bytes[f] \in lived[p][f]

\* What an index may hold for a file while a run goes on: a content that the
\* file had since the run began.
Lived(p, f) == idx[p].bytes[f] \in lived[p][f]

\* How far a run has come with that: of a walk, a file was found, is yet to be
\* looked for or was missing; of a pass, it is done or yet to be done.
RunAt(p) ==
  /\ pc[p] \in {"idle", "load", "check", "list"} => ~built[p]
  /\ pc[p] \in {"walk", "read", "stat"} => built[p]
  /\ pc[p] # "idle" => \A f \in Files :
       (IF tree[f] = None THEN None ELSE tree[f].c) \in lived[p][f]
  /\ pc[p] \in {"walk", "list"} => \A f \in Files :
       f \in todo[p] \/ f \in seen[p] \/ None \in lived[p][f]
  /\ pc[p] = "walk" => idx[p] = Empty
  /\ pc[p] = "read" => \A f \in Files :
       IF f \in todo[p] THEN idx[p].bytes[f] = None ELSE Lived(p, f)
  /\ pc[p] = "stat" => \A f \in Files :
       IF f \in todo[p] \ {First(todo[p])} THEN idx[p].bytes[f] = None ELSE Lived(p, f)
  /\ pc[p] = "check" => idx[p].bytes = Empty.bytes
  /\ pc[p] \in {"size", "mtime", "copy"} /\ built[p] => \A f \in Files : Lived(p, f)
  /\ pc[p] \in {"size", "mtime", "copy"} /\ ~built[p] => \A f \in Files :
       IF f \in Listed(idx[p]) THEN f \in todo[p] \/ Lived(p, f)
       ELSE f \notin todo[p] /\ idx[p].bytes[f] = None
  /\ pc[p] = "list" => \A f \in Files :
       IF f \in Listed(idx[p]) THEN Lived(p, f) ELSE idx[p].bytes[f] = None
  /\ pc[p] \in {"fsize", "fmtime", "ident", "search"} => \A f \in Files : Lived(p, f)

\* The inductive invariant behind RunSeesItsTime: a source-backed snapshot holds
\* no bytes, and no run holds bytes from before it began.
TimeInv ==
  ~Persist =>
    /\ cache # None => cache.bytes = Empty.bytes
    /\ \A p \in Procs : RunAt(p)

\* A run over a packed corpus attaches no providers, and an index that is
\* complete holds the bytes its filters were computed from.
PackedAt(p) ==
  /\ pc[p] \notin {"check", "size", "mtime", "copy"}
  /\ pc[p] \in {"list", "fsize", "fmtime", "ident", "search"} =>
       idx[p].filt = idx[p].bytes

\* The inductive invariant behind FiltersOfBytes for packed corpora.
PackedInv ==
  Persist =>
    /\ cache # None => cache.filt = cache.bytes
    /\ \A p \in Procs : PackedAt(p)

\* Where no two edits share a timestamp, the bytes that fresh() vouches for are
\* those of the file at that moment, although it compares metadata only and the
\* bytes were read before.  (A timestamp of 0 says that the file was gone when
\* it was indexed; a packed corpus holds the bytes of the first read.)
FreshVouchesForBytes ==
  [][\A p \in Procs :
       LET f == First(todo[p])
       IN Fine /\ ~Persist /\ pc[p] = "fmtime" /\ pc'[p] = "fsize"
            /\ idx[p].info[f].m # 0 =>
            tree[f] # None /\ tree[f].c = idx[p].bytes[f]]_vars

\* A reader never observes old filters with new content: the index that is
\* searched filters with what was computed from the bytes it verifies.
FiltersOfBytes ==
  \A p \in Procs : pc[p] = "search" => idx[p].filt = idx[p].bytes

\* True of a packed corpus, whose bytes are those the filters were made of.
PackedFiltersOfBytes == Persist => FiltersOfBytes

\* Once the tree is left alone the cached index is accepted ever after, and
\* nobody builds again, although a slower process may still publish an index of
\* an older tree over a newer one.
Settles ==
  ~Faults /\ ~Persist =>
    <>[](\A p \in CacheUsers : pc[p] \notin {"walk", "read", "stat", "ident"})
=============================================================================
