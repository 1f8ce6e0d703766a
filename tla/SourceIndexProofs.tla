-------------------------- MODULE SourceIndexProofs --------------------------
(* Proofs about SourceIndex. *)
EXTENDS SourceIndex, WellFoundedInduction, TLAPS

\* The invariants are proved together.
Inv == StateOK /\ TimeInv /\ PackedInv

USE DEF Persist, CacheUsers

-----------------------------------------------------------------------------
(* Files, indexes and the frame of a step.                                 *)

\* The natural numbers are well ordered.
LEMMA NatLeast ==
  ASSUME NEW T, T \subseteq Nat, T # {}
  PROVE  \E x \in T : \A y \in T : ~(y < x)
<1>1. IsWellFoundedOn(OpToRel(<, Nat), Nat)
  BY NatLessThanWellFounded
<1>2. PICK x \in T : \A y \in T : ~(<<y, x>> \in OpToRel(<, Nat))
  BY <1>1, WFMin, Zenon
<1>3. ASSUME NEW y \in T, y < x PROVE <<y, x>> \in OpToRel(<, Nat)
  <2>1. <<y, x>> \in Nat \X Nat
    OBVIOUS
  <2>2. <<y, x>>[1] = y /\ <<y, x>>[2] = x
    OBVIOUS
  <2>3. <<y, x>>[1] < <<y, x>>[2]
    BY <1>3, <2>2, Zenon
  <2> QED
    BY <2>1, <2>3, Zenon DEF OpToRel
<1> QED
  BY <1>2, <1>3, Zenon

\* A pass that is not over has a first file.
LEMMA FirstIn ==
  ASSUME NEW fs \in SUBSET Files, fs # {}
  PROVE  First(fs) \in fs /\ First(fs) \in Files
<1>1. fs \subseteq Nat
  BY SourceAssumption DEF Files
<1>2. PICK f \in fs : \A g \in fs : ~(g < f)
  BY <1>1, NatLeast
<1>3. \A g \in fs : f <= g
  BY <1>1, <1>2
<1> QED
  BY <1>3 DEF First

\* The parts of an index.
LEMMA IndexParts ==
  ASSUME NEW i \in Indexes
  PROVE  /\ i.info \in [Files -> [s : Nat, m : Nat] \union {None}]
         /\ i.filt \in [Files -> Contents \union {None}]
         /\ i.bytes \in [Files -> Contents \union {None}]
         /\ i.ident \in SUBSET Entries
BY DEF Indexes

\* An index with other filters.
LEMMA IndexFilters ==
  ASSUME NEW x \in Indexes
  PROVE  /\ [x EXCEPT !.filt = x.bytes] \in Indexes
         /\ [x EXCEPT !.filt = x.bytes].filt = x.bytes
         /\ [x EXCEPT !.filt = x.bytes].bytes = x.bytes
BY DEF Indexes

\* An index without files.
LEMMA EmptyIndex == Empty \in Indexes /\ \A f \in Files : Empty.bytes[f] = None
<1>1. Empty.bytes = [f \in Files |-> None]
  BY DEF Empty
<1> QED
  BY <1>1 DEF Empty, Indexes

\* What a file of the tree is.
LEMMA TreeFile ==
  ASSUME StateOK, NEW f \in Files, tree[f] # None
  PROVE  /\ tree[f].c \in Contents /\ tree[f].m \in Nat
         /\ SizeNow(f) \in Nat
         /\ MtimeNow(f) \in Nat
BY SourceAssumption DEF StateOK, SizeNow, MtimeNow

\* The present content of a file, and the state of another process, are left
\* alone by a step of p.
Others(p) ==
  /\ UNCHANGED tree
  /\ \A q \in Procs \ {p} :
       /\ pc'[q] = pc[q] /\ built'[q] = built[q] /\ todo'[q] = todo[q]
       /\ seen'[q] = seen[q] /\ idx'[q] = idx[q] /\ lived'[q] = lived[q]

\* It suffices to look at the process that takes the step.
LEMMA OneProcess ==
  ASSUME Inv, UNCHANGED opts, NEW p \in Procs, Others(p), StateOK',
         ~Persist => RunAt(p)',
         Persist => PackedAt(p)',
         cache' # None => cache' = cache \/
           /\ ~Persist => cache'.bytes = Empty.bytes
           /\ Persist => cache'.filt = cache'.bytes
  PROVE  Inv'
<1>1. ASSUME NEW q \in Procs, q # p, RunAt(q) PROVE RunAt(q)'
  BY <1>1 DEF Others, RunAt, Lived, Listed
<1>2. ASSUME NEW q \in Procs, q # p, PackedAt(q) PROVE PackedAt(q)'
  BY <1>2 DEF Others, PackedAt
<1>3. TimeInv'
  <2> SUFFICES ASSUME ~Persist
               PROVE  /\ cache' # None => cache'.bytes = Empty.bytes
                      /\ \A q \in Procs : RunAt(q)'
    BY DEF TimeInv
  <2>1. /\ cache # None => cache.bytes = Empty.bytes
        /\ \A q \in Procs : RunAt(q)
    BY DEF Inv, TimeInv
  <2> QED
    BY <1>1, <2>1
<1>4. PackedInv'
  <2> SUFFICES ASSUME Persist
               PROVE  /\ cache' # None => cache'.filt = cache'.bytes
                      /\ \A q \in Procs : PackedAt(q)'
    BY DEF PackedInv
  <2>1. /\ cache # None => cache.filt = cache.bytes
        /\ \A q \in Procs : PackedAt(q)
    BY DEF Inv, PackedInv
  <2> QED
    BY <1>2, <2>1
<1> QED
  BY <1>3, <1>4 DEF Inv

\* What the invariants say of one process.
LEMMA OfOne ==
  ASSUME Inv, NEW p \in Procs
  PROVE  /\ StateOK
         /\ ~Persist => RunAt(p) /\ (cache # None => cache.bytes = Empty.bytes)
         /\ Persist => PackedAt(p) /\ (cache # None => cache.filt = cache.bytes)
         /\ idx[p] \in Indexes /\ todo[p] \in SUBSET Files
         /\ lived[p] \in [Files -> SUBSET (Contents \union {None})]
BY DEF Inv, TimeInv, PackedInv, StateOK

PCs == {"idle", "load", "check", "size", "mtime", "copy", "list", "fsize", "fmtime",
        "walk", "read", "stat", "ident", "search"}

\* A step of a run that leaves the tree, the cache and the history alone: what
\* the state of process p becomes.
Moves(p, to, b, fs, found, i) ==
  /\ pc' = [pc EXCEPT ![p] = to] /\ built' = [built EXCEPT ![p] = b]
  /\ todo' = [todo EXCEPT ![p] = fs] /\ seen' = [seen EXCEPT ![p] = found]
  /\ idx' = [idx EXCEPT ![p] = i]
  /\ UNCHANGED <<tree, now, cache, lived>>

LEMMA MovesTo ==
  ASSUME StateOK, NEW p \in Procs, NEW to, NEW b, NEW fs, NEW found, NEW i,
         Moves(p, to, b, fs, found, i)
  PROVE  /\ pc'[p] = to /\ built'[p] = b /\ todo'[p] = fs /\ seen'[p] = found /\ idx'[p] = i
         /\ tree' = tree /\ lived' = lived
BY DEF Moves, StateOK

LEMMA StepKeeps ==
  ASSUME Inv, UNCHANGED opts, NEW p \in Procs,
         NEW to \in PCs, NEW b \in BOOLEAN, NEW fs \in SUBSET Files, NEW found,
         NEW i \in Indexes, Moves(p, to, b, fs, found, i),
         to \in {"walk", "list"} => found \subseteq Files,
         to \in {"check", "ident"} => found \subseteq Entries,
         to \in {"stat", "mtime", "copy", "fmtime"} => fs # {},
         to = "stat" => i.info[First(fs)] # None,
         ~Persist => RunAt(p)',
         Persist => PackedAt(p)'
  PROVE  Inv'
<1>1. StateOK'
  BY DEF Inv, StateOK, PCs, Moves
<1>2. Others(p)
  BY DEF Others, Inv, StateOK, Moves
<1>3. UNCHANGED cache
  BY DEF Moves
<1> QED
  BY <1>1, <1>2, <1>3, OneProcess

\* The types of a process's state.
LEMMA ProcessTypes ==
  ASSUME Inv, NEW p \in Procs
  PROVE  /\ built[p] \in BOOLEAN /\ todo[p] \in SUBSET Files /\ idx[p] \in Indexes
         /\ pc[p] \in PCs /\ StateOK
         /\ pc[p] \in {"walk", "list"} => seen[p] \subseteq Files
         /\ pc[p] \in {"check", "ident"} => seen[p] \subseteq Entries
         /\ pc[p] \in {"stat", "mtime", "copy", "fmtime"} => todo[p] # {}
         /\ pc[p] = "stat" => idx[p].info[First(todo[p])] # None
BY DEF Inv, StateOK, PCs

-----------------------------------------------------------------------------
(* The editor.                                                             *)

\* An edit adds to what the runs have seen of the file.
LEMMA EditKeeps ==
  ASSUME Inv, UNCHANGED opts, NEW f \in Files,
         NEW v \in [c : Contents, m : Nat] \union {None}, Edit(f, v), now' \in Nat
  PROVE  Inv'
<1> DEFINE c == IF v = None THEN None ELSE v.c
<1>1. c \in Contents \union {None}
  OBVIOUS
<1>2. /\ tree' = [tree EXCEPT ![f] = v]
      /\ lived' = [p \in Procs |-> IF pc[p] = "idle" THEN lived[p]
                                   ELSE [lived[p] EXCEPT ![f] = @ \union {c}]]
      /\ UNCHANGED <<cache, pc, built, todo, seen, idx>>
  BY DEF Edit
<1> HIDE DEF c
<1>3. lived' \in [Procs -> [Files -> SUBSET (Contents \union {None})]]
  BY <1>1, <1>2 DEF Inv, StateOK
<1>4. StateOK'
  BY <1>2, <1>3 DEF Inv, StateOK
<1>5. ASSUME NEW p \in Procs, NEW g \in Files PROVE lived[p][g] \subseteq lived'[p][g]
  BY <1>2 DEF Inv, StateOK
<1>6. ASSUME NEW p \in Procs, RunAt(p) PROVE RunAt(p)'
  <2>1. ASSUME pc[p] # "idle", NEW g \in Files
        PROVE  (IF tree'[g] = None THEN None ELSE tree'[g].c) \in lived'[p][g]
    <3>1. CASE g = f
      BY <1>2, <2>1, <3>1 DEF Inv, StateOK, c
    <3>2. CASE g # f
      BY <1>2, <1>5, <1>6, <2>1, <3>2 DEF Inv, StateOK, RunAt
    <3> QED
      BY <3>1, <3>2
  <2>2. ASSUME NEW g \in Files, Lived(p, g) PROVE Lived(p, g)'
    BY <1>2, <1>5, <2>2 DEF Lived
  <2>3. Listed(idx[p])' = Listed(idx[p])
    BY <1>2 DEF Listed
  <2> QED
    BY <1>2, <1>5, <1>6, <2>1, <2>2, <2>3 DEF RunAt
<1>7. TimeInv'
  BY <1>2, <1>6 DEF Inv, TimeInv
<1>8. PackedInv'
  BY <1>2 DEF Inv, PackedInv, PackedAt
<1> QED
  BY <1>4, <1>7, <1>8 DEF Inv

LEMMA EditorKeeps ==
  ASSUME Inv, UNCHANGED opts, Editor
  PROVE  Inv'
<1>1. CASE \E f \in Files : Remove(f)
  BY <1>1, EditKeeps DEF Remove, Inv, StateOK
<1>2. CASE \E f \in Files : \E c \in Contents : Write(f, c)
  <2> PICK f \in Files, c \in Contents : Write(f, c)
    BY <1>2
  <2>1. now' \in Nat
    BY DEF Write, Inv, StateOK
  <2>2. [c |-> c, m |-> now'] \in [c : Contents, m : Nat] \union {None}
    BY <2>1
  <2> QED
    BY <2>1, <2>2, EditKeeps DEF Write
<1> QED
  BY <1>1, <1>2 DEF Editor

-----------------------------------------------------------------------------
(* Walks.                                                                  *)

\* A walk finds the file, or the file is missing at that moment.
LEMMA WalkPathsKeeps ==
  ASSUME Inv, UNCHANGED opts, NEW p \in Procs, NEW f \in Files, WalkPaths(p, f)
  PROVE  Inv'
<1> DEFINE found == seen[p] \union (IF tree[f] = None THEN {} ELSE {f})
           rest  == todo[p] \ {f}
<1>1. pc[p] \in {"walk", "list"} /\ f \in todo[p]
  BY DEF WalkPaths, Visit
<1>2. Moves(p, pc[p], built[p], rest, found, idx[p])
  BY ProcessTypes DEF WalkPaths, Visit, Done, Pass, Moves, StateOK
<1>3. found \subseteq Files /\ rest \in SUBSET Files
  BY <1>1, ProcessTypes
<1>4. pc'[p] = pc[p] /\ built'[p] = built[p] /\ todo'[p] = rest /\ seen'[p] = found
      /\ idx'[p] = idx[p] /\ tree' = tree /\ lived' = lived
  BY <1>2, MovesTo DEF Inv
<1>5. ASSUME ~Persist PROVE RunAt(p)'
  <2>1. RunAt(p)
    BY <1>5, OfOne
  <2>2. \A g \in Files : g \in rest \/ g \in found \/ None \in lived[p][g]
    BY <1>1, <2>1 DEF RunAt
  <2> QED
    BY <1>1, <1>4, <2>1, <2>2 DEF RunAt, Lived, Listed
<1>6. ASSUME Persist PROVE PackedAt(p)'
  BY <1>4, <1>6, OfOne DEF PackedAt
<1> HIDE DEF found, rest
<1> QED
  BY <1>1, <1>2, <1>3, <1>5, <1>6, StepKeeps, ProcessTypes

LEMMA WalkIdentityKeeps ==
  ASSUME Inv, UNCHANGED opts, NEW p \in Procs, NEW f \in Files, WalkIdentity(p, f)
  PROVE  Inv'
<1> DEFINE e     == [path |-> f, size |-> SizeNow(f), mtime |-> tree[f].m]
           found == seen[p] \union (IF tree[f] = None THEN {} ELSE {e})
           rest  == todo[p] \ {f}
<1>1. pc[p] \in {"check", "ident"}
  BY DEF WalkIdentity
<1>2. Moves(p, pc[p], built[p], rest, found, idx[p])
  BY ProcessTypes DEF WalkIdentity, Visit, Done, Pass, Moves, StateOK
<1>3. tree[f] # None => e \in Entries
  BY TreeFile DEF Inv, Entries
<1>4. found \subseteq Entries /\ rest \in SUBSET Files
  BY <1>1, <1>3, ProcessTypes
<1>5. pc'[p] = pc[p] /\ built'[p] = built[p] /\ idx'[p] = idx[p]
      /\ tree' = tree /\ lived' = lived
  BY <1>2, MovesTo DEF Inv
<1>6. ASSUME ~Persist PROVE RunAt(p)'
  BY <1>1, <1>5, <1>6, OfOne DEF RunAt, Lived, Listed
<1>7. ASSUME Persist PROVE PackedAt(p)'
  BY <1>5, <1>7, OfOne DEF PackedAt
<1> HIDE DEF found, rest
<1> QED
  BY <1>1, <1>2, <1>4, <1>6, <1>7, StepKeeps, ProcessTypes

-----------------------------------------------------------------------------
(* Index::build.                                                           *)

\* A build starts from nothing.
LEMMA RebuildKeeps ==
  ASSUME Inv, UNCHANGED opts, NEW p \in Procs, Rebuild(p), UNCHANGED <<tree, now, cache>>,
         NEW l \in [Files -> SUBSET (Contents \union {None})],
         lived' = [lived EXCEPT ![p] = l],
         ~Persist => \A f \in Files : (IF tree[f] = None THEN None ELSE tree[f].c) \in l[f]
  PROVE  Inv'
<1>1. /\ pc' = [pc EXCEPT ![p] = "walk"] /\ todo' = [todo EXCEPT ![p] = Files]
      /\ seen' = [seen EXCEPT ![p] = {}] /\ built' = [built EXCEPT ![p] = TRUE]
      /\ idx' = [idx EXCEPT ![p] = Empty]
  BY DEF Rebuild, StartWalk, Go, Pass, Forget
<1>2. StateOK'
  BY <1>1, EmptyIndex DEF Inv, StateOK
<1>3. /\ pc'[p] = "walk" /\ todo'[p] = Files /\ built'[p] = TRUE /\ idx'[p] = Empty
      /\ lived'[p] = l
  BY <1>1 DEF Inv, StateOK
<1>4. ~Persist => RunAt(p)'
  BY <1>3 DEF RunAt
<1>5. PackedAt(p)'
  BY <1>3 DEF PackedAt
<1>6. Others(p)
  BY <1>1 DEF Others, Inv, StateOK
<1> QED
  BY <1>2, <1>4, <1>5, <1>6, OneProcess

\* The same within a run.
LEMMA RebuildInRun ==
  ASSUME Inv, UNCHANGED opts, NEW p \in Procs, pc[p] # "idle", Rebuild(p), UNCHANGED <<tree, now, cache, lived>>
  PROVE  Inv'
<1>1. lived' = [lived EXCEPT ![p] = lived[p]]
  BY DEF Inv, StateOK
<1>2. ~Persist => \A f \in Files : (IF tree[f] = None THEN None ELSE tree[f].c) \in lived[p][f]
  BY OfOne DEF RunAt
<1>3. lived[p] \in [Files -> SUBSET (Contents \union {None})]
  BY OfOne
<1> QED
  BY <1>1, <1>2, <1>3, RebuildKeeps

\* What the invariant says while files are read.
LEMMA Reading ==
  ASSUME Inv, NEW p \in Procs, ~Persist
  PROVE  /\ pc[p] # "idle" =>
              \A g \in Files : (IF tree[g] = None THEN None ELSE tree[g].c) \in lived[p][g]
         /\ pc[p] \in {"walk", "read", "stat"} => built[p]
         /\ pc[p] = "walk" =>
              /\ \A g \in Files : idx[p].bytes[g] = None
              /\ todo[p] = {} => \A g \in Files : g \in seen[p] \/ None \in lived[p][g]
         /\ pc[p] = "read" => \A g \in Files :
              IF g \in todo[p] THEN idx[p].bytes[g] = None ELSE Lived(p, g)
         /\ pc[p] = "stat" => \A g \in Files :
              IF g \in todo[p] \ {First(todo[p])} THEN idx[p].bytes[g] = None ELSE Lived(p, g)
BY OfOne, EmptyIndex DEF RunAt

LEMMA BuildWalkedKeeps ==
  ASSUME Inv, UNCHANGED opts, NEW p \in Procs, BuildWalked(p)
  PROVE  Inv'
<1>1. pc[p] = "walk" /\ todo[p] = {} /\ seen[p] \in SUBSET Files
  BY ProcessTypes DEF BuildWalked
<1>2. Moves(p, "read", built[p], seen[p], {}, idx[p])
  BY ProcessTypes DEF BuildWalked, Go, Pass, Forget, Moves, StateOK
<1>3. pc'[p] = "read" /\ built'[p] = built[p] /\ todo'[p] = seen[p] /\ idx'[p] = idx[p]
      /\ tree' = tree /\ lived' = lived
  BY <1>2, MovesTo DEF Inv
<1>4. ASSUME ~Persist PROVE RunAt(p)'
  <2>1. \A g \in Files : IF g \in todo'[p] THEN idx'[p].bytes[g] = None ELSE Lived(p, g)'
    BY <1>1, <1>3, <1>4, Reading DEF Lived
  <2> QED
    BY <1>1, <1>3, <1>4, <2>1, Reading DEF RunAt
<1>5. PackedAt(p)'
  BY <1>3 DEF PackedAt
<1> QED
  BY <1>1, <1>2, <1>4, <1>5, StepKeeps, ProcessTypes DEF PCs

\* A file that cannot be opened is missing.
LEMMA SkipKeeps ==
  ASSUME Inv, UNCHANGED opts, NEW p \in Procs, BuildRead(p), tree[First(todo[p])] = None
  PROVE  Inv'
<1> DEFINE f    == First(todo[p])
           rest == todo[p] \ {f}
<1>1. pc[p] = "read" /\ f \in Files /\ rest \in SUBSET Files
  BY FirstIn, ProcessTypes DEF BuildRead
<1>2. Moves(p, "read", built[p], rest, seen[p], idx[p])
  BY ProcessTypes DEF BuildRead, Done, Pass, Moves, StateOK
<1>3. pc'[p] = "read" /\ built'[p] = built[p] /\ todo'[p] = rest /\ idx'[p] = idx[p]
      /\ tree' = tree /\ lived' = lived
  BY <1>2, MovesTo DEF Inv
<1>4. ASSUME ~Persist PROVE RunAt(p)'
  <2>1. None \in lived[p][f]
    BY <1>1, <1>4, Reading
  <2> HIDE DEF f
  <2>2. \A g \in Files : IF g \in todo'[p] THEN idx'[p].bytes[g] = None ELSE Lived(p, g)'
    BY <1>1, <1>3, <1>4, <2>1, Reading DEF Lived
  <2> QED
    BY <1>1, <1>3, <1>4, <2>2, Reading DEF RunAt
<1>5. PackedAt(p)'
  BY <1>3 DEF PackedAt
<1> HIDE DEF f, rest
<1> QED
  BY <1>1, <1>2, <1>4, <1>5, StepKeeps, ProcessTypes DEF PCs

\* The bytes that are read are those of the file.
LEMMA ReadKeeps ==
  ASSUME Inv, UNCHANGED opts, NEW p \in Procs, BuildRead(p), tree[First(todo[p])] # None
  PROVE  Inv'
<1> DEFINE f == First(todo[p])
           c == tree[f].c
           r == [s |-> SizeNow(f), m |-> 0]
           i == [idx[p] EXCEPT !.info[f] = r, !.bytes[f] = c]
<1>1. pc[p] = "read" /\ f \in Files /\ todo[p] # {}
  BY FirstIn, ProcessTypes DEF BuildRead
<1>2. Moves(p, "stat", built[p], todo[p], seen[p], i)
  BY ProcessTypes DEF BuildRead, Go, Moves, StateOK
<1>3. c \in Contents /\ r \in [s : Nat, m : Nat]
  BY <1>1, TreeFile, ProcessTypes
<1>4. ASSUME ~Persist PROVE c \in lived[p][f]
  BY <1>1, <1>4, Reading
<1>5. i \in Indexes /\ i.bytes = [idx[p].bytes EXCEPT ![f] = c] /\ i.info[f] # None
  <2> DEFINE I == [idx[p].info EXCEPT ![f] = r]
             B == [idx[p].bytes EXCEPT ![f] = c]
  <2>1. i = [idx[p] EXCEPT !.info = I, !.bytes = B]
    BY ProcessTypes DEF Indexes
  <2> HIDE DEF f, c, r
  <2>2. /\ I \in [Files -> [s : Nat, m : Nat] \union {None}]
        /\ B \in [Files -> Contents \union {None}]
    BY <1>1, <1>3, ProcessTypes, IndexParts
  <2>3. I[f] # None
    <3>1. r # None
      BY <1>3, SourceAssumption
    <3> QED
      BY <1>1, <3>1, ProcessTypes, IndexParts
  <2> HIDE DEF I, B, i
  <2>4. i \in Indexes /\ i.bytes = B /\ i.info = I
    <3>1. idx[p] \in Indexes
      BY ProcessTypes
    <3> QED
      BY <2>1, <2>2, <3>1 DEF Indexes
  <2> QED
    BY <2>3, <2>4 DEF B
<1> HIDE DEF c, r, i
<1>6. pc'[p] = "stat" /\ built'[p] = built[p] /\ todo'[p] = todo[p] /\ idx'[p] = i
      /\ tree' = tree /\ lived' = lived
  BY <1>2, MovesTo DEF Inv
<1>7. ASSUME ~Persist PROVE RunAt(p)'
  <2> HIDE DEF f
  <2>1. \A g \in Files : i.bytes[g] = IF g = f THEN c ELSE idx[p].bytes[g]
    BY <1>1, <1>5, ProcessTypes, IndexParts
  <2>2. \A g \in Files : IF g \in todo[p] \ {f} THEN i.bytes[g] = None ELSE Lived(p, g)'
    BY <1>1, <1>4, <1>6, <1>7, <2>1, Reading DEF Lived
  <2> QED
    BY <1>1, <1>6, <1>7, <2>2, Reading DEF RunAt, f
<1>8. PackedAt(p)'
  BY <1>6 DEF PackedAt
<1> QED
  BY <1>1, <1>2, <1>5, <1>7, <1>8, StepKeeps, ProcessTypes DEF PCs

LEMMA BuildStatKeeps ==
  ASSUME Inv, UNCHANGED opts, NEW p \in Procs, BuildStat(p)
  PROVE  Inv'
<1> DEFINE f    == First(todo[p])
           rest == todo[p] \ {f}
           i    == [idx[p] EXCEPT !.info[f].m = MtimeNow(f)]
<1>1. pc[p] = "stat" /\ f \in Files /\ rest \in SUBSET Files
  BY FirstIn, ProcessTypes DEF BuildStat
<1>2. Moves(p, "read", built[p], rest, seen[p], i)
  BY ProcessTypes DEF BuildStat, Go, Done, Pass, Moves, StateOK
<1>3. MtimeNow(f) \in Nat
  BY <1>1, TreeFile, ProcessTypes DEF MtimeNow
<1>4. i \in Indexes /\ i.bytes = idx[p].bytes
  <2> DEFINE r == [idx[p].info[f] EXCEPT !.m = MtimeNow(f)]
             I == [idx[p].info EXCEPT ![f] = r]
             B == idx[p].bytes
  <2>1. i = [idx[p] EXCEPT !.info = I, !.bytes = B]
    BY ProcessTypes DEF Indexes
  <2>2. idx[p].info[f] \in [s : Nat, m : Nat]
    BY <1>1, ProcessTypes, IndexParts
  <2>3. r \in [s : Nat, m : Nat]
    BY <2>2, <1>3
  <2> HIDE DEF f, r
  <2>4. /\ I \in [Files -> [s : Nat, m : Nat] \union {None}]
        /\ B \in [Files -> Contents \union {None}]
    BY <1>1, <2>3, ProcessTypes, IndexParts
  <2> HIDE DEF I, B, i
  <2>5. i \in Indexes /\ i.bytes = B /\ i.info = I
    <3>1. idx[p] \in Indexes
      BY ProcessTypes
    <3> QED
      BY <2>1, <2>4, <3>1 DEF Indexes
  <2> QED
    BY <2>5 DEF B
<1> HIDE DEF i
<1>5. pc'[p] = "read" /\ built'[p] = built[p] /\ todo'[p] = rest /\ idx'[p] = i
      /\ tree' = tree /\ lived' = lived
  BY <1>2, MovesTo DEF Inv
<1>6. ASSUME ~Persist PROVE RunAt(p)'
  <2>1. \A g \in Files : IF g \in todo'[p] THEN i.bytes[g] = None ELSE Lived(p, g)'
    BY <1>1, <1>4, <1>5, <1>6, Reading DEF Lived
  <2> QED
    BY <1>1, <1>5, <1>6, <2>1, Reading DEF RunAt
<1>7. PackedAt(p)'
  BY <1>5 DEF PackedAt
<1> HIDE DEF f, rest
<1> QED
  BY <1>1, <1>2, <1>4, <1>6, <1>7, StepKeeps, ProcessTypes DEF PCs

LEMMA BuildReadKeeps ==
  ASSUME Inv, UNCHANGED opts, NEW p \in Procs, BuildRead(p)
  PROVE  Inv'
BY SkipKeeps, ReadKeeps

\* An index is complete: it goes on to be saved or searched.
LEMMA FinishKeeps ==
  ASSUME Inv, UNCHANGED opts, NEW p \in Procs, Finish(p), pc[p] # "idle",
         UNCHANGED <<tree, now, cache, built, lived>>,
         NEW i \in Indexes, idx' = [idx EXCEPT ![p] = i],
         ~Persist => \A f \in Files : i.bytes[f] \in lived[p][f],
         Persist => i.filt = i.bytes
  PROVE  Inv'
<1>1. Moves(p, "ident", built[p], Files, {}, i) \/ Moves(p, "search", built[p], todo[p], seen[p], i)
  BY ProcessTypes DEF Finish, StartWalk, Go, Pass, Forget, Moves, StateOK
<1>2. ASSUME NEW to \in {"ident", "search"}, NEW fs \in SUBSET Files, NEW found,
             Moves(p, to, built[p], fs, found, i), to = "ident" => found = {}
      PROVE  Inv'
  <2>1. pc'[p] = to /\ built'[p] = built[p] /\ idx'[p] = i /\ tree' = tree /\ lived' = lived
    BY <1>2, MovesTo DEF Inv
  <2>2. ~Persist => RunAt(p)'
    BY <2>1, Reading DEF RunAt, Lived
  <2>3. Persist => PackedAt(p)'
    BY <2>1 DEF PackedAt
  <2> QED
    BY <1>2, <2>2, <2>3, StepKeeps, ProcessTypes DEF PCs
<1>3. CASE Moves(p, "ident", built[p], Files, {}, i)
  BY <1>2, <1>3
<1>4. CASE Moves(p, "search", built[p], todo[p], seen[p], i)
  BY <1>2, <1>4, ProcessTypes
<1> QED
  BY <1>1, <1>3, <1>4

LEMMA BuildFiltersKeeps ==
  ASSUME Inv, UNCHANGED opts, NEW p \in Procs, BuildFilters(p)
  PROVE  Inv'
<1> DEFINE i == [idx[p] EXCEPT !.filt = idx[p].bytes]
<1>1. /\ pc[p] = "read" /\ todo[p] = {} /\ idx' = [idx EXCEPT ![p] = i]
      /\ UNCHANGED <<tree, now, cache, built, lived>>
  BY DEF BuildFilters
<1>2. i \in Indexes /\ i.filt = i.bytes /\ i.bytes = idx[p].bytes
  BY IndexFilters, ProcessTypes
<1> HIDE DEF i
<1>3. ASSUME ~Persist PROVE \A f \in Files : i.bytes[f] \in lived[p][f]
  BY <1>1, <1>2, <1>3, Reading DEF Lived
<1>4. CASE Persist
  BY <1>1, <1>2, <1>4, FinishKeeps DEF BuildFilters
<1>5. CASE ~Persist
  <2> DEFINE fs == Listed(idx[p])
  <2>1. Moves(p, "size", built[p], fs, seen[p], i)
    BY <1>1, <1>5, ProcessTypes DEF BuildFilters, Go, Pass, Moves, StateOK
  <2>2. fs \in SUBSET Files
    BY DEF Listed
  <2> HIDE DEF fs
  <2>3. pc'[p] = "size" /\ built'[p] = built[p] /\ idx'[p] = i /\ tree' = tree /\ lived' = lived
    BY <2>1, MovesTo DEF Inv
  <2>4. RunAt(p)'
    BY <1>1, <1>3, <1>5, <2>3, Reading DEF RunAt, Lived
  <2> QED
    BY <1>2, <1>5, <2>1, <2>2, <2>4, StepKeeps, ProcessTypes DEF PCs
<1> QED
  BY <1>4, <1>5

-----------------------------------------------------------------------------
(* CorpusProvider::mapped.                                                 *)

\* What the invariant says while providers are attached.
LEMMA Attaching ==
  ASSUME Inv, NEW p \in Procs, pc[p] \in {"check", "size", "mtime", "copy"}
  PROVE  /\ ~Persist
         /\ pc[p] = "check" => ~built[p] /\ \A g \in Files : idx[p].bytes[g] = None
         /\ pc[p] # "check" /\ built[p] => \A g \in Files : Lived(p, g)
         /\ pc[p] # "check" /\ ~built[p] => \A g \in Files :
              IF g \in Listed(idx[p]) THEN g \in todo[p] \/ Lived(p, g)
              ELSE g \notin todo[p] /\ idx[p].bytes[g] = None
BY OfOne, EmptyIndex DEF RunAt, PackedAt

\* A step that goes on with this file or the next, and the same index; a file
\* may be passed over only when the bytes of the build serve.
LEMMA AttachKeeps ==
  ASSUME Inv, UNCHANGED opts, NEW p \in Procs, pc[p] \in {"size", "mtime", "copy"},
         NEW to \in {"size", "mtime", "copy"}, NEW fs \in SUBSET todo[p],
         Moves(p, to, built[p], fs, seen[p], idx[p]),
         to # "size" => fs # {}, ~built[p] => fs = todo[p]
  PROVE  Inv'
<1>1. /\ pc'[p] = to /\ built'[p] = built[p] /\ idx'[p] = idx[p] /\ todo'[p] = fs
      /\ tree' = tree /\ lived' = lived
  BY MovesTo DEF Inv
<1>2. RunAt(p)'
  BY <1>1, Attaching, Reading DEF RunAt, Lived, Listed
<1>3. fs \in SUBSET Files /\ ~Persist
  BY Attaching, ProcessTypes
<1> QED
  BY <1>2, <1>3, StepKeeps, ProcessTypes DEF PCs

LEMMA RefuseKeeps ==
  ASSUME Inv, UNCHANGED opts, NEW p \in Procs, pc[p] \in {"size", "mtime", "copy"},
         NEW f, Refuse(p, f), UNCHANGED <<tree, now, cache, lived>>
  PROVE  Inv'
<1>1. CASE built[p]
  <2> DEFINE rest == todo[p] \ {f}
  <2>1. Moves(p, "size", built[p], rest, seen[p], idx[p])
    BY <1>1, ProcessTypes DEF Refuse, Go, Done, Pass, Moves, StateOK
  <2>2. rest \in SUBSET todo[p]
    OBVIOUS
  <2> HIDE DEF rest
  <2> QED
    BY <1>1, <2>1, <2>2, AttachKeeps
<1>2. CASE ~built[p]
  BY <1>2, RebuildInRun DEF Refuse
<1> QED
  BY <1>1, <1>2

LEMMA MappedKeeps ==
  ASSUME Inv, UNCHANGED opts, NEW p \in Procs, MappedSize(p) \/ MappedMtime(p)
  PROVE  Inv'
<1> DEFINE f == First(todo[p])
<1>1. pc[p] \in {"size", "mtime"} /\ UNCHANGED <<tree, now, cache, lived>> /\ todo[p] # {}
  BY ProcessTypes DEF MappedSize, MappedMtime
<1>2. Refuse(p, f) \/ \E to \in {"mtime", "copy"} : Moves(p, to, built[p], todo[p], seen[p], idx[p])
  BY ProcessTypes DEF MappedSize, MappedMtime, Go, Moves, StateOK
<1>3. CASE Refuse(p, f)
  BY <1>1, <1>3, RefuseKeeps
<1>4. CASE \E to \in {"mtime", "copy"} : Moves(p, to, built[p], todo[p], seen[p], idx[p])
  BY <1>1, <1>4, AttachKeeps
<1> QED
  BY <1>2, <1>3, <1>4

LEMMA MappedCopyKeeps ==
  ASSUME Inv, UNCHANGED opts, NEW p \in Procs, MappedCopy(p)
  PROVE  Inv'
<1> DEFINE f    == First(todo[p])
           rest == todo[p] \ {f}
           c    == tree[f].c
           i    == [idx[p] EXCEPT !.bytes[f] = c]
<1>1. pc[p] = "copy" /\ UNCHANGED <<tree, now, cache, lived>> /\ f \in todo[p] /\ f \in Files
  BY ProcessTypes, FirstIn DEF MappedCopy
<1>2. CASE Refuse(p, f)
  BY <1>1, <1>2, RefuseKeeps
<1>3. CASE tree[f] # None /\ Moves(p, "size", built[p], rest, seen[p], i)
  <2>1. c \in Contents
    BY <1>1, <1>3, TreeFile, ProcessTypes
  <2>2. c \in lived[p][f] /\ ~Persist
    BY <1>1, <1>3, Reading, Attaching
  <2>3. /\ i \in Indexes /\ i.info = idx[p].info
        /\ \A g \in Files : i.bytes[g] = IF g = f THEN c ELSE idx[p].bytes[g]
    <3> HIDE DEF f, c
    <3> QED
      BY <1>1, <2>1, ProcessTypes DEF Indexes
  <2> HIDE DEF f, c, i
  <2>4. /\ pc'[p] = "size" /\ built'[p] = built[p] /\ idx'[p] = i /\ todo'[p] = rest
        /\ tree' = tree /\ lived' = lived
    BY <1>3, MovesTo DEF Inv
  <2>5. Listed(i) = Listed(idx[p])
    BY <2>3 DEF Listed
  <2>6. built[p] => \A g \in Files : Lived(p, g)'
    BY <1>1, <2>2, <2>3, <2>4, Attaching DEF Lived
  <2>7. ~built[p] => \A g \in Files :
          IF g \in Listed(i) THEN g \in rest \/ Lived(p, g)' ELSE g \notin rest /\ i.bytes[g] = None
    BY <1>1, <2>2, <2>3, <2>4, <2>5, Attaching DEF Lived
  <2>8. RunAt(p)'
    BY <1>1, <2>2, <2>4, <2>6, <2>7, Reading DEF RunAt
  <2>9. rest \in SUBSET Files
    BY ProcessTypes
  <2> HIDE DEF rest
  <2> QED
    BY <1>3, <2>2, <2>3, <2>8, <2>9, StepKeeps, ProcessTypes DEF PCs
<1>4. Refuse(p, f) \/ (tree[f] # None /\ Moves(p, "size", built[p], rest, seen[p], i))
  BY ProcessTypes DEF MappedCopy, Go, Done, Pass, Moves, StateOK
<1> QED
  BY <1>2, <1>3, <1>4

LEMMA AttachedKeeps ==
  ASSUME Inv, UNCHANGED opts, NEW p \in Procs, Attached(p)
  PROVE  Inv'
<1>1. /\ pc[p] = "size" /\ todo[p] = {} /\ UNCHANGED <<tree, now, cache, built, idx, lived>>
      /\ idx' = [idx EXCEPT ![p] = idx[p]]
  BY ProcessTypes DEF Attached, StateOK
<1>2. CASE built[p]
  <2>1. Finish(p)
    BY <1>2 DEF Attached
  <2>2. ~Persist /\ \A f \in Files : idx[p].bytes[f] \in lived[p][f]
    BY <1>1, <1>2, Attaching DEF Lived
  <2> QED
    BY <1>1, <2>1, <2>2, FinishKeeps, ProcessTypes
<1>3. CASE ~built[p]
  <2>1. Moves(p, "list", built[p], Files, {}, idx[p])
    BY <1>1, <1>3, ProcessTypes DEF Attached, StartWalk, Go, Pass, Forget, Moves, StateOK
  <2>2. /\ pc'[p] = "list" /\ built'[p] = built[p] /\ idx'[p] = idx[p] /\ todo'[p] = Files
        /\ tree' = tree /\ lived' = lived
    BY <2>1, MovesTo DEF Inv
  <2>3. RunAt(p)' /\ ~Persist
    BY <1>1, <1>3, <2>2, Attaching, Reading DEF RunAt, Lived, Listed
  <2> QED
    BY <2>1, <2>3, StepKeeps, ProcessTypes DEF PCs
<1> QED
  BY <1>2, <1>3

-----------------------------------------------------------------------------
(* Index::save, Index::load and Index::fresh.                              *)

\* What is saved is complete, and without the bytes unless they are persisted.
LEMMA SaveKeeps ==
  ASSUME Inv, UNCHANGED opts, NEW p \in Procs, Save(p)
  PROVE  Inv'
<1> DEFINE B == IF Persist THEN idx[p].bytes ELSE Empty.bytes
           i == [idx[p] EXCEPT !.ident = seen[p], !.bytes = B]
<1>1. /\ pc[p] = "ident" /\ cache' = i
      /\ pc' = [pc EXCEPT ![p] = "search"] /\ seen' = [seen EXCEPT ![p] = {}]
      /\ UNCHANGED <<tree, now, built, todo, idx, lived>>
  BY ProcessTypes DEF Save, Go, Forget, Indexes
<1>2. /\ i \in Indexes /\ i.bytes = B /\ i.filt = idx[p].filt
  <2>1. B \in [Files -> Contents \union {None}]
    BY ProcessTypes, IndexParts, EmptyIndex
  <2> HIDE DEF B
  <2> QED
    BY <1>1, <2>1, ProcessTypes DEF Indexes
<1> HIDE DEF i
<1>3. StateOK'
  BY <1>1, <1>2 DEF Inv, StateOK
<1>4. Others(p)
  BY <1>1 DEF Others, Inv, StateOK
<1>5. pc'[p] = "search"
  BY <1>1 DEF Inv, StateOK
<1>6. ASSUME ~Persist PROVE RunAt(p)' /\ cache'.bytes = Empty.bytes
  <2>1. \A f \in Files : Lived(p, f)
    BY <1>1, <1>6, OfOne DEF RunAt
  <2> QED
    BY <1>1, <1>2, <1>5, <1>6, <2>1, Reading DEF RunAt, Lived
<1>7. ASSUME Persist PROVE PackedAt(p)' /\ cache'.filt = cache'.bytes
  <2>1. idx[p].filt = idx[p].bytes
    BY <1>1, <1>7, OfOne DEF PackedAt
  <2> QED
    BY <1>1, <1>2, <1>5, <1>7, <2>1 DEF PackedAt
<1> QED
  BY <1>3, <1>4, <1>6, <1>7, OneProcess

\* A run begins with the tree as it is.
LEMMA BeginKeeps ==
  ASSUME Inv, UNCHANGED opts, NEW p \in Procs, Begin(p)
  PROVE  Inv'
<1> DEFINE l == [f \in Files |-> {IF tree[f] = None THEN None ELSE tree[f].c}]
<1>1. pc[p] = "idle" /\ lived' = [lived EXCEPT ![p] = l] /\ UNCHANGED <<tree, now, cache>>
  BY DEF Begin
<1>2. l \in [Files -> SUBSET (Contents \union {None})]
  BY TreeFile, ProcessTypes
<1>3. \A f \in Files : (IF tree[f] = None THEN None ELSE tree[f].c) \in l[f]
  OBVIOUS
<1> HIDE DEF l
<1>4. CASE Rebuild(p)
  BY <1>1, <1>2, <1>3, <1>4, RebuildKeeps
<1>5. CASE Go(p, "load") /\ UNCHANGED <<built, todo, seen, idx>>
  <2>1. StateOK' /\ pc'[p] = "load" /\ lived'[p] = l
    BY <1>1, <1>2, <1>5 DEF Go, Inv, StateOK
  <2>2. Others(p)
    BY <1>1, <1>5 DEF Go, Others, Inv, StateOK
  <2>3. ASSUME ~Persist PROVE RunAt(p)'
    <3>1. ~built[p]
      BY <1>1, <2>3, OfOne DEF RunAt
    <3> QED
      BY <1>1, <1>3, <1>5, <2>1, <3>1 DEF RunAt
  <2>4. PackedAt(p)'
    BY <2>1 DEF PackedAt
  <2> QED
    BY <1>1, <2>1, <2>2, <2>3, <2>4, OneProcess
<1> QED
  BY <1>4, <1>5 DEF Begin

LEMMA LoadKeeps ==
  ASSUME Inv, UNCHANGED opts, NEW p \in Procs, Load(p)
  PROVE  Inv'
<1>1. pc[p] = "load" /\ UNCHANGED <<tree, now, cache, lived>>
  BY DEF Load
<1>2. CASE cache = None
  BY <1>1, <1>2, RebuildInRun DEF Load
<1>3. CASE cache # None
  <2> DEFINE to == IF Persist THEN "list" ELSE "check"
  <2>1. Moves(p, to, built[p], Files, {}, cache) /\ cache \in Indexes
    BY <1>1, <1>3, ProcessTypes DEF Load, StartWalk, Go, Pass, Forget, Moves, StateOK
  <2>2. /\ pc'[p] = to /\ built'[p] = built[p] /\ idx'[p] = cache /\ todo'[p] = Files
        /\ tree' = tree /\ lived' = lived
    BY <2>1, MovesTo DEF Inv
  <2>3. ASSUME ~Persist PROVE RunAt(p)'
    <3>1. ~built[p] /\ cache.bytes = Empty.bytes
      BY <1>1, <1>3, <2>3, OfOne DEF RunAt
    <3> QED
      BY <1>1, <2>2, <2>3, <3>1, Reading DEF RunAt
  <2>4. ASSUME Persist PROVE PackedAt(p)'
    BY <1>3, <2>2, <2>4, OfOne DEF PackedAt
  <2> QED
    BY <2>1, <2>3, <2>4, StepKeeps, ProcessTypes DEF PCs
<1> QED
  BY <1>2, <1>3

LEMMA LoadCheckedKeeps ==
  ASSUME Inv, UNCHANGED opts, NEW p \in Procs, LoadChecked(p)
  PROVE  Inv'
<1> DEFINE fs == Listed(idx[p])
<1>1. pc[p] = "check" /\ UNCHANGED <<tree, now, cache, lived>> /\ ~Persist
  BY Attaching DEF LoadChecked
<1>2. CASE Rebuild(p)
  BY <1>1, <1>2, RebuildInRun
<1>3. CASE Moves(p, "size", built[p], fs, {}, idx[p])
  <2>1. /\ pc'[p] = "size" /\ built'[p] = built[p] /\ idx'[p] = idx[p] /\ todo'[p] = fs
        /\ tree' = tree /\ lived' = lived
    BY <1>3, MovesTo DEF Inv
  <2>2. RunAt(p)'
    BY <1>1, <2>1, Attaching, Reading DEF RunAt
  <2>3. fs \in SUBSET Files
    BY DEF Listed
  <2> QED
    BY <1>1, <1>3, <2>2, <2>3, StepKeeps, ProcessTypes DEF PCs
<1>4. Rebuild(p) \/ Moves(p, "size", built[p], fs, {}, idx[p])
  BY <1>1, ProcessTypes DEF LoadChecked, Go, Pass, Forget, Moves, StateOK
<1> QED
  BY <1>2, <1>3, <1>4

\* The listing: what is not recorded was missing when it was looked for.
LEMMA FreshPathsKeeps ==
  ASSUME Inv, UNCHANGED opts, NEW p \in Procs, FreshPaths(p)
  PROVE  Inv'
<1> DEFINE fs == Listed(idx[p])
<1>1. pc[p] = "list" /\ todo[p] = {} /\ UNCHANGED <<tree, now, cache, lived>>
  BY DEF FreshPaths
<1>2. CASE Rebuild(p)
  BY <1>1, <1>2, RebuildInRun
<1>3. CASE seen[p] = fs /\ Moves(p, "fsize", built[p], fs, {}, idx[p])
  <2>1. /\ pc'[p] = "fsize" /\ built'[p] = built[p] /\ idx'[p] = idx[p]
        /\ tree' = tree /\ lived' = lived
    BY <1>3, MovesTo DEF Inv
  <2>2. ASSUME ~Persist PROVE RunAt(p)'
    <3>1. /\ \A f \in Files : f \in fs \/ None \in lived[p][f]
          /\ \A f \in Files : IF f \in fs THEN Lived(p, f) ELSE idx[p].bytes[f] = None
      BY <1>1, <1>3, <2>2, OfOne DEF RunAt
    <3>2. \A f \in Files : Lived(p, f)
      BY <3>1 DEF Lived
    <3> QED
      BY <1>1, <2>1, <2>2, <3>2, Reading DEF RunAt, Lived
  <2>3. ASSUME Persist PROVE PackedAt(p)'
    BY <1>1, <2>1, <2>3, OfOne DEF PackedAt
  <2>4. fs \in SUBSET Files
    BY DEF Listed
  <2> HIDE DEF fs
  <2> QED
    BY <1>3, <2>2, <2>3, <2>4, StepKeeps, ProcessTypes DEF PCs
<1>4. Rebuild(p) \/ (seen[p] = fs /\ Moves(p, "fsize", built[p], fs, {}, idx[p]))
  BY <1>1, ProcessTypes DEF FreshPaths, Go, Pass, Forget, Moves, StateOK
<1> QED
  BY <1>2, <1>3, <1>4

\* The checks of the files.
LEMMA FreshKeeps ==
  ASSUME Inv, UNCHANGED opts, NEW p \in Procs, FreshSize(p) \/ FreshMtime(p) \/ Fresh(p)
  PROVE  Inv'
<1> DEFINE rest == todo[p] \ {First(todo[p])}
<1>1. pc[p] \in {"fsize", "fmtime"} /\ UNCHANGED <<tree, now, cache, lived>>
  BY DEF FreshSize, FreshMtime, Fresh
<1>2. CASE Rebuild(p)
  BY <1>1, <1>2, RebuildInRun
<1>3. ASSUME NEW to \in {"fsize", "fmtime", "search"}, NEW fs \in SUBSET Files,
             Moves(p, to, built[p], fs, seen[p], idx[p]), to = "fmtime" => fs # {}
      PROVE  Inv'
  <2>1. /\ pc'[p] = to /\ built'[p] = built[p] /\ idx'[p] = idx[p]
        /\ tree' = tree /\ lived' = lived
    BY <1>3, MovesTo DEF Inv
  <2>2. ASSUME ~Persist PROVE RunAt(p)'
    <3>1. \A f \in Files : Lived(p, f)
      BY <1>1, <2>2, OfOne DEF RunAt
    <3> QED
      BY <1>1, <2>1, <2>2, <3>1, Reading DEF RunAt, Lived
  <2>3. ASSUME Persist PROVE PackedAt(p)'
    BY <1>1, <2>1, <2>3, OfOne DEF PackedAt
  <2> QED
    BY <1>3, <2>2, <2>3, StepKeeps, ProcessTypes DEF PCs
<1>4. CASE FreshSize(p)
  <2>1. todo[p] # {}
    BY <1>4 DEF FreshSize
  <2>2. Rebuild(p) \/ Moves(p, "fmtime", built[p], todo[p], seen[p], idx[p])
    BY <1>4, ProcessTypes DEF FreshSize, Go, Moves, StateOK
  <2> QED
    BY <1>2, <1>3, <2>1, <2>2, ProcessTypes
<1>5. CASE FreshMtime(p)
  <2>1. Rebuild(p) \/ Moves(p, "fsize", built[p], rest, seen[p], idx[p])
    BY <1>5, ProcessTypes DEF FreshMtime, Go, Done, Pass, Moves, StateOK
  <2>2. rest \in SUBSET Files
    BY ProcessTypes
  <2> HIDE DEF rest
  <2> QED
    BY <1>2, <1>3, <2>1, <2>2
<1>6. CASE Fresh(p)
  <2>1. Moves(p, "search", built[p], todo[p], seen[p], idx[p])
    BY <1>6, ProcessTypes DEF Fresh, Go, Moves, StateOK
  <2> QED
    BY <1>3, <2>1, ProcessTypes
<1> QED
  BY <1>4, <1>5, <1>6

-----------------------------------------------------------------------------
(* The end of a run, and the specification.                                *)

LEMMA LeaveKeeps ==
  ASSUME Inv, UNCHANGED opts, NEW p \in Procs, Leave(p)
  PROVE  Inv'
<1>1. /\ pc' = [pc EXCEPT ![p] = "idle"] /\ built' = [built EXCEPT ![p] = FALSE]
      /\ todo' = [todo EXCEPT ![p] = {}] /\ seen' = [seen EXCEPT ![p] = {}]
      /\ idx' = [idx EXCEPT ![p] = Empty]
      /\ lived' = [lived EXCEPT ![p] = [f \in Files |-> {}]]
      /\ UNCHANGED <<tree, now, cache>>
  BY DEF Leave, Go, Pass, Forget
<1>2. StateOK'
  BY <1>1, EmptyIndex DEF Inv, StateOK
<1>3. Others(p)
  BY <1>1 DEF Others, Inv, StateOK
<1>4. pc'[p] = "idle" /\ built'[p] = FALSE
  BY <1>1 DEF Inv, StateOK
<1>5. RunAt(p)' /\ PackedAt(p)'
  BY <1>4 DEF RunAt, PackedAt
<1> QED
  BY <1>1, <1>2, <1>3, <1>5, OneProcess

LEMMA LoseCacheKeeps ==
  ASSUME Inv, UNCHANGED opts, LoseCache
  PROVE  Inv'
<1>1. cache' = None /\ UNCHANGED <<tree, now, pc, built, todo, seen, idx, lived>>
  BY DEF LoseCache
<1>2. StateOK'
  BY <1>1 DEF Inv, StateOK
<1>3. TimeInv'
  BY <1>1 DEF Inv, TimeInv, RunAt, Lived, Listed
<1>4. PackedInv'
  BY <1>1 DEF Inv, PackedInv, PackedAt
<1> QED
  BY <1>2, <1>3, <1>4 DEF Inv

LEMMA StutterKeeps ==
  ASSUME Inv, UNCHANGED vars
  PROVE  Inv'
<1>1. UNCHANGED <<tree, now, cache, pc, built, todo, seen, idx, lived, opts>>
  BY DEF vars
<1>2. StateOK'
  BY <1>1 DEF Inv, StateOK
<1>3. TimeInv'
  BY <1>1 DEF Inv, TimeInv, RunAt, Lived, Listed
<1>4. PackedInv'
  BY <1>1 DEF Inv, PackedInv, PackedAt
<1> QED
  BY <1>2, <1>3, <1>4 DEF Inv

LEMMA InitHolds ==
  ASSUME Init
  PROVE  Inv
<1>1. StateOK
  BY EmptyIndex, SourceAssumption DEF Init, StateOK
<1>2. TimeInv
  BY DEF Init, TimeInv, RunAt
<1>3. PackedInv
  BY DEF Init, PackedInv, PackedAt
<1> QED
  BY <1>1, <1>2, <1>3 DEF Inv

LEMMA NextKeeps ==
  ASSUME Inv, [Next]_vars
  PROVE  Inv'
<1>1. ASSUME NEW p \in Procs, Step(p) PROVE Inv'
  <2>0. UNCHANGED opts
    BY <1>1 DEF Step
  <2>1. CASE \E f \in Files : WalkPaths(p, f) \/ WalkIdentity(p, f)
    BY <2>0, <2>1, WalkPathsKeeps, WalkIdentityKeeps
  <2>2. CASE BuildWalked(p) \/ BuildRead(p) \/ BuildStat(p) \/ BuildFilters(p)
    BY <2>0, <2>2, BuildWalkedKeeps, BuildReadKeeps, BuildStatKeeps, BuildFiltersKeeps
  <2>3. CASE MappedSize(p) \/ MappedMtime(p) \/ MappedCopy(p) \/ Attached(p)
    BY <2>0, <2>3, MappedKeeps, MappedCopyKeeps, AttachedKeeps
  <2>4. CASE Save(p) \/ Begin(p) \/ Load(p) \/ LoadChecked(p)
    BY <2>0, <2>4, SaveKeeps, BeginKeeps, LoadKeeps, LoadCheckedKeeps
  <2>5. CASE FreshPaths(p) \/ FreshSize(p) \/ FreshMtime(p) \/ Fresh(p)
    BY <2>0, <2>5, FreshPathsKeeps, FreshKeeps
  <2>6. CASE Search(p)
    BY <2>0, <2>6, LeaveKeeps DEF Search
  <2> QED
    BY <1>1, <2>1, <2>2, <2>3, <2>4, <2>5, <2>6 DEF Step
<1>2. ASSUME NEW p \in Procs, Die(p), UNCHANGED opts PROVE Inv'
  BY <1>2, LeaveKeeps DEF Die
<1> QED
  BY <1>1, <1>2, LoseCacheKeeps, EditorKeeps, StutterKeeps DEF Next

-----------------------------------------------------------------------------
(* What an index holds, and what a timestamp vouches for.                  *)

\* No recorded timestamp is ahead of the clock.
Past(i) == \A f \in Listed(i) : i.info[f].m <= now

\* Filters, or bytes, for the files that are listed.
Paired(i) == \A f \in Files : i.filt[f] # None <=> f \in Listed(i)
Whole(i)  == \A f \in Files : i.bytes[f] # None <=> f \in Listed(i)

\* A file that still has the recorded timestamp has the bytes of the index.
Vouched(i, f) ==
  tree[f] # None /\ tree[f].m = i.info[f].m => tree[f].c = i.bytes[f]

\* What holds of the index of a process, by where the process is: what a build
\* has read so far, what a loaded index has been given so far.
IndexOf(i, at, b, fs) ==
  /\ Past(i)
  /\ at \in {"idle", "load", "walk"} => i = Empty
  /\ at \in {"read", "stat"} => Whole(i) /\ \A f \in Files : i.filt[f] = None
  /\ at \notin {"read", "stat"} => Paired(i)
  /\ at = "check" => \A f \in Files : i.bytes[f] = None
  /\ at \in {"size", "mtime", "copy"} =>
       /\ fs \subseteq Listed(i)
       /\ \A f \in Files : i.bytes[f] # None => f \in Listed(i)
       /\ \A f \in Listed(i) : b \/ f \notin fs => i.bytes[f] # None
       /\ Fine /\ ~Persist /\ ~b => \A f \in Listed(i) \ fs : Vouched(i, f)
  /\ at \in {"list", "fsize", "fmtime", "ident", "search"} => Whole(i)
  /\ at \in {"list", "fsize", "fmtime"} /\ Fine /\ ~Persist =>
       \A f \in Listed(i) : Vouched(i, f)
  /\ at \in {"fsize", "fmtime"} => fs \subseteq Listed(i)

IndexAt(p) == IndexOf(idx[p], pc[p], built[p], todo[p])

CacheOK == cache # None => Past(cache) /\ Paired(cache) /\ (Persist => Whole(cache))

\* The inductive invariant behind TypeOK and FreshVouchesForBytes.
IndexInv ==
  /\ now <= MaxTime
  /\ \A f \in Files : tree[f] # None => tree[f].m <= now
  /\ CacheOK
  /\ \A p \in Procs : IndexAt(p)

\* It suffices to look at the process that takes the step.
LEMMA IndexStep ==
  ASSUME Inv, IndexInv, UNCHANGED opts, UNCHANGED now, NEW p \in Procs, Others(p),
         IndexAt(p)',
         UNCHANGED cache \/ CacheOK'
  PROVE  IndexInv'
<1>1. tree' = tree /\ now' = now
  BY DEF Others
<1>2. ASSUME NEW q \in Procs, q # p PROVE IndexAt(q)'
  <2>1. IndexAt(q)
    BY DEF IndexInv
  <2> QED
    BY <1>1, <1>2, <2>1 DEF Others, IndexAt, IndexOf, Past, Paired, Whole, Vouched, Fine, Listed
<1>3. CacheOK'
  BY <1>1 DEF IndexInv, CacheOK, Past, Paired, Whole, Listed
<1> QED
  BY <1>1, <1>2, <1>3 DEF IndexInv

\* What the process moves to is stated of the state it leaves.
LEMMA IndexMoves ==
  ASSUME Inv, IndexInv, UNCHANGED opts, NEW p \in Procs,
         NEW to, NEW b, NEW fs, NEW found, NEW i, Moves(p, to, b, fs, found, i),
         IndexOf(i, to, b, fs)
  PROVE  IndexInv'
<1>1. /\ pc'[p] = to /\ built'[p] = b /\ todo'[p] = fs /\ idx'[p] = i
      /\ tree' = tree /\ now' = now /\ cache' = cache
  BY MovesTo DEF Inv, Moves
<1>2. Others(p)
  BY DEF Others, Inv, StateOK, Moves
<1>3. IndexAt(p)'
  BY <1>1 DEF IndexAt, IndexOf, Past, Paired, Whole, Vouched, Fine, Listed
<1> QED
  BY <1>1, <1>2, <1>3, IndexStep

\* An index without files.
LEMMA EmptyOf ==
  /\ Past(Empty) /\ Paired(Empty) /\ Whole(Empty) /\ Listed(Empty) = {}
  /\ \A b, fs : \A at \in {"idle", "load", "walk"} : IndexOf(Empty, at, b, fs)
<1>1. Empty.info = [f \in Files |-> None] /\ Empty.filt = [f \in Files |-> None]
      /\ Empty.bytes = [f \in Files |-> None]
  BY DEF Empty
<1>2. Listed(Empty) = {}
  BY <1>1 DEF Listed
<1>3. Past(Empty) /\ Paired(Empty) /\ Whole(Empty)
  BY <1>1, <1>2 DEF Past, Paired, Whole
<1> QED
  BY <1>2, <1>3 DEF IndexOf

\* Moves that take the index along: into a walk, or back to where a run starts.
LEMMA IndexRebuild ==
  ASSUME Inv, IndexInv, UNCHANGED opts, NEW p \in Procs, Rebuild(p),
         UNCHANGED <<tree, now, cache>>,
         \A q \in Procs \ {p} : lived'[q] = lived[q]
  PROVE  IndexInv'
<1>1. pc'[p] = "walk" /\ idx'[p] = Empty
  BY DEF Rebuild, StartWalk, Go, Inv, StateOK
<1>2. Others(p)
  BY DEF Rebuild, StartWalk, Go, Pass, Forget, Others, Inv, StateOK
<1>3. IndexAt(p)'
  <2>1. Past(Empty)' /\ Paired(Empty)'
    BY EmptyOf DEF Past, Paired, Listed
  <2> QED
    BY <1>1, <2>1 DEF IndexAt, IndexOf
<1> QED
  BY <1>2, <1>3, IndexStep

LEMMA IndexLeave ==
  ASSUME Inv, IndexInv, UNCHANGED opts, NEW p \in Procs, Leave(p)
  PROVE  IndexInv'
<1>1. pc'[p] = "idle" /\ idx'[p] = Empty /\ UNCHANGED <<tree, now, cache>>
  BY DEF Leave, Go, Inv, StateOK
<1>2. Others(p)
  BY DEF Leave, Go, Pass, Forget, Others, Inv, StateOK
<1>3. IndexAt(p)'
  <2>1. Past(Empty)' /\ Paired(Empty)'
    BY EmptyOf DEF Past, Paired, Listed
  <2> QED
    BY <1>1, <2>1 DEF IndexAt, IndexOf
<1> QED
  BY <1>1, <1>2, <1>3, IndexStep

\* An edit has a timestamp that no index has recorded, where edits have
\* timestamps of their own.
LEMMA IndexEdit ==
  ASSUME Inv, IndexInv, UNCHANGED opts, NEW f \in Files,
         NEW v \in [c : Contents, m : Nat] \union {None}, Edit(f, v),
         now' \in Nat, now <= now', now' <= MaxTime,
         v # None => v.m <= now' /\ (Fine => now < v.m)
  PROVE  IndexInv'
<1>1. /\ tree' = [tree EXCEPT ![f] = v]
      /\ UNCHANGED <<cache, pc, built, todo, idx>>
  BY DEF Edit
<1>2. ASSUME NEW i \in Indexes, Past(i) PROVE Past(i)'
  <2>1. \A g \in Listed(i) : i.info[g].m \in Nat
    BY DEF Listed, Indexes
  <2> QED
    BY <1>2, <2>1 DEF Past, Listed, Inv, StateOK
<1>3. ASSUME NEW i \in Indexes, Past(i), Fine, NEW g \in Listed(i), Vouched(i, g)
      PROVE  Vouched(i, g)'
  <2>1. i.info[g].m \in Nat /\ g \in Files
    BY DEF Listed, Indexes
  <2>2. CASE g = f
    <3>1. tree'[g] = v
      BY <1>1, <2>1, <2>2 DEF Inv, StateOK
    <3>2. v # None => v.m \in Nat /\ now \in Nat /\ v.m # i.info[g].m
      BY <1>3, <2>1 DEF Past, Inv, StateOK
    <3> QED
      BY <3>1, <3>2 DEF Vouched
  <2>3. CASE g # f
    BY <1>1, <1>3, <2>1, <2>3 DEF Vouched, Inv, StateOK
  <2> QED
    BY <2>2, <2>3
<1>4. ASSUME NEW p \in Procs PROVE IndexAt(p)'
  <2>1. IndexAt(p) /\ idx[p] \in Indexes
    BY OfOne DEF IndexInv
  <2>2. Past(idx[p]) /\ Past(idx[p])'
    BY <1>1, <1>2, <2>1 DEF IndexAt, IndexOf, Past, Listed
  <2>3. ASSUME Fine, NEW g \in Listed(idx[p]), Vouched(idx[p], g) PROVE Vouched(idx[p], g)'
    BY <1>1, <1>3, <2>1, <2>2, <2>3 DEF Vouched
  <2>4. Listed(idx[p])' = Listed(idx[p])
    BY <1>1 DEF Listed
  <2> QED
    BY <1>1, <2>1, <2>2, <2>3, <2>4 DEF IndexAt, IndexOf, Paired, Whole, Fine
<1>5. \A g \in Files : tree'[g] # None => tree'[g].m <= now'
  <2> SUFFICES ASSUME NEW g \in Files, tree'[g] # None PROVE tree'[g].m <= now'
    OBVIOUS
  <2>1. CASE g = f
    BY <1>1, <2>1 DEF Inv, StateOK
  <2>2. CASE g # f
    <3>1. tree'[g] = tree[g] /\ tree[g].m <= now /\ tree[g].m \in Nat
      BY <1>1, <2>2, TreeFile DEF IndexInv, Inv, StateOK
    <3> QED
      BY <3>1 DEF Inv, StateOK
  <2> QED
    BY <2>1, <2>2
<1>6. CacheOK'
  <2>1. CASE cache = None
    BY <1>1, <2>1 DEF CacheOK
  <2>2. CASE cache # None
    <3>1. cache \in Indexes /\ CacheOK
      BY <2>2 DEF Inv, StateOK, IndexInv
    <3>2. Past(cache)'
      BY <1>1, <1>2, <2>2, <3>1 DEF CacheOK, Past, Listed
    <3> QED
      BY <1>1, <2>2, <3>1, <3>2 DEF CacheOK, Paired, Whole, Listed
  <2> QED
    BY <2>1, <2>2
<1> QED
  BY <1>4, <1>5, <1>6 DEF IndexInv

LEMMA IndexEditor ==
  ASSUME Inv, IndexInv, UNCHANGED opts, Editor
  PROVE  IndexInv'
<1>1. CASE \E f \in Files : Remove(f)
  <2> PICK f \in Files : Remove(f)
    BY <1>1
  <2> QED
    BY IndexEdit DEF Remove, Inv, StateOK, IndexInv
<1>2. CASE \E f \in Files : \E c \in Contents : Write(f, c)
  <2> PICK f \in Files, c \in Contents : Write(f, c)
    BY <1>2
  <2>1. now' \in Nat /\ now <= now' /\ now' <= MaxTime /\ (Fine => now < now')
    BY DEF Write, Inv, StateOK
  <2>2. [c |-> c, m |-> now'] \in [c : Contents, m : Nat] \union {None}
    BY <2>1
  <2>3. [c |-> c, m |-> now'].m <= now'
    BY <2>1
  <2> QED
    BY <2>1, <2>2, <2>3, IndexEdit DEF Write
<1> QED
  BY <1>1, <1>2 DEF Editor

-----------------------------------------------------------------------------
(* The same, step by step: walks and Index::build.                         *)

LEMMA IndexNow ==
  ASSUME Inv, IndexInv, NEW p \in Procs
  PROVE  IndexOf(idx[p], pc[p], built[p], todo[p]) /\ idx[p] \in Indexes
BY OfOne DEF IndexInv, IndexAt

LEMMA IndexWalks ==
  ASSUME Inv, IndexInv, UNCHANGED opts, NEW p \in Procs, NEW f \in Files,
         WalkPaths(p, f) \/ WalkIdentity(p, f)
  PROVE  IndexInv'
<1> DEFINE rest == todo[p] \ {f}
<1>1. pc[p] \in {"walk", "list", "check", "ident"}
  BY DEF WalkPaths, WalkIdentity
<1>2. Moves(p, pc[p], built[p], rest, seen'[p], idx[p])
  BY ProcessTypes DEF WalkPaths, WalkIdentity, Visit, Done, Pass, Moves, StateOK
<1>3. IndexOf(idx[p], pc[p], built[p], rest)
  BY <1>1, IndexNow DEF IndexOf
<1> HIDE DEF rest
<1> QED
  BY <1>2, <1>3, IndexMoves

LEMMA IndexBuildWalked ==
  ASSUME Inv, IndexInv, UNCHANGED opts, NEW p \in Procs, BuildWalked(p)
  PROVE  IndexInv'
<1>1. Moves(p, "read", built[p], seen[p], {}, idx[p])
  BY ProcessTypes DEF BuildWalked, Go, Pass, Forget, Moves, StateOK
<1>2. idx[p] = Empty
  BY IndexNow DEF BuildWalked, IndexOf
<1>3. \A f \in Files : Empty.filt[f] = None
  <2>1. Empty.filt = [f \in Files |-> None]
    BY DEF Empty
  <2> QED
    BY <2>1
<1>4. IndexOf(Empty, "read", built[p], seen[p])
  BY <1>3, EmptyOf DEF IndexOf
<1> QED
  BY <1>1, <1>2, <1>4, IndexMoves

\* An index with another entry, and other bytes, for one file.
Entered(x, f, r, c) == [x EXCEPT !.info[f] = r, !.bytes[f] = c]

LEMMA IndexEntry ==
  ASSUME NEW x \in Indexes, NEW f \in Files, NEW r \in [s : Nat, m : Nat],
         NEW c \in Contents \union {None}, NEW i, i = Entered(x, f, r, c)
  PROVE  /\ i \in Indexes /\ i.filt = x.filt
         /\ \A g \in Files : /\ i.info[g] = IF g = f THEN r ELSE x.info[g]
                             /\ i.bytes[g] = IF g = f THEN c ELSE x.bytes[g]
         /\ Listed(i) = Listed(x) \union {f}
<1> DEFINE I == [x.info EXCEPT ![f] = r]
           B == [x.bytes EXCEPT ![f] = c]
<1>1. i = [x EXCEPT !.info = I, !.bytes = B]
  BY DEF Indexes, Entered
<1>2. /\ I \in [Files -> [s : Nat, m : Nat] \union {None}]
      /\ B \in [Files -> Contents \union {None}]
      /\ \A g \in Files : /\ I[g] = IF g = f THEN r ELSE x.info[g]
                          /\ B[g] = IF g = f THEN c ELSE x.bytes[g]
  BY IndexParts
<1> HIDE DEF I, B
<1>3. i \in Indexes /\ i.filt = x.filt /\ i.info = I /\ i.bytes = B
  BY <1>1, <1>2 DEF Indexes
<1>4. r # None
  BY SourceAssumption
<1> QED
  BY <1>2, <1>3, <1>4 DEF Listed

\* A file that is read is listed, with its bytes and without filters.
LEMMA IndexRead ==
  ASSUME Inv, IndexInv, UNCHANGED opts, NEW p \in Procs, BuildRead(p)
  PROVE  IndexInv'
<1> DEFINE f    == First(todo[p])
           rest == todo[p] \ {f}
           c    == tree[f].c
           r    == [s |-> SizeNow(f), m |-> 0]
           i    == [idx[p] EXCEPT !.info[f] = r, !.bytes[f] = c]
<1>1. pc[p] = "read" /\ f \in Files /\ todo[p] # {} /\ idx[p] \in Indexes
  BY FirstIn, ProcessTypes DEF BuildRead
<1>2. /\ Past(idx[p]) /\ Whole(idx[p])
      /\ \A g \in Files : idx[p].filt[g] = None
      /\ \A fs : IndexOf(idx[p], "read", built[p], fs)
  BY <1>1, IndexNow DEF IndexOf
<1>3. CASE tree[f] = None
  <2>1. Moves(p, "read", built[p], rest, seen[p], idx[p])
    BY <1>3, ProcessTypes DEF BuildRead, Done, Pass, Moves, StateOK
  <2> HIDE DEF rest
  <2> QED
    BY <1>2, <2>1, IndexMoves
<1>4. CASE tree[f] # None
  <2>1. Moves(p, "stat", built[p], todo[p], seen[p], i)
    BY <1>4, ProcessTypes DEF BuildRead, Go, Moves, StateOK
  <2>2. c \in Contents /\ r \in [s : Nat, m : Nat] /\ r.m = 0
    BY <1>1, <1>4, TreeFile, ProcessTypes
  <2>0. i = Entered(idx[p], f, r, c)
    BY DEF Entered
  <2> HIDE DEF f, c, r, i
  <2>3. /\ i.filt = idx[p].filt /\ Listed(i) = Listed(idx[p]) \union {f}
        /\ \A g \in Files : /\ i.info[g] = IF g = f THEN r ELSE idx[p].info[g]
                            /\ i.bytes[g] = IF g = f THEN c ELSE idx[p].bytes[g]
    BY <1>1, <2>0, <2>2, IndexEntry
  <2>4. Past(i)
    <3> SUFFICES ASSUME NEW g \in Listed(i) PROVE i.info[g].m <= now
      BY DEF Past
    <3>1. now \in Nat /\ g \in Files
      BY DEF Listed, Inv, StateOK
    <3>2. CASE g = f
      BY <2>2, <2>3, <3>1, <3>2
    <3>3. CASE g # f
      BY <1>2, <2>3, <3>1, <3>3 DEF Past
    <3> QED
      BY <3>2, <3>3
  <2>5. Whole(i)
    BY <1>2, <2>2, <2>3, SourceAssumption DEF Whole
  <2>6. IndexOf(i, "stat", built[p], todo[p])
    BY <1>2, <2>3, <2>4, <2>5 DEF IndexOf
  <2> QED
    BY <2>1, <2>6, IndexMoves
<1> QED
  BY <1>3, <1>4

\* The timestamp that is taken is not ahead of the clock.
LEMMA IndexStat ==
  ASSUME Inv, IndexInv, UNCHANGED opts, NEW p \in Procs, BuildStat(p)
  PROVE  IndexInv'
<1> DEFINE f    == First(todo[p])
           rest == todo[p] \ {f}
           r    == [idx[p].info[f] EXCEPT !.m = MtimeNow(f)]
           c    == idx[p].bytes[f]
           j    == [idx[p] EXCEPT !.info[f].m = MtimeNow(f)]
           i    == [idx[p] EXCEPT !.info[f] = r, !.bytes[f] = c]
<1>1. pc[p] = "stat" /\ f \in Files /\ idx[p] \in Indexes /\ idx[p].info[f] # None
  BY FirstIn, ProcessTypes DEF BuildStat
<1>2. /\ Past(idx[p]) /\ Whole(idx[p])
      /\ \A g \in Files : idx[p].filt[g] = None
  BY <1>1, IndexNow DEF IndexOf
<1>3. MtimeNow(f) \in Nat /\ MtimeNow(f) <= now
  <2>1. now \in Nat
    BY DEF Inv, StateOK
  <2>2. CASE tree[f] = None
    BY <2>1, <2>2 DEF MtimeNow
  <2>3. CASE tree[f] # None
    BY <1>1, <2>3, TreeFile DEF MtimeNow, Inv, IndexInv
  <2> QED
    BY <2>2, <2>3
<1>4. r \in [s : Nat, m : Nat] /\ r.m = MtimeNow(f) /\ c \in Contents \union {None}
  BY <1>1, <1>3, IndexParts
<1>5. j = i
  BY <1>1 DEF Indexes
<1>6. Moves(p, "read", built[p], rest, seen[p], j)
  BY ProcessTypes DEF BuildStat, Go, Done, Pass, Moves, StateOK
<1>0. i = Entered(idx[p], f, r, c)
  BY DEF Entered
<1> HIDE DEF f, r, c, j, rest, i
<1>7. /\ i.filt = idx[p].filt /\ Listed(i) = Listed(idx[p]) \union {f}
      /\ \A g \in Files : /\ i.info[g] = IF g = f THEN r ELSE idx[p].info[g]
                          /\ i.bytes[g] = IF g = f THEN c ELSE idx[p].bytes[g]
  BY <1>0, <1>1, <1>4, IndexEntry
<1>8. Past(i)
  <2> SUFFICES ASSUME NEW g \in Listed(i) PROVE i.info[g].m <= now
    BY DEF Past
  <2>1. g \in Files
    BY DEF Listed
  <2>2. CASE g = f
    BY <1>3, <1>4, <1>7, <2>1, <2>2
  <2>3. CASE g # f
    BY <1>2, <1>7, <2>1, <2>3 DEF Past
  <2> QED
    BY <2>2, <2>3
<1>9. Whole(i)
  BY <1>1, <1>2, <1>7 DEF Whole, Listed, c
<1>10. IndexOf(i, "read", built[p], rest)
  BY <1>2, <1>7, <1>8, <1>9 DEF IndexOf
<1> QED
  BY <1>5, <1>6, <1>10, IndexMoves

\* An index that is complete.
LEMMA IndexFinish ==
  ASSUME Inv, IndexInv, UNCHANGED opts, NEW p \in Procs, Finish(p),
         UNCHANGED <<tree, now, cache, built, lived>>,
         NEW i, idx' = [idx EXCEPT ![p] = i], Past(i), Paired(i), Whole(i)
  PROVE  IndexInv'
<1>1. Moves(p, "ident", built[p], Files, {}, i) \/ Moves(p, "search", built[p], todo[p], seen[p], i)
  BY ProcessTypes DEF Finish, StartWalk, Go, Pass, Forget, Moves, StateOK
<1>2. \A fs : \A at \in {"ident", "search"} : IndexOf(i, at, built[p], fs)
  BY DEF IndexOf
<1> QED
  BY <1>1, <1>2, IndexMoves

LEMMA IndexFilter ==
  ASSUME Inv, IndexInv, UNCHANGED opts, NEW p \in Procs, BuildFilters(p)
  PROVE  IndexInv'
<1> DEFINE i == [idx[p] EXCEPT !.filt = idx[p].bytes]
<1>1. /\ pc[p] = "read" /\ todo[p] = {} /\ idx' = [idx EXCEPT ![p] = i]
      /\ UNCHANGED <<tree, now, cache, built, lived>>
  BY DEF BuildFilters
<1>2. i.filt = idx[p].bytes /\ i.bytes = idx[p].bytes /\ i.info = idx[p].info
  BY ProcessTypes DEF Indexes
<1> HIDE DEF i
<1>3. Past(idx[p]) /\ Whole(idx[p])
  BY <1>1, IndexNow DEF IndexOf
<1>4. Past(i) /\ Paired(i) /\ Whole(i) /\ Listed(i) = Listed(idx[p])
  BY <1>2, <1>3 DEF Past, Paired, Whole, Listed
<1>5. CASE Persist
  BY <1>1, <1>4, <1>5, IndexFinish DEF BuildFilters
<1>6. CASE ~Persist
  <2>1. Moves(p, "size", built[p], Listed(idx[p]), seen[p], i)
    BY <1>1, <1>6, ProcessTypes DEF BuildFilters, Go, Pass, Moves, StateOK
  <2>2. built[p]
    BY <1>1, <1>6, Reading
  <2>3. IndexOf(i, "size", built[p], Listed(i))
    BY <1>4, <2>2 DEF IndexOf, Whole, Listed
  <2> QED
    BY <1>4, <2>1, <2>3, IndexMoves
<1> QED
  BY <1>5, <1>6

-----------------------------------------------------------------------------
(* CorpusProvider::mapped, Index::save, Index::load and Index::fresh.      *)

\* What holds while providers are attached.
LEMMA IndexAttaching ==
  ASSUME Inv, IndexInv, NEW p \in Procs, pc[p] \in {"size", "mtime", "copy"}
  PROVE  /\ Past(idx[p]) /\ Paired(idx[p]) /\ todo[p] \subseteq Listed(idx[p])
         /\ \A f \in Files : idx[p].bytes[f] # None => f \in Listed(idx[p])
         /\ \A f \in Listed(idx[p]) : built[p] \/ f \notin todo[p] => idx[p].bytes[f] # None
         /\ Fine /\ ~built[p] =>
              \A f \in Listed(idx[p]) \ todo[p] : Vouched(idx[p], f)
BY IndexNow, Attaching DEF IndexOf

\* The index stays as it is.
LEMMA IndexPass ==
  ASSUME Inv, IndexInv, UNCHANGED opts, NEW p \in Procs, pc[p] \in {"size", "mtime", "copy"},
         NEW to \in {"size", "mtime", "copy"}, NEW fs \in SUBSET todo[p],
         ~built[p] => fs = todo[p], Moves(p, to, built[p], fs, seen[p], idx[p])
  PROVE  IndexInv'
<1>1. IndexOf(idx[p], to, built[p], fs)
  BY IndexAttaching DEF IndexOf
<1> QED
  BY <1>1, IndexMoves

LEMMA IndexRefuse ==
  ASSUME Inv, IndexInv, UNCHANGED opts, NEW p \in Procs, pc[p] \in {"size", "mtime", "copy"},
         NEW f, Refuse(p, f), UNCHANGED <<tree, now, cache, lived>>
  PROVE  IndexInv'
<1> DEFINE rest == todo[p] \ {f}
<1>1. CASE built[p]
  <2>1. Moves(p, "size", built[p], rest, seen[p], idx[p])
    BY <1>1, ProcessTypes DEF Refuse, Go, Done, Pass, Moves, StateOK
  <2>2. rest \in SUBSET todo[p]
    OBVIOUS
  <2> HIDE DEF rest
  <2> QED
    BY <1>1, <2>1, <2>2, IndexPass
<1>2. CASE ~built[p]
  BY <1>2, IndexRebuild DEF Refuse
<1> QED
  BY <1>1, <1>2

LEMMA IndexMapped ==
  ASSUME Inv, IndexInv, UNCHANGED opts, NEW p \in Procs, MappedSize(p) \/ MappedMtime(p)
  PROVE  IndexInv'
<1> DEFINE f == First(todo[p])
<1>1. pc[p] \in {"size", "mtime"} /\ UNCHANGED <<tree, now, cache, lived>>
  BY DEF MappedSize, MappedMtime
<1>2. Refuse(p, f) \/ \E to \in {"mtime", "copy"} : Moves(p, to, built[p], todo[p], seen[p], idx[p])
  BY ProcessTypes DEF MappedSize, MappedMtime, Go, Moves, StateOK
<1>3. CASE Refuse(p, f)
  BY <1>1, <1>3, IndexRefuse
<1>4. CASE \E to \in {"mtime", "copy"} : Moves(p, to, built[p], todo[p], seen[p], idx[p])
  <2> PICK to \in {"mtime", "copy"} : Moves(p, to, built[p], todo[p], seen[p], idx[p])
    BY <1>4
  <2> QED
    BY <1>1, IndexPass
<1> QED
  BY <1>2, <1>3, <1>4

\* The copy is of the file as it is: its timestamp vouches for it.
LEMMA IndexCopy ==
  ASSUME Inv, IndexInv, UNCHANGED opts, NEW p \in Procs, MappedCopy(p)
  PROVE  IndexInv'
<1> DEFINE f    == First(todo[p])
           rest == todo[p] \ {f}
           c    == tree[f].c
           i    == [idx[p] EXCEPT !.bytes[f] = c]
<1>1. /\ pc[p] = "copy" /\ UNCHANGED <<tree, now, cache, lived>>
      /\ f \in todo[p] /\ f \in Files /\ idx[p] \in Indexes
  BY ProcessTypes, FirstIn DEF MappedCopy
<1>2. CASE Refuse(p, f)
  BY <1>1, <1>2, IndexRefuse
<1>3. CASE tree[f] # None /\ Moves(p, "size", built[p], rest, seen[p], i)
  <2>1. c \in Contents /\ c # None
    BY <1>1, <1>3, TreeFile, ProcessTypes, SourceAssumption
  <2>2. /\ i.info = idx[p].info /\ i.filt = idx[p].filt
        /\ \A g \in Files : i.bytes[g] = IF g = f THEN c ELSE idx[p].bytes[g]
    <3> HIDE DEF f, c
    <3> QED
      BY <1>1, <2>1 DEF Indexes
  <2> HIDE DEF i
  <2>3. Listed(i) = Listed(idx[p]) /\ Listed(i) \subseteq Files
    BY <2>2 DEF Listed
  <2>4. Past(i) /\ Paired(i)
    BY <1>1, <2>2, <2>3, IndexAttaching DEF Past, Paired
  <2>5. f \in Listed(idx[p])
    BY <1>1, IndexAttaching
  <2>6. /\ \A g \in Files : i.bytes[g] # None => g \in Listed(i)
        /\ \A g \in Listed(i) : built[p] \/ g \notin rest => i.bytes[g] # None
    <3> HIDE DEF f, c
    <3> QED
      BY <1>1, <2>1, <2>2, <2>3, <2>5, IndexAttaching DEF rest
  <2>7. ASSUME Fine, ~built[p], NEW g \in Listed(i) \ rest PROVE Vouched(i, g)
    <3>1. CASE g = f
      BY <1>1, <2>2, <3>1 DEF Vouched
    <3>2. CASE g # f
      <4>1. Vouched(idx[p], g) /\ g \in Files
        BY <1>1, <2>3, <2>7, <3>2, IndexAttaching
      <4> QED
        BY <2>2, <3>2, <4>1 DEF Vouched
    <3> QED
      BY <3>1, <3>2
  <2>8. rest \subseteq Listed(i)
    BY <1>1, <2>3, IndexAttaching
  <2> HIDE DEF rest
  <2>9. IndexOf(i, "size", built[p], rest)
    BY <2>4, <2>6, <2>7, <2>8 DEF IndexOf
  <2> QED
    BY <1>3, <2>9, IndexMoves
<1>4. Refuse(p, f) \/ (tree[f] # None /\ Moves(p, "size", built[p], rest, seen[p], i))
  BY ProcessTypes DEF MappedCopy, Go, Done, Pass, Moves, StateOK
<1> QED
  BY <1>2, <1>3, <1>4

LEMMA IndexAttached ==
  ASSUME Inv, IndexInv, UNCHANGED opts, NEW p \in Procs, Attached(p)
  PROVE  IndexInv'
<1>1. /\ pc[p] = "size" /\ todo[p] = {} /\ UNCHANGED <<tree, now, cache, built, idx, lived>>
      /\ idx' = [idx EXCEPT ![p] = idx[p]]
  BY ProcessTypes DEF Attached, StateOK
<1>2. Past(idx[p]) /\ Paired(idx[p]) /\ Whole(idx[p])
  BY <1>1, IndexAttaching DEF Whole
<1>3. CASE built[p]
  BY <1>1, <1>2, <1>3, IndexFinish DEF Attached
<1>4. CASE ~built[p]
  <2>1. Moves(p, "list", built[p], Files, {}, idx[p])
    BY <1>1, <1>4, ProcessTypes DEF Attached, StartWalk, Go, Pass, Forget, Moves, StateOK
  <2>2. Fine => \A f \in Listed(idx[p]) : Vouched(idx[p], f)
    BY <1>1, <1>4, IndexAttaching
  <2>3. IndexOf(idx[p], "list", built[p], Files)
    BY <1>2, <2>2 DEF IndexOf
  <2> QED
    BY <2>1, <2>3, IndexMoves
<1> QED
  BY <1>3, <1>4

\* What is saved is complete, but for the bytes that are not to be persisted.
LEMMA IndexSave ==
  ASSUME Inv, IndexInv, UNCHANGED opts, NEW p \in Procs, Save(p)
  PROVE  IndexInv'
<1> DEFINE B == IF Persist THEN idx[p].bytes ELSE Empty.bytes
           i == [idx[p] EXCEPT !.ident = seen[p], !.bytes = B]
<1>1. /\ pc[p] = "ident" /\ cache' = i
      /\ pc' = [pc EXCEPT ![p] = "search"] /\ seen' = [seen EXCEPT ![p] = {}]
      /\ UNCHANGED <<tree, now, built, todo, idx, lived>>
  BY ProcessTypes DEF Save, Go, Forget, Indexes
<1>2. i.info = idx[p].info /\ i.filt = idx[p].filt /\ i.bytes = B
  BY ProcessTypes DEF Indexes
<1> HIDE DEF i
<1>3. Past(idx[p]) /\ Paired(idx[p]) /\ Whole(idx[p])
  BY <1>1, IndexNow DEF IndexOf
<1>4. CacheOK'
  BY <1>1, <1>2, <1>3 DEF CacheOK, Past, Paired, Whole, Listed
<1>5. pc'[p] = "search" /\ idx'[p] = idx[p] /\ now' = now
  BY <1>1 DEF Inv, StateOK
<1>6. IndexAt(p)'
  BY <1>3, <1>5 DEF IndexAt, IndexOf, Past, Paired, Whole, Listed
<1>7. Others(p)
  BY <1>1 DEF Others, Inv, StateOK
<1> QED
  BY <1>4, <1>5, <1>6, <1>7, IndexStep

LEMMA IndexBegin ==
  ASSUME Inv, IndexInv, UNCHANGED opts, NEW p \in Procs, Begin(p)
  PROVE  IndexInv'
<1>1. /\ pc[p] = "idle" /\ UNCHANGED <<tree, now, cache>>
      /\ \A q \in Procs \ {p} : lived'[q] = lived[q]
  BY DEF Begin, Inv, StateOK
<1>2. CASE Rebuild(p)
  BY <1>1, <1>2, IndexRebuild
<1>3. CASE Go(p, "load") /\ UNCHANGED <<built, todo, seen, idx>>
  <2>1. idx[p] = Empty
    BY <1>1, IndexNow DEF IndexOf
  <2>2. pc'[p] = "load" /\ idx'[p] = Empty
    BY <1>3, <2>1 DEF Go, Inv, StateOK
  <2>3. Others(p)
    BY <1>1, <1>3 DEF Go, Others, Inv, StateOK
  <2>4. Past(Empty)' /\ Paired(Empty)'
    BY EmptyOf DEF Past, Paired, Listed
  <2>5. IndexAt(p)'
    BY <2>2, <2>4 DEF IndexAt, IndexOf
  <2> QED
    BY <1>1, <2>3, <2>5, IndexStep
<1> QED
  BY <1>2, <1>3 DEF Begin

LEMMA IndexLoad ==
  ASSUME Inv, IndexInv, UNCHANGED opts, NEW p \in Procs, Load(p)
  PROVE  IndexInv'
<1> DEFINE to == IF Persist THEN "list" ELSE "check"
<1>1. pc[p] = "load" /\ UNCHANGED <<tree, now, cache, lived>>
  BY DEF Load
<1>2. CASE cache = None
  BY <1>1, <1>2, IndexRebuild DEF Load
<1>3. CASE cache # None
  <2>1. Moves(p, to, built[p], Files, {}, cache)
    BY <1>1, <1>3, ProcessTypes DEF Load, StartWalk, Go, Pass, Forget, Moves, StateOK
  <2>2. Past(cache) /\ Paired(cache) /\ (Persist => Whole(cache))
    BY <1>3 DEF IndexInv, CacheOK
  <2>3. ~Persist => \A f \in Files : cache.bytes[f] = None
    BY <1>1, <1>3, OfOne, EmptyIndex
  <2>4. IndexOf(cache, to, built[p], Files)
    BY <2>2, <2>3 DEF IndexOf
  <2> QED
    BY <2>1, <2>4, IndexMoves
<1> QED
  BY <1>2, <1>3

LEMMA IndexChecked ==
  ASSUME Inv, IndexInv, UNCHANGED opts, NEW p \in Procs, LoadChecked(p)
  PROVE  IndexInv'
<1> DEFINE fs == Listed(idx[p])
<1>1. pc[p] = "check" /\ UNCHANGED <<tree, now, cache, lived>>
  BY DEF LoadChecked
<1>2. CASE Rebuild(p)
  BY <1>1, <1>2, IndexRebuild
<1>3. CASE Moves(p, "size", built[p], fs, {}, idx[p])
  <2>1. /\ Past(idx[p]) /\ Paired(idx[p]) /\ ~built[p]
        /\ \A f \in Files : idx[p].bytes[f] = None
    BY <1>1, IndexNow, Attaching DEF IndexOf
  <2>2. IndexOf(idx[p], "size", built[p], fs)
    BY <2>1 DEF IndexOf
  <2> QED
    BY <1>3, <2>2, IndexMoves
<1>4. Rebuild(p) \/ Moves(p, "size", built[p], fs, {}, idx[p])
  BY <1>1, ProcessTypes DEF LoadChecked, Go, Pass, Forget, Moves, StateOK
<1> QED
  BY <1>2, <1>3, <1>4

\* The checks of Index::fresh leave the index as it is.
LEMMA IndexFresh ==
  ASSUME Inv, IndexInv, UNCHANGED opts, NEW p \in Procs,
         FreshPaths(p) \/ FreshSize(p) \/ FreshMtime(p) \/ Fresh(p)
  PROVE  IndexInv'
<1> DEFINE rest == todo[p] \ {First(todo[p])}
           fs   == Listed(idx[p])
<1>1. pc[p] \in {"list", "fsize", "fmtime"} /\ UNCHANGED <<tree, now, cache, lived>>
  BY DEF FreshPaths, FreshSize, FreshMtime, Fresh
<1>2. CASE Rebuild(p)
  BY <1>1, <1>2, IndexRebuild
<1>3. /\ Past(idx[p]) /\ Paired(idx[p]) /\ Whole(idx[p])
      /\ Fine /\ ~Persist => \A f \in fs : Vouched(idx[p], f)
      /\ pc[p] # "list" => todo[p] \subseteq fs
  BY <1>1, IndexNow DEF IndexOf
<1>4. ASSUME NEW to \in {"fsize", "fmtime", "search"}, NEW fs2 \in SUBSET fs,
             NEW found, Moves(p, to, built[p], fs2, found, idx[p])
      PROVE  IndexInv'
  <2>1. IndexOf(idx[p], to, built[p], fs2)
    BY <1>3 DEF IndexOf
  <2> QED
    BY <1>4, <2>1, IndexMoves
<1>5. CASE FreshPaths(p)
  <2>1. Rebuild(p) \/ Moves(p, "fsize", built[p], fs, {}, idx[p])
    BY <1>5, ProcessTypes DEF FreshPaths, Go, Pass, Forget, Moves, StateOK
  <2> QED
    BY <1>2, <1>4, <2>1
<1>6. CASE FreshSize(p)
  <2>1. Rebuild(p) \/ Moves(p, "fmtime", built[p], todo[p], seen[p], idx[p])
    BY <1>6, ProcessTypes DEF FreshSize, Go, Moves, StateOK
  <2>2. pc[p] # "list"
    BY <1>6 DEF FreshSize
  <2> QED
    BY <1>2, <1>3, <1>4, <2>1, <2>2
<1>7. CASE FreshMtime(p)
  <2>1. Rebuild(p) \/ Moves(p, "fsize", built[p], rest, seen[p], idx[p])
    BY <1>7, ProcessTypes DEF FreshMtime, Go, Done, Pass, Moves, StateOK
  <2>2. rest \in SUBSET fs
    BY <1>3, <1>7 DEF FreshMtime
  <2> HIDE DEF rest
  <2> QED
    BY <1>2, <1>4, <2>1, <2>2
<1>8. CASE Fresh(p)
  <2>1. Moves(p, "search", built[p], todo[p], seen[p], idx[p])
    BY <1>8, ProcessTypes DEF Fresh, Go, Moves, StateOK
  <2>2. pc[p] # "list"
    BY <1>8 DEF Fresh
  <2> QED
    BY <1>3, <1>4, <2>1, <2>2
<1> QED
  BY <1>5, <1>6, <1>7, <1>8

-----------------------------------------------------------------------------
(* The specification.                                                      *)

LEMMA IndexInit ==
  ASSUME Init
  PROVE  IndexInv
<1>1. /\ now = 1 /\ cache = None
      /\ tree \in [Files -> [c : Contents, m : {1}] \union {None}]
      /\ \A p \in Procs : pc[p] = "idle" /\ idx[p] = Empty
  BY DEF Init
<1>2. \A f \in Files : tree[f] # None => tree[f].m <= now
  BY <1>1
<1>3. now <= MaxTime
  BY <1>1, SourceAssumption
<1> QED
  BY <1>1, <1>2, <1>3, EmptyOf DEF IndexInv, IndexAt, CacheOK

LEMMA IndexStutter ==
  ASSUME IndexInv, UNCHANGED <<tree, now, pc, built, todo, idx, opts>>, CacheOK'
  PROVE  IndexInv'
BY DEF IndexInv, IndexAt, IndexOf, Past, Paired, Whole, Vouched, Fine, Listed

LEMMA IndexKeeps ==
  ASSUME Inv, IndexInv, [Next]_vars
  PROVE  IndexInv'
<1>1. ASSUME NEW p \in Procs, Step(p) PROVE IndexInv'
  <2>0. UNCHANGED opts
    BY <1>1 DEF Step
  <2>1. CASE \E f \in Files : WalkPaths(p, f) \/ WalkIdentity(p, f)
    BY <2>0, <2>1, IndexWalks
  <2>2. CASE BuildWalked(p) \/ BuildRead(p) \/ BuildStat(p) \/ BuildFilters(p)
    BY <2>0, <2>2, IndexBuildWalked, IndexRead, IndexStat, IndexFilter
  <2>3. CASE MappedSize(p) \/ MappedMtime(p) \/ MappedCopy(p) \/ Attached(p)
    BY <2>0, <2>3, IndexMapped, IndexCopy, IndexAttached
  <2>4. CASE Save(p) \/ Begin(p) \/ Load(p) \/ LoadChecked(p)
    BY <2>0, <2>4, IndexSave, IndexBegin, IndexLoad, IndexChecked
  <2>5. CASE FreshPaths(p) \/ FreshSize(p) \/ FreshMtime(p) \/ Fresh(p)
    BY <2>0, <2>5, IndexFresh
  <2>6. CASE Search(p)
    BY <2>0, <2>6, IndexLeave DEF Search
  <2> QED
    BY <1>1, <2>1, <2>2, <2>3, <2>4, <2>5, <2>6 DEF Step
<1>2. ASSUME NEW p \in Procs, Die(p), UNCHANGED opts PROVE IndexInv'
  BY <1>2, IndexLeave DEF Die
<1>3. ASSUME LoseCache, UNCHANGED opts PROVE IndexInv'
  <2>1. CacheOK'
    BY <1>3 DEF LoseCache, CacheOK
  <2> QED
    BY <1>3, <2>1, IndexStutter DEF LoseCache
<1>4. ASSUME UNCHANGED vars PROVE IndexInv'
  <2>1. UNCHANGED <<tree, now, cache, pc, built, todo, idx, opts>>
    BY <1>4 DEF vars
  <2>2. CacheOK'
    BY <2>1 DEF IndexInv, CacheOK, Past, Paired, Whole, Listed
  <2> QED
    BY <2>1, <2>2, IndexStutter
<1> QED
  BY <1>1, <1>2, <1>3, <1>4, IndexEditor DEF Next

\* Only the check of the timestamp lets Index::fresh go on to the next file.
LEMMA VouchesStep ==
  ASSUME Inv, IndexInv, [Next]_vars, NEW p \in Procs, Fine, ~Persist,
         pc[p] = "fmtime", pc'[p] = "fsize", idx[p].info[First(todo[p])].m # 0
  PROVE  tree[First(todo[p])] # None /\ tree[First(todo[p])].c = idx[p].bytes[First(todo[p])]
<1> DEFINE f == First(todo[p])
<1>1. f \in todo[p] /\ f \in Files
  BY FirstIn, ProcessTypes
<1>2. f \in Listed(idx[p]) /\ Vouched(idx[p], f)
  BY <1>1, IndexNow DEF IndexOf
<1>3. FreshMtime(p)
  <2>1. ASSUME NEW q \in Procs, q # p, Step(q) \/ Die(q) PROVE pc'[p] = pc[p]
    BY <2>1 DEF Step, Die, Search, Leave, WalkPaths, WalkIdentity, Visit, BuildWalked, BuildRead,
      BuildStat, BuildFilters, Finish, MappedSize, MappedMtime, MappedCopy, Attached, Refuse,
      Rebuild, Save, Begin, Load, LoadChecked, FreshPaths, FreshSize, FreshMtime, Fresh,
      StartWalk, Go, Inv, StateOK
  <2>2. ASSUME Die(p) PROVE pc'[p] = "idle"
    BY <2>2 DEF Die, Leave, Go, Inv, StateOK
  <2>3. ASSUME Editor \/ LoseCache \/ UNCHANGED vars PROVE pc'[p] = pc[p]
    BY <2>3 DEF Editor, Write, Remove, Edit, LoseCache, vars
  <2>4. Step(p)
    BY <2>1, <2>2, <2>3 DEF Next
  <2> QED
    BY <2>4 DEF Step, WalkPaths, WalkIdentity, BuildWalked, BuildRead, BuildStat, BuildFilters,
      MappedSize, MappedMtime, MappedCopy, Attached, Save, Begin, Load, LoadChecked,
      FreshPaths, FreshSize, Fresh, Search
<1>4. MtimeNow(f) = idx[p].info[f].m
  <2>1. CASE Rebuild(p)
    BY <2>1 DEF Rebuild, StartWalk, Go, Inv, StateOK
  <2> QED
    BY <1>3, <2>1 DEF FreshMtime
<1> HIDE DEF f
<1>5. tree[f] # None /\ tree[f].m = idx[p].info[f].m
  BY <1>4 DEF MtimeNow, f
<1> QED
  BY <1>2, <1>5 DEF Vouched, f

\* The types of the state, whatever the editor does to the tree, however many
\* processes share the cache, and wherever they die.
THEOREM SourceTypes == Spec => []StateOK
<1>1. Init => Inv
  BY InitHolds
<1>2. Inv /\ [Next]_vars => Inv'
  BY NextKeeps
<1>3. Inv => StateOK
  BY DEF Inv
<1> QED
  BY <1>1, <1>2, <1>3, PTL DEF Spec

\* A source-backed snapshot holds no bytes, and no run holds bytes of before it
\* began (Index::load, Index::fresh, Index::build and CorpusProvider::mapped).
THEOREM TimeInvariant == Spec => []TimeInv
<1>1. Init => Inv
  BY InitHolds
<1>2. Inv /\ [Next]_vars => Inv'
  BY NextKeeps
<1>3. Inv => TimeInv
  BY DEF Inv
<1> QED
  BY <1>1, <1>2, <1>3, PTL DEF Spec

\* Without a packed corpus a search never sees a content that a file had only
\* before the run began, nor misses a file that was there throughout the run.
THEOREM SeesItsTime == Spec => []RunSeesItsTime
<1>1. Inv => RunSeesItsTime
  <2> SUFFICES ASSUME Inv, NEW p \in Procs, pc[p] = "search", ~Persist, NEW f \in Files
               PROVE  idx[p].bytes[f] \in lived[p][f]
    BY DEF RunSeesItsTime
  <2> QED
    BY OfOne DEF RunAt, Lived
<1>2. Init => Inv
  BY InitHolds
<1>3. Inv /\ [Next]_vars => Inv'
  BY NextKeeps
<1> QED
  BY <1>1, <1>2, <1>3, PTL DEF Spec

\* With a packed corpus the filters that a search uses are those of the bytes
\* it verifies matches in (CorpusProvider::resident, Index::save, Index::load).
THEOREM PackedFilters == Spec => []PackedFiltersOfBytes
<1>1. Inv => PackedFiltersOfBytes
  <2> SUFFICES ASSUME Inv, Persist, NEW p \in Procs, pc[p] = "search"
               PROVE  idx[p].filt = idx[p].bytes
    BY DEF PackedFiltersOfBytes, FiltersOfBytes
  <2> QED
    BY OfOne DEF PackedAt
<1>2. Init => Inv
  BY InitHolds
<1>3. Inv /\ [Next]_vars => Inv'
  BY NextKeeps
<1> QED
  BY <1>1, <1>2, <1>3, PTL DEF Spec

\* A run over a packed corpus attaches no providers, and a packed snapshot, like
\* an index that is complete, holds the bytes its filters were computed from.
THEOREM PackedInvariant == Spec => []PackedInv
<1>1. Init => Inv
  BY InitHolds
<1>2. Inv /\ [Next]_vars => Inv'
  BY NextKeeps
<1>3. Inv => PackedInv
  BY DEF Inv
<1> QED
  BY <1>1, <1>2, <1>3, PTL DEF Spec

\* The types of the state with what they say of an index: filters only for files
\* that are listed, and once loading or building is over, filters and bytes for
\* each of them (Index::build, Index::load, CorpusProvider::mapped).
THEOREM TypesHold == Spec => []TypeOK
<1>1. Init => Inv /\ IndexInv
  BY InitHolds, IndexInit
<1>2. Inv /\ IndexInv /\ [Next]_vars => (Inv /\ IndexInv)'
  BY NextKeeps, IndexKeeps
<1>3. Inv /\ IndexInv => TypeOK
  <2> SUFFICES ASSUME Inv, IndexInv, NEW p \in Procs, NEW f \in Files
               PROVE  /\ idx[p].filt[f] # None => idx[p].info[f] # None
                      /\ pc[p] \in {"fsize", "fmtime", "ident", "search"} =>
                           /\ idx[p].bytes[f] # None <=> f \in Listed(idx[p])
                           /\ idx[p].filt[f] # None <=> f \in Listed(idx[p])
    BY DEF TypeOK, Inv, IndexInv
  <2> QED
    BY IndexNow DEF IndexOf, Paired, Whole, Listed
<1> QED
  BY <1>1, <1>2, <1>3, PTL DEF Spec

\* Where no two edits share a timestamp, the bytes for which Index::fresh accepts
\* a timestamp are those of the file at that moment, however long before they
\* were copied and whatever was edited in between.
THEOREM FreshVouches == Spec => FreshVouchesForBytes
<1>1. Init => Inv /\ IndexInv
  BY InitHolds, IndexInit
<1>2. Inv /\ IndexInv /\ [Next]_vars => (Inv /\ IndexInv)'
  BY NextKeeps, IndexKeeps
<1> DEFINE Vouches ==
      \A p \in Procs :
        LET f == First(todo[p])
        IN Fine /\ ~Persist /\ pc[p] = "fmtime" /\ pc'[p] = "fsize"
             /\ idx[p].info[f].m # 0 =>
             tree[f] # None /\ tree[f].c = idx[p].bytes[f]
<1>3. Inv /\ IndexInv /\ [Next]_vars => [Vouches]_vars
  BY VouchesStep
<1>4. Spec => [][Vouches]_vars
  BY <1>1, <1>2, <1>3, PTL DEF Spec
<1> QED
  BY <1>4 DEF FreshVouchesForBytes
=============================================================================
