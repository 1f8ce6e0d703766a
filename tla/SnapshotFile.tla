---------------------------- MODULE SnapshotFile ----------------------------
(***************************************************************************)
(* One cache directory and the threads that publish and read the snapshot  *)
(* in it: Index::save, Index::load_impl and Index::cleanup_orphans of      *)
(* src/src/index.cpp.                                                      *)
(*                                                                         *)
(* A file is a sequence of cells: body cells (a piece of the serialized    *)
(* index), holes (bytes skipped by a handle that writes past the end), and *)
(* the 8-byte trailer, which stands for the FNV checksum of the cells it   *)
(* was computed over.  Directory entries and open handles name inodes, so  *)
(* that a file that is unlinked or renamed while it is open behaves as the *)
(* file system makes it behave.                                            *)
(***************************************************************************)
EXTENDS Naturals, Sequences

CONSTANTS
  Threads,     \* the threads that use the cache directory
  CanSave,     \* those that call Index::save
  CanLoad,     \* those that call Index::load
  Pid,         \* the process each thread belongs to; it names the temporary
  Gens,        \* the index generations that may be saved
  BodyLen,     \* how many cells the body of a generation takes
  Inodes,      \* file-system objects
  Final,       \* the published name, file
  None,        \* no inode, no generation, no cell
  PowerLoss    \* may the machine lose what was never synced?

Pids  == {Pid[t] : t \in Threads}
Names == Pids \union {Final}      \* file and file.tmp.<pid>

\* A bug to compare with: one fixed name, file.tmp, for every process.
TempShared(t) == CHOOSE p \in Pids : TRUE

Temp(t) == Pid[t]                 \* file.tmp.<pid>: nothing tells threads apart

ASSUME SnapshotAssumption ==
  /\ CanSave \subseteq Threads /\ CanLoad \subseteq Threads
  /\ BodyLen \in [Gens -> Nat \ {0}]
  /\ DOMAIN Pid = Threads
  /\ Final \notin Pids
  /\ None \notin Inodes /\ None \notin Gens
  /\ PowerLoss \in BOOLEAN

VARIABLES
  dir,     \* the inode each name of the directory stands for
  data,    \* the cells of each inode
  pc,      \* where each thread is
  gen,     \* the generation a thread is saving
  wr,      \* the inode behind its output stream
  off,     \* how many cells that stream has written
  size,    \* body_end of a save, snapshot_size of a load
  sum,     \* the checksum a save computed or a load read
  rd,      \* the inode behind the input stream of a load
  todo,    \* the temporaries a load has listed and not yet removed
  held,    \* history: the generations Final held since the load began
  got,     \* the generations the last accepted load was parsed from
  hurt     \* history: has a power cut or a beheading struck?

vars == <<dir, data, pc, gen, wr, off, size, sum, rd, todo, held, got, hurt>>

-----------------------------------------------------------------------------
(* Files.                                                                  *)

Cell(g, k) == <<"body", g, k>>
Hole       == <<"hole">>
Trailer(s) == <<"sum", s>>        \* hash_file_range of s: no collisions

Prefix(g, n) == [k \in 1..n |-> Cell(g, k)]
Body(g)      == Prefix(g, BodyLen[g])

\* The cells at the positions up to n; what lies past the end is skipped.
Put(s, n, c) ==
  [k \in 1..(IF n > Len(s) THEN n ELSE Len(s)) |->
     IF k = n THEN c ELSE IF k <= Len(s) THEN s[k] ELSE Hole]

Front(s, n) == [k \in 1..n |-> s[k]]

Whole(g) == Put(Body(g), BodyLen[g] + 1, Trailer(Body(g)))

IsBody(c) == c[1] = "body"
IsSum(c)  == c[1] = "sum"

\* Fewer than the 12 bytes of magic and version.
TooShort(s) == s = <<>> \/ (Len(s) = 1 /\ IsSum(s[1]))

Referenced(i) ==
  \/ \E n \in Names : dir[n] = i
  \/ \E t \in Threads : wr[t] = i \/ rd[t] = i

\* The new contents; an inode that nothing refers to any more is reclaimed.
Store(d) == data' = [i \in Inodes |-> IF Referenced(i)' THEN d[i] ELSE <<>>]

\* The generations the published file holds from end to end (one or none).
FinalGens == {g \in Gens : dir[Final] # None /\ data[dir[Final]] = Whole(g)}

Loading == {"reap", "stat", "open_final", "tail", "check", "parse"}
Saving  == {"open_tmp", "body", "size", "hash", "append", "trailer", "rename"}

-----------------------------------------------------------------------------
Init ==
  /\ dir  = [n \in Names |-> None]
  /\ data = [i \in Inodes |-> <<>>]
  /\ pc   = [t \in Threads |-> "idle"]
  /\ gen  = [t \in Threads |-> None]
  /\ wr   = [t \in Threads |-> None]
  /\ off  = [t \in Threads |-> 0]
  /\ size = [t \in Threads |-> 0]
  /\ sum  = [t \in Threads |-> None]
  /\ rd   = [t \in Threads |-> None]
  /\ todo = [t \in Threads |-> {}]
  /\ held = [t \in Threads |-> {}]
  /\ got  = [t \in Threads |-> {}]
  /\ hurt = FALSE

Go(t, from, to) == pc[t] = from /\ pc' = [pc EXCEPT ![t] = to]

Unlink(n) == dir' = [dir EXCEPT ![n] = None]

-----------------------------------------------------------------------------
(* Index::save.                                                            *)

\* Any stale temporary of this process is removed first.
SaveBegin(t, g) ==
  /\ t \in CanSave
  /\ Go(t, "idle", "open_tmp")
  /\ Unlink(Temp(t))
  /\ gen' = [gen EXCEPT ![t] = g]
  /\ UNCHANGED <<wr, off, size, sum, rd, todo, held, got>>
  /\ Store(data)

\* Opening the temporary finds its inode or creates one.
Opens(t, i) ==
  IF dir[Temp(t)] = None THEN ~Referenced(i) ELSE i = dir[Temp(t)]

\* Open for writing with trunc: an existing file keeps its inode.
SaveOpen(t) ==
  /\ Go(t, "open_tmp", "body")
  /\ \E i \in Inodes :
       /\ Opens(t, i)
       /\ dir' = [dir EXCEPT ![Temp(t)] = i]
       /\ wr' = [wr EXCEPT ![t] = i]
       /\ UNCHANGED <<gen, off, size, sum, rd, todo, held, got>>
       /\ Store([data EXCEPT ![i] = <<>>])

\* The stream writes at its own offset and is closed after the last cell.
SaveBody(t) ==
  LET n    == off[t] + 1
      last == n = BodyLen[gen[t]]
  IN /\ Go(t, "body", IF last THEN "size" ELSE "body")
     /\ off' = [off EXCEPT ![t] = IF last THEN 0 ELSE n]
     /\ wr' = [wr EXCEPT ![t] = IF last THEN None ELSE wr[t]]
     /\ UNCHANGED <<dir, gen, size, sum, rd, todo, held, got>>
     /\ Store([data EXCEPT ![wr[t]] = Put(@, n, Cell(gen[t], n))])

SaveSize(t) ==
  LET i  == dir[Temp(t)]
      ok == i # None /\ ~TooShort(data[i])
  IN /\ Go(t, "size", IF ok THEN "hash" ELSE "undo")
     /\ size' = [size EXCEPT ![t] = IF ok THEN Len(data[i]) ELSE 0]
     /\ UNCHANGED <<dir, data, gen, wr, off, sum, rd, todo, held, got>>

\* A bug to compare with: the range to hash ends one cell early.
SaveHashShort(t) ==
  LET i == dir[Temp(t)]
  IN /\ Go(t, "hash", "append")
     /\ i # None /\ Len(data[i]) >= size[t]
     /\ sum' = [sum EXCEPT ![t] = Trailer(Front(data[i], size[t] - 1))]
     /\ size' = [size EXCEPT ![t] = 0]
     /\ UNCHANGED <<dir, data, gen, wr, off, rd, todo, held, got>>

SaveHash(t) ==
  LET i  == dir[Temp(t)]
      ok == i # None /\ Len(data[i]) >= size[t]
  IN /\ Go(t, "hash", IF ok THEN "append" ELSE "undo")
     /\ sum' = [sum EXCEPT ![t] =
                  IF ok THEN Trailer(Front(data[i], size[t])) ELSE None]
     /\ size' = [size EXCEPT ![t] = 0]
     /\ UNCHANGED <<dir, data, gen, wr, off, rd, todo, held, got>>

\* A bug to compare with: the append forgets that it is one.
SaveAppendTruncates(t) ==
  /\ Go(t, "append", "trailer")
  /\ \E i \in Inodes :
       /\ Opens(t, i)
       /\ dir' = [dir EXCEPT ![Temp(t)] = i]
       /\ wr' = [wr EXCEPT ![t] = i]
       /\ UNCHANGED <<gen, off, size, sum, rd, todo, held, got>>
       /\ Store([data EXCEPT ![i] = <<>>])

\* Open with app: a file that is gone is created again, empty.
SaveAppend(t) ==
  /\ Go(t, "append", "trailer")
  /\ \E i \in Inodes :
       /\ Opens(t, i)
       /\ dir' = [dir EXCEPT ![Temp(t)] = i]
       /\ wr' = [wr EXCEPT ![t] = i]
       /\ UNCHANGED <<gen, off, size, sum, rd, todo, held, got>>
       /\ Store([data EXCEPT ![i] = IF dir[Temp(t)] = None THEN <<>> ELSE @])

\* O_APPEND: the trailer lands at whatever the end is by now.
SaveTrailer(t) ==
  /\ Go(t, "trailer", "rename")
  /\ wr' = [wr EXCEPT ![t] = None]
  /\ sum' = [sum EXCEPT ![t] = None]
  /\ UNCHANGED <<dir, gen, off, size, rd, todo, held, got>>
  /\ Store([data EXCEPT ![wr[t]] = Put(@, Len(@) + 1, sum[t])])

SaveRename(t) ==
  LET i == dir[Temp(t)]
  IN /\ Go(t, "rename", IF i # None THEN "idle" ELSE "undo")
     /\ gen' = [gen EXCEPT ![t] = None]
     /\ dir' = IF i # None
                 THEN [dir EXCEPT ![Final] = i, ![Temp(t)] = None]
                 ELSE dir
     /\ UNCHANGED <<wr, off, size, sum, rd, todo, got>>
     /\ Store(data)
     /\ held' = [u \in Threads |-> IF pc[u] \in Loading
                                     THEN held[u] \union FinalGens' ELSE {}]

\* A bug to compare with: nobody asks the stream whether the body was written.
SaveFailIgnored(t) ==
  /\ Go(t, "body", "size")
  /\ wr' = [wr EXCEPT ![t] = None]
  /\ off' = [off EXCEPT ![t] = 0]
  /\ UNCHANGED <<dir, data, gen, size, sum, rd, todo, held, got>>

\* Any step of a save may throw: no space, no permission, a failed stream.
SaveFail(t) ==
  /\ pc[t] \in Saving
  /\ pc' = [pc EXCEPT ![t] = "undo"]
  /\ gen' = [gen EXCEPT ![t] = None]
  /\ wr' = [wr EXCEPT ![t] = None]
  /\ off' = [off EXCEPT ![t] = 0]
  /\ size' = [size EXCEPT ![t] = 0]
  /\ sum' = [sum EXCEPT ![t] = None]
  /\ UNCHANGED <<dir, rd, todo, held, got>>
  /\ Store(data)

\* A bug to compare with: the handler removes the wrong path.
SaveUndoFinal(t) ==
  /\ Go(t, "undo", "idle")
  /\ Unlink(Final)
  /\ gen' = [gen EXCEPT ![t] = None]
  /\ UNCHANGED <<wr, off, size, sum, rd, todo, held, got>>
  /\ Store(data)

\* catch (...): best-effort removal of the temporary, then rethrow.
SaveUndo(t) ==
  /\ Go(t, "undo", "idle")
  /\ Unlink(Temp(t))
  /\ gen' = [gen EXCEPT ![t] = None]
  /\ UNCHANGED <<wr, off, size, sum, rd, todo, held, got>>
  /\ Store(data)

-----------------------------------------------------------------------------
(* Index::load_impl of a portable (v7) snapshot.                           *)

LoadBegin(t) ==
  /\ t \in CanLoad
  /\ Go(t, "idle", "reap")
  /\ todo' = [todo EXCEPT ![t] = {n \in Pids : dir[n] # None}]
  /\ held' = [held EXCEPT ![t] = FinalGens]
  /\ got' = [got EXCEPT ![t] = {}]
  /\ UNCHANGED <<dir, data, gen, wr, off, size, sum, rd>>

\* cleanup_orphans removes every temporary it listed, whoever owns it.
LoadReap(t, n) ==
  /\ pc[t] = "reap" /\ n \in todo[t]
  /\ Unlink(n)
  /\ todo' = [todo EXCEPT ![t] = @ \ {n}]
  /\ UNCHANGED <<pc, gen, wr, off, size, sum, rd, held, got>>
  /\ Store(data)

LoadReaped(t) ==
  /\ todo[t] = {}
  /\ Go(t, "reap", "stat")
  /\ UNCHANGED <<dir, data, gen, wr, off, size, sum, rd, todo, held, got>>

\* A bug to compare with: a load that throws leaves its stream open.
LoadEndLeaks(t, gs) ==
  /\ pc' = [pc EXCEPT ![t] = "idle"]
  /\ size' = [size EXCEPT ![t] = 0]
  /\ sum' = [sum EXCEPT ![t] = None]
  /\ held' = [held EXCEPT ![t] = {}]
  /\ got' = [got EXCEPT ![t] = gs]
  /\ UNCHANGED <<dir, data, gen, wr, off, rd, todo>>

\* The end of a load, with the generations its index was parsed from.
LoadEnd(t, gs) ==
  /\ pc' = [pc EXCEPT ![t] = "idle"]
  /\ size' = [size EXCEPT ![t] = 0]
  /\ sum' = [sum EXCEPT ![t] = None]
  /\ rd' = [rd EXCEPT ![t] = None]
  /\ held' = [held EXCEPT ![t] = {}]
  /\ got' = [got EXCEPT ![t] = gs]
  /\ UNCHANGED <<dir, gen, wr, off, todo>>
  /\ Store(data)

\* Any read of a load may fail, and then load throws.
LoadFail(t) ==
  /\ pc[t] \in Loading \ {"reap"}
  /\ LoadEnd(t, {})

LoadStat(t) ==
  LET i == dir[Final]
  IN /\ pc[t] = "stat"
     /\ IF i # None /\ ~TooShort(data[i])
          THEN /\ Go(t, "stat", "open_final")
               /\ size' = [size EXCEPT ![t] = Len(data[i])]
               /\ UNCHANGED <<dir, data, gen, wr, off, sum, rd, todo, held, got>>
          ELSE LoadEnd(t, {})

\* Opens the body stream and reads magic and version.
LoadOpen(t) ==
  LET i == dir[Final]
  IN /\ pc[t] = "open_final"
     /\ IF i # None /\ data[i] # <<>> /\ IsBody(data[i][1]) /\ data[i][1][3] = 1
          THEN /\ Go(t, "open_final", "tail")
               /\ rd' = [rd EXCEPT ![t] = i]
               /\ UNCHANGED <<dir, data, gen, wr, off, size, sum, todo, held, got>>
          ELSE LoadEnd(t, {})

\* A second stream reads the trailer, 8 bytes before the size seen earlier.
LoadTail(t) ==
  LET i == dir[Final]
  IN /\ pc[t] = "tail"
     /\ IF i # None /\ Len(data[i]) >= size[t]
          THEN /\ Go(t, "tail", "check")
               /\ sum' = [sum EXCEPT ![t] = data[i][size[t]]]
               /\ UNCHANGED <<dir, data, gen, wr, off, size, rd, todo, held, got>>
          ELSE LoadEnd(t, {})

\* A third stream hashes what lies before the trailer.
LoadCheck(t) ==
  LET i == dir[Final]
      n == size[t] - 1
  IN /\ pc[t] = "check"
     /\ IF i # None /\ Len(data[i]) >= n /\ sum[t] = Trailer(Front(data[i], n))
          THEN /\ Go(t, "check", "parse")
               /\ sum' = [sum EXCEPT ![t] = None]
               /\ UNCHANGED <<dir, data, gen, wr, off, size, rd, todo, held, got>>
          ELSE LoadEnd(t, {})

\* The body stream is parsed section by section; the sections must end where
\* the trailer begins.  Sections of bodies with the same layout fit together.
Parsed(t) == {data[rd[t]][k][2] : k \in 1..(size[t] - 1)}

Accepts(t) ==
  LET s == data[rd[t]]
      n == size[t] - 1
  IN /\ n > 0 /\ Len(s) >= n
     /\ \A k \in 1..n : IsBody(s[k]) /\ s[k][3] = k
     /\ \A g \in Parsed(t) : BodyLen[g] = n

LoadParse(t) ==
  /\ pc[t] = "parse"
  /\ LoadEnd(t, IF Accepts(t) THEN Parsed(t) ELSE {})

-----------------------------------------------------------------------------
(* Failures of the machine.                                                *)

Forget(ts) ==
  /\ pc'   = [t \in Threads |-> IF t \in ts THEN "idle" ELSE pc[t]]
  /\ gen'  = [t \in Threads |-> IF t \in ts THEN None ELSE gen[t]]
  /\ wr'   = [t \in Threads |-> IF t \in ts THEN None ELSE wr[t]]
  /\ off'  = [t \in Threads |-> IF t \in ts THEN 0 ELSE off[t]]
  /\ size' = [t \in Threads |-> IF t \in ts THEN 0 ELSE size[t]]
  /\ sum'  = [t \in Threads |-> IF t \in ts THEN None ELSE sum[t]]
  /\ rd'   = [t \in Threads |-> IF t \in ts THEN None ELSE rd[t]]
  /\ todo' = [t \in Threads |-> IF t \in ts THEN {} ELSE todo[t]]
  /\ held' = [t \in Threads |-> IF t \in ts THEN {} ELSE held[t]]
  /\ got'  = [t \in Threads |-> IF t \in ts THEN {} ELSE got[t]]
  /\ UNCHANGED dir

\* A process dies between two steps; its temporary stays where it is.
Crash(p) ==
  /\ \E t \in Threads : Pid[t] = p /\ pc[t] # "idle"
  /\ Forget({t \in Threads : Pid[t] = p})
  /\ Store(data)

\* Nothing is ever synced: after a power cut a file may have lost any suffix.
\* Several files lose theirs in as many steps.
LosePower ==
  /\ PowerLoss
  /\ Forget(Threads)
  /\ \E i \in Inodes : \E n \in 0..Len(data[i]) :
       Store([data EXCEPT ![i] = Front(@, n)])

-----------------------------------------------------------------------------
Save(t) ==
  \/ \E g \in Gens : SaveBegin(t, g)
  \/ SaveOpen(t) \/ SaveBody(t) \/ SaveSize(t) \/ SaveHash(t)
  \/ SaveAppend(t) \/ SaveTrailer(t) \/ SaveRename(t)
  \/ SaveFail(t) \/ SaveUndo(t)

Load(t) ==
  \/ LoadBegin(t) \/ (\E n \in Pids : LoadReap(t, n)) \/ LoadReaped(t)
  \/ LoadStat(t) \/ LoadOpen(t) \/ LoadTail(t) \/ LoadCheck(t)
  \/ LoadParse(t) \/ LoadFail(t)

\* A save has hashed its temporary, and the file goes before the save opens it
\* again: the append then creates one that holds the trailer and nothing else.
Beheads(t) ==
  /\ pc[t] = "append" /\ pc'[t] = "append"
  /\ dir[Temp(t)] # None /\ dir'[Temp(t)] = None

Next ==
  \/ /\ \E t \in Threads : Save(t) \/ Load(t)
     /\ hurt' = (hurt \/ \E t \in Threads : Beheads(t))
  \/ \E p \in Pids : Crash(p) /\ UNCHANGED hurt
  \/ LosePower /\ hurt' = TRUE

Spec == Init /\ [][Next]_vars

-----------------------------------------------------------------------------
(* Properties.                                                             *)

\* Nothing tells two threads of one process apart, so the promises below are
\* for processes in which one thread at a time saves.
OneSaver == \A t, u \in CanSave : Pid[t] = Pid[u] => t = u

Cells ==
  (UNION {{Cell(g, k) : k \in 1..BodyLen[g]} : g \in Gens})
    \union {Trailer(Body(g)) : g \in Gens}

\* Which thread holds which stream and which value at which step.
Fits(t) ==
  /\ pc[t] \in Saving \union {"undo"} => t \in CanSave
  /\ pc[t] \in Saving => gen[t] \in Gens
  /\ wr[t] # None <=> pc[t] \in {"body", "trailer"}
  /\ rd[t] # None <=> pc[t] \in {"tail", "check", "parse"}
  /\ pc[t] # "body" => off[t] = 0
  /\ pc[t] \in Loading => got[t] = {}

\* The type of the state.  With one saver per process every file consists of
\* body cells of generations and of checksums of complete bodies; there are no
\* holes, and no stream outlives the save or the load that opened it.
TypeOK ==
  /\ dir \in [Names -> Inodes \union {None}]
  /\ data \in [Inodes -> Seq(Cells)]
  /\ pc \in [Threads -> {"idle", "undo"} \union Saving \union Loading]
  /\ gen \in [Threads -> Gens \union {None}]
  /\ wr \in [Threads -> Inodes \union {None}]
  /\ off \in [Threads -> Nat]
  /\ size \in [Threads -> Nat]
  /\ sum \in [Threads -> Cells \union {None}]
  /\ rd \in [Threads -> Inodes \union {None}]
  /\ todo \in [Threads -> SUBSET Pids]
  /\ held \in [Threads -> SUBSET Gens]
  /\ got \in [Threads -> SUBSET Gens]
  /\ \A t \in Threads : Fits(t)

\* What a file that lost its end, or that a lone trailer made, may look like.
Shard(s) ==
  \/ \E g \in Gens : s = <<Trailer(Body(g))>>
  \/ \E g \in Gens : \E n \in 0..BodyLen[g] : s = Prefix(g, n)

\* No two names share an inode, and an inode under construction is known to
\* its writer only: not published, not read, not written by anyone else.
Exclusive ==
  /\ \A m, n \in Names : dir[m] = dir[n] /\ dir[m] # None => m = n
  /\ \A p \in Pids, t \in Threads : dir[p] # None => dir[p] # rd[t]
  /\ \A t \in Threads : wr[t] # None =>
       /\ \A n \in Names : dir[n] = wr[t] => n = Temp(t)
       /\ \A u \in Threads : wr[t] # rd[u] /\ (wr[u] = wr[t] => u = t)

\* How far a save has come with its temporary.  Another process's load may
\* have removed it, and the trailer then starts a file of its own.
SaveAt(t) ==
  LET i == dir[Temp(t)]
  IN /\ pc[t] = "body" =>
          /\ i \in {None, wr[t]}
          /\ off[t] < BodyLen[gen[t]]
          /\ data[wr[t]] = Prefix(gen[t], off[t])
     /\ pc[t] \in {"size", "hash", "append"} /\ i # None => data[i] = Body(gen[t])
     /\ pc[t] = "hash" => size[t] = BodyLen[gen[t]]
     /\ pc[t] \in {"append", "trailer"} => sum[t] = Trailer(Body(gen[t]))
     /\ pc[t] = "trailer" =>
          i \in {None, wr[t]} /\ data[wr[t]] \in {Body(gen[t]), <<>>}
     /\ pc[t] = "rename" /\ i # None =>
          data[i] \in {Whole(gen[t]), <<Trailer(Body(gen[t]))>>}

\* The published file is a whole generation, or it is a shard that no load
\* accepts; it is never a mixture of generations or of writers.
FinalShape ==
  dir[Final] # None =>
    \/ \E g \in Gens : data[dir[Final]] = Whole(g)
    \/ Shard(data[dir[Final]])

\* What a load under way may come across.  A truncated file is published by
\* no save, so a load that opens one had also measured it.
LoadAt(t) ==
  /\ IF pc[t] \in Loading THEN FinalGens \subseteq held[t] ELSE held[t] = {}
  /\ pc[t] \in {"open_final", "tail"} => size[t] # 0
  /\ pc[t] = "open_final" /\ dir[Final] # None =>
       \A g \in Gens : \A n \in 1..BodyLen[g] :
         data[dir[Final]] = Prefix(g, n) => size[t] = n
  /\ rd[t] # None =>
       \/ \E g \in held[t] : data[rd[t]] = Whole(g)
       \/ \E g \in Gens : \E n \in 1..BodyLen[g] :
            data[rd[t]] = Prefix(g, n) /\ size[t] = n

\* The inductive invariant behind the properties of this module.
SnapshotInv ==
  /\ TypeOK
  /\ Exclusive
  /\ FinalShape
  /\ \A t \in Threads : SaveAt(t) /\ LoadAt(t)

\* A load that accepts a snapshot was parsed from one generation, and that
\* generation was the published file at some moment of the load, although
\* load_impl opens the path five times while savers replace the file.
LoadedWasPublished ==
  [][\A t \in Threads :
       pc[t] = "parse" /\ got'[t] # {} => \E g \in held[t] : got'[t] = {g}]_vars

\* A rename publishes the generation its own save serialized, or a file that
\* holds none; never what another process was writing.
PublishesOwn ==
  [][\A t \in Threads :
       pc[t] = "rename" /\ pc'[t] # "rename" /\ dir'[Final] # dir[Final] =>
         FinalGens' \subseteq {gen[t]}]_vars

\* What docs/crash-safe-publication.md promises: whoever opens the published
\* name finds a complete snapshot.
FinalWhole == dir[Final] # None => FinalGens # {}

\* The trailer of a save lands behind the whole body it was computed over.
Complete(t) ==
  /\ pc[t] = "append" => dir[Temp(t)] # None
  /\ pc[t] = "trailer" => data[wr[t]] = Body(gen[t])
  /\ pc[t] = "rename" /\ dir[Temp(t)] # None => data[dir[Temp(t)]] = Whole(gen[t])

\* Why the promise is kept until a power cut or a beheading.
Unharmed == ~hurt => FinalWhole /\ \A t \in Threads : Complete(t)

\* A load that removes another process's temporary in that one window, and a
\* power cut, are the only ways to a published file that is not whole: not the
\* loads that strike at other moments, not deaths, failures or other savers.
WholeUntilHurt == ~hurt => FinalWhole

\* The cache implements the register, which a power cut or a beheading damages.
Register ==
  INSTANCE SnapshotRegister WITH
    Readers <- Threads,
    reg     <- FinalGens,
    reading <- {t \in Threads : pc[t] \in Loading},
    seen    <- held,
    damaged <- hurt

\* Every step of the files is a step of the register or leaves it alone.
RegisterSpec == Register!Spec
=============================================================================
