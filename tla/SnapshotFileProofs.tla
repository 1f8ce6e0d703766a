------------------------- MODULE SnapshotFileProofs -------------------------
(* Proofs about SnapshotFile. *)
EXTENDS SnapshotFile, TLAPS

-----------------------------------------------------------------------------
(* The contents of files.                                                  *)

\* The first n body cells of a generation are a sequence of n cells.
LEMMA PrefixSeq ==
  ASSUME NEW g \in Gens, NEW n \in 0..BodyLen[g]
  PROVE  /\ Prefix(g, n) \in Seq(Cells)
         /\ Len(Prefix(g, n)) = n
         /\ \A k \in 1..n : Prefix(g, n)[k] = Cell(g, k)
<1>1. BodyLen[g] \in Nat
  BY SnapshotAssumption
<1>2. \A k \in 1..n : Cell(g, k) \in Cells
  BY <1>1 DEF Cells
<1>3. Prefix(g, n) \in [1..n -> Cells]
  BY <1>2 DEF Prefix
<1>4. n \in Nat
  BY <1>1
<1> QED
  BY <1>3, <1>4 DEF Prefix

\* So is a body, and all of it is its own front.
LEMMA BodySeq ==
  ASSUME NEW g \in Gens
  PROVE  /\ Body(g) \in Seq(Cells)
         /\ Len(Body(g)) = BodyLen[g] /\ BodyLen[g] \in Nat \ {0}
         /\ Front(Body(g), BodyLen[g]) = Body(g)
         /\ Trailer(Body(g)) \in Cells
<1>1. BodyLen[g] \in Nat \ {0}
  BY SnapshotAssumption
<1>2. /\ Body(g) \in Seq(Cells) /\ Len(Body(g)) = BodyLen[g]
      /\ \A k \in 1..BodyLen[g] : Body(g)[k] = Cell(g, k)
  BY <1>1, PrefixSeq DEF Body
<1>3. Front(Body(g), BodyLen[g]) = [k \in 1..BodyLen[g] |-> Cell(g, k)]
  BY <1>2 DEF Front
<1> QED
  BY <1>1, <1>2, <1>3 DEF Body, Prefix, Cells

\* A complete file is a sequence: the body cells, then their checksum.
LEMMA WholeSeq ==
  ASSUME NEW g \in Gens
  PROVE  /\ Whole(g) \in Seq(Cells)
         /\ Len(Whole(g)) = BodyLen[g] + 1
         /\ \A k \in 1..BodyLen[g] : Whole(g)[k] = Cell(g, k)
         /\ Whole(g)[BodyLen[g] + 1] = Trailer(Body(g))
<1>1. BodyLen[g] \in Nat
  BY SnapshotAssumption
<1>2. Len(Body(g)) = BodyLen[g] /\ \A k \in 1..BodyLen[g] : Body(g)[k] = Cell(g, k)
  BY <1>1, PrefixSeq DEF Body
<1>3. Whole(g) = [k \in 1..(BodyLen[g] + 1) |->
                    IF k = BodyLen[g] + 1 THEN Trailer(Body(g)) ELSE Cell(g, k)]
  BY <1>1, <1>2 DEF Whole, Put
<1>4. \A k \in 1..BodyLen[g] : Cell(g, k) \in Cells
  BY DEF Cells
<1>5. Trailer(Body(g)) \in Cells
  BY DEF Cells
<1>6. Whole(g) \in [1..(BodyLen[g] + 1) -> Cells]
  BY <1>1, <1>3, <1>4, <1>5
<1> QED
  BY <1>1, <1>3, <1>6

\* Body cells and checksums are different things.
LEMMA CellKinds ==
  ASSUME NEW g \in Gens, NEW k, NEW s
  PROVE  /\ Cell(g, k) # Trailer(s)
         /\ IsBody(Cell(g, k)) /\ ~IsSum(Cell(g, k))
         /\ IsSum(Trailer(s)) /\ ~IsBody(Trailer(s))
         /\ Cell(g, k)[2] = g /\ Cell(g, k)[3] = k
BY DEF Cell, Trailer, IsBody, IsSum

\* The stream of a save extends a prefix of the body to the next prefix.
LEMMA PrefixGrows ==
  ASSUME NEW g \in Gens, NEW n \in Nat, n < BodyLen[g]
  PROVE  Put(Prefix(g, n), n + 1, Cell(g, n + 1)) = Prefix(g, n + 1)
<1>1. BodyLen[g] \in Nat
  BY SnapshotAssumption
<1>2. Len(Prefix(g, n)) = n /\ \A k \in 1..n : Prefix(g, n)[k] = Cell(g, k)
  BY <1>1, PrefixSeq
<1>3. Put(Prefix(g, n), n + 1, Cell(g, n + 1)) =
        [k \in 1..(n + 1) |-> IF k = n + 1 THEN Cell(g, n + 1) ELSE Cell(g, k)]
  BY <1>2 DEF Put
<1>4. Prefix(g, n + 1) = [k \in 1..(n + 1) |-> Cell(g, k)]
  BY DEF Prefix
<1> QED
  BY <1>3, <1>4

\* A trailer after the body completes the file; in an empty file it is alone.
LEMMA TrailerLands ==
  ASSUME NEW g \in Gens
  PROVE  /\ Put(Body(g), Len(Body(g)) + 1, Trailer(Body(g))) = Whole(g)
         /\ Put(<<>>, Len(<<>>) + 1, Trailer(Body(g))) = <<Trailer(Body(g))>>
<1>1. BodyLen[g] \in Nat
  BY SnapshotAssumption
<1>2. Len(Body(g)) = BodyLen[g]
  BY <1>1, PrefixSeq DEF Body
<1>3. Put(<<>>, 1, Trailer(Body(g))) = <<Trailer(Body(g))>>
  BY DEF Put
<1> QED
  BY <1>2, <1>3 DEF Whole

\* Cutting a published file leaves it as it is or makes it a shard.
LEMMA FrontShape ==
  ASSUME NEW s, NEW n \in 0..Len(s),
         (\E g \in Gens : s = Whole(g)) \/ Shard(s)
  PROVE  (\E g \in Gens : Front(s, n) = Whole(g)) \/ Shard(Front(s, n))
<1>1. CASE \E g \in Gens : s = Whole(g)
  <2> PICK g \in Gens : s = Whole(g)
    BY <1>1
  <2>1. BodyLen[g] \in Nat
    BY SnapshotAssumption
  <2>2. CASE n = BodyLen[g] + 1
    BY <2>1, <2>2, WholeSeq DEF Front
  <2>3. CASE n \in 0..BodyLen[g]
    <3>1. Front(s, n) = Prefix(g, n)
      BY <2>1, <2>3, WholeSeq DEF Front, Prefix
    <3> QED
      BY <2>3, <3>1 DEF Shard
  <2> QED
    BY <2>1, <2>2, <2>3, WholeSeq
<1>2. CASE \E g \in Gens : s = <<Trailer(Body(g))>>
  <2> PICK g \in Gens : s = <<Trailer(Body(g))>>
    BY <1>2
  <2>1. BodyLen[g] \in Nat
    BY SnapshotAssumption
  <2>2. CASE n = 1
    BY <2>2 DEF Front, Shard
  <2>3. CASE n = 0
    BY <2>1, <2>3 DEF Front, Shard, Prefix
  <2> QED
    BY <2>2, <2>3
<1>3. CASE \E g \in Gens : \E m \in 0..BodyLen[g] : s = Prefix(g, m)
  <2> PICK g \in Gens : \E m \in 0..BodyLen[g] : s = Prefix(g, m)
    BY <1>3
  <2> PICK m \in 0..BodyLen[g] : s = Prefix(g, m)
    OBVIOUS
  <2>1. BodyLen[g] \in Nat
    BY SnapshotAssumption
  <2>2. n \in 0..m
    BY PrefixSeq
  <2>3. Front(s, n) = Prefix(g, n)
    BY <2>1, <2>2, PrefixSeq DEF Front, Prefix
  <2> QED
    BY <2>1, <2>2, <2>3 DEF Shard
<1> QED
  BY <1>1, <1>2, <1>3 DEF Shard
-----------------------------------------------------------------------------
(* The inductive invariant.                                                *)

USE DEF Names, Temp, Go, Unlink, Fits

\* A file that is still referred to keeps what a step leaves in it.
LEMMA Stored ==
  ASSUME NEW d \in [Inodes -> Seq(Cells)], Store(d)
  PROVE  /\ data' \in [Inodes -> Seq(Cells)]
         /\ \A i \in Inodes, n \in Names : dir'[n] = i => data'[i] = d[i]
         /\ \A i \in Inodes, t \in Threads : wr'[t] = i \/ rd'[t] = i => data'[i] = d[i]
<1>1. <<>> \in Seq(Cells)
  OBVIOUS
<1> QED
  BY <1>1 DEF Store, Referenced

\* What names and processes are.
LEMMA NameFacts ==
  /\ Names = Pids \union {Final}
  /\ Final \notin Pids /\ None \notin Inodes /\ None \notin Gens
  /\ \A t \in Threads : Pid[t] \in Pids
  /\ \A g \in Gens : BodyLen[g] \in Nat \ {0}
BY SnapshotAssumption DEF Pids

\* Nothing of a thread's own state changes.
Same(u) ==
  /\ pc'[u] = pc[u] /\ gen'[u] = gen[u] /\ wr'[u] = wr[u] /\ off'[u] = off[u]
  /\ size'[u] = size[u] /\ sum'[u] = sum[u] /\ rd'[u] = rd[u] /\ held'[u] = held[u]

\* A save that does not move keeps its place, even if it loses its temporary.
LEMMA SaveStays ==
  ASSUME NEW u \in Threads, SaveAt(u), Same(u),
         dir'[Temp(u)] \in {None, dir[Temp(u)]},
         dir'[Temp(u)] # None => data'[dir[Temp(u)]] = data[dir[Temp(u)]],
         wr[u] # None => data'[wr[u]] = data[wr[u]],
         pc[u] \in {"body", "trailer"} => wr[u] # None
  PROVE  SaveAt(u)'
BY DEF SaveAt, Same

\* The published file stays as it is.
LEMMA FinalStays ==
  ASSUME FinalShape, dir'[Final] = dir[Final],
         dir[Final] # None => data'[dir[Final]] = data[dir[Final]]
  PROVE  FinalShape' /\ FinalGens' = FinalGens
BY DEF FinalShape, FinalGens, Shard

\* So does a load that does not move while the published file stays.
LEMMA LoadStays ==
  ASSUME NEW u \in Threads, LoadAt(u), Same(u), dir'[Final] = dir[Final],
         dir[Final] # None => data'[dir[Final]] = data[dir[Final]],
         rd[u] # None => data'[rd[u]] = data[rd[u]]
  PROVE  LoadAt(u)'
BY DEF LoadAt, Same, FinalGens

\* A step of one save: what it must not disturb, and what is left to show.
LEMMA SaverSteps ==
  ASSUME OneSaver, SnapshotInv, NEW t \in CanSave, TypeOK', Exclusive', SaveAt(t)',
         pc[t] \notin Loading, pc'[t] \notin Loading, rd'[t] = None, held'[t] = held[t],
         \A n \in Names : n # Temp(t) => dir'[n] = dir[n],
         \A n \in Names : n # Temp(t) /\ dir[n] # None => data'[dir[n]] = data[dir[n]],
         \A u \in Threads : u # t => Same(u),
         \A u \in Threads : u # t /\ wr[u] # None => data'[wr[u]] = data[wr[u]],
         \A u \in Threads : rd[u] # None => data'[rd[u]] = data[rd[u]]
  PROVE  SnapshotInv'
<1>1. t \in Threads /\ dir'[Final] = dir[Final]
      /\ (dir[Final] # None => data'[dir[Final]] = data[dir[Final]])
  BY NameFacts, SnapshotAssumption
<1>2. FinalShape'
  BY <1>1, FinalStays DEF SnapshotInv
<1>3. ASSUME NEW u \in Threads, u # t
      PROVE  SaveAt(u)' /\ LoadAt(u)'
  <2>1. LoadAt(u)'
    BY <1>1, <1>3, LoadStays DEF SnapshotInv
  <2>2. CASE pc[u] \in Saving
    <3>1. u \in CanSave /\ Temp(u) # Temp(t)
      BY <1>3, <2>2 DEF SnapshotInv, TypeOK, OneSaver
    <3>2. Temp(u) \in Names /\ dir'[Temp(u)] = dir[Temp(u)]
      BY <3>1, NameFacts
    <3>3. dir'[Temp(u)] # None => data'[dir[Temp(u)]] = data[dir[Temp(u)]]
      BY <3>1, <3>2
    <3>4. SaveAt(u) /\ (pc[u] \in {"body", "trailer"} => wr[u] # None)
      BY DEF SnapshotInv, TypeOK
    <3>5. Same(u) /\ (wr[u] # None => data'[wr[u]] = data[wr[u]])
      BY <1>3
    <3> HIDE DEF Temp
    <3>6. SaveAt(u)'
      BY <3>2, <3>3, <3>4, <3>5, SaveStays
    <3> QED
      BY <2>1, <3>6
  <2>3. CASE pc[u] \notin Saving
    BY <1>3, <2>1, <2>3 DEF SaveAt, Saving, Same
  <2> QED
    BY <2>2, <2>3
<1>4. LoadAt(t)'
  BY <1>1 DEF SnapshotInv, LoadAt, Loading
<1> QED
  BY <1>2, <1>3, <1>4 DEF SnapshotInv

\* A save that begins has removed its temporary.
LEMMA SaveBeginKeeps ==
  ASSUME OneSaver, SnapshotInv, NEW t \in Threads, NEW g \in Gens, SaveBegin(t, g)
  PROVE  SnapshotInv'
<1> USE DEF SnapshotInv, SaveBegin
<1>a. /\ data' \in [Inodes -> Seq(Cells)]
      /\ \A i \in Inodes, n \in Names : dir'[n] = i => data'[i] = data[i]
      /\ \A i \in Inodes, u \in Threads : wr'[u] = i \/ rd'[u] = i => data'[i] = data[i]
  BY Stored DEF TypeOK
<1>b. /\ dir' \in [Names -> Inodes \union {None}]
      /\ \A n \in Names : dir'[n] = IF n = Pid[t] THEN None ELSE dir[n]
  BY NameFacts DEF TypeOK
<1>1. TypeOK'
  BY <1>a, <1>b, NameFacts DEF TypeOK, Saving, Loading
<1>2. Exclusive'
  BY <1>b, NameFacts DEF TypeOK, Exclusive
<1>3. SaveAt(t)'
  BY <1>a, <1>b, NameFacts DEF TypeOK, Exclusive, SaveAt, Saving
<1>4. t \in CanSave /\ pc[t] \notin Loading /\ pc'[t] \notin Loading /\ rd'[t] = None
  BY <1>1 DEF TypeOK, Saving, Loading
<1>5. \A n \in Names : n # Temp(t) =>
        dir'[n] = dir[n] /\ (dir[n] # None => data'[dir[n]] = data[dir[n]])
  BY <1>a, <1>b DEF TypeOK, Exclusive
<1>6. \A u \in Threads : u # t => Same(u)
  BY DEF TypeOK, Same
<1>7. /\ \A u \in Threads : u # t /\ wr[u] # None => data'[wr[u]] = data[wr[u]]
      /\ \A u \in Threads : rd[u] # None => data'[rd[u]] = data[rd[u]]
  BY <1>a DEF TypeOK, Exclusive
<1> QED
  BY <1>1, <1>2, <1>3, <1>4, <1>5, <1>6, <1>7, SaverSteps

\* So has one that gives up.
LEMMA SaveUndoKeeps ==
  ASSUME OneSaver, SnapshotInv, NEW t \in Threads, SaveUndo(t)
  PROVE  SnapshotInv'
<1> USE DEF SnapshotInv, SaveUndo
<1>a. /\ data' \in [Inodes -> Seq(Cells)]
      /\ \A i \in Inodes, n \in Names : dir'[n] = i => data'[i] = data[i]
      /\ \A i \in Inodes, u \in Threads : wr'[u] = i \/ rd'[u] = i => data'[i] = data[i]
  BY Stored DEF TypeOK
<1>b. /\ dir' \in [Names -> Inodes \union {None}]
      /\ \A n \in Names : dir'[n] = IF n = Pid[t] THEN None ELSE dir[n]
  BY NameFacts DEF TypeOK
<1>1. TypeOK'
  BY <1>a, <1>b, NameFacts DEF TypeOK, Saving, Loading
<1>2. Exclusive'
  BY <1>b, NameFacts DEF TypeOK, Exclusive
<1>3. SaveAt(t)'
  BY <1>a, <1>b, NameFacts DEF TypeOK, Exclusive, SaveAt, Saving
<1>4. t \in CanSave /\ pc[t] \notin Loading /\ pc'[t] \notin Loading /\ rd'[t] = None
  BY <1>1 DEF TypeOK, Saving, Loading
<1>5. \A n \in Names : n # Temp(t) =>
        dir'[n] = dir[n] /\ (dir[n] # None => data'[dir[n]] = data[dir[n]])
  BY <1>a, <1>b DEF TypeOK, Exclusive
<1>6. \A u \in Threads : u # t => Same(u)
  BY DEF TypeOK, Same
<1>7. /\ \A u \in Threads : u # t /\ wr[u] # None => data'[wr[u]] = data[wr[u]]
      /\ \A u \in Threads : rd[u] # None => data'[rd[u]] = data[rd[u]]
  BY <1>a DEF TypeOK, Exclusive
<1> QED
  BY <1>1, <1>2, <1>3, <1>4, <1>5, <1>6, <1>7, SaverSteps

\* A save that fails only closes its stream.
LEMMA SaveFailKeeps ==
  ASSUME OneSaver, SnapshotInv, NEW t \in Threads, SaveFail(t)
  PROVE  SnapshotInv'
<1> USE DEF SnapshotInv, SaveFail
<1>a. /\ data' \in [Inodes -> Seq(Cells)]
      /\ \A i \in Inodes, n \in Names : dir'[n] = i => data'[i] = data[i]
      /\ \A i \in Inodes, u \in Threads : wr'[u] = i \/ rd'[u] = i => data'[i] = data[i]
  BY Stored DEF TypeOK
<1>b. /\ dir' \in [Names -> Inodes \union {None}]
      /\ dir' = dir
  BY NameFacts DEF TypeOK
<1>1. TypeOK'
  BY <1>a, <1>b, NameFacts DEF TypeOK, Saving, Loading
<1>2. Exclusive'
  BY <1>b, NameFacts DEF TypeOK, Exclusive
<1>3. SaveAt(t)'
  BY <1>a, <1>b, NameFacts DEF TypeOK, Exclusive, SaveAt, Saving
<1>4. t \in CanSave /\ pc[t] \notin Loading /\ pc'[t] \notin Loading /\ rd'[t] = None
  BY <1>1 DEF TypeOK, Saving, Loading
<1>5. \A n \in Names : n # Temp(t) =>
        dir'[n] = dir[n] /\ (dir[n] # None => data'[dir[n]] = data[dir[n]])
  BY <1>a, <1>b DEF TypeOK, Exclusive
<1>6. \A u \in Threads : u # t => Same(u)
  BY DEF TypeOK, Same
<1>7. /\ \A u \in Threads : u # t /\ wr[u] # None => data'[wr[u]] = data[wr[u]]
      /\ \A u \in Threads : rd[u] # None => data'[rd[u]] = data[rd[u]]
  BY <1>a DEF TypeOK, Exclusive
<1> QED
  BY <1>1, <1>2, <1>3, <1>4, <1>5, <1>6, <1>7, SaverSteps

\* The size of an intact temporary is that of the body.
LEMMA SaveSizeKeeps ==
  ASSUME OneSaver, SnapshotInv, NEW t \in Threads, SaveSize(t)
  PROVE  SnapshotInv'
<1> USE DEF SnapshotInv, SaveSize
<1>a. data' = data
  OBVIOUS
<1>b. /\ dir' \in [Names -> Inodes \union {None}]
      /\ dir' = dir
  BY NameFacts DEF TypeOK
<1>0. ASSUME NEW u \in Threads
      PROVE  Fits(u)'
  BY DEF TypeOK, Saving, Loading
<1>1. TypeOK'
  <2> HIDE DEF Fits
  <2> QED
    BY <1>0, <1>a, <1>b, NameFacts DEF TypeOK, Saving, Loading
<1>2. Exclusive'
  BY <1>b, NameFacts DEF TypeOK, Exclusive
<1>3. SaveAt(t)'
  BY <1>a, <1>b, NameFacts, BodySeq DEF TypeOK, Exclusive, SaveAt, Saving
<1>4. t \in CanSave /\ pc[t] \notin Loading /\ pc'[t] \notin Loading /\ rd'[t] = None
  BY <1>1 DEF TypeOK, Saving, Loading
<1>5. \A n \in Names : n # Temp(t) =>
        dir'[n] = dir[n] /\ (dir[n] # None => data'[dir[n]] = data[dir[n]])
  BY <1>a, <1>b DEF TypeOK, Exclusive
<1>6. \A u \in Threads : u # t => Same(u)
  BY DEF TypeOK, Same
<1>7. /\ \A u \in Threads : u # t /\ wr[u] # None => data'[wr[u]] = data[wr[u]]
      /\ \A u \in Threads : rd[u] # None => data'[rd[u]] = data[rd[u]]
  BY <1>a DEF TypeOK, Exclusive
<1> QED
  BY <1>1, <1>2, <1>3, <1>4, <1>5, <1>6, <1>7, SaverSteps

\* The checksum is that of the body.
LEMMA SaveHashKeeps ==
  ASSUME OneSaver, SnapshotInv, NEW t \in Threads, SaveHash(t)
  PROVE  SnapshotInv'
<1> USE DEF SnapshotInv, SaveHash
<1>0. sum'[t] \in {None, Trailer(Body(gen[t]))} /\ Trailer(Body(gen[t])) \in Cells
      /\ (pc'[t] = "append" => sum'[t] = Trailer(Body(gen[t])))
  <2>1. gen[t] \in Gens /\ sum \in [Threads -> Cells \union {None}]
    BY DEF TypeOK, Saving
  <2>2. /\ size[t] = BodyLen[gen[t]]
        /\ dir[Temp(t)] # None => data[dir[Temp(t)]] = Body(gen[t])
    BY DEF SaveAt
  <2> QED
    BY <2>1, <2>2, BodySeq
<1>a. data' = data
  OBVIOUS
<1>b. /\ dir' \in [Names -> Inodes \union {None}]
      /\ dir' = dir
  BY NameFacts DEF TypeOK
<1>1. TypeOK'
  BY <1>a, <1>b, NameFacts, <1>0 DEF TypeOK, Saving, Loading
<1>2. Exclusive'
  BY <1>b, NameFacts, <1>0 DEF TypeOK, Exclusive
<1>3. SaveAt(t)'
  BY <1>a, <1>b, NameFacts, <1>0 DEF TypeOK, Exclusive, SaveAt, Saving
<1>4. t \in CanSave /\ pc[t] \notin Loading /\ pc'[t] \notin Loading /\ rd'[t] = None
  BY <1>1 DEF TypeOK, Saving, Loading
<1>5. \A n \in Names : n # Temp(t) =>
        dir'[n] = dir[n] /\ (dir[n] # None => data'[dir[n]] = data[dir[n]])
  BY <1>a, <1>b DEF TypeOK, Exclusive
<1>6. \A u \in Threads : u # t => Same(u)
  BY DEF TypeOK, Same
<1>7. /\ \A u \in Threads : u # t /\ wr[u] # None => data'[wr[u]] = data[wr[u]]
      /\ \A u \in Threads : rd[u] # None => data'[rd[u]] = data[rd[u]]
  BY <1>a DEF TypeOK, Exclusive
<1> QED
  BY <1>1, <1>2, <1>3, <1>4, <1>5, <1>6, <1>7, SaverSteps

\* The inode a save opens is nobody else's.
LEMMA OpensMine ==
  ASSUME OneSaver, TypeOK, Exclusive, NEW t \in CanSave, wr[t] = None,
         NEW i \in Inodes, Opens(t, i)
  PROVE  /\ \A n \in Names : n # Temp(t) => dir[n] # i
         /\ \A u \in Threads : wr[u] # i /\ rd[u] # i
<1>1. CASE dir[Temp(t)] = None
  BY <1>1 DEF Opens, Referenced
<1>2. CASE dir[Temp(t)] # None
  <2>1. i = dir[Temp(t)] /\ Temp(t) \in Pids /\ Temp(t) \in Names
    BY <1>2, NameFacts, SnapshotAssumption DEF Opens
  <2>2. \A n \in Names : n # Temp(t) => dir[n] # i
    BY <1>2, <2>1 DEF Exclusive
  <2>3. \A u \in Threads : rd[u] # i
    BY <1>2, <2>1 DEF Exclusive
  <2>4. ASSUME NEW u \in Threads, wr[u] = i
        PROVE  FALSE
    <3>1. Temp(u) = Temp(t)
      BY <1>2, <2>1, <2>4 DEF Exclusive
    <3>2. u \in CanSave
      BY <1>2, <2>1, <2>4 DEF TypeOK, Saving
    <3> QED
      BY <1>2, <2>1, <2>4, <3>1, <3>2 DEF OneSaver
  <2> QED
    BY <2>2, <2>3, <2>4
<1> QED
  BY <1>1, <1>2

\* The stream of a save starts on an empty file of its own.
LEMMA SaveOpenKeeps ==
  ASSUME OneSaver, SnapshotInv, NEW t \in Threads, SaveOpen(t)
  PROVE  SnapshotInv'
<1> USE DEF SnapshotInv, SaveOpen
<1>t. t \in CanSave /\ gen[t] \in Gens
  BY DEF TypeOK, Saving
<1>i. PICK i \in Inodes :
        /\ Opens(t, i)
        /\ dir' = [dir EXCEPT ![Temp(t)] = i]
        /\ wr' = [wr EXCEPT ![t] = i]
        /\ UNCHANGED <<gen, off, size, sum, rd, todo, held, got>>
        /\ Store([data EXCEPT ![i] = <<>>])
  OBVIOUS
<1>w. wr[t] = None
  BY DEF TypeOK
<1>m. /\ \A n \in Names : n # Temp(t) => dir[n] # i
      /\ \A u \in Threads : (u # t => wr[u] # i) /\ rd[u] # i
  BY <1>t, <1>i, <1>w, OpensMine
<1> DEFINE d == [data EXCEPT ![i] = <<>>]
<1>d. Store(d) /\ <<>> \in Seq(Cells) /\ i \in Inodes
  BY <1>i
<1>f. d \in [Inodes -> Seq(Cells)]
  BY <1>d DEF TypeOK
<1>a. /\ data' \in [Inodes -> Seq(Cells)]
      /\ \A j \in Inodes, n \in Names : dir'[n] = j => data'[j] = d[j]
      /\ \A j \in Inodes, u \in Threads : wr'[u] = j \/ rd'[u] = j => data'[j] = d[j]
  BY <1>d, <1>f, Stored
<1>b. /\ dir' \in [Names -> Inodes \union {None}]
      /\ \A n \in Names : dir'[n] = IF n = Temp(t) THEN i ELSE dir[n]
  BY <1>i, <1>t, NameFacts DEF TypeOK
<1>1. TypeOK'
  BY <1>a, <1>b, <1>t, <1>i, NameFacts DEF TypeOK, Saving, Loading
<1>2. Exclusive'
  BY <1>b, <1>t, <1>i, <1>m, NameFacts DEF TypeOK, Exclusive
<1>3. SaveAt(t)'
  <2>1. data'[i] = <<>> /\ wr'[t] = i /\ dir'[Temp(t)] = i /\ off'[t] = 0
    BY <1>a, <1>b, <1>d, <1>i, <1>t, NameFacts DEF TypeOK
  <2>2. Prefix(gen[t], 0) = <<>> /\ 0 < BodyLen[gen[t]] /\ gen'[t] = gen[t]
    BY <1>i, <1>t, NameFacts DEF Prefix
  <2>3. pc'[t] = "body"
    BY DEF TypeOK
  <2> QED
    BY <2>1, <2>2, <2>3 DEF SaveAt
<1>4. t \in CanSave /\ pc[t] \notin Loading /\ pc'[t] \notin Loading /\ rd'[t] = None
  BY <1>1, <1>t DEF TypeOK, Saving, Loading
<1>5. \A n \in Names : n # Temp(t) =>
        dir'[n] = dir[n] /\ (dir[n] # None => data'[dir[n]] = data[dir[n]])
  BY <1>a, <1>b, <1>m DEF TypeOK
<1>6. \A u \in Threads : u # t => Same(u)
  BY <1>i DEF TypeOK, Same
<1>7. /\ \A u \in Threads : u # t /\ wr[u] # None => data'[wr[u]] = data[wr[u]]
      /\ \A u \in Threads : rd[u] # None => data'[rd[u]] = data[rd[u]]
  BY <1>a, <1>i, <1>m DEF TypeOK
<1> QED
  BY <1>1, <1>2, <1>3, <1>4, <1>5, <1>6, <1>7, SaverSteps

\* Each write extends the prefix in the save's own file.
LEMMA SaveBodyKeeps ==
  ASSUME OneSaver, SnapshotInv, NEW t \in Threads, SaveBody(t)
  PROVE  SnapshotInv'
<1> USE DEF SnapshotInv, SaveBody
<1>t. t \in CanSave /\ gen[t] \in Gens
  BY DEF TypeOK, Saving
<1> DEFINE i == wr[t]
           n0 == off[t]
<1>i. i \in Inodes /\ UNCHANGED <<dir, gen, size, sum, rd, todo, held, got>>
      /\ n0 \in Nat /\ n0 < BodyLen[gen[t]] /\ data[i] = Prefix(gen[t], n0)
      /\ wr' = [wr EXCEPT ![t] = IF n0 + 1 = BodyLen[gen[t]] THEN None ELSE i]
  BY DEF TypeOK, SaveAt
<1>m. /\ \A n \in Names : n # Temp(t) => dir[n] # i
      /\ \A u \in Threads : (u # t => wr[u] # i) /\ rd[u] # i
  BY <1>i, NameFacts DEF TypeOK, Exclusive
<1> DEFINE d == [data EXCEPT ![i] = Prefix(gen[t], n0 + 1)]
<1>d. Store(d) /\ Prefix(gen[t], n0 + 1) \in Seq(Cells) /\ i \in Inodes
  <2>1. Put(data[i], n0 + 1, Cell(gen[t], n0 + 1)) = Prefix(gen[t], n0 + 1)
    BY <1>i, <1>t, PrefixGrows
  <2>2. Prefix(gen[t], n0 + 1) \in Seq(Cells)
    <3>1. n0 + 1 \in 0..BodyLen[gen[t]]
      BY <1>i, <1>t, NameFacts
    <3> QED
      BY <1>t, <3>1, PrefixSeq
  <2>3. [data EXCEPT ![i] = Put(@, n0 + 1, Cell(gen[t], n0 + 1))] = d
    BY <2>1
  <2> QED
    BY <1>i, <2>2, <2>3
<1>f. d \in [Inodes -> Seq(Cells)]
  BY <1>d DEF TypeOK
<1>a. /\ data' \in [Inodes -> Seq(Cells)]
      /\ \A j \in Inodes, n \in Names : dir'[n] = j => data'[j] = d[j]
      /\ \A j \in Inodes, u \in Threads : wr'[u] = j \/ rd'[u] = j => data'[j] = d[j]
  BY <1>d, <1>f, Stored
<1>b. /\ dir' \in [Names -> Inodes \union {None}]
      /\ dir' = dir
  BY <1>i, <1>t, NameFacts DEF TypeOK
<1>1. TypeOK'
  BY <1>a, <1>b, <1>t, <1>i, NameFacts DEF TypeOK, Saving, Loading
<1>2. Exclusive'
  BY <1>b, <1>t, <1>i, <1>m, NameFacts DEF TypeOK, Exclusive
<1>3. SaveAt(t)'
  <2>1. dir[Temp(t)] \in {None, i}
    BY DEF SaveAt
  <2>2. CASE n0 + 1 = BodyLen[gen[t]]
    <3>1. pc'[t] = "size" /\ dir'[Temp(t)] = dir[Temp(t)] /\ gen'[t] = gen[t]
      BY <1>i, <2>2 DEF TypeOK
    <3>2. dir'[Temp(t)] # None => data'[dir'[Temp(t)]] = Body(gen[t])
      BY <1>a, <1>i, <1>d, <2>1, <2>2, <3>1, NameFacts DEF Body, TypeOK
    <3> QED
      BY <3>1, <3>2 DEF SaveAt
  <2>3. CASE n0 + 1 # BodyLen[gen[t]]
    <3>1. /\ pc'[t] = "body" /\ dir'[Temp(t)] = dir[Temp(t)] /\ gen'[t] = gen[t]
          /\ wr'[t] = i /\ off'[t] = n0 + 1 /\ n0 + 1 < BodyLen[gen[t]]
      BY <1>i, <1>t, <2>3, NameFacts DEF TypeOK
    <3>2. data'[i] = Prefix(gen[t], n0 + 1)
      BY <1>a, <1>i, <1>d, <3>1 DEF TypeOK
    <3> QED
      BY <2>1, <3>1, <3>2 DEF SaveAt
  <2> QED
    BY <2>2, <2>3
<1>4. t \in CanSave /\ pc[t] \notin Loading /\ pc'[t] \notin Loading /\ rd'[t] = None
  BY <1>1, <1>t DEF TypeOK, Saving, Loading
<1>5. \A n \in Names : n # Temp(t) =>
        dir'[n] = dir[n] /\ (dir[n] # None => data'[dir[n]] = data[dir[n]])
  BY <1>a, <1>b, <1>m DEF TypeOK
<1>6. \A u \in Threads : u # t => Same(u)
  BY <1>i DEF TypeOK, Same
<1>7. /\ \A u \in Threads : u # t /\ wr[u] # None => data'[wr[u]] = data[wr[u]]
      /\ \A u \in Threads : rd[u] # None => data'[rd[u]] = data[rd[u]]
  BY <1>a, <1>i, <1>m DEF TypeOK
<1> QED
  BY <1>1, <1>2, <1>3, <1>4, <1>5, <1>6, <1>7, SaverSteps

\* The trailer goes to the body, or to a new file if the body is gone.
LEMMA SaveAppendKeeps ==
  ASSUME OneSaver, SnapshotInv, NEW t \in Threads, SaveAppend(t)
  PROVE  SnapshotInv'
<1> USE DEF SnapshotInv, SaveAppend
<1>t. t \in CanSave /\ gen[t] \in Gens
  BY DEF TypeOK, Saving
<1>i. PICK i \in Inodes :
        /\ Opens(t, i)
        /\ dir' = [dir EXCEPT ![Temp(t)] = i]
        /\ wr' = [wr EXCEPT ![t] = i]
        /\ UNCHANGED <<gen, off, size, sum, rd, todo, held, got>>
        /\ Store([data EXCEPT ![i] = IF dir[Temp(t)] = None THEN <<>> ELSE @])
  OBVIOUS
<1>w. wr[t] = None
  BY DEF TypeOK
<1> DEFINE x == IF dir[Temp(t)] = None THEN <<>> ELSE data[i]
<1>m. /\ \A n \in Names : n # Temp(t) => dir[n] # i
      /\ \A u \in Threads : (u # t => wr[u] # i) /\ rd[u] # i
  BY <1>t, <1>i, <1>w, OpensMine
<1> DEFINE d == [data EXCEPT ![i] = x]
<1>d. Store(d) /\ x \in Seq(Cells) /\ i \in Inodes
  <2>1. x \in Seq(Cells)
    BY DEF TypeOK
  <2> QED
    BY <1>i, <2>1
<1>f. d \in [Inodes -> Seq(Cells)]
  BY <1>d DEF TypeOK
<1>a. /\ data' \in [Inodes -> Seq(Cells)]
      /\ \A j \in Inodes, n \in Names : dir'[n] = j => data'[j] = d[j]
      /\ \A j \in Inodes, u \in Threads : wr'[u] = j \/ rd'[u] = j => data'[j] = d[j]
  BY <1>d, <1>f, Stored
<1>b. /\ dir' \in [Names -> Inodes \union {None}]
      /\ \A n \in Names : dir'[n] = IF n = Temp(t) THEN i ELSE dir[n]
  BY <1>i, <1>t, NameFacts DEF TypeOK
<1>1. TypeOK'
  BY <1>a, <1>b, <1>t, <1>i, NameFacts DEF TypeOK, Saving, Loading
<1>2. Exclusive'
  BY <1>b, <1>t, <1>i, <1>m, NameFacts DEF TypeOK, Exclusive
<1>3. SaveAt(t)'
  <2>1. data'[i] = x /\ wr'[t] = i /\ dir'[Temp(t)] = i
    BY <1>a, <1>b, <1>d, <1>i, <1>t, NameFacts DEF TypeOK
  <2>2. x \in {Body(gen[t]), <<>>}
    BY <1>i DEF SaveAt, Opens
  <2>3. sum'[t] = Trailer(Body(gen[t])) /\ gen'[t] = gen[t]
    BY <1>i DEF SaveAt
  <2>4. pc'[t] = "trailer"
    BY DEF TypeOK
  <2> QED
    BY <2>1, <2>2, <2>3, <2>4 DEF SaveAt
<1>4. t \in CanSave /\ pc[t] \notin Loading /\ pc'[t] \notin Loading /\ rd'[t] = None
  BY <1>1, <1>t DEF TypeOK, Saving, Loading
<1>5. \A n \in Names : n # Temp(t) =>
        dir'[n] = dir[n] /\ (dir[n] # None => data'[dir[n]] = data[dir[n]])
  BY <1>a, <1>b, <1>m DEF TypeOK
<1>6. \A u \in Threads : u # t => Same(u)
  BY <1>i DEF TypeOK, Same
<1>7. /\ \A u \in Threads : u # t /\ wr[u] # None => data'[wr[u]] = data[wr[u]]
      /\ \A u \in Threads : rd[u] # None => data'[rd[u]] = data[rd[u]]
  BY <1>a, <1>i, <1>m DEF TypeOK
<1> QED
  BY <1>1, <1>2, <1>3, <1>4, <1>5, <1>6, <1>7, SaverSteps

\* The trailer completes the body or stands alone.
LEMMA SaveTrailerKeeps ==
  ASSUME OneSaver, SnapshotInv, NEW t \in Threads, SaveTrailer(t)
  PROVE  SnapshotInv'
<1> USE DEF SnapshotInv, SaveTrailer
<1>t. t \in CanSave /\ gen[t] \in Gens
  BY DEF TypeOK, Saving
<1> DEFINE i == wr[t]
           x == Put(data[i], Len(data[i]) + 1, sum[t])
<1>i. i \in Inodes /\ UNCHANGED <<dir, gen, off, size, rd, todo, held, got>>
      /\ wr' = [wr EXCEPT ![t] = None]
  BY DEF TypeOK
<1>m. /\ \A n \in Names : n # Temp(t) => dir[n] # i
      /\ \A u \in Threads : (u # t => wr[u] # i) /\ rd[u] # i
  BY <1>i, NameFacts DEF TypeOK, Exclusive
<1>x. x \in {Whole(gen[t]), <<Trailer(Body(gen[t]))>>}
  <2>1. sum[t] = Trailer(Body(gen[t])) /\ data[i] \in {Body(gen[t]), <<>>}
    BY DEF SaveAt
  <2> QED
    BY <1>t, <2>1, TrailerLands
<1> DEFINE d == [data EXCEPT ![i] = x]
<1>d. Store(d) /\ x \in Seq(Cells) /\ i \in Inodes
  <2>1. Whole(gen[t]) \in Seq(Cells)
    BY <1>t, WholeSeq
  <2>2. Trailer(Body(gen[t])) \in Cells
    BY <1>t, BodySeq
  <2>3. <<Trailer(Body(gen[t]))>> \in Seq(Cells)
    BY <2>2
  <2> QED
    BY <1>i, <1>x, <2>1, <2>3
<1>f. d \in [Inodes -> Seq(Cells)]
  BY <1>d DEF TypeOK
<1>a. /\ data' \in [Inodes -> Seq(Cells)]
      /\ \A j \in Inodes, n \in Names : dir'[n] = j => data'[j] = d[j]
      /\ \A j \in Inodes, u \in Threads : wr'[u] = j \/ rd'[u] = j => data'[j] = d[j]
  BY <1>d, <1>f, Stored
<1>b. /\ dir' \in [Names -> Inodes \union {None}]
      /\ dir' = dir
  BY <1>i, <1>t, NameFacts DEF TypeOK
<1>1. TypeOK'
  BY <1>a, <1>b, <1>t, <1>i, NameFacts DEF TypeOK, Saving, Loading
<1>2. Exclusive'
  BY <1>b, <1>t, <1>i, <1>m, NameFacts DEF TypeOK, Exclusive
<1>3. SaveAt(t)'
  <2>1. dir[Temp(t)] \in {None, i} /\ dir'[Temp(t)] = dir[Temp(t)]
    BY <1>i DEF SaveAt
  <2>2. pc'[t] = "rename" /\ gen'[t] = gen[t]
    BY <1>i DEF TypeOK
  <2>3. dir'[Temp(t)] # None => data'[dir'[Temp(t)]] = x
    BY <1>a, <1>b, <1>i, <1>d, <1>t, <2>1, NameFacts DEF TypeOK
  <2> QED
    BY <1>x, <2>2, <2>3 DEF SaveAt
<1>4. t \in CanSave /\ pc[t] \notin Loading /\ pc'[t] \notin Loading /\ rd'[t] = None
  BY <1>1, <1>t DEF TypeOK, Saving, Loading
<1>5. \A n \in Names : n # Temp(t) =>
        dir'[n] = dir[n] /\ (dir[n] # None => data'[dir[n]] = data[dir[n]])
  BY <1>a, <1>b, <1>m DEF TypeOK
<1>6. \A u \in Threads : u # t => Same(u)
  BY <1>i DEF TypeOK, Same
<1>7. /\ \A u \in Threads : u # t /\ wr[u] # None => data'[wr[u]] = data[wr[u]]
      /\ \A u \in Threads : rd[u] # None => data'[rd[u]] = data[rd[u]]
  BY <1>a, <1>i, <1>m DEF TypeOK
<1> QED
  BY <1>1, <1>2, <1>3, <1>4, <1>5, <1>6, <1>7, SaverSteps

\* A rename publishes a whole generation or a lone trailer, and every load
\* under way takes note of it.
LEMMA SaveRenameKeeps ==
  ASSUME OneSaver, SnapshotInv, NEW t \in Threads, SaveRename(t)
  PROVE  SnapshotInv'
<1> USE DEF SnapshotInv, SaveRename
<1> DEFINE i == dir[Temp(t)]
<1>t. t \in CanSave /\ gen[t] \in Gens /\ Temp(t) \in Names /\ Temp(t) \in Pids
  BY NameFacts DEF TypeOK, Saving
<1>a. /\ data' \in [Inodes -> Seq(Cells)]
      /\ \A j \in Inodes, n \in Names : dir'[n] = j => data'[j] = data[j]
      /\ \A j \in Inodes, u \in Threads : wr'[u] = j \/ rd'[u] = j => data'[j] = data[j]
  BY Stored DEF TypeOK
<1>b. /\ dir' \in [Names -> Inodes \union {None}]
      /\ \A n \in Pids : dir'[n] = IF n = Temp(t) THEN None ELSE dir[n]
      /\ dir'[Final] = IF i = None THEN dir[Final] ELSE i
  BY <1>t, NameFacts DEF TypeOK
<1>c. /\ held' \in [Threads -> SUBSET Gens]
      /\ \A u \in Threads : pc[u] \in Loading => held'[u] = held[u] \union FinalGens'
      /\ \A u \in Threads : pc[u] \notin Loading => held'[u] = {}
  BY DEF TypeOK, FinalGens
<1>d. /\ \A u \in Threads : u # t => pc'[u] = pc[u] /\ gen'[u] = gen[u]
      /\ \A u \in Threads : pc[u] \in Loading => u # t
      /\ pc'[t] \in {"idle", "undo"}
  BY DEF TypeOK, Loading
<1>1. TypeOK'
  BY <1>a, <1>b, <1>c, <1>t, NameFacts DEF TypeOK, Saving, Loading
<1>2. Exclusive'
  <2>1. \A m, n \in Names : dir'[m] = dir'[n] /\ dir'[m] # None => m = n
    BY <1>b, <1>t, NameFacts DEF Exclusive
  <2>2. \A p \in Pids, u \in Threads : dir'[p] # None => dir'[p] # rd'[u]
    BY <1>b, <1>t, NameFacts DEF Exclusive
  <2>3. ASSUME NEW u \in Threads, wr'[u] # None
        PROVE  /\ \A n \in Names : dir'[n] = wr'[u] => n = Temp(u)
               /\ \A v \in Threads : wr'[u] # rd'[v] /\ (wr'[v] = wr'[u] => v = u)
    <3>1. /\ \A n \in Names : dir[n] = wr[u] => n = Temp(u)
          /\ \A v \in Threads : wr[u] # rd[v] /\ (wr[v] = wr[u] => v = u)
      BY <2>3 DEF Exclusive
    <3>2. u # t /\ u \in CanSave
      BY <2>3 DEF TypeOK, Saving
    <3>3. Temp(u) # Temp(t)
      BY <1>t, <3>2 DEF OneSaver
    <3>4. dir'[Final] # wr[u]
      BY <1>b, <1>t, <2>3, <3>1, <3>3, NameFacts
    <3> QED
      BY <1>b, <1>t, <2>3, <3>1, <3>4, NameFacts
  <2> QED
    BY <2>1, <2>2, <2>3 DEF Exclusive
<1>3. ASSUME NEW u \in Threads
      PROVE  SaveAt(u)'
  <2>1. CASE pc'[u] \notin Saving
    BY <2>1 DEF SaveAt, Saving
  <2>2. CASE pc'[u] \in Saving
    <3>1. u # t /\ u \in CanSave /\ Temp(u) # Temp(t) /\ Temp(u) \in Pids /\ Temp(u) \in Names
      BY <1>d, <1>t, <2>2, NameFacts DEF TypeOK, OneSaver, Saving
    <3>2. dir'[Temp(u)] = dir[Temp(u)]
      BY <1>b, <3>1
    <3>3. dir'[Temp(u)] # None => data'[dir[Temp(u)]] = data[dir[Temp(u)]]
      BY <1>a, <1>b, <3>1, <3>2
    <3>4. wr[u] # None => data'[wr[u]] = data[wr[u]]
      BY <1>a DEF TypeOK
    <3>5. pc[u] \in {"body", "trailer"} => wr[u] # None
      BY DEF TypeOK
    <3> QED
      BY <1>d, <3>1, <3>2, <3>3, <3>4, <3>5 DEF SaveAt
  <2> QED
    BY <2>1, <2>2
<1>4. CASE i = None
  <2>1. dir'[Final] = dir[Final]
        /\ (dir[Final] # None => data'[dir[Final]] = data[dir[Final]])
    BY <1>a, <1>b, <1>4, NameFacts DEF TypeOK
  <2>2. FinalShape' /\ FinalGens' = FinalGens
    BY <2>1, FinalStays
  <2>3. ASSUME NEW u \in Threads
        PROVE  LoadAt(u)'
    <3>1. rd'[u] = rd[u] /\ size'[u] = size[u] /\ (rd[u] # None => data'[rd[u]] = data[rd[u]])
      BY <1>a DEF TypeOK
    <3>2. rd[u] # None => pc[u] \in Loading
      BY DEF TypeOK, Loading
    <3>3. pc'[u] \in Loading => u # t
      BY <1>d DEF Loading
    <3>4. pc[u] \in Loading /\ pc'[u] = pc[u] => LoadAt(u)'
      <4>1. SUFFICES ASSUME pc[u] \in Loading, pc'[u] = pc[u] PROVE LoadAt(u)'
        OBVIOUS
      <4>2. held'[u] = held[u] \union FinalGens'
        BY <1>c, <4>1
      <4>4. LoadAt(u)
        OBVIOUS
      <4> HIDE DEF SnapshotInv, SaveRename, i
      <4> QED
        BY <2>1, <3>1, <4>1, <4>2, <4>4 DEF LoadAt
    <3>5. pc'[u] \notin Loading => LoadAt(u)'
      BY <3>1, <3>2, <1>d DEF LoadAt, Loading
    <3> QED
      BY <1>d, <3>3, <3>4, <3>5
  <2> QED
    BY <1>1, <1>2, <1>3, <2>2, <2>3
<1>5. CASE i # None
  <2>1. dir'[Final] = i /\ i \in Inodes /\ data'[i] = data[i]
    BY <1>a, <1>b, <1>t, <1>5, NameFacts DEF TypeOK
  <2>2. data[i] \in {Whole(gen[t]), <<Trailer(Body(gen[t]))>>}
    BY <1>5 DEF SaveAt
  <2>3. FinalShape'
    BY <1>t, <2>1, <2>2 DEF FinalShape, Shard
  <2>4. \A g \in Gens : \A n \in 1..BodyLen[g] : data[i] # Prefix(g, n)
    <3> TAKE g \in Gens
    <3> TAKE n \in 1..BodyLen[g]
    <3>1. n \in Nat \ {0} /\ BodyLen[g] \in Nat /\ BodyLen[gen[t]] \in Nat \ {0}
      BY <1>t, NameFacts
    <3>2. Len(Prefix(g, n)) = n /\ Prefix(g, n)[1] = Cell(g, 1) /\ Prefix(g, n)[n] = Cell(g, n)
      BY <3>1, PrefixSeq
    <3>3. Whole(gen[t]) # Prefix(g, n)
      BY <1>t, <3>1, <3>2, WholeSeq, CellKinds
    <3>4. <<Trailer(Body(gen[t]))>> # Prefix(g, n)
      BY <3>1, <3>2, CellKinds
    <3> QED
      BY <2>2, <3>3, <3>4
  <2>5. ASSUME NEW u \in Threads
        PROVE  LoadAt(u)'
    <3>1. rd'[u] = rd[u] /\ size'[u] = size[u] /\ (rd[u] # None => data'[rd[u]] = data[rd[u]])
      BY <1>a DEF TypeOK
    <3>2. rd[u] # None => pc[u] \in Loading
      BY DEF TypeOK, Loading
    <3>3. pc'[u] \in Loading => u # t
      BY <1>d DEF Loading
    <3>4. pc[u] \in Loading /\ pc'[u] = pc[u] => LoadAt(u)'
      <4>1. SUFFICES ASSUME pc[u] \in Loading, pc'[u] = pc[u] PROVE LoadAt(u)'
        OBVIOUS
      <4>2. held'[u] = held[u] \union FinalGens'
        BY <1>c, <4>1
      <4>3. dir'[Final] # None => \A g \in Gens : \A n \in 1..BodyLen[g] :
              data'[dir'[Final]] # Prefix(g, n)
        BY <2>1, <2>4
      <4>4. LoadAt(u)
        OBVIOUS
      <4> HIDE DEF SnapshotInv, SaveRename, i
      <4> QED
        BY <3>1, <4>1, <4>2, <4>3, <4>4 DEF LoadAt
    <3>5. pc'[u] \notin Loading => LoadAt(u)'
      BY <3>1, <3>2, <1>d DEF LoadAt, Loading
    <3> QED
      BY <1>d, <3>3, <3>4, <3>5
  <2> QED
    BY <1>1, <1>2, <1>3, <2>3, <2>5
<1> QED
  BY <1>4, <1>5

\* A step of one load: what it must not disturb, and what is left to show.
LEMMA LoaderSteps ==
  ASSUME SnapshotInv, NEW t \in Threads, TypeOK', Exclusive', LoadAt(t)',
         pc[t] \notin Saving, pc'[t] \notin Saving, wr' = wr,
         dir'[Final] = dir[Final],
         \A n \in Names : dir'[n] \in {None, dir[n]},
         \A n \in Names : dir'[n] # None => data'[dir[n]] = data[dir[n]],
         \A u \in Threads : u # t => Same(u),
         \A u \in Threads : u # t /\ rd[u] # None => data'[rd[u]] = data[rd[u]],
         \A u \in Threads : wr[u] # None => data'[wr[u]] = data[wr[u]]
  PROVE  SnapshotInv'
<1>1. FinalShape'
  BY FinalStays, NameFacts DEF SnapshotInv
<1>2. SaveAt(t)'
  BY DEF SaveAt, Saving
<1>3. ASSUME NEW u \in Threads, u # t
      PROVE  SaveAt(u)' /\ LoadAt(u)'
  <2>1. LoadAt(u)'
    BY <1>3, LoadStays, NameFacts DEF SnapshotInv
  <2>2. Temp(u) \in Names
    BY NameFacts
  <2>3. dir'[Temp(u)] \in {None, dir[Temp(u)]}
        /\ (dir'[Temp(u)] # None => data'[dir[Temp(u)]] = data[dir[Temp(u)]])
    BY <2>2
  <2>4. Same(u) /\ SaveAt(u) /\ (wr[u] # None => data'[wr[u]] = data[wr[u]])
        /\ (pc[u] \in {"body", "trailer"} => wr[u] # None)
    BY <1>3 DEF SnapshotInv, TypeOK
  <2> HIDE DEF Temp
  <2> QED
    BY <2>1, <2>3, <2>4, SaveStays
<1> QED
  BY <1>1, <1>2, <1>3 DEF SnapshotInv

\* Where the files stay as they are, so do the facts about sharing.
LEMMA QuietLoad ==
  ASSUME SnapshotInv, NEW t \in Threads, TypeOK', LoadAt(t)',
         pc[t] \notin Saving, pc'[t] \notin Saving,
         UNCHANGED <<dir, data, wr>>,
         \A u \in Threads : rd'[u] \in {None, rd[u], dir[Final]},
         \A u \in Threads : u # t => Same(u)
  PROVE  SnapshotInv'
<1>1. Exclusive'
  <2>1. \A p \in Pids, u \in Threads : dir[p] # None => dir[p] # rd'[u]
    BY NameFacts DEF SnapshotInv, Exclusive
  <2>2. \A u, v \in Threads : wr[u] # None => wr[u] # rd'[v]
    BY NameFacts DEF SnapshotInv, Exclusive
  <2> QED
    BY <2>1, <2>2 DEF SnapshotInv, Exclusive
<1> QED
  BY <1>1, LoaderSteps

\* A load begins, holding what is published now.
LEMMA LoadBeginKeeps ==
  ASSUME SnapshotInv, NEW t \in Threads, LoadBegin(t)
  PROVE  SnapshotInv'
<1> USE DEF LoadBegin
<1>1. TypeOK'
  BY DEF SnapshotInv, TypeOK, FinalGens, Saving, Loading
<1>2. LoadAt(t)'
  BY DEF SnapshotInv, TypeOK, LoadAt, FinalGens, Loading
<1>3. pc[t] \notin Saving /\ pc'[t] \notin Saving /\ \A u \in Threads : u # t => Same(u)
  BY DEF SnapshotInv, TypeOK, Saving, Same
<1> QED
  BY <1>1, <1>2, <1>3, QuietLoad

\* It removes temporaries, never the published file.
LEMMA LoadReapKeeps ==
  ASSUME SnapshotInv, NEW t \in Threads, NEW m \in Pids, LoadReap(t, m)
  PROVE  SnapshotInv'
<1> USE DEF LoadReap
<1>a. /\ data' \in [Inodes -> Seq(Cells)]
      /\ \A i \in Inodes, n \in Names : dir'[n] = i => data'[i] = data[i]
      /\ \A i \in Inodes, u \in Threads : wr'[u] = i \/ rd'[u] = i => data'[i] = data[i]
  BY Stored DEF SnapshotInv, TypeOK
<1>b. /\ dir' \in [Names -> Inodes \union {None}]
      /\ \A n \in Names : dir'[n] = IF n = m THEN None ELSE dir[n]
  BY DEF SnapshotInv, TypeOK
<1>1. TypeOK'
  BY <1>a, <1>b, NameFacts DEF SnapshotInv, TypeOK, Saving, Loading
<1>2. Exclusive'
  BY <1>b, NameFacts DEF SnapshotInv, TypeOK, Exclusive
<1>3. dir'[Final] = dir[Final]
  BY <1>b, NameFacts
<1>4. \A n \in Names : dir'[n] # None => data'[dir[n]] = data[dir[n]]
  BY <1>a, <1>b DEF SnapshotInv, TypeOK
<1>5. \A u \in Threads : rd[u] # None => data'[rd[u]] = data[rd[u]]
  BY <1>a DEF SnapshotInv, TypeOK
<1>9. \A u \in Threads : wr[u] # None => data'[wr[u]] = data[wr[u]]
  BY <1>a DEF SnapshotInv, TypeOK
<1>6. \A u \in Threads : Same(u)
  BY DEF Same
<1>7. LoadAt(t)'
  <2>1. dir[Final] # None => data'[dir[Final]] = data[dir[Final]]
    BY <1>3, <1>4, NameFacts
  <2>2. LoadAt(t) /\ Same(t) /\ (rd[t] # None => data'[rd[t]] = data[rd[t]])
    BY <1>5, <1>6 DEF SnapshotInv
  <2> HIDE DEF LoadReap
  <2> QED
    BY <1>3, <2>1, <2>2, LoadStays
<1>8. pc[t] \notin Saving /\ pc'[t] \notin Saving
  BY DEF Saving
<1>c. wr' = wr /\ \A n \in Names : dir'[n] \in {None, dir[n]}
  BY <1>b
<1> HIDE DEF LoadReap
<1> QED
  BY <1>1, <1>2, <1>3, <1>4, <1>5, <1>6, <1>7, <1>8, <1>9, <1>c, LoaderSteps

\* However a load ends, it lets go of its stream.
LEMMA LoadEndKeeps ==
  ASSUME SnapshotInv, NEW t \in Threads, pc[t] \in Loading \ {"reap"},
         NEW gs \in SUBSET Gens, LoadEnd(t, gs)
  PROVE  SnapshotInv'
<1> USE DEF LoadEnd
<1>a. /\ data' \in [Inodes -> Seq(Cells)]
      /\ \A i \in Inodes, n \in Names : dir'[n] = i => data'[i] = data[i]
      /\ \A i \in Inodes, u \in Threads : wr'[u] = i \/ rd'[u] = i => data'[i] = data[i]
  BY Stored DEF SnapshotInv, TypeOK
<1>1. TypeOK'
  BY <1>a, NameFacts DEF SnapshotInv, TypeOK, Saving, Loading
<1>2. Exclusive'
  BY NameFacts DEF SnapshotInv, TypeOK, Exclusive
<1>4. \A n \in Names : dir'[n] # None => data'[dir[n]] = data[dir[n]]
  BY <1>a DEF SnapshotInv, TypeOK
<1>5. \A u \in Threads : u # t /\ rd[u] # None => data'[rd[u]] = data[rd[u]]
  BY <1>a DEF SnapshotInv, TypeOK
<1>9. \A u \in Threads : wr[u] # None => data'[wr[u]] = data[wr[u]]
  BY <1>a DEF SnapshotInv, TypeOK
<1>3. wr' = wr /\ dir'[Final] = dir[Final] /\ \A n \in Names : dir'[n] \in {None, dir[n]}
  OBVIOUS
<1>6. \A u \in Threads : u # t => Same(u)
  BY DEF SnapshotInv, TypeOK, Same
<1>7. LoadAt(t)'
  BY DEF SnapshotInv, TypeOK, LoadAt, Loading
<1>8. pc[t] \notin Saving /\ pc'[t] \notin Saving
  BY DEF SnapshotInv, TypeOK, Saving, Loading
<1> HIDE DEF LoadEnd
<1> QED
  BY <1>1, <1>2, <1>3, <1>4, <1>5, <1>6, <1>7, <1>8, <1>9, LoaderSteps

\* A load that accepts has parsed one generation, and one it could load.
LEMMA ParsesOne ==
  ASSUME SnapshotInv, NEW t \in Threads, pc[t] = "parse", Accepts(t)
  PROVE  \E g \in held[t] : Parsed(t) = {g}
<1> DEFINE s == data[rd[t]]
           n == size[t] - 1
<1>1. /\ size[t] \in Nat /\ held[t] \subseteq Gens
      /\ (\E g \in held[t] : s = Whole(g))
         \/ (\E g \in Gens : \E m \in 1..BodyLen[g] : s = Prefix(g, m) /\ size[t] = m)
  BY DEF SnapshotInv, TypeOK, LoadAt
<1>2. /\ n \in Nat \ {0} /\ Len(s) >= n
      /\ \A k \in 1..n : IsBody(s[k])
      /\ \A g \in Parsed(t) : BodyLen[g] = n
  BY <1>1 DEF Accepts
<1>3. CASE \E g \in held[t] : s = Whole(g)
  <2> PICK g \in held[t] : s = Whole(g)
    BY <1>3
  <2>1. /\ g \in Gens /\ BodyLen[g] \in Nat \ {0} /\ Len(s) = BodyLen[g] + 1
        /\ \A k \in 1..BodyLen[g] : s[k] = Cell(g, k)
        /\ ~IsBody(s[BodyLen[g] + 1])
    BY <1>1, WholeSeq, CellKinds, NameFacts
  <2>2. n <= BodyLen[g]
    BY <1>2, <2>1
  <2>3. \A k \in 1..n : s[k][2] = g
    <3>1. \A k \in 1..n : s[k] = Cell(g, k)
      BY <1>2, <2>1, <2>2
    <3> QED
      BY <3>1 DEF Cell
  <2>4. Parsed(t) = {s[k][2] : k \in 1..n}
    BY Zenon DEF Parsed
  <2>6. 1 \in 1..n
    <3>1. n \in Nat \ {0}
      BY <1>2
    <3> HIDE DEF n
    <3> QED
      BY <3>1
  <2> HIDE DEF s, n
  <2>5. Parsed(t) = {g}
    BY <2>3, <2>4, <2>6
  <2> QED
    BY <2>5
<1>4. CASE \E g \in Gens : \E m \in 1..BodyLen[g] : s = Prefix(g, m) /\ size[t] = m
  <2> PICK g \in Gens : \E m \in 1..BodyLen[g] : s = Prefix(g, m) /\ size[t] = m
    BY <1>4
  <2> PICK m \in 1..BodyLen[g] : s = Prefix(g, m) /\ size[t] = m
    OBVIOUS
  <2>1. BodyLen[g] \in Nat \ {0} /\ m \in 0..BodyLen[g]
    BY NameFacts
  <2>2. \A k \in 1..m : s[k] = Cell(g, k)
    BY <2>1, PrefixSeq
  <2>3. s[1][2] = g /\ 1 \in 1..n
    BY <1>2, <2>1, <2>2, CellKinds
  <2>4. g \in Parsed(t)
    BY <2>3 DEF Parsed
  <2> QED
    BY <1>2, <2>1, <2>4
<1> QED
  BY <1>1, <1>3, <1>4

\* The steps of a load between its listing and its end.
LEMMA LoadMovesKeeps ==
  ASSUME SnapshotInv, NEW t \in Threads,
         \/ LoadReaped(t) \/ LoadStat(t) \/ LoadOpen(t) \/ LoadTail(t)
         \/ LoadCheck(t) \/ LoadParse(t) \/ LoadFail(t)
  PROVE  SnapshotInv'
<1>e. ASSUME NEW gs \in SUBSET Gens, LoadEnd(t, gs), pc[t] \in Loading \ {"reap"}
      PROVE  SnapshotInv'
  BY <1>e, LoadEndKeeps
<1>1. CASE LoadReaped(t)
  <2> USE <1>1 DEF LoadReaped
  <2>1. TypeOK'
    BY DEF SnapshotInv, TypeOK, Saving, Loading
  <2>2. LoadAt(t)'
    BY DEF SnapshotInv, TypeOK, LoadAt, FinalGens, Loading
  <2>3. pc[t] \notin Saving /\ pc'[t] \notin Saving /\ \A u \in Threads : u # t => Same(u)
    BY DEF SnapshotInv, TypeOK, Saving, Same
  <2> QED
    BY <2>1, <2>2, <2>3, QuietLoad
<1>2. CASE LoadStat(t)
  <2>1. CASE LoadEnd(t, {})
    BY <1>2, <1>e, <2>1 DEF LoadStat, Loading
  <2>2. CASE ~LoadEnd(t, {})
    <3> USE <1>2, <2>2 DEF LoadStat
    <3>0. /\ dir[Final] \in Inodes /\ data[dir[Final]] \in Seq(Cells)
          /\ data[dir[Final]] # <<>>
          /\ size' = [size EXCEPT ![t] = Len(data[dir[Final]])]
      BY NameFacts DEF SnapshotInv, TypeOK, TooShort
    <3>a. Len(data[dir[Final]]) \in Nat \ {0}
      BY <3>0
    <3>1. TypeOK'
      BY <3>0, <3>a DEF SnapshotInv, TypeOK, Saving, Loading
    <3>2. LoadAt(t)'
      <4>1. \A g \in Gens : \A n \in 1..BodyLen[g] : Len(Prefix(g, n)) = n
        BY PrefixSeq, NameFacts
      <4>2. /\ size'[t] = Len(data[dir[Final]]) /\ rd'[t] = None /\ pc'[t] = "open_final"
            /\ Len(data[dir[Final]]) # 0
        BY <3>0, <3>a DEF SnapshotInv, TypeOK
      <4> QED
        BY <4>1, <4>2 DEF SnapshotInv, LoadAt, FinalGens, Loading
    <3>3. pc[t] \notin Saving /\ pc'[t] \notin Saving /\ \A u \in Threads : u # t => Same(u)
      BY DEF SnapshotInv, TypeOK, Saving, Same
    <3> QED
      BY <3>1, <3>2, <3>3, QuietLoad
  <2> QED
    BY <2>1, <2>2
<1>3. CASE LoadOpen(t)
  <2>1. CASE LoadEnd(t, {})
    BY <1>3, <1>e, <2>1 DEF LoadOpen, Loading
  <2>2. CASE ~LoadEnd(t, {})
    <3> USE <1>3, <2>2 DEF LoadOpen
    <3>0. /\ dir[Final] \in Inodes /\ data[dir[Final]] # <<>> /\ IsBody(data[dir[Final]][1])
          /\ rd' = [rd EXCEPT ![t] = dir[Final]]
      BY NameFacts DEF SnapshotInv, TypeOK
    <3>b. ASSUME NEW u \in Threads
          PROVE  Fits(u)'
      BY <3>0, NameFacts DEF SnapshotInv, TypeOK, Saving, Loading
    <3>1. TypeOK'
      <4> HIDE DEF Fits
      <4> QED
        BY <3>0, <3>b, NameFacts DEF SnapshotInv, TypeOK, Saving, Loading
    <3>2. LoadAt(t)'
      <4>1. \A g \in Gens : data[dir[Final]] # <<Trailer(Body(g))>>
        BY <3>0, CellKinds
      <4>2. \A g \in Gens : data[dir[Final]] # Prefix(g, 0)
        BY <3>0 DEF Prefix
      <4>3. \/ \E g \in Gens : data[dir[Final]] = Whole(g)
            \/ \E g \in Gens : \E n \in 1..BodyLen[g] : data[dir[Final]] = Prefix(g, n)
        <5>1. \A g \in Gens : \A n \in 0..BodyLen[g] : n # 0 => n \in 1..BodyLen[g]
          BY NameFacts
        <5>2. dir[Final] # None
          BY <3>0, NameFacts
        <5> QED
          BY <4>1, <4>2, <5>1, <5>2 DEF SnapshotInv, FinalShape, Shard
      <4>4. FinalGens \subseteq held[t] /\ size[t] # 0 /\ held'[t] = held[t] /\ size'[t] = size[t]
            /\ rd'[t] = dir[Final] /\ pc'[t] = "tail" /\ FinalGens' = FinalGens
        BY <3>0 DEF SnapshotInv, TypeOK, LoadAt, Loading, FinalGens
      <4>5. \A g \in Gens : \A n \in 1..BodyLen[g] :
              data[dir[Final]] = Prefix(g, n) => size[t] = n
        BY <3>0, NameFacts DEF SnapshotInv, LoadAt
      <4>6. \A g \in Gens : data[dir[Final]] = Whole(g) => g \in held[t]
        BY <3>0, <4>4, NameFacts DEF FinalGens
      <4>7. data' = data
        OBVIOUS
      <4> HIDE <1>3, <2>2 DEF LoadOpen
      <4> QED
        BY <4>3, <4>4, <4>5, <4>6, <4>7 DEF LoadAt, Loading
    <3>3. pc[t] \notin Saving /\ pc'[t] \notin Saving /\ \A u \in Threads : u # t => Same(u)
      BY DEF SnapshotInv, TypeOK, Saving, Same
    <3>4. \A u \in Threads : rd'[u] \in {None, rd[u], dir[Final]}
      BY <3>0 DEF SnapshotInv, TypeOK
    <3> QED
      BY <3>1, <3>2, <3>3, <3>4, QuietLoad
  <2> QED
    BY <2>1, <2>2
<1>4. CASE LoadTail(t)
  <2>1. CASE LoadEnd(t, {})
    BY <1>4, <1>e, <2>1 DEF LoadTail, Loading
  <2>2. CASE ~LoadEnd(t, {})
    <3> USE <1>4, <2>2 DEF LoadTail
    <3>0. sum' \in [Threads -> Cells \union {None}]
      <4>1. /\ size[t] \in Nat /\ size[t] # 0 /\ dir[Final] \in Inodes
            /\ data[dir[Final]] \in Seq(Cells) /\ Len(data[dir[Final]]) >= size[t]
            /\ sum' = [sum EXCEPT ![t] = data[dir[Final]][size[t]]]
        BY NameFacts DEF SnapshotInv, TypeOK, LoadAt
      <4>2. data[dir[Final]][size[t]] \in Cells
        BY <4>1
      <4> QED
        BY <4>1, <4>2 DEF SnapshotInv, TypeOK
    <3>b. ASSUME NEW u \in Threads
          PROVE  Fits(u)'
      BY DEF SnapshotInv, TypeOK, Saving, Loading
    <3>1. TypeOK'
      <4> HIDE DEF Fits
      <4> QED
        BY <3>0, <3>b DEF SnapshotInv, TypeOK, Saving, Loading
    <3>2. LoadAt(t)'
      <4>1. /\ UNCHANGED <<dir, data, rd, size, held>> /\ pc[t] \in Loading
            /\ pc'[t] \in {"check", "parse"} /\ FinalGens' = FinalGens
        BY DEF SnapshotInv, TypeOK, FinalGens, Loading
      <4>2. LoadAt(t)
        BY DEF SnapshotInv
      <4> HIDE <1>4, <2>2 DEF LoadTail
      <4> QED
        BY <4>1, <4>2 DEF LoadAt, Loading
    <3>3. pc[t] \notin Saving /\ pc'[t] \notin Saving /\ \A u \in Threads : u # t => Same(u)
      BY DEF SnapshotInv, TypeOK, Saving, Same
    <3> QED
      BY <3>1, <3>2, <3>3, QuietLoad
  <2> QED
    BY <2>1, <2>2
<1>5. CASE LoadCheck(t)
  <2>1. CASE LoadEnd(t, {})
    BY <1>5, <1>e, <2>1 DEF LoadCheck, Loading
  <2>2. CASE ~LoadEnd(t, {})
    <3> USE <1>5, <2>2 DEF LoadCheck
    <3>1. TypeOK'
      BY DEF SnapshotInv, TypeOK, Saving, Loading
    <3>2. LoadAt(t)'
      <4>1. /\ UNCHANGED <<dir, data, rd, size, held>> /\ pc[t] \in Loading
            /\ pc'[t] \in {"check", "parse"} /\ FinalGens' = FinalGens
        BY DEF SnapshotInv, TypeOK, FinalGens, Loading
      <4>2. LoadAt(t)
        BY DEF SnapshotInv
      <4> HIDE <1>5, <2>2 DEF LoadCheck
      <4> QED
        BY <4>1, <4>2 DEF LoadAt, Loading
    <3>3. pc[t] \notin Saving /\ pc'[t] \notin Saving /\ \A u \in Threads : u # t => Same(u)
      BY DEF SnapshotInv, TypeOK, Saving, Same
    <3> QED
      BY <3>1, <3>2, <3>3, QuietLoad
  <2> QED
    BY <2>1, <2>2
<1>6. CASE LoadParse(t)
  <2>1. (IF Accepts(t) THEN Parsed(t) ELSE {}) \in SUBSET Gens
    BY <1>6, ParsesOne DEF LoadParse, SnapshotInv, TypeOK
  <2> QED
    BY <1>6, <1>e, <2>1 DEF LoadParse, Loading
<1>7. CASE LoadFail(t)
  BY <1>7, <1>e DEF LoadFail
<1> QED
  BY <1>1, <1>2, <1>3, <1>4, <1>5, <1>6, <1>7

\* A process dies: its threads are back where they started.
LEMMA CrashKeeps ==
  ASSUME SnapshotInv, NEW ts \in SUBSET Threads, NEW d \in [Inodes -> Seq(Cells)],
         Forget(ts), Store(d),
         ts = Threads \/ d = data,
         dir[Final] # None =>
           (\E g \in Gens : d[dir[Final]] = Whole(g)) \/ Shard(d[dir[Final]])
  PROVE  SnapshotInv'
<1> USE DEF Forget
<1>a. /\ data' \in [Inodes -> Seq(Cells)]
      /\ \A i \in Inodes, n \in Names : dir'[n] = i => data'[i] = d[i]
      /\ \A i \in Inodes, u \in Threads : wr'[u] = i \/ rd'[u] = i => data'[i] = d[i]
  BY Stored
<1>b. /\ dir' = dir /\ dir \in [Names -> Inodes \union {None}]
      /\ \A u \in ts : /\ pc'[u] = "idle" /\ wr'[u] = None /\ rd'[u] = None
      /\ \A u \in Threads \ ts : Same(u)
  BY DEF SnapshotInv, TypeOK, Same
<1>1. TypeOK'
  BY <1>a, NameFacts DEF SnapshotInv, TypeOK, Saving, Loading
<1>2. Exclusive'
  BY <1>b, NameFacts DEF SnapshotInv, TypeOK, Exclusive, Same
<1>3. FinalShape'
  <2>1. dir[Final] # None => data'[dir[Final]] = d[dir[Final]]
    BY <1>a, <1>b, NameFacts
  <2> QED
    BY <1>b, <2>1 DEF FinalShape, Shard
<1>4. ASSUME NEW u \in ts
      PROVE  SaveAt(u)' /\ LoadAt(u)'
  BY <1>b DEF SaveAt, LoadAt, Loading
<1>5. ASSUME NEW u \in Threads \ ts
      PROVE  SaveAt(u)' /\ LoadAt(u)'
  <2>1. d = data
    OBVIOUS
  <2>2. /\ dir[Final] # None => data'[dir[Final]] = data[dir[Final]]
        /\ dir[Temp(u)] # None => data'[dir[Temp(u)]] = data[dir[Temp(u)]]
    BY <1>a, <1>b, <2>1, NameFacts
  <2>3. /\ wr[u] # None => data'[wr[u]] = data[wr[u]]
        /\ rd[u] # None => data'[rd[u]] = data[rd[u]]
    BY <1>a, <1>b, <2>1 DEF SnapshotInv, TypeOK, Same
  <2>4. /\ Same(u) /\ SaveAt(u) /\ LoadAt(u)
        /\ (pc[u] \in {"body", "trailer"} => wr[u] # None)
    BY <1>b DEF SnapshotInv, TypeOK
  <2> HIDE DEF Temp, Forget
  <2> QED
    BY <1>b, <2>2, <2>3, <2>4, SaveStays, LoadStays
<1> QED
  BY <1>1, <1>2, <1>3, <1>4, <1>5 DEF SnapshotInv

\* Nothing happens.
LEMMA StutterKeeps ==
  ASSUME SnapshotInv, UNCHANGED vars
  PROVE  SnapshotInv'
<1> USE DEF vars
<1>1. TypeOK'
  BY DEF SnapshotInv, TypeOK
<1>2. Exclusive'
  BY DEF SnapshotInv, Exclusive
<1>3. FinalShape'
  BY DEF SnapshotInv, FinalShape, Shard
<1>4. ASSUME NEW t \in Threads
      PROVE  SaveAt(t)' /\ LoadAt(t)'
  <2>1. SaveAt(t)'
    BY DEF SnapshotInv, SaveAt
  <2>2. LoadAt(t)'
    BY DEF SnapshotInv, LoadAt, FinalGens
  <2> QED
    BY <2>1, <2>2
<1> QED
  BY <1>1, <1>2, <1>3, <1>4 DEF SnapshotInv

\* Every step of the specification preserves the invariant.
LEMMA StepKeeps ==
  ASSUME OneSaver, SnapshotInv, [Next]_vars
  PROVE  SnapshotInv'
<1>1. CASE UNCHANGED vars
  BY <1>1, StutterKeeps
<1>2. ASSUME NEW t \in Threads, Save(t)
      PROVE  SnapshotInv'
  BY <1>2, SaveBeginKeeps, SaveOpenKeeps, SaveBodyKeeps, SaveSizeKeeps, SaveHashKeeps,
     SaveAppendKeeps, SaveTrailerKeeps, SaveRenameKeeps, SaveFailKeeps, SaveUndoKeeps
     DEF Save
<1>3. ASSUME NEW t \in Threads, Load(t)
      PROVE  SnapshotInv'
  BY <1>3, LoadBeginKeeps, LoadReapKeeps, LoadMovesKeeps DEF Load
<1>4. ASSUME NEW p \in Pids, Crash(p)
      PROVE  SnapshotInv'
  <2> DEFINE ts == {t \in Threads : Pid[t] = p}
  <2>1. ts \in SUBSET Threads /\ data \in [Inodes -> Seq(Cells)] /\ Forget(ts) /\ Store(data)
    BY <1>4 DEF Crash, SnapshotInv, TypeOK
  <2>2. dir[Final] # None =>
          (\E g \in Gens : data[dir[Final]] = Whole(g)) \/ Shard(data[dir[Final]])
    BY DEF SnapshotInv, FinalShape
  <2> HIDE DEF ts
  <2> QED
    BY <2>1, <2>2, CrashKeeps
<1>5. CASE LosePower
  <2> PICK i \in Inodes : \E n \in 0..Len(data[i]) :
             Store([data EXCEPT ![i] = Front(@, n)])
    BY <1>5 DEF LosePower
  <2> PICK n \in 0..Len(data[i]) : Store([data EXCEPT ![i] = Front(@, n)])
    OBVIOUS
  <2> DEFINE d == [data EXCEPT ![i] = Front(@, n)]
  <2>1. Front(data[i], n) \in Seq(Cells)
    <3>1. data[i] \in Seq(Cells) /\ Len(data[i]) \in Nat /\ n \in Nat
      BY DEF SnapshotInv, TypeOK
    <3>2. Front(data[i], n) \in [1..n -> Cells]
      BY <3>1 DEF Front
    <3> QED
      BY <3>1, <3>2
  <2>2. d \in [Inodes -> Seq(Cells)]
    BY <2>1 DEF SnapshotInv, TypeOK
  <2>3. dir[Final] # None =>
          (\E g \in Gens : d[dir[Final]] = Whole(g)) \/ Shard(d[dir[Final]])
    <3>1. SUFFICES ASSUME dir[Final] # None
                   PROVE  (\E g \in Gens : d[dir[Final]] = Whole(g)) \/ Shard(d[dir[Final]])
      OBVIOUS
    <3>2. dir[Final] \in Inodes
      BY <3>1, NameFacts DEF SnapshotInv, TypeOK
    <3>3. (\E g \in Gens : data[dir[Final]] = Whole(g)) \/ Shard(data[dir[Final]])
      BY <3>1 DEF SnapshotInv, FinalShape
    <3>4. CASE dir[Final] = i
      <4>1. d[dir[Final]] = Front(data[dir[Final]], n)
        BY <3>2, <3>4 DEF SnapshotInv, TypeOK
      <4> QED
        BY <3>3, <3>4, <4>1, FrontShape
    <3>5. CASE dir[Final] # i
      <4>1. d[dir[Final]] = data[dir[Final]]
        BY <3>2, <3>5 DEF SnapshotInv, TypeOK
      <4> QED
        BY <3>3, <4>1
    <3> QED
      BY <3>4, <3>5
  <2>4. Forget(Threads) /\ Store(d) /\ Threads \in SUBSET Threads
    BY <1>5 DEF LosePower
  <2> HIDE DEF d
  <2> QED
    BY <2>2, <2>3, <2>4, CrashKeeps
<1> QED
  BY <1>1, <1>2, <1>3, <1>4, <1>5 DEF Next

\* The invariant holds of the empty directory.
LEMMA InitKeeps == Init => SnapshotInv
<1> SUFFICES ASSUME Init PROVE SnapshotInv
  OBVIOUS
<1>1. TypeOK
  BY NameFacts DEF Init, TypeOK, Saving, Loading
<1>2. Exclusive /\ FinalShape
  BY NameFacts DEF Init, Exclusive, FinalShape
<1>3. \A t \in Threads : SaveAt(t) /\ LoadAt(t)
  BY DEF Init, SaveAt, LoadAt, Loading
<1> QED
  BY <1>1, <1>2, <1>3 DEF SnapshotInv

-----------------------------------------------------------------------------
(* Until a power cut or a beheading.                                       *)

\* What a step of one thread leaves of the others' files.
Leaves(t, n) ==
  dir'[n] = dir[n] /\ (dir[n] # None => data'[dir[n]] = data[dir[n]])

\* What a step that stores nothing new leaves of the files still in use.
LEMMA KeptFiles ==
  ASSUME SnapshotInv, Store(data)
  PROVE  /\ \A i \in Inodes, n \in Names : dir'[n] = i => data'[i] = data[i]
         /\ \A i \in Inodes, u \in Threads : wr'[u] = i => data'[i] = data[i]
<1>1. data \in [Inodes -> Seq(Cells)]
  BY DEF SnapshotInv, TypeOK
<1> QED
  BY <1>1, Stored

\* A step of a save touches its own temporary only, and a rename Final.
LEMMA SaveTouchesOwn ==
  ASSUME OneSaver, SnapshotInv, NEW t \in Threads, Save(t)
  PROVE  /\ \A n \in Names : n # Temp(t) /\ (n = Final => ~SaveRename(t)) => Leaves(t, n)
         /\ \A u \in Threads : u # t =>
              /\ pc'[u] = pc[u] /\ gen'[u] = gen[u] /\ wr'[u] = wr[u]
              /\ wr[u] # None => data'[wr[u]] = data[wr[u]]
<1> USE DEF SnapshotInv, Leaves
<1>1. CASE (\E g \in Gens : SaveBegin(t, g)) \/ SaveFail(t) \/ SaveUndo(t)
  <2>1. /\ Store(data)
        /\ \A n \in Names : n # Temp(t) => dir'[n] = dir[n]
        /\ \A u \in Threads : u # t => pc'[u] = pc[u] /\ gen'[u] = gen[u] /\ wr'[u] = wr[u]
    BY <1>1 DEF TypeOK, SaveBegin, SaveFail, SaveUndo
  <2> QED
    BY <2>1, KeptFiles, NameFacts DEF TypeOK
<1>2. CASE SaveSize(t) \/ SaveHash(t)
  <2>1. UNCHANGED <<dir, data, gen, wr>> /\ \A u \in Threads : u # t => pc'[u] = pc[u]
    BY <1>2 DEF TypeOK, SaveSize, SaveHash
  <2> QED
    BY <2>1
<1>3. CASE SaveRename(t)
  <2>1. /\ Store(data) /\ wr' = wr
        /\ \A n \in Names : n # Temp(t) /\ n # Final => dir'[n] = dir[n]
        /\ \A u \in Threads : u # t => pc'[u] = pc[u] /\ gen'[u] = gen[u]
    BY <1>3 DEF TypeOK, SaveRename
  <2> QED
    BY <1>3, <2>1, KeptFiles, NameFacts DEF TypeOK
<1>4. CASE SaveOpen(t) \/ SaveAppend(t)
  <2>1. PICK i \in Inodes, c \in Seq(Cells) :
          /\ Opens(t, i)
          /\ dir' = [dir EXCEPT ![Temp(t)] = i]
          /\ wr' = [wr EXCEPT ![t] = i]
          /\ UNCHANGED gen
          /\ Store([data EXCEPT ![i] = c])
    <3>1. CASE SaveOpen(t)
      <4>1. <<>> \in Seq(Cells)
        OBVIOUS
      <4> QED
        BY <3>1, <4>1 DEF SaveOpen
    <3>2. CASE SaveAppend(t)
      <4>1. PICK i \in Inodes :
              /\ Opens(t, i)
              /\ dir' = [dir EXCEPT ![Temp(t)] = i]
              /\ wr' = [wr EXCEPT ![t] = i]
              /\ UNCHANGED gen
              /\ Store([data EXCEPT ![i] = IF dir[Temp(t)] = None THEN <<>> ELSE @])
        BY <3>2 DEF SaveAppend
      <4> DEFINE c == IF dir[Temp(t)] = None THEN <<>> ELSE data[i]
      <4>2. c \in Seq(Cells)
        BY DEF TypeOK
      <4>3. Store([data EXCEPT ![i] = c])
        BY <4>1
      <4> QED
        BY <4>1, <4>2, <4>3
    <3> QED
      BY <1>4, <3>1, <3>2
  <2>2. t \in CanSave /\ wr[t] = None
    BY <1>4 DEF SaveOpen, SaveAppend, TypeOK, Saving
  <2>3. /\ \A n \in Names : n # Temp(t) => dir[n] # i
        /\ \A u \in Threads : wr[u] # i
    BY <2>1, <2>2, OpensMine
  <2> DEFINE d == [data EXCEPT ![i] = c]
  <2>4. d \in [Inodes -> Seq(Cells)] /\ Store(d)
    BY <2>1 DEF TypeOK
  <2>5. \A j \in Inodes : j # i => d[j] = data[j]
    BY DEF TypeOK
  <2>6. /\ \A j \in Inodes, n \in Names : dir'[n] = j => data'[j] = d[j]
        /\ \A j \in Inodes, u \in Threads : wr'[u] = j => data'[j] = d[j]
    BY <2>4, Stored
  <2>7. \A u \in Threads : u # t => pc'[u] = pc[u]
    BY <1>4 DEF SaveOpen, SaveAppend, TypeOK
  <2> QED
    BY <2>1, <2>3, <2>5, <2>6, <2>7, NameFacts DEF TypeOK
<1>5. CASE SaveBody(t) \/ SaveTrailer(t)
  <2> DEFINE i == wr[t]
  <2>1. PICK c : Store([data EXCEPT ![i] = c])
    BY <1>5 DEF SaveBody, SaveTrailer
  <2>2. i \in Inodes /\ dir' = dir /\ gen' = gen
    BY <1>5 DEF SaveBody, SaveTrailer, TypeOK
  <2>3. /\ \A n \in Names : n # Temp(t) => dir[n] # i
        /\ \A u \in Threads : u # t => wr[u] # i
    BY <2>2, NameFacts DEF TypeOK, Exclusive
  <2>4. /\ \A j \in Inodes, n \in Names : dir'[n] = j /\ j # i => data'[j] = data[j]
        /\ \A j \in Inodes, u \in Threads : wr'[u] = j /\ j # i => data'[j] = data[j]
    BY <2>1 DEF Store, Referenced, TypeOK
  <2>5. \A u \in Threads : u # t => pc'[u] = pc[u] /\ wr'[u] = wr[u]
    BY <1>5 DEF SaveBody, SaveTrailer, TypeOK
  <2> QED
    BY <2>2, <2>3, <2>4, <2>5, NameFacts DEF TypeOK
<1> QED
  BY <1>1, <1>2, <1>3, <1>4, <1>5 DEF Save

\* A step of a load changes no file a save writes; it may unlink one.
LEMMA LoadLeavesSaves ==
  ASSUME SnapshotInv, NEW t \in Threads, Load(t)
  PROVE  /\ Leaves(t, Final) /\ wr' = wr /\ gen' = gen
         /\ \A n \in Names : dir'[n] # None => Leaves(t, n)
         /\ \A u \in Threads : pc'[u] \in Saving => pc'[u] = pc[u]
         /\ \A u \in Threads : wr[u] # None => data'[wr[u]] = data[wr[u]]
<1> USE DEF SnapshotInv, Leaves
<1>1. CASE \E m \in Pids : LoadReap(t, m)
  <2>1. /\ Store(data) /\ UNCHANGED <<pc, gen, wr>>
        /\ dir'[Final] = dir[Final] /\ \A n \in Names : dir'[n] \in {None, dir[n]}
    BY <1>1, NameFacts DEF TypeOK, LoadReap
  <2> QED
    BY <2>1, KeptFiles, NameFacts DEF TypeOK
<1>2. CASE UNCHANGED <<dir, data, wr, gen>>
  BY <1>2, NameFacts DEF TypeOK, Load, LoadBegin, LoadReap, LoadReaped, LoadStat, LoadOpen,
     LoadTail, LoadCheck, LoadParse, LoadFail, LoadEnd, Saving
<1>3. ASSUME NEW gs, LoadEnd(t, gs)
      PROVE  /\ UNCHANGED <<dir, wr, gen>>
             /\ \A n \in Names : dir'[n] # None => Leaves(t, n)
             /\ \A u \in Threads : pc'[u] \in Saving => pc'[u] = pc[u]
             /\ \A u \in Threads : wr[u] # None => data'[wr[u]] = data[wr[u]]
  <2>1. Store(data) /\ UNCHANGED <<dir, wr, gen>>
    BY <1>3 DEF LoadEnd
  <2>2. \A u \in Threads : pc'[u] \in Saving => pc'[u] = pc[u]
    BY <1>3 DEF TypeOK, LoadEnd, Saving
  <2> QED
    BY <2>1, <2>2, KeptFiles, NameFacts DEF TypeOK
<1> QED
  BY <1>1, <1>2, <1>3, NameFacts DEF Load, LoadBegin, LoadReaped, LoadStat, LoadOpen,
     LoadTail, LoadCheck, LoadParse, LoadFail

\* What a save has completed stays complete while others move.
LEMMA CompleteStays ==
  ASSUME NEW u \in Threads, Complete(u), pc'[u] = pc[u], gen'[u] = gen[u], wr'[u] = wr[u],
         ~Beheads(u), dir'[Temp(u)] \in {None, dir[Temp(u)]},
         dir'[Temp(u)] # None => data'[dir[Temp(u)]] = data[dir[Temp(u)]],
         pc[u] = "trailer" => data'[wr[u]] = data[wr[u]]
  PROVE  Complete(u)'
BY DEF Complete, Beheads

\* The trailer completes the body, and the rename publishes the whole.
LEMMA SaveCompletes ==
  ASSUME OneSaver, SnapshotInv, NEW t \in Threads, Save(t), Complete(t), SnapshotInv'
  PROVE  Complete(t)'
<1>t. t \in CanSave
  BY DEF Save, SaveBegin, SaveOpen, SaveBody, SaveSize, SaveHash, SaveAppend, SaveTrailer,
     SaveRename, SaveFail, SaveUndo, SnapshotInv, TypeOK, Saving
<1>1. CASE SaveHash(t)
  BY <1>1 DEF SaveHash, Complete, SnapshotInv, TypeOK
<1>2. CASE SaveAppend(t)
  <2>1. PICK i \in Inodes :
          /\ Opens(t, i)
          /\ dir' = [dir EXCEPT ![Temp(t)] = i]
          /\ wr' = [wr EXCEPT ![t] = i]
          /\ Store([data EXCEPT ![i] = IF dir[Temp(t)] = None THEN <<>> ELSE @])
    BY <1>2 DEF SaveAppend
  <2>2. dir[Temp(t)] # None /\ i = dir[Temp(t)] /\ data[i] = Body(gen[t])
    BY <1>2, <2>1 DEF SaveAppend, Complete, Opens, SnapshotInv, SaveAt
  <2>3. wr'[t] = i /\ gen'[t] = gen[t] /\ pc'[t] = "trailer"
    BY <1>2, <2>1 DEF SaveAppend, SnapshotInv, TypeOK
  <2>4. data'[i] = data[i]
    BY <2>1, <2>2, <2>3 DEF Store, Referenced, SnapshotInv, TypeOK
  <2> QED
    BY <2>2, <2>3, <2>4 DEF Complete
<1>3. CASE SaveTrailer(t)
  <2> DEFINE i == wr[t]
  <2>1. /\ i \in Inodes /\ data[i] = Body(gen[t]) /\ sum[t] = Trailer(Body(gen[t]))
        /\ dir[Temp(t)] \in {None, i} /\ gen[t] \in Gens
    BY <1>3 DEF SaveTrailer, Complete, SnapshotInv, SaveAt, TypeOK, Saving
  <2>2. Put(data[i], Len(data[i]) + 1, sum[t]) = Whole(gen[t])
    <3>1. Body(gen[t]) \in Seq(Cells) /\ Len(Body(gen[t])) = BodyLen[gen[t]]
      BY <2>1, BodySeq
    <3> QED
      BY <2>1, <3>1 DEF Whole
  <2>3. pc'[t] = "rename" /\ dir' = dir /\ gen'[t] = gen[t]
    BY <1>3 DEF SaveTrailer, SnapshotInv, TypeOK
  <2>4. Store([data EXCEPT ![i] = Whole(gen[t])])
    BY <1>3, <2>2 DEF SaveTrailer
  <2>5. dir[Temp(t)] # None => data'[i] = Whole(gen[t])
    BY <1>t, <2>1, <2>3, <2>4, NameFacts DEF Store, Referenced, SnapshotInv, TypeOK
  <2> QED
    BY <2>1, <2>3, <2>5 DEF Complete
<1>4. CASE pc'[t] \notin {"append", "trailer", "rename"}
  BY <1>4 DEF Complete
<1> QED
  BY <1>1, <1>2, <1>3, <1>4
     DEF Save, SaveBegin, SaveOpen, SaveBody, SaveSize, SaveRename, SaveFail, SaveUndo,
         SnapshotInv, TypeOK

\* The published file stays whole while nothing that hurts it has happened.
LEMMA UnharmedKeeps ==
  ASSUME OneSaver, SnapshotInv, SnapshotInv', Unharmed, [Next]_vars
  PROVE  Unharmed'
<1>1. SUFFICES ASSUME ~hurt, ~hurt', FinalWhole, \A t \in Threads : Complete(t)
               PROVE  FinalWhole' /\ \A t \in Threads : Complete(t)'
  <2>1. hurt => hurt'
    BY DEF Next, vars
  <2> QED
    BY <2>1 DEF Unharmed
<1>f. dir'[Final] = dir[Final] /\ (dir[Final] # None => data'[dir[Final]] = data[dir[Final]])
        => FinalWhole'
  BY <1>1 DEF FinalWhole, FinalGens
<1>n. \A u \in Threads : Temp(u) \in Names /\ Temp(u) # Final
  BY NameFacts
<1>w. \A u \in Threads : pc[u] = "trailer" => wr[u] # None
  BY DEF SnapshotInv, TypeOK
<1>2. CASE UNCHANGED vars
  <2>1. UNCHANGED <<dir, data, pc, gen, wr>>
    BY <1>2 DEF vars
  <2>2. \A u \in Threads : ~Beheads(u)
    BY <2>1 DEF Beheads
  <2>3. \A u \in Threads : Complete(u)'
    BY <1>1, <2>1 DEF Complete
  <2> QED
    BY <1>f, <2>1, <2>3
<1>3. ASSUME NEW t \in Threads, Save(t), \A u \in Threads : ~Beheads(u)
      PROVE  FinalWhole' /\ \A u \in Threads : Complete(u)'
  <2>1. /\ \A n \in Names : n # Temp(t) /\ (n = Final => ~SaveRename(t)) => Leaves(t, n)
        /\ \A u \in Threads : u # t =>
             /\ pc'[u] = pc[u] /\ gen'[u] = gen[u] /\ wr'[u] = wr[u]
             /\ wr[u] # None => data'[wr[u]] = data[wr[u]]
    BY <1>3, SaveTouchesOwn
  <2>2. t \in CanSave
    BY <1>3 DEF Save, SaveBegin, SaveOpen, SaveBody, SaveSize, SaveHash, SaveAppend,
       SaveTrailer, SaveRename, SaveFail, SaveUndo, SnapshotInv, TypeOK, Saving
  <2>3. Complete(t)'
    BY <1>1, <1>3, SaveCompletes
  <2>4. ASSUME NEW u \in Threads, u # t, pc[u] \in Saving
        PROVE  Complete(u)'
    <3>1. u \in CanSave /\ Temp(u) # Temp(t)
      BY <2>2, <2>4 DEF OneSaver, SnapshotInv, TypeOK
    <3>2. Leaves(t, Temp(u))
      BY <1>n, <2>1, <3>1
    <3> HIDE DEF Temp
    <3> QED
      BY <1>1, <1>3, <1>w, <2>1, <2>4, <3>2, CompleteStays DEF Leaves
  <2>5. ASSUME NEW u \in Threads, u # t, pc[u] \notin Saving
        PROVE  Complete(u)'
    BY <2>1, <2>5 DEF Complete, Saving
  <2>6. CASE ~SaveRename(t)
    BY <1>f, <1>n, <2>1, <2>3, <2>4, <2>5, <2>6, NameFacts DEF Leaves
  <2>7. CASE SaveRename(t)
    <3>1. FinalWhole'
      <4>1. CASE dir[Temp(t)] = None
        <5>1. dir' = dir /\ Store(data)
          BY <2>7, <4>1 DEF SaveRename
        <5>2. dir[Final] # None => data'[dir[Final]] = data[dir[Final]]
          BY <5>1, KeptFiles, NameFacts DEF SnapshotInv, TypeOK
        <5> QED
          BY <1>f, <5>1, <5>2
      <4>2. CASE dir[Temp(t)] # None
        <5>1. data[dir[Temp(t)]] = Whole(gen[t]) /\ gen[t] \in Gens /\ dir[Temp(t)] \in Inodes
          BY <1>1, <1>n, <2>7, <4>2 DEF SaveRename, Complete, SnapshotInv, TypeOK, Saving
        <5>2. dir'[Final] = dir[Temp(t)] /\ Store(data)
          BY <1>n, <2>7, <4>2, NameFacts DEF SaveRename, SnapshotInv, TypeOK
        <5>3. data'[dir[Temp(t)]] = data[dir[Temp(t)]]
          BY <5>1, <5>2, KeptFiles, NameFacts
        <5> QED
          BY <5>1, <5>2, <5>3 DEF FinalWhole, FinalGens
      <4> QED
        BY <4>1, <4>2
    <3> QED
      BY <2>3, <2>4, <2>5, <3>1
  <2> QED
    BY <2>6, <2>7
<1>4. ASSUME NEW t \in Threads, Load(t), \A u \in Threads : ~Beheads(u)
      PROVE  FinalWhole' /\ \A u \in Threads : Complete(u)'
  <2>1. /\ Leaves(t, Final) /\ wr' = wr /\ gen' = gen
        /\ \A n \in Names : dir'[n] # None => Leaves(t, n)
        /\ \A u \in Threads : pc'[u] \in Saving => pc'[u] = pc[u]
        /\ \A u \in Threads : wr[u] # None => data'[wr[u]] = data[wr[u]]
    BY <1>4, LoadLeavesSaves
  <2>2. ASSUME NEW u \in Threads
        PROVE  Complete(u)'
    <3>1. CASE pc'[u] \in Saving
      <4>1. dir'[Temp(u)] # None => Leaves(t, Temp(u))
        BY <1>n, <2>1
      <4> HIDE DEF Temp
      <4> QED
        BY <1>1, <1>4, <1>w, <2>1, <3>1, <4>1, CompleteStays DEF Leaves
    <3>2. CASE pc'[u] \notin Saving
      BY <3>2 DEF Complete, Saving
    <3> QED
      BY <3>1, <3>2
  <2> QED
    BY <1>f, <2>1, <2>2 DEF Leaves
<1>5. ASSUME NEW p \in Pids, Crash(p)
      PROVE  FinalWhole' /\ \A u \in Threads : Complete(u)'
  <2> DEFINE ts == {t \in Threads : Pid[t] = p}
  <2>1. Forget(ts) /\ Store(data)
    BY <1>5 DEF Crash
  <2>2. /\ dir' = dir
        /\ \A u \in Threads :
             \/ pc'[u] = "idle"
             \/ pc'[u] = pc[u] /\ gen'[u] = gen[u] /\ wr'[u] = wr[u]
    <3>1. ASSUME NEW u \in Threads, u \in ts
          PROVE  pc'[u] = "idle"
      BY <2>1, <3>1 DEF Forget
    <3>2. ASSUME NEW u \in Threads, u \notin ts
          PROVE  pc'[u] = pc[u] /\ gen'[u] = gen[u] /\ wr'[u] = wr[u]
      BY <2>1, <3>2 DEF Forget
    <3>3. dir' = dir
      BY <2>1 DEF Forget
    <3> HIDE DEF ts
    <3>4. ASSUME NEW u \in Threads
          PROVE  \/ pc'[u] = "idle"
                 \/ pc'[u] = pc[u] /\ gen'[u] = gen[u] /\ wr'[u] = wr[u]
      BY <3>1, <3>2
    <3> QED
      BY <3>3, <3>4
  <2>3. /\ \A n \in Names : dir[n] # None => data'[dir[n]] = data[dir[n]]
        /\ \A u \in Threads : wr'[u] # None => data'[wr'[u]] = data[wr'[u]]
    <3>1. \A u \in Threads : wr'[u] # None => wr'[u] = wr[u] /\ wr'[u] \in Inodes
      BY <2>1 DEF Forget, SnapshotInv, TypeOK
    <3>2. dir \in [Names -> Inodes \union {None}]
      BY DEF SnapshotInv, TypeOK
    <3> QED
      BY <2>1, <2>2, <3>1, <3>2, KeptFiles
  <2>4. ASSUME NEW u \in Threads
        PROVE  Complete(u)'
    <3>1. CASE pc'[u] = "idle"
      BY <3>1 DEF Complete
    <3>2. CASE pc'[u] = pc[u] /\ gen'[u] = gen[u] /\ wr'[u] = wr[u]
      <4>1. ~Beheads(u)
        BY <2>2 DEF Beheads
      <4>2. dir[Temp(u)] # None => data'[dir[Temp(u)]] = data[dir[Temp(u)]]
        BY <1>n, <2>3
      <4> HIDE DEF Temp
      <4> QED
        BY <1>1, <1>w, <2>2, <2>3, <3>2, <4>1, <4>2, CompleteStays
    <3> QED
      BY <2>2, <3>1, <3>2
  <2> QED
    BY <1>f, <2>2, <2>3, <2>4, NameFacts
<1> QED
  BY <1>1, <1>2, <1>3, <1>4, <1>5 DEF Next

-----------------------------------------------------------------------------
(* The files implement the register: every step of theirs is one of its     *)
(* steps, or leaves it alone.                                               *)

Reading == {t \in Threads : pc[t] \in Loading}

\* Generations differ in every cell of their bodies, so a file is one at most.
LEMMA OneWhole ==
  /\ \A g, h \in Gens : Whole(g) = Whole(h) => g = h
  /\ FinalGens = {} \/ \E g \in Gens : FinalGens = {g}
<1>1. \A g, h \in Gens : Whole(g) = Whole(h) => g = h
  <2> SUFFICES ASSUME NEW g \in Gens, NEW h \in Gens, Whole(g) = Whole(h) PROVE g = h
    OBVIOUS
  <2>1. BodyLen[g] \in Nat \ {0} /\ BodyLen[h] \in Nat \ {0}
    BY NameFacts
  <2>2. Cell(g, 1) = Cell(h, 1)
    BY <2>1, WholeSeq
  <2> QED
    BY <2>2 DEF Cell
<1> QED
  BY <1>1 DEF FinalGens

\* The register is untouched.
LEMMA RegisterStays ==
  ASSUME hurt' \in {hurt, TRUE}, FinalGens' = FinalGens, Reading' = Reading,
         held' = held, got' = got
  PROVE  Register!Next
BY DEF Register!Next, Reading

\* A rename assigns the register what it publishes: its own generation, or
\* nothing, which takes a beheading.
LEMMA RenameAssigns ==
  ASSUME OneSaver, SnapshotInv, SnapshotInv', Unharmed', hurt' \in {hurt, TRUE},
         NEW t \in Threads, SaveRename(t)
  PROVE  Register!Next
<1>1. Reading' = Reading /\ got' = got
  BY DEF SaveRename, Reading, Loading, SnapshotInv, TypeOK
<1>2. held' = [u \in Threads |-> IF u \in Reading THEN held[u] \union FinalGens' ELSE {}]
  BY DEF SaveRename, Reading
<1>3. ASSUME NEW g \in Gens, FinalGens' = {g}
      PROVE  Register!Publish(g)
  BY <1>1, <1>2, <1>3 DEF Register!Publish, Register!Assign, Reading
<1>4. CASE FinalGens' = {} /\ hurt'
  BY <1>1, <1>2, <1>4 DEF Register!Next, Register!Lose, Register!Assign, Reading
<1>5. CASE FinalGens' = {} /\ ~hurt'
  <2>1. dir'[Final] = None
    BY <1>5 DEF Unharmed, FinalWhole
  <2>2. dir[Final] = None
    BY <2>1, NameFacts DEF SaveRename, SnapshotInv, TypeOK
  <2>3. FinalGens = {}
    BY <2>2 DEF FinalGens
  <2>4. held' = held
    BY <1>2, <1>5 DEF SnapshotInv, TypeOK, LoadAt, Reading
  <2> QED
    BY <1>1, <1>5, <2>3, <2>4, RegisterStays
<1>6. FinalGens' = {} \/ \E g \in Gens : FinalGens' = {g}
  BY <1>5, OneWhole DEF FinalGens
<1> QED
  BY <1>3, <1>4, <1>5, <1>6 DEF Register!Next

\* No other step of a save shows.
LEMMA SaveHides ==
  ASSUME OneSaver, SnapshotInv, hurt' \in {hurt, TRUE},
         NEW t \in Threads, Save(t), ~SaveRename(t)
  PROVE  Register!Next
<1>1. dir'[Final] = dir[Final] /\ (dir[Final] # None => data'[dir[Final]] = data[dir[Final]])
  BY SaveTouchesOwn, NameFacts DEF Leaves
<1>2. FinalGens' = FinalGens
  BY <1>1 DEF FinalGens
<1>3. held' = held /\ got' = got
  BY DEF Save, SaveBegin, SaveOpen, SaveBody, SaveSize, SaveHash, SaveAppend, SaveTrailer,
     SaveFail, SaveUndo
<1>4. Reading' = Reading
  BY DEF Save, SaveBegin, SaveOpen, SaveBody, SaveSize, SaveHash, SaveAppend, SaveTrailer,
     SaveFail, SaveUndo, Reading, Saving, Loading, SnapshotInv, TypeOK
<1> QED
  BY <1>2, <1>3, <1>4, RegisterStays

\* The end of a load returns nothing, or a generation it may have met.
LEMMA LoadReturns ==
  ASSUME SnapshotInv, hurt' \in {hurt, TRUE}, FinalGens' = FinalGens,
         NEW t \in Threads, pc[t] \in Loading,
         NEW gs \in {{}} \union {{g} : g \in held[t]}, LoadEnd(t, gs)
  PROVE  Register!Next
<1>1. t \in Reading /\ Reading' = Reading \ {t}
  BY DEF LoadEnd, Reading, Loading, SnapshotInv, TypeOK
<1>2. held' = [held EXCEPT ![t] = {}] /\ got' = [got EXCEPT ![t] = gs]
  BY DEF LoadEnd
<1> QED
  BY <1>1, <1>2 DEF Register!Next, Register!Return, Reading

\* A load begins with what is published, and shows again when it ends.
LEMMA LoadMaps ==
  ASSUME SnapshotInv, hurt' \in {hurt, TRUE}, NEW t \in Threads, Load(t)
  PROVE  Register!Next
<1>1. dir'[Final] = dir[Final] /\ (dir[Final] # None => data'[dir[Final]] = data[dir[Final]])
  BY LoadLeavesSaves DEF Leaves
<1>2. FinalGens' = FinalGens
  BY <1>1 DEF FinalGens
<1>3. CASE LoadBegin(t)
  <2>1. t \notin Reading /\ Reading' = Reading \union {t}
    BY <1>3 DEF LoadBegin, Reading, Loading, SnapshotInv, TypeOK
  <2>2. held' = [held EXCEPT ![t] = FinalGens] /\ got' = [got EXCEPT ![t] = {}]
    BY <1>3 DEF LoadBegin
  <2> QED
    BY <1>2, <2>1, <2>2 DEF Register!Next, Register!Begin, Reading
<1>4. ASSUME pc[t] \in Loading, LoadEnd(t, {})
      PROVE  Register!Next
  BY <1>2, <1>4, LoadReturns
<1>5. CASE LoadParse(t)
  <2>1. pc[t] \in Loading /\ LoadEnd(t, IF Accepts(t) THEN Parsed(t) ELSE {})
    BY <1>5 DEF LoadParse, Loading
  <2>2. Accepts(t) => \E g \in held[t] : Parsed(t) = {g}
    BY <1>5, ParsesOne DEF LoadParse
  <2> QED
    BY <1>2, <2>1, <2>2, LoadReturns
<1>6. ASSUME held' = held, got' = got, pc[t] \in Loading, pc'[t] \in Loading,
             \A u \in Threads : u # t => pc'[u] = pc[u]
      PROVE  Register!Next
  <2>1. Reading' = Reading
    BY <1>6 DEF Reading
  <2> QED
    BY <1>2, <1>6, <2>1, RegisterStays
<1>7. CASE (\E n \in Pids : LoadReap(t, n)) \/ LoadReaped(t)
  BY <1>6, <1>7 DEF LoadReap, LoadReaped, Loading, SnapshotInv, TypeOK
<1>8. CASE LoadStat(t) \/ LoadOpen(t) \/ LoadTail(t) \/ LoadCheck(t)
  BY <1>4, <1>6, <1>8 DEF LoadStat, LoadOpen, LoadTail, LoadCheck, Loading, SnapshotInv, TypeOK
<1>9. CASE LoadFail(t)
  BY <1>4, <1>9 DEF LoadFail
<1> QED
  BY <1>3, <1>5, <1>7, <1>8, <1>9 DEF Load

\* Threads that die leave the register as it is, or lose it with the power.
LEMMA DeathMaps ==
  ASSUME SnapshotInv, hurt' \in {hurt, TRUE}, NEW ts \in SUBSET Threads, Forget(ts),
         FinalGens' = FinalGens \/ (hurt' /\ FinalGens' = {})
  PROVE  Register!Next
<1>1. Reading' = Reading \ ts
  BY DEF Forget, Reading, Loading
<1> QED
  BY <1>1 DEF Forget, Register!Next, Register!Die, Reading

\* A file that lost its end is no generation, unless it lost nothing.
LEMMA CutsLose ==
  ASSUME SnapshotInv, NEW i \in Inodes, NEW n \in 0..Len(data[i]), UNCHANGED dir,
         Store([data EXCEPT ![i] = Front(@, n)])
  PROVE  FinalGens' \in {FinalGens, {}}
<1> DEFINE f == dir[Final]
           d == [data EXCEPT ![i] = Front(@, n)]
<1>1. CASE f = None
  BY <1>1 DEF FinalGens
<1>2. CASE f # None
  <2>1. f \in Inodes /\ data[f] \in Seq(Cells)
    BY <1>2, NameFacts DEF SnapshotInv, TypeOK
  <2>2. data'[f] = d[f]
    BY <1>2, <2>1, NameFacts DEF Store, Referenced
  <2>3. CASE f = i /\ n < Len(data[f])
    <3>1. n \in Nat /\ d[f] = Front(data[f], n) /\ Len(d[f]) = n
      BY <2>1, <2>3 DEF Front, SnapshotInv, TypeOK
    <3>2. (\E h \in Gens : data[f] = Whole(h)) \/ Shard(data[f])
      BY <1>2 DEF SnapshotInv, FinalShape
    <3>3. ASSUME NEW g \in Gens, d[f] = Whole(g)
          PROVE  FALSE
      <4>1. BodyLen[g] \in Nat \ {0} /\ Len(Whole(g)) = BodyLen[g] + 1
            /\ Whole(g)[BodyLen[g] + 1] = Trailer(Body(g))
            /\ Whole(g)[1] = Cell(g, 1)
        BY NameFacts, WholeSeq
      <4>2. n = BodyLen[g] + 1 /\ data[f][n] = Trailer(Body(g))
        BY <3>1, <3>3, <4>1 DEF Front
      <4>3. CASE \E h \in Gens : data[f] = Whole(h)
        <5>1. PICK h \in Gens : data[f] = Whole(h)
          BY <4>3
        <5>2. BodyLen[h] \in Nat /\ Len(Whole(h)) = BodyLen[h] + 1
              /\ \A k \in 1..BodyLen[h] : Whole(h)[k] = Cell(h, k)
          BY NameFacts, WholeSeq
        <5>3. n \in 1..BodyLen[h]
          BY <2>3, <4>1, <4>2, <5>1, <5>2
        <5> QED
          BY <4>2, <5>1, <5>2, <5>3, CellKinds
      <4>4. CASE \E h \in Gens : data[f] = <<Trailer(Body(h))>>
        BY <2>3, <4>1, <4>2, <4>4
      <4>5. CASE \E h \in Gens : \E m \in 0..BodyLen[h] : data[f] = Prefix(h, m)
        <5>1. PICK h \in Gens : \E m \in 0..BodyLen[h] : data[f] = Prefix(h, m)
          BY <4>5
        <5>2. PICK m \in 0..BodyLen[h] : data[f] = Prefix(h, m)
          BY <5>1
        <5>3. m \in Nat /\ Len(Prefix(h, m)) = m /\ \A k \in 1..m : Prefix(h, m)[k] = Cell(h, k)
          BY NameFacts, PrefixSeq
        <5>4. n \in 1..m
          BY <2>3, <4>1, <4>2, <5>2, <5>3
        <5> QED
          BY <4>2, <5>2, <5>3, <5>4, CellKinds
      <4> QED
        BY <3>2, <4>3, <4>4, <4>5 DEF Shard
    <3>4. \A g \in Gens : data'[f] # Whole(g)
      BY <2>2, <3>3
    <3> QED
      BY <3>4 DEF FinalGens
  <2>4. CASE f # i \/ n = Len(data[f])
    <3>1. d[f] = data[f]
      BY <2>1, <2>4 DEF Front, SnapshotInv, TypeOK
    <3> QED
      BY <2>2, <3>1 DEF FinalGens
  <2> QED
    BY <2>1, <2>3, <2>4
<1> QED
  BY <1>1, <1>2

\* Every step of the files is a step of the register, or none.
LEMMA StepMaps ==
  ASSUME OneSaver, SnapshotInv, SnapshotInv', Unharmed', hurt \in BOOLEAN, [Next]_vars
  PROVE  [Register!Next]_(Register!rvars)
<1>1. CASE UNCHANGED vars
  BY <1>1 DEF vars, Register!rvars, FinalGens
<1>2. ASSUME NEW t \in Threads, Save(t) \/ Load(t), hurt' \in {hurt, TRUE}
      PROVE  Register!Next
  BY <1>2, RenameAssigns, SaveHides, LoadMaps
<1>3. ASSUME NEW p \in Pids, Crash(p), UNCHANGED hurt
      PROVE  Register!Next
  <2>1. dir[Final] # None => data'[dir[Final]] = data[dir[Final]]
    BY <1>3, KeptFiles, NameFacts DEF Crash, Forget, SnapshotInv, TypeOK
  <2>2. FinalGens' = FinalGens
    BY <1>3, <2>1 DEF Crash, Forget, FinalGens
  <2>3. Forget({t \in Threads : Pid[t] = p})
    BY <1>3 DEF Crash
  <2> QED
    BY <1>3, <2>2, <2>3, DeathMaps
<1>4. ASSUME LosePower, hurt' = TRUE
      PROVE  Register!Next
  <2>1. PICK i \in Inodes : \E n \in 0..Len(data[i]) :
               Store([data EXCEPT ![i] = Front(@, n)])
    BY <1>4 DEF LosePower
  <2>2. UNCHANGED dir
    BY <1>4 DEF LosePower, Forget
  <2>3. FinalGens' \in {FinalGens, {}}
    BY <2>1, <2>2, CutsLose
  <2> QED
    BY <1>4, <2>3, DeathMaps DEF LosePower
<1>5. hurt' \in {hurt, TRUE} \/ ~(\E t \in Threads : Save(t) \/ Load(t))
  BY DEF Next, vars
<1> QED
  BY <1>1, <1>2, <1>3, <1>4, <1>5 DEF Next

-----------------------------------------------------------------------------
(* The theorems.                                                           *)

\* With one saver per process, every reachable state satisfies the invariant:
\* temporaries belong to their saves, and the published file is whole or a
\* shard, whatever loads, crashes and power cuts come between.
THEOREM InvariantHolds == OneSaver => (Spec => []SnapshotInv)
<1> SUFFICES ASSUME OneSaver PROVE Spec => []SnapshotInv
  OBVIOUS
<1>1. SnapshotInv /\ [Next]_vars => SnapshotInv'
  BY StepKeeps
<1> QED
  BY <1>1, InitKeeps, PTL DEF Spec

\* The state keeps its type.
THEOREM TypeCorrect == OneSaver => (Spec => []TypeOK)
<1>1. SnapshotInv => TypeOK
  BY DEF SnapshotInv
<1> QED
  BY <1>1, InvariantHolds, PTL

\* A load returns a generation that was published while it ran, or nothing.
THEOREM LoadsPublished == OneSaver => (Spec => LoadedWasPublished)
<1>1. SnapshotInv /\ [Next]_vars =>
        [\A t \in Threads :
           pc[t] = "parse" /\ got'[t] # {} => \E g \in held[t] : got'[t] = {g}]_vars
  <2>1. SUFFICES ASSUME SnapshotInv, Next, NEW t \in Threads, pc[t] = "parse", got'[t] # {}
                 PROVE  \E g \in held[t] : got'[t] = {g}
    OBVIOUS
  <2>2. got[t] = {} /\ got \in [Threads -> SUBSET Gens]
    BY <2>1 DEF SnapshotInv, TypeOK, Loading
  <2>3. CASE LoadParse(t)
    <3>1. Accepts(t) /\ got'[t] = Parsed(t)
      BY <2>1, <2>2, <2>3 DEF LoadParse, LoadEnd
    <3> QED
      BY <2>1, <3>1, ParsesOne
  <2>4. ASSUME ~LoadParse(t)
        PROVE  got'[t] = {}
    <3>1. ASSUME NEW u \in Threads, Save(u)
          PROVE  got' = got
      BY <3>1 DEF Save, SaveBegin, SaveOpen, SaveBody, SaveSize, SaveHash, SaveAppend,
                  SaveTrailer, SaveRename, SaveFail, SaveUndo
    <3>2. ASSUME NEW u \in Threads, Load(u)
          PROVE  got'[t] = {}
      <4>1. CASE u = t
        BY <2>1, <2>2, <2>4, <3>2, <4>1
           DEF Load, LoadBegin, LoadReap, LoadReaped, LoadStat, LoadOpen, LoadTail,
               LoadCheck, LoadFail, LoadEnd
      <4>2. CASE u # t
        BY <2>2, <3>2, <4>2
           DEF Load, LoadBegin, LoadReap, LoadReaped, LoadStat, LoadOpen, LoadTail,
               LoadCheck, LoadParse, LoadFail, LoadEnd
      <4> QED
        BY <4>1, <4>2
    <3>3. ASSUME NEW ts, Forget(ts)
          PROVE  got'[t] = {}
      BY <2>2, <3>3 DEF Forget
    <3> QED
      BY <2>1, <2>2, <3>1, <3>2, <3>3 DEF Next, Crash, LosePower
  <2> QED
    BY <2>1, <2>3, <2>4
<1> QED
  BY <1>1, InvariantHolds, PTL DEF Spec, LoadedWasPublished

\* A rename publishes its own generation, or a file without one.
THEOREM PublishesItsOwn == OneSaver => (Spec => PublishesOwn)
<1>1. SnapshotInv /\ [Next]_vars =>
        [\A t \in Threads :
           pc[t] = "rename" /\ pc'[t] # "rename" /\ dir'[Final] # dir[Final] =>
             FinalGens' \subseteq {gen[t]}]_vars
  <2>1. SUFFICES ASSUME SnapshotInv, Next, NEW t \in Threads, pc[t] = "rename",
                        pc'[t] # "rename", dir'[Final] # dir[Final]
                 PROVE  FinalGens' \subseteq {gen[t]}
    OBVIOUS
  <2>2. CASE SaveRename(t)
    <3>0. /\ gen[t] \in Gens /\ dir \in [Names -> Inodes \union {None}]
          /\ data \in [Inodes -> Seq(Cells)]
      BY <2>1 DEF SnapshotInv, TypeOK, Saving
    <3>1. dir[Temp(t)] \in Inodes /\ dir'[Final] = dir[Temp(t)]
      BY <2>1, <2>2, <3>0, NameFacts DEF SaveRename
    <3>2. data'[dir'[Final]] = data[dir[Temp(t)]]
      BY <2>2, <3>0, <3>1, Stored, NameFacts DEF SaveRename
    <3>3. data[dir[Temp(t)]] \in {Whole(gen[t]), <<Trailer(Body(gen[t]))>>}
      BY <2>1, <3>1, NameFacts DEF SnapshotInv, SaveAt
    <3>4. ASSUME NEW g \in Gens, data[dir[Temp(t)]] = Whole(g)
          PROVE  g = gen[t]
      <4>1. BodyLen[g] \in Nat \ {0} /\ BodyLen[gen[t]] \in Nat \ {0}
        BY <3>0, NameFacts
      <4>2. Whole(g)[1] = Cell(g, 1) /\ Len(Whole(g)) = BodyLen[g] + 1
        BY <4>1, WholeSeq
      <4>3. Whole(gen[t])[1] = Cell(gen[t], 1)
        BY <3>0, <4>1, WholeSeq
      <4>4. Whole(g) # <<Trailer(Body(gen[t]))>>
        <5>1. <<Trailer(Body(gen[t]))>>[1] = Trailer(Body(gen[t]))
          OBVIOUS
        <5>2. Cell(g, 1) # Trailer(Body(gen[t]))
          BY DEF Cell, Trailer
        <5> QED
          BY <4>2, <5>1, <5>2
      <4> QED
        BY <3>3, <3>4, <4>2, <4>3, <4>4 DEF Cell
    <3> QED
      BY <3>2, <3>4 DEF FinalGens
  <2>3. CASE ~SaveRename(t)
    <3>1. ASSUME NEW u \in Threads, Save(u)
          PROVE  FALSE
      <4>1. CASE u = t
        BY <2>1, <2>3, <3>1, <4>1
           DEF Save, SaveBegin, SaveOpen, SaveBody, SaveSize, SaveHash, SaveAppend,
               SaveTrailer, SaveFail, SaveUndo, SnapshotInv, TypeOK
      <4>2. CASE u # t
        BY <2>1, <3>1, <4>2
           DEF Save, SaveBegin, SaveOpen, SaveBody, SaveSize, SaveHash, SaveAppend,
               SaveTrailer, SaveRename, SaveFail, SaveUndo, SnapshotInv, TypeOK
      <4> QED
        BY <4>1, <4>2
    <3>2. ASSUME NEW u \in Threads, Load(u)
          PROVE  FALSE
      BY <2>1, <3>2, NameFacts
         DEF Load, LoadBegin, LoadReap, LoadReaped, LoadStat, LoadOpen, LoadTail,
             LoadCheck, LoadParse, LoadFail, LoadEnd, SnapshotInv, TypeOK
    <3> QED
      BY <2>1, <3>1, <3>2 DEF Next, Crash, LosePower, Forget
  <2> QED
    BY <2>2, <2>3
<1> QED
  BY <1>1, InvariantHolds, PTL DEF Spec, PublishesOwn

\* Until power is lost or a load beheads a save, the published file is whole and
\* every temporary that was hashed is still there, with the cells it had then.
THEOREM UnharmedHolds == OneSaver => (Spec => []Unharmed)
<1> SUFFICES ASSUME OneSaver PROVE Spec => []Unharmed
  OBVIOUS
<1>1. Init => Unharmed
  BY DEF Init, Unharmed, FinalWhole, Complete, Names
<1>2. SnapshotInv /\ SnapshotInv' /\ Unharmed /\ [Next]_vars => Unharmed'
  BY UnharmedKeeps
<1>3. Spec => []SnapshotInv
  BY InvariantHolds
<1> QED
  BY <1>1, <1>2, <1>3, PTL DEF Spec

\* Hence whoever opens the published name finds a whole generation.
THEOREM PublishedIsWhole == OneSaver => (Spec => []WholeUntilHurt)
<1>1. Unharmed => WholeUntilHurt
  BY DEF Unharmed, WholeUntilHurt
<1> QED
  BY <1>1, UnharmedHolds, PTL

\* The cache implements the register of SnapshotRegister: loads, saves, removed
\* temporaries, deaths and power cuts are its steps or do not show at all.
THEOREM ImplementsRegister == OneSaver => (Spec => RegisterSpec)
<1> SUFFICES ASSUME OneSaver PROVE Spec => RegisterSpec
  OBVIOUS
<1>1. Init => Register!Init
  BY NameFacts DEF Init, Register!Init, FinalGens, Loading
<1>2. Init => hurt \in BOOLEAN
  BY DEF Init
<1>3. hurt \in BOOLEAN /\ [Next]_vars => (hurt \in BOOLEAN)'
  BY DEF Next, vars
<1>4. /\ SnapshotInv /\ SnapshotInv' /\ Unharmed' /\ hurt \in BOOLEAN /\ [Next]_vars
      => [Register!Next]_(Register!rvars)
  BY StepMaps
<1>5. Spec => []SnapshotInv /\ []Unharmed
  BY InvariantHolds, UnharmedHolds, PTL
<1> QED
  BY <1>1, <1>2, <1>3, <1>4, <1>5, PTL DEF Spec, RegisterSpec, Register!Spec
=============================================================================
