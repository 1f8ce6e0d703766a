------------------------- MODULE RegexSearchProofs -------------------------
(***************************************************************************)
(* Proofs about RegexSearch: for every program whose instructions stay in  *)
(* it, every record and every plan of regions, the lists of nfa_search are *)
(* in order of preference and the reported matches have rising starts;     *)
(* what is reported is accepted by the program, and what the program       *)
(* accepts is not passed over but for a match that is preferred.           *)
(***************************************************************************)
EXTENDS RegexSearch, SequenceTheorems, WellFoundedInduction, TLAPS

-----------------------------------------------------------------------------
(* Sequences of threads.                                                   *)

\* The natural numbers are well ordered.
LEMMA NatLeast ==
  ASSUME NEW T, T \subseteq Nat, T # {}
  PROVE  \E x \in T : \A y \in T : ~(y < x)
<1>1. IsWellFoundedOn(OpToRel(<, Nat), Nat)
  BY NatLessThanWellFounded
<1>2. PICK x \in T : \A y \in T : ~(<<y, x>> \in OpToRel(<, Nat))
  BY <1>1, WFMin, Zenon
<1>3. ASSUME NEW y \in T, y < x PROVE <<y, x>> \in OpToRel(<, Nat)
  <2>1. <<y, x>> \in Nat \X Nat
    OBVIOUS
  <2>2. <<y, x>>[1] = y /\ <<y, x>>[2] = x
    OBVIOUS
  <2>3. <<y, x>>[1] < <<y, x>>[2]
    BY <1>3, <2>2, Zenon
  <2> QED
    BY <2>1, <2>3, Zenon DEF OpToRel
<1> QED
  BY <1>2, <1>3, Zenon

\* The first thread of a list is one of its threads, and so are the others.
LEMMA HeadAndTail ==
  ASSUME NEW S, NEW s \in Seq(S), s # <<>>
  PROVE  /\ Head(s) \in S /\ Head(s) = s[1] /\ 1 \in DOMAIN s
         /\ Tail(s) \in Seq(S) /\ Len(s) \in Nat \ {0}
         /\ \A k \in DOMAIN Tail(s) : k \in Nat /\ k + 1 \in DOMAIN s /\ Tail(s)[k] = s[k + 1]
         /\ Threads(s) = {Head(s)} \union Threads(Tail(s))
<1>1. /\ Head(s) \in S /\ Head(s) = s[1] /\ 1 \in DOMAIN s
      /\ Tail(s) \in Seq(S) /\ Len(s) \in Nat \ {0}
  OBVIOUS
<1>2. \A k \in DOMAIN Tail(s) : k \in Nat /\ k + 1 \in DOMAIN s /\ Tail(s)[k] = s[k + 1]
  OBVIOUS
<1>3. Threads(s) = {Head(s)} \union Threads(Tail(s))
  <2>1. ASSUME NEW k \in DOMAIN s, k # 1
        PROVE  k - 1 \in DOMAIN Tail(s) /\ s[k] = Tail(s)[k - 1]
    <3>1. k \in 2..Len(s) /\ DOMAIN Tail(s) = 1..(Len(s) - 1)
      BY <2>1
    <3>2. k - 1 \in DOMAIN Tail(s) /\ (k - 1) + 1 = k
      BY <1>1, <3>1
    <3> QED
      BY <1>2, <3>2
  <2>2. ASSUME NEW x \in Threads(s) PROVE x \in {Head(s)} \union Threads(Tail(s))
    BY <1>1, <2>1, <2>2, Zenon DEF Threads
  <2>3. ASSUME NEW x \in Threads(Tail(s)) PROVE x \in Threads(s)
    BY <1>2, <2>3, Zenon DEF Threads
  <2>4. Head(s) \in Threads(s)
    BY <1>1, Zenon DEF Threads
  <2> QED
    BY <2>2, <2>3, <2>4
<1> QED
  BY <1>1, <1>2, <1>3

\* Tails keep what lists keep.
LEMMA TailKeeps ==
  ASSUME NEW S, NEW s \in Seq(S), s # <<>>
  PROVE  /\ Rising(s) => Rising(Tail(s)) /\ \A th \in Threads(Tail(s)) : Head(s).start <= th.start
         /\ Apart(s) => Apart(Tail(s))
<1>1. /\ Head(s) = s[1] /\ 1 \in DOMAIN s
      /\ \A k \in DOMAIN Tail(s) : k \in Nat /\ k + 1 \in DOMAIN s /\ Tail(s)[k] = s[k + 1]
      /\ \A k \in DOMAIN s : k \in Nat
      /\ \A k \in DOMAIN Tail(s) : k >= 1
  <2>1. \A k \in DOMAIN s : k \in Nat
    OBVIOUS
  <2>2. \A k \in DOMAIN Tail(s) : k >= 1
    OBVIOUS
  <2> QED
    BY <2>1, <2>2, HeadAndTail
<1>2. ASSUME Rising(s)
      PROVE  Rising(Tail(s)) /\ \A th \in Threads(Tail(s)) : Head(s).start <= th.start
  <2>1. ASSUME NEW j \in DOMAIN Tail(s), NEW k \in DOMAIN Tail(s), j < k
        PROVE  Tail(s)[j].start <= Tail(s)[k].start
    <3>1. j + 1 < k + 1
      BY <1>1, <2>1
    <3> QED
      BY <1>1, <1>2, <3>1 DEF Rising
  <2>2. ASSUME NEW k \in DOMAIN Tail(s)
        PROVE  Head(s).start <= Tail(s)[k].start
    <3>1. 1 < k + 1
      BY <1>1
    <3> QED
      BY <1>1, <1>2, <3>1 DEF Rising
  <2> QED
    BY <2>1, <2>2 DEF Rising, Threads
<1>3. ASSUME Apart(s) PROVE Apart(Tail(s))
  <2>1. ASSUME NEW j \in DOMAIN Tail(s), NEW k \in DOMAIN Tail(s), Tail(s)[j].pc = Tail(s)[k].pc
        PROVE  j = k
    <3>1. j + 1 = k + 1
      BY <1>1, <1>3, <2>1 DEF Apart
    <3> QED
      BY <1>1, <3>1
  <2> QED
    BY <2>1 DEF Apart
<1> QED
  BY <1>2, <1>3

\* The front of a list keeps what the list keeps.
LEMMA FrontKeeps ==
  ASSUME NEW S, NEW s \in Seq(S), NEW k \in DOMAIN s
  PROVE  LET f == SubSeq(s, 1, k - 1)
         IN /\ f \in Seq(S) /\ Threads(f) \subseteq Threads(s)
            /\ Rising(s) => Rising(f)
            /\ Apart(s) => Apart(f)
<1> DEFINE f == SubSeq(s, 1, k - 1)
<1>1. f \in Seq(S)
  OBVIOUS
<1>2. \A j \in DOMAIN f : j \in DOMAIN s /\ f[j] = s[j]
  OBVIOUS
<1>3. Threads(f) \subseteq Threads(s)
  BY <1>2 DEF Threads
<1>4. Rising(s) => Rising(f)
  BY <1>2 DEF Rising
<1>5. Apart(s) => Apart(f)
  BY <1>2 DEF Apart
<1> QED
  BY <1>1, <1>3, <1>4, <1>5

\* A thread that comes last and is at a place of its own.
LEMMA AppendKeeps ==
  ASSUME NEW S, NEW s \in Seq(S), NEW th \in S
  PROVE  /\ Append(s, th) \in Seq(S)
         /\ Threads(Append(s, th)) = Threads(s) \union {th}
         /\ Rising(s) /\ (\A x \in Threads(s) : x.start <= th.start) => Rising(Append(s, th))
         /\ Apart(s) /\ (\A x \in Threads(s) : x.pc # th.pc) => Apart(Append(s, th))
<1> DEFINE a == Append(s, th)
           n == Len(s) + 1
<1>1. /\ a \in Seq(S) /\ n \in DOMAIN a /\ a[n] = th
      /\ \A k \in DOMAIN a : k = n \/ (k \in DOMAIN s /\ k < n /\ k \in Nat /\ a[k] = s[k])
      /\ \A k \in DOMAIN s : k \in DOMAIN a /\ a[k] = s[k]
      /\ n \in Nat
  OBVIOUS
<1> HIDE DEF a, n
<1>2. Threads(a) = Threads(s) \union {th}
  BY <1>1 DEF Threads
<1>3. ASSUME Rising(s), \A x \in Threads(s) : x.start <= th.start PROVE Rising(a)
  <2>1. ASSUME NEW j \in DOMAIN a, NEW k \in DOMAIN a, j < k PROVE a[j].start <= a[k].start
    <3>1. j # n
      BY <1>1, <2>1
    <3>2. j \in DOMAIN s /\ a[j] = s[j]
      BY <1>1, <3>1
    <3>3. CASE k = n
      BY <1>1, <1>3, <3>2, <3>3 DEF Threads
    <3>4. CASE k # n
      BY <1>1, <1>3, <2>1, <3>2, <3>4 DEF Rising
    <3> QED
      BY <3>3, <3>4
  <2> QED
    BY <2>1 DEF Rising
<1>4. ASSUME Apart(s), \A x \in Threads(s) : x.pc # th.pc PROVE Apart(a)
  <2>1. ASSUME NEW j \in DOMAIN a, NEW k \in DOMAIN a, a[j].pc = a[k].pc PROVE j = k
    <3>1. \A i \in DOMAIN s : s[i].pc # th.pc
      BY <1>4 DEF Threads
    <3> QED
      BY <1>1, <1>4, <2>1, <3>1 DEF Apart
  <2> QED
    BY <2>1 DEF Apart
<1> QED
  BY <1>1, <1>2, <1>3, <1>4 DEF a

\* Two lists, the second behind the first.
LEMMA ConcatKeeps ==
  ASSUME NEW S, NEW a \in Seq(S), NEW b \in Seq(S)
  PROVE  /\ a \o b \in Seq(S)
         /\ Threads(a \o b) = Threads(a) \union Threads(b)
         /\ Rising(a) /\ Rising(b) /\ Below(a, b) => Rising(a \o b)
<1> DEFINE c == a \o b
           n == Len(a)
<1>1. /\ c \in Seq(S) /\ n \in Nat
      /\ \A k \in DOMAIN c : /\ k \in Nat
                             /\ \/ k \in DOMAIN a /\ k <= n /\ c[k] = a[k]
                                \/ k - n \in DOMAIN b /\ k > n /\ c[k] = b[k - n]
      /\ \A k \in DOMAIN a : k \in DOMAIN c /\ c[k] = a[k]
      /\ \A k \in DOMAIN b : k + n \in DOMAIN c /\ c[k + n] = b[k]
  OBVIOUS
<1> HIDE DEF c, n
<1>2. Threads(c) = Threads(a) \union Threads(b)
  BY <1>1 DEF Threads
<1>3. ASSUME Rising(a), Rising(b), Below(a, b) PROVE Rising(c)
  <2>1. ASSUME NEW j \in DOMAIN c, NEW k \in DOMAIN c, j < k PROVE c[j].start <= c[k].start
    <3>1. CASE k \in DOMAIN a /\ k <= n /\ c[k] = a[k]
      <4>1. j \in DOMAIN a /\ c[j] = a[j]
        BY <1>1, <2>1, <3>1
      <4> QED
        BY <1>3, <2>1, <3>1, <4>1 DEF Rising
    <3>2. CASE k - n \in DOMAIN b /\ k > n /\ c[k] = b[k - n]
      <4>1. CASE j \in DOMAIN a /\ c[j] = a[j]
        BY <1>3, <3>2, <4>1 DEF Below, Threads
      <4>2. CASE j - n \in DOMAIN b /\ j > n /\ c[j] = b[j - n]
        <5>1. j - n < k - n
          BY <1>1, <2>1
        <5> QED
          BY <1>3, <3>2, <4>2, <5>1 DEF Rising
      <4> QED
        BY <1>1, <4>1, <4>2
    <3> QED
      BY <1>1, <3>1, <3>2
  <2> QED
    BY <2>1 DEF Rising
<1> QED
  BY <1>1, <1>2, <1>3 DEF c

\* A list of no thread.
LEMMA NoThreads ==
  /\ Threads(<<>>) = {} /\ Rising(<<>>) /\ Apart(<<>>)
  /\ \A S : <<>> \in Seq(S)
  BY DEF Threads, Rising, Apart

\* A list of one thread.
LEMMA OneThread ==
  ASSUME NEW S, NEW th \in S
  PROVE  /\ <<th>> \in Seq(S) /\ Threads(<<th>>) = {th} /\ Rising(<<th>>)
<1>1. <<th>> \in Seq(S) /\ DOMAIN <<th>> = {1} /\ <<th>>[1] = th
  OBVIOUS
<1> QED
  BY <1>1 DEF Threads, Rising

-----------------------------------------------------------------------------
(* Regions.                                                                *)

\* The region at the head of a plan, and the plan behind it.
LEMMA HeadRegion ==
  ASSUME NEW plan, NEW n \in Nat, PlanOK(plan, n), plan # <<>>
  PROVE  /\ Head(plan).cb \in 0..n /\ Head(plan).ce \in 1..(n + 1) /\ Head(plan).end \in 0..n
         /\ Head(plan).cb < Head(plan).ce
         /\ PlanOK(Tail(plan), n)
         /\ Tail(plan) # <<>> => Head(plan).ce <= Head(Tail(plan)).cb
<1> DEFINE R == [cb : 0..n, ce : 1..(n + 1), end : 0..n]
<1>1. plan \in Seq(R)
  BY DEF PlanOK
<1> HIDE DEF R
<1>2. /\ Head(plan) \in R /\ Head(plan) = plan[1] /\ 1 \in DOMAIN plan
      /\ Tail(plan) \in Seq(R)
      /\ \A k \in DOMAIN Tail(plan) : k \in Nat /\ k + 1 \in DOMAIN plan /\ Tail(plan)[k] = plan[k + 1]
  BY <1>1, HeadAndTail
<1>3. /\ Head(plan).cb \in 0..n /\ Head(plan).ce \in 1..(n + 1) /\ Head(plan).end \in 0..n
      /\ Head(plan).cb < Head(plan).ce
  BY <1>2 DEF R, PlanOK
<1>4. PlanOK(Tail(plan), n)
  <2>1. ASSUME NEW j \in DOMAIN Tail(plan), NEW k \in DOMAIN Tail(plan), j < k
        PROVE  Tail(plan)[j].ce <= Tail(plan)[k].cb
    <3>1. j + 1 < k + 1
      BY <1>2, <2>1
    <3> QED
      BY <1>2, <3>1 DEF PlanOK
  <2> QED
    BY <1>2, <2>1 DEF PlanOK, R
<1>5. ASSUME Tail(plan) # <<>> PROVE Head(plan).ce <= Head(Tail(plan)).cb
  <2>1. 1 \in DOMAIN Tail(plan) /\ Head(Tail(plan)) = Tail(plan)[1]
    BY <1>2, <1>5, HeadAndTail
  <2>2. Head(Tail(plan)) = plan[2] /\ 2 \in DOMAIN plan
    BY <1>2, <2>1
  <2> QED
    BY <1>2, <2>2 DEF PlanOK
<1> QED
  BY <1>3, <1>4, <1>5

-----------------------------------------------------------------------------
(* The invariant.                                                          *)

ThreadType == [pc : Addresses, start : 0..pos]

\* The type of the lists, in the form that the lemmas about them use.
LEMMA ListTypes ==
  ASSUME TypeOK
  PROVE  /\ cur \in Seq(ThreadType) /\ nxt \in Seq(ThreadType) /\ stack \in Seq(ThreadType)
         /\ \A th \in Known : th \in ThreadType
<1>1. cur \in Seq(ThreadType) /\ nxt \in Seq(ThreadType) /\ stack \in Seq(ThreadType)
  BY DEF TypeOK, ThreadType
<1>2. ASSUME NEW S, NEW s \in Seq(S) PROVE \A th \in Threads(s) : th \in S
  BY DEF Threads
<1> QED
  BY <1>1, <1>2 DEF Known

\* The matches reported, in the same form.
LEMMA OutTypes ==
  ASSUME TypeOK
  PROVE  /\ Len(out) \in Nat /\ DOMAIN out = 1..Len(out)
         /\ \A k \in DOMAIN out : out[k].start \in Nat
<1> DEFINE M == [start : Nat, end : Nat]
<1>1. out \in Seq(M)
  BY DEF TypeOK
<1> HIDE DEF M
<1>2. Len(out) \in Nat /\ DOMAIN out = 1..Len(out) /\ \A k \in DOMAIN out : out[k] \in M
  BY <1>1
<1> QED
  BY <1>2 DEF M

\* The search begins before the first region, with empty lists.
LEMMA InitHolds == Init => ListInv
<1> SUFFICES ASSUME Init PROVE ListInv
  OBVIOUS
<1>1. cur = <<>> /\ nxt = <<>> /\ stack = <<>> /\ out = <<>> /\ best = None
      /\ seen = {} /\ nseen = {} /\ pc = "region" /\ pos = 0 /\ from = 0
  BY DEF Init
<1>2. Inputs
  BY RegexAssumption DEF Init, Inputs
<1>3. TypeOK
  BY <1>1, <1>2 DEF TypeOK, Inputs
<1>4. Stages /\ Within
  BY <1>1 DEF Stages, Within, InAttempt
<1>5. Marked /\ ListsInOrder
  BY <1>1, NoThreads DEF Marked, ListsInOrder
<1>6. Behind /\ Ordered
  BY <1>1 DEF Behind, Ordered
<1> QED
  BY <1>2, <1>3, <1>4, <1>5, <1>6 DEF ListInv

\* The first attempt in a region is behind every match of the regions before:
\* the plan's regions follow one another.
LEMMA NextRegionKeeps == ListInv /\ NextRegion => ListInv'
<1> SUFFICES ASSUME ListInv, NextRegion PROVE ListInv'
  OBVIOUS
<1> USE DEF ListInv
<1>1. /\ pc = "region" /\ todo # <<>> /\ from' = Region.cb /\ pc' = "attempt"
      /\ q' = q /\ prog' = prog /\ text' = text /\ todo' = todo /\ out' = out
      /\ pos' = pos /\ cur' = cur /\ seen' = seen /\ nxt' = nxt /\ nseen' = nseen
      /\ stack' = stack /\ best' = best
  BY DEF NextRegion, nfa
<1>2. Region.cb \in 0..Len(text) /\ Region.cb < Region.ce /\ Region.ce \in 1..(Len(text) + 1) /\ Len(text) \in Nat
  BY <1>1, HeadRegion DEF Inputs, Region
<1>3. Inputs'
  BY <1>1 DEF Inputs
<1>4. TypeOK'
  BY <1>1, <1>2 DEF TypeOK, Addresses, Code
<1>5. Stages' /\ Within'
  BY <1>1 DEF Stages, Within, InAttempt
<1>6. Marked' /\ ListsInOrder'
  BY <1>1 DEF Marked, ListsInOrder
<1>7. Behind'
  <2> SUFFICES ASSUME NEW k \in DOMAIN out PROVE out[k].start < from' /\ out[k].start < Region.ce
    BY <1>1 DEF Behind, Region
  <2>1. out[k].start < Region.cb
    BY <1>1 DEF Behind
  <2> QED
    BY <1>1, <1>2, <2>1, OutTypes
<1>8. Ordered'
  BY <1>1 DEF Ordered
<1> QED
  BY <1>3, <1>4, <1>5, <1>6, <1>7, <1>8

\* A record without regions has no matches.
LEMMA NoRegionKeeps == ListInv /\ NoRegion => ListInv'
<1> SUFFICES ASSUME ListInv, NoRegion PROVE ListInv'
  OBVIOUS
<1> USE DEF ListInv
<1>1. /\ pc = "region" /\ todo = <<>> /\ pc' = "done" /\ from' = from
      /\ q' = q /\ prog' = prog /\ text' = text /\ todo' = todo /\ out' = out
      /\ pos' = pos /\ cur' = cur /\ seen' = seen /\ nxt' = nxt /\ nseen' = nseen
      /\ stack' = stack /\ best' = best
  BY DEF NoRegion, nfa
<1>2. Inputs' /\ TypeOK'
  BY <1>1 DEF Inputs, TypeOK, Addresses, Code
<1>3. Stages' /\ Within' /\ Behind'
  BY <1>1 DEF Stages, Within, InAttempt, Behind
<1>4. Marked' /\ ListsInOrder' /\ Ordered'
  BY <1>1 DEF Marked, ListsInOrder, Ordered
<1> QED
  BY <1>2, <1>3, <1>4

\* The next region begins behind the end of the one that is left, by either
\* way out of regex_find_all's loop.
LEMMA LeavingKeeps ==
  ListInv /\ (RegionEnd \/ NoMatch) => ListInv'
<1> SUFFICES ASSUME ListInv, RegionEnd \/ NoMatch PROVE ListInv'
  OBVIOUS
<1> USE DEF ListInv
<1>1. /\ pc \in {"attempt", "report"} /\ from' = from
      /\ todo' = Tail(todo) /\ pc' = (IF todo' = <<>> THEN "done" ELSE "region")
      /\ q' = q /\ prog' = prog /\ text' = text /\ out' = out
      /\ pos' = pos /\ cur' = cur /\ seen' = seen /\ nxt' = nxt /\ nseen' = nseen
      /\ stack' = stack /\ best' = best
  BY DEF RegionEnd, NoMatch, LeaveRegion, nfa
<1>2. todo # <<>>
  BY <1>1 DEF Stages
<1>3. /\ Region.ce \in 1..(Len(text) + 1) /\ Len(text) \in Nat
      /\ PlanOK(todo', Len(text))
      /\ todo' # <<>> => Region' \in [cb : 0..Len(text), ce : 1..(Len(text) + 1), end : 0..Len(text)]
      /\ todo' # <<>> => Region.ce <= Region'.cb
  <2>1. PlanOK(todo', Len(text)) /\ Len(text) \in Nat
    BY <1>1, <1>2, HeadRegion DEF Inputs
  <2>2. todo' # <<>> => Head(todo') \in [cb : 0..Len(text), ce : 1..(Len(text) + 1), end : 0..Len(text)]
    BY <2>1, HeadAndTail DEF PlanOK
  <2> QED
    BY <1>1, <1>2, <2>1, <2>2, HeadRegion DEF Inputs, Region
<1>4. Inputs'
  BY <1>1, <1>3 DEF Inputs
<1>5. TypeOK'
  BY <1>1 DEF TypeOK, Addresses, Code
<1>6. Stages' /\ Within'
  BY <1>1 DEF Stages, Within, InAttempt
<1>7. Marked' /\ ListsInOrder' /\ Ordered'
  BY <1>1 DEF Marked, ListsInOrder, Ordered
<1>8. Behind'
  <2>1. ASSUME NEW k \in DOMAIN out, todo' # <<>> PROVE out[k].start < Region'.cb
    <3>1. out[k].start < Region.ce
      BY <1>1 DEF Behind
    <3>2. out[k].start \in Nat
      BY OutTypes
    <3>3. Region'.cb \in 0..Len(text)
      BY <1>3, <2>1
    <3> QED
      BY <1>3, <2>1, <3>1, <3>2, <3>3
  <2> QED
    BY <1>1, <2>1 DEF Behind
<1> QED
  BY <1>4, <1>5, <1>6, <1>7, <1>8

\* An attempt of nfa_search begins with no threads, at candidate_begin.
LEMMA AttemptKeeps == ListInv /\ Attempt => ListInv'
<1> SUFFICES ASSUME ListInv, Attempt PROVE ListInv'
  OBVIOUS
<1> USE DEF ListInv
<1>1. /\ pc = "attempt" /\ from < Region.ce /\ from' = from
      /\ pc' = (IF prog.extended THEN "try" ELSE "seed")
      /\ q' = q /\ prog' = prog /\ text' = text /\ todo' = todo /\ out' = out
      /\ pos' = from /\ cur' = <<>> /\ seen' = {} /\ nxt' = <<>> /\ nseen' = {}
      /\ stack' = <<>> /\ best' = None
  BY DEF Attempt
<1>2. todo # <<>>
  BY <1>1 DEF Stages
<1>3. Region.ce \in 1..(Len(text) + 1) /\ Len(text) \in Nat
  BY <1>2, HeadRegion DEF Inputs, Region
<1>4. Inputs' /\ Ordered'
  BY <1>1 DEF Inputs, Ordered
<1>5. TypeOK'
  BY <1>1, <1>3 DEF TypeOK, Addresses, Code
<1>6. Stages'
  BY <1>1, <1>2 DEF Stages, Region
<1>7. Marked' /\ ListsInOrder'
  BY <1>1, NoThreads DEF Marked, ListsInOrder
<1>8. Within'
  BY <1>1, <1>3, NoThreads DEF Within, Known, Region, TypeOK
<1>9. Behind'
  BY <1>1 DEF Behind, Region
<1> QED
  BY <1>4, <1>5, <1>6, <1>7, <1>8, <1>9

\* candidate_begin is behind the start of the match that is reported, and that
\* start is not before candidate_begin as it was.
LEMMA ReportKeeps == ListInv /\ Report => ListInv'
<1> SUFFICES ASSUME ListInv, Report PROVE ListInv'
  OBVIOUS
<1> USE DEF ListInv
<1>1. /\ pc = "report" /\ best # None /\ pc' = "attempt" /\ out' = Append(out, best)
      /\ from' = (IF over \/ best.end = best.start THEN best.start + 1 ELSE best.end)
      /\ q' = q /\ prog' = prog /\ text' = text /\ todo' = todo
      /\ pos' = pos /\ cur' = cur /\ seen' = seen /\ nxt' = nxt /\ nseen' = nseen
      /\ stack' = stack /\ best' = best
  BY DEF Report, nfa
<1>2. todo # <<>> /\ Region' = Region
  BY <1>1 DEF Stages, Region
<1>3. /\ best.start \in Nat /\ best.end \in Nat /\ best \in [start : Nat, end : Nat]
      /\ best.start <= best.end /\ best.end <= Len(text) /\ Len(text) \in Nat
      /\ from <= best.start /\ best.start < Region.ce /\ from \in Nat
  <2>1. best \in [start : 0..pos, end : 0..Len(text)] /\ best.start <= best.end
    BY <1>1 DEF TypeOK
  <2> QED
    BY <1>1, <2>1 DEF TypeOK, Inputs, Within, InAttempt
<1>4. best.start < from' /\ from' \in 0..(Len(text) + 1)
  BY <1>1, <1>3
<1>5. /\ out' \in Seq([start : Nat, end : Nat]) /\ Len(out) \in Nat
      /\ DOMAIN out = 1..Len(out) /\ DOMAIN out' = 1..(Len(out) + 1)
      /\ \A k \in 1..Len(out) : out'[k] = out[k] /\ out[k].start \in Nat
      /\ out'[Len(out) + 1] = best
  <2> DEFINE M == [start : Nat, end : Nat]
  <2>1. out \in Seq(M) /\ best \in M /\ out' = Append(out, best)
    BY <1>1, <1>3 DEF TypeOK
  <2> HIDE DEF M
  <2>2. /\ out' \in Seq(M) /\ DOMAIN out' = 1..(Len(out) + 1)
        /\ \A k \in 1..Len(out) : out'[k] = out[k]
        /\ out'[Len(out) + 1] = best
    BY <2>1
  <2> QED
    BY <2>2, OutTypes DEF M
<1>6. \A k \in DOMAIN out : out[k].start < best.start /\ out[k].start < from' /\ out[k].start < Region.ce
  <2> SUFFICES ASSUME NEW k \in DOMAIN out
               PROVE  out[k].start < best.start /\ out[k].start < from' /\ out[k].start < Region.ce
    OBVIOUS
  <2>1. out[k].start < from /\ out[k].start < Region.ce
    BY <1>1 DEF Behind
  <2>2. out[k].start \in Nat /\ from' \in Nat
    BY <1>4, <1>5
  <2> QED
    BY <1>3, <1>4, <2>1, <2>2
<1>7. Inputs' /\ Stages' /\ Within'
  BY <1>1, <1>2 DEF Inputs, Stages, Within, InAttempt
<1>8. TypeOK'
  BY <1>1, <1>4, <1>5 DEF TypeOK, Addresses, Code
<1>9. Marked' /\ ListsInOrder'
  BY <1>1 DEF Marked, ListsInOrder
<1>10. Behind'
  <2> SUFFICES ASSUME NEW k \in DOMAIN out' PROVE out'[k].start < from' /\ out'[k].start < Region.ce
    BY <1>1, <1>2 DEF Behind
  <2>1. CASE k \in DOMAIN out
    BY <1>5, <1>6, <2>1
  <2>2. CASE k = Len(out) + 1
    BY <1>3, <1>4, <1>5, <2>2
  <2> QED
    BY <1>5, <2>1, <2>2
<1>11. Ordered'
  <2> SUFFICES ASSUME NEW k \in DOMAIN out', k > 1 PROVE out'[k - 1].start < out'[k].start
    BY DEF Ordered
  <2>1. CASE k \in DOMAIN out
    <3>1. k - 1 \in DOMAIN out
      BY <1>5, <2>1
    <3> QED
      BY <1>5, <2>1, <3>1 DEF Ordered
  <2>2. CASE k = Len(out) + 1
    <3>1. k - 1 \in DOMAIN out
      BY <1>5, <2>2
    <3> QED
      BY <1>5, <1>6, <2>2, <3>1
  <2> QED
    BY <1>5, <2>1, <2>2
<1> QED
  BY <1>7, <1>8, <1>9, <1>10, <1>11

-----------------------------------------------------------------------------
(* The steps of regex_search and nfa_search.                               *)

\* Threads stay of their type when the position moves on.
LEMMA Widened ==
  ASSUME TypeOK, NEW p \in Nat, pos <= p
  PROVE  /\ ThreadType \subseteq [pc : Addresses, start : 0..p]
         /\ \A S : S \in {cur, nxt, stack} => S \in Seq([pc : Addresses, start : 0..p])
<1>1. ThreadType \subseteq [pc : Addresses, start : 0..p]
  BY DEF ThreadType, TypeOK
<1>2. Seq(ThreadType) \subseteq Seq([pc : Addresses, start : 0..p])
  BY <1>1, SeqMonotonic, Zenon
<1> QED
  BY <1>1, <1>2, ListTypes

\* A start that is tried is before candidate_end and no earlier than
\* candidate_begin, and so is the match that is found there.
LEMMA TryKeeps == ListInv /\ Try => ListInv'
<1> SUFFICES ASSUME ListInv, Try PROVE ListInv'
  OBVIOUS
<1> USE DEF ListInv
<1> DEFINE end == EvalEnd(q, text, pos)
           on  == best' = None /\ pos < Len(text) /\ pos + 1 < Region.ce
<1>1. /\ pc = "try" /\ best' = (IF end = None THEN None ELSE [start |-> pos, end |-> end])
      /\ on => pos' = pos + 1 /\ pc' = pc
      /\ ~on => pos' = pos /\ pc' = "report"
      /\ q' = q /\ prog' = prog /\ text' = text /\ todo' = todo /\ out' = out /\ from' = from
      /\ cur' = cur /\ seen' = seen /\ nxt' = nxt /\ nseen' = nseen /\ stack' = stack
  BY DEF Try
<1> HIDE DEF on
<1>2. todo # <<>> /\ prog.extended /\ pos < Region.ce /\ nxt = <<>> /\ stack = <<>>
  BY <1>1 DEF Stages
<1>3. pos \in 0..Len(text) /\ Len(text) \in Nat /\ from \in Nat /\ from <= pos
  BY <1>1 DEF TypeOK, Inputs, Within, InAttempt
<1>4. pos' \in 0..Len(text) /\ pos <= pos' /\ (pc' = "try" => pos' < Region.ce) /\ pc' \in {"try", "report"}
  BY <1>1, <1>2, <1>3 DEF on
<1>5. best' # None => /\ best' \in [start : 0..pos, end : 0..Len(text)] /\ best'.start <= best'.end
                      /\ from <= best'.start /\ best'.start < Region.ce
  <2>1. ASSUME best' # None
        PROVE  best' = [start |-> pos, end |-> end] /\ end \in pos..Len(text)
    BY <1>1, <1>3, <2>1 DEF Inputs, EvalOK
  <2> HIDE DEF end
  <2> QED
    BY <1>2, <1>3, <2>1
<1>6. Inputs' /\ Ordered'
  BY <1>1 DEF Inputs, Ordered
<1>7. TypeOK'
  <2> DEFINE T == [pc : Addresses, start : 0..pos']
  <2>1. {cur', nxt', stack'} \subseteq Seq(T) /\ Addresses' = Addresses
    BY <1>1, <1>3, <1>4, Widened DEF Addresses, Code
  <2>2. best' # None => best' \in [start : 0..pos', end : 0..Len(text)] /\ best'.start <= best'.end
    BY <1>3, <1>4, <1>5
  <2> QED
    BY <1>1, <1>4, <2>1, <2>2 DEF TypeOK
<1>8. Stages'
  BY <1>1, <1>2, <1>4 DEF Stages, Region
<1>9. Marked' /\ ListsInOrder'
  BY <1>1, <1>4 DEF Marked, ListsInOrder
<1>10. Within'
  BY <1>1, <1>3, <1>4, <1>5 DEF Within, InAttempt, Known, Region
<1>11. Behind'
  BY <1>1, <1>4 DEF Behind, Region
<1> QED
  BY <1>6, <1>7, <1>8, <1>9, <1>10, <1>11

\* Without a prefix ahead the attempt is over.
LEMMA SeedFailsKeeps == ListInv /\ SeedFails => ListInv'
<1> SUFFICES ASSUME ListInv, SeedFails PROVE ListInv'
  OBVIOUS
<1> USE DEF ListInv
<1>1. /\ pc = "seed" /\ pc' = "report" /\ from' = from
      /\ q' = q /\ prog' = prog /\ text' = text /\ todo' = todo /\ out' = out
      /\ pos' = pos /\ cur' = cur /\ seen' = seen /\ nxt' = nxt /\ nseen' = nseen
      /\ stack' = stack /\ best' = best
  BY DEF SeedFails, nfa
<1>2. Inputs' /\ TypeOK'
  BY <1>1 DEF Inputs, TypeOK, Addresses, Code
<1>3. Stages' /\ Within' /\ Behind'
  BY <1>1 DEF Stages, Within, InAttempt, Behind, Region, Known
<1>4. Marked' /\ ListsInOrder' /\ Ordered'
  BY <1>1 DEF Marked, ListsInOrder, Ordered
<1> QED
  BY <1>2, <1>3, <1>4

\* A new thread starts at the position, no earlier than any other thread, and
\* only before candidate_end.
LEMMA SeedKeeps == ListInv /\ Seed => ListInv'
<1> SUFFICES ASSUME ListInv, Seed PROVE ListInv'
  OBVIOUS
<1> USE DEF ListInv
<1>1. PICK s \in Landing :
        /\ pos' = s
        /\ stack' = IF s < Region.ce THEN <<Thread(prog.start, s)>> ELSE <<>>
  BY DEF Seed
<1>2. /\ pc = "seed" /\ pc' = "fill" /\ from' = from
      /\ q' = q /\ prog' = prog /\ text' = text /\ todo' = todo /\ out' = out
      /\ cur' = cur /\ seen' = seen /\ nxt' = nxt /\ nseen' = nseen /\ best' = best
  BY DEF Seed
<1>3. pos \in Nat /\ Len(text) \in Nat /\ pos <= Len(text) /\ from \in Nat
  BY DEF Inputs, TypeOK
<1>4. s \in Nat /\ pos <= s /\ s <= Len(text)
  BY <1>3 DEF Landing, PrefixesFrom
<1>5. nxt = <<>> /\ todo # <<>>
  BY <1>2 DEF Stages
<1>6. Region.ce \in Nat
  <2>1. Region.ce \in 1..(Len(text) + 1)
    BY <1>5, HeadRegion DEF Inputs, Region
  <2> QED
    BY <1>3, <2>1
<1> DEFINE T == [pc : Addresses, start : 0..s]
<1>7. cur \in Seq(T) /\ nxt \in Seq(T)
  BY <1>4, Widened
<1>8. Thread(prog.start, s) \in T
  BY <1>2, <1>4 DEF Inputs, Stages, ProgramOK, Addresses, Code, Thread
<1>9. /\ stack' \in Seq(T) /\ Rising(stack')
      /\ \A th \in Threads(stack') : th.start = s /\ s < Region.ce
  <2> HIDE DEF T
  <2>1. CASE s < Region.ce
    BY <1>1, <1>8, <2>1, OneThread DEF Thread
  <2>2. CASE ~(s < Region.ce)
    BY <1>1, <2>2, NoThreads
  <2> QED
    BY <2>1, <2>2
<1>10. \A th \in Threads(cur) : th.start \in Nat /\ th.start <= pos
  BY ListTypes, <1>3 DEF Known, ThreadType
<1>11. Inputs' /\ Ordered'
  BY <1>2 DEF Inputs, Ordered
<1>12. TypeOK'
  <2>1. {cur', nxt', stack'} \subseteq Seq(T)
    BY <1>2, <1>7, <1>9
  <2>2. Addresses' = Addresses
    BY <1>2 DEF Addresses, Code
  <2>3. best # None => best \in [start : 0..s, end : 0..Len(text)] /\ best.start <= best.end
    BY <1>3, <1>4 DEF TypeOK
  <2> QED
    BY <1>1, <1>2, <1>4, <2>1, <2>2, <2>3 DEF TypeOK
<1>13. Stages'
  BY <1>2 DEF Stages
<1>14. Marked'
  BY <1>2 DEF Marked
<1>15. ListsInOrder'
  BY <1>2, <1>4, <1>3, <1>9, <1>10 DEF ListsInOrder, Below
<1>16. Within'
  <2>1. from <= pos /\ from < Region.ce
    BY <1>2 DEF Within, InAttempt
  <2>2. Known' = Threads(cur) \union Threads(stack')
    BY <1>2, <1>5, NoThreads DEF Known
  <2>3. \A th \in Known' : from <= th.start /\ th.start < Region.ce
    BY <1>2, <1>3, <1>4, <1>9, <2>1, <2>2 DEF Within, InAttempt, Known
  <2> QED
    BY <1>1, <1>2, <1>3, <1>4, <2>1, <2>3 DEF Within, InAttempt, Region
<1>17. Behind'
  BY <1>2 DEF Behind, Region
<1> QED
  BY <1>11, <1>12, <1>13, <1>14, <1>15, <1>16, <1>17

\* What follows a thread without a character keeps its start.
LEMMA OnwardFacts ==
  ASSUME Inputs, TypeOK, ~prog.extended, NEW th \in ThreadType, NEW at
  PROVE  /\ Onward(th, at) \in Seq(ThreadType) /\ Rising(Onward(th, at))
         /\ \A x \in Threads(Onward(th, at)) : x.start = th.start
<1> DEFINE i == Code[th.pc]
           X == Thread(i.x, th.start)
           Y == Thread(i.y, th.start)
<1>1. /\ i.op # "match" => X \in ThreadType
      /\ i.op = "split" => Y \in ThreadType
      /\ X.start = th.start /\ Y.start = th.start
  BY DEF ThreadType, Inputs, ProgramOK, Addresses, Code, Thread
<1>2. th.start \in Nat
  BY DEF ThreadType
<1>3. \/ Onward(th, at) = <<>>
      \/ Onward(th, at) = <<X>> /\ i.op # "match"
      \/ Onward(th, at) = <<X, Y>> /\ i.op = "split"
  BY DEF Onward
<1> HIDE DEF X, Y, i
<1>4. CASE Onward(th, at) = <<>>
  BY <1>4, NoThreads
<1>5. CASE Onward(th, at) = <<X>> /\ i.op # "match"
  BY <1>1, <1>5, OneThread
<1>6. CASE Onward(th, at) = <<X, Y>> /\ i.op = "split"
  <2>1. <<X, Y>> \in Seq(ThreadType)
    BY <1>1, <1>6
  <2>2. Threads(<<X, Y>>) = {X, Y}
    BY DEF Threads
  <2>3. Rising(<<X, Y>>)
    BY <1>1, <1>2 DEF Rising
  <2> QED
    BY <1>1, <1>6, <2>1, <2>2, <2>3
<1> QED
  BY <1>3, <1>4, <1>5, <1>6

\* A list and a thread from the stack (Into, for either list).
Grown(list, marks, th) ==
  IF th.pc \notin marks /\ Settles(th) THEN Append(list, th) ELSE list

\* A list that grows by a thread from the stack.
LEMMA IntoKeeps ==
  ASSUME NEW list \in Seq(ThreadType), NEW marks, NEW th \in ThreadType,
         NEW more \in Seq(ThreadType), NEW rest \in Seq(ThreadType),
         \A x \in Threads(more) : x.start = th.start,
         \A x \in Threads(rest) : th.start <= x.start,
         Apart(list), Rising(list), \A x \in Threads(list) : x.pc \in marks,
         \A x \in Threads(list) : x.start <= th.start
  PROVE  LET grown == Grown(list, marks, th)
         IN /\ grown \in Seq(ThreadType) /\ Apart(grown) /\ Rising(grown)
            /\ \A x \in Threads(grown) : x.pc \in marks \union {th.pc}
            /\ Threads(grown) \subseteq Threads(list) \union {th}
            /\ Below(grown, more \o rest)
<1> DEFINE grown == Grown(list, marks, th)
<1>1. /\ grown \in Seq(ThreadType) /\ Apart(grown) /\ Rising(grown)
      /\ \A x \in Threads(grown) : x.pc \in marks \union {th.pc}
      /\ Threads(grown) \subseteq Threads(list) \union {th}
  <2>1. CASE grown = list
    BY <2>1
  <2>2. CASE grown = Append(list, th) /\ th.pc \notin marks
    BY <2>2, AppendKeeps
  <2> QED
    BY <2>1, <2>2 DEF Grown
<1>2. Threads(more \o rest) = Threads(more) \union Threads(rest)
  BY ConcatKeeps
<1>3. \A x \in ThreadType : x.start \in Nat
  BY DEF ThreadType
<1>4. \A x \in Threads(list) \union {th} \union Threads(more) \union Threads(rest) : x \in ThreadType
  BY DEF Threads
<1>5. ASSUME NEW x \in Threads(grown), NEW y \in Threads(more \o rest) PROVE x.start <= y.start
  <2>1. x.start <= th.start /\ x.start \in Nat /\ th.start \in Nat /\ y.start \in Nat
    BY <1>1, <1>2, <1>3, <1>4
  <2>2. th.start <= y.start
    BY <1>2, <2>1
  <2> QED
    BY <2>1, <2>2
<1> QED
  BY <1>1, <1>5 DEF Below

\* A thread leads on to the stack with its start, and settles in a list whose
\* marks do not have its place.
LEMMA ExpandKeeps == ListInv /\ Expand => ListInv'
<1> SUFFICES ASSUME ListInv, Expand PROVE ListInv'
  OBVIOUS
<1> USE DEF ListInv
<1> DEFINE th    == Head(stack)
           marks == IF pc = "fill" THEN seen ELSE nseen
           list  == IF pc = "fill" THEN cur ELSE nxt
           grown == Grown(list, marks, th)
           more  == IF th.pc \notin marks THEN Onward(th, IF pc = "fill" THEN pos ELSE pos + 1) ELSE <<>>
           rest  == Tail(stack)
<1>1. /\ stack # <<>> /\ stack' = more \o rest
      /\ pc = "fill" => cur' = grown /\ seen' = seen \union {th.pc} /\ nxt' = nxt /\ nseen' = nseen
      /\ pc # "fill" => nxt' = grown /\ nseen' = nseen \union {th.pc} /\ cur' = cur /\ seen' = seen
      /\ q' = q /\ prog' = prog /\ text' = text /\ todo' = todo /\ out' = out
      /\ pc' = pc /\ from' = from /\ pos' = pos /\ best' = best
  BY DEF Expand, Grown
<1>2. pc \in {"fill", "step"} /\ todo # <<>> /\ ~prog.extended
  BY <1>1 DEF Stages
<1>3. /\ stack \in Seq(ThreadType) /\ cur \in Seq(ThreadType) /\ nxt \in Seq(ThreadType)
      /\ \A x \in Known : x \in ThreadType
  BY ListTypes
<1>4. /\ th \in ThreadType /\ rest \in Seq(ThreadType) /\ list \in Seq(ThreadType)
      /\ Threads(stack) = {th} \union Threads(rest)
  BY <1>1, <1>3, HeadAndTail
<1>5. Rising(rest) /\ \A x \in Threads(rest) : th.start <= x.start
  BY <1>1, <1>3, TailKeeps DEF ListsInOrder
<1>6. /\ more \in Seq(ThreadType) /\ Rising(more)
      /\ \A x \in Threads(more) : x.start = th.start
  BY <1>2, <1>4, OnwardFacts, NoThreads
<1>7. /\ Apart(list) /\ Rising(list)
      /\ \A x \in Threads(list) : x.pc \in marks /\ x.start <= th.start
  BY <1>2, <1>4 DEF ListsInOrder, Marked, Below
<1> HIDE DEF more, rest
<1>8. /\ grown \in Seq(ThreadType) /\ Apart(grown) /\ Rising(grown)
      /\ \A x \in Threads(grown) : x.pc \in marks \union {th.pc}
      /\ Threads(grown) \subseteq Threads(list) \union {th}
      /\ Below(grown, more \o rest)
  <2>1. \A x \in Threads(list) : x.pc \in marks
    BY <1>7
  <2>2. \A x \in Threads(list) : x.start <= th.start
    BY <1>7
  <2> HIDE DEF list, marks, th
  <2> QED
    BY <1>4, <1>5, <1>6, <1>7, <2>1, <2>2, IntoKeeps
<1>9. \A x \in ThreadType : x.start \in Nat /\ x.pc \in Addresses
  BY DEF ThreadType
<1>10. /\ stack' \in Seq(ThreadType) /\ Rising(stack')
       /\ Threads(stack') = Threads(more) \union Threads(rest)
  <2>1. Below(more, rest)
    BY <1>5, <1>6 DEF Below
  <2> HIDE DEF th
  <2> QED
    BY <1>1, <1>4, <1>5, <1>6, <2>1, ConcatKeeps
<1>11. \A x \in Threads(stack') : \E y \in Threads(stack) : x.start = y.start
  BY <1>4, <1>6, <1>10
<1> HIDE DEF th, list, grown, marks
<1>12. Inputs' /\ Ordered'
  BY <1>1 DEF Inputs, Ordered
<1>13. TypeOK'
  <2>1. {cur', nxt', stack'} \subseteq Seq(ThreadType) /\ ThreadType' = ThreadType /\ Addresses' = Addresses
    BY <1>1, <1>2, <1>3, <1>8, <1>10 DEF ThreadType, Addresses, Code
  <2>2. seen' \subseteq Addresses /\ nseen' \subseteq Addresses
    BY <1>1, <1>2, <1>4, <1>9 DEF TypeOK
  <2> QED
    BY <1>1, <2>1, <2>2 DEF TypeOK, ThreadType
<1>14. Stages'
  BY <1>1, <1>2 DEF Stages, Region, Code
<1>15. Marked'
  BY <1>1, <1>2, <1>8 DEF Marked, marks
<1>16. ListsInOrder'
  <2>1. CASE pc = "fill"
    BY <1>1, <1>8, <1>10, <2>1 DEF ListsInOrder
  <2>2. CASE pc = "step"
    <3>1. Below(nxt', stack')
      BY <1>1, <1>8, <2>2
    <3>2. Below(stack', cur')
      BY <1>1, <1>11, <2>2 DEF ListsInOrder, Below
    <3>3. Below(nxt', cur')
      BY <1>1, <1>4, <1>8, <2>2 DEF ListsInOrder, Below, list
    <3> QED
      BY <1>1, <1>8, <1>10, <2>2, <3>1, <3>2, <3>3 DEF ListsInOrder
  <2> QED
    BY <1>2, <2>1, <2>2
<1>17. Within'
  <2>1. Threads(grown) \subseteq Known
    BY <1>4, <1>8 DEF Known, list
  <2>2. \A x \in Known' : \E y \in Known : x.start = y.start
    BY <1>1, <1>2, <1>11, <2>1 DEF Known
  <2>3. InAttempt /\ InAttempt'
    BY <1>1, <1>2 DEF InAttempt
  <2> QED
    BY <1>1, <2>2, <2>3 DEF Within, Region
<1>18. Behind'
  BY <1>1 DEF Behind, Region
<1> QED
  BY <1>12, <1>13, <1>14, <1>15, <1>16, <1>17, <1>18

\* The first thread that has arrived gives the best match, and the front of
\* the list, where none has arrived, goes on.
LEMMA ScanKeeps == ListInv /\ Scan => ListInv'
<1> SUFFICES ASSUME ListInv, Scan PROVE ListInv'
  OBVIOUS
<1> USE DEF ListInv
<1>1. /\ pc = "fill" /\ stack = <<>> /\ stack' = stack
      /\ pc' = (IF (best' # None /\ cur' = <<>>) \/ pos >= Region.end THEN "report" ELSE "step")
      /\ nxt' = <<>> /\ nseen' = {} /\ seen' = seen
      /\ q' = q /\ prog' = prog /\ text' = text /\ todo' = todo /\ out' = out
      /\ from' = from /\ pos' = pos
  BY DEF Scan
<1>2. todo # <<>> /\ nxt = <<>>
  BY <1>1 DEF Stages
<1>3. pos \in Nat /\ Len(text) \in Nat
  BY DEF TypeOK, Inputs
<1>4. Region.end \in Nat
  <2>1. Region.end \in 0..Len(text)
    BY <1>2, HeadRegion DEF Inputs, Region
  <2> QED
    BY <1>3, <2>1
<1>5. cur \in Seq(ThreadType) /\ \A x \in Threads(cur) : x \in ThreadType
  BY ListTypes DEF Known
<1>6. /\ cur' \in Seq(ThreadType) /\ Threads(cur') \subseteq Threads(cur)
      /\ Apart(cur') /\ Rising(cur')
      /\ \A x \in Threads(cur') : Code[x.pc].op # "match"
      /\ \/ best' = best
         \/ \E x \in Threads(cur) : best' = [start |-> x.start, end |-> pos]
  <2>1. CASE Arrived = {}
    <3>1. cur' = cur /\ best' = best
      BY <2>1 DEF Scan
    <3> QED
      BY <1>5, <2>1, <3>1 DEF ListsInOrder, Arrived, Threads
  <2>2. CASE Arrived # {}
    <3> DEFINE k == CHOOSE k \in Arrived : \A j \in Arrived : k <= j
    <3>1. best' = [start |-> cur[k].start, end |-> pos] /\ cur' = SubSeq(cur, 1, k - 1)
      BY <2>2 DEF Scan
    <3>2. Arrived \subseteq Nat
      BY <1>5 DEF Arrived
    <3>3. \E x \in Arrived : \A y \in Arrived : x <= y
      <4>1. PICK x \in Arrived : \A y \in Arrived : ~(y < x)
        BY <2>2, <3>2, NatLeast
      <4> QED
        BY <3>2, <4>1
    <3>4. k \in Arrived /\ \A j \in Arrived : k <= j
      BY <3>3, Zenon
    <3> HIDE DEF k
    <3>5. k \in DOMAIN cur
      BY <3>4 DEF Arrived
    <3>6. /\ cur' \in Seq(ThreadType) /\ Threads(cur') \subseteq Threads(cur)
          /\ Apart(cur') /\ Rising(cur')
      BY <1>5, <3>1, <3>5, FrontKeeps DEF ListsInOrder
    <3>7. ASSUME NEW j \in DOMAIN cur' PROVE Code[cur'[j].pc].op # "match"
      <4> HIDE DEF ThreadType
      <4>1. j \in DOMAIN cur /\ cur'[j] = cur[j] /\ ~(k <= j)
        BY <1>5, <3>1, <3>5
      <4> QED
        BY <3>4, <4>1 DEF Arrived
    <3> QED
      BY <3>1, <3>5, <3>6, <3>7 DEF Threads
  <2> QED
    BY <2>1, <2>2
<1>7. \A x \in Threads(cur) : x.start \in 0..pos /\ from <= x.start /\ x.start < Region.ce
  BY <1>1, <1>5 DEF ThreadType, Within, InAttempt, Known
<1>8. best' # None => /\ best' \in [start : 0..pos, end : 0..Len(text)] /\ best'.start <= best'.end
                      /\ from <= best'.start /\ best'.start < Region.ce
  <2>1. CASE best' = best
    BY <1>1, <2>1 DEF TypeOK, Within, InAttempt
  <2>2. CASE \E x \in Threads(cur) : best' = [start |-> x.start, end |-> pos]
    BY <1>3, <1>7, <2>2 DEF TypeOK
  <2> QED
    BY <1>6, <2>1, <2>2
<1>9. Inputs' /\ Ordered'
  BY <1>1 DEF Inputs, Ordered
<1>10. TypeOK'
  <2>1. {cur', nxt', stack'} \subseteq Seq(ThreadType) /\ Addresses' = Addresses
    BY <1>1, <1>6, NoThreads, ListTypes DEF Addresses, Code
  <2> QED
    BY <1>1, <1>8, <2>1 DEF TypeOK, ThreadType
<1>11. Stages'
  BY <1>1, <1>2, <1>3, <1>4, <1>6 DEF Stages, Region, Code
<1>12. Marked'
  BY <1>1, <1>6, NoThreads DEF Marked
<1>13. ListsInOrder'
  BY <1>1, <1>6, NoThreads DEF ListsInOrder, Below
<1>14. Within'
  <2>1. Known' \subseteq Known
    BY <1>1, <1>6, NoThreads DEF Known
  <2> QED
    BY <1>1, <1>8, <2>1 DEF Within, InAttempt, Region
<1>15. Behind'
  BY <1>1 DEF Behind, Region
<1> QED
  BY <1>9, <1>10, <1>11, <1>12, <1>13, <1>14, <1>15

\* The thread that reads is the first of those left: its successor is behind
\* what the next list has and before what stays.
LEMMA StepKeeps == ListInv /\ Step => ListInv'
<1> SUFFICES ASSUME ListInv, Step PROVE ListInv'
  OBVIOUS
<1> USE DEF ListInv
<1> DEFINE h == Head(cur)
           X == Thread(Code[h.pc].x, h.start)
<1>1. /\ pc = "step" /\ stack = <<>> /\ cur # <<>> /\ cur' = Tail(cur)
      /\ (stack' = <<X>> \/ stack' = <<>>)
      /\ nxt' = nxt /\ nseen' = nseen /\ seen' = seen
      /\ q' = q /\ prog' = prog /\ text' = text /\ todo' = todo /\ out' = out
      /\ from' = from /\ pos' = pos /\ best' = best /\ pc' = pc
  BY DEF Step
<1>2. /\ cur \in Seq(ThreadType) /\ nxt \in Seq(ThreadType)
      /\ \A x \in Threads(cur) : x \in ThreadType
  BY ListTypes DEF Known
<1>3. /\ h \in ThreadType /\ cur' \in Seq(ThreadType)
      /\ Threads(cur) = {h} \union Threads(cur')
  BY <1>1, <1>2, HeadAndTail
<1>4. Apart(cur') /\ Rising(cur') /\ \A x \in Threads(cur') : h.start <= x.start
  BY <1>1, <1>2, TailKeeps DEF ListsInOrder
<1>5. X \in ThreadType /\ X.start = h.start
  BY <1>1, <1>3 DEF Stages, ThreadType, Inputs, ProgramOK, Addresses, Code, Thread
<1> HIDE DEF X, h
<1>6. /\ stack' \in Seq(ThreadType) /\ Rising(stack')
      /\ \A x \in Threads(stack') : x.start = h.start
  <2>1. CASE stack' = <<X>>
    <3>1. /\ <<X>> \in Seq(ThreadType) /\ Threads(<<X>>) = {X} /\ Rising(<<X>>)
      BY <1>5, OneThread
    <3> QED
      BY <1>5, <2>1, <3>1
  <2>2. CASE stack' = <<>>
    BY <2>2, NoThreads
  <2> QED
    BY <1>1, <2>1, <2>2
<1>7. Inputs' /\ Ordered'
  BY <1>1 DEF Inputs, Ordered
<1>8. TypeOK'
  <2>1. {cur', nxt', stack'} \subseteq Seq(ThreadType) /\ ThreadType' = ThreadType /\ Addresses' = Addresses
    BY <1>1, <1>2, <1>3, <1>6 DEF ThreadType, Addresses, Code
  <2> QED
    BY <1>1, <2>1 DEF TypeOK, ThreadType
<1>9. Stages'
  BY <1>1, <1>3 DEF Stages, Region, Code
<1>10. Marked'
  BY <1>1, <1>3 DEF Marked
<1>11. ListsInOrder'
  <2>1. Below(nxt', cur')
    BY <1>1, <1>3 DEF ListsInOrder, Below
  <2>2. Below(nxt', stack')
    BY <1>1, <1>3, <1>6 DEF ListsInOrder, Below
  <2>3. Below(stack', cur')
    BY <1>4, <1>6 DEF Below
  <2> QED
    BY <1>1, <1>4, <1>6, <2>1, <2>2, <2>3 DEF ListsInOrder
<1>12. Within'
  <2>1. \A x \in Known' : \E y \in Known : x.start = y.start
    BY <1>1, <1>3, <1>6 DEF Known
  <2> QED
    BY <1>1, <2>1 DEF Within, InAttempt, Region
<1>13. Behind'
  BY <1>1 DEF Behind, Region
<1> QED
  BY <1>7, <1>8, <1>9, <1>10, <1>11, <1>12, <1>13

\* The next list, with its marks, becomes the current one a character on.
LEMMA SwapKeeps == ListInv /\ Swap => ListInv'
<1> SUFFICES ASSUME ListInv, Swap PROVE ListInv'
  OBVIOUS
<1> USE DEF ListInv
<1>1. /\ pc = "step" /\ stack = <<>> /\ cur = <<>> /\ stack' = stack
      /\ cur' = nxt /\ seen' = nseen /\ nxt' = <<>> /\ nseen' = {}
      /\ pos' = pos + 1 /\ pc' \in {"report", "seed"}
      /\ q' = q /\ prog' = prog /\ text' = text /\ todo' = todo /\ out' = out
      /\ from' = from /\ best' = best
  BY DEF Swap
<1>2. todo # <<>> /\ pos < Region.end
  BY <1>1 DEF Stages
<1>3. pos \in Nat /\ Len(text) \in Nat /\ pos + 1 \in 0..Len(text) /\ from \in Nat
  <2>1. Region.end \in 0..Len(text)
    BY <1>2, HeadRegion DEF Inputs, Region
  <2> QED
    BY <1>2, <2>1 DEF TypeOK, Inputs
<1> DEFINE T == [pc : Addresses, start : 0..(pos + 1)]
<1>4. nxt \in Seq(T) /\ <<>> \in Seq(T)
  <2>1. pos + 1 \in Nat /\ pos <= pos + 1
    BY <1>3
  <2> QED
    BY <2>1, Widened
<1>5. Inputs' /\ Ordered'
  BY <1>1 DEF Inputs, Ordered
<1>6. TypeOK'
  <2>1. {cur', nxt', stack'} \subseteq Seq(T) /\ Addresses' = Addresses
    BY <1>1, <1>4 DEF Addresses, Code
  <2>2. best # None => best \in [start : 0..(pos + 1), end : 0..Len(text)] /\ best.start <= best.end
    BY <1>3 DEF TypeOK
  <2> QED
    BY <1>1, <1>3, <2>1, <2>2 DEF TypeOK
<1>7. Stages'
  BY <1>1, <1>2 DEF Stages
<1>8. Marked'
  BY <1>1, NoThreads DEF Marked
<1>9. ListsInOrder'
  BY <1>1, NoThreads DEF ListsInOrder
<1>10. Within'
  <2>1. Known' \subseteq Known
    BY <1>1, NoThreads DEF Known
  <2> QED
    BY <1>1, <1>3, <2>1 DEF Within, InAttempt, Region
<1>11. Behind'
  BY <1>1 DEF Behind, Region
<1> QED
  BY <1>5, <1>6, <1>7, <1>8, <1>9, <1>10, <1>11

\* A step that changes nothing, as the one that is left when the search is
\* done.
LEMMA StutterKeeps == ListInv /\ UNCHANGED vars => ListInv'
<1> SUFFICES ASSUME ListInv, UNCHANGED vars PROVE ListInv'
  OBVIOUS
<1>1. /\ pc' = pc /\ q' = q /\ prog' = prog /\ text' = text /\ todo' = todo /\ out' = out
      /\ from' = from /\ pos' = pos /\ best' = best /\ stack' = stack
      /\ cur' = cur /\ seen' = seen /\ nxt' = nxt /\ nseen' = nseen
  BY DEF vars, nfa
<1>2. Inputs' /\ TypeOK'
  BY <1>1 DEF ListInv, Inputs, TypeOK, Addresses, Code
<1>3. Stages' /\ Within' /\ Behind'
  BY <1>1 DEF ListInv, Stages, Within, InAttempt, Behind, Region, Known, Code
<1>4. Marked' /\ ListsInOrder' /\ Ordered'
  BY <1>1 DEF ListInv, Marked, ListsInOrder, Ordered
<1> QED
  BY <1>2, <1>3, <1>4 DEF ListInv

\* Every step keeps what is said of the lists.
LEMMA ListsKeep == ListInv /\ [Next]_vars => ListInv'
<1> SUFFICES ASSUME ListInv, [Next]_vars PROVE ListInv'
  OBVIOUS
<1>1. CASE NextRegion
  BY <1>1, NextRegionKeeps
<1>2. CASE NoRegion
  BY <1>2, NoRegionKeeps
<1>3. CASE RegionEnd \/ NoMatch
  BY <1>3, LeavingKeeps
<1>4. CASE Attempt
  BY <1>4, AttemptKeeps
<1>5. CASE Report
  BY <1>5, ReportKeeps
<1>6. CASE SeedFails
  BY <1>6, SeedFailsKeeps
<1>7. CASE Seed
  BY <1>7, SeedKeeps
<1>8. CASE Expand
  BY <1>8, ExpandKeeps
<1>9. CASE Scan
  BY <1>9, ScanKeeps
<1>10. CASE Step
  BY <1>10, StepKeeps
<1>11. CASE Swap
  BY <1>11, SwapKeeps
<1>12. CASE Try
  BY <1>12, TryKeeps
<1>13. CASE Done \/ UNCHANGED vars
  BY <1>13, StutterKeeps DEF Done
<1> QED
  BY <1>1, <1>2, <1>3, <1>4, <1>5, <1>6, <1>7, <1>8, <1>9, <1>10, <1>11, <1>12, <1>13 DEF Next

-----------------------------------------------------------------------------
(* What has been marked has been followed.                                 *)

\* What a thread leads to is a matter of its place.
LEMMA OnwardPlaces ==
  ASSUME NEW th, NEW at
  PROVE  Threads(Onward(th, at)) = {Thread(d, th.start) : d \in Ahead(th.pc, at)}
<1> DEFINE i == Code[th.pc]
           o == Thread(th.pc, 0)
<1>1. o.pc = th.pc /\ o.start = 0
  BY DEF Thread
<1>2. \A s : Thread(i.x, s).pc = i.x /\ Thread(i.y, s).pc = i.y
  BY DEF Thread
<1>3. \/ Onward(th, at) = <<>> /\ Onward(o, at) = <<>>
      \/ Onward(th, at) = <<Thread(i.x, th.start)>> /\ Onward(o, at) = <<Thread(i.x, 0)>>
      \/ /\ Onward(th, at) = <<Thread(i.x, th.start), Thread(i.y, th.start)>>
         /\ Onward(o, at) = <<Thread(i.x, 0), Thread(i.y, 0)>>
  <2> HIDE DEF o
  <2> QED
    BY <1>1 DEF Onward
<1> HIDE DEF i
<1>4. Ahead(th.pc, at) = {x.pc : x \in Threads(Onward(o, at))}
  BY DEF Ahead
<1> HIDE DEF o
<1>5. \A X, Y : Threads(<<>>) = {} /\ Threads(<<X>>) = {X} /\ Threads(<<X, Y>>) = {X, Y}
  BY DEF Threads
<1>6. CASE Onward(th, at) = <<>> /\ Onward(o, at) = <<>>
  BY <1>4, <1>5, <1>6
<1>7. CASE Onward(th, at) = <<Thread(i.x, th.start)>> /\ Onward(o, at) = <<Thread(i.x, 0)>>
  <2>1. Ahead(th.pc, at) = {i.x}
    BY <1>2, <1>4, <1>5, <1>7
  <2> QED
    BY <1>5, <1>7, <2>1
<1>8. CASE /\ Onward(th, at) = <<Thread(i.x, th.start), Thread(i.y, th.start)>>
           /\ Onward(o, at) = <<Thread(i.x, 0), Thread(i.y, 0)>>
  <2>1. Ahead(th.pc, at) = {i.x, i.y}
    BY <1>2, <1>4, <1>5, <1>8
  <2> QED
    BY <1>5, <1>8, <2>1
<1> QED
  BY <1>3, <1>6, <1>7, <1>8

\* Where a place leads to without a character.
LEMMA AheadIs ==
  ASSUME NEW a, NEW at
  PROVE  /\ Code[a].op \in {"read", "match"} => Ahead(a, at) = {}
         /\ Code[a].op = "split" => Ahead(a, at) \subseteq {Code[a].x, Code[a].y}
         /\ Code[a].op # "split" => Ahead(a, at) \subseteq {Code[a].x}
<1> DEFINE i == Code[a]
           o == Thread(a, 0)
<1>1. o.pc = a /\ o.start = 0
  BY DEF Thread
<1>2. \A s : Thread(i.x, s).pc = i.x /\ Thread(i.y, s).pc = i.y
  BY DEF Thread
<1>3. /\ i.op \in {"read", "match"} => Onward(o, at) = <<>>
      /\ i.op = "split" => Onward(o, at) = <<Thread(i.x, 0), Thread(i.y, 0)>>
      /\ i.op # "split" => Onward(o, at) \in {<<>>, <<Thread(i.x, 0)>>}
  <2> HIDE DEF o
  <2> QED
    BY <1>1 DEF Onward
<1>4. Ahead(a, at) = {x.pc : x \in Threads(Onward(o, at))}
  BY DEF Ahead
<1>5. \A X, Y : Threads(<<>>) = {} /\ Threads(<<X>>) = {X} /\ Threads(<<X, Y>>) = {X, Y}
  BY DEF Threads
<1> HIDE DEF o
<1> QED
  BY <1>2, <1>3, <1>4, <1>5

\* It is in the program; and what an attempt begins with is left by reading
\* only, and never entered again.
LEMMA AheadStays ==
  ASSUME Inputs, ~prog.extended, NEW a \in Addresses, NEW at
  PROVE  /\ Ahead(a, at) \subseteq Addresses
         /\ Code[a].op = "read" => Code[a].x \in Addresses
         /\ EntryOK(prog) /\ prog.prefixes # {} =>
              /\ prog.start \in Entry
              /\ a \in Entry => Ahead(a, at) \subseteq Entry
              /\ a \notin Entry => Ahead(a, at) \intersect Entry = {}
              /\ Code[a].op = "read" => Code[a].x \notin Entry
<1>1. /\ Code[a].op # "match" => Code[a].x \in Addresses
      /\ Code[a].op = "split" => Code[a].y \in Addresses
  BY DEF Inputs, ProgramOK, Addresses, Code
<1>2. ASSUME EntryOK(prog), prog.prefixes # {}
      PROVE  /\ prog.start \in Entry
             /\ Code[a].op # "match" => (Code[a].x \in Entry <=> a \in Entry /\ Code[a].op # "read")
             /\ Code[a].op = "split" => (Code[a].y \in Entry <=> a \in Entry /\ Code[a].op # "read")
  BY <1>2 DEF EntryOK, Secluded, Entry, Addresses, Code
<1> QED
  BY <1>1, <1>2, AheadIs

\* The program and the record are the same throughout.
LEMMA AheadSame ==
  ASSUME prog' = prog, text' = text
  PROVE  /\ \A a, at : Ahead(a, at)' = Ahead(a, at)
         /\ Entry' = Entry /\ Code' = Code /\ Addresses' = Addresses
         /\ EntryOK(prog)' <=> EntryOK(prog)
  BY DEF Ahead, Onward, Threads, Code, Thread, Entry, Addresses

\* What is on the stack, when a thread has come off it and what it leads to has
\* been put on.
LEMMA Stacked ==
  ASSUME ListInv, ~prog.extended, stack # <<>>, NEW more \in Seq(ThreadType),
         stack' = more \o Tail(stack)
  PROVE  /\ Threads(stack') = Threads(more) \union Threads(Tail(stack))
         /\ Threads(stack) = {Head(stack)} \union Threads(Tail(stack))
         /\ Head(stack) \in ThreadType /\ Head(stack) \in Threads(stack)
         /\ Occupied(stack') = Occupied(more) \union Occupied(Tail(stack))
         /\ Occupied(stack) = {Head(stack).pc} \union Occupied(Tail(stack))
<1>1. stack \in Seq(ThreadType)
  BY ListTypes DEF ListInv
<1> HIDE DEF ThreadType
<1>2. /\ Threads(stack) = {Head(stack)} \union Threads(Tail(stack))
      /\ Head(stack) \in ThreadType /\ Tail(stack) \in Seq(ThreadType)
  BY <1>1, HeadAndTail
<1>3. Threads(stack') = Threads(more) \union Threads(Tail(stack))
  BY <1>2, ConcatKeeps
<1> QED
  BY <1>2, <1>3 DEF Occupied

\* The marks stay closed when one thread comes off the stack and its place is
\* marked.
LEMMA ClosedOn ==
  ASSUME ListInv, ~prog.extended, stack # <<>>, prog' = prog, text' = text,
         NEW marks, NEW list, NEW list2, NEW at, NEW more \in Seq(ThreadType),
         stack' = more \o Tail(stack),
         ClosedUp(marks, list, at),
         Occupied(list) \subseteq Occupied(list2),
         Head(stack).pc \notin marks =>
           /\ Ahead(Head(stack).pc, at) \subseteq Occupied(more)
           /\ Code[Head(stack).pc].op \in {"read", "match"} => Head(stack).pc \in Occupied(list2)
  PROVE  \A a \in marks \union {Head(stack).pc} :
           /\ Ahead(a, at) \subseteq (marks \union {Head(stack).pc}) \union Occupied(stack')
           /\ Code[a].op \in {"read", "match"} => a \in Occupied(list2)
<1>1. /\ Occupied(stack') = Occupied(more) \union Occupied(Tail(stack))
      /\ Occupied(stack) = {Head(stack).pc} \union Occupied(Tail(stack))
  BY Stacked
<1>2. ASSUME NEW a \in marks
      PROVE  /\ Ahead(a, at) \subseteq marks \union Occupied(stack)
             /\ Code[a].op \in {"read", "match"} => a \in Occupied(list)
  BY DEF ClosedUp
<1> QED
  BY <1>1, <1>2

\* Off the lists' loops nothing is said but of the stack.
LEMMA QuietExplored ==
  ASSUME Explored, prog' = prog, text' = text, stack' = stack,
         Threads(cur') \union Threads(nxt') \subseteq Threads(cur) \union Threads(nxt),
         pc' \notin {"seed", "fill", "step"}
  PROVE  Explored'
<1>1. EntryOK(prog)' /\ Code' = Code
  BY AheadSame DEF Explored
<1>2. \A th \in Threads(cur)' \union Threads(nxt)' : Settles(th)'
  <2>1. Threads(cur)' = Threads(cur') /\ Threads(nxt)' = Threads(nxt')
    BY DEF Threads
  <2> QED
    BY <1>1, <2>1 DEF Explored, Settles
<1>3. \A x, y \in Threads(stack)' : x.start = y.start
  BY DEF Explored, Threads
<1> QED
  BY <1>1, <1>2, <1>3 DEF Explored

\* The search begins with an empty stack and no marks.
LEMMA InitExplored == Init => Explored
<1> SUFFICES ASSUME Init PROVE Explored
  OBVIOUS
<1>1. EntryOK(prog)
  BY RegexAssumption DEF Init
<1> QED
  BY <1>1, NoThreads DEF Init, Explored

\* So does every attempt.
LEMMA AttemptExplored == SearchInv /\ Attempt => Explored'
<1> SUFFICES ASSUME SearchInv, Attempt PROVE Explored'
  OBVIOUS
<1>1. /\ pc' \in {"try", "seed"} /\ prog' = prog /\ text' = text
      /\ cur' = <<>> /\ seen' = {} /\ nxt' = <<>> /\ stack' = <<>>
  BY DEF Attempt
<1>2. EntryOK(prog)' /\ Entry' = Entry
  BY <1>1, AheadSame DEF SearchInv, Explored
<1>3. ClosedUp(seen, cur, pos)'
  BY <1>1 DEF ClosedUp
<1> QED
  BY <1>1, <1>2, <1>3, NoThreads DEF Explored

\* Where the search goes on from a prefix, the marks of before are not among
\* what the attempt begins with.
LEMMA SeedExplored == SearchInv /\ Seed => Explored'
<1> SUFFICES ASSUME SearchInv, Seed PROVE Explored'
  OBVIOUS
<1>1. PICK s \in Landing :
        /\ pos' = s
        /\ stack' = IF s < Region.ce THEN <<Thread(prog.start, s)>> ELSE <<>>
  BY DEF Seed
<1>2. /\ pc = "seed" /\ pc' = "fill" /\ prog' = prog /\ text' = text
      /\ cur' = cur /\ seen' = seen /\ nxt' = nxt /\ nseen' = nseen
  BY DEF Seed
<1>3. ListInv /\ Explored /\ ~prog.extended /\ stack = <<>>
  BY <1>2 DEF SearchInv, ListInv, Stages
<1>4. /\ EntryOK(prog)' /\ Entry' = Entry /\ Code' = Code
      /\ \A a, at : Ahead(a, at)' = Ahead(a, at)
  BY <1>2, <1>3, AheadSame DEF Explored
<1>5. Threads(stack') \subseteq {Thread(prog.start, s)}
  <2>1. Threads(<<>>) = {} /\ Threads(<<Thread(prog.start, s)>>) = {Thread(prog.start, s)}
    BY DEF Threads
  <2> QED
    BY <1>1, <2>1
<1>6. \A th \in Threads(cur)' \union Threads(nxt)' : Settles(th)'
  BY <1>2, <1>3, <1>4 DEF Explored, Settles, Threads
<1>7. ClosedUp(seen, cur, pos) /\ (prog.prefixes # {} => seen \intersect Entry = {})
  BY <1>2, <1>3 DEF Explored
<1>8. CASE s = pos
  <2>1. Occupied(stack) = {}
    BY <1>3, NoThreads DEF Occupied
  <2>2. ASSUME NEW a \in seen
        PROVE  Ahead(a, pos) \subseteq seen /\ (Code[a].op \in {"read", "match"} => a \in Occupied(cur))
    BY <1>7, <2>1 DEF ClosedUp
  <2>3. Occupied(cur)' = Occupied(cur)
    BY <1>2 DEF Occupied, Threads
  <2>4. ClosedUp(seen, cur, pos)'
    BY <1>1, <1>2, <1>4, <1>8, <2>2, <2>3 DEF ClosedUp
  <2> QED
    BY <1>2, <1>4, <1>5, <1>6, <2>4 DEF Explored, Threads
<1>9. CASE s # pos
  <2>1. prog.prefixes # {}
    BY <1>1, <1>9 DEF Landing
  <2>2. prog.start \in Entry
    BY <1>3, <2>1 DEF Explored, EntryOK, Secluded, Entry
  <2>3. Occupied(stack)' \subseteq Entry
    <3>1. Occupied(stack)' = {th.pc : th \in Threads(stack')}
      BY DEF Occupied, Threads
    <3>2. Thread(prog.start, s).pc = prog.start
      BY DEF Thread
    <3> QED
      BY <1>5, <2>2, <3>1, <3>2
  <2>4. (seen \intersect Entry)' = {}
    BY <1>2, <1>4, <1>7, <2>1
  <2>5. ClosedUp(seen \intersect Entry, cur, pos)'
    BY <2>4 DEF ClosedUp
  <2> QED
    BY <1>2, <1>4, <1>5, <1>6, <2>1, <2>3, <2>5 DEF Explored, Threads
<1> QED
  BY <1>8, <1>9

\* One thread off the stack, and what it does to the list and the marks that
\* it goes into.
LEMMA ExpandDoes ==
  ASSUME ListInv, Expand
  PROVE  LET th    == Head(stack)
             marks == IF pc = "fill" THEN seen ELSE nseen
             list  == IF pc = "fill" THEN cur ELSE nxt
             at    == IF pc = "fill" THEN pos ELSE pos + 1
             more  == IF th.pc \notin marks THEN Onward(th, at) ELSE <<>>
             grown == Grown(list, marks, th)
         IN /\ pc \in {"fill", "step"} /\ stack # <<>> /\ ~prog.extended
            /\ th \in ThreadType /\ list \in Seq(ThreadType)
            /\ more \in Seq(ThreadType) /\ stack' = more \o Tail(stack)
            /\ th.pc \notin marks => Threads(more) = {Thread(d, th.start) : d \in Ahead(th.pc, at)}
            /\ th.pc \in marks => Threads(more) = {}
            /\ \A x \in Threads(more) : x.start = th.start
            /\ Threads(grown) = Threads(list) \union
                                  (IF th.pc \notin marks /\ Settles(th) THEN {th} ELSE {})
            /\ pc = "fill" => cur' = grown /\ seen' = seen \union {th.pc} /\ nxt' = nxt /\ nseen' = nseen
            /\ pc = "step" => nxt' = grown /\ nseen' = nseen \union {th.pc} /\ cur' = cur /\ seen' = seen
            /\ q' = q /\ prog' = prog /\ text' = text /\ todo' = todo /\ out' = out
            /\ pc' = pc /\ from' = from /\ pos' = pos /\ best' = best
<1> DEFINE th    == Head(stack)
           marks == IF pc = "fill" THEN seen ELSE nseen
           list  == IF pc = "fill" THEN cur ELSE nxt
           at    == IF pc = "fill" THEN pos ELSE pos + 1
           more  == IF th.pc \notin marks THEN Onward(th, at) ELSE <<>>
           grown == Grown(list, marks, th)
<1>1. /\ stack # <<>> /\ stack' = more \o Tail(stack)
      /\ pc = "fill" => cur' = grown /\ seen' = seen \union {th.pc} /\ nxt' = nxt /\ nseen' = nseen
      /\ pc # "fill" => nxt' = grown /\ nseen' = nseen \union {th.pc} /\ cur' = cur /\ seen' = seen
      /\ q' = q /\ prog' = prog /\ text' = text /\ todo' = todo /\ out' = out
      /\ pc' = pc /\ from' = from /\ pos' = pos /\ best' = best
  BY DEF Expand, Grown
<1>2. pc \in {"fill", "step"} /\ ~prog.extended
  BY <1>1 DEF ListInv, Stages, TypeOK
<1>3. th \in ThreadType /\ list \in Seq(ThreadType)
  BY <1>1, ListTypes, HeadAndTail DEF ListInv
<1>4. more \in Seq(ThreadType) /\ \A x \in Threads(more) : x.start = th.start
  BY <1>2, <1>3, OnwardFacts, NoThreads DEF ListInv
<1>5. /\ th.pc \notin marks => Threads(more) = {Thread(d, th.start) : d \in Ahead(th.pc, at)}
      /\ th.pc \in marks => Threads(more) = {}
  BY OnwardPlaces, NoThreads
<1>6. Threads(grown) = Threads(list) \union (IF th.pc \notin marks /\ Settles(th) THEN {th} ELSE {})
  <2> HIDE DEF th, marks, list
  <2>1. CASE th.pc \notin marks /\ Settles(th)
    BY <1>3, <2>1, AppendKeeps DEF Grown
  <2>2. CASE ~(th.pc \notin marks /\ Settles(th))
    BY <2>2 DEF Grown
  <2> QED
    BY <2>1, <2>2
<1> HIDE DEF th, marks, list, at, more, grown
<1>7. pc = "step" => nxt' = grown /\ nseen' = nseen \union {th.pc} /\ cur' = cur /\ seen' = seen
  BY <1>1
<1> QED
  BY <1>1, <1>2, <1>3, <1>4, <1>5, <1>6, <1>7 DEF th, marks, list, at, more, grown

\* What is marked is expanded: it leads to what is put on the stack.
LEMMA ExpandExplored == SearchInv /\ Expand => Explored'
<1> SUFFICES ASSUME SearchInv, Expand PROVE Explored'
  OBVIOUS
<1> DEFINE th    == Head(stack)
           marks == IF pc = "fill" THEN seen ELSE nseen
           list  == IF pc = "fill" THEN cur ELSE nxt
           at    == IF pc = "fill" THEN pos ELSE pos + 1
           more  == IF th.pc \notin marks THEN Onward(th, at) ELSE <<>>
           grown == Grown(list, marks, th)
<1>0. ListInv /\ Explored
  BY DEF SearchInv
<1>1. /\ pc \in {"fill", "step"} /\ stack # <<>> /\ ~prog.extended
      /\ th \in ThreadType /\ list \in Seq(ThreadType)
      /\ more \in Seq(ThreadType) /\ stack' = more \o Tail(stack)
      /\ th.pc \notin marks => Threads(more) = {Thread(d, th.start) : d \in Ahead(th.pc, at)}
      /\ th.pc \in marks => Threads(more) = {}
      /\ \A x \in Threads(more) : x.start = th.start
      /\ Threads(grown) = Threads(list) \union (IF th.pc \notin marks /\ Settles(th) THEN {th} ELSE {})
      /\ pc = "fill" => cur' = grown /\ seen' = seen \union {th.pc} /\ nxt' = nxt /\ nseen' = nseen
      /\ pc = "step" => nxt' = grown /\ nseen' = nseen \union {th.pc} /\ cur' = cur /\ seen' = seen
      /\ prog' = prog /\ text' = text /\ pc' = pc /\ pos' = pos
  BY <1>0, ExpandDoes
<1> HIDE DEF grown, more, list, marks, at
<1>2. /\ Threads(stack') = Threads(more) \union Threads(Tail(stack))
      /\ Threads(stack) = {th} \union Threads(Tail(stack)) /\ th \in Threads(stack)
      /\ Occupied(stack') = Occupied(more) \union Occupied(Tail(stack))
      /\ Occupied(stack) = {th.pc} \union Occupied(Tail(stack))
  BY <1>0, <1>1, Stacked
<1>3. /\ EntryOK(prog)' /\ Entry' = Entry /\ Code' = Code
      /\ \A a, x : Ahead(a, x)' = Ahead(a, x)
  BY <1>0, <1>1, AheadSame DEF Explored
<1>4. /\ \A s : Threads(s)' = Threads(s')
      /\ Occupied(stack)' = Occupied(stack') /\ Occupied(cur)' = Occupied(cur')
      /\ Occupied(nxt)' = Occupied(nxt')
      /\ Threads(cur)' = Threads(cur') /\ Threads(nxt)' = Threads(nxt') /\ Threads(stack)' = Threads(stack')
  BY DEF Occupied, Threads
<1>5. \A x, y \in Threads(stack)' : x.start = y.start
  BY <1>0, <1>1, <1>2, <1>4 DEF Explored
<1>6. \A x \in Threads(grown) : Settles(x)
  BY <1>0, <1>1 DEF Explored, list
<1>7. \A x \in Threads(cur)' \union Threads(nxt)' : Settles(x)'
  BY <1>0, <1>1, <1>3, <1>4, <1>6 DEF Explored, Settles
<1>8. /\ Occupied(list) \subseteq Occupied(grown)
      /\ th.pc \notin marks =>
           /\ Occupied(more) = Ahead(th.pc, at)
           /\ Code[th.pc].op \in {"read", "match"} => th.pc \in Occupied(grown)
      /\ th.pc \in marks => Occupied(more) = {}
  <2>1. Occupied(list) \subseteq Occupied(grown)
    BY <1>1 DEF Occupied
  <2>2. ASSUME th.pc \notin marks PROVE Occupied(more) = Ahead(th.pc, at)
    <3>1. \A d : Thread(d, th.start).pc = d
      BY DEF Thread
    <3> HIDE DEF th
    <3>2. Threads(more) = {Thread(d, th.start) : d \in Ahead(th.pc, at)}
      BY <1>1, <2>2
    <3>3. ASSUME NEW d \in Ahead(th.pc, at) PROVE d \in Occupied(more)
      <4>1. Thread(d, th.start) \in Threads(more)
        BY <3>2
      <4> QED
        BY <3>1, <4>1 DEF Occupied
    <3>4. ASSUME NEW d \in Occupied(more) PROVE d \in Ahead(th.pc, at)
      BY <3>1, <3>2 DEF Occupied
    <3> QED
      BY <3>3, <3>4
  <2>3. ASSUME th.pc \notin marks, Code[th.pc].op \in {"read", "match"}
        PROVE  th.pc \in Occupied(grown)
    BY <1>1, <2>3 DEF Occupied, Settles
  <2> QED
    BY <1>1, <2>1, <2>2, <2>3 DEF Occupied
<1>9. ASSUME NEW M, ClosedUp(M, list, at), th.pc \in marks => th.pc \in M
      PROVE  \A a \in M \union {th.pc} :
               /\ Ahead(a, at) \subseteq (M \union {th.pc}) \union Occupied(stack')
               /\ Code[a].op \in {"read", "match"} => a \in Occupied(grown)
  <2>1. Head(stack).pc \notin M =>
          /\ Ahead(Head(stack).pc, at) \subseteq Occupied(more)
          /\ Code[Head(stack).pc].op \in {"read", "match"} => Head(stack).pc \in Occupied(grown)
    BY <1>8, <1>9
  <2>2. /\ ListInv /\ ~prog.extended /\ stack # <<>> /\ prog' = prog /\ text' = text
        /\ more \in Seq(ThreadType) /\ stack' = more \o Tail(stack)
        /\ ClosedUp(M, list, at) /\ Occupied(list) \subseteq Occupied(grown)
    BY <1>0, <1>1, <1>8, <1>9
  <2> HIDE DEF ThreadType
  <2> QED
    BY <2>1, <2>2, ClosedOn
<1>10. th.pc \in Addresses
  BY <1>1 DEF ThreadType
<1> HIDE DEF th
<1>11. ASSUME prog.prefixes # {}
       PROVE  /\ th.pc \in Entry => Occupied(more) \subseteq Entry
              /\ th.pc \notin Entry => Occupied(more) \intersect Entry = {}
  <2>1. /\ th.pc \in Entry => Ahead(th.pc, at) \subseteq Entry
        /\ th.pc \notin Entry => Ahead(th.pc, at) \intersect Entry = {}
    BY <1>0, <1>1, <1>10, <1>11, AheadStays DEF ListInv, Explored
  <2> QED
    BY <1>8, <2>1
<1>12. CASE pc = "fill"
  <2>1. marks = seen /\ list = cur /\ at = pos
    BY <1>12 DEF marks, list, at
  <2>2. CASE ClosedUp(seen, cur, pos)
    <3>1. ClosedUp(seen, cur, pos)'
      BY <1>1, <1>3, <1>4, <1>9, <1>12, <2>1, <2>2 DEF ClosedUp
    <3> QED
      BY <1>1, <1>3, <1>5, <1>7, <1>12, <3>1 DEF Explored
  <2>3. CASE /\ prog.prefixes # {} /\ Occupied(stack) \subseteq Entry
             /\ ClosedUp(seen \intersect Entry, cur, pos)
    <3>1. th.pc \in Entry /\ Occupied(stack') \subseteq Entry
      BY <1>2, <1>11, <2>3
    <3>2. (seen \intersect Entry)' = (seen \intersect Entry) \union {th.pc}
      BY <1>1, <1>3, <1>12, <3>1
    <3> DEFINE M == seen \intersect Entry
    <3>3. \A a \in M \union {th.pc} :
               /\ Ahead(a, at) \subseteq (M \union {th.pc}) \union Occupied(stack')
               /\ Code[a].op \in {"read", "match"} => a \in Occupied(grown)
      BY <1>9, <2>1, <2>3, <3>1
    <3>4. ClosedUp(seen \intersect Entry, cur, pos)'
      BY <1>1, <1>3, <1>4, <1>12, <2>1, <3>2, <3>3 DEF ClosedUp
    <3> QED
      BY <1>1, <1>3, <1>4, <1>5, <1>7, <1>12, <2>3, <3>1, <3>4 DEF Explored
  <2> QED
    BY <1>0, <1>12, <2>2, <2>3 DEF Explored
<1>13. CASE pc = "step"
  <2>1. marks = nseen /\ list = nxt /\ at = pos + 1
    BY <1>13 DEF marks, list, at
  <2>2. ClosedUp(nseen, nxt, pos + 1)
    BY <1>0, <1>13 DEF Explored
  <2>3. ClosedUp(nseen, nxt, pos + 1)'
    BY <1>1, <1>3, <1>4, <1>9, <1>13, <2>1, <2>2 DEF ClosedUp
  <2>4. ASSUME prog.prefixes # {}
        PROVE  (nseen \union Occupied(stack))' \intersect Entry = {}
    <3>1. (nseen \union Occupied(stack)) \intersect Entry = {}
      BY <1>0, <1>13, <2>4 DEF Explored
    <3>2. th.pc \notin Entry
      BY <1>2, <3>1
    <3>3. Occupied(stack') \intersect Entry = {}
      BY <1>2, <1>11, <2>4, <3>1, <3>2
    <3> QED
      BY <1>1, <1>4, <1>13, <3>1, <3>2, <3>3
  <2> QED
    BY <1>1, <1>3, <1>5, <1>7, <1>13, <2>3, <2>4 DEF Explored
<1> QED
  BY <1>1, <1>12, <1>13

\* A thread that has arrived takes the place of the best match, and of the
\* threads at the position those behind it are given up.
LEMMA ScanDoes ==
  ASSUME ListInv, Scan
  PROVE  /\ Threads(cur') \subseteq Threads(cur)
         /\ \A x \in Threads(cur') : Code[x.pc].op # "match"
         /\ \/ cur' = cur /\ best' = best
            \/ \E y \in Threads(cur) :
                 /\ Code[y.pc].op = "match"
                 /\ best' = [start |-> y.start, end |-> pos]
                 /\ \A x \in Threads(cur') : x.start <= y.start
                 /\ \A x \in Threads(cur) : x \in Threads(cur') \/ y.start <= x.start
<1>1. cur \in Seq(ThreadType) /\ pc = "fill"
  BY ListTypes DEF ListInv, Scan
<1>2. Rising(cur)
  BY DEF ListInv, ListsInOrder
<1>3. \A x \in ThreadType : x.start \in Nat
  BY DEF ThreadType
<1>4. CASE Arrived = {}
  BY <1>4 DEF Scan, Arrived, Threads
<1>5. CASE Arrived # {}
  <2> DEFINE k == CHOOSE k \in Arrived : \A j \in Arrived : k <= j
  <2>1. best' = [start |-> cur[k].start, end |-> pos] /\ cur' = SubSeq(cur, 1, k - 1)
    BY <1>5 DEF Scan
  <2>2. Arrived \subseteq Nat
    BY <1>1 DEF Arrived
  <2>3. \E x \in Arrived : \A y \in Arrived : x <= y
    <3>1. PICK x \in Arrived : \A y \in Arrived : ~(y < x)
      BY <1>5, <2>2, NatLeast
    <3> QED
      BY <2>2, <3>1
  <2>4. k \in Arrived /\ \A j \in Arrived : k <= j
    BY <2>3, Zenon
  <2> HIDE DEF k, ThreadType
  <2>5. k \in DOMAIN cur /\ Code[cur[k].pc].op = "match"
    BY <2>4 DEF Arrived
  <2>6. /\ \A j \in DOMAIN cur' : j \in DOMAIN cur /\ cur'[j] = cur[j] /\ j < k /\ j \in Nat
        /\ \A j \in DOMAIN cur : j < k => j \in DOMAIN cur' /\ cur'[j] = cur[j]
        /\ \A j \in DOMAIN cur : j \in Nat /\ cur[j] \in ThreadType
        /\ k \in Nat
    BY <1>1, <2>1, <2>5
  <2>7. \A j \in DOMAIN cur : cur[j].start \in Nat
    BY <1>3, <2>6
  <2>8. \A j \in DOMAIN cur' : cur'[j].start <= cur[k].start /\ Code[cur'[j].pc].op # "match"
    <3> TAKE j \in DOMAIN cur'
    <3>1. j \in DOMAIN cur /\ cur'[j] = cur[j] /\ j < k /\ j \in Nat /\ k \in Nat
      BY <2>6
    <3>2. ~(k <= j)
      BY <3>1
    <3>3. j \notin Arrived
      BY <2>4, <3>2
    <3> QED
      BY <1>2, <2>5, <3>1, <3>3 DEF Rising, Arrived
  <2>9. \A j \in DOMAIN cur : cur[j] \in Threads(cur') \/ cur[k].start <= cur[j].start
    <3> TAKE j \in DOMAIN cur
    <3>1. j \in Nat /\ k \in Nat /\ cur[j].start \in Nat /\ cur[k].start \in Nat
      BY <2>5, <2>6, <2>7
    <3>2. CASE j < k
      BY <2>6, <3>2 DEF Threads
    <3>3. CASE j = k
      BY <3>1, <3>3
    <3>4. CASE k < j
      BY <1>2, <2>5, <3>4 DEF Rising
    <3> QED
      BY <3>1, <3>2, <3>3, <3>4
  <2>10. cur[k] \in Threads(cur)
    BY <2>5 DEF Threads
  <2>11. \A x \in Threads(cur') : x.start <= cur[k].start /\ Code[x.pc].op # "match"
    BY <2>8 DEF Threads
  <2>12. \A x \in Threads(cur) : x \in Threads(cur') \/ cur[k].start <= x.start
    BY <2>9 DEF Threads
  <2>13. Threads(cur') \subseteq Threads(cur)
    BY <2>6 DEF Threads
  <2> QED
    BY <2>1, <2>5, <2>10, <2>11, <2>12, <2>13
<1> QED
  BY <1>4, <1>5

\* The list of the next character begins empty.
LEMMA ScanExplored == SearchInv /\ Scan => Explored'
<1> SUFFICES ASSUME SearchInv, Scan PROVE Explored'
  OBVIOUS
<1>1. /\ pc = "fill" /\ stack = <<>> /\ stack' = stack /\ prog' = prog /\ text' = text
      /\ pc' \in {"report", "step"} /\ nxt' = <<>> /\ nseen' = {}
  BY DEF Scan
<1>2. ListInv /\ Explored
  BY DEF SearchInv
<1>3. EntryOK(prog)' /\ Entry' = Entry /\ Code' = Code
  BY <1>1, <1>2, AheadSame DEF Explored
<1>4. Threads(cur') \subseteq Threads(cur)
  BY <1>2, ScanDoes
<1>5. \A x \in Threads(cur)' \union Threads(nxt)' : Settles(x)'
  <2>1. Threads(cur)' = Threads(cur') /\ Threads(nxt)' = {}
    BY <1>1 DEF Threads
  <2> QED
    BY <1>2, <1>3, <1>4, <2>1 DEF Explored, Settles
<1>6. ClosedUp(nseen, nxt, pos + 1)' /\ (nseen \union Occupied(stack))' = {}
  BY <1>1 DEF ClosedUp, Occupied, Threads
<1> QED
  BY <1>1, <1>3, <1>5, <1>6 DEF Explored, Threads

\* The marks of the next list go with it.
LEMMA StepExplored == SearchInv /\ (Step \/ Swap) => Explored'
<1> SUFFICES ASSUME SearchInv, Step \/ Swap PROVE Explored'
  OBVIOUS
<1>1. /\ pc = "step" /\ stack = <<>> /\ prog' = prog /\ text' = text
  BY DEF Step, Swap
<1>2. ListInv /\ Explored /\ ~prog.extended
  BY <1>1 DEF SearchInv, ListInv, Stages
<1>3. /\ EntryOK(prog)' /\ Entry' = Entry /\ Code' = Code
      /\ \A a, x : Ahead(a, x)' = Ahead(a, x)
  BY <1>1, <1>2, AheadSame DEF Explored
<1>4. /\ ClosedUp(nseen, nxt, pos + 1) /\ Occupied(stack) = {}
      /\ prog.prefixes # {} => nseen \intersect Entry = {}
      /\ \A x \in Threads(cur) \union Threads(nxt) : Settles(x)
  BY <1>1, <1>2, NoThreads DEF Explored, Occupied
<1>5. CASE Step
  <2> DEFINE h == Head(cur)
             X == Thread(Code[h.pc].x, h.start)
  <2>1. /\ cur # <<>> /\ cur' = Tail(cur) /\ stack' \in {<<X>>, <<>>}
        /\ nxt' = nxt /\ nseen' = nseen /\ pos' = pos /\ pc' = "step"
    BY <1>1, <1>5 DEF Step
  <2>2. h \in ThreadType /\ Threads(cur) = {h} \union Threads(cur')
    BY <1>2, <2>1, ListTypes, HeadAndTail DEF ListInv
  <2>3. h.pc \in Addresses /\ Code[h.pc].op = "read" /\ X.pc = Code[h.pc].x
    <3>1. Settles(h) /\ Code[h.pc].op # "match"
      BY <1>1, <1>2, <1>4, <2>2 DEF ListInv, Stages
    <3> QED
      BY <2>2, <3>1 DEF ThreadType, Settles, Thread
  <2> HIDE DEF h, X
  <2>4. Threads(stack') \subseteq {X}
    <3>1. Threads(<<>>) = {} /\ Threads(<<X>>) = {X}
      BY DEF Threads
    <3> QED
      BY <2>1, <3>1
  <2>5. /\ Threads(stack)' = Threads(stack') /\ Threads(cur)' = Threads(cur') /\ Threads(nxt)' = Threads(nxt)
        /\ Occupied(stack)' \subseteq {X.pc} /\ Occupied(nxt)' = Occupied(nxt)
    BY <2>1, <2>4 DEF Threads, Occupied
  <2>6. prog.prefixes # {} => X.pc \notin Entry
    BY <1>2, <2>3, AheadStays DEF ListInv, Explored
  <2>7. \A x \in Threads(cur)' \union Threads(nxt)' : Settles(x)'
    BY <1>3, <1>4, <2>2, <2>5 DEF Settles
  <2>8. ClosedUp(nseen, nxt, pos + 1)'
    BY <1>3, <1>4, <2>1, <2>5 DEF ClosedUp
  <2>9. prog.prefixes # {} => (nseen \union Occupied(stack))' \intersect Entry = {}
    BY <1>4, <2>1, <2>5, <2>6
  <2>10. \A x, y \in Threads(stack)' : x.start = y.start
    BY <2>4, <2>5
  <2> QED
    BY <1>1, <1>3, <2>1, <2>7, <2>8, <2>9, <2>10 DEF Explored
<1>6. CASE Swap
  <2>1. /\ stack' = <<>> /\ cur' = nxt /\ seen' = nseen /\ nxt' = <<>>
        /\ pos' = pos + 1 /\ pc' \in {"report", "seed"}
    BY <1>1, <1>6 DEF Swap
  <2>2. /\ Threads(stack)' = {} /\ Threads(cur)' = Threads(nxt) /\ Threads(nxt)' = {}
        /\ Occupied(cur)' = Occupied(nxt)
    BY <2>1 DEF Threads, Occupied
  <2>3. \A x \in Threads(cur)' \union Threads(nxt)' : Settles(x)'
    BY <1>3, <1>4, <2>2 DEF Settles
  <2>4. ClosedUp(seen, cur, pos)'
    BY <1>3, <1>4, <2>1, <2>2 DEF ClosedUp
  <2>5. prog.prefixes # {} => (seen \intersect Entry)' = {}
    BY <1>3, <1>4, <2>1
  <2> QED
    BY <1>1, <1>3, <2>1, <2>2, <2>3, <2>4, <2>5 DEF Explored
<1> QED
  BY <1>5, <1>6

\* Between the attempts the lists rest.
LEMMA RestExplored ==
  SearchInv /\ (NextRegion \/ NoRegion \/ RegionEnd \/ NoMatch \/ Report \/ SeedFails \/ Try) => Explored'
<1> SUFFICES ASSUME SearchInv, NextRegion \/ NoRegion \/ RegionEnd \/ NoMatch \/ Report \/ SeedFails \/ Try
             PROVE  Explored'
  OBVIOUS
<1>1. /\ prog' = prog /\ text' = text /\ stack' = stack /\ cur' = cur /\ nxt' = nxt
      /\ pc' \notin {"seed", "fill", "step"}
  <2>1. CASE NextRegion
    BY <2>1 DEF NextRegion, nfa
  <2>2. CASE NoRegion
    BY <2>2 DEF NoRegion, nfa
  <2>3. CASE RegionEnd
    BY <2>3 DEF RegionEnd, LeaveRegion, nfa
  <2>4. CASE NoMatch
    BY <2>4 DEF NoMatch, LeaveRegion, nfa
  <2>5. CASE Report
    BY <2>5 DEF Report, nfa
  <2>6. CASE SeedFails
    BY <2>6 DEF SeedFails, nfa
  <2>7. CASE Try
    BY <2>7 DEF Try
  <2> QED
    BY <2>1, <2>2, <2>3, <2>4, <2>5, <2>6, <2>7
<1> QED
  BY <1>1, QuietExplored DEF SearchInv

\* A step that changes nothing.
LEMMA StutterExplored == SearchInv /\ UNCHANGED vars => Explored'
<1> SUFFICES ASSUME SearchInv, UNCHANGED vars PROVE Explored'
  OBVIOUS
<1>1. /\ pc' = pc /\ prog' = prog /\ text' = text /\ pos' = pos /\ stack' = stack
      /\ cur' = cur /\ seen' = seen /\ nxt' = nxt /\ nseen' = nseen
  BY DEF vars, nfa
<1>2. /\ EntryOK(prog)' /\ Entry' = Entry /\ Code' = Code
      /\ \A a, x : Ahead(a, x)' = Ahead(a, x)
  BY <1>1, AheadSame DEF SearchInv, Explored
<1>3. /\ Threads(cur)' = Threads(cur) /\ Threads(nxt)' = Threads(nxt) /\ Threads(stack)' = Threads(stack)
      /\ Occupied(cur)' = Occupied(cur) /\ Occupied(nxt)' = Occupied(nxt) /\ Occupied(stack)' = Occupied(stack)
  BY <1>1 DEF Threads, Occupied
<1>4. /\ ClosedUp(seen, cur, pos)' <=> ClosedUp(seen, cur, pos)
      /\ ClosedUp(nseen, nxt, pos + 1)' <=> ClosedUp(nseen, nxt, pos + 1)
      /\ ClosedUp(seen \intersect Entry, cur, pos)' <=> ClosedUp(seen \intersect Entry, cur, pos)
  BY <1>1, <1>2, <1>3 DEF ClosedUp
<1>5. \A x \in Threads(cur)' \union Threads(nxt)' : Settles(x)'
  BY <1>2, <1>3 DEF SearchInv, Explored, Settles
<1> QED
  BY <1>1, <1>2, <1>3, <1>4, <1>5 DEF SearchInv, Explored

-----------------------------------------------------------------------------
(* The theorems.                                                           *)

\* The inductive invariant of the search: the lists of nfa_search are in order
\* of preference, with no place twice, and what has been marked has been
\* followed; the matches that regex_find_all reports have rising starts.
THEOREM RegexInvariant == Spec => []SearchInv
<1>1. Init => SearchInv
  BY InitHolds, InitExplored DEF SearchInv
<1>2. SearchInv /\ [Next]_vars => SearchInv'
  <2> SUFFICES ASSUME SearchInv, [Next]_vars PROVE SearchInv'
    OBVIOUS
  <2>1. ListInv'
    BY ListsKeep DEF SearchInv
  <2>2. Explored'
    <3>1. CASE Attempt
      BY <3>1, AttemptExplored
    <3>2. CASE Seed
      BY <3>2, SeedExplored
    <3>3. CASE Expand
      BY <3>3, ExpandExplored
    <3>4. CASE Scan
      BY <3>4, ScanExplored
    <3>5. CASE Step \/ Swap
      BY <3>5, StepExplored
    <3>6. CASE NextRegion \/ NoRegion \/ RegionEnd \/ NoMatch \/ Report \/ SeedFails \/ Try
      BY <3>6, RestExplored
    <3>7. CASE Done \/ UNCHANGED vars
      BY <3>7, StutterExplored DEF Done
    <3> QED
      BY <3>1, <3>2, <3>3, <3>4, <3>5, <3>6, <3>7 DEF Next
  <2> QED
    BY <2>1, <2>2 DEF SearchInv
<1> QED
  BY <1>1, <1>2, PTL DEF Spec
\* The state of the search is of its type: in particular no thread starts
\* behind the position of the NFA, and a match ends where it was found.
THEOREM TypeCorrect == Spec => []TypeOK
<1>1. SearchInv => TypeOK
  BY DEF SearchInv, ListInv
<1> QED
  BY <1>1, RegexInvariant, PTL

\* For every program, record and plan: threads from an earlier start are
\* preferred, in the lists of nfa_search and in what add_nfa_thread is still to
\* add to them, and no list has two threads at the same place.
THEOREM PriorityHolds == Spec => []Priority
<1>1. ASSUME SearchInv PROVE Priority
  <2> USE <1>1 DEF SearchInv, ListInv
  <2>1. cur \in Seq(ThreadType) /\ nxt \in Seq(ThreadType) /\ stack \in Seq(ThreadType)
    BY ListTypes
  <2>2. Rising(cur) /\ Rising(nxt) /\ Rising(stack) /\ Apart(cur) /\ Apart(nxt)
    BY DEF ListsInOrder
  <2>3. ASSUME pc = "fill" PROVE Rising(cur \o stack)
    BY <2>1, <2>2, <2>3, ConcatKeeps DEF ListsInOrder
  <2>4. ASSUME pc # "fill" PROVE Rising(nxt \o stack \o cur)
    <3>1. Below(nxt, stack) /\ Below(stack, cur) /\ Below(nxt, cur)
      <4>1. CASE pc = "step"
        BY <4>1 DEF ListsInOrder
      <4>2. CASE pc # "step"
        <5>1. nxt = <<>> /\ stack = <<>>
          BY <2>4, <4>2 DEF Stages
        <5> QED
          BY <5>1, NoThreads DEF Below
      <4> QED
        BY <4>1, <4>2
    <3>2. /\ nxt \o stack \in Seq(ThreadType) /\ Rising(nxt \o stack)
          /\ Threads(nxt \o stack) = Threads(nxt) \union Threads(stack)
      BY <2>1, <2>2, <3>1, ConcatKeeps
    <3>3. Below(nxt \o stack, cur)
      BY <3>1, <3>2 DEF Below
    <3> QED
      BY <2>1, <2>2, <3>2, <3>3, ConcatKeeps
  <2> QED
    BY <2>2, <2>3, <2>4 DEF Priority
<1> QED
  BY <1>1, RegexInvariant, PTL

\* For every program, record and plan: the matches that regex_find_all reports
\* over the regions of a record have rising starts.
THEOREM OrderedHolds == Spec => []Ordered
<1>1. SearchInv => Ordered
  BY DEF SearchInv, ListInv
<1> QED
  BY <1>1, RegexInvariant, PTL

-----------------------------------------------------------------------------
(* What a program accepts.                                                 *)

\* An instruction and a position of the record.
Configs == Addresses \X (0..Len(text))

Reads(a, at) == Code[a].op = "read" /\ at < Len(text) /\ text[at + 1] \in Code[a].arg

\* One step of a run of the program: without a character, or by reading one.
Leads(c, d) ==
  \/ d[2] = c[2] /\ d[1] \in Ahead(c[1], c[2])
  \/ d[2] = c[2] + 1 /\ d[1] = Code[c[1]].x /\ Reads(c[1], c[2])

\* Where the runs from c come to: the least set that has c and every step.
IsClosed(R) == \A c \in R, d \in Configs : Leads(c, d) => d \in R
Reach(c) == {d \in Configs : \A R \in SUBSET Configs : c \in R /\ IsClosed(R) => d \in R}

\* The pattern matches from s to e: a run of its program from there ends so, or
\* the extended matcher says so.
Accepts(s, e) ==
  IF prog.extended THEN EvalEnd(q, text, s) # None /\ e = EvalEnd(q, text, s)
  ELSE \E a \in Addresses : Code[a].op = "match" /\ <<a, e>> \in Reach(<<prog.start, s>>)

\* A pair is one of an instruction and a position.
LEMMA ConfigParts ==
  /\ \A c \in Configs : c[1] \in Addresses /\ c[2] \in 0..Len(text) /\ c = <<c[1], c[2]>>
  /\ \A a \in Addresses, i \in 0..Len(text) : <<a, i>> \in Configs
  /\ \A a, i : <<a, i>>[1] = a /\ <<a, i>>[2] = i
  BY DEF Configs

\* A run is at its beginning.
LEMMA ReachHere ==
  ASSUME NEW c \in Configs
  PROVE  c \in Reach(c) /\ Reach(c) \subseteq Configs
  BY DEF Reach

\* A run goes on.
LEMMA ReachOn ==
  ASSUME NEW c, NEW d \in Reach(c), NEW f \in Configs, Leads(d, f)
  PROVE  f \in Reach(c)
  BY DEF Reach, IsClosed

\* It stays in whatever has its beginning and is closed.
LEMMA ReachLeast ==
  ASSUME NEW R \in SUBSET Configs, NEW c \in R, IsClosed(R)
  PROVE  Reach(c) \subseteq R
  BY DEF Reach

\* A run from where a run has come to is a run.
LEMMA ReachOnward ==
  ASSUME NEW c \in Configs, NEW d \in Reach(c)
  PROVE  Reach(d) \subseteq Reach(c)
<1>1. Reach(c) \in SUBSET Configs
  BY ReachHere
<1>2. IsClosed(Reach(c))
  BY ReachOn DEF IsClosed
<1> QED
  BY <1>1, <1>2, ReachLeast

\* A run is at its beginning or has made its first step.
LEMMA ReachSplits ==
  ASSUME NEW c \in Configs, NEW m \in Reach(c)
  PROVE  m = c \/ \E d \in Configs : Leads(c, d) /\ m \in Reach(d)
<1> DEFINE R == {c} \union {x \in Configs : \E d \in Configs : Leads(c, d) /\ x \in Reach(d)}
<1>1. R \in SUBSET Configs /\ c \in R
  OBVIOUS
<1>2. ASSUME NEW x \in R, NEW f \in Configs, Leads(x, f) PROVE f \in R
  <2>1. CASE x = c
    BY <1>2, <2>1, ReachHere
  <2>2. CASE x # c
    <3>1. PICK d \in Configs : Leads(c, d) /\ x \in Reach(d)
      BY <2>2
    <3>2. f \in Reach(d)
      BY <1>2, <3>1, ReachOn
    <3> QED
      BY <3>1, <3>2
  <2> QED
    BY <2>1, <2>2
<1>3. Reach(c) \subseteq R
  <2> HIDE DEF R
  <2> QED
    BY <1>1, <1>2, ReachLeast DEF IsClosed
<1> QED
  BY <1>3

\* A run does not go back.
LEMMA ReachLater ==
  ASSUME Len(text) \in Nat, NEW c \in Configs, NEW m \in Reach(c)
  PROVE  m \in Configs /\ c[2] <= m[2]
<1> DEFINE R == {x \in Configs : c[2] <= x[2]}
<1>1. \A x \in Configs : x[2] \in Nat
  BY ConfigParts
<1>2. R \in SUBSET Configs /\ c \in R
  BY <1>1
<1>3. ASSUME NEW x \in R, NEW f \in Configs, Leads(x, f) PROVE f \in R
  BY <1>1, <1>3 DEF Leads
<1>4. Reach(c) \subseteq R
  <2> HIDE DEF R
  <2> QED
    BY <1>2, <1>3, ReachLeast DEF IsClosed
<1> QED
  BY <1>4, <1>2

\* The program and the record are the same throughout, and so are its runs.
LEMMA ReachSame ==
  ASSUME prog' = prog, text' = text
  PROVE  /\ \A c : Reach(c)' = Reach(c)
         /\ Configs' = Configs
<1>1. Configs' = Configs /\ Addresses' = Addresses /\ Code' = Code
      /\ \A a, at : Ahead(a, at)' = Ahead(a, at)
  BY AheadSame DEF Configs
<1>2. \A c, d : Leads(c, d)' <=> Leads(c, d)
  BY <1>1 DEF Leads, Reads
<1>3. \A R : IsClosed(R)' <=> IsClosed(R)
  BY <1>1, <1>2 DEF IsClosed
<1> QED
  BY <1>1, <1>3 DEF Reach

\* And so is what is accepted.
LEMMA AcceptsSame ==
  ASSUME prog' = prog, text' = text, q' = q
  PROVE  \A s, e : Accepts(s, e)' <=> Accepts(s, e)
<1>1. /\ \A c : Reach(c)' = Reach(c)
      /\ Addresses' = Addresses /\ Code' = Code
  BY ReachSame, AheadSame
<1> QED
  BY <1>1 DEF Accepts

\* A match accepted from s lies behind s, in the record.
LEMMA AcceptsWithin ==
  ASSUME Inputs, NEW s \in 0..Len(text), NEW e, Accepts(s, e)
  PROVE  e \in s..Len(text)
<1>1. Len(text) \in Nat
  BY DEF Inputs
<1>2. CASE prog.extended
  BY <1>2 DEF Accepts, Inputs, EvalOK
<1>3. CASE ~prog.extended
  <2>1. PICK a \in Addresses : Code[a].op = "match" /\ <<a, e>> \in Reach(<<prog.start, s>>)
    BY <1>3 DEF Accepts
  <2>2. <<prog.start, s>> \in Configs
    BY <1>3 DEF Configs, Inputs, ProgramOK, Addresses, Code
  <2>3. <<a, e>> \in Configs /\ <<prog.start, s>>[2] <= <<a, e>>[2]
    BY <1>1, <2>1, <2>2, ReachLater
  <2>4. e \in 0..Len(text) /\ s <= e
    BY <2>3 DEF Configs
  <2> QED
    BY <1>1, <2>4
<1> QED
  BY <1>2, <1>3

\* What M leads to is in it or in G, and where a thread can wait is in G.
Followed(M, G, at) ==
  \A a \in M : /\ Ahead(a, at) \subseteq M \union G
               /\ Code[a].op \in {"read", "match"} => a \in G

\* What is marked leads to a match only by way of what is in the list or on the
\* stack.
LEMMA MarksLead ==
  ASSUME NEW at \in 0..Len(text), NEW M, M \subseteq Addresses, NEW G, G \subseteq Addresses,
         Followed(M, G, at),
         NEW a \in M, NEW m \in Reach(<<a, at>>), Code[m[1]].op = "match"
  PROVE  \E g \in G : m \in Reach(<<g, at>>)
<1> DEFINE X == {x \in Configs : \E g \in G : x \in Reach(<<g, at>>)}
           R == {<<b, at>> : b \in M} \union X
<1>1. \A b \in Addresses : <<b, at>> \in Configs /\ <<b, at>>[1] = b /\ <<b, at>>[2] = at
  BY DEF Configs
<1>2. R \in SUBSET Configs /\ <<a, at>> \in R
  BY <1>1
<1>0. \A b \in M : /\ Ahead(b, at) \subseteq M \union G
                   /\ Code[b].op \in {"read", "match"} => b \in G
  BY DEF Followed
<1>3. \A g \in G : <<g, at>> \in X
  BY <1>1, ReachHere
<1>4. ASSUME NEW x \in X, NEW f \in Configs, Leads(x, f) PROVE f \in X
  BY <1>4, ReachOn
<1>5. ASSUME NEW b \in M, NEW f \in Configs, Leads(<<b, at>>, f) PROVE f \in R
  <2>1. CASE f[2] = at /\ f[1] \in Ahead(b, at)
    <3>1. f = <<f[1], at>> /\ f[1] \in M \union G
      BY <1>0, <2>1, ConfigParts
    <3> QED
      BY <1>3, <3>1
  <2>2. CASE Reads(b, at)
    <3>1. <<b, at>> \in X
      BY <1>0, <1>3, <2>2 DEF Reads
    <3> QED
      BY <1>4, <1>5, <3>1
  <2> QED
    BY <1>1, <1>5, <2>1, <2>2 DEF Leads
<1>6. IsClosed(R)
  BY <1>4, <1>5 DEF IsClosed
<1>7. m \in R
  <2> HIDE DEF R
  <2> QED
    BY <1>2, <1>6, ReachLeast
<1>8. CASE m \in X
  BY <1>8
<1>9. CASE m \notin X
  <2>1. PICK b \in M : m = <<b, at>>
    BY <1>7, <1>9
  <2>2. b \in G
    BY <1>0, <1>1, <2>1
  <2> QED
    BY <1>3, <2>1, <2>2
<1> QED
  BY <1>8, <1>9

-----------------------------------------------------------------------------
(* What is reported is accepted.                                           *)

\* Where the threads are that are not in the current list.
Height == IF pc = "step" THEN pos + 1 ELSE pos

\* Where a run from s begins.
Start(s) == <<prog.start, s>>

\* Every thread is where a run from its start comes to.
ThreadsRun ==
  pc \in {"seed", "fill", "step"} =>
    /\ \A th \in Threads(cur) : <<th.pc, pos>> \in Reach(Start(th.start))
    /\ \A th \in Threads(nxt) \union Threads(stack) : <<th.pc, Height>> \in Reach(Start(th.start))

\* The match that nfa_search holds is accepted.
BestAccepted == InAttempt /\ best # None => Accepts(best.start, best.end)

\* What regex_find_all has reported is accepted.
OutAccepted == \A k \in DOMAIN out : Accepts(out[k].start, out[k].end)

\* What nfa_search knows is true of the program.
Sound == ThreadsRun /\ BestAccepted /\ OutAccepted

\* The NFA's positions are in the record and its start in the program.
LEMMA Positions ==
  ASSUME ListInv, pc \in {"seed", "fill", "step"}
  PROVE  /\ ~prog.extended /\ prog.start \in Addresses /\ todo # <<>>
         /\ Len(text) \in Nat /\ pos \in 0..Len(text) /\ Height \in 0..Len(text)
         /\ Region.end \in 0..Len(text) /\ Region.ce \in 1..(Len(text) + 1)
         /\ from \in Nat /\ from <= pos
         /\ pc = "step" => pos < Region.end
         /\ \A th \in Known : th.start \in 0..pos /\ th.pc \in Addresses
         /\ \A s \in 0..Len(text) : Start(s) \in Configs /\ Start(s) \in Reach(Start(s))
<1>1. ~prog.extended /\ todo # <<>> /\ (pc = "step" => pos < Region.end)
  BY DEF ListInv, Stages
<1>2. prog.start \in Addresses
  BY <1>1 DEF ListInv, Inputs, ProgramOK, Addresses, Code
<1>3. /\ Len(text) \in Nat /\ pos \in 0..Len(text) /\ from \in Nat /\ from <= pos
  BY DEF ListInv, Inputs, TypeOK, Within, InAttempt
<1>4. Region.end \in 0..Len(text) /\ Region.ce \in 1..(Len(text) + 1)
  BY <1>1, HeadRegion DEF ListInv, Inputs, Region
<1>5. Height \in 0..Len(text)
  BY <1>1, <1>3, <1>4 DEF Height
<1>6. \A th \in Known : th.start \in 0..pos /\ th.pc \in Addresses
  BY ListTypes DEF ListInv, ThreadType
<1>7. \A s \in 0..Len(text) : Start(s) \in Configs /\ Start(s) \in Reach(Start(s))
  BY <1>2, ReachHere DEF Start, Configs
<1> QED
  BY <1>1, <1>2, <1>3, <1>4, <1>5, <1>6, <1>7

\* The first thread of an attempt is where its runs begin.
LEMMA SeedSound == ListInv /\ Sound /\ Seed => ThreadsRun'
<1> SUFFICES ASSUME ListInv, Sound, Seed PROVE ThreadsRun'
  OBVIOUS
<1>1. PICK s \in Landing :
        /\ pos' = s
        /\ stack' = IF s < Region.ce THEN <<Thread(prog.start, s)>> ELSE <<>>
  BY DEF Seed
<1>2. /\ pc = "seed" /\ pc' = "fill" /\ prog' = prog /\ text' = text /\ cur' = cur /\ nxt' = nxt
  BY DEF Seed
<1>3. s \in 0..Len(text) /\ (Threads(cur) # {} => s = pos)
  <2>1. pos \in 0..Len(text) /\ Len(text) \in Nat
    BY <1>2, Positions
  <2>2. Threads(cur) # {} => cur # <<>>
    BY NoThreads
  <2> QED
    BY <1>1, <2>1, <2>2 DEF Landing, PrefixesFrom, Idle
<1>4. \A c : Reach(c)' = Reach(c)
  BY <1>2, ReachSame
<1>5. /\ Threads(nxt)' = {} /\ Threads(cur)' = Threads(cur) /\ Height' = s
      /\ Threads(stack)' \subseteq {Thread(prog.start, s)}
  <2>1. Threads(<<>>) = {} /\ Threads(<<Thread(prog.start, s)>>) = {Thread(prog.start, s)}
    BY DEF Threads
  <2>2. nxt = <<>>
    BY <1>2 DEF ListInv, Stages
  <2>3. Threads(stack') \subseteq {Thread(prog.start, s)}
    BY <1>1, <2>1
  <2> QED
    BY <1>1, <1>2, <2>1, <2>2, <2>3 DEF Threads, Height
<1>6. Start(s) \in Reach(Start(s))
  BY <1>2, <1>3, Positions
<1>7. \A th \in Threads(cur) : <<th.pc, s>> \in Reach(Start(th.start))
  BY <1>2, <1>3 DEF Sound, ThreadsRun
<1> QED
  BY <1>1, <1>2, <1>4, <1>5, <1>6, <1>7 DEF ThreadsRun, Start, Thread

\* A thread is driven on along the program.
LEMMA ExpandSound == ListInv /\ Sound /\ Expand => ThreadsRun'
<1> SUFFICES ASSUME ListInv, Sound, Expand PROVE ThreadsRun'
  OBVIOUS
<1> DEFINE th    == Head(stack)
           marks == IF pc = "fill" THEN seen ELSE nseen
           list  == IF pc = "fill" THEN cur ELSE nxt
           at    == IF pc = "fill" THEN pos ELSE pos + 1
           more  == IF th.pc \notin marks THEN Onward(th, at) ELSE <<>>
           grown == Grown(list, marks, th)
<1>1. /\ pc \in {"fill", "step"} /\ stack # <<>> /\ ~prog.extended
      /\ th \in ThreadType
      /\ more \in Seq(ThreadType) /\ stack' = more \o Tail(stack)
      /\ th.pc \notin marks => Threads(more) = {Thread(d, th.start) : d \in Ahead(th.pc, at)}
      /\ th.pc \in marks => Threads(more) = {}
      /\ Threads(grown) = Threads(list) \union (IF th.pc \notin marks /\ Settles(th) THEN {th} ELSE {})
      /\ pc = "fill" => cur' = grown /\ nxt' = nxt
      /\ pc = "step" => nxt' = grown /\ cur' = cur
      /\ prog' = prog /\ text' = text /\ pc' = pc /\ pos' = pos
  BY ExpandDoes
<1>2. at = Height /\ at \in 0..Len(text)
  BY <1>1, Positions DEF Height
<1> HIDE DEF grown, more, list, marks, at
<1>3. /\ Threads(stack') = Threads(more) \union Threads(Tail(stack))
      /\ Threads(stack) = {th} \union Threads(Tail(stack))
  BY <1>1, Stacked
<1>4. \A c : Reach(c)' = Reach(c)
  BY <1>1, ReachSame
<1>5. /\ \A x \in Threads(cur) : <<x.pc, pos>> \in Reach(Start(x.start))
      /\ \A x \in Threads(nxt) \union Threads(stack) : <<x.pc, at>> \in Reach(Start(x.start))
  BY <1>1, <1>2 DEF Sound, ThreadsRun
<1> HIDE DEF th
<1>6. ASSUME NEW x \in Threads(more) PROVE <<x.pc, at>> \in Reach(Start(x.start))
  <2>1. PICK d \in Ahead(th.pc, at) : x = Thread(d, th.start)
    BY <1>1, <1>6
  <2>2. th.pc \in Addresses /\ d \in Addresses /\ x.pc = d /\ x.start = th.start
    BY <1>1, <2>1, AheadStays DEF ThreadType, ListInv, Thread
  <2>3. Leads(<<th.pc, at>>, <<d, at>>)
    BY <2>1 DEF Leads
  <2>4. <<th.pc, at>> \in Reach(Start(th.start)) /\ <<d, at>> \in Configs
    BY <1>2, <1>3, <1>5, <2>2 DEF Configs
  <2>5. <<d, at>> \in Reach(Start(th.start))
    BY <2>3, <2>4, ReachOn
  <2> QED
    BY <2>2, <2>5
<1>7. \A x \in Threads(stack') : <<x.pc, at>> \in Reach(Start(x.start))
  BY <1>3, <1>5, <1>6
<1>8. \A x \in Threads(grown) : x \in Threads(list) \/ x \in Threads(stack)
  BY <1>1, <1>3
<1>9. /\ Threads(stack)' = Threads(stack') /\ Threads(cur)' = Threads(cur') /\ Threads(nxt)' = Threads(nxt')
      /\ Height' = at /\ \A s : Start(s)' = Start(s)
  BY <1>1, <1>2 DEF Threads, Height, Start
<1>10. CASE pc = "fill"
  <2>1. list = cur /\ at = pos
    BY <1>10, <1>2 DEF list, at
  <2>2. \A x \in Threads(cur') : <<x.pc, pos>> \in Reach(Start(x.start))
    BY <1>1, <1>5, <1>8, <1>10, <2>1
  <2> QED
    BY <1>1, <1>4, <1>5, <1>7, <1>9, <1>10, <2>1, <2>2 DEF ThreadsRun
<1>11. CASE pc = "step"
  <2>1. list = nxt
    BY <1>11 DEF list
  <2>2. \A x \in Threads(nxt') : <<x.pc, at>> \in Reach(Start(x.start))
    BY <1>1, <1>5, <1>8, <1>11, <2>1
  <2> QED
    BY <1>1, <1>4, <1>5, <1>7, <1>9, <1>11, <2>1, <2>2 DEF ThreadsRun
<1> QED
  BY <1>1, <1>10, <1>11

\* A thread that has arrived is where a match ends.
LEMMA ScanSound == ListInv /\ Sound /\ Scan => ThreadsRun' /\ BestAccepted'
<1> SUFFICES ASSUME ListInv, Sound, Scan PROVE ThreadsRun' /\ BestAccepted'
  OBVIOUS
<1>1. /\ pc = "fill" /\ stack = <<>> /\ stack' = stack /\ pc' \in {"report", "step"}
      /\ nxt' = <<>> /\ q' = q /\ prog' = prog /\ text' = text /\ pos' = pos
  BY DEF Scan
<1>2. (\A c : Reach(c)' = Reach(c)) /\ (\A s, e : Accepts(s, e)' <=> Accepts(s, e))
  BY <1>1, ReachSame, AcceptsSame
<1>3. Threads(cur)' = Threads(cur') /\ Threads(nxt)' = {} /\ Threads(stack)' = {} /\ \A s : Start(s)' = Start(s)
  BY <1>1 DEF Threads, Start
<1>4. \A th \in Threads(cur) : <<th.pc, pos>> \in Reach(Start(th.start))
  BY <1>1 DEF Sound, ThreadsRun
<1>5. ThreadsRun'
  <2>1. Threads(cur') \subseteq Threads(cur)
    BY ScanDoes
  <2> QED
    BY <1>1, <1>2, <1>3, <1>4, <2>1 DEF ThreadsRun
<1>6. BestAccepted'
  <2>1. CASE best' = best
    BY <1>1, <1>2, <2>1 DEF Sound, BestAccepted, InAttempt
  <2>2. CASE \E y \in Threads(cur) : Code[y.pc].op = "match" /\ best' = [start |-> y.start, end |-> pos]
    <3>1. PICK y \in Threads(cur) : Code[y.pc].op = "match" /\ best' = [start |-> y.start, end |-> pos]
      BY <2>2
    <3>2. y.pc \in Addresses /\ ~prog.extended
      BY <1>1, Positions DEF Known
    <3>3. Accepts(y.start, pos)
      BY <1>4, <3>1, <3>2 DEF Accepts, Start
    <3>4. best'.start = y.start /\ best'.end = pos
      BY <3>1
    <3> QED
      BY <1>2, <3>3, <3>4 DEF BestAccepted
  <2> QED
    BY <2>1, <2>2, ScanDoes
<1> QED
  BY <1>5, <1>6

\* A thread that reads goes one position on, and so does the list.
LEMMA StepSound == ListInv /\ Explored /\ Sound /\ (Step \/ Swap) => ThreadsRun'
<1> SUFFICES ASSUME ListInv, Explored, Sound, Step \/ Swap PROVE ThreadsRun'
  OBVIOUS
<1>1. /\ pc = "step" /\ stack = <<>> /\ prog' = prog /\ text' = text
  BY DEF Step, Swap
<1>2. (\A c : Reach(c)' = Reach(c)) /\ \A s : Start(s)' = Start(s)
  BY <1>1, ReachSame DEF Start
<1>3. /\ \A th \in Threads(cur) : <<th.pc, pos>> \in Reach(Start(th.start))
      /\ \A th \in Threads(nxt) : <<th.pc, pos + 1>> \in Reach(Start(th.start))
      /\ Len(text) \in Nat /\ pos \in 0..Len(text) /\ pos + 1 \in 0..Len(text)
  BY <1>1, Positions DEF Sound, ThreadsRun, Height
<1>4. CASE Step
  <2> DEFINE h == Head(cur)
             X == Thread(Code[h.pc].x, h.start)
  <2>1. /\ cur # <<>> /\ cur' = Tail(cur) /\ nxt' = nxt /\ pos' = pos /\ pc' = "step"
        /\ stack' = (IF text[pos + 1] \in Code[h.pc].arg THEN <<X>> ELSE <<>>)
    BY <1>1, <1>4 DEF Step
  <2>2. h \in ThreadType /\ Threads(cur) = {h} \union Threads(cur')
    BY <2>1, ListTypes, HeadAndTail DEF ListInv
  <2>3. h.pc \in Addresses /\ Code[h.pc].op = "read" /\ X.pc = Code[h.pc].x /\ X.start = h.start
    <3>1. Settles(h) /\ Code[h.pc].op # "match"
      BY <1>1, <2>2 DEF ListInv, Explored, Stages
    <3> QED
      BY <2>2, <3>1 DEF ThreadType, Settles, Thread
  <2> HIDE DEF h, X
  <2>4. ASSUME text[pos + 1] \in Code[h.pc].arg PROVE <<X.pc, pos + 1>> \in Reach(Start(X.start))
    <3>1. X.pc \in Addresses
      BY <1>1, <2>3, AheadStays, Positions DEF ListInv
    <3>2. Leads(<<h.pc, pos>>, <<X.pc, pos + 1>>)
      BY <1>3, <2>3, <2>4 DEF Leads, Reads
    <3>3. <<X.pc, pos + 1>> \in Configs
      BY <1>3, <3>1 DEF Configs
    <3>4. <<h.pc, pos>> \in Reach(Start(h.start))
      BY <1>3, <2>2
    <3>5. <<X.pc, pos + 1>> \in Reach(Start(h.start))
      BY <3>2, <3>3, <3>4, ReachOn
    <3> QED
      BY <2>3, <3>5
  <2>5. \A x \in Threads(stack') : <<x.pc, pos + 1>> \in Reach(Start(x.start))
    <3>1. Threads(<<>>) = {} /\ Threads(<<X>>) = {X}
      BY DEF Threads
    <3> QED
      BY <2>1, <2>4, <3>1
  <2>6. /\ Threads(stack)' = Threads(stack') /\ Threads(cur)' = Threads(cur') /\ Threads(nxt)' = Threads(nxt)
        /\ Height' = pos + 1
    BY <2>1 DEF Threads, Height
  <2> QED
    BY <1>2, <1>3, <2>1, <2>2, <2>5, <2>6 DEF ThreadsRun
<1>5. CASE Swap
  <2>1. stack' = <<>> /\ cur' = nxt /\ nxt' = <<>> /\ pos' = pos + 1
    BY <1>1, <1>5 DEF Swap
  <2>2. Threads(stack)' = {} /\ Threads(cur)' = Threads(nxt) /\ Threads(nxt)' = {}
    BY <2>1 DEF Threads
  <2> QED
    BY <1>2, <1>3, <2>1, <2>2 DEF ThreadsRun
<1> QED
  BY <1>4, <1>5

\* The matches reported before stay accepted.
LEMMA OutSound ==
  ASSUME Sound, prog' = prog, text' = text, q' = q, out' = out
  PROVE  OutAccepted'
  BY AcceptsSame DEF Sound, OutAccepted

\* Elsewhere there are no threads, and the best match is the one that was, or
\* what the extended matcher found.
LEMMA RestSound ==
  SearchInv /\ Sound /\
    (NextRegion \/ NoRegion \/ RegionEnd \/ NoMatch \/ Report \/ SeedFails \/ Try \/ Attempt) => Sound'
<1> SUFFICES ASSUME SearchInv, Sound,
                    NextRegion \/ NoRegion \/ RegionEnd \/ NoMatch \/ Report \/ SeedFails \/ Try \/ Attempt
             PROVE  Sound'
  OBVIOUS
<1>1. CASE NextRegion \/ NoRegion \/ RegionEnd \/ NoMatch \/ SeedFails
  <2>1. /\ prog' = prog /\ text' = text /\ q' = q /\ out' = out /\ best' = best
        /\ pc' \notin {"seed", "fill", "step"} /\ (InAttempt' => InAttempt)
    <3>1. CASE NextRegion
      BY <3>1 DEF NextRegion, nfa, InAttempt
    <3>2. CASE NoRegion
      BY <3>2 DEF NoRegion, nfa, InAttempt
    <3>3. CASE RegionEnd \/ NoMatch
      BY <3>3 DEF RegionEnd, NoMatch, LeaveRegion, nfa, InAttempt
    <3>4. CASE SeedFails
      BY <3>4 DEF SeedFails, nfa, InAttempt
    <3> QED
      BY <1>1, <3>1, <3>2, <3>3, <3>4
  <2>2. BestAccepted'
    BY <2>1, AcceptsSame DEF Sound, BestAccepted
  <2> QED
    BY <2>1, <2>2, OutSound DEF Sound, ThreadsRun
<1>2. CASE Report
  <2>1. /\ prog' = prog /\ text' = text /\ q' = q /\ out' = Append(out, best)
        /\ pc = "report" /\ best # None /\ pc' = "attempt"
    BY <1>2 DEF Report, nfa
  <2>2. Accepts(best.start, best.end)
    BY <2>1 DEF Sound, BestAccepted, InAttempt
  <2>3. \A k \in DOMAIN out' : out'[k] = best \/ (k \in DOMAIN out /\ out'[k] = out[k])
    <3> DEFINE M == [start : Nat, end : Nat]
    <3>1. out \in Seq(M)
      BY DEF SearchInv, ListInv, TypeOK
    <3> HIDE DEF M
    <3> QED
      BY <2>1, <3>1
  <2>4. \A k \in DOMAIN out : Accepts(out[k].start, out[k].end)
    BY DEF Sound, OutAccepted
  <2>5. \A s, e : Accepts(s, e)' <=> Accepts(s, e)
    BY <2>1, AcceptsSame
  <2>6. OutAccepted'
    BY <2>2, <2>3, <2>4, <2>5 DEF OutAccepted
  <2> QED
    BY <2>1, <2>6 DEF Sound, ThreadsRun, BestAccepted, InAttempt
<1>3. CASE Try
  <2> DEFINE end == EvalEnd(q, text, pos)
  <2>1. /\ prog' = prog /\ text' = text /\ q' = q /\ out' = out
        /\ pc = "try" /\ pc' \in {"try", "report"}
        /\ best' = (IF end = None THEN None ELSE [start |-> pos, end |-> end])
    BY <1>3 DEF Try
  <2>2. prog.extended
    BY <2>1 DEF SearchInv, ListInv, Stages
  <2>3. ASSUME best' # None PROVE Accepts(best'.start, best'.end)
    <3>1. best'.start = pos /\ best'.end = end /\ end # None
      BY <2>1, <2>3
    <3> QED
      BY <2>2, <3>1 DEF Accepts
  <2>4. BestAccepted'
    BY <2>1, <2>3, AcceptsSame DEF BestAccepted
  <2> QED
    BY <2>1, <2>4, OutSound DEF Sound, ThreadsRun
<1>4. CASE Attempt
  <2>1. /\ prog' = prog /\ text' = text /\ q' = q /\ out' = out
        /\ cur' = <<>> /\ nxt' = <<>> /\ stack' = <<>> /\ best' = None
    BY <1>4 DEF Attempt
  <2>2. Threads(cur)' = {} /\ Threads(nxt)' = {} /\ Threads(stack)' = {}
    BY <2>1 DEF Threads
  <2> QED
    BY <2>1, <2>2, OutSound DEF Sound, ThreadsRun, BestAccepted
<1> QED
  BY <1>1, <1>2, <1>3, <1>4

\* Whatever is done keeps to the program.
LEMMA SoundKeeps == SearchInv /\ Sound /\ [Next]_vars => Sound'
<1> SUFFICES ASSUME SearchInv, Sound, [Next]_vars PROVE Sound'
  OBVIOUS
<1>0. ListInv /\ Explored
  BY DEF SearchInv
<1>1. CASE Seed
  <2>1. prog' = prog /\ text' = text /\ q' = q /\ out' = out /\ best' = best /\ pc = "seed"
    BY <1>1 DEF Seed
  <2> QED
    BY <1>0, <1>1, <2>1, SeedSound, OutSound, AcceptsSame DEF Sound, BestAccepted, InAttempt
<1>2. CASE Expand
  <2>1. prog' = prog /\ text' = text /\ q' = q /\ out' = out /\ best' = best /\ pc \in {"fill", "step"}
    BY <1>0, <1>2, ExpandDoes
  <2> QED
    BY <1>0, <1>2, <2>1, ExpandSound, OutSound, AcceptsSame DEF Sound, BestAccepted, InAttempt
<1>3. CASE Scan
  <2>1. prog' = prog /\ text' = text /\ q' = q /\ out' = out
    BY <1>3 DEF Scan
  <2> QED
    BY <1>0, <1>3, <2>1, ScanSound, OutSound DEF Sound
<1>4. CASE Step \/ Swap
  <2>1. prog' = prog /\ text' = text /\ q' = q /\ out' = out /\ best' = best /\ pc = "step"
    BY <1>4 DEF Step, Swap
  <2> QED
    BY <1>0, <1>4, <2>1, StepSound, OutSound, AcceptsSame DEF Sound, BestAccepted, InAttempt
<1>5. CASE NextRegion \/ NoRegion \/ RegionEnd \/ NoMatch \/ Report \/ SeedFails \/ Try \/ Attempt
  BY <1>5, RestSound
<1>6. CASE Done \/ UNCHANGED vars
  <2>1. /\ prog' = prog /\ text' = text /\ q' = q /\ out' = out /\ best' = best /\ pc' = pc
        /\ pos' = pos /\ cur' = cur /\ nxt' = nxt /\ stack' = stack
    BY <1>6 DEF Done, vars, nfa
  <2>2. /\ Threads(cur)' = Threads(cur) /\ Threads(nxt)' = Threads(nxt) /\ Threads(stack)' = Threads(stack)
        /\ Height' = Height /\ \A s : Start(s)' = Start(s)
    BY <2>1 DEF Threads, Height, Start
  <2>3. ThreadsRun'
    BY <2>1, <2>2, ReachSame DEF Sound, ThreadsRun
  <2> QED
    BY <2>1, <2>3, OutSound, AcceptsSame DEF Sound, BestAccepted, InAttempt
<1> QED
  BY <1>1, <1>2, <1>3, <1>4, <1>5, <1>6 DEF Next

\* The search begins with nothing found.
LEMMA InitSound == Init => Sound
<1> SUFFICES ASSUME Init PROVE Sound
  OBVIOUS
<1>1. pc = "region" /\ DOMAIN out = {}
  BY DEF Init
<1> QED
  BY <1>1 DEF Sound, ThreadsRun, BestAccepted, OutAccepted, InAttempt

\* For every program, record and plan: what regex_find_all reports is a match,
\* that is, a run of the program from the reported start comes to its match
\* instruction at the reported end.
THEOREM ReportedAccepted == Spec => []OutAccepted
<1>1. SearchInv /\ Sound /\ [Next]_vars => Sound'
  BY SoundKeeps
<1>2. Sound => OutAccepted
  BY DEF Sound
<1> QED
  BY <1>1, <1>2, InitSound, RegexInvariant, PTL DEF Spec

-----------------------------------------------------------------------------
(* What is passed over.                                                    *)

\* An attempt may begin at p: one of the prefixes stands there.
Offers(p) == prog.prefixes # {} => p \in PrefixesFrom(p)

\* A match that ends where the region may be read to.
Final(m) == Code[m[1]].op = "match" /\ m[2] <= Region.end

\* A thread with a start no later than p can still come to it.
Carried(p, m) ==
  \/ \E th \in Threads(cur) : th.start <= p /\ m \in Reach(<<th.pc, pos>>)
  \/ \E th \in Threads(nxt) \union Threads(stack) : th.start <= p /\ m \in Reach(<<th.pc, Height>>)

\* No match from p is out of the threads' reach.
Covered(p) == \A m \in Reach(Start(p)) : Final(m) => Carried(p, m)

\* A match from p or before was found when the threads behind it were given up:
\* what is left began before it or behind its end.
Overtaken(p) ==
  /\ best # None
  /\ \E s \in from..p : \E e \in s..pos :
       /\ Accepts(s, e)
       /\ best.start <= p \/ e <= best.start
       /\ \A th \in Known : th.start <= p \/ e <= th.start

\* The starts that have been added.
Taken(p) == p \in from..pos /\ p < Region.ce /\ Offers(p) /\ (p = pos => pc # "seed")

\* A start that has been added is covered, or a match was preferred to it.
NoneForgotten ==
  pc \in {"seed", "fill", "step"} => \A p \in Nat : Taken(p) => Covered(p) \/ Overtaken(p)

\* The starts that the extended matcher has tried.
TriedInVain == pc = "try" => \A p \in from..(pos - 1) : EvalEnd(q, text, p) = None

\* An attempt passes over a match that the program accepts from p, in what it
\* may read, only for a match that begins at p or before and ends before what it
\* reports; the extended matcher passes over none.
PassesNothing ==
  pc = "report" =>
    \A p \in from..(Region.ce - 1), e \in Nat :
      /\ Offers(p) /\ Accepts(p, e) /\ (prog.extended \/ e <= Region.end)
      /\ best # None => p < best.start
      => /\ best # None /\ ~prog.extended
         /\ \E s \in from..p : \E f \in s..best.start : Accepts(s, f)

\* What these speak of does not change during an attempt.
LEMMA TermsSame ==
  ASSUME prog' = prog, text' = text, q' = q, todo' = todo
  PROVE  /\ \A c : Reach(c)' = Reach(c)
         /\ \A s, e : Accepts(s, e)' <=> Accepts(s, e)
         /\ \A p : Offers(p)' <=> Offers(p)
         /\ \A m : Final(m)' <=> Final(m)
         /\ \A s : Start(s)' = Start(s)
         /\ Region' = Region
         /\ Threads(cur)' = Threads(cur') /\ Threads(nxt)' = Threads(nxt') /\ Threads(stack)' = Threads(stack')
         /\ Known' = Threads(cur') \union Threads(nxt') \union Threads(stack')
<1>1. Code' = Code
  BY DEF Code
<1>2. /\ Threads(cur)' = Threads(cur') /\ Threads(nxt)' = Threads(nxt') /\ Threads(stack)' = Threads(stack')
      /\ Known' = Threads(cur') \union Threads(nxt') \union Threads(stack')
  BY DEF Threads, Known
<1>3. Region' = Region /\ \A s : Start(s)' = Start(s)
  BY DEF Region, Start
<1>4. \A p : Offers(p)' <=> Offers(p)
  BY DEF Offers, PrefixesFrom
<1>5. \A m : Final(m)' <=> Final(m)
  BY <1>1, <1>3 DEF Final
<1> QED
  BY <1>2, <1>3, <1>4, <1>5, ReachSame, AcceptsSame

\* A start that is passed over on the way to a prefix has none; the one that is
\* reached is taken with a thread of its own.
LEMMA SeedForgets == SearchInv /\ NoneForgotten /\ Seed => NoneForgotten'
<1> SUFFICES ASSUME SearchInv, NoneForgotten, Seed PROVE NoneForgotten'
  OBVIOUS
<1>1. PICK s \in Landing :
        /\ pos' = s
        /\ stack' = IF s < Region.ce THEN <<Thread(prog.start, s)>> ELSE <<>>
  BY DEF Seed
<1>2. /\ pc = "seed" /\ pc' = "fill" /\ prog' = prog /\ text' = text /\ q' = q /\ todo' = todo
      /\ cur' = cur /\ nxt' = nxt /\ best' = best /\ from' = from
  BY DEF Seed
<1>3. ListInv
  BY DEF SearchInv
<1>4. /\ Len(text) \in Nat /\ pos \in 0..Len(text) /\ from \in Nat /\ from <= pos
      /\ Region.ce \in 1..(Len(text) + 1)
  BY <1>2, <1>3, Positions
<1>5. /\ s \in 0..Len(text) /\ pos <= s
      /\ cur # <<>> \/ best # None => s = pos
      /\ s # pos => prog.prefixes # {} /\ \A r \in PrefixesFrom(pos) : s <= r
  BY <1>1, <1>4 DEF Landing, PrefixesFrom, Idle
<1>6. nxt = <<>> /\ stack = <<>>
  BY <1>2, <1>3 DEF ListInv, Stages
<1>7. /\ Threads(nxt) = {} /\ Threads(stack) = {} /\ Threads(nxt') = {}
      /\ s < Region.ce => Threads(stack') = {Thread(prog.start, s)}
      /\ Threads(stack') \subseteq {Thread(prog.start, s)}
      /\ Threads(cur) # {} => cur # <<>>
  <2>1. Threads(<<>>) = {} /\ Threads(<<Thread(prog.start, s)>>) = {Thread(prog.start, s)}
    BY DEF Threads
  <2> QED
    BY <1>1, <1>2, <1>6, <2>1
<1>8. /\ \A c : Reach(c)' = Reach(c)
      /\ \A x, e : Accepts(x, e)' <=> Accepts(x, e)
      /\ \A p : Offers(p)' <=> Offers(p)
      /\ \A m : Final(m)' <=> Final(m)
      /\ \A x : Start(x)' = Start(x)
      /\ Region' = Region
      /\ Threads(cur)' = Threads(cur') /\ Threads(nxt)' = Threads(nxt') /\ Threads(stack)' = Threads(stack')
      /\ Known' = Threads(cur') \union Threads(nxt') \union Threads(stack')
  BY <1>2, TermsSame
<1>9. Height' = s /\ Thread(prog.start, s).start = s /\ Thread(prog.start, s).pc = prog.start
  BY <1>1, <1>2 DEF Height, Thread
<1> SUFFICES ASSUME NEW p \in Nat, Taken(p)' PROVE Covered(p)' \/ Overtaken(p)'
  BY DEF NoneForgotten
<1>10. p \in from..s /\ p < Region.ce /\ Offers(p)
  BY <1>1, <1>2, <1>8 DEF Taken
<1>11. CASE p = s
  <2>1. Thread(prog.start, s) \in Threads(stack')
    BY <1>7, <1>10, <1>11
  <2>2. ASSUME NEW m \in Reach(Start(p)) PROVE Carried(p, m)'
    <3>1. m \in Reach(<<prog.start, s>>) /\ s <= p
      BY <1>11, <2>2, <1>5 DEF Start
    <3> QED
      BY <1>8, <1>9, <2>1, <3>1 DEF Carried
  <2> QED
    BY <1>8, <2>2 DEF Covered
<1>12. CASE pos <= p /\ p # s
  <2>1. p < s /\ s # pos
    BY <1>4, <1>5, <1>10, <1>12
  <2>2. p \in PrefixesFrom(pos)
    BY <1>4, <1>5, <1>10, <1>12, <2>1 DEF Offers, PrefixesFrom
  <2> QED
    BY <1>5, <2>1, <2>2
<1>13. CASE p < pos
  <2>1. Taken(p)
    BY <1>2, <1>4, <1>10, <1>13 DEF Taken
  <2>2. CASE Overtaken(p)
    <3>0. PICK x \in from..p : \E e \in x..pos :
            /\ Accepts(x, e) /\ (best.start <= p \/ e <= best.start)
            /\ \A th \in Known : th.start <= p \/ e <= th.start
      BY <2>2 DEF Overtaken
    <3>1. PICK e \in x..pos :
            /\ Accepts(x, e) /\ (best.start <= p \/ e <= best.start)
            /\ \A th \in Known : th.start <= p \/ e <= th.start
      BY <3>0
    <3>2. best # None /\ s = pos
      BY <1>5, <2>2 DEF Overtaken
    <3>3. e <= s
      BY <3>1, <3>2, <1>4
    <3>4. \A th \in Known' : th.start <= p \/ e <= th.start
      BY <1>2, <1>7, <1>8, <1>9, <3>1, <3>3 DEF Known
    <3> QED
      BY <1>1, <1>2, <1>8, <3>1, <3>2, <3>4 DEF Overtaken
  <2>3. CASE Covered(p)
    <3>1. ASSUME NEW m \in Reach(Start(p)), Final(m) PROVE Carried(p, m)'
      <4>1. PICK th \in Threads(cur) : th.start <= p /\ m \in Reach(<<th.pc, pos>>)
        BY <1>7, <2>3, <3>1 DEF Covered, Carried
      <4>2. s = pos
        BY <1>5, <1>7
      <4> QED
        BY <1>1, <1>2, <1>8, <4>1, <4>2 DEF Carried
    <3> QED
      BY <1>8, <3>1 DEF Covered
  <2> QED
    BY <1>2, <2>1, <2>2, <2>3 DEF NoneForgotten
<1> QED
  BY <1>4, <1>10, <1>11, <1>12, <1>13

\* A thread that is dropped at a mark leaves its matches to those in the list
\* and on the stack, and none of them began later.
LEMMA DroppedCarried ==
  ASSUME SearchInv, pc \in {"fill", "step"}, stack # <<>>,
         NEW marks, marks = (IF pc = "fill" THEN seen ELSE nseen),
         NEW list, list = (IF pc = "fill" THEN cur ELSE nxt),
         Head(stack).pc \in marks,
         NEW m \in Reach(<<Head(stack).pc, Height>>), Code[m[1]].op = "match"
  PROVE  \E x \in Threads(list) \union Threads(Tail(stack)) :
           x.start <= Head(stack).start /\ m \in Reach(<<x.pc, Height>>)
<1> DEFINE th == Head(stack)
<1>1. ListInv /\ Explored
  BY DEF SearchInv
<1>2. stack \in Seq(ThreadType) /\ cur \in Seq(ThreadType) /\ nxt \in Seq(ThreadType)
  BY <1>1, ListTypes DEF ListInv
<1>3. /\ th \in ThreadType /\ Threads(stack) = {th} \union Threads(Tail(stack))
  BY <1>2, HeadAndTail
<1> HIDE DEF th
<1>4. Occupied(stack) = {th.pc} \union Occupied(Tail(stack))
  BY <1>3 DEF Occupied
<1>5. Height \in 0..Len(text) /\ \A x \in Known : x.pc \in Addresses /\ x.start \in Nat
  BY <1>1, Positions
<1>6. \A x \in Threads(list) \union Threads(stack) : x \in Known
  BY DEF Known
<1>7. \A x \in Threads(list) \union Threads(Tail(stack)) : x.start <= th.start
  <2>1. ASSUME NEW x \in Threads(list) PROVE x.start <= th.start
    BY <1>1, <1>3 DEF ListInv, ListsInOrder, Below
  <2>2. ASSUME NEW x \in Threads(Tail(stack)) PROVE x.start <= th.start
    <3>1. x.start = th.start /\ x.start \in Nat
      BY <1>1, <1>3, <1>5, <1>6 DEF Explored
    <3> QED
      BY <3>1
  <2> QED
    BY <2>1, <2>2
<1>8. \E M \in SUBSET Addresses : ClosedUp(M, list, Height) /\ th.pc \in M
  <2>1. seen \subseteq Addresses /\ nseen \subseteq Addresses
    BY <1>1 DEF ListInv, TypeOK
  <2>2. CASE pc = "step"
    BY <1>1, <2>1, <2>2 DEF Explored, Height, th
  <2>3. CASE pc = "fill" /\ ClosedUp(seen, cur, pos)
    BY <2>1, <2>3 DEF Height, th
  <2>4. CASE /\ pc = "fill" /\ Occupied(stack) \subseteq Entry
             /\ ClosedUp(seen \intersect Entry, cur, pos)
    <3>1. th.pc \in seen \intersect Entry
      BY <1>4, <2>4 DEF th
    <3> QED
      BY <2>1, <2>4, <3>1 DEF Height
  <2> QED
    BY <1>1, <2>2, <2>3, <2>4 DEF Explored
<1>9. PICK M \in SUBSET Addresses : ClosedUp(M, list, Height) /\ th.pc \in M
  BY <1>8
<1> DEFINE G == Occupied(list) \union Occupied(Tail(stack))
<1>10. G \in SUBSET Addresses
  BY <1>3, <1>5, <1>6 DEF Occupied
<1>11. Followed(M, G, Height)
  BY <1>4, <1>9 DEF ClosedUp, Followed
<1> HIDE DEF G
<1>12. \E g \in G : m \in Reach(<<g, Height>>)
  <2>1. PICK a \in M : a = th.pc
    BY <1>9
  <2>2. m \in Reach(<<a, Height>>) /\ Code[m[1]].op = "match"
    BY <2>1 DEF th
  <2>3. PICK at \in 0..Len(text) : at = Height
    BY <1>5
  <2>4. /\ Followed(M, G, at) /\ M \subseteq Addresses /\ G \subseteq Addresses
        /\ m \in Reach(<<a, at>>) /\ Code[m[1]].op = "match"
    BY <1>9, <1>10, <1>11, <2>2, <2>3
  <2>5. \E g \in G : m \in Reach(<<g, at>>)
    BY <2>4, MarksLead
  <2> QED
    BY <2>3, <2>5
<1>13. PICK g \in G : m \in Reach(<<g, Height>>)
  BY <1>12
<1>14. PICK x \in Threads(list) \union Threads(Tail(stack)) : x.pc = g
  BY DEF G, Occupied
<1> QED
  BY <1>7, <1>13, <1>14 DEF th

\* A thread that has been overtaken by a match stays so while the threads keep
\* their starts.
LEMMA OvertakenStays ==
  ASSUME NEW p, Overtaken(p), prog' = prog, text' = text, q' = q, todo' = todo,
         from' = from, pos \in Nat, pos' \in Nat, pos <= pos', best' = best,
         \A x \in Known' : \E y \in Known : x.start = y.start
  PROVE  Overtaken(p)'
<1>1. PICK s \in from..p : \E e \in s..pos :
        /\ Accepts(s, e) /\ (best.start <= p \/ e <= best.start)
        /\ \A th \in Known : th.start <= p \/ e <= th.start
  BY DEF Overtaken
<1>2. PICK e \in s..pos :
        /\ Accepts(s, e) /\ (best.start <= p \/ e <= best.start)
        /\ \A th \in Known : th.start <= p \/ e <= th.start
  BY <1>1
<1>3. e \in s..pos'
  OBVIOUS
<1>4. Accepts(s, e)'
  BY <1>2, AcceptsSame
<1>5. \A th \in Known' : th.start <= p \/ e <= th.start
  BY <1>2
<1> QED
  BY <1>2, <1>3, <1>4, <1>5 DEF Overtaken

\* A match that a thread can come to is one that the threads it leads to can
\* come to, or those that made it be dropped.
LEMMA ExpandForgets == SearchInv /\ NoneForgotten /\ Expand => NoneForgotten'
<1> SUFFICES ASSUME SearchInv, NoneForgotten, Expand PROVE NoneForgotten'
  OBVIOUS
<1> DEFINE th    == Head(stack)
           marks == IF pc = "fill" THEN seen ELSE nseen
           list  == IF pc = "fill" THEN cur ELSE nxt
           at    == IF pc = "fill" THEN pos ELSE pos + 1
           more  == IF th.pc \notin marks THEN Onward(th, at) ELSE <<>>
           grown == Grown(list, marks, th)
<1>0. ListInv /\ Explored
  BY DEF SearchInv
<1>1. /\ pc \in {"fill", "step"} /\ stack # <<>> /\ ~prog.extended
      /\ th \in ThreadType
      /\ more \in Seq(ThreadType) /\ stack' = more \o Tail(stack)
      /\ th.pc \notin marks => Threads(more) = {Thread(d, th.start) : d \in Ahead(th.pc, at)}
      /\ th.pc \in marks => Threads(more) = {}
      /\ \A x \in Threads(more) : x.start = th.start
      /\ Threads(grown) = Threads(list) \union (IF th.pc \notin marks /\ Settles(th) THEN {th} ELSE {})
      /\ pc = "fill" => cur' = grown /\ nxt' = nxt
      /\ pc = "step" => nxt' = grown /\ cur' = cur
      /\ prog' = prog /\ text' = text /\ q' = q /\ todo' = todo
      /\ pc' = pc /\ pos' = pos /\ from' = from /\ best' = best
  BY <1>0, ExpandDoes
<1>2. at = Height /\ at \in 0..Len(text) /\ pos \in 0..Len(text) /\ Len(text) \in Nat
  BY <1>0, <1>1, Positions DEF Height
<1>3. /\ Threads(stack') = Threads(more) \union Threads(Tail(stack))
      /\ Threads(stack) = {th} \union Threads(Tail(stack))
  BY <1>0, <1>1, Stacked
<1>4. /\ \A c : Reach(c)' = Reach(c)
      /\ \A p : Offers(p)' <=> Offers(p)
      /\ \A m : Final(m)' <=> Final(m)
      /\ \A x : Start(x)' = Start(x)
      /\ Region' = Region
      /\ Threads(cur)' = Threads(cur') /\ Threads(nxt)' = Threads(nxt') /\ Threads(stack)' = Threads(stack')
      /\ Known' = Threads(cur') \union Threads(nxt') \union Threads(stack')
  BY <1>1, TermsSame
<1>5. Height' = at
  BY <1>1, <1>2 DEF Height
<1>6. /\ pc = "fill" => list = cur /\ at = pos /\ Threads(nxt) = {}
      /\ pc = "step" => list = nxt
  <2>1. pc = "fill" => nxt = <<>>
    BY <1>0 DEF ListInv, Stages
  <2> QED
    BY <1>1, <2>1, NoThreads
<1>7. ASSUME NEW m \in Reach(<<th.pc, at>>), Final(m)
      PROVE  \E x \in Threads(grown) \union Threads(stack') :
               x.start <= th.start /\ m \in Reach(<<x.pc, at>>)
  <2>1. th.start \in Nat /\ th.pc \in Addresses
    BY <1>1 DEF ThreadType
  <2>2. CASE th.pc \in marks
    <3>1. Code[m[1]].op = "match" /\ m \in Reach(<<Head(stack).pc, Height>>)
      BY <1>2, <1>7 DEF Final
    <3>2. \E x \in Threads(list) \union Threads(Tail(stack)) :
             x.start <= Head(stack).start /\ m \in Reach(<<x.pc, Height>>)
      <4>1. Head(stack).pc \in marks
        BY <2>2
      <4> HIDE DEF th, more, grown, at
      <4> QED
        BY <1>1, <3>1, <4>1, DroppedCarried
    <3> HIDE DEF more, grown, list, marks, at, th
    <3>3. \E x \in Threads(list) \union Threads(Tail(stack)) :
             x.start <= th.start /\ m \in Reach(<<x.pc, at>>)
      BY <1>2, <3>2 DEF th
    <3> QED
      BY <1>1, <1>3, <3>3
  <2> HIDE DEF more, grown, list, marks, at
  <2>3. CASE th.pc \notin marks /\ Settles(th)
    <3> HIDE DEF th
    <3>1. th \in Threads(grown)
      BY <1>1, <2>3
    <3>2. th.start <= th.start
      BY <2>1
    <3> QED
      BY <1>7, <3>1, <3>2
  <2>4. CASE th.pc \notin marks /\ ~Settles(th)
    <3> HIDE DEF th
    <3>1. Code[th.pc].op \notin {"read", "match"}
      BY <2>4 DEF Settles
    <3>2. <<th.pc, at>> \in Configs /\ <<th.pc, at>>[1] = th.pc /\ <<th.pc, at>>[2] = at
      BY <1>2, <2>1 DEF Configs
    <3>3. m # <<th.pc, at>>
      BY <1>7, <3>1, <3>2 DEF Final
    <3>4. PICK d \in Configs : Leads(<<th.pc, at>>, d) /\ m \in Reach(d)
      BY <1>7, <3>2, <3>3, ReachSplits
    <3>5. d[2] = at /\ d[1] \in Ahead(th.pc, at) /\ d = <<d[1], d[2]>>
      BY <3>1, <3>2, <3>4, ConfigParts DEF Leads, Reads
    <3>6. Thread(d[1], th.start) \in Threads(more)
      BY <1>1, <2>4, <3>5
    <3>7. Thread(d[1], th.start).pc = d[1] /\ Thread(d[1], th.start).start = th.start
      BY DEF Thread
    <3>8. m \in Reach(<<d[1], at>>)
      BY <3>4, <3>5
    <3> QED
      BY <1>3, <2>1, <3>6, <3>7, <3>8
  <2> QED
    BY <2>2, <2>3, <2>4
<1> HIDE DEF grown, more, list, marks, at, th
<1>8. \A x \in Known' : \E y \in Known : x.start = y.start
  <2>1. \A x \in Threads(grown) : x \in Known
    BY <1>1, <1>3, <1>6 DEF Known
  <2>2. \A x \in Threads(stack') : \E y \in Threads(stack) : x.start = y.start
    BY <1>1, <1>3
  <2> QED
    BY <1>1, <1>4, <2>1, <2>2 DEF Known
<1> SUFFICES ASSUME NEW p \in Nat, Taken(p)' PROVE Covered(p)' \/ Overtaken(p)'
  BY DEF NoneForgotten
<1>9. Taken(p)
  BY <1>1, <1>4 DEF Taken
<1>10. CASE Overtaken(p)
  BY <1>1, <1>2, <1>8, <1>10, OvertakenStays
<1>11. CASE Covered(p)
  <2>1. ASSUME NEW m \in Reach(Start(p)), Final(m) PROVE Carried(p, m)'
    <3>1. Carried(p, m)
      BY <1>11, <2>1 DEF Covered
    <3>2. \A x \in Threads(list) : x \in Threads(grown)
      BY <1>1
    <3>3. CASE th.start <= p /\ m \in Reach(<<th.pc, at>>)
      <4>1. PICK x \in Threads(grown) \union Threads(stack') :
               x.start <= th.start /\ m \in Reach(<<x.pc, at>>)
        BY <1>7, <2>1, <3>3
      <4>2. x.start \in Nat /\ th.start \in Nat
        <5>1. \A y \in Known : y.start \in Nat
          BY <1>0, <1>1, Positions
        <5>2. \E y \in Known : x.start = y.start
          BY <1>1, <1>4, <1>6, <1>8, <4>1
        <5>3. th \in Known
          BY <1>3 DEF Known
        <5> QED
          BY <5>1, <5>2, <5>3
      <4>3. x.start <= p
        BY <3>3, <4>1, <4>2
      <4> QED
        BY <1>1, <1>2, <1>4, <1>5, <1>6, <4>1, <4>3 DEF Carried
    <3>4. CASE \E x \in Threads(Tail(stack)) : x.start <= p /\ m \in Reach(<<x.pc, at>>)
      BY <1>3, <1>4, <1>5, <3>4 DEF Carried
    <3>5. CASE \E x \in Threads(cur) : x.start <= p /\ m \in Reach(<<x.pc, pos>>)
      BY <1>1, <1>4, <1>6, <3>2, <3>5 DEF Carried
    <3>6. CASE \E x \in Threads(nxt) : x.start <= p /\ m \in Reach(<<x.pc, at>>)
      BY <1>1, <1>4, <1>5, <1>6, <3>2, <3>6 DEF Carried
    <3> QED
      BY <1>2, <1>3, <3>1, <3>3, <3>4, <3>5, <3>6 DEF Carried
  <2> QED
    BY <1>4, <2>1 DEF Covered
<1> QED
  BY <1>1, <1>9, <1>10, <1>11 DEF NoneForgotten

\* The threads that a match cuts off leave it behind; what may still be read is
\* left to the others.
LEMMA ScanForgets ==
  ASSUME SearchInv, Sound, NoneForgotten, Scan, NEW p \in Nat, Taken(p)
  PROVE  \/ Overtaken(p)'
         \/ \A m \in Reach(Start(p)) : Final(m) =>
              \E x \in Threads(cur') : x.start <= p /\ m \in Reach(<<x.pc, pos>>)
<1>1. /\ pc = "fill" /\ stack = <<>> /\ stack' = stack /\ nxt' = <<>>
      /\ q' = q /\ prog' = prog /\ text' = text /\ todo' = todo
      /\ from' = from /\ pos' = pos
  BY DEF Scan
<1>2. ListInv /\ nxt = <<>>
  BY <1>1 DEF SearchInv, ListInv, Stages
<1>3. /\ pos \in 0..Len(text) /\ Len(text) \in Nat /\ from \in Nat /\ from <= pos /\ ~prog.extended
      /\ \A x \in Known : x.start \in 0..pos /\ x.pc \in Addresses
  BY <1>1, <1>2, Positions
<1>4. /\ Known = Threads(cur) /\ Known' = Threads(cur') /\ Threads(nxt) = {} /\ Threads(stack) = {}
      /\ Threads(nxt') = {} /\ Threads(stack') = {}
  BY <1>1, <1>2, NoThreads, TermsSame DEF Known
<1>5. Threads(cur') \subseteq Threads(cur)
  BY <1>2, ScanDoes
<1>6. \A s, e : Accepts(s, e)' <=> Accepts(s, e)
  BY <1>1, AcceptsSame
<1>7. p \in from..pos
  BY DEF Taken
<1>8. CASE cur' = cur /\ best' = best
  <2>1. CASE Overtaken(p)
    BY <1>1, <1>3, <1>4, <1>8, <2>1, OvertakenStays
  <2>2. CASE Covered(p)
    BY <1>4, <1>8, <2>2 DEF Covered, Carried
  <2> QED
    BY <1>1, <2>1, <2>2 DEF NoneForgotten
<1>9. CASE \E y \in Threads(cur) :
             /\ Code[y.pc].op = "match"
             /\ best' = [start |-> y.start, end |-> pos]
             /\ \A x \in Threads(cur') : x.start <= y.start
             /\ \A x \in Threads(cur) : x \in Threads(cur') \/ y.start <= x.start
  <2>1. PICK y \in Threads(cur) :
             /\ Code[y.pc].op = "match"
             /\ best' = [start |-> y.start, end |-> pos]
             /\ \A x \in Threads(cur') : x.start <= y.start
             /\ \A x \in Threads(cur) : x \in Threads(cur') \/ y.start <= x.start
    BY <1>9
  <2>2. y.start \in 0..pos /\ y.pc \in Addresses /\ best'.start = y.start /\ best' # None
    <3>1. y.start \in 0..pos /\ y.pc \in Addresses /\ y.start \in Nat /\ pos \in Nat
      BY <1>3, <1>4
    <3>2. best' \in [start : Nat, end : Nat] /\ best'.start = y.start
      BY <2>1, <3>1
    <3> QED
      BY <3>1, <3>2, RegexAssumption
  <2>3. Accepts(y.start, pos)
    <3>1. <<y.pc, pos>> \in Reach(Start(y.start))
      BY <1>1 DEF Sound, ThreadsRun
    <3> QED
      BY <1>3, <2>1, <2>2, <3>1 DEF Accepts, Start
  <2>4. from <= y.start
    BY <1>1, <1>2, <1>4 DEF ListInv, Within, InAttempt
  <2>5. CASE y.start <= p
    <3>1. \A x \in Threads(cur') : x.start <= p
      <4> TAKE x \in Threads(cur')
      <4>1. x.start <= y.start /\ x.start \in Nat /\ y.start \in Nat
        BY <1>3, <1>4, <1>5, <2>1, <2>2
      <4> QED
        BY <2>5, <4>1
    <3>2. y.start \in from..p /\ pos \in y.start..pos
      BY <1>3, <2>2, <2>4, <2>5
    <3>3. \A th \in Known' : th.start <= p
      BY <1>4, <3>1
    <3> QED
      BY <1>1, <1>6, <2>2, <2>3, <2>5, <3>2, <3>3 DEF Overtaken
  <2>6. CASE ~(y.start <= p)
    <3>1. CASE Covered(p)
      <4>1. \A x \in Threads(cur) : x.start <= p => x \in Threads(cur')
        <5> TAKE x \in Threads(cur)
        <5>1. x.start \in Nat /\ y.start \in Nat
          BY <1>3, <1>4, <2>2
        <5> QED
          BY <2>1, <2>6, <5>1
      <4> QED
        BY <1>4, <3>1, <4>1 DEF Covered, Carried
    <3>2. CASE Overtaken(p)
      <4>1. PICK s \in from..p : \E e \in s..pos :
              /\ Accepts(s, e) /\ (best.start <= p \/ e <= best.start)
              /\ \A th \in Known : th.start <= p \/ e <= th.start
        BY <3>2 DEF Overtaken
      <4>2. PICK e \in s..pos :
              /\ Accepts(s, e) /\ (best.start <= p \/ e <= best.start)
              /\ \A th \in Known : th.start <= p \/ e <= th.start
        BY <4>1
      <4>3. e <= y.start
        BY <1>4, <2>1, <2>6, <4>2
      <4>4. \A th \in Known' : th.start <= p \/ e <= th.start
        BY <1>4, <1>5, <4>2
      <4> QED
        BY <1>1, <1>6, <2>2, <4>2, <4>3, <4>4 DEF Overtaken
    <3> QED
      BY <1>1, <3>1, <3>2 DEF NoneForgotten
  <2> QED
    BY <2>5, <2>6
<1> QED
  BY <1>2, <1>8, <1>9, ScanDoes

\* A match behind a character is left to the thread that has read it.
LEMMA StepForgets == SearchInv /\ NoneForgotten /\ Step => NoneForgotten'
<1> SUFFICES ASSUME SearchInv, NoneForgotten, Step PROVE NoneForgotten'
  OBVIOUS
<1> DEFINE h == Head(cur)
           X == Thread(Code[h.pc].x, h.start)
<1>1. /\ pc = "step" /\ stack = <<>> /\ prog' = prog /\ text' = text /\ q' = q /\ todo' = todo
      /\ cur # <<>> /\ cur' = Tail(cur) /\ nxt' = nxt /\ pos' = pos /\ pc' = "step"
      /\ from' = from /\ best' = best
      /\ stack' = (IF text[pos + 1] \in Code[h.pc].arg THEN <<X>> ELSE <<>>)
  BY DEF Step
<1>2. ListInv /\ Explored
  BY DEF SearchInv
<1>3. h \in ThreadType /\ Threads(cur) = {h} \union Threads(cur')
  BY <1>1, <1>2, ListTypes, HeadAndTail DEF ListInv
<1>4. /\ h.pc \in Addresses /\ Code[h.pc].op = "read" /\ X.pc = Code[h.pc].x /\ X.start = h.start
  <2>1. Settles(h) /\ Code[h.pc].op # "match"
    BY <1>1, <1>2, <1>3 DEF ListInv, Explored, Stages
  <2> QED
    BY <1>3, <2>1 DEF ThreadType, Settles, Thread
<1> HIDE DEF h, X
<1>5. /\ pos \in 0..Len(text) /\ Len(text) \in Nat
      /\ Height = pos + 1 /\ Height' = pos + 1
  BY <1>1, <1>2, Positions DEF Height
<1>6. /\ Threads(stack) = {}
      /\ text[pos + 1] \in Code[h.pc].arg => Threads(stack') = {X}
      /\ Threads(stack') \subseteq {X}
  <2>1. Threads(<<>>) = {} /\ Threads(<<X>>) = {X}
    BY DEF Threads
  <2> QED
    BY <1>1, <2>1
<1>7. /\ \A c : Reach(c)' = Reach(c)
      /\ \A p : Offers(p)' <=> Offers(p)
      /\ \A m : Final(m)' <=> Final(m)
      /\ \A x : Start(x)' = Start(x)
      /\ Region' = Region
      /\ Threads(cur)' = Threads(cur') /\ Threads(nxt)' = Threads(nxt') /\ Threads(stack)' = Threads(stack')
      /\ Known' = Threads(cur') \union Threads(nxt') \union Threads(stack')
  BY <1>1, TermsSame
<1>8. ASSUME NEW m \in Reach(<<h.pc, pos>>), Final(m)
      PROVE  \E x \in Threads(stack') : x.start = h.start /\ m \in Reach(<<x.pc, pos + 1>>)
  <2>1. <<h.pc, pos>> \in Configs /\ <<h.pc, pos>>[1] = h.pc /\ <<h.pc, pos>>[2] = pos
    BY <1>4, <1>5 DEF Configs
  <2>2. m # <<h.pc, pos>>
    BY <1>4, <1>8, <2>1 DEF Final
  <2>3. PICK d \in Configs : Leads(<<h.pc, pos>>, d) /\ m \in Reach(d)
    BY <1>8, <2>1, <2>2, ReachSplits
  <2>4. Ahead(h.pc, pos) = {}
    BY <1>4, AheadIs
  <2>5. d[2] = pos + 1 /\ d[1] = X.pc /\ Reads(h.pc, pos) /\ d = <<d[1], d[2]>>
    BY <1>4, <2>1, <2>3, <2>4, ConfigParts DEF Leads
  <2>6. X \in Threads(stack')
    BY <1>6, <2>5 DEF Reads
  <2> QED
    BY <1>4, <2>3, <2>5, <2>6
<1>9. \A x \in Known' : \E y \in Known : x.start = y.start
  <2>1. h \in Known
    BY <1>3 DEF Known
  <2> QED
    BY <1>1, <1>3, <1>4, <1>6, <1>7, <2>1 DEF Known
<1> SUFFICES ASSUME NEW p \in Nat, Taken(p)' PROVE Covered(p)' \/ Overtaken(p)'
  BY DEF NoneForgotten
<1>10. Taken(p)
  BY <1>1, <1>7 DEF Taken
<1>11. CASE Overtaken(p)
  BY <1>1, <1>5, <1>9, <1>11, OvertakenStays
<1>12. CASE Covered(p)
  <2>1. ASSUME NEW m \in Reach(Start(p)), Final(m) PROVE Carried(p, m)'
    <3>1. Carried(p, m)
      BY <1>12, <2>1 DEF Covered
    <3>2. CASE h.start <= p /\ m \in Reach(<<h.pc, pos>>)
      <4>1. PICK x \in Threads(stack') : x.start = h.start /\ m \in Reach(<<x.pc, pos + 1>>)
        BY <1>8, <2>1, <3>2
      <4> QED
        BY <1>5, <1>7, <3>2, <4>1 DEF Carried
    <3>3. CASE \E x \in Threads(cur') : x.start <= p /\ m \in Reach(<<x.pc, pos>>)
      BY <1>1, <1>7, <3>3 DEF Carried
    <3>4. CASE \E x \in Threads(nxt) : x.start <= p /\ m \in Reach(<<x.pc, pos + 1>>)
      BY <1>1, <1>5, <1>7, <3>4 DEF Carried
    <3> QED
      BY <1>3, <1>5, <1>6, <3>1, <3>2, <3>3, <3>4 DEF Carried
  <2> QED
    BY <1>7, <2>1 DEF Covered
<1> QED
  BY <1>1, <1>10, <1>11, <1>12 DEF NoneForgotten

\* At the next position all starts so far have been taken.
LEMMA SwapForgets == SearchInv /\ NoneForgotten /\ Swap => NoneForgotten' /\ PassesNothing'
<1> SUFFICES ASSUME SearchInv, NoneForgotten, Swap PROVE NoneForgotten' /\ PassesNothing'
  OBVIOUS
<1>1. /\ pc = "step" /\ stack = <<>> /\ cur = <<>> /\ stack' = <<>> /\ cur' = nxt /\ nxt' = <<>>
      /\ prog' = prog /\ text' = text /\ q' = q /\ todo' = todo
      /\ pos' = pos + 1 /\ from' = from /\ best' = best
      /\ pc' \in {"report", "seed"} /\ (pc' = "report" => nxt = <<>> /\ best # None)
  BY DEF Swap
<1>2. ListInv
  BY DEF SearchInv
<1>3. /\ pos \in 0..Len(text) /\ Len(text) \in Nat /\ from \in Nat /\ from <= pos
      /\ Height = pos + 1 /\ ~prog.extended /\ Region.ce \in 1..(Len(text) + 1)
  BY <1>1, <1>2, Positions DEF Height
<1>4. /\ \A c : Reach(c)' = Reach(c)
      /\ \A s, e : Accepts(s, e)' <=> Accepts(s, e)
      /\ \A p : Offers(p)' <=> Offers(p)
      /\ \A m : Final(m)' <=> Final(m)
      /\ \A x : Start(x)' = Start(x)
      /\ Region' = Region
      /\ Threads(cur)' = Threads(nxt) /\ Threads(nxt') = {} /\ Threads(stack') = {}
      /\ Threads(cur) = {} /\ Threads(stack) = {}
      /\ Known' = Threads(nxt) /\ Known = Threads(nxt)
  BY <1>1, TermsSame, NoThreads DEF Known
<1>5. ASSUME NEW p \in from..pos, p < Region.ce, Offers(p)
      PROVE  Taken(p) /\ (Covered(p) \/ Overtaken(p))
  BY <1>1, <1>3, <1>5 DEF Taken, NoneForgotten
<1>6. ASSUME pc' = "seed" PROVE NoneForgotten'
  <2> SUFFICES ASSUME NEW p \in Nat, Taken(p)' PROVE Covered(p)' \/ Overtaken(p)'
    BY DEF NoneForgotten
  <2>1. p \in from..pos /\ p < Region.ce /\ Offers(p)
    BY <1>1, <1>3, <1>4, <1>6 DEF Taken
  <2>2. CASE Overtaken(p)
    BY <1>1, <1>3, <1>4, <2>2, OvertakenStays
  <2>3. CASE Covered(p)
    <3>1. ASSUME NEW m \in Reach(Start(p)), Final(m) PROVE Carried(p, m)'
      <4>1. PICK x \in Threads(nxt) : x.start <= p /\ m \in Reach(<<x.pc, pos + 1>>)
        BY <1>3, <1>4, <2>3, <3>1 DEF Covered, Carried
      <4> QED
        BY <1>1, <1>4, <4>1 DEF Carried
    <3> QED
      BY <1>4, <3>1 DEF Covered
  <2> QED
    BY <1>5, <2>1, <2>2, <2>3
<1>7. ASSUME pc' = "report" PROVE PassesNothing'
  <2> SUFFICES ASSUME NEW p \in from..(Region.ce - 1), NEW e \in Nat,
                      Offers(p), Accepts(p, e), e <= Region.end, p < best.start
               PROVE  \E s \in from..p : \E f \in s..best.start : Accepts(s, f)
    BY <1>1, <1>3, <1>4, <1>7 DEF PassesNothing
  <2>1. best.start \in 0..pos
    BY <1>1, <1>2, <1>7 DEF ListInv, TypeOK
  <2>2. p \in from..pos /\ p < Region.ce
    BY <1>3, <2>1
  <2>3. ~Covered(p)
    <3>1. PICK a \in Addresses : Code[a].op = "match" /\ <<a, e>> \in Reach(Start(p))
      BY <1>3 DEF Accepts, Start
    <3>2. Final(<<a, e>>)
      BY <3>1 DEF Final
    <3>3. ~Carried(p, <<a, e>>)
      BY <1>1, <1>4, <1>7, NoThreads DEF Carried
    <3> QED
      BY <3>1, <3>2, <3>3 DEF Covered
  <2>4. PICK s \in from..p : \E f \in s..pos : Accepts(s, f) /\ (best.start <= p \/ f <= best.start)
    BY <1>5, <2>2, <2>3 DEF Overtaken
  <2>5. PICK f \in s..pos : Accepts(s, f) /\ (best.start <= p \/ f <= best.start)
    BY <2>4
  <2>6. f \in s..best.start
    BY <1>3, <2>1, <2>2, <2>5
  <2> QED
    BY <2>5, <2>6
<1> QED
  BY <1>1, <1>6, <1>7 DEF NoneForgotten, PassesNothing

\* When there is no thread and no prefix ahead, no start is left.
LEMMA SeedFailsPasses == SearchInv /\ NoneForgotten /\ SeedFails => PassesNothing'
<1> SUFFICES ASSUME SearchInv, NoneForgotten, SeedFails PROVE PassesNothing'
  OBVIOUS
<1>1. /\ pc = "seed" /\ cur = <<>> /\ best = None /\ (\A s \in Landing : s >= Region.ce)
      /\ prog' = prog /\ text' = text /\ q' = q /\ todo' = todo
      /\ pos' = pos /\ from' = from /\ best' = best /\ pc' = "report"
  BY DEF SeedFails, Idle, nfa
<1>2. ListInv /\ nxt = <<>> /\ stack = <<>>
  BY <1>1 DEF SearchInv, ListInv, Stages
<1>3. /\ pos \in 0..Len(text) /\ Len(text) \in Nat /\ from \in Nat /\ from <= pos
      /\ ~prog.extended /\ Region.ce \in 1..(Len(text) + 1)
  BY <1>1, <1>2, Positions
<1>4. /\ \A s, e : Accepts(s, e)' <=> Accepts(s, e)
      /\ \A p : Offers(p)' <=> Offers(p)
      /\ Region' = Region
  BY <1>1, TermsSame
<1> SUFFICES ASSUME NEW p \in from..(Region.ce - 1), NEW e \in Nat,
                    Offers(p), Accepts(p, e), e <= Region.end
             PROVE  FALSE
  BY <1>1, <1>3, <1>4 DEF PassesNothing
<1>5. CASE p < pos
  <2>1. Taken(p)
    BY <1>3, <1>5 DEF Taken
  <2>2. Covered(p)
    BY <1>1, <1>3, <2>1 DEF NoneForgotten, Overtaken
  <2>3. PICK a \in Addresses : Code[a].op = "match" /\ <<a, e>> \in Reach(Start(p))
    BY <1>3 DEF Accepts, Start
  <2>4. Final(<<a, e>>)
    BY <2>3 DEF Final
  <2> QED
    BY <1>1, <1>2, <2>2, <2>3, <2>4, NoThreads DEF Covered, Carried
<1>6. CASE ~(p < pos)
  <2>1. pos < Region.ce /\ p \in Nat /\ pos <= p /\ p < Region.ce
    BY <1>3, <1>6
  <2>2. pos \notin Landing
    BY <1>1, <1>3, <2>1
  <2>3. /\ prog.prefixes # {}
        /\ Landing = {s \in PrefixesFrom(pos) : \A r \in PrefixesFrom(pos) : s <= r}
    BY <2>2 DEF Landing
  <2>4. p \in PrefixesFrom(pos) /\ PrefixesFrom(pos) \subseteq Nat
    BY <1>3, <2>1, <2>3 DEF Offers, PrefixesFrom
  <2>5. PICK s \in PrefixesFrom(pos) : \A r \in PrefixesFrom(pos) : ~(r < s)
    BY <2>4, NatLeast
  <2>6. s \in Landing /\ s <= p
    BY <2>3, <2>4, <2>5
  <2> QED
    BY <1>1, <1>3, <2>1, <2>4, <2>6
<1> QED
  BY <1>5, <1>6

\* A thread that waits behind what may be read has no match left to come to.
LEMMA TooLate ==
  ASSUME ListInv, pc = "fill", pos >= Region.end,
         NEW a \in Addresses, Code[a].op = "read", NEW m \in Reach(<<a, pos>>)
  PROVE  ~Final(m)
<1> SUFFICES ASSUME Final(m) PROVE FALSE
  OBVIOUS
<1>1. pos \in 0..Len(text) /\ Len(text) \in Nat /\ Region.end \in 0..Len(text)
  BY Positions
<1>2. <<a, pos>> \in Configs /\ <<a, pos>>[1] = a /\ <<a, pos>>[2] = pos
  BY <1>1 DEF Configs
<1>3. m # <<a, pos>>
  BY <1>2 DEF Final
<1>4. PICK d \in Configs : Leads(<<a, pos>>, d) /\ m \in Reach(d)
  BY <1>2, <1>3, ReachSplits
<1>5. d[2] = pos + 1
  BY <1>2, <1>4, AheadIs DEF Leads
<1>6. m \in Configs /\ d[2] <= m[2] /\ m[2] \in 0..Len(text)
  BY <1>1, <1>4, ReachLater, ConfigParts
<1> QED
  BY <1>1, <1>5, <1>6 DEF Final

\* The search goes on with what the match has left, or ends when nothing that
\* may be read is ahead of it.
LEMMA ScanPasses == SearchInv /\ Sound /\ NoneForgotten /\ Scan => NoneForgotten' /\ PassesNothing'
<1> SUFFICES ASSUME SearchInv, Sound, NoneForgotten, Scan PROVE NoneForgotten' /\ PassesNothing'
  OBVIOUS
<1>1. /\ pc = "fill" /\ stack = <<>> /\ stack' = stack /\ nxt' = <<>>
      /\ q' = q /\ prog' = prog /\ text' = text /\ todo' = todo
      /\ from' = from /\ pos' = pos /\ pc' \in {"report", "step"}
      /\ pc' = "report" => (best' # None /\ cur' = <<>>) \/ pos >= Region.end
  BY DEF Scan
<1>2. ListInv /\ ListInv'
  BY ListsKeep DEF SearchInv, Next
<1>3. /\ pos \in 0..Len(text) /\ Len(text) \in Nat /\ from \in Nat /\ from <= pos /\ ~prog.extended
      /\ Region.ce \in 1..(Len(text) + 1) /\ Region.end \in 0..Len(text)
      /\ \A x \in Known : x.start \in 0..pos /\ x.pc \in Addresses
  BY <1>1, <1>2, Positions
<1>4. /\ \A c : Reach(c)' = Reach(c)
      /\ \A s, e : Accepts(s, e)' <=> Accepts(s, e)
      /\ \A p : Offers(p)' <=> Offers(p)
      /\ \A m : Final(m)' <=> Final(m)
      /\ \A x : Start(x)' = Start(x)
      /\ Region' = Region
      /\ Threads(cur)' = Threads(cur')
  BY <1>1, TermsSame
<1>5. ASSUME NEW p \in Nat, Taken(p)
      PROVE  \/ Overtaken(p)'
             \/ \A m \in Reach(Start(p)) : Final(m) =>
                  \E x \in Threads(cur') : x.start <= p /\ m \in Reach(<<x.pc, pos>>)
  BY <1>5, ScanForgets
<1>6. ASSUME pc' = "step" PROVE NoneForgotten'
  <2> SUFFICES ASSUME NEW p \in Nat, Taken(p)' PROVE Covered(p)' \/ Overtaken(p)'
    BY DEF NoneForgotten
  <2>1. Taken(p)
    BY <1>1, <1>4 DEF Taken
  <2>2. CASE \A m \in Reach(Start(p)) : Final(m) =>
               \E x \in Threads(cur') : x.start <= p /\ m \in Reach(<<x.pc, pos>>)
    <3>1. \A m \in Reach(Start(p)) : Final(m) => Carried(p, m)'
      BY <1>1, <1>4, <2>2 DEF Carried
    <3> QED
      BY <1>4, <3>1 DEF Covered
  <2> QED
    BY <1>5, <2>1, <2>2
<1>7. ASSUME pc' = "report" PROVE PassesNothing'
  <2> SUFFICES ASSUME NEW p \in from..(Region.ce - 1), NEW e \in Nat,
                      Offers(p), Accepts(p, e), e <= Region.end, best' # None => p < best'.start
               PROVE  best' # None /\ \E s \in from..p : \E f \in s..best'.start : Accepts(s, f)
    BY <1>1, <1>3, <1>4, <1>7 DEF PassesNothing
  <2>1. p \in 0..Len(text) /\ p \in Nat /\ p < Region.ce
    BY <1>3
  <2>2. e \in p..Len(text)
    BY <1>2, <2>1, AcceptsWithin DEF ListInv
  <2>3. best' # None => best'.start \in 0..pos
    BY <1>1, <1>2 DEF ListInv, TypeOK
  <2>4. p <= pos
    BY <1>1, <1>3, <1>7, <2>1, <2>2, <2>3
  <2>5. Taken(p)
    BY <1>1, <1>3, <2>1, <2>4 DEF Taken
  <2>6. CASE Overtaken(p)'
    <3>1. PICK s \in from..p : \E f \in s..pos :
            Accepts(s, f) /\ (best'.start <= p \/ f <= best'.start)
      BY <1>1, <1>4, <2>6 DEF Overtaken
    <3>2. PICK f \in s..pos : Accepts(s, f) /\ (best'.start <= p \/ f <= best'.start)
      BY <3>1
    <3>3. best' # None
      BY <2>6 DEF Overtaken
    <3>4. f \in s..best'.start
      BY <1>3, <2>1, <2>3, <3>2, <3>3
    <3> QED
      BY <3>2, <3>3, <3>4
  <2>7. CASE \A m \in Reach(Start(p)) : Final(m) =>
               \E x \in Threads(cur') : x.start <= p /\ m \in Reach(<<x.pc, pos>>)
    <3>1. PICK a \in Addresses : Code[a].op = "match" /\ <<a, e>> \in Reach(Start(p))
      BY <1>3 DEF Accepts, Start
    <3>2. Final(<<a, e>>)
      BY <3>1 DEF Final
    <3>3. PICK x \in Threads(cur') : <<a, e>> \in Reach(<<x.pc, pos>>)
      BY <2>7, <3>1, <3>2
    <3>4. cur' # <<>>
      BY <3>3, NoThreads
    <3>5. pos >= Region.end
      BY <1>1, <1>7, <3>4
    <3>6. x \in Threads(cur) /\ Code[x.pc].op # "match"
      BY <1>2, ScanDoes
    <3>7. x.pc \in Addresses /\ Code[x.pc].op = "read"
      BY <1>3, <3>6 DEF Known, SearchInv, Explored, Settles
    <3> QED
      BY <1>1, <1>2, <3>2, <3>3, <3>5, <3>7, TooLate
  <2> QED
    BY <1>5, <2>1, <2>5, <2>6, <2>7
<1>8. CASE pc' = "step"
  BY <1>6, <1>8 DEF PassesNothing
<1>9. CASE pc' = "report"
  BY <1>7, <1>9 DEF NoneForgotten
<1> QED
  BY <1>1, <1>8, <1>9

\* The extended matcher goes on only from a start without a match, and ends at
\* the first with one or at the last.
LEMMA TryPasses == SearchInv /\ TriedInVain /\ Try => TriedInVain' /\ PassesNothing'
<1> SUFFICES ASSUME SearchInv, TriedInVain, Try PROVE TriedInVain' /\ PassesNothing'
  OBVIOUS
<1> DEFINE end == EvalEnd(q, text, pos)
<1>1. /\ pc = "try" /\ q' = q /\ prog' = prog /\ text' = text /\ todo' = todo /\ from' = from
      /\ best' = IF end = None THEN None ELSE [start |-> pos, end |-> end]
      /\ IF best' = None /\ pos < Len(text) /\ pos + 1 < Region.ce
         THEN pos' = pos + 1 /\ pc' = "try"
         ELSE pos' = pos /\ pc' = "report"
  BY DEF Try
<1>2. /\ pos \in 0..Len(text) /\ Len(text) \in Nat /\ from \in Nat /\ from <= pos /\ prog.extended
      /\ todo # <<>> /\ PlanOK(todo, Len(text))
  BY <1>1 DEF SearchInv, ListInv, Inputs, TypeOK, Stages, Within, InAttempt
<1>3. Region.ce \in 1..(Len(text) + 1)
  BY <1>2, HeadRegion DEF Region
<1>4. /\ \A s, e : Accepts(s, e)' <=> Accepts(s, e)
      /\ \A p : Offers(p)' <=> Offers(p)
      /\ Region' = Region
  BY <1>1, TermsSame
<1>5. \A p \in from..(pos - 1) : EvalEnd(q, text, p) = None
  BY <1>1 DEF TriedInVain
<1>6. end # None => best' # None /\ best'.start = pos
  <2> SUFFICES ASSUME end # None PROVE best' # None /\ best'.start = pos
    OBVIOUS
  <2>1. best' = [start |-> pos, end |-> end]
    BY <1>1
  <2>2. end \in pos..Len(text)
    BY <1>2 DEF SearchInv, ListInv, Inputs, EvalOK
  <2>3. best' \in [start : Nat, end : Nat]
    BY <1>2, <2>1, <2>2
  <2> QED
    BY <2>1, <2>3, RegexAssumption
<1>7. end = None <=> best' = None
  BY <1>1, <1>6
<1> HIDE DEF end
<1>8. CASE best' = None /\ pos < Len(text) /\ pos + 1 < Region.ce
  <2>1. \A p \in from..((pos + 1) - 1) : EvalEnd(q, text, p) = None
    BY <1>2, <1>5, <1>7, <1>8 DEF end
  <2> QED
    BY <1>1, <1>8, <2>1 DEF TriedInVain, PassesNothing
<1>9. CASE ~(best' = None /\ pos < Len(text) /\ pos + 1 < Region.ce)
  <2>1. pc' = "report" /\ pos' = pos
    BY <1>1, <1>9
  <2>2. ASSUME NEW p \in from..(Region.ce - 1), NEW e \in Nat, Accepts(p, e),
               best' # None => p < best'.start
        PROVE  FALSE
    <3>1. EvalEnd(q, text, p) # None
      BY <1>2, <2>2 DEF Accepts
    <3>2. p >= pos
      BY <1>2, <1>3, <1>5, <3>1
    <3>3. best' = None
      BY <1>2, <1>3, <1>6, <1>7, <2>2, <3>2
    <3>4. p # pos
      BY <1>7, <3>1, <3>3 DEF end
    <3> QED
      BY <1>2, <1>3, <1>9, <3>2, <3>3, <3>4
  <2>3. PassesNothing'
    BY <1>1, <1>4, <2>2 DEF PassesNothing
  <2> QED
    BY <2>1, <2>3 DEF TriedInVain
<1> QED
  BY <1>8, <1>9

\* What an attempt keeps about the starts that are behind it.
Passed == NoneForgotten /\ TriedInVain /\ PassesNothing

\* An attempt begins with no start behind it.
LEMMA AttemptPasses == SearchInv /\ Attempt => Passed'
<1> SUFFICES ASSUME SearchInv, Attempt PROVE Passed'
  OBVIOUS
<1>1. /\ pc' \in {"try", "seed"} /\ pos' = from /\ from' = from /\ from \in Nat
  BY DEF Attempt, SearchInv, ListInv, TypeOK
<1>2. (pc' = "seed" => \A p \in Nat : ~Taken(p)') /\ from..(from - 1) = {}
  BY <1>1 DEF Taken
<1> QED
  BY <1>1, <1>2 DEF Passed, NoneForgotten, TriedInVain, PassesNothing

\* Whatever is done, no start is lost sight of.
LEMMA PassedKeeps == SearchInv /\ Sound /\ Passed /\ [Next]_vars => Passed'
<1> SUFFICES ASSUME SearchInv, Sound, Passed, [Next]_vars PROVE Passed'
  OBVIOUS
<1>0. NoneForgotten /\ TriedInVain /\ PassesNothing
  BY DEF Passed
<1>1. CASE NextRegion \/ NoRegion \/ RegionEnd \/ NoMatch \/ Report
  <2>1. pc' \in {"region", "attempt", "done"}
    BY <1>1 DEF NextRegion, NoRegion, RegionEnd, NoMatch, LeaveRegion, Report
  <2> QED
    BY <2>1 DEF Passed, NoneForgotten, TriedInVain, PassesNothing
<1>2. CASE Attempt
  BY <1>2, AttemptPasses
<1>3. CASE Try
  <2>1. pc' \in {"try", "report"}
    BY <1>3 DEF Try
  <2> QED
    BY <1>0, <1>3, <2>1, TryPasses DEF Passed, NoneForgotten
<1>4. CASE SeedFails
  <2>1. pc' = "report"
    BY <1>4 DEF SeedFails
  <2> QED
    BY <1>0, <1>4, <2>1, SeedFailsPasses DEF Passed, NoneForgotten, TriedInVain
<1>5. CASE Seed
  <2>1. pc' = "fill"
    BY <1>5 DEF Seed
  <2> QED
    BY <1>0, <1>5, <2>1, SeedForgets DEF Passed, TriedInVain, PassesNothing
<1>6. CASE Expand
  <2>1. pc' \in {"fill", "step"}
    BY <1>6, ExpandDoes DEF SearchInv
  <2> QED
    BY <1>0, <1>6, <2>1, ExpandForgets DEF Passed, TriedInVain, PassesNothing
<1>7. CASE Scan
  <2>1. pc' \in {"report", "step"}
    BY <1>7 DEF Scan
  <2> QED
    BY <1>0, <1>7, <2>1, ScanPasses DEF Passed, TriedInVain
<1>8. CASE Step
  <2>1. pc' = "step"
    BY <1>8 DEF Step
  <2> QED
    BY <1>0, <1>8, <2>1, StepForgets DEF Passed, TriedInVain, PassesNothing
<1>9. CASE Swap
  <2>1. pc' \in {"report", "seed"}
    BY <1>9 DEF Swap
  <2> QED
    BY <1>0, <1>9, <2>1, SwapForgets DEF Passed, TriedInVain
<1>10. CASE Done \/ UNCHANGED vars
  <2>1. /\ prog' = prog /\ text' = text /\ q' = q /\ todo' = todo /\ best' = best /\ pc' = pc
        /\ from' = from /\ pos' = pos /\ cur' = cur /\ nxt' = nxt /\ stack' = stack
    BY <1>10 DEF Done, vars, nfa
  <2>2. /\ \A c : Reach(c)' = Reach(c)
        /\ \A s, e : Accepts(s, e)' <=> Accepts(s, e)
        /\ \A p : Offers(p)' <=> Offers(p)
        /\ \A m : Final(m)' <=> Final(m)
        /\ \A s : Start(s)' = Start(s)
        /\ Region' = Region
        /\ Threads(cur)' = Threads(cur') /\ Threads(nxt)' = Threads(nxt') /\ Threads(stack)' = Threads(stack')
        /\ Known' = Threads(cur') \union Threads(nxt') \union Threads(stack')
    BY <2>1, TermsSame
  <2>3. /\ Threads(cur') = Threads(cur) /\ Threads(nxt') = Threads(nxt) /\ Threads(stack') = Threads(stack)
        /\ Known' = Known /\ Height' = Height
    BY <2>1, <2>2 DEF Known, Height
  <2>4. \A p, m : Carried(p, m)' <=> Carried(p, m)
    BY <2>1, <2>2, <2>3 DEF Carried
  <2>5. \A p : Covered(p)' <=> Covered(p)
    BY <2>2, <2>4 DEF Covered
  <2>6. \A p : Overtaken(p)' <=> Overtaken(p)
    BY <2>1, <2>2, <2>3 DEF Overtaken
  <2>7. \A p : Taken(p)' <=> Taken(p)
    BY <2>1, <2>2 DEF Taken
  <2>8. NoneForgotten'
    BY <1>0, <2>1, <2>5, <2>6, <2>7 DEF NoneForgotten
  <2>9. TriedInVain'
    BY <1>0, <2>1 DEF TriedInVain
  <2>10. PassesNothing'
    BY <1>0, <2>1, <2>2 DEF PassesNothing
  <2> QED
    BY <2>8, <2>9, <2>10 DEF Passed
<1> QED
  BY <1>1, <1>2, <1>3, <1>4, <1>5, <1>6, <1>7, <1>8, <1>9, <1>10 DEF Next

\* For every program, record and plan: an attempt passes over a match that the
\* program accepts, in what the region lets it read, only for one that began no
\* later and ended before what it reports; when it reports nothing there was
\* nothing.  So the threads that nfa_search drops at a mark or gives up behind a
\* match, and the starts it jumps over, cost no match.
THEOREM NothingPassed == Spec => []PassesNothing
<1>1. Init => Passed
  <2> SUFFICES ASSUME Init PROVE Passed
    OBVIOUS
  <2>1. pc = "region"
    BY DEF Init
  <2> QED
    BY <2>1 DEF Passed, NoneForgotten, TriedInVain, PassesNothing
<1>2. SearchInv /\ Sound /\ [Next]_vars => Sound'
  BY SoundKeeps
<1>3. SearchInv /\ Sound /\ Passed /\ [Next]_vars => Passed'
  BY PassedKeeps
<1>4. Passed => PassesNothing
  BY DEF Passed
<1> QED
  BY <1>1, <1>2, <1>3, <1>4, InitSound, RegexInvariant, PTL DEF Spec

-----------------------------------------------------------------------------
(* What the whole search leaves.                                           *)

\* A match is reported from p, or p is inside one that is reported and matches
\* may not overlap, or one that was found from p or before was preferred and
\* ended before the next that is reported.
Answered(p) ==
  \E j \in DOMAIN out :
    \/ out[j].start = p
    \/ ~over /\ out[j].start < p /\ p < out[j].end
    \/ ~prog.extended /\ p < out[j].start
       /\ \E s \in 0..p : \E f \in s..out[j].start : Accepts(s, f)

\* The starts of a region r before n are answered, where they have a match in
\* what may be read.
Accounted(r, n) ==
  \A p \in r.cb..(n - 1), e \in Nat :
    Offers(p) /\ Accepts(p, e) /\ (prog.extended \/ e <= r.end) => Answered(p)

\* The search has been through n regions of the plan, and is in the next.
Progress(plan, n) ==
  /\ PlanOK(plan, Len(text)) /\ n \in 0..Len(plan)
  /\ Len(todo) = Len(plan) - n /\ \A k \in DOMAIN todo : todo[k] = plan[k + n]
  /\ \A k \in 1..n : Accounted(plan[k], plan[k].ce)
  /\ pc \notin {"region", "done"} => Accounted(Region, from)
  /\ pc = "done" => todo = <<>>

\* The search is somewhere in one of its plans.
Searched == \E plan \in Plans(q, text), n \in Nat : Progress(plan, n)

\* When the search is done, all regions of a plan are accounted for.
NothingLeft ==
  pc = "done" =>
    \E plan \in Plans(q, text) : \A k \in DOMAIN plan : Accounted(plan[k], plan[k].ce)

\* An answer stays one when a match is added.
LEMMA AnswersStay ==
  ASSUME ListInv, prog' = prog, text' = text, q' = q, over' = over,
         out' = out \/ \E b : out' = Append(out, b)
  PROVE  /\ \A p : Answered(p) => Answered(p)'
         /\ \A r, n : Accounted(r, n) => Accounted(r, n)'
<1> DEFINE M == [start : Nat, end : Nat]
<1>1. out \in Seq(M)
  BY DEF ListInv, TypeOK
<1> HIDE DEF M
<1>2. \A j \in DOMAIN out : j \in DOMAIN out' /\ out'[j] = out[j]
  BY <1>1
<1>3. \A s, e : Accepts(s, e)' <=> Accepts(s, e)
  BY AcceptsSame
<1>4. \A p : Offers(p)' <=> Offers(p)
  BY DEF Offers, PrefixesFrom
<1>5. ASSUME NEW p, Answered(p) PROVE Answered(p)'
  BY <1>2, <1>3, <1>5 DEF Answered
<1>6. ASSUME NEW r, NEW n, Accounted(r, n) PROVE Accounted(r, n)'
  BY <1>3, <1>4, <1>5, <1>6 DEF Accounted
<1> QED
  BY <1>5, <1>6

\* The bounds of the current region are numbers.
LEMMA RegionBounds ==
  ASSUME ListInv, todo # <<>>
  PROVE  Region.cb \in Nat /\ Region.ce \in Nat /\ Region.ce <= Len(text) + 1
<1>1. Len(text) \in Nat /\ PlanOK(todo, Len(text))
  BY DEF ListInv, Inputs
<1>2. Region.cb \in 0..Len(text) /\ Region.ce \in 1..(Len(text) + 1)
  BY <1>1, HeadRegion DEF Region
<1> QED
  BY <1>1, <1>2

\* What is reported answers for what lies before the next attempt.
LEMMA ReportAnswers ==
  ASSUME SearchInv, PassesNothing, Report, Accounted(Region, from)
  PROVE  Accounted(Region, from)'
<1>1. /\ pc = "report" /\ best # None /\ out' = Append(out, best)
      /\ from' = IF over \/ best.end = best.start THEN best.start + 1 ELSE best.end
      /\ q' = q /\ prog' = prog /\ text' = text /\ todo' = todo /\ over' = over
  BY DEF Report
<1>2. /\ from \in Nat /\ best.start \in Nat /\ best.end \in Nat /\ Len(text) \in Nat
      /\ todo # <<>> /\ PlanOK(todo, Len(text)) /\ ListInv
      /\ best.start < Region.ce /\ out \in Seq([start : Nat, end : Nat])
  BY <1>1 DEF SearchInv, ListInv, Inputs, TypeOK, Stages, Within, InAttempt
<1>3. Region.cb \in Nat /\ Region.ce \in Nat
  BY <1>2, RegionBounds
<1>4. Accounted(Region, from)' <=> \A p \in Region.cb..(from' - 1), e \in Nat :
        Offers(p) /\ Accepts(p, e) /\ (prog.extended \/ e <= Region.end) => Answered(p)'
  <2>1. /\ \A s, e : Accepts(s, e)' <=> Accepts(s, e)
        /\ \A p : Offers(p)' <=> Offers(p)
        /\ Region' = Region
    BY <1>1, TermsSame
  <2> QED
    BY <1>1, <2>1 DEF Accounted
<1> SUFFICES ASSUME NEW p \in Region.cb..(from' - 1), NEW e \in Nat,
                    Offers(p), Accepts(p, e), prog.extended \/ e <= Region.end
             PROVE  Answered(p)'
  BY <1>4
<1>5. p \in Nat /\ p < from'
  BY <1>1, <1>2, <1>3
<1> DEFINE j == Len(out) + 1
<1>6. j \in DOMAIN out' /\ out'[j] = best
  <2> DEFINE M == [start : Nat, end : Nat]
  <2>1. out \in Seq(M)
    BY <1>2
  <2> HIDE DEF M
  <2> QED
    BY <1>1, <2>1
<1> HIDE DEF j
<1>7. CASE p < from
  <2>1. Answered(p)
    BY <1>2, <1>3, <1>5, <1>7 DEF Accounted
  <2> QED
    BY <1>1, <1>2, <2>1, AnswersStay
<1>8. CASE from <= p /\ p < best.start
  <2>1. p \in from..(Region.ce - 1)
    BY <1>2, <1>3, <1>5, <1>8
  <2>2. ~prog.extended /\ \E s \in from..p : \E f \in s..best.start : Accepts(s, f)
    BY <1>1, <1>8, <2>1 DEF PassesNothing
  <2>3. \E s \in 0..p : \E f \in s..best.start : Accepts(s, f)'
    <3>1. PICK s \in from..p : \E f \in s..best.start : Accepts(s, f)
      BY <2>2
    <3>2. s \in 0..p
      BY <1>2, <1>5
    <3> QED
      BY <1>1, <3>1, <3>2, AcceptsSame
  <2> QED
    BY <1>1, <1>6, <1>8, <2>2, <2>3 DEF Answered
<1>9. CASE best.start <= p
  <2>1. p = best.start \/ (~over /\ best.start < p /\ p < best.end)
    BY <1>1, <1>2, <1>5, <1>9
  <2> QED
    BY <1>1, <1>6, <2>1 DEF Answered
<1> QED
  BY <1>2, <1>5, <1>7, <1>8, <1>9

\* A region is left when its starts are behind the attempt, or when the last
\* attempt has found nothing.
LEMMA LeaveAnswers ==
  ASSUME SearchInv, PassesNothing, RegionEnd \/ NoMatch, Accounted(Region, from)
  PROVE  Accounted(Region, Region.ce)
<1>1. from \in Nat /\ todo # <<>> /\ ListInv
  BY DEF SearchInv, ListInv, TypeOK, Stages, RegionEnd, NoMatch
<1>2. Region.cb \in Nat /\ Region.ce \in Nat
  BY <1>1, RegionBounds
<1> SUFFICES ASSUME NEW p \in Region.cb..(Region.ce - 1), NEW e \in Nat,
                    Offers(p), Accepts(p, e), prog.extended \/ e <= Region.end
             PROVE  Answered(p)
  BY DEF Accounted
<1>3. CASE p < from
  BY <1>1, <1>2, <1>3 DEF Accounted
<1>4. CASE from <= p
  <2>1. pc = "report" /\ best = None
    BY <1>1, <1>2, <1>4 DEF RegionEnd, NoMatch
  <2>2. p \in from..(Region.ce - 1)
    BY <1>1, <1>2, <1>4
  <2> QED
    BY <2>1, <2>2 DEF PassesNothing
<1> QED
  BY <1>1, <1>2, <1>3, <1>4

\* The next region of the plan is the first of those ahead.
LEMMA LeaveProgress ==
  ASSUME SearchInv, PassesNothing, RegionEnd \/ NoMatch, NEW plan, NEW n \in Nat, Progress(plan, n)
  PROVE  Progress(plan, n + 1)'
<1>1. /\ todo' = Tail(todo) /\ pc' = IF todo' = <<>> THEN "done" ELSE "region"
      /\ q' = q /\ prog' = prog /\ text' = text /\ over' = over /\ out' = out
      /\ pc \in {"attempt", "report"}
  BY DEF RegionEnd, NoMatch, LeaveRegion
<1>2. ListInv /\ todo # <<>> /\ PlanOK(todo, Len(text))
  BY <1>1 DEF SearchInv, ListInv, Inputs, Stages
<1>3. Accounted(Region, Region.ce)
  BY <1>1, LeaveAnswers DEF Progress
<1> DEFINE R == [cb : 0..Len(text), ce : 1..(Len(text) + 1), end : 0..Len(text)]
<1>4. todo \in Seq(R) /\ plan \in Seq(R) /\ n \in 0..Len(plan)
  BY <1>2 DEF PlanOK, Progress
<1> HIDE DEF R
<1>5. Len(todo) = Len(plan) - n /\ \A k \in DOMAIN todo : todo[k] = plan[k + n]
  BY DEF Progress
<1>6. /\ Len(todo) \in Nat \ {0} /\ Len(plan) \in Nat /\ 1 \in DOMAIN todo /\ Region = todo[1]
      /\ Len(todo') = Len(todo) - 1
      /\ \A k \in DOMAIN todo' : k \in Nat /\ k + 1 \in DOMAIN todo /\ todo'[k] = todo[k + 1]
  BY <1>1, <1>2, <1>4, HeadAndTail DEF Region
<1>7. Region = plan[n + 1] /\ n + 1 \in 0..Len(plan) /\ Len(todo') = Len(plan) - (n + 1)
  <2>1. Region = plan[1 + n] /\ 1 + n = n + 1
    BY <1>5, <1>6
  <2> QED
    BY <1>4, <1>5, <1>6, <2>1
<1>11. \A k \in DOMAIN todo' : todo'[k] = plan[k + (n + 1)]
  <2> TAKE k \in DOMAIN todo'
  <2>1. todo'[k] = plan[(k + 1) + n] /\ (k + 1) + n = k + (n + 1)
    BY <1>5, <1>6
  <2> QED
    BY <2>1
<1>8. \A k \in 1..(n + 1) : Accounted(plan[k], plan[k].ce)'
  <2>1. \A k \in 1..(n + 1) : Accounted(plan[k], plan[k].ce)
    <3>1. \A k \in 1..(n + 1) : k \in 1..n \/ k = n + 1
      OBVIOUS
    <3>2. \A k \in 1..n : Accounted(plan[k], plan[k].ce)
      BY DEF Progress
    <3> QED
      BY <1>3, <1>7, <3>1, <3>2
  <2> QED
    BY <1>1, <1>2, <2>1, AnswersStay
<1>9. PlanOK(plan, Len(text))'
  BY <1>1 DEF Progress
<1> QED
  BY <1>1, <1>7, <1>8, <1>9, <1>11 DEF Progress

\* Whatever is done, the regions behind are accounted for, and the current one up to
\* where the attempt begins.
LEMMA SearchedKeeps == SearchInv /\ PassesNothing /\ Searched /\ [Next]_vars => Searched'
<1> SUFFICES ASSUME SearchInv, PassesNothing, Searched, [Next]_vars PROVE Searched'
  OBVIOUS
<1>1. PICK plan \in Plans(q, text), n \in Nat : Progress(plan, n)
  BY DEF Searched
<1>2. ListInv /\ todo \in Seq([cb : 0..Len(text), ce : 1..(Len(text) + 1), end : 0..Len(text)])
  BY DEF SearchInv, ListInv, Inputs, PlanOK
<1>3. prog' = prog /\ text' = text /\ q' = q /\ over' = over
  BY DEF Next, vars, nfa, NextRegion, NoRegion, Attempt, RegionEnd, NoMatch, Report, Try,
         SeedFails, Seed, Expand, Scan, Step, Swap, Done, LeaveRegion
<1>4. CASE RegionEnd \/ NoMatch
  <2>1. Progress(plan, n + 1)' /\ n + 1 \in Nat
    BY <1>1, <1>4, LeaveProgress
  <2> QED
    BY <1>3, <2>1 DEF Searched
<1>5. CASE ~(RegionEnd \/ NoMatch)
  <2>1. /\ todo' = todo
        /\ out' = out \/ \E b : out' = Append(out, b)
        /\ pc' = "done" => todo = <<>>
    BY <1>1, <1>5 DEF Progress, Next, vars, nfa, NextRegion, NoRegion, Attempt, Report, Try,
         SeedFails, Seed, Expand, Scan, Step, Swap, Done
  <2>2. \A r, m : Accounted(r, m) => Accounted(r, m)'
    BY <1>2, <1>3, <2>1, AnswersStay
  <2>3. pc' \notin {"region", "done"} => Accounted(Region, from)'
    <3>1. CASE NextRegion
      <4>1. from' = Region.cb /\ Region' = Region /\ Region.cb \in Nat
        BY <1>2, <2>1, <3>1, RegionBounds DEF NextRegion, Region
      <4>2. Region.cb..(Region.cb - 1) = {}
        BY <4>1
      <4> QED
        BY <4>1, <4>2 DEF Accounted
    <3>2. CASE Report
      <4>1. Accounted(Region, from)
        BY <1>1, <3>2 DEF Report, Progress
      <4> QED
        BY <3>2, <4>1, ReportAnswers
    <3>3. CASE NoRegion
      BY <3>3 DEF NoRegion
    <3>4. CASE ~(NextRegion \/ Report \/ NoRegion)
      <4>1. from' = from /\ (pc' \notin {"region", "done"} => pc \notin {"region", "done"})
        BY <1>5, <3>4 DEF Next, vars, nfa, Attempt, Try, SeedFails, Seed, Expand, Scan, Step, Swap, Done
      <4>2. Region' = Region
        BY <2>1 DEF Region
      <4>3. pc' \notin {"region", "done"} => Accounted(Region, from)
        BY <1>1, <4>1 DEF Progress
      <4> QED
        BY <2>2, <4>1, <4>2, <4>3 DEF Accounted
    <3> QED
      BY <3>1, <3>2, <3>3, <3>4
  <2>4. \A k \in 1..n : Accounted(plan[k], plan[k].ce)'
    BY <1>1, <2>2 DEF Progress
  <2>5. Progress(plan, n)'
    BY <1>1, <1>3, <2>1, <2>3, <2>4 DEF Progress
  <2> QED
    BY <1>3, <2>5 DEF Searched
<1> QED
  BY <1>4, <1>5

\* The search begins before the first region of one of its plans.
LEMMA InitSearched == Init => Searched
<1> SUFFICES ASSUME Init PROVE Searched
  OBVIOUS
<1>1. q \in DOMAIN Program /\ text \in Texts /\ todo \in Plans(q, text) /\ pc = "region"
  BY DEF Init
<1>2. PlanOK(todo, Len(text))
  BY <1>1, RegexAssumption
<1> DEFINE R == [cb : 0..Len(text), ce : 1..(Len(text) + 1), end : 0..Len(text)]
<1>3. todo \in Seq(R)
  BY <1>2 DEF PlanOK
<1> HIDE DEF R
<1>4. Len(todo) = Len(todo) - 0 /\ (\A k \in DOMAIN todo : todo[k] = todo[k + 0]) /\ 0 \in 0..Len(todo)
  BY <1>3
<1>5. 1..0 = {}
  OBVIOUS
<1>6. Progress(todo, 0)
  BY <1>1, <1>2, <1>4, <1>5 DEF Progress
<1> QED
  BY <1>1, <1>6 DEF Searched

\* For every program, record and plan: when the search is done, a match of the
\* program from a start of the plan's regions, in what the region lets it read,
\* is reported, or its start is inside a reported match and overlapping is off,
\* or an accepted match from that start or before stands before a reported one.
\* For an extended pattern only the first two are possible.
THEOREM NothingMissed == Spec => []NothingLeft
<1>1. SearchInv /\ PassesNothing /\ Searched /\ [Next]_vars => Searched'
  BY SearchedKeeps
<1>2. Searched => NothingLeft
  <2> SUFFICES ASSUME Searched, pc = "done"
               PROVE  \E plan \in Plans(q, text) : \A k \in DOMAIN plan : Accounted(plan[k], plan[k].ce)
    BY DEF NothingLeft
  <2>1. PICK plan \in Plans(q, text), n \in Nat : Progress(plan, n)
    BY DEF Searched
  <2>2. todo = <<>> /\ n \in 0..Len(plan) /\ Len(todo) = Len(plan) - n
        /\ \A k \in 1..n : Accounted(plan[k], plan[k].ce)
    BY <2>1 DEF Progress
  <2>3. DOMAIN plan = 1..n
    <3> DEFINE R == [cb : 0..Len(text), ce : 1..(Len(text) + 1), end : 0..Len(text)]
    <3>1. plan \in Seq(R)
      BY <2>1 DEF Progress, PlanOK
    <3> HIDE DEF R
    <3> QED
      BY <2>2, <3>1
  <2> QED
    BY <2>2, <2>3
<1> QED
  BY <1>1, <1>2, InitSearched, RegexInvariant, NothingPassed, PTL DEF Spec
=============================================================================
