---------------------------- MODULE RegexSearch ----------------------------
(***************************************************************************)
(* The search for a pattern in one record by the ordered NFA, or by the    *)
(* extended matcher: the loop over the record's regions in Searcher::find  *)
(* (src/src/search.cpp), regex_find_all, regex_search and nfa_search with  *)
(* add_nfa_thread (src/src/regex.cpp).                                     *)
(*                                                                         *)
(* A pattern has a program with a start and prefixes, and for every record *)
(* its plans, the sequences of regions that may be searched.  A region has *)
(* the starts cb..ce-1 and is read up to end.  A thread is a place in the  *)
(* program and the start it came from; threads are listed by preference.   *)
(* An extended pattern is evaluated at one start after the other instead.  *)
(* Captures are left out, and max_matches, which SearchDriver has.         *)
(***************************************************************************)
EXTENDS Integers, Sequences

CONSTANTS
  Texts,           \* the records
  Program,         \* for every pattern: its code, start and prefixes, or extended
  Plans(_, _),     \* the plans of a pattern for a record
  Passes(_, _, _), \* whether an assertion holds at a position of a record
  EvalEnd(_, _, _), \* the end of an extended pattern's match from a start, or None
  None

\* Every instruction but the last leads to another.
ProgramOK(p) ==
  ~p.extended =>
    /\ p.start \in DOMAIN p.code
    /\ \A k \in DOMAIN p.code :
         /\ p.code[k].op # "match" => p.code[k].x \in DOMAIN p.code
         /\ p.code[k].op = "split" => p.code[k].y \in DOMAIN p.code

\* The matches of an extended pattern are in the record.
EvalOK(p, t) == \A s \in 0..Len(t) : EvalEnd(p, t, s) \in {None} \union s..Len(t)

\* The regions of a record of length n follow one another.
PlanOK(plan, n) ==
  /\ plan \in Seq([cb : 0..n, ce : 1..(n + 1), end : 0..n])
  /\ \A k \in DOMAIN plan : plan[k].cb < plan[k].ce
  /\ \A j, k \in DOMAIN plan : j < k => plan[j].ce <= plan[k].cb

\* What an attempt begins with: the instructions that the start leads to
\* without a character.
EntryOf(p) ==
  LET Leading(E) == {k \in E : p.code[k].op \notin {"read", "match"}}
      Onto(E) == E \union {p.code[k].x : k \in Leading(E)}
                   \union {p.code[k].y : k \in {j \in Leading(E) : p.code[j].op = "split"}}
      e[n \in 0..Len(p.code)] == IF n = 0 THEN {p.start} ELSE Onto(e[n - 1])
  IN e[Len(p.code)]

\* Nothing else leads there.
Secluded(E, p) ==
  /\ p.start \in E
  /\ \A k \in DOMAIN p.code :
       LET inside == k \in E /\ p.code[k].op # "read"
       IN /\ p.code[k].op # "match" => (p.code[k].x \in E <=> inside)
          /\ p.code[k].op = "split" => (p.code[k].y \in E <=> inside)

\* A pattern with prefixes does not come back to where it begins: what it
\* begins with may be skipped by no path, and the compiler emits a copy of its
\* own for a round that is required.
EntryOK(p) == p.prefixes # {} => Secluded(EntryOf(p), p)

ASSUME RegexAssumption ==
  /\ None \notin [start : Nat, end : Nat]
  /\ \A t \in Texts : Len(t) \in Nat
  /\ \A p \in DOMAIN Program : ProgramOK(Program[p]) /\ EntryOK(Program[p])
  /\ \A p \in DOMAIN Program, t \in Texts : EvalOK(p, t)
  /\ \A p \in DOMAIN Program, t \in Texts : \A plan \in Plans(p, t) : PlanOK(plan, Len(t))

VARIABLES
  q, prog, text,   \* the pattern, its program, and the record
  over,            \* the option overlapping
  todo,            \* the regions ahead, the one being searched first
  out,             \* the matches found
  pc,
  from,            \* where the attempt begins (candidate_begin)
  pos,             \* where the NFA is, or the start that is tried
  cur, seen,       \* the threads at pos and the places they have been to
  nxt, nseen,      \* the same behind the next character
  stack,           \* threads to be expanded into cur or nxt
  best             \* the match that is preferred so far

nfa  == <<pos, cur, seen, nxt, nseen, stack, best>>
vars == <<q, prog, text, over, todo, out, pc, from, nfa>>

Code == prog.code
Thread(place, start) == [pc |-> place, start |-> start]
Region == Head(todo)

Init ==
  /\ q \in DOMAIN Program /\ prog = Program[q]
  /\ text \in Texts /\ over \in BOOLEAN
  /\ todo \in Plans(q, text)
  /\ out = <<>>
  /\ pc = "region" /\ from = 0
  /\ pos = 0 /\ cur = <<>> /\ seen = {} /\ nxt = <<>> /\ nseen = {}
  /\ stack = <<>> /\ best = None

-----------------------------------------------------------------------------
(* The regions, and the attempts in one of them (regex_find_all).          *)

NextRegion ==
  /\ pc = "region" /\ todo # <<>>
  /\ from' = Region.cb
  /\ pc' = "attempt"
  /\ UNCHANGED <<q, prog, text, over, todo, out, nfa>>

LeaveRegion ==
  /\ todo' = Tail(todo)
  /\ pc' = IF todo' = <<>> THEN "done" ELSE "region"

NoRegion ==
  /\ pc = "region" /\ todo = <<>>
  /\ pc' = "done"
  /\ UNCHANGED <<q, prog, text, over, todo, out, from, nfa>>

Attempt ==
  /\ pc = "attempt" /\ from < Region.ce
  /\ pos' = from
  /\ cur' = <<>> /\ seen' = {} /\ nxt' = <<>> /\ nseen' = {}
  /\ stack' = <<>> /\ best' = None
  /\ pc' = IF prog.extended THEN "try" ELSE "seed"
  /\ UNCHANGED <<q, prog, text, over, todo, out, from>>

RegionEnd ==
  /\ pc = "attempt" /\ from >= Region.ce
  /\ LeaveRegion
  /\ UNCHANGED <<q, prog, text, over, out, from, nfa>>

NoMatch ==
  /\ pc = "report" /\ best = None
  /\ LeaveRegion
  /\ UNCHANGED <<q, prog, text, over, out, from, nfa>>

\* A bug to compare with: an empty match is not stepped over.
ReportAgain ==
  /\ pc = "report" /\ best # None
  /\ out' = Append(out, best)
  /\ from' = IF over THEN best.start + 1 ELSE best.end
  /\ pc' = "attempt"
  /\ UNCHANGED <<q, prog, text, over, todo, nfa>>

\* The next attempt begins behind the match; behind its first character when
\* matches may overlap, or when it is empty.
Report ==
  /\ pc = "report" /\ best # None
  /\ out' = Append(out, best)
  /\ from' = IF over \/ best.end = best.start THEN best.start + 1 ELSE best.end
  /\ pc' = "attempt"
  /\ UNCHANGED <<q, prog, text, over, todo, nfa>>

-----------------------------------------------------------------------------
(* regex_search, for an extended pattern.                                  *)

\* The first start with a match.
Try ==
  /\ pc = "try"
  /\ LET end == EvalEnd(q, text, pos)
     IN best' = IF end = None THEN None ELSE [start |-> pos, end |-> end]
  /\ IF best' = None /\ pos < Len(text) /\ pos + 1 < Region.ce
     THEN pos' = pos + 1 /\ pc' = pc
     ELSE pos' = pos /\ pc' = "report"
  /\ UNCHANGED <<q, prog, text, over, todo, out, from, cur, seen, nxt, nseen, stack>>

-----------------------------------------------------------------------------
(* nfa_search.                                                             *)

Idle == cur = <<>> /\ best = None

PrefixesFrom(p) ==
  {s \in p..Len(text) : \E f \in prog.prefixes :
     s + Len(f) <= Len(text) /\ SubSeq(text, s + 1, s + Len(f)) = f}

\* A bug to compare with: the jump leaves the current position out.
LandingPast ==
  IF Idle /\ prog.prefixes # {} /\ pos < Len(text)
  THEN {s \in PrefixesFrom(pos + 1) : \A r \in PrefixesFrom(pos + 1) : s <= r}
  ELSE {pos}

\* Without threads and without a match the search may go on at the next
\* prefix.
Landing ==
  IF Idle /\ prog.prefixes # {} /\ pos < Len(text)
  THEN {s \in PrefixesFrom(pos) : \A r \in PrefixesFrom(pos) : s <= r}
  ELSE {pos}

SeedFails ==
  /\ pc = "seed" /\ Idle
  /\ \A s \in Landing : s >= Region.ce
  /\ pc' = "report"
  /\ UNCHANGED <<q, prog, text, over, todo, out, from, nfa>>

\* A thread that starts here comes last.
Seed ==
  /\ pc = "seed"
  /\ \E s \in Landing :
       /\ ~(Idle /\ s >= Region.ce)
       /\ pos' = s
       /\ stack' = IF s < Region.ce THEN <<Thread(prog.start, s)>> ELSE <<>>
  /\ pc' = "fill"
  /\ UNCHANGED <<q, prog, text, over, todo, out, from, cur, seen, nxt, nseen, best>>

\* A bug to compare with: a thread that has settled is driven on.
OnwardPast(th, at) ==
  LET i == Code[th.pc]
  IN IF i.op = "split" THEN <<Thread(i.x, th.start), Thread(i.y, th.start)>>
     ELSE <<Thread(i.x, th.start)>>

\* add_nfa_thread: where a thread leads without a character, the preferred
\* way on top of the stack.
Onward(th, at) ==
  LET i == Code[th.pc]
  IN CASE i.op \in {"jmp", "save"} -> <<Thread(i.x, th.start)>>
       [] i.op = "split"  -> <<Thread(i.x, th.start), Thread(i.y, th.start)>>
       [] i.op = "assert" ->
            IF \A a \in i.arg : Passes(a, text, at) THEN <<Thread(i.x, th.start)>> ELSE <<>>
       [] OTHER -> <<>>

Settles(th) == Code[th.pc].op \in {"read", "match"}

\* One thread off the stack: a place that was visited before is dropped.
Expand ==
  LET th    == Head(stack)
      marks == IF pc = "fill" THEN seen ELSE nseen
      fresh == th.pc \notin marks
      at    == IF pc = "fill" THEN pos ELSE pos + 1
      Into(list) == IF fresh /\ Settles(th) THEN Append(list, th) ELSE list
  IN /\ stack # <<>>
     /\ stack' = (IF fresh THEN Onward(th, at) ELSE <<>>) \o Tail(stack)
     /\ IF pc = "fill" THEN /\ cur' = Into(cur) /\ seen' = seen \union {th.pc}
                            /\ UNCHANGED <<nxt, nseen>>
                       ELSE /\ nxt' = Into(nxt) /\ nseen' = nseen \union {th.pc}
                            /\ UNCHANGED <<cur, seen>>
     /\ UNCHANGED <<q, prog, text, over, todo, out, pc, from, pos, best>>

Arrived == {k \in DOMAIN cur : Code[cur[k].pc].op = "match"}

\* A bug to compare with: the threads behind it go on.
ScanOn ==
  /\ pc = "fill" /\ stack = <<>>
  /\ IF Arrived = {} THEN UNCHANGED <<cur, best>>
     ELSE \E k \in Arrived :
            /\ best' = [start |-> cur[k].start, end |-> pos]
            /\ cur' = SubSeq(cur, 1, k - 1) \o SubSeq(cur, k + 1, Len(cur))
  /\ pc' = IF (best' # None /\ cur' = <<>>) \/ pos >= Region.end THEN "report" ELSE "step"
  /\ nxt' = <<>> /\ nseen' = {}
  /\ UNCHANGED <<q, prog, text, over, todo, out, from, pos, seen, stack>>

\* The first thread that has arrived is the best so far, and what stands
\* behind it is given up.
Scan ==
  /\ pc = "fill" /\ stack = <<>>
  /\ IF Arrived = {} THEN UNCHANGED <<cur, best>>
     ELSE LET k == CHOOSE k \in Arrived : \A j \in Arrived : k <= j
          IN /\ best' = [start |-> cur[k].start, end |-> pos]
             /\ cur' = SubSeq(cur, 1, k - 1)
  /\ pc' = IF (best' # None /\ cur' = <<>>) \/ pos >= Region.end THEN "report" ELSE "step"
  /\ nxt' = <<>> /\ nseen' = {}
  /\ UNCHANGED <<q, prog, text, over, todo, out, from, pos, seen, stack>>

\* The next thread reads the character at pos.
Step ==
  /\ pc = "step" /\ stack = <<>> /\ cur # <<>>
  /\ LET i == Code[Head(cur).pc]
     IN stack' = IF text[pos + 1] \in i.arg THEN <<Thread(i.x, Head(cur).start)>> ELSE <<>>
  /\ cur' = Tail(cur)
  /\ UNCHANGED <<q, prog, text, over, todo, out, pc, from, pos, seen, nxt, nseen, best>>

\* A bug to compare with: the marks of the list are lost.
SwapClean ==
  /\ pc = "step" /\ stack = <<>> /\ cur = <<>>
  /\ cur' = nxt /\ seen' = {}
  /\ nxt' = <<>> /\ nseen' = {}
  /\ pos' = pos + 1
  /\ pc' = IF cur' = <<>> /\ best # None THEN "report" ELSE "seed"
  /\ UNCHANGED <<q, prog, text, over, todo, out, from, stack, best>>

\* The lists change places.
Swap ==
  /\ pc = "step" /\ stack = <<>> /\ cur = <<>>
  /\ cur' = nxt /\ seen' = nseen
  /\ nxt' = <<>> /\ nseen' = {}
  /\ pos' = pos + 1
  /\ pc' = IF cur' = <<>> /\ best # None THEN "report" ELSE "seed"
  /\ UNCHANGED <<q, prog, text, over, todo, out, from, stack, best>>

Done == pc = "done" /\ UNCHANGED vars

Next ==
  \/ NextRegion \/ NoRegion \/ Attempt \/ RegionEnd \/ NoMatch \/ Report \/ Try
  \/ SeedFails \/ Seed \/ Expand \/ Scan \/ Step \/ Swap \/ Done

Spec == Init /\ [][Next]_vars

-----------------------------------------------------------------------------
(* Properties.                                                             *)

Threads(list) == {list[k] : k \in DOMAIN list}
Addresses == DOMAIN Code
Known  == Threads(cur) \union Threads(nxt) \union Threads(stack)

\* The type of the state.
TypeOK ==
  /\ pc \in {"region", "attempt", "try", "seed", "fill", "step", "report", "done"}
  /\ from \in 0..(Len(text) + 1) /\ pos \in 0..Len(text)
  /\ {cur, nxt, stack} \subseteq Seq([pc : Addresses, start : 0..pos])
  /\ seen \subseteq Addresses /\ nseen \subseteq Addresses
  /\ best # None => best \in [start : 0..pos, end : 0..Len(text)] /\ best.start <= best.end
  /\ out \in Seq([start : Nat, end : Nat])

\* Threads from an earlier start are preferred to those from a later one, in
\* either list and in what is still to be added to it, and no two threads of a
\* list are at the same place: a character costs no more than the program is
\* long.
Rising(list) == \A j, k \in DOMAIN list : j < k => list[j].start <= list[k].start
Apart(list)  == \A j, k \in DOMAIN list : list[j].pc = list[k].pc => j = k

Priority ==
  /\ Apart(cur) /\ Apart(nxt)
  /\ pc = "fill" => Rising(cur \o stack)
  /\ pc # "fill" => Rising(nxt \o stack \o cur)

\* Attempts go forward, over all regions: no start is reported twice, whatever
\* is empty or overlaps.
Ordered ==
  \A k \in DOMAIN out : k > 1 => out[k - 1].start < out[k].start

\* What Priority and Ordered rest on: which lists are in use at which point, the
\* marks of what is in them, and where an attempt and its threads are between the last match and the
\* end of the region.
Inputs ==
  /\ ProgramOK(prog) /\ EvalOK(q, text)
  /\ Len(text) \in Nat /\ PlanOK(todo, Len(text))

Stages ==
  /\ pc \notin {"region", "done"} => todo # <<>>
  /\ pc # "step" => nxt = <<>>
  /\ pc \notin {"fill", "step"} => stack = <<>>
  /\ pc \in {"seed", "fill", "step"} => ~prog.extended
  /\ pc = "try" => prog.extended /\ pos < Region.ce
  /\ pc = "step" => pos < Region.end /\ \A th \in Threads(cur) : Code[th.pc].op # "match"

Marked ==
  /\ \A th \in Threads(cur) : th.pc \in seen
  /\ \A th \in Threads(nxt) : th.pc \in nseen

Below(a, b) == \A x \in Threads(a), y \in Threads(b) : x.start <= y.start

ListsInOrder ==
  /\ Apart(cur) /\ Apart(nxt)
  /\ Rising(cur) /\ Rising(nxt) /\ Rising(stack)
  /\ pc = "fill" => Below(cur, stack)
  /\ pc = "step" => Below(nxt, stack) /\ Below(stack, cur) /\ Below(nxt, cur)

InAttempt == pc \in {"try", "seed", "fill", "step", "report"}

Within ==
  InAttempt =>
    /\ from <= pos /\ from < Region.ce
    /\ \A th \in Known : from <= th.start /\ th.start < Region.ce
    /\ best # None => from <= best.start /\ best.start < Region.ce

Behind ==
  \A k \in DOMAIN out :
    /\ pc = "region" /\ todo # <<>> => out[k].start < Region.cb
    /\ pc \notin {"region", "done"} => out[k].start < from /\ out[k].start < Region.ce

ListInv ==
  Inputs /\ TypeOK /\ Stages /\ Marked /\ ListsInOrder /\ Within /\ Behind /\ Ordered

\* What add_nfa_thread has been to leads only to what it has been to and to what
\* is on the stack, and where a thread can wait one is in the list: a thread
\* that is dropped at a mark is not missed.  After a jump to a prefix the marks
\* are those of an earlier position (the lists are not cleared); nothing that
\* an attempt begins with is among them.
Ahead(a, at) == {th.pc : th \in Threads(Onward(Thread(a, 0), at))}
Occupied(list) == {th.pc : th \in Threads(list)}
Entry == EntryOf(prog)

ClosedUp(marks, list, at) ==
  \A a \in marks :
    /\ Ahead(a, at) \subseteq marks \union Occupied(stack)
    /\ Code[a].op \in {"read", "match"} => a \in Occupied(list)

Explored ==
  /\ EntryOK(prog)
  /\ \A x, y \in Threads(stack) : x.start = y.start
  /\ \A th \in Threads(cur) \union Threads(nxt) : Settles(th)
  /\ pc = "seed" => ClosedUp(seen, cur, pos)
  /\ pc = "step" => ClosedUp(nseen, nxt, pos + 1)
  /\ pc = "fill" =>
       \/ ClosedUp(seen, cur, pos)
       \/ /\ prog.prefixes # {} /\ Occupied(stack) \subseteq Entry
          /\ ClosedUp(seen \intersect Entry, cur, pos)
  /\ prog.prefixes # {} =>
       /\ pc = "seed" => seen \intersect Entry = {}
       /\ pc = "step" => (nseen \union Occupied(stack)) \intersect Entry = {}

SearchInv == ListInv /\ Explored
=============================================================================
