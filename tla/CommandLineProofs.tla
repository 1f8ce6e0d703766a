------------------------- MODULE CommandLineProofs -------------------------
(***************************************************************************)
(* Theorems about CommandLine, for every set of flags, of files and of     *)
(* patterns: the options never contradict each other and the context is    *)
(* the one asked for; the lines written are exactly the windows of the     *)
(* selected ones; the exit status says whether some file has what was      *)
(* asked for; and the counts written are those of the whole run.           *)
(***************************************************************************)
EXTENDS CommandLine, FoldProofs, TLAPS

-----------------------------------------------------------------------------
(* Options.                                                                *)

Agrees(S) == \A p \in Exclusive : \A x, y \in p : x \in S /\ y \in S => x = y

\* A flag that turns a switch on takes back whatever excludes it.
LEMMA Partner ==
  ASSUME NEW flag, NEW times,
         NEW p \in Exclusive, NEW x \in p, NEW y \in p, x # y, x \in TurnsOn(flag, times)
  PROVE  y \in TakesBack(flag) /\ y \notin TurnsOn(flag, times)
<1> DEFINE others == UNION {q \in Exclusive : flag \in q}
<1> DEFINE special == {"after", "before", "context", "pretty", "unrestricted"}
<1>1. flag \notin DOMAIN Negation
  BY DEF TurnsOn, Negation
<1>8. flag \in p => y \in others
  OBVIOUS
<1>2. x \in UNION Exclusive /\ y \in UNION Exclusive
  OBVIOUS
<1>3. flag \notin special
  BY <1>1, <1>2 DEF TurnsOn, Exclusive, SummaryModes, Negation
<1>4. CASE flag = "lineRegexp"
  BY <1>1, <1>4 DEF TurnsOn, TakesBack, Exclusive, SummaryModes
<1>5. CASE flag = "wordRegexp"
  BY <1>1, <1>5 DEF TurnsOn, TakesBack, Exclusive, SummaryModes
<1>6. CASE flag = "nullData"
  <2>1. x = "nullData" /\ p = {"crlf", "nullData"}
    BY <1>1, <1>6 DEF TurnsOn, Exclusive, SummaryModes
  <2>2. y = "crlf"
    BY <2>1
  <2>3. y \in others
    <3> HIDE DEF others
    <3> QED
      BY <1>8, <1>6, <2>1, <2>2
  <2>4. TakesBack(flag) = others
    BY <1>1, <1>6 DEF TakesBack
  <2>5. TurnsOn(flag, times) = {"nullData", "text"}
    BY <1>1, <1>6 DEF TurnsOn
  <2>6. y \in TakesBack(flag)
    <3> HIDE DEF others
    <3> QED
      BY <2>3, <2>4
  <2> QED
    BY <2>2, <2>5, <2>6
<1>7. CASE flag \notin {"lineRegexp", "wordRegexp", "nullData"}
  <2>1. TurnsOn(flag, times) = {flag}
    BY <1>1, <1>3, <1>7 DEF TurnsOn
  <2>2. x = flag /\ flag # "passthru"
    BY <2>1, <1>2 DEF Exclusive, SummaryModes
  <2>3. TakesBack(flag) = others
    BY <1>1, <1>7, <2>2 DEF TakesBack
  <2>4. y # flag /\ flag \in p
    BY <2>2
  <2>5. y \in TakesBack(flag)
    <3> HIDE DEF others
    <3> QED
      BY <1>8, <2>3, <2>4
  <2> QED
    BY <2>1, <2>4, <2>5
<1> QED
  BY <1>4, <1>5, <1>6, <1>7

LEMMA SwitchedAgrees ==
  ASSUME NEW S, NEW flag, NEW times, Agrees(S)
  PROVE  Agrees(Switched(S, flag, times))
<1>1. CASE flag \in SummaryModes /\ "files" \in S
  BY <1>1 DEF Switched
<1>2. CASE ~(flag \in SummaryModes /\ "files" \in S)
  <2> DEFINE T == (S \ TakesBack(flag)) \cup TurnsOn(flag, times)
  <2> SUFFICES ASSUME NEW p \in Exclusive, NEW x \in p, NEW y \in p, x \in T, y \in T, x # y
               PROVE  FALSE
    BY <1>2 DEF Agrees, Switched
  <2>1. x \notin TurnsOn(flag, times) /\ y \notin TurnsOn(flag, times)
    BY Partner
  <2> QED
    BY <2>1 DEF Agrees
<1> QED
  BY <1>1, <1>2

\* What Resolved leaves out is out, and the rest still agrees.
LEMMA ResolvedAgrees ==
  ASSUME NEW S, Agrees(S)
  PROVE  /\ Agrees(Resolved(S))
         /\ ~({"contextSeen", "passthru"} \subseteq Resolved(S))
         /\ ~({"onlyMatching", "count"} \subseteq Resolved(S))
<1> DEFINE shown == IF "contextSeen" \in S THEN S \ {"passthru"} ELSE S
<1>1. Agrees(shown) /\ ~({"contextSeen", "passthru"} \subseteq shown)
  BY DEF Agrees
<1>2. CASE {"onlyMatching", "count"} \subseteq shown
  <2> DEFINE T == (shown \ {"count"}) \cup {"countMatches"}
  <2>1. Resolved(S) = T
    BY <1>2 DEF Resolved
  <2> SUFFICES ASSUME NEW p \in Exclusive, NEW x \in p, NEW y \in p, x \in T, y \in T
               PROVE  x = y
    BY <1>1, <2>1 DEF Agrees
  <2>2. "countMatches" \in p => p = SummaryModes
    BY DEF Exclusive, SummaryModes
  <2>3. \A z \in SummaryModes : z \in shown => z = "count"
    BY <1>1, <1>2 DEF Agrees, Exclusive, SummaryModes
  <2> QED
    BY <1>1, <2>2, <2>3 DEF Agrees
<1>3. CASE ~({"onlyMatching", "count"} \subseteq shown)
  BY <1>1, <1>3 DEF Resolved
<1> QED
  BY <1>2, <1>3

\* Options that exclude each other are never on together, whatever the
\* arguments and their order (parse_long, parse_short and parse).
THEOREM OptionsAgree == Spec => []OptionsInv
<1>1. Init => OptionsInv
  BY DEF Init, OptionsInv
<1>2. OptionsInv /\ [Next]_vars => OptionsInv'
  <2> SUFFICES ASSUME OptionsInv, [Next]_vars PROVE OptionsInv'
    OBVIOUS
  <2>0. Agrees(on)
    BY DEF OptionsInv, Agrees
  <2>1. ASSUME NEW t, Read(t), pc = "parse" PROVE OptionsInv'
    <3>1. Agrees(Switched(on, t.flag, num'.unrestricted))
      BY <2>0, SwitchedAgrees
    <3>2. Agrees(on)'
      BY <3>1, <2>1 DEF Read, Agrees
    <3> QED
      BY <2>1, <3>2 DEF Read, OptionsInv, Agrees
  <2>2. CASE ReadConfig
    BY <2>1, <2>2 DEF ReadConfig
  <2>3. CASE ReadFlag
    BY <2>1, <2>3 DEF ReadFlag
  <2>4. CASE EndOfFlags
    <3>1. on' = Resolved(on)
      BY <2>4 DEF EndOfFlags
    <3>2. Agrees(on)' /\ ~({"contextSeen", "passthru"} \subseteq on') /\ ~({"onlyMatching", "count"} \subseteq on')
      BY <2>0, <3>1, ResolvedAgrees DEF Agrees
    <3> QED
      BY <3>2 DEF OptionsInv, Agrees
  <2>5. CASE UNCHANGED on /\ pc # "parse"
    BY <2>5 DEF OptionsInv
  <2>6. CASE UNCHANGED vars
    BY <2>6 DEF vars, parsing, OptionsInv
  <2>7. ASSUME Next, ~ReadConfig, ~ReadFlag, ~EndOfFlags PROVE UNCHANGED on /\ pc # "parse"
    BY <2>7 DEF Next, Refuse, Open, ListAll, Search, RefuseJson, PassFile, Begin, ListFile, QuietFound,
         Goes, CountFile, PassOver, JsonFile, EachMatch, StartLines, PrintLine, PassLine, EndLines, Finish,
         NextFile, Return, parsing
  <2> QED
    BY <2>2, <2>3, <2>4, <2>5, <2>6, <2>7
<1> QED
  BY <1>1, <1>2, PTL DEF Spec

-----------------------------------------------------------------------------
(* Types.                                                                  *)

LEMMA ValuedType ==
  ASSUME NEW v \in Given, NEW S, NEW flag, NEW n \in Nat
  PROVE  Valued(v, S, flag, n) \in Given
<1> USE DEF Given
<1>1. CASE flag = "context"
  BY <1>1 DEF Valued
<1>2. CASE flag \in {"after", "before", "maxCount", "maxDepth", "maxFilesize"}
  BY <1>2 DEF Valued
<1>3. CASE flag = "unrestricted"
  <2>1. Valued(v, S, flag, n) = [v EXCEPT !.unrestricted = v.unrestricted + 1]
    BY <1>3 DEF Valued
  <2> QED
    BY <2>1
<1>4. CASE flag \notin {"context", "after", "before", "maxCount", "maxDepth", "maxFilesize", "unrestricted"}
  BY <1>4 DEF Valued
<1> QED
  BY <1>1, <1>2, <1>3, <1>4

\* What every step after the arguments leaves alone or keeps in its type.
LEMMA ReadType ==
  ASSUME TypeOK, pc = "parse", NEW t \in Flags, Read(t), pending' \in Seq(Flags)
  PROVE  TypeOK'
<1>1. t.n \in Nat
  BY CommandAssumption
<1>2. num' \in Given
  BY <1>1, ValuedType DEF TypeOK, Read
<1>3. argv' \in Seq(Flags)
  BY DEF TypeOK, Read
<1> QED
  BY <1>2, <1>3 DEF TypeOK, Read, writing

LEMMA InitType == Init => TypeOK
<1> SUFFICES ASSUME Init PROVE TypeOK
  OBVIOUS
<1>1. pending \in Seq(Flags)
  BY CommandAssumption DEF Init
<1>2. num \in Given
  BY DEF Init, NoValues, Given
<1>3. argv \in Seq(Flags)
  BY DEF Init
<1> QED
  BY <1>1, <1>2, <1>3 DEF Init, TypeOK

LEMMA NextType == TypeOK /\ [Next]_vars => TypeOK'
<1> SUFFICES ASSUME TypeOK, [Next]_vars PROVE TypeOK'
  OBVIOUS
<1> USE DEF TypeOK
<1>1. CASE ReadConfig
  <2>1. Head(pending) \in Flags /\ Tail(pending) \in Seq(Flags)
    BY <1>1 DEF ReadConfig
  <2> QED
    BY <1>1, <2>1, ReadType DEF ReadConfig
<1>2. CASE ReadFlag
  <2>1. PICK t \in Flags : Read(t)
    BY <1>2 DEF ReadFlag
  <2> QED
    BY <1>2, <2>1, ReadType DEF ReadFlag
<1>3. CASE EndOfFlags
  <2>1. argv' \in Seq(Flags)
    BY <1>3 DEF EndOfFlags
  <2> QED
    BY <1>3, <2>1 DEF EndOfFlags, writing
<1>4. ASSUME NEW code \in {0, 1, 2}, Return(code) PROVE TypeOK'
  BY <1>4 DEF Return, parsing, writing
<1>5. CASE Refuse
  BY <1>4, <1>5 DEF Refuse
<1>6. CASE Open
  BY <1>6 DEF Open, parsing, writing
<1>7. CASE ListAll
  BY <1>4, <1>7 DEF ListAll
<1>8. CASE Search
  BY <1>8 DEF Search, parsing, writing
<1>9. CASE RefuseJson
  BY <1>4, <1>9 DEF RefuseJson
<1>10. CASE Begin
  <2>1. notice' \in BOOLEAN
    BY <1>10 DEF Begin, Notice
  <2> QED
    BY <1>10, <2>1 DEF Begin, parsing
<1>11. ASSUME NextFile, any' \in BOOLEAN, DOMAIN tally' = DOMAIN tally, status = -1 PROVE TypeOK'
  BY <1>11 DEF NextFile, parsing, writing
<1>12. CASE PassFile
  BY <1>11, <1>12 DEF PassFile
<1>13. CASE ListFile
  <2>1. any' \in BOOLEAN
    BY <1>13 DEF ListFile, Emits, Hit, Has
  <2> QED
    BY <1>11, <1>13, <2>1 DEF ListFile
<1>14. CASE QuietFound
  BY <1>4, <1>14 DEF QuietFound
<1>15. CASE CountFile
  <2>1. any' \in BOOLEAN
    BY <1>15 DEF CountFile
  <2> QED
    BY <1>11, <1>15, <2>1 DEF CountFile, Goes
<1>16. CASE PassOver
  <2>1. any' \in BOOLEAN
    BY <1>16 DEF PassOver, Suppress
  <2> QED
    BY <1>11, <1>16, <2>1 DEF PassOver, Goes
<1>17. CASE JsonFile
  <2>1. any' \in BOOLEAN
    BY <1>17 DEF JsonFile, Hit
  <2> QED
    BY <1>11, <1>17, <2>1 DEF JsonFile, Goes
<1>18. CASE EachMatch
  <2>1. any' \in BOOLEAN
    BY <1>18 DEF EachMatch, Hit, Has
  <2> QED
    BY <1>11, <1>18, <2>1 DEF EachMatch, Goes
<1>19. CASE StartLines
  BY <1>19 DEF StartLines, Goes, parsing
<1>20. CASE PrintLine
  BY <1>20 DEF PrintLine, parsing
<1>21. CASE PassLine
  BY <1>21 DEF PassLine, parsing
<1>22. CASE EndLines
  BY <1>11, <1>22 DEF EndLines
<1>23. CASE Finish
  BY <1>4, <1>23 DEF Finish
<1>24. CASE UNCHANGED vars
  BY <1>24 DEF vars, parsing, writing
<1> QED
  BY <1>1, <1>2, <1>3, <1>5, <1>6, <1>7, <1>8, <1>9, <1>10, <1>12, <1>13, <1>14, <1>15, <1>16, <1>17,
     <1>18, <1>19, <1>20, <1>21, <1>22, <1>23, <1>24 DEF Next

\* The variables keep their types (Args and the state of main).
THEOREM Types == Spec => []TypeOK
BY InitType, NextType, PTL DEF Spec

-----------------------------------------------------------------------------
(* Context.                                                                *)

Sides == {"after", "before", "context"}

\* The value of the last argument of a kind.
Says(flags, v) == \E i \in Times(flags) : (\A j \in Times(flags) : j <= i) /\ argv[i].n = v

Side(flag, v) ==
  IF Times({flag}) # {} THEN Says({flag}, v)
  ELSE IF Times({"context"}) # {} THEN Says({"context"}, v) ELSE v = 0

\* The marks and the values tell what the arguments so far have said.
ContextInv ==
  pc = "parse" =>
    /\ "afterExplicit" \in on <=> Times({"after"}) # {}
    /\ "beforeExplicit" \in on <=> Times({"before"}) # {}
    /\ "contextSeen" \notin on <=>
         Times(Sides) = {} \/ \E i \in Times({"passthru"}) : \A j \in Times(Sides) : j < i
    /\ "passthru" \in on <=>
         \E i \in Times({"passthru"}) : \A j \in Times({"noPassthru"}) : j < i
    /\ Side("after", num.after) /\ Side("before", num.before)

\* What an argument does to the marks.
LEMMA Marked ==
  ASSUME NEW S, NEW flag \in STRING, NEW times, flag \notin Marks
  PROVE  LET T == Switched(S, flag, times)
         IN /\ "afterExplicit" \in T <=> "afterExplicit" \in S \/ flag = "after"
            /\ "beforeExplicit" \in T <=> "beforeExplicit" \in S \/ flag = "before"
            /\ "contextSeen" \in T <=> flag \in Sides \/ ("contextSeen" \in S /\ flag # "passthru")
            /\ "passthru" \in T <=> flag = "passthru" \/ ("passthru" \in S /\ flag # "noPassthru")
<1> DEFINE watched == {"afterExplicit", "beforeExplicit", "contextSeen", "passthru"}
<1> DEFINE others == UNION {p \in Exclusive : flag \in p}
<1>1. CASE flag \in SummaryModes /\ "files" \in S
  BY <1>1 DEF Switched, SummaryModes, Sides
<1>2. CASE ~(flag \in SummaryModes /\ "files" \in S)
  <2>1. Switched(S, flag, times) = (S \ TakesBack(flag)) \cup TurnsOn(flag, times)
    BY <1>2 DEF Switched
  <2>2. others \cap watched = {}
    BY DEF Exclusive, SummaryModes
  <2>3. TakesBack(flag) \cap watched =
          IF flag = "passthru" THEN {"contextSeen"} ELSE IF flag = "noPassthru" THEN {"passthru"} ELSE {}
    <3>1. CASE flag \in DOMAIN Negation
      BY <3>1 DEF TakesBack, Negation
    <3>2. CASE flag \notin DOMAIN Negation /\ flag \in {"passthru", "lineRegexp", "wordRegexp"}
      BY <3>2 DEF TakesBack
    <3>3. CASE flag \notin DOMAIN Negation /\ flag \notin {"passthru", "lineRegexp", "wordRegexp"}
      <4>1. TakesBack(flag) = others
        BY <3>3 DEF TakesBack
      <4>2. flag # "noPassthru"
        BY <3>3 DEF Negation
      <4> HIDE DEF others, watched
      <4> QED
        BY <2>2, <3>3, <4>1, <4>2
    <3> QED
      BY <3>1, <3>2, <3>3
  <2>4. TurnsOn(flag, times) \cap watched =
          CASE flag = "after" -> {"afterExplicit", "contextSeen"}
            [] flag = "before" -> {"beforeExplicit", "contextSeen"}
            [] flag = "context" -> {"contextSeen"}
            [] flag = "passthru" -> {"passthru"}
            [] OTHER -> {}
    <3>1. CASE flag \in DOMAIN Negation
      BY <3>1 DEF TurnsOn, Negation
    <3>2. CASE flag \in {"after", "before", "context", "lineRegexp", "wordRegexp", "nullData", "pretty"}
      BY <3>2 DEF TurnsOn, Negation
    <3>3. CASE flag = "unrestricted"
      BY <3>3 DEF TurnsOn, Negation
    <3>4. CASE /\ flag \notin DOMAIN Negation
               /\ flag \notin {"after", "before", "context", "lineRegexp", "wordRegexp", "nullData", "pretty", "unrestricted"}
      <4>1. TurnsOn(flag, times) = {flag}
        BY <3>4 DEF TurnsOn
      <4> QED
        BY <3>4, <4>1 DEF Marks
    <3> QED
      BY <3>1, <3>2, <3>3, <3>4
  <2>5. \A x \in watched : x \in Switched(S, flag, times) <=>
          (x \in S /\ x \notin TakesBack(flag) \cap watched) \/ x \in TurnsOn(flag, times) \cap watched
    BY <2>1
  <2> QED
    BY <2>3, <2>4, <2>5 DEF Sides
<1> QED
  BY <1>1, <1>2

\* One argument more.
LEMMA OneArgument ==
  ASSUME TypeOK, NEW t \in Flags, Read(t), NEW flags
  PROVE  LET n == Len(argv) + 1
         IN /\ n \in Nat /\ \A i \in Times(flags) : i \in Nat /\ i < n /\ argv'[i] = argv[i]
            /\ argv'[n] = t
            /\ Times(flags)' = IF t.flag \in flags THEN Times(flags) \cup {n} ELSE Times(flags)
<1> DEFINE n == Len(argv) + 1
<1>1. argv \in Seq(Flags) /\ argv' = Append(argv, t)
  BY DEF TypeOK, Read
<1>2. Len(argv) \in Nat /\ DOMAIN argv = 1..Len(argv) /\ DOMAIN argv' = 1..n
  BY <1>1
<1>3. argv'[n] = t /\ \A i \in 1..Len(argv) : argv'[i] = argv[i]
  BY <1>1
<1>4. \A i : i \in 1..n <=> i \in 1..Len(argv) \/ i = n
  BY <1>2
<1>5. \A i : i \in Times(flags)' <=> i \in Times(flags) \/ (i = n /\ t.flag \in flags)
  BY <1>2, <1>3, <1>4 DEF Times
<1>6. \A i \in Times(flags) : i \in Nat /\ i < n /\ argv'[i] = argv[i]
  BY <1>2, <1>3 DEF Times
<1>7. Times(flags)' = IF t.flag \in flags THEN Times(flags) \cup {n} ELSE Times(flags)
  <2> DEFINE S == IF t.flag \in flags THEN Times(flags) \cup {n} ELSE Times(flags)
  <2>1. \A i : i \in S <=> i \in Times(flags) \/ (i = n /\ t.flag \in flags)
    OBVIOUS
  <2>2. \A i : i \in Times(flags)' <=> i \in S
    BY <1>5, <2>1
  <2> HIDE DEF S
  <2>3. Times(flags)' \subseteq S /\ S \subseteq Times(flags)'
    BY <2>2
  <2>4. Times(flags)' = S
    BY <2>3
  <2> QED
    BY <2>4 DEF S
<1> QED
  BY <1>2, <1>3, <1>6, <1>7


LEMMA SideKept ==
  ASSUME TypeOK, NEW t \in Flags, Read(t), NEW flag \in {"after", "before"}, NEW v, NEW w,
         Side(flag, v),
         w = IF t.flag = flag \/ (t.flag = "context" /\ Times({flag}) = {}) THEN t.n ELSE v
  PROVE  Side(flag, w)'
<1> DEFINE n == Len(argv) + 1
<1>1. n \in Nat /\ argv'[n] = t
  BY OneArgument
<1>2. ASSUME NEW F, t.flag \in F PROVE Says(F, t.n)' /\ Times(F)' # {}
  <2>1. Times(F)' = Times(F) \cup {n} /\ \A i \in Times(F) : i \in Nat /\ i < n
    BY <1>2, OneArgument
  <2>2. n \in Times(F)' /\ \A j \in Times(F)' : j <= n
    <3> HIDE DEF n
    <3> QED
      BY <1>1, <2>1
  <2>3. argv'[n].n = t.n
    BY <1>1
  <2> HIDE DEF n
  <2> QED
    BY <2>2, <2>3 DEF Says
<1>3. ASSUME NEW F, t.flag \notin F, NEW x PROVE (Says(F, x) => Says(F, x)') /\ Times(F)' = Times(F)
  <2>1. Times(F)' = Times(F) /\ \A i \in Times(F) : argv'[i] = argv[i]
    BY <1>3, OneArgument
  <2> QED
    BY <2>1 DEF Says
<1>4. CASE t.flag = flag
  BY <1>2, <1>4 DEF Side
<1>5. CASE t.flag = "context"
  <2>1. Times({flag})' = Times({flag}) /\ (Says({flag}, w) => Says({flag}, w)')
    BY <1>3, <1>5
  <2>2. Says({"context"}, t.n)' /\ Times({"context"})' # {}
    BY <1>2, <1>5
  <2> QED
    BY <1>5, <2>1, <2>2 DEF Side
<1>6. CASE t.flag # flag /\ t.flag # "context"
  <2>1. Times({flag})' = Times({flag}) /\ (Says({flag}, w) => Says({flag}, w)')
    BY <1>3, <1>6
  <2>2. Times({"context"})' = Times({"context"}) /\ (Says({"context"}, w) => Says({"context"}, w)')
    BY <1>3, <1>6
  <2> QED
    BY <1>6, <2>1, <2>2 DEF Side
<1> QED
  BY <1>4, <1>5, <1>6

\* A mark that the arguments in F set and those in G take back.
LEMMA Newest ==
  ASSUME TypeOK, NEW t \in Flags, Read(t), NEW F, NEW G, F \cap G = {}
  PROVE  (\E i \in Times(F) : \A j \in Times(G) : j < i)' <=>
           t.flag \in F \/ (t.flag \notin G /\ \E i \in Times(F) : \A j \in Times(G) : j < i)
<1> DEFINE n == Len(argv) + 1
<1>1. /\ n \in Nat
      /\ Times(F)' = IF t.flag \in F THEN Times(F) \cup {n} ELSE Times(F)
      /\ Times(G)' = IF t.flag \in G THEN Times(G) \cup {n} ELSE Times(G)
      /\ \A i \in Times(F) \cup Times(G) : i \in Nat /\ i < n
  BY OneArgument
<1> HIDE DEF n
<1>2. CASE t.flag \in F
  BY <1>1, <1>2
<1>3. CASE t.flag \in G
  BY <1>1, <1>3
<1>4. CASE t.flag \notin F /\ t.flag \notin G
  BY <1>1, <1>4
<1> QED
  BY <1>2, <1>3, <1>4

LEMMA ReadContext == ASSUME TypeOK, ContextInv, pc = "parse", NEW t \in Flags, Read(t) PROVE ContextInv'
<1>1. t.flag \in STRING /\ t.flag \notin Marks /\ t.n \in Nat /\ num \in Given
  BY CommandAssumption DEF TypeOK
<1>2. /\ "afterExplicit" \in on' <=> "afterExplicit" \in on \/ t.flag = "after"
      /\ "beforeExplicit" \in on' <=> "beforeExplicit" \in on \/ t.flag = "before"
      /\ "contextSeen" \in on' <=> t.flag \in Sides \/ ("contextSeen" \in on /\ t.flag # "passthru")
      /\ "passthru" \in on' <=> t.flag = "passthru" \/ ("passthru" \in on /\ t.flag # "noPassthru")
  <2>1. on' = Switched(on, t.flag, num'.unrestricted)
    BY DEF Read
  <2> QED
    BY <1>1, <2>1, Marked
<1>3. ASSUME NEW flag PROVE Times({flag})' # {} <=> t.flag = flag \/ Times({flag}) # {}
  BY OneArgument
<1>4. "afterExplicit" \in on' <=> Times({"after"})' # {}
  BY <1>2, <1>3 DEF ContextInv
<1>5. "beforeExplicit" \in on' <=> Times({"before"})' # {}
  BY <1>2, <1>3 DEF ContextInv
<1>6. "contextSeen" \notin on' <=>
        Times(Sides)' = {} \/ (\E i \in Times({"passthru"}) : \A j \in Times(Sides) : j < i)'
  <2>1. {"passthru"} \cap Sides = {}
    BY DEF Sides
  <2>2. (\E i \in Times({"passthru"}) : \A j \in Times(Sides) : j < i)' <=>
          \/ t.flag \in {"passthru"}
          \/ t.flag \notin Sides /\ \E i \in Times({"passthru"}) : \A j \in Times(Sides) : j < i
    BY <2>1, Newest
  <2>3. Times(Sides)' = {} <=> Times(Sides) = {} /\ t.flag \notin Sides
    BY OneArgument
  <2> QED
    BY <1>2, <2>1, <2>2, <2>3 DEF ContextInv
<1>7. "passthru" \in on' <=> (\E i \in Times({"passthru"}) : \A j \in Times({"noPassthru"}) : j < i)'
  <2>1. {"passthru"} \cap {"noPassthru"} = {}
    OBVIOUS
  <2>2. (\E i \in Times({"passthru"}) : \A j \in Times({"noPassthru"}) : j < i)' <=>
          \/ t.flag \in {"passthru"}
          \/ t.flag \notin {"noPassthru"} /\ \E i \in Times({"passthru"}) : \A j \in Times({"noPassthru"}) : j < i
    BY <2>1, Newest
  <2> QED
    BY <1>2, <2>2 DEF ContextInv
<1>8. /\ num'.after  = IF t.flag = "after" \/ (t.flag = "context" /\ Times({"after"}) = {}) THEN t.n ELSE num.after
      /\ num'.before = IF t.flag = "before" \/ (t.flag = "context" /\ Times({"before"}) = {}) THEN t.n ELSE num.before
  <2>1. num' = Valued(num, on, t.flag, t.n)
    BY DEF Read
  <2>2. CASE t.flag = "context"
    BY <1>1, <2>1, <2>2 DEF Valued, Given, ContextInv
  <2>3. CASE t.flag # "context"
    BY <1>1, <2>1, <2>3 DEF Valued, Given
  <2> QED
    BY <2>2, <2>3
<1>9. Side("after", num.after)'
  <2>1. PICK w : w = num'.after
    OBVIOUS
  <2>2. Side("after", w)'
    BY <1>8, <2>1, SideKept DEF ContextInv
  <2> QED
    BY <2>1, <2>2 DEF Side, Says
<1>10. Side("before", num.before)'
  <2>1. PICK w : w = num'.before
    OBVIOUS
  <2>2. Side("before", w)'
    BY <1>8, <2>1, SideKept DEF ContextInv
  <2> QED
    BY <2>1, <2>2 DEF Side, Says
<1> QED
  BY <1>4, <1>5, <1>6, <1>7, <1>9, <1>10 DEF ContextInv

\* The last of a kind is the one that Latest takes.
LEMMA LatestSays ==
  ASSUME TypeOK, NEW flags, NEW v, Says(flags, v)
  PROVE  v = Latest(flags)
<1>1. Times(flags) \subseteq Int
  BY DEF TypeOK, Times
<1>2. PICK i \in Times(flags) : (\A j \in Times(flags) : j <= i) /\ argv[i].n = v
  BY DEF Says
<1>3. \A x \in Times(flags) : (\A y \in Times(flags) : x >= y) => x = i
  BY <1>1, <1>2
<1>4. Max(Times(flags)) = i
  BY <1>1, <1>2, <1>3 DEF Max
<1> QED
  BY <1>2, <1>4 DEF Latest

LEMMA ContextSaid == TypeOK /\ ContextInv => ContextAsAsked
<1> SUFFICES ASSUME TypeOK, ContextInv, pc = "parse" PROVE ContextAsAsked
  BY DEF ContextAsAsked
<1>1. num.after = IF Times({"after"}) # {} THEN Latest({"after"})
                  ELSE IF Times({"context"}) # {} THEN Latest({"context"}) ELSE 0
  BY LatestSays DEF ContextInv, Side
<1>2. num.before = IF Times({"before"}) # {} THEN Latest({"before"})
                   ELSE IF Times({"context"}) # {} THEN Latest({"context"}) ELSE 0
  BY LatestSays DEF ContextInv, Side
<1>3. "passthru" \in Resolved(on) <=> "passthru" \in on /\ "contextSeen" \notin on
  BY DEF Resolved
<1> DEFINE shown == Times({"passthru"})
<1> DEFINE hidden == Times({"noPassthru"})
<1> DEFINE aside == Times(Sides)
<1> DEFINE all == Times({"noPassthru", "after", "before", "context"})
<1>4. shown \subseteq Int /\ \A j : j \in all <=> j \in hidden \/ j \in aside
  BY DEF TypeOK, Times, Sides
<1>5. aside \subseteq Int /\ hidden \subseteq Int /\ shown \cap aside = {}
  BY DEF TypeOK, Times, Sides
<1>6. "passthru" \in on <=> \E i \in shown : \A j \in hidden : j < i
  BY DEF ContextInv
<1>7. "contextSeen" \notin on <=> aside = {} \/ \E i \in shown : \A j \in aside : j < i
  BY DEF ContextInv
<1> HIDE DEF shown, hidden, aside, all
<1>8. "passthru" \in Resolved(on) <=> \E i \in shown : \A j \in all : j < i
  <2>1. ASSUME NEW i \in shown, \A j \in all : j < i PROVE "passthru" \in Resolved(on)
    BY <1>3, <1>4, <1>6, <1>7, <2>1
  <2>2. ASSUME "passthru" \in on, "contextSeen" \notin on PROVE \E i \in shown : \A j \in all : j < i
    <3>1. PICK i \in shown : \A j \in hidden : j < i
      BY <1>6, <2>2
    <3>2. CASE aside = {}
      BY <1>4, <3>1, <3>2
    <3>3. CASE aside # {}
      <4>1. PICK k \in shown : \A j \in aside : j < k
        BY <1>7, <2>2, <3>3
      <4>2. CASE i <= k
        <5>1. ASSUME NEW j \in all PROVE j < k
          <6>1. j \in Int /\ i \in Int /\ k \in Int /\ (j < i \/ j < k)
            BY <1>4, <1>5, <3>1, <4>1
          <6> QED
            BY <6>1, <4>2
        <5> QED
          BY <5>1
      <4>3. CASE k < i
        <5>1. ASSUME NEW j \in all PROVE j < i
          <6>1. j \in Int /\ i \in Int /\ k \in Int /\ (j < i \/ j < k)
            BY <1>4, <1>5, <3>1, <4>1
          <6> QED
            BY <6>1, <4>3
        <5> QED
          BY <5>1
      <4> QED
        BY <1>4, <4>2, <4>3
    <3> QED
      BY <3>2, <3>3
  <2> QED
    BY <1>3, <2>1, <2>2
<1> QED
  BY <1>1, <1>2, <1>8 DEF ContextAsAsked, shown, all

\* Once the arguments are read nothing is said of them any more.
LEMMA NextContext == TypeOK /\ ContextInv /\ [Next]_vars => ContextInv'
<1> SUFFICES ASSUME TypeOK, ContextInv, [Next]_vars PROVE ContextInv'
  OBVIOUS
<1>1. CASE ReadConfig
  <2>1. Head(pending) \in Flags /\ pc = "parse"
    BY <1>1 DEF ReadConfig, TypeOK
  <2> QED
    BY <1>1, <2>1, ReadContext DEF ReadConfig
<1>2. CASE ReadFlag
  BY <1>2, ReadContext DEF ReadFlag
<1>3. CASE UNCHANGED vars
  <2>1. UNCHANGED <<pc, on, num, argv>>
    BY <1>3 DEF vars, parsing
  <2>2. \A F : Times(F)' = Times(F)
    BY <2>1 DEF Times
  <2>3. PICK a, b : a = num.after /\ b = num.before
    OBVIOUS
  <2>4. (Side("after", a)' <=> Side("after", a)) /\ (Side("before", b)' <=> Side("before", b))
    BY <2>1, <2>2 DEF Side, Says
  <2>5. (Side("after", num.after)' <=> Side("after", a)') /\ (Side("before", num.before)' <=> Side("before", b)')
    BY <2>1, <2>3 DEF Side, Says
  <2> QED
    BY <2>1, <2>2, <2>3, <2>4, <2>5 DEF ContextInv
<1>4. CASE pc' # "parse"
  BY <1>4 DEF ContextInv
<1>5. ASSUME Next, ~ReadConfig, ~ReadFlag PROVE pc' # "parse"
  BY <1>5 DEF Next, EndOfFlags, Refuse, Open, ListAll, Search, RefuseJson, PassFile, Begin, ListFile, QuietFound,
       Goes, CountFile, PassOver, JsonFile, EachMatch, StartLines, PrintLine, PassLine, EndLines, Finish,
       NextFile, Return
<1> QED
  BY <1>1, <1>2, <1>3, <1>4, <1>5

\* How much context is shown, and whether the whole file is, is what the
\* arguments say in whatever order (the context options of parse_long).
THEOREM ContextGiven == Spec => []ContextAsAsked
<1>1. Init => ContextInv
  <2>1. ASSUME Init, NEW flags PROVE Times(flags) = {}
    BY <2>1 DEF Init, Times
  <2>2. ASSUME Init PROVE on = {} /\ num.after = 0 /\ num.before = 0
    BY <2>2 DEF Init, NoValues
  <2> SUFFICES ASSUME Init PROVE ContextInv
    OBVIOUS
  <2>3. Side("after", num.after) /\ Side("before", num.before)
    BY <2>1, <2>2 DEF Side
  <2> QED
    BY <2>1, <2>2, <2>3 DEF ContextInv
<1> QED
  BY <1>1, InitType, NextType, NextContext, ContextSaid, PTL DEF Spec

-----------------------------------------------------------------------------
(* Lines.                                                                  *)

LineCount(text) == Cardinality(Ends(text))

LEMMA EndsFinite ==
  ASSUME NEW text \in Seq(STRING)
  PROVE  /\ Len(text) \in Nat /\ DOMAIN text = 1..Len(text) /\ Ends(text) \subseteq 1..Len(text)
         /\ IsFiniteSet(Ends(text)) /\ Cardinality(Ends(text)) \in Nat
<1>1. Len(text) \in Nat /\ DOMAIN text = 1..Len(text) /\ Ends(text) \subseteq 1..Len(text)
  BY DEF Ends
<1>2. IsFiniteSet(1..Len(text))
  BY <1>1, FS_Interval
<1>3. IsFiniteSet(Ends(text))
  BY <1>1, <1>2, FS_Subset
<1> QED
  BY <1>1, <1>3, FS_CardinalityType

-----------------------------------------------------------------------------
(* Windows.                                                                *)

\* The lines that are due, and where a separator belongs among the printed.
Due == IF Has("passthru") THEN DOMAIN LinesNow ELSE UNION {Window(k) : k \in selected}

Gaps(S) ==
  {k \in S : ~Has("passthru") /\ ~Has("noContextSeparator") /\ num.after + num.before > 0
               /\ k - 1 \notin S /\ \E j \in S : j < k}

\* Up to the line whose turn it is, what is due is printed.
Progress ==
  /\ pc \in {"search", "file", "mode", "lines"} => world \in Worlds
  /\ pc \in {"mode", "lines"} => fid \in DOMAIN world.files /\ selected \subseteq DOMAIN LinesNow
  /\ pc = "lines" =>
       /\ line \in 1..LineCount(Text(fid)) + 1
       /\ emit = Due
       /\ ~Has("replace") =>
            /\ skip = 0
            /\ printed = {k \in emit : k < line}
            /\ prev \in printed \cup {0} /\ (prev = 0 => printed = {}) /\ \A k \in printed : k <= prev
            /\ seps = Gaps(printed)

LEMMA LineCountType ==
  ASSUME NEW text \in Seq(STRING)
  PROVE  LineCount(text) \in Nat /\ DOMAIN Lines(text) = 1..LineCount(text)
<1>1. IsFiniteSet(Ends(text)) /\ Cardinality(Ends(text)) \in Nat
  BY EndsFinite
<1> QED
  BY <1>1 DEF Lines, LineCount

LEMMA LinesNowType ==
  ASSUME world \in Worlds, fid \in DOMAIN world.files
  PROVE  LineCount(Text(fid)) \in Nat /\ DOMAIN LinesNow = 1..LineCount(Text(fid))
<1>1. world.files \in Seq([path : Seq(STRING), text : Seq(STRING), size : Nat])
  BY CommandAssumption
<1>2. world.files[fid] \in [path : Seq(STRING), text : Seq(STRING), size : Nat]
  <2> DEFINE Files == [path : Seq(STRING), text : Seq(STRING), size : Nat]
  <2>1. world.files \in Seq(Files)
    BY <1>1
  <2> HIDE DEF Files
  <2>2. fid \in 1..Len(world.files) /\ Len(world.files) \in Nat
    BY <2>1
  <2>3. world.files[fid] \in Files
    BY <2>1, <2>2
  <2> QED
    BY <2>3 DEF Files
<1>3. Text(fid) \in Seq(STRING)
  BY <1>2 DEF Text
<1> QED
  BY <1>3, LineCountType DEF LinesNow

LEMMA ChooseType ==
  ASSUME NEW lines, NEW ms
  PROVE  Choose(lines, ms) \subseteq DOMAIN lines
<1>1. MatchedLines(lines, ms) \subseteq DOMAIN lines
  BY DEF MatchedLines
<1>2. \A S : Unbroken(S) \subseteq S
  BY DEF Unbroken
<1>3. \A S, n : FirstOnes(S, n) \subseteq S
  BY DEF FirstOnes
<1> QED
  BY <1>1, <1>2, <1>3 DEF Choose

\* Neither the file nor the lines change while it is written.
Still == UNCHANGED <<on, num, world, fid, selected>>

LEMMA StillLines ==
  ASSUME Still
  PROVE  /\ LinesNow' = LinesNow /\ LineCount(Text(fid))' = LineCount(Text(fid))
         /\ Due' = Due /\ (DOMAIN LinesNow)' = DOMAIN LinesNow
         /\ \A x : Has(x)' <=> Has(x)
<1> USE DEF Still
<1>1. (\A x : Has(x)' <=> Has(x)) /\ Separator' = Separator
  BY DEF Has, Separator
<1>2. Text(fid)' = Text(fid)
  BY DEF Text
<1>3. LineCount(Text(fid))' = LineCount(Text(fid))
  BY <1>1, <1>2 DEF LineCount, Ends
<1>4. LinesNow' = LinesNow
  BY <1>1, <1>2 DEF LinesNow, Lines, Ends
<1>5. Due' = Due
  BY <1>1, <1>4 DEF Due, Window
<1> QED
  BY <1>1, <1>3, <1>4, <1>5

\* The separators before a new line: one exactly if it leaves a gap.
LEMMA OneMore ==
  ASSUME TypeOK, Progress, PrintLine, ~Has("replace"), DOMAIN LinesNow \subseteq Int
  PROVE  seps' = Gaps(printed \cup {line})
<1>1. /\ pc = "lines" /\ line \in DOMAIN LinesNow
      /\ seps' = IF Separated(line) THEN seps \cup {line} ELSE seps
  BY DEF PrintLine
<1>2. /\ printed = {k \in emit : k < line} /\ seps = Gaps(printed)
      /\ prev \in printed \cup {0} /\ (prev = 0 => printed = {}) /\ \A k \in printed : k <= prev
      /\ emit = Due
  BY <1>1 DEF Progress
<1>3. emit \subseteq Int /\ line \in Int /\ printed \subseteq Int
  BY <1>1, <1>2 DEF Due, Window
<1> DEFINE wanted == ~Has("passthru") /\ ~Has("noContextSeparator") /\ num.after + num.before > 0
<1> DEFINE U == printed \cup {line}
<1>4. \A k \in printed : k < line /\ (k - 1 \notin printed <=> k - 1 \notin U)
                       /\ ((\E j \in printed : j < k) <=> \E j \in U : j < k)
  BY <1>2, <1>3
<1>5. line \notin printed /\ (line - 1 \notin printed <=> line - 1 \notin U)
        /\ ((\E j \in printed : j < line) <=> \E j \in U : j < line)
  BY <1>2, <1>3
<1>6. (prev # 0 /\ line > prev + 1) <=> (line - 1 \notin printed /\ \E j \in printed : j < line)
  <2>1. CASE prev = 0
    BY <1>2, <2>1
  <2>2. CASE prev # 0
    <3>1. prev \in printed /\ prev < line
      BY <1>2, <2>2
    <3>2. line - 1 \in printed => line - 1 <= prev
      BY <1>2
    <3>3. line > prev + 1 <=> line - 1 \notin printed
      BY <1>3, <3>1, <3>2
    <3> QED
      BY <2>2, <3>1, <3>3
  <2> QED
    BY <2>1, <2>2
<1>7. Separated(line) <=> wanted /\ line - 1 \notin printed /\ \E j \in printed : j < line
  BY <1>6 DEF Separated
<1>8. ASSUME NEW k PROVE k \in seps' <=> k \in Gaps(U)
  <2>1. CASE k = line
    <3>1. k \in seps' <=> Separated(line)
      BY <1>1, <1>2, <1>5, <2>1 DEF Gaps
    <3>2. k \in Gaps(U) <=> wanted /\ line - 1 \notin U /\ \E j \in U : j < line
      BY <2>1 DEF Gaps
    <3> QED
      BY <1>5, <1>7, <3>1, <3>2
  <2>2. CASE k # line
    <3>1. k \in seps' <=> k \in Gaps(printed)
      BY <1>1, <1>2, <2>2
    <3>2. k \in Gaps(U) <=> k \in printed /\ wanted /\ k - 1 \notin U /\ \E j \in U : j < k
      BY <2>2 DEF Gaps
    <3> QED
      BY <1>4, <3>1, <3>2 DEF Gaps
  <2> QED
    BY <2>1, <2>2
<1> QED
  BY <1>8 DEF Gaps

LEMMA PrintKeeps == TypeOK /\ Progress /\ PrintLine => Progress'
<1> SUFFICES ASSUME TypeOK, Progress, PrintLine PROVE Progress'
  OBVIOUS
<1>1. Still /\ emit' = emit /\ pc = "lines" /\ pc' = pc
  BY DEF PrintLine, Still, parsing, chosen
<1>2. world \in Worlds /\ fid \in DOMAIN world.files /\ selected \subseteq DOMAIN LinesNow
        /\ line \in 1..LineCount(Text(fid)) + 1 /\ emit = Due
  BY <1>1 DEF Progress
<1>3. LineCount(Text(fid)) \in Nat /\ DOMAIN LinesNow = 1..LineCount(Text(fid))
  BY <1>2, LinesNowType
<1>4. world' \in Worlds /\ fid' \in DOMAIN world'.files /\ selected' \subseteq (DOMAIN LinesNow)' /\ emit' = Due'
  BY <1>1, <1>2, StillLines DEF Still
<1>5. line' \in 1..LineCount(Text(fid))' + 1
  <2>1. line' = line + 1 /\ line \in DOMAIN LinesNow
    BY DEF PrintLine
  <2> QED
    BY <1>1, <1>3, <2>1, StillLines
<1>6. ASSUME ~Has("replace") PROVE
        /\ skip' = 0 /\ printed' = {k \in emit' : k < line'}
        /\ prev' \in printed' \cup {0} /\ (prev' = 0 => printed' = {}) /\ \A k \in printed' : k <= prev'
        /\ seps' = Gaps(printed)'
  <2>1. /\ printed' = printed \cup {line} /\ prev' = line /\ line' = line + 1 /\ line \in emit
        /\ skip' = IF Replaces(line) THEN Greater(skip, Reach(line)) ELSE skip
        /\ line \in DOMAIN LinesNow
    BY DEF PrintLine
  <2>2. skip = 0 /\ printed = {k \in emit : k < line}
    BY <1>1, <1>6 DEF Progress
  <2>3. emit \subseteq 1..LineCount(Text(fid))
    BY <1>2, <1>3 DEF Due, Window
  <2>4. printed' = {k \in emit' : k < line'}
    <3> HIDE DEF Due
    <3> QED
      BY <1>1, <1>3, <2>1, <2>2, <2>3
  <2>5. seps' = Gaps(printed \cup {line})
    BY <1>3, <1>6, OneMore
  <2>6. Gaps(printed)' = Gaps(printed \cup {line})
    BY <1>1, <2>1, StillLines DEF Gaps, Still
  <2>7. \A k \in printed' : k <= prev'
    BY <1>3, <2>1, <2>2, <2>3
  <2>8. line # 0
    BY <1>3, <2>1
  <2> QED
    BY <1>6, <2>1, <2>2, <2>4, <2>5, <2>6, <2>7, <2>8 DEF Replaces
<1> QED
  BY <1>1, <1>4, <1>5, <1>6, StillLines DEF Progress

LEMMA PassKeeps == TypeOK /\ Progress /\ PassLine => Progress'
<1> SUFFICES ASSUME TypeOK, Progress, PassLine PROVE Progress'
  OBVIOUS
<1>1. /\ Still /\ pc = "lines" /\ pc' = pc /\ line' = line + 1 /\ line \in DOMAIN LinesNow
      /\ UNCHANGED <<emit, skip, printed, prev, seps>> /\ (line <= skip \/ line \notin emit)
  BY DEF PassLine, Still, parsing, chosen
<1>2. world \in Worlds /\ fid \in DOMAIN world.files /\ selected \subseteq DOMAIN LinesNow
        /\ emit = Due
  BY <1>1 DEF Progress
<1>3. LineCount(Text(fid)) \in Nat /\ DOMAIN LinesNow = 1..LineCount(Text(fid))
  BY <1>2, LinesNowType
<1>4. world' \in Worlds /\ fid' \in DOMAIN world'.files /\ selected' \subseteq (DOMAIN LinesNow)' /\ emit' = Due'
  BY <1>1, <1>2, StillLines DEF Still
<1>5. line' \in 1..LineCount(Text(fid))' + 1
  BY <1>1, <1>3, StillLines
<1>6. emit \subseteq 1..LineCount(Text(fid))
  BY <1>2, <1>3 DEF Due, Window
<1>7. ASSUME ~Has("replace") PROVE printed' = {k \in emit' : k < line'}
  <2>1. skip = 0 /\ printed = {k \in emit : k < line}
    BY <1>1, <1>7 DEF Progress
  <2>2. line \notin emit
    BY <1>1, <1>3, <2>1
  <2>3. line \in Int
    BY <1>1, <1>3
  <2>4. \A k \in emit : k < line <=> k < line'
    BY <1>1, <1>3, <1>6, <2>2, <2>3
  <2> QED
    BY <1>1, <2>1, <2>4
<1>8. Gaps(printed)' = Gaps(printed)
  BY <1>1, StillLines DEF Gaps, Still
<1> QED
  BY <1>1, <1>4, <1>5, <1>7, <1>8, StillLines DEF Progress

LEMMA StartKeeps == TypeOK /\ Progress /\ StartLines => Progress'
<1> SUFFICES ASSUME TypeOK, Progress, StartLines PROVE Progress'
  OBVIOUS
<1>1. /\ Still /\ pc = "mode" /\ pc' = "lines" /\ line' = 1 /\ skip' = 0 /\ prev' = 0
      /\ printed' = {} /\ seps' = {} /\ emit' = Due
  BY DEF StartLines, Goes, Still, Due, parsing, chosen
<1>2. world \in Worlds /\ fid \in DOMAIN world.files /\ selected \subseteq DOMAIN LinesNow
  BY <1>1 DEF Progress
<1>3. LineCount(Text(fid)) \in Nat /\ DOMAIN LinesNow = 1..LineCount(Text(fid))
  BY <1>2, LinesNowType
<1>4. world' \in Worlds /\ fid' \in DOMAIN world'.files /\ selected' \subseteq (DOMAIN LinesNow)' /\ emit' = Due'
  BY <1>1, <1>2, StillLines DEF Still
<1>5. line' \in 1..LineCount(Text(fid))' + 1
  BY <1>1, <1>3, StillLines
<1>6. \A k \in emit' : ~(k < line')
  BY <1>1, <1>3 DEF Due, Window
<1>7. Gaps(printed)' = {}
  BY <1>1 DEF Gaps
<1> QED
  BY <1>1, <1>4, <1>5, <1>6, <1>7 DEF Progress

LEMMA BeginKeeps == TypeOK /\ Progress /\ Begin => Progress'
<1> SUFFICES ASSUME TypeOK, Progress, Begin PROVE Progress'
  OBVIOUS
<1>1. /\ pc = "file" /\ pc' = "mode" /\ fid \in DOMAIN world.files
      /\ UNCHANGED <<on, num, world, fid>>
      /\ selected' = Choose(LinesNow, Kept(fid))
  BY DEF Begin, parsing
<1>2. Separator' = Separator /\ Text(fid)' = Text(fid)
  BY <1>1 DEF Separator, Has, Text
<1>3. LinesNow' = LinesNow
  BY <1>2 DEF LinesNow, Lines, Ends
<1>4. selected' \subseteq (DOMAIN LinesNow)'
  BY <1>1, <1>3, ChooseType
<1> QED
  BY <1>1, <1>4 DEF Progress

LEMMA ProgressKeeps == TypeOK /\ Progress /\ [Next]_vars => Progress'
<1> SUFFICES ASSUME TypeOK, Progress, [Next]_vars PROVE Progress'
  OBVIOUS
<1>1. CASE pc' \in {"parse", "open", "list", "done"}
  BY <1>1 DEF Progress
<1>2. CASE PrintLine
  BY <1>2, PrintKeeps
<1>3. CASE PassLine
  BY <1>3, PassKeeps
<1>4. CASE StartLines
  BY <1>4, StartKeeps
<1>5. CASE Begin
  BY <1>5, BeginKeeps
<1>6. CASE Open
  BY <1>6 DEF Open, Progress
<1>7. CASE Search
  BY <1>7 DEF Search, Progress
<1>8. ASSUME NextFile, pc \in {"file", "mode", "lines"} PROVE Progress'
  BY <1>8 DEF NextFile, Progress, chosen
<1>9. CASE PassFile \/ ListFile \/ CountFile \/ PassOver \/ JsonFile \/ EachMatch \/ EndLines
  BY <1>8, <1>9 DEF PassFile, ListFile, CountFile, PassOver, JsonFile, EachMatch, EndLines, Goes
<1>10. CASE UNCHANGED vars
  <2>1. Still /\ UNCHANGED <<pc, emit, skip, line, printed, prev, seps>>
    BY <1>10 DEF vars, Still, parsing, chosen, writing
  <2>2. Gaps(printed)' = Gaps(printed)
    BY <2>1, StillLines DEF Gaps, Still
  <2> QED
    BY <2>1, <2>2, StillLines DEF Progress, Still
<1>11. CASE ReadConfig \/ ReadFlag \/ EndOfFlags \/ Refuse \/ ListAll \/ RefuseJson \/ QuietFound \/ Finish
  <2>1. pc' \in {"parse", "open", "list", "done"}
    BY <1>11 DEF ReadConfig, ReadFlag, Read, EndOfFlags, Refuse, ListAll, RefuseJson, QuietFound, Finish, Return
  <2> QED
    BY <1>1, <2>1
<1> QED
  BY <1>2, <1>3, <1>4, <1>5, <1>6, <1>7, <1>9, <1>10, <1>11 DEF Next

LEMMA ProgressWhole == TypeOK /\ Progress => WindowsWhole
<1> SUFFICES ASSUME TypeOK, Progress, Written, ~Has("replace")
             PROVE  /\ printed = {k \in DOMAIN LinesNow : Has("passthru") \/
                                    \E j \in selected : j <= k + num.before /\ k <= j + num.after}
                    /\ seps = Gaps(printed)
  BY DEF WindowsWhole, Gaps
<1>1. world \in Worlds /\ fid \in DOMAIN world.files /\ selected \subseteq DOMAIN LinesNow
        /\ line \in 1..LineCount(Text(fid)) + 1 /\ line \notin DOMAIN LinesNow /\ emit = Due
        /\ printed = {k \in emit : k < line} /\ seps = Gaps(printed)
  BY DEF Progress, Written
<1>2. LineCount(Text(fid)) \in Nat /\ DOMAIN LinesNow = 1..LineCount(Text(fid))
  BY <1>1, LinesNowType
<1>3. emit \subseteq DOMAIN LinesNow
  BY <1>1 DEF Due, Window
<1>4. printed = Due
  BY <1>1, <1>2, <1>3
<1>5. Due = {k \in DOMAIN LinesNow : Has("passthru") \/
               \E j \in selected : j <= k + num.before /\ k <= j + num.after}
  BY DEF Due, Window
<1> QED
  BY <1>1, <1>4, <1>5

\* The lines written are the windows of the selected ones, each once, with a
\* separator exactly where two of them are apart (the last loop of main).
THEOREM PrintsWindows == Spec => []WindowsWhole
<1>1. Init => Progress
  BY DEF Init, Progress
<1> QED
  BY <1>1, InitType, NextType, ProgressKeeps, ProgressWhole, PTL DEF Spec

-----------------------------------------------------------------------------
(* What lines a match is in, and which lines are selected.                 *)

LEMMA FileType ==
  ASSUME NEW x \in Worlds, NEW f \in DOMAIN x.files
  PROVE  /\ x.files[f].text \in Seq(STRING) /\ f \in Nat
         /\ DOMAIN x.files = 1..Len(x.files) /\ Len(x.files) \in Nat
<1> DEFINE Files == [path : Seq(STRING), text : Seq(STRING), size : Nat]
<1>1. x.files \in Seq(Files)
  BY CommandAssumption
<1> HIDE DEF Files
<1>2. f \in 1..Len(x.files) /\ DOMAIN x.files = 1..Len(x.files) /\ Len(x.files) \in Nat /\ x.files[f] \in Files
  BY <1>1
<1> QED
  BY <1>2 DEF Files

\* Every rank is that of some number of the set.
LEMMA NumberRanks ==
  ASSUME NEW S, IsFiniteSet(S), S \subseteq Nat, NEW k \in 1..Cardinality(S)
  PROVE  \E i \in S : Cardinality({j \in S : j < i}) = k - 1
<1> DEFINE B == [i \in S |-> {j \in S : j < i}]
<1>1. Orders(B, S)
  <2>1. \A i \in S : i \in Nat /\ B[i] = {j \in S : j < i}
    OBVIOUS
  <2>2. B \in [S -> SUBSET S]
    OBVIOUS
  <2> HIDE DEF B
  <2>3. \A i \in S : i \notin B[i]
    BY <2>1
  <2>4. ASSUME NEW i \in S, NEW j \in S, i \in B[j] PROVE B[i] \subseteq B[j]
    <3>1. i \in Nat /\ j \in Nat /\ i < j
      BY <2>1, <2>4
    <3>2. ASSUME NEW x \in B[i] PROVE x \in B[j]
      <4>1. x \in S /\ x < i /\ x \in Nat
        BY <2>1, <3>2
      <4>2. x < j
        BY <3>1, <4>1
      <4> QED
        BY <2>1, <4>1, <4>2
    <3> QED
      BY <3>2
  <2>5. ASSUME NEW i \in S, NEW j \in S, i # j PROVE i \in B[j] \/ j \in B[i]
    <3>1. i \in Nat /\ j \in Nat
      BY <2>1
    <3>2. i < j \/ j < i
      BY <2>5, <3>1
    <3> QED
      BY <2>1, <3>2
  <2> QED
    BY <2>2, <2>3, <2>4, <2>5 DEF Orders
<1>2. k - 1 \in 0..(Cardinality(S) - 1)
  BY FS_CardinalityType
<1>3. HasRank(B, S, k - 1)
  <2> HIDE DEF B
  <2> QED
    BY <1>1, <1>2, RankIsThere
<1> QED
  BY <1>3 DEF HasRank

\* A line begins at the start of the text or at the end of one before it.
LEMMA LinesAre ==
  ASSUME NEW text \in Seq(STRING)
  PROVE  /\ LineCount(text) \in Nat /\ DOMAIN Lines(text) = 1..LineCount(text)
         /\ \A k \in 1..LineCount(text) : Lines(text)[k].b \in Nat
         /\ LineCount(text) > 0 => Lines(text)[1].b = 0
         /\ LineCount(text) = 0 <=> text = <<>>
<1> DEFINE S == Ends(text)
           n == Cardinality(S)
<1>1. Len(text) \in Nat /\ S \subseteq 1..Len(text) /\ IsFiniteSet(S) /\ n \in Nat
  BY EndsFinite
<1>2. S \subseteq Nat
  BY <1>1
<1>3. \A k \in 1..n : \E i \in S : Cardinality({j \in S : j < i}) = k - 1
  <2> HIDE DEF S
  <2> QED
    BY <1>1, <1>2, NumberRanks
<1> DEFINE end(k) == IF k = 0 THEN 0 ELSE CHOOSE i \in S : Cardinality({j \in S : j < i}) = k - 1
<1>4. Lines(text) = [k \in 1..n |-> [b |-> end(k - 1), e |-> end(k)]]
  BY DEF Lines
<1>5. ASSUME NEW k \in 0..n PROVE end(k) \in Nat
  <2>1. CASE k = 0
    BY <2>1
  <2>2. CASE k # 0
    <3>1. k \in 1..n
      BY <1>1, <2>2
    <3>2. end(k) \in S
      <4> HIDE DEF S
      <4> QED
        BY <1>3, <2>2, <3>1
    <3> HIDE DEF end
    <3> QED
      BY <1>1, <3>2
  <2> QED
    BY <2>1, <2>2
<1>6. end(0) = 0
  OBVIOUS
<1>7. n = 0 <=> S = {}
  BY <1>1, FS_EmptySet
<1>8. S = {} <=> text = <<>>
  <2>1. Len(text) # 0 => Len(text) \in S
    BY <1>1 DEF Ends
  <2> QED
    BY <1>1, <2>1
<1> HIDE DEF end
<1>9. \A k \in 1..n : Lines(text)[k].b = end(k - 1) /\ k - 1 \in 0..n
  BY <1>1, <1>4
<1>10. DOMAIN Lines(text) = 1..n
  BY <1>4
<1>11. n > 0 => Lines(text)[1].b = 0
  BY <1>1, <1>6, <1>9
<1> HIDE DEF n, S
<1> QED
  BY <1>1, <1>5, <1>7, <1>8, <1>9, <1>10, <1>11 DEF n, S, LineCount

\* Every offset is in a line, unless there is none, and later ones are in no earlier line.
LEMMA LineForIs ==
  ASSUME NEW text \in Seq(STRING), text # <<>>, NEW m \in Nat, NEW n \in Nat, m <= n
  PROVE  /\ LineFor(Lines(text), m) \in 1..LineCount(text)
         /\ LineFor(Lines(text), n) \in 1..LineCount(text)
         /\ LineFor(Lines(text), m) <= LineFor(Lines(text), n)
<1> DEFINE S(off) == {k \in DOMAIN Lines(text) : Lines(text)[k].b <= off}
           c == LineCount(text)
<1>1. /\ c \in Nat /\ c > 0 /\ DOMAIN Lines(text) = 1..c /\ Lines(text)[1].b = 0
      /\ \A k \in 1..c : Lines(text)[k].b \in Nat
  BY LinesAre
<1> HIDE DEF c
<1>2. IsFiniteSet(1..c) /\ Cardinality(1..c) = c
  BY <1>1, FS_Interval
<1>3. S(m) \subseteq S(n) /\ S(n) \subseteq 1..c /\ 1 \in S(m)
  BY <1>1
<1>4. LineFor(Lines(text), m) = Cardinality(S(m)) /\ LineFor(Lines(text), n) = Cardinality(S(n))
  BY DEF LineFor
<1> HIDE DEF S
<1>5. IsFiniteSet(S(n)) /\ Cardinality(S(n)) <= c
  BY <1>2, <1>3, FS_Subset
<1>6. IsFiniteSet(S(m)) /\ Cardinality(S(m)) <= Cardinality(S(n))
  BY <1>3, <1>5, FS_Subset
<1>7. Cardinality(S(m)) \in Nat /\ Cardinality(S(n)) \in Nat /\ Cardinality(S(m)) # 0
  BY <1>3, <1>5, <1>6, FS_CardinalityType, FS_EmptySet
<1> QED
  BY <1>1, <1>4, <1>5, <1>6, <1>7 DEF c

LEMMA SpanLines ==
  ASSUME NEW text \in Seq(STRING), text # <<>>, NEW m \in Spans
  PROVE  /\ FirstLine(Lines(text), m) \in 1..LineCount(text)
         /\ LastLine(Lines(text), m) \in 1..LineCount(text)
         /\ FirstLine(Lines(text), m) <= LastLine(Lines(text), m)
<1> DEFINE off == IF m.e > m.s THEN m.e - 1 ELSE m.s
<1>1. m.s \in Nat /\ off \in Nat /\ m.s <= off
  BY DEF Spans
<1>2. FirstLine(Lines(text), m) = LineFor(Lines(text), m.s) /\ LastLine(Lines(text), m) = LineFor(Lines(text), off)
  BY DEF FirstLine, LastLine
<1> HIDE DEF off
<1> QED
  BY <1>1, <1>2, LineForIs

\* The matches that begin in a line that is selected.
Begins(lines, ms) == {i \in DOMAIN ms : LineFor(lines, ms[i].s) \in Choose(lines, ms)}

Positive == Has("maxCount") => num.maxCount > 0

\* The first of some lines is chosen, if any is.
LEMMA LeastChosen ==
  ASSUME num \in Given, NEW c \in Nat, NEW S \in SUBSET (1..c), S # {}, Positive
  PROVE  LET run == IF Has("stopOnNonmatch") THEN Unbroken(S) ELSE S
             T == IF Has("maxCount") THEN FirstOnes(run, num.maxCount) ELSE run
         IN Min(S) \in T /\ Min(S) \in S /\ \A k \in S : Min(S) <= k
<1> DEFINE run == IF Has("stopOnNonmatch") THEN Unbroken(S) ELSE S
           T == IF Has("maxCount") THEN FirstOnes(run, num.maxCount) ELSE run
           a == Min(S)
<1>1. S \in SUBSET Nat
  OBVIOUS
<1>2. a \in S /\ \A k \in S : a <= k
  BY <1>1, LeastIs
<1>3. a \in Unbroken(S) /\ Unbroken(S) \subseteq S
  <2>1. \A j \in a..a : j = a
    BY <1>1, <1>2
  <2> QED
    BY <1>2, <2>1 DEF Unbroken
<1>4. a \in run /\ run \subseteq S
  BY <1>2, <1>3
<1> HIDE DEF a, run
<1>5. {j \in run : j < a} = {}
  <2>1. \A j \in run : j \in Nat /\ a \in Nat /\ a <= j
    BY <1>1, <1>2, <1>4
  <2>2. \A j \in run : ~(j < a)
    BY <2>1
  <2> QED
    BY <2>2
<1>6. a \in FirstOnes(run, num.maxCount) \/ ~Has("maxCount")
  <2>1. Cardinality({j \in run : j < a}) = 0
    BY <1>5, FS_EmptySet
  <2>2. Has("maxCount") => 0 < num.maxCount
    BY DEF Positive, Given
  <2> QED
    BY <1>4, <2>1, <2>2 DEF FirstOnes
<1> QED
  BY <1>2, <1>4, <1>6 DEF a, run

\* Lines are selected exactly when there is a match and a line, and then a
\* match begins in one of them.
LEMMA ChooseSome ==
  ASSUME num \in Given, NEW text \in Seq(STRING), NEW ms \in Seq(Spans), ~Has("invert"), Positive
  PROVE  /\ Choose(Lines(text), ms) # {} <=> ms # <<>> /\ text # <<>>
         /\ Choose(Lines(text), ms) # {} => Begins(Lines(text), ms) # {}
<1> DEFINE lines == Lines(text)
           c == LineCount(text)
           S == MatchedLines(lines, ms)
           a == Min(S)
<1>1. c \in Nat /\ DOMAIN lines = 1..c /\ (c = 0 <=> text = <<>>)
  BY LinesAre
<1>2. DOMAIN ms = 1..Len(ms) /\ Len(ms) \in Nat /\ (ms = <<>> <=> DOMAIN ms = {}) /\ \A i \in DOMAIN ms : ms[i] \in Spans
  OBVIOUS
<1>3. S \in SUBSET (1..c)
  BY <1>1 DEF MatchedLines
<1>4. \A i \in DOMAIN ms : text # <<>> =>
        /\ FirstLine(lines, ms[i]) \in 1..c
        /\ FirstLine(lines, ms[i]) \in FirstLine(lines, ms[i])..LastLine(lines, ms[i])
        /\ LastLine(lines, ms[i]) \in 1..c
  BY <1>1, <1>2, SpanLines
<1>5. \A i \in DOMAIN ms : text # <<>> => FirstLine(lines, ms[i]) \in S
  <2> HIDE DEF lines
  <2> QED
    BY <1>1, <1>4 DEF MatchedLines
<1>6. S # {} <=> ms # <<>> /\ text # <<>>
  <2>1. S # {} => c # 0 /\ DOMAIN ms # {}
    BY <1>1, <1>3 DEF MatchedLines
  <2> QED
    BY <1>1, <1>2, <1>5, <2>1
<1>7. Choose(lines, ms) \subseteq S
  <2>1. \A T : Unbroken(T) \subseteq T
    BY DEF Unbroken
  <2>2. \A T, n : FirstOnes(T, n) \subseteq T
    BY DEF FirstOnes
  <2> QED
    BY <2>1, <2>2 DEF Choose
<1>8. ASSUME S # {}
      PROVE  Choose(lines, ms) # {} /\ Begins(lines, ms) # {}
  <2> DEFINE run == IF Has("stopOnNonmatch") THEN Unbroken(S) ELSE S
             T == IF Has("maxCount") THEN FirstOnes(run, num.maxCount) ELSE run
  <2>1. Choose(lines, ms) = T
    BY DEF Choose
  <2>2. a \in T /\ a \in S /\ \A k \in S : a <= k
    <3> HIDE DEF S, c
    <3> QED
      BY <1>1, <1>3, <1>8, LeastChosen
  <2>3. PICK i \in DOMAIN ms : a \in FirstLine(lines, ms[i])..LastLine(lines, ms[i])
    <3> HIDE DEF a
    <3> QED
      BY <2>2 DEF MatchedLines
  <2> HIDE DEF T, a, S, lines, c
  <2>4. FirstLine(lines, ms[i]) = a
    <3>1. text # <<>>
      BY <1>6, <1>8
    <3>2. FirstLine(lines, ms[i]) \in S /\ FirstLine(lines, ms[i]) \in 1..c /\ a \in 1..c
      BY <1>3, <1>4, <1>5, <2>2, <3>1
    <3> QED
      BY <1>1, <2>2, <2>3, <3>2
  <2>5. i \in Begins(lines, ms)
    BY <2>1, <2>2, <2>4 DEF Begins, FirstLine
  <2> QED
    BY <2>1, <2>2, <2>5
<1> HIDE DEF S
<1> QED
  BY <1>6, <1>7, <1>8

\* No line is selected when the bound is zero.
LEMMA ChooseNone ==
  ASSUME num \in Given, NEW text \in Seq(STRING), NEW ms, ~Positive
  PROVE  Choose(Lines(text), ms) = {}
<1> DEFINE c == LineCount(text)
           found == IF Has("invert") THEN DOMAIN Lines(text) \ MatchedLines(Lines(text), ms) ELSE MatchedLines(Lines(text), ms)
           run == IF Has("stopOnNonmatch") THEN Unbroken(found) ELSE found
<1>1. c \in Nat /\ DOMAIN Lines(text) = 1..c
  BY LinesAre
<1>2. found \subseteq 1..c
  BY <1>1 DEF MatchedLines
<1>3. run \subseteq 1..c
  BY <1>2 DEF Unbroken
<1>4. Has("maxCount") /\ num.maxCount = 0
  BY DEF Positive, Given
<1>5. Choose(Lines(text), ms) = FirstOnes(run, 0)
  BY <1>4 DEF Choose
<1> HIDE DEF run, c
<1>6. \A k \in run : Cardinality({j \in run : j < k}) \in Nat
  <2> SUFFICES ASSUME NEW k \in run PROVE Cardinality({j \in run : j < k}) \in Nat
    OBVIOUS
  <2>1. IsFiniteSet(1..c)
    BY <1>1, FS_Interval
  <2>2. IsFiniteSet({j \in run : j < k})
    <3>1. {j \in run : j < k} \subseteq 1..c
      BY <1>3
    <3> QED
      BY <2>1, <3>1, FS_Subset
  <2> QED
    BY <2>2, FS_CardinalityType
<1> QED
  BY <1>5, <1>6 DEF FirstOnes

-----------------------------------------------------------------------------
(* What the patterns find in a file.                                       *)

LEMMA ImageFinite ==
  ASSUME NEW S, IsFiniteSet(S), NEW f
  PROVE  IsFiniteSet({f[x] : x \in S})
<1> DEFINE T == {f[x] : x \in S}
           g == [x \in S |-> f[x]]
<1>1. g \in Surjection(S, T)
  BY DEF Surjection
<1> HIDE DEF g, T
<1>2. IsFiniteSet(T)
  BY <1>1, FS_Surjection
<1> QED
  BY <1>2 DEF T

LEMMA Gathered ==
  ASSUME NEW P, IsFiniteSet(P), NEW r, \A p \in P : IsFiniteSet(r[p])
  PROVE  IsFiniteSet(UNION {r[p] : p \in P})
<1> DEFINE T == {r[p] : p \in P}
<1>1. IsFiniteSet(T)
  BY ImageFinite
<1>2. \A s \in T : IsFiniteSet(s)
  OBVIOUS
<1> HIDE DEF T
<1>3. IsFiniteSet(UNION T)
  BY <1>1, <1>2, FS_UNION
<1> QED
  BY <1>3 DEF T

LEMMA SpansOrdered ==
  ASSUME NEW S \in SUBSET Spans
  PROVE  Orders([m \in S |-> {x \in S : SpanBefore(x, m)}], S)
<1> DEFINE B == [m \in S |-> {x \in S : SpanBefore(x, m)}]
<1>1. \A m \in S : m.s \in Nat /\ m.e \in Nat /\ m = [s |-> m.s, e |-> m.e]
  BY DEF Spans
<1>2. \A m \in S : B[m] = {x \in S : SpanBefore(x, m)}
  OBVIOUS
<1>3. B \in [S -> SUBSET S]
  OBVIOUS
<1> HIDE DEF B
<1>4. ASSUME NEW m \in S PROVE m \notin B[m]
  <2>1. ~SpanBefore(m, m)
    BY <1>1 DEF SpanBefore
  <2> QED
    BY <1>2, <2>1
<1>5. ASSUME NEW m \in S, NEW n \in S, m \in B[n] PROVE B[m] \subseteq B[n]
  <2>1. SpanBefore(m, n)
    BY <1>2, <1>5
  <2>2. ASSUME NEW x \in B[m] PROVE x \in B[n]
    <3>1. x \in S /\ SpanBefore(x, m)
      BY <1>2, <2>2
    <3>2. SpanBefore(x, n)
      <4>1. x.s \in Nat /\ x.e \in Nat /\ m.s \in Nat /\ m.e \in Nat /\ n.s \in Nat /\ n.e \in Nat
        BY <1>1, <3>1
      <4> QED
        BY <2>1, <3>1, <4>1 DEF SpanBefore
    <3> QED
      BY <1>2, <3>1, <3>2
  <2> QED
    BY <2>2
<1>6. ASSUME NEW m \in S, NEW n \in S, m # n PROVE m \in B[n] \/ n \in B[m]
  <2>1. m.s # n.s \/ m.e # n.e
    BY <1>1, <1>6
  <2>2. m.s \in Nat /\ m.e \in Nat /\ n.s \in Nat /\ n.e \in Nat
    BY <1>1
  <2>3. SpanBefore(m, n) \/ SpanBefore(n, m)
    BY <2>1, <2>2 DEF SpanBefore
  <2> QED
    BY <1>2, <2>3
<1>7. Orders(B, S)
  BY <1>3, <1>4, <1>5, <1>6 DEF Orders
<1> QED
  BY <1>7 DEF B

\* Spans in order are a sequence, which is empty if there are none.
LEMMA InOrderIs ==
  ASSUME NEW S \in SUBSET Spans, IsFiniteSet(S)
  PROVE  InOrder(S) \in Seq(Spans) /\ (InOrder(S) = <<>> <=> S = {})
<1> DEFINE B == [m \in S |-> {x \in S : SpanBefore(x, m)}]
           n == Cardinality(S)
           t(k) == CHOOSE m \in S : Cardinality({x \in S : SpanBefore(x, m)}) = k - 1
<1>1. Orders(B, S)
  BY SpansOrdered
<1>2. n \in Nat
  BY FS_CardinalityType
<1>3. ASSUME NEW k \in 1..n PROVE t(k) \in Spans
  <2>1. k - 1 \in 0..(Cardinality(S) - 1)
    BY <1>2
  <2>2. HasRank(B, S, k - 1)
    <3> HIDE DEF B
    <3> QED
      BY <1>1, <2>1, RankIsThere
  <2>3. \E m \in S : Cardinality({x \in S : SpanBefore(x, m)}) = k - 1
    BY <2>2 DEF HasRank
  <2>4. t(k) \in S
    BY <2>3
  <2> HIDE DEF t
  <2> QED
    BY <2>4
<1>4. InOrder(S) = [k \in 1..n |-> t(k)]
  BY DEF InOrder
<1>5. n = 0 <=> S = {}
  BY FS_EmptySet
<1> HIDE DEF t, n
<1>6. InOrder(S) \in Seq(Spans) /\ Len(InOrder(S)) = n
  BY <1>2, <1>3, <1>4
<1> QED
  BY <1>2, <1>5, <1>6

\* What a run that asks for every match gets of a file, and this one.
FoundAt(f) == UNION {Range(FoundIn(p, f)) : p \in want.patterns}
HitsAt(f)  == UNION {Hits(p, f, missed) : p \in want.patterns}

InWorld == world \in Worlds /\ want \in Wants /\ allowed \subseteq DOMAIN world.files

\* No search for a literal ends at something that does not match.
Surely == \A p \in missed : Verified(p) # "literal"

LEMMA FoundType ==
  ASSUME InWorld, NEW f \in DOMAIN world.files, NEW p \in want.patterns
  PROVE  FoundIn(p, f) \in Seq(Spans)
<1>1. on \cap SearchSwitches \in SUBSET SearchSwitches
  OBVIOUS
<1> QED
  BY <1>1, FoundAssumption DEF InWorld, FoundIn, Text

LEMMA FoundFinite ==
  ASSUME InWorld, NEW f \in DOMAIN world.files
  PROVE  /\ FoundAt(f) \in SUBSET Spans /\ IsFiniteSet(FoundAt(f))
         /\ HitsAt(f) \subseteq FoundAt(f) /\ IsFiniteSet(HitsAt(f))
         /\ ~FirstHit => HitsAt(f) = FoundAt(f)
<1> DEFINE r == [p \in want.patterns |-> Range(FoundIn(p, f))]
<1>1. IsFiniteSet(want.patterns)
  BY CommandAssumption DEF InWorld
<1>2. ASSUME NEW p \in want.patterns
      PROVE  /\ IsFiniteSet(Range(FoundIn(p, f))) /\ Range(FoundIn(p, f)) \in SUBSET Spans
             /\ Hits(p, f, missed) \subseteq Range(FoundIn(p, f))
             /\ ~FirstHit => Hits(p, f, missed) = Range(FoundIn(p, f))
  <2> DEFINE s == FoundIn(p, f)
  <2>1. s \in Seq(Spans)
    BY FoundType
  <2> HIDE DEF s
  <2>2. DOMAIN s = 1..Len(s) /\ Len(s) \in Nat /\ \A i \in 1..Len(s) : s[i] \in Spans
    BY <2>1
  <2>3. Range(s) = {s[i] : i \in 1..Len(s)}
    BY <2>2 DEF Range
  <2>4. IsFiniteSet(1..Len(s))
    BY <2>2, FS_Interval
  <2>5. IsFiniteSet(Range(s))
    BY <2>3, <2>4, ImageFinite
  <2>6. Range(s) \in SUBSET Spans
    BY <2>2, <2>3
  <2>7. s # <<>> => Head(s) \in Range(s)
    <3>1. s # <<>> => 1 \in 1..Len(s) /\ Head(s) = s[1]
      BY <2>1
    <3> QED
      BY <2>3, <3>1
  <2> QED
    BY <2>5, <2>6, <2>7 DEF s, Hits
<1>3. FoundAt(f) \in SUBSET Spans
  BY <1>2 DEF FoundAt
<1>4. IsFiniteSet(FoundAt(f))
  <2>1. \A p \in want.patterns : IsFiniteSet(r[p])
    BY <1>2
  <2>2. FoundAt(f) = UNION {r[p] : p \in want.patterns}
    BY DEF FoundAt
  <2> HIDE DEF r
  <2> QED
    BY <1>1, <2>1, <2>2, Gathered
<1>5. HitsAt(f) \subseteq FoundAt(f)
  BY <1>2 DEF FoundAt, HitsAt
<1>6. IsFiniteSet(HitsAt(f))
  BY <1>4, <1>5, FS_Subset
<1>7. ~FirstHit => HitsAt(f) = FoundAt(f)
  BY <1>2 DEF FoundAt, HitsAt
<1> QED
  BY <1>3, <1>4, <1>5, <1>6, <1>7

LEMMA MergedIs ==
  ASSUME InWorld, NEW f \in DOMAIN world.files
  PROVE  /\ Merged(f, missed) \in Seq(Spans) /\ All(f) \in Seq(Spans)
         /\ Merged(f, missed) # <<>> <=> HitsAt(f) # {}
         /\ All(f) # <<>> <=> FoundAt(f) # {}
         /\ ~FirstHit => Merged(f, missed) = All(f)
<1>1. /\ FoundAt(f) \in SUBSET Spans /\ IsFiniteSet(FoundAt(f))
      /\ HitsAt(f) \in SUBSET Spans /\ IsFiniteSet(HitsAt(f))
      /\ ~FirstHit => HitsAt(f) = FoundAt(f)
  BY FoundFinite
<1>2. Merged(f, missed) = InOrder(HitsAt(f)) /\ All(f) = InOrder(FoundAt(f))
  BY DEF Merged, All, HitsAt, FoundAt
<1> QED
  BY <1>1, <1>2, InOrderIs

\* A search for the first match finds one where there is one at all, if the
\* patterns are literals.
LEMMA FirstIsFound ==
  ASSUME InWorld, Surely, NEW f \in allowed, All(f) # <<>>, ~FirstHit \/ \A p \in want.patterns : Verified(p) = "literal"
  PROVE  \E g \in allowed : Merged(g, missed) # <<>> /\ All(g) # <<>>
<1>1. f \in DOMAIN world.files /\ allowed \subseteq Nat
  BY FileType DEF InWorld
<1>2. CASE ~FirstHit
  BY <1>1, <1>2, MergedIs
<1>3. CASE FirstHit
  <2>1. FoundAt(f) # {}
    BY <1>1, MergedIs
  <2>2. PICK p \in want.patterns : Range(FoundIn(p, f)) # {}
    BY <2>1 DEF FoundAt
  <2> DEFINE H == {g \in allowed : FoundIn(p, g) # <<>>}
             a == Min(H)
  <2>3. FoundIn(p, f) # <<>>
    BY <2>2 DEF Range
  <2>4. H \in SUBSET Nat /\ H # {}
    BY <1>1, <2>3
  <2>5. a \in H /\ \A g \in H : a <= g
    <3> HIDE DEF H
    <3> QED
      BY <2>4, LeastIs
  <2> HIDE DEF a
  <2>6. a \in DOMAIN world.files /\ a \in allowed /\ FoundIn(p, a) # <<>>
    BY <2>5 DEF InWorld
  <2>7. Hits(p, a, missed) # {}
    <3>1. \A g \in allowed : FoundIn(p, g) # <<>> => a <= g
      BY <2>5
    <3>2. p \notin missed
      BY <1>3 DEF Surely
    <3>3. Hits(p, a, missed) = {Head(FoundIn(p, a))}
      BY <1>3, <2>6, <3>1, <3>2 DEF Hits
    <3> QED
      BY <3>3
  <2>8. HitsAt(a) # {}
    <3>1. PICK h : h \in Hits(p, a, missed)
      BY <2>7
    <3>2. h \in HitsAt(a)
      BY <3>1 DEF HitsAt
    <3> QED
      BY <3>2
  <2>9. FoundAt(a) # {}
    <3>1. HitsAt(a) \subseteq FoundAt(a)
      BY <2>6, FoundFinite
    <3> QED
      BY <2>8, <3>1
  <2> QED
    BY <2>6, <2>8, <2>9, MergedIs
<1> QED
  BY <1>2, <1>3


-----------------------------------------------------------------------------
(* What a run reports of each file.                                        *)

\* The matches reported in a file, and those that remain before its NUL.
Reported(f) == IF Searches /\ f \in allowed THEN Merged(f, missed) ELSE <<>>
Remains(f)  == Cut(f, Reported(f))

Chosen(f)  == Choose(Lines(Text(f)), Remains(f))
Gives(f)   == IF Has("filesWithout") THEN Chosen(f) = {} ELSE Chosen(f) # {}
Odd(f)     == (HasNul(f) /\ ~AsText) \/ Hollow(f)

Running == pc \in {"file", "mode", "lines"}

\* The files before fid are done with, and the current one once it is begun.
Dealt(f) == f < fid \/ (f = fid /\ pc # "file")

\* Before a file is written nothing is reported, and once they are chosen
\* the files are those of a world.
Opened ==
  /\ pc \in {"parse", "open"} \/ status = 2 \/ (InWorld /\ Surely)
  /\ pc \in {"parse", "open", "list", "search"} => ~any /\ tally = [lines |-> 0, matches |-> 0] /\ missed = {}
  /\ pc = "list" => Has("files")

\* The matches of each file are those reported, cut once the file is begun.
Reports ==
  Running =>
    /\ ~(Has("json") /\ on \cap SummaryModes # {})
    /\ fid # 0 /\ DOMAIN byfile = DOMAIN world.files
    /\ \A f \in DOMAIN byfile : byfile[f] = IF f \in allowed /\ Dealt(f) THEN Remains(f) ELSE Reported(f)

\* The lines selected in the current file are those of its matches.
Selects ==
  pc \in {"mode", "lines"} =>
    /\ fid \in allowed /\ selected = Chosen(fid)
    /\ notice => Odd(fid)

\* Lines are written in no other mode, and none that is selected is left out.
Writes ==
  pc = "lines" =>
    /\ ~Counts /\ ~Lists /\ ~(Has("quiet") /\ Hit)
    /\ ~Has("json") /\ ~Has("onlyMatching") /\ ~Has("vimgrep")
    /\ line # 0 /\ selected \subseteq emit /\ (~Has("replace") => skip = 0)

RunInv == Opened /\ Reports /\ Selects /\ Writes

\* What a run depends on once the files are chosen.
Founded == UNCHANGED <<on, num, want, world, allowed>>
Settled == Founded /\ missed' = missed

LEMMA StayFounded ==
  ASSUME Founded
  PROVE  /\ \A x : Has(x)' <=> Has(x)
         /\ InWorld' <=> InWorld
         /\ \A f : Text(f)' = Text(f) /\ Lines(Text(f))' = Lines(Text(f)) /\ All(f)' = All(f)
         /\ \A f, lost : Merged(f, lost)' = Merged(f, lost)
         /\ \A p : Verified(p)' = Verified(p)
         /\ Searches' <=> Searches
<1> USE DEF Founded
<1>1. (\A x : Has(x)' <=> Has(x)) /\ Separator' = Separator /\ on' = on
  BY DEF Has, Separator
<1>2. \A f : Text(f)' = Text(f)
  BY DEF Text
<1>3. ASSUME NEW f PROVE Lines(Text(f))' = Lines(Text(f))
  <2>1. Text(f)' = Text(f) /\ Separator' = Separator
    BY <1>1, <1>2
  <2>2. Ends(Text(f))' = Ends(Text(f))
    BY <2>1 DEF Ends
  <2> QED
    BY <2>1, <2>2 DEF Lines
<1>4. \A p, f : FoundIn(p, f)' = FoundIn(p, f)
  BY <1>1, <1>2 DEF FoundIn
<1>5. \A p, f, lost : Hits(p, f, lost)' = Hits(p, f, lost)
  BY <1>1, <1>4 DEF Hits, FirstHit
<1>6. \A f : All(f)' = All(f)
  BY <1>4 DEF All
<1>7. \A f, lost : Merged(f, lost)' = Merged(f, lost)
  BY <1>5 DEF Merged
<1>8. InWorld' <=> InWorld
  BY DEF InWorld
<1>9. \A p : Verified(p)' = Verified(p)
  BY <1>1 DEF Verified
<1>10. Searches' <=> Searches
  BY <1>1 DEF Searches
<1> QED
  BY <1>1, <1>2, <1>3, <1>6, <1>7, <1>8, <1>9, <1>10

LEMMA StaySettled ==
  ASSUME Settled
  PROVE  /\ \A x : Has(x)' <=> Has(x)
         /\ InWorld' <=> InWorld
         /\ Surely' <=> Surely
         /\ \A f : /\ Text(f)' = Text(f) /\ Lines(Text(f))' = Lines(Text(f))
                   /\ Reported(f)' = Reported(f) /\ Remains(f)' = Remains(f) /\ Chosen(f)' = Chosen(f)
                   /\ (Gives(f)' <=> Gives(f)) /\ (Odd(f)' <=> Odd(f)) /\ (Hollow(f)' <=> Hollow(f))
<1>1. /\ \A x : Has(x)' <=> Has(x)
      /\ missed' = missed /\ want' = want
  BY StayFounded DEF Settled, Founded
<1>2. \A f : Text(f)' = Text(f)
  BY StayFounded DEF Settled
<1>3. \A f : Lines(Text(f))' = Lines(Text(f))
  BY StayFounded DEF Settled
<1>6. \A f : All(f)' = All(f)
  BY StayFounded DEF Settled
<1>7. \A f : Merged(f, missed)' = Merged(f, missed)
  BY <1>1, StayFounded DEF Settled
<1>8. \A f : Reported(f)' = Reported(f)
  <2>1. (Searches' <=> Searches) /\ allowed' = allowed
    BY StayFounded DEF Settled, Founded
  <2> QED
    BY <1>7, <2>1 DEF Reported
<1>9. \A f : (HasNul(f)' <=> HasNul(f)) /\ (AsText' <=> AsText) /\ Nul(f)' = Nul(f)
  BY <1>1, <1>2, StayFounded DEF HasNul, AsText, Nul
<1>10. \A f : Remains(f)' = Remains(f)
  BY <1>8, <1>9 DEF Remains, Cut
<1>11. \A f : Chosen(f)' = Chosen(f)
  BY <1>1, <1>3, <1>10 DEF Chosen, Choose, Settled, Founded
<1>12. \A f : (Gives(f)' <=> Gives(f)) /\ (Odd(f)' <=> Odd(f)) /\ (Hollow(f)' <=> Hollow(f))
  BY <1>1, <1>2, <1>6, <1>9, <1>11 DEF Gives, Odd, Hollow
<1>13. (InWorld' <=> InWorld) /\ (Surely' <=> Surely)
  BY <1>1, StayFounded DEF Settled, Surely
<1> QED
  BY <1>1, <1>2, <1>3, <1>8, <1>10, <1>11, <1>12, <1>13

\* The matches that remain are the first of those reported.
LEMMA CutType ==
  ASSUME NEW f, NEW ms \in Seq(Spans)
  PROVE  Cut(f, ms) \in Seq(Spans) /\ (Cut(f, ms) # <<>> => ms # <<>>)
<1> DEFINE I == {i \in DOMAIN ms : ms[i].s < Nul(f)}
           n == Cardinality(I)
<1> HIDE DEF n
<1>1. Len(ms) \in Nat /\ DOMAIN ms = 1..Len(ms)
  OBVIOUS
<1> USE DEF n
<1>2. IsFiniteSet(1..Len(ms)) /\ Cardinality(1..Len(ms)) = Len(ms)
  BY <1>1, FS_Interval
<1>3. n \in Nat /\ n <= Len(ms)
  BY <1>1, <1>2, FS_Subset, FS_CardinalityType
<1>4. Cut(f, ms) = SubSeq(ms, 1, n) \/ Cut(f, ms) = ms
  BY DEF Cut
<1> HIDE DEF n
<1>5. SubSeq(ms, 1, n) \in Seq(Spans) /\ Len(SubSeq(ms, 1, n)) = n
  BY <1>1, <1>3
<1>6. SubSeq(ms, 1, n) # <<>> => ms # <<>>
  BY <1>1, <1>3, <1>5
<1> QED
  BY <1>4, <1>5, <1>6

LEMMA ReportedIs ==
  ASSUME InWorld, NEW f \in allowed
  PROVE  /\ Reported(f) \in Seq(Spans) /\ Remains(f) \in Seq(Spans)
         /\ Text(f) \in Seq(STRING) /\ f \in Nat \ {0} /\ f \in DOMAIN world.files
         /\ Remains(f) # <<>> => All(f) # <<>>
         /\ Odd(f) \/ Remains(f) = Reported(f)
<1>1. f \in DOMAIN world.files /\ world \in Worlds
  BY DEF InWorld
<1>2. Text(f) \in Seq(STRING) /\ f \in Nat \ {0}
  BY <1>1, FileType DEF Text
<1>3. Merged(f, missed) \in Seq(Spans) /\ (Merged(f, missed) # <<>> => All(f) # <<>>)
  BY <1>1, MergedIs, FoundFinite
<1>4. Reported(f) \in Seq(Spans) /\ (Reported(f) # <<>> => All(f) # <<>>)
  <2>1. <<>> \in Seq(Spans)
    OBVIOUS
  <2> QED
    BY <1>3, <2>1 DEF Reported
<1>5. Remains(f) \in Seq(Spans) /\ (Remains(f) # <<>> => Reported(f) # <<>>)
  BY <1>4, CutType DEF Remains
<1>6. Odd(f) \/ Remains(f) = Reported(f)
  BY DEF Odd, Remains, Cut
<1> QED
  BY <1>1, <1>2, <1>4, <1>5, <1>6

\* Every file that gives what was asked for is wanted, and none else, unless
\* only the first match is searched for.
LEMMA GivesWanted ==
  ASSUME InWorld, num \in Given, ~FirstHit, NEW f \in allowed
  PROVE  Gives(f) <=> Wanted(f)
<1>1. Text(f) \in Seq(STRING) /\ f \in DOMAIN world.files /\ allowed # {}
  BY ReportedIs
<1>2. CASE Positive
  <2>1. Searches
    BY <1>1, <1>2 DEF Searches, Positive, Given
  <2>2. Reported(f) = All(f)
    BY <1>1, <2>1, MergedIs DEF Reported
  <2> QED
    BY <2>2 DEF Gives, Wanted, Chosen, Remains
<1>3. CASE ~Positive
  <2>1. Chosen(f) = {} /\ Choose(Lines(Text(f)), Cut(f, All(f))) = {}
    BY <1>1, <1>3, ChooseNone DEF Chosen
  <2> QED
    BY <2>1 DEF Gives, Wanted
<1> QED
  BY <1>2, <1>3

\* When it is, a file that gives a match is wanted, and for literals some
\* file gives one if one is wanted.
LEMMA FirstWanted ==
  ASSUME InWorld, Surely, num \in Given, FirstHit, ~Has("filesWithout"), \A g \in allowed : ~Odd(g)
  PROVE  /\ (\E f \in allowed : Gives(f)) => \E f \in allowed : Wanted(f)
         /\ (\A p \in want.patterns : Verified(p) = "literal") =>
              ((\E f \in allowed : Wanted(f)) => \E f \in allowed : Gives(f))
<1>1. ~Has("invert")
  BY DEF FirstHit
<1>2. ASSUME NEW f \in allowed
      PROVE  /\ Text(f) \in Seq(STRING) /\ f \in DOMAIN world.files
             /\ Remains(f) \in Seq(Spans) /\ Remains(f) = Reported(f)
             /\ All(f) \in Seq(Spans) /\ Cut(f, All(f)) = All(f) /\ (Text(f) = <<>> => All(f) = <<>>)
             /\ Reported(f) # <<>> => All(f) # <<>>
  <2>1. Cut(f, All(f)) = All(f) /\ (Text(f) = <<>> => All(f) = <<>>)
    BY DEF Odd, Cut, Hollow
  <2>2. f \in DOMAIN world.files
    BY ReportedIs
  <2>3. All(f) \in Seq(Spans)
    BY <2>2, MergedIs
  <2> QED
    BY <2>1, <2>3, ReportedIs
<1>3. CASE Positive
  <2>1. ASSUME NEW f \in allowed
        PROVE  /\ Gives(f) <=> Reported(f) # <<>> /\ Text(f) # <<>>
               /\ Wanted(f) <=> All(f) # <<>> /\ Text(f) # <<>>
    <3>1. Gives(f) <=> Remains(f) # <<>> /\ Text(f) # <<>>
      BY <1>1, <1>2, <1>3, ChooseSome DEF Gives, Chosen
    <3>2. Wanted(f) <=> All(f) # <<>> /\ Text(f) # <<>>
      BY <1>1, <1>2, <1>3, ChooseSome DEF Wanted
    <3> QED
      BY <1>2, <3>1, <3>2
  <2>2. ASSUME \A p \in want.patterns : Verified(p) = "literal", NEW f \in allowed, Wanted(f)
        PROVE  \E g \in allowed : Gives(g)
    <3>1. All(f) # <<>>
      BY <2>1, <2>2
    <3>2. PICK g \in allowed : Merged(g, missed) # <<>> /\ All(g) # <<>>
      BY <2>2, <3>1, FirstIsFound
    <3>3. Searches
      BY <1>3 DEF Searches, Positive, Given
    <3>4. Reported(g) # <<>> /\ Text(g) # <<>>
      BY <1>2, <3>2, <3>3 DEF Reported
    <3> QED
      BY <2>1, <3>4
  <2>3. ASSUME NEW f \in allowed, Gives(f) PROVE Wanted(f)
    BY <1>2, <2>1, <2>3
  <2> QED
    BY <2>2, <2>3
<1>4. CASE ~Positive
  <2>1. \A f \in allowed : Chosen(f) = {} /\ Choose(Lines(Text(f)), Cut(f, All(f))) = {}
    BY <1>2, <1>4, ChooseNone DEF Chosen
  <2> QED
    BY <2>1 DEF Gives, Wanted
<1> QED
  BY <1>3, <1>4

Aside == Has("vimgrep") /\ Has("invert")

\* Something is reported if a file done with gives what was asked for, and
\* only then or for a binary file or a match in an empty one.
StatusInv ==
  /\ Running =>
       /\ any => \E f \in allowed : Gives(f) \/ Odd(f)
       /\ ~Aside => \A f \in allowed : f < fid /\ Gives(f) => any /\ ~Has("quiet")
  /\ pc = "lines" => any \/ (skip = 0 /\ \A k \in selected : line <= k)
  /\ pc = "done" /\ ~Has("files") =>
       /\ status = 0 => \E f \in allowed : Gives(f) \/ Odd(f)
       /\ status = 1 /\ ~Aside => \A f \in allowed : ~Gives(f)

LEMMA StatusSaid == TypeOK /\ RunInv /\ StatusInv => StatusMeansFound
<1> DEFINE found == \E f \in allowed : Wanted(f)
           given == \E f \in allowed : Gives(f)
           odd   == \E f \in allowed : Odd(f)
           full  == ~Has("quiet") \/ Has("invert") \/ \A p \in want.patterns : Verified(p) = "literal"
<1> SUFFICES ASSUME TypeOK, RunInv, StatusInv, pc = "done", status \in {0, 1}, ~Has("files"),
                    ~Aside, ~(Has("quiet") /\ Has("filesWithout"))
             PROVE  /\ ~odd /\ status = 0 => found
                    /\ ~odd /\ full /\ found => status = 0
                    /\ found /\ ~Has("quiet") => status = 0
  BY DEF StatusMeansFound, Aside, Odd
<1>1. InWorld /\ Surely /\ num \in Given
  BY DEF RunInv, Opened, TypeOK
<1>2. (status = 0 => given \/ odd) /\ (status = 1 => ~given)
  BY DEF StatusInv
<1>3. ~FirstHit => (given <=> found)
  BY <1>1, GivesWanted
<1>4. ASSUME FirstHit, ~odd PROVE (given => found) /\ (full => (found => given))
  <2>1. ~Has("filesWithout") /\ Has("quiet") /\ ~Has("invert")
    BY <1>4 DEF FirstHit
  <2>2. /\ given => found
        /\ (\A p \in want.patterns : Verified(p) = "literal") => (found => given)
    BY <1>1, <1>4, <2>1, FirstWanted
  <2> QED
    BY <2>1, <2>2
<1>5. ~Has("quiet") => ~FirstHit
  BY DEF FirstHit
<1> HIDE DEF found, given, odd, full
<1>6. ~odd /\ status = 0 => found
  BY <1>2, <1>3, <1>4
<1>7. ~odd /\ full /\ found => status = 0
  BY <1>2, <1>3, <1>4
<1>8. found /\ ~Has("quiet") => status = 0
  BY <1>2, <1>3, <1>5
<1> QED
  BY <1>6, <1>7, <1>8

\* What stays when neither the files nor the one whose turn it is change.
LEMMA RunStays ==
  ASSUME TypeOK, RunInv, Settled, UNCHANGED <<byfile, fid, selected, notice>>,
         pc \in {"mode", "lines"}, pc' \in {"mode", "lines"}
  PROVE  Opened' /\ Reports' /\ Selects'
<1>1. InWorld' /\ Surely'
  BY StaySettled DEF RunInv, Opened, TypeOK
<1>2. Opened'
  BY <1>1 DEF Opened
<1>3. Selects'
  BY StaySettled DEF RunInv, Selects, Settled, Founded
<1>4. Reports'
  <2>1. /\ ~(Has("json") /\ on \cap SummaryModes # {}) /\ fid # 0 /\ DOMAIN byfile = DOMAIN world.files
        /\ \A f \in DOMAIN byfile : byfile[f] = IF f \in allowed /\ Dealt(f) THEN Remains(f) ELSE Reported(f)
    BY DEF RunInv, Reports, Running
  <2>2. \A f : Dealt(f)' <=> Dealt(f)
    BY DEF Dealt
  <2> QED
    BY <2>1, <2>2, StaySettled DEF Reports, Settled, Founded
<1> QED
  BY <1>2, <1>3, <1>4

LEMMA RunNextFile ==
  ASSUME TypeOK, RunInv, NextFile, Running, pc = "file" => fid \notin allowed
  PROVE  RunInv'
<1>1. Settled /\ pc' = "file" /\ fid' = fid + 1 /\ byfile' = byfile /\ fid \in Nat
  BY DEF NextFile, parsing, chosen, Settled, Founded, TypeOK
<1>2. InWorld /\ InWorld' /\ Surely'
  BY <1>1, StaySettled DEF RunInv, Opened, TypeOK, Running
<1>3. Opened' /\ Selects' /\ Writes'
  BY <1>1, <1>2 DEF Opened, Selects, Writes
<1>4. /\ ~(Has("json") /\ on \cap SummaryModes # {}) /\ fid # 0 /\ DOMAIN byfile = DOMAIN world.files
      /\ \A f \in DOMAIN byfile : byfile[f] = IF f \in allowed /\ Dealt(f) THEN Remains(f) ELSE Reported(f)
  BY DEF RunInv, Reports
<1>5. \A f \in allowed : f \in Nat
  BY <1>2, ReportedIs
<1>6. \A f \in allowed : Dealt(f)' <=> Dealt(f)
  <2> SUFFICES ASSUME NEW f \in allowed PROVE Dealt(f)' <=> Dealt(f)
    OBVIOUS
  <2>1. f \in Nat /\ fid \in Nat
    BY <1>1, <1>5
  <2>2. Dealt(f)' <=> f < fid + 1
    BY <1>1 DEF Dealt
  <2>3. pc = "file" => f # fid
    OBVIOUS
  <2> QED
    BY <2>1, <2>2, <2>3 DEF Dealt
<1>7. Reports'
  BY <1>1, <1>4, <1>6, StaySettled DEF Reports, Settled, Founded
<1> QED
  BY <1>3, <1>7 DEF RunInv

LEMMA RunBegin == TypeOK /\ RunInv /\ Begin => RunInv'
<1> SUFFICES ASSUME TypeOK, RunInv, Begin PROVE RunInv'
  OBVIOUS
<1>1. /\ Settled /\ pc = "file" /\ pc' = "mode" /\ fid' = fid /\ fid \in allowed
      /\ notice' = Notice(fid) /\ byfile' = [byfile EXCEPT ![fid] = Kept(fid)]
      /\ selected' = Choose(LinesNow, Kept(fid))
  BY DEF Begin, parsing, Settled, Founded
<1>2. InWorld /\ InWorld' /\ Surely'
  BY <1>1, StaySettled DEF RunInv, Opened, TypeOK
<1>3. /\ ~(Has("json") /\ on \cap SummaryModes # {}) /\ fid # 0 /\ DOMAIN byfile = DOMAIN world.files
      /\ \A f \in DOMAIN byfile : byfile[f] = IF f \in allowed /\ Dealt(f) THEN Remains(f) ELSE Reported(f)
  BY <1>1 DEF RunInv, Reports, Running
<1>4. \A f \in allowed : f \in Nat /\ f \in DOMAIN byfile /\ fid \in Nat
  BY <1>2, <1>3, ReportedIs DEF TypeOK
<1>5. Kept(fid) = Remains(fid)
  <2>1. ~Dealt(fid)
    BY <1>1, <1>4 DEF Dealt
  <2>2. byfile[fid] = Reported(fid)
    BY <1>1, <1>3, <1>4, <2>1
  <2> QED
    BY <2>2 DEF Kept, Remains
<1>6. Opened' /\ Writes'
  BY <1>1, <1>2 DEF Opened, Writes
<1>7. Selects'
  <2>1. selected' = Chosen(fid)
    BY <1>1, <1>5 DEF Chosen, LinesNow
  <2>2. Notice(fid) => Odd(fid)
    BY DEF Notice, AutoBinary, Suppress, Odd
  <2> QED
    BY <1>1, <2>1, <2>2, StaySettled DEF Selects, Settled, Founded
<1>8. Reports'
  <2>1. \A f \in DOMAIN byfile : byfile'[f] = IF f = fid THEN Remains(fid) ELSE byfile[f]
    BY <1>1, <1>5
  <2>2. \A f : f # fid => (Dealt(f)' <=> Dealt(f))
    BY <1>1 DEF Dealt
  <2>3. Dealt(fid)'
    BY <1>1 DEF Dealt
  <2>4. DOMAIN byfile' = DOMAIN byfile
    BY <1>1
  <2> QED
    BY <1>1, <1>3, <2>1, <2>2, <2>3, <2>4, StaySettled DEF Reports, Settled, Founded
<1> QED
  BY <1>6, <1>7, <1>8 DEF RunInv

\* No literal is among those whose search ends at what does not match.
LEMMA MissesSurely == Search => Founded /\ Surely'
<1> SUFFICES ASSUME Search PROVE Founded /\ Surely'
  OBVIOUS
<1>1. Founded /\ missed' \in IF Searches /\ FirstHit THEN Misses ELSE {{}}
  BY DEF Search, parsing, Founded
<1>2. \A p \in missed' : Verified(p) # "literal"
  BY <1>1 DEF Misses, MayMiss
<1> QED
  BY <1>1, <1>2, StayFounded DEF Surely

LEMMA RunSearch == TypeOK /\ RunInv /\ Search => RunInv'
<1> SUFFICES ASSUME TypeOK, RunInv, Search PROVE RunInv'
  OBVIOUS
<1>1. /\ Founded /\ pc = "search" /\ pc' = "file" /\ fid' = 1
      /\ ~(Has("json") /\ on \cap SummaryModes # {})
      /\ byfile' = [f \in DOMAIN world.files |-> IF Searches /\ f \in allowed THEN Merged(f, missed') ELSE <<>>]
  BY MissesSurely DEF Search
<1>2. InWorld /\ InWorld' /\ Surely'
  BY <1>1, StayFounded, MissesSurely DEF RunInv, Opened, TypeOK
<1>3. Opened' /\ Selects' /\ Writes'
  BY <1>1, <1>2 DEF Opened, Selects, Writes
<1>4. \A f \in allowed : ~Dealt(f)'
  <2> SUFFICES ASSUME NEW f \in allowed PROVE ~Dealt(f)'
    OBVIOUS
  <2>1. f \in Nat \ {0}
    BY <1>2, ReportedIs
  <2> QED
    BY <1>1, <2>1 DEF Dealt
<1>5. Reports'
  <2>1. \A f : Reported(f)' = IF Searches /\ f \in allowed THEN Merged(f, missed') ELSE <<>>
    <3>1. (Searches' <=> Searches) /\ allowed' = allowed
      BY <1>1, StayFounded DEF Founded
    <3>2. \A f : Merged(f, missed)' = Merged(f, missed')
      BY <1>1, StayFounded
    <3> QED
      BY <3>1, <3>2 DEF Reported
  <2>2. /\ ~(Has("json") /\ on \cap SummaryModes # {})'
        /\ allowed' = allowed /\ world' = world
    BY <1>1, StayFounded DEF Founded
  <2>3. DOMAIN byfile' = DOMAIN world'.files /\ \A f \in DOMAIN byfile' : byfile'[f] = Reported(f)'
    BY <1>1, <2>1, <2>2
  <2> QED
    BY <1>1, <1>4, <2>2, <2>3 DEF Reports
<1> QED
  BY <1>3, <1>5 DEF RunInv

LEMMA RunLines == TypeOK /\ RunInv /\ (StartLines \/ PrintLine \/ PassLine) => RunInv'
<1> SUFFICES ASSUME TypeOK, RunInv, StartLines \/ PrintLine \/ PassLine PROVE RunInv'
  OBVIOUS
<1>1. /\ Settled /\ UNCHANGED <<byfile, fid, selected, notice>>
      /\ pc \in {"mode", "lines"} /\ pc' = "lines"
  BY DEF StartLines, PrintLine, PassLine, Goes, parsing, chosen, Settled, Founded
<1>2. Opened' /\ Reports' /\ Selects'
  BY <1>1, RunStays
<1>3. (Counts' <=> Counts) /\ (Lists' <=> Lists) /\ (Hit' <=> Hit)
  BY <1>1, StaySettled DEF Counts, Lists, Hit
<1>4. CASE StartLines
  <2>1. /\ ~Counts /\ ~Lists /\ ~(Has("quiet") /\ Hit) /\ line' = 1 /\ skip' = 0
        /\ ~Has("json") /\ ~Has("onlyMatching") /\ ~Has("vimgrep")
        /\ emit' = IF Has("passthru") THEN DOMAIN LinesNow ELSE UNION {Window(k) : k \in selected}
        /\ pc = "mode"
    BY <1>4 DEF StartLines, Goes
  <2>2. selected = Chosen(fid) /\ fid \in allowed
    BY <2>1 DEF RunInv, Selects
  <2>3. selected \subseteq DOMAIN LinesNow
    BY <2>2, ChooseType DEF Chosen, LinesNow
  <2>4. DOMAIN LinesNow \subseteq Nat
    <3>1. InWorld
      BY <2>1 DEF RunInv, Opened, TypeOK
    <3>2. Text(fid) \in Seq(STRING)
      BY <2>2, <3>1, ReportedIs
    <3> QED
      BY <3>2, LineCountType DEF LinesNow
  <2>5. num.before \in Nat /\ num.after \in Nat
    BY DEF TypeOK, Given
  <2>6. \A k \in selected : k \in Window(k)
    BY <2>3, <2>4, <2>5 DEF Window
  <2>7. selected \subseteq emit'
    BY <2>1, <2>3, <2>6
  <2>8. Writes'
    BY <1>1, <1>3, <2>1, <2>7, StaySettled DEF Writes
  <2> QED
    BY <1>2, <2>8 DEF RunInv
<1>5. CASE PrintLine \/ PassLine
  <2>1. pc = "lines" /\ line' = line + 1 /\ emit' = emit
    BY <1>5 DEF PrintLine, PassLine
  <2>2. ~Has("replace") => skip' = skip
    BY <1>5 DEF PrintLine, PassLine, Replaces
  <2>3. line' # 0
    BY <2>1 DEF TypeOK
  <2>4. Writes'
    BY <1>1, <1>3, <2>1, <2>2, <2>3, StaySettled DEF Writes, RunInv
  <2> QED
    BY <1>2, <2>4 DEF RunInv
<1> QED
  BY <1>4, <1>5

LEMMA RunKeeps == TypeOK /\ RunInv /\ [Next]_vars => RunInv'
<1> SUFFICES ASSUME TypeOK, RunInv, [Next]_vars PROVE RunInv'
  OBVIOUS
<1>1. ASSUME pc' = "done", status' = 2 \/ (Settled /\ InWorld /\ Surely) PROVE RunInv'
  BY <1>1, StaySettled DEF RunInv, Opened, Reports, Selects, Writes, Running
<1>2. ASSUME pc' \in {"parse", "open"}, pc \in {"parse", "open"}, UNCHANGED <<any, tally, missed>> PROVE RunInv'
  BY <1>2 DEF RunInv, Opened, Reports, Selects, Writes, Running
<1>3. CASE ReadConfig \/ ReadFlag \/ EndOfFlags
  BY <1>2, <1>3 DEF ReadConfig, ReadFlag, Read, EndOfFlags, chosen
<1>4. CASE Refuse \/ RefuseJson
  BY <1>1, <1>4 DEF Refuse, RefuseJson, Return
<1>5. CASE Open
  <2>1. pc = "open" /\ pc' \in {"list", "search"} /\ UNCHANGED <<any, tally, missed>> /\ InWorld'
    BY <1>5 DEF Open, InWorld
  <2>2. pc' = "list" => Has("files")'
    BY <1>5 DEF Open, parsing, Has
  <2>3. missed' = {}
    BY <2>1 DEF RunInv, Opened
  <2> QED
    BY <2>1, <2>2, <2>3 DEF RunInv, Opened, Surely, Reports, Selects, Writes, Running
<1>6. CASE ListAll \/ QuietFound \/ Finish
  <2>1. pc' = "done" /\ Settled /\ pc \in {"list", "mode", "file"}
    BY <1>6 DEF ListAll, QuietFound, Finish, Return, parsing, chosen, Settled, Founded
  <2>2. InWorld /\ Surely
    BY <2>1 DEF RunInv, Opened, TypeOK
  <2> QED
    BY <1>1, <2>1, <2>2
<1>7. CASE Search
  BY <1>7, RunSearch
<1>8. CASE Begin
  BY <1>8, RunBegin
<1>9. CASE PassFile \/ ListFile \/ CountFile \/ PassOver \/ JsonFile \/ EachMatch \/ EndLines
  <2>1. NextFile /\ Running /\ (pc = "file" => fid \notin allowed)
    BY <1>9 DEF PassFile, ListFile, CountFile, PassOver, JsonFile, EachMatch, EndLines, Goes, Running
  <2> QED
    BY <2>1, RunNextFile
<1>10. CASE StartLines \/ PrintLine \/ PassLine
  BY <1>10, RunLines
<1>11. CASE UNCHANGED vars
  <2>1. /\ Settled /\ UNCHANGED <<pc, byfile, fid, selected, notice, status, any, tally, line, emit, skip>>
    BY <1>11 DEF vars, parsing, chosen, writing, Settled, Founded
  <2>2. (Counts' <=> Counts) /\ (Lists' <=> Lists) /\ (Hit' <=> Hit) /\ (Running' <=> Running)
    BY <2>1, StaySettled DEF Counts, Lists, Hit, Running
  <2>3. Opened'
    BY <2>1, StaySettled DEF RunInv, Opened, Settled
  <2>4. Selects'
    BY <2>1, StaySettled DEF RunInv, Selects, Settled, Founded
  <2>5. \A f : Dealt(f)' <=> Dealt(f)
    BY <2>1 DEF Dealt
  <2>6. Reports'
    BY <2>1, <2>2, <2>5, StaySettled DEF RunInv, Reports, Settled, Founded
  <2>7. Writes'
    BY <2>1, <2>2, StaySettled DEF RunInv, Writes
  <2> QED
    BY <2>3, <2>4, <2>6, <2>7 DEF RunInv
<1> QED
  BY <1>3, <1>4, <1>5, <1>6, <1>7, <1>8, <1>9, <1>10, <1>11 DEF Next

\* A file that is done with keeps what is reported true, if it gave what was
\* asked for only when that is reported now.
LEMMA StatusNextFile ==
  ASSUME TypeOK, RunInv, StatusInv, NextFile, Running, any => any',
         any' => any \/ \E f \in allowed : Gives(f) \/ Odd(f),
         fid \in allowed /\ Gives(fid) /\ ~Aside => any' /\ ~Has("quiet")
  PROVE  StatusInv'
<1>1. Settled /\ pc' = "file" /\ fid' = fid + 1 /\ fid \in Nat
  BY DEF NextFile, parsing, chosen, Settled, Founded, TypeOK
<1>2. InWorld
  BY DEF RunInv, Opened, TypeOK, Running
<1>3. \A f \in allowed : f \in Nat
  BY <1>2, ReportedIs
<1>4. /\ any => \E f \in allowed : Gives(f) \/ Odd(f)
      /\ ~Aside => \A f \in allowed : f < fid /\ Gives(f) => any /\ ~Has("quiet")
  BY DEF StatusInv
<1>5. (Aside' <=> Aside) /\ allowed' = allowed
  BY <1>1, StaySettled DEF Aside, Settled, Founded
<1>6. any' => \E f \in allowed : Gives(f) \/ Odd(f)
  BY <1>4
<1>7. ASSUME ~Aside, NEW f \in allowed, f < fid + 1, Gives(f) PROVE any' /\ ~Has("quiet")
  <2>1. f < fid \/ f = fid
    BY <1>1, <1>3, <1>7
  <2> QED
    BY <1>4, <1>7, <2>1
<1> QED
  BY <1>1, <1>5, <1>6, <1>7, StaySettled DEF StatusInv

\* Matches are counted exactly in a file that has lines to show for them.
LEMMA CountTells ==
  ASSUME TypeOK, RunInv, pc = "mode"
  PROVE  /\ Hit => CountOf > 0
         /\ CountOf > 0 => Hit \/ Odd(fid)
         /\ Counted # {} => Hit
         /\ Hit /\ ~Has("invert") => Counted # {}
<1> DEFINE ms == Remains(fid)
<1>1. /\ InWorld /\ fid \in allowed /\ selected = Chosen(fid) /\ num \in Given
      /\ \A f \in DOMAIN byfile : byfile[f] = IF f \in allowed /\ Dealt(f) THEN Remains(f) ELSE Reported(f)
      /\ DOMAIN byfile = DOMAIN world.files
  BY DEF RunInv, Opened, Selects, Reports, Running, TypeOK
<1>2. /\ ms \in Seq(Spans) /\ Text(fid) \in Seq(STRING) /\ fid \in DOMAIN world.files
      /\ (ms # <<>> => All(fid) # <<>>)
  BY <1>1, ReportedIs
<1>3. Matches = ms
  BY <1>1, <1>2 DEF Matches, Dealt
<1>4. selected = Choose(LinesNow, ms) /\ Counted = Begins(LinesNow, ms)
  BY <1>1, <1>3 DEF Chosen, LinesNow, Counted, Begins
<1>5. IsFiniteSet(selected) /\ IsFiniteSet(Counted) /\ Len(ms) \in Nat
  <2>1. LineCount(Text(fid)) \in Nat /\ DOMAIN LinesNow = 1..LineCount(Text(fid))
    BY <1>2, LineCountType DEF LinesNow
  <2>2. selected \subseteq DOMAIN LinesNow
    BY <1>4, ChooseType
  <2>3. IsFiniteSet(selected)
    <3>1. IsFiniteSet(1..LineCount(Text(fid)))
      BY <2>1, FS_Interval
    <3> QED
      BY <2>1, <2>2, <3>1, FS_Subset
  <2>4. DOMAIN ms = 1..Len(ms) /\ Len(ms) \in Nat
    BY <1>2
  <2>5. Counted \subseteq 1..Len(ms)
    BY <1>3, <2>4 DEF Counted
  <2>6. IsFiniteSet(Counted)
    <3>1. IsFiniteSet(1..Len(ms))
      BY <2>4, FS_Interval
    <3> QED
      BY <2>5, <3>1, FS_Subset
  <2> QED
    BY <2>3, <2>4, <2>6
<1>6. /\ Cardinality(selected) \in Nat /\ (Cardinality(selected) = 0 <=> ~Hit)
      /\ Cardinality(Counted) \in Nat /\ (Cardinality(Counted) = 0 <=> Counted = {})
  BY <1>5, FS_CardinalityType, FS_EmptySet DEF Hit
<1>7. Counted # {} => Hit
  BY DEF Counted, Hit
<1>8. Hit => Positive
  BY <1>1, <1>2, <1>4, ChooseNone DEF Hit, LinesNow
<1>9. Positive /\ ~Has("invert") => (Hit <=> ms # <<>> /\ Text(fid) # <<>>) /\ (Hit => Counted # {})
  BY <1>1, <1>2, <1>4, ChooseSome DEF Hit, LinesNow
<1>10. ~Has("maxCount") => Positive
  BY DEF Positive
<1>11. Len(ms) > 0 <=> ms # <<>>
  BY <1>2
<1>12. Text(fid) = <<>> /\ ms # <<>> => Odd(fid)
  BY <1>2 DEF Odd, Hollow
<1>13. CountOf = IF Has("countMatches") /\ ~Has("invert")
                 THEN IF Has("maxCount") THEN Cardinality(Counted) ELSE Len(ms)
                 ELSE Cardinality(selected)
  BY <1>3 DEF CountOf
<1> HIDE DEF ms
<1> QED
  BY <1>5, <1>6, <1>7, <1>8, <1>9, <1>10, <1>11, <1>12, <1>13

\* Without a summary mode that lists files, the current one gives what was
\* asked for exactly if a line is selected; with one, exactly if it is listed.
LEMMA GivesNow ==
  ASSUME RunInv, OptionsInv, pc \in {"mode", "lines"}
  PROVE  Gives(fid) <=> IF Lists THEN Emits ELSE Hit
<1>1. selected = Chosen(fid)
  BY DEF RunInv, Selects
<1>2. ~(Has("filesWith") /\ Has("filesWithout"))
  BY DEF OptionsInv, Exclusive, SummaryModes, Has
<1> QED
  BY <1>1, <1>2 DEF Gives, Lists, Emits, Hit

LEMMA StatusMode ==
  ASSUME TypeOK, RunInv, OptionsInv, StatusInv,
         ListFile \/ CountFile \/ PassOver \/ JsonFile \/ EachMatch
  PROVE  StatusInv'
<1>1. pc = "mode" /\ NextFile /\ Running
  BY DEF ListFile, CountFile, PassOver, JsonFile, EachMatch, Goes, Running
<1>2. fid \in allowed /\ (notice => Odd(fid))
  BY <1>1 DEF RunInv, Selects
<1>3. Gives(fid) <=> IF Lists THEN Emits ELSE Hit
  BY <1>1, GivesNow
<1>4. any \in BOOLEAN
  BY DEF TypeOK
<1>5. /\ any => any'
      /\ any' => any \/ Gives(fid) \/ Odd(fid)
      /\ Gives(fid) /\ ~Aside => any' /\ ~Has("quiet")
  <2>1. CASE ListFile
    BY <1>3, <2>1 DEF ListFile
  <2>2. CASE CountFile
    <3>1. (any' <=> any \/ CountOf > 0) /\ ~Lists /\ ~(Has("quiet") /\ Hit)
      BY <2>2 DEF CountFile, Goes
    <3> QED
      BY <1>1, <1>3, <3>1, CountTells
  <2>3. CASE PassOver
    BY <1>2, <1>3, <2>3 DEF PassOver, Goes, Barren
  <2>4. CASE JsonFile
    BY <1>3, <2>4 DEF JsonFile, Goes
  <2>5. CASE EachMatch
    <3>1. /\ any' <=> any \/ (Hit /\ Has("onlyMatching")) \/ (~Has("invert") /\ Counted # {})
          /\ ~Lists /\ ~(Has("quiet") /\ Hit) /\ (Has("onlyMatching") \/ Has("vimgrep"))
      BY <2>5 DEF EachMatch, Goes
    <3>2. (Counted # {} => Hit) /\ (Hit /\ ~Has("invert") => Counted # {})
      BY <1>1, CountTells
    <3> QED
      BY <1>3, <3>1, <3>2 DEF Aside
  <2> QED
    BY <2>1, <2>2, <2>3, <2>4, <2>5
<1> QED
  BY <1>1, <1>2, <1>5, StatusNextFile

LEMMA StatusLines ==
  ASSUME TypeOK, RunInv, OptionsInv, StatusInv, StartLines \/ PrintLine \/ PassLine
  PROVE  StatusInv'
<1>1. /\ Settled /\ UNCHANGED <<fid, selected>> /\ pc \in {"mode", "lines"} /\ pc' = "lines"
      /\ line \in Nat
  BY DEF StartLines, PrintLine, PassLine, Goes, parsing, chosen, Settled, Founded, TypeOK
<1>2. InWorld /\ fid \in allowed /\ selected = Chosen(fid)
  BY <1>1 DEF RunInv, Opened, Selects, TypeOK
<1>3. selected \subseteq Nat
  <2>1. Text(fid) \in Seq(STRING)
    BY <1>2, ReportedIs
  <2>2. DOMAIN Lines(Text(fid)) \subseteq Nat
    BY <2>1, LineCountType
  <2> QED
    BY <1>2, <2>2, ChooseType DEF Chosen
<1>4. Gives(fid) <=> IF Lists THEN Emits ELSE Hit
  BY <1>1, GivesNow
<1>5. /\ any => \E f \in allowed : Gives(f) \/ Odd(f)
      /\ ~Aside => \A f \in allowed : f < fid /\ Gives(f) => any /\ ~Has("quiet")
  BY <1>1 DEF StatusInv, Running
<1>6. (Aside' <=> Aside) /\ allowed' = allowed /\ (Has("quiet")' <=> Has("quiet"))
  BY <1>1, StaySettled DEF Aside, Settled, Founded
<1>7. /\ any => any'
      /\ any' => any \/ Gives(fid)
      /\ any' \/ (skip' = 0 /\ \A k \in selected : line' <= k)
  <2>1. CASE StartLines
    <3>1. any' = any /\ skip' = 0 /\ line' = 1 /\ selected \subseteq DOMAIN LinesNow
      BY <1>2, <2>1, ChooseType DEF StartLines, Chosen, LinesNow
    <3>2. \A k \in DOMAIN LinesNow : 1 <= k
      <4>1. Text(fid) \in Seq(STRING)
        BY <1>2, ReportedIs
      <4>2. LineCount(Text(fid)) \in Nat /\ DOMAIN LinesNow = 1..LineCount(Text(fid))
        BY <4>1, LineCountType DEF LinesNow
      <4> QED
        BY <4>2
    <3> QED
      BY <3>1, <3>2
  <2>2. CASE PrintLine \/ PassLine
    <3>1. /\ pc = "lines" /\ line' = line + 1
          /\ any \/ (skip = 0 /\ \A k \in selected : line <= k)
          /\ ~Lists /\ line # 0 /\ selected \subseteq emit
      BY <2>2 DEF PrintLine, PassLine, StatusInv, RunInv, Writes
    <3>2. CASE PrintLine
      <4>1. (any' <=> any \/ line \in selected)
            /\ skip' = IF Replaces(line) THEN Greater(skip, Reach(line)) ELSE skip
        BY <3>2 DEF PrintLine
      <4>2. line \in selected => Hit
        BY DEF Hit
      <4>3. ASSUME ~any' PROVE skip' = 0 /\ \A k \in selected : line' <= k
        <5>1. line \notin selected /\ skip = 0 /\ \A k \in selected : line <= k
          BY <3>1, <4>1, <4>3
        <5>2. \A k \in selected : line + 1 <= k
          BY <1>1, <1>3, <5>1
        <5> QED
          BY <3>1, <4>1, <5>1, <5>2 DEF Replaces
      <4> QED
        BY <1>4, <3>1, <4>1, <4>2, <4>3
    <3>3. CASE PassLine
      <4>1. any' = any /\ skip' = skip /\ (line <= skip \/ line \notin emit)
        BY <3>3 DEF PassLine
      <4>2. ASSUME ~any PROVE \A k \in selected : line' <= k
        <5>1. skip = 0 /\ \A k \in selected : line <= k
          BY <3>1, <4>2
        <5>2. line \notin selected
          BY <1>1, <3>1, <4>1, <5>1
        <5> QED
          BY <1>1, <1>3, <3>1, <5>1, <5>2
      <4> QED
        BY <3>1, <4>1, <4>2
    <3> QED
      BY <2>2, <3>2, <3>3
  <2> QED
    BY <2>1, <2>2
<1>8. any' => \E f \in allowed : Gives(f) \/ Odd(f)
  BY <1>2, <1>5, <1>7
<1>9. pc' # "done" /\ fid' = fid /\ selected' = selected
  BY <1>1
<1> QED
  BY <1>1, <1>5, <1>6, <1>7, <1>8, <1>9, StaySettled DEF StatusInv

LEMMA StatusEnd == TypeOK /\ RunInv /\ OptionsInv /\ StatusInv /\ EndLines => StatusInv'
<1> SUFFICES ASSUME TypeOK, RunInv, OptionsInv, StatusInv, EndLines PROVE StatusInv'
  OBVIOUS
<1>1. /\ pc = "lines" /\ line \notin DOMAIN LinesNow /\ (any' <=> any \/ notice) /\ NextFile /\ Running
      /\ line \in Nat
  BY DEF EndLines, Running, TypeOK
<1>2. /\ InWorld /\ fid \in allowed /\ selected = Chosen(fid) /\ (notice => Odd(fid))
      /\ ~Lists /\ ~(Has("quiet") /\ Hit) /\ line # 0
      /\ any \/ \A k \in selected : line <= k
  BY <1>1 DEF RunInv, Opened, Selects, Writes, StatusInv, TypeOK
<1>3. Gives(fid) <=> Hit
  BY <1>1, <1>2, GivesNow
<1>4. ~any => ~Hit
  <2> SUFFICES ASSUME ~any, NEW k \in selected PROVE FALSE
    BY DEF Hit
  <2>1. Text(fid) \in Seq(STRING)
    BY <1>2, ReportedIs
  <2>2. LineCount(Text(fid)) \in Nat /\ DOMAIN LinesNow = 1..LineCount(Text(fid))
    BY <2>1, LineCountType DEF LinesNow
  <2>3. k \in DOMAIN LinesNow /\ line <= k
    BY <1>2, ChooseType DEF Chosen, LinesNow
  <2> QED
    BY <1>1, <1>2, <2>2, <2>3
<1>5. any \in BOOLEAN
  BY DEF TypeOK
<1>6. any => any'
  BY <1>1
<1>7. any' => any \/ \E f \in allowed : Gives(f) \/ Odd(f)
  BY <1>1, <1>2
<1>8. Gives(fid) /\ ~Aside => any' /\ ~Has("quiet")
  BY <1>1, <1>2, <1>3, <1>4
<1> QED
  BY <1>1, <1>6, <1>7, <1>8, StatusNextFile

LEMMA StatusKeeps == TypeOK /\ RunInv /\ OptionsInv /\ StatusInv /\ [Next]_vars => StatusInv'
<1> SUFFICES ASSUME TypeOK, RunInv, OptionsInv, StatusInv, [Next]_vars PROVE StatusInv'
  OBVIOUS
<1>1. CASE ReadConfig \/ ReadFlag \/ EndOfFlags \/ Open
  <2>1. pc' \in {"parse", "open", "list", "search"}
    BY <1>1 DEF ReadConfig, ReadFlag, Read, EndOfFlags, Open
  <2> QED
    BY <2>1 DEF StatusInv, Running
<1>2. CASE Refuse \/ RefuseJson
  <2>1. pc' = "done" /\ status' = 2
    BY <1>2 DEF Refuse, RefuseJson, Return
  <2> QED
    BY <2>1 DEF StatusInv, Running
<1>3. CASE ListAll
  <2>1. pc' = "done" /\ Settled /\ Has("files")
    BY <1>3 DEF ListAll, Return, parsing, Settled, Founded, chosen, RunInv, Opened
  <2> QED
    BY <2>1, StaySettled DEF StatusInv, Running
<1>4. CASE Search
  <2>1. pc' = "file" /\ fid' = 1 /\ any' = any /\ Founded /\ ~any
    BY <1>4, MissesSurely DEF Search, RunInv, Opened
  <2>2. InWorld
    BY <1>4 DEF Search, RunInv, Opened, TypeOK
  <2>3. \A f \in allowed : ~(f < 1)
    <3>1. \A f \in allowed : f \in Nat \ {0}
      BY <2>2, ReportedIs
    <3> QED
      BY <3>1
  <2> QED
    BY <2>1, <2>3 DEF StatusInv, Founded
<1>5. CASE Begin
  <2>1. pc = "file" /\ pc' = "mode" /\ fid' = fid /\ any' = any /\ Settled
    BY <1>5 DEF Begin, parsing, Settled, Founded
  <2>2. (Aside' <=> Aside) /\ allowed' = allowed
    BY <2>1, StaySettled DEF Aside, Settled, Founded
  <2> QED
    BY <2>1, <2>2, StaySettled DEF StatusInv, Running
<1>6. CASE PassFile
  <2>1. NextFile /\ Running /\ fid \notin allowed /\ any' = any
    BY <1>6 DEF PassFile, Running
  <2> QED
    BY <2>1, StatusNextFile
<1>7. CASE ListFile \/ CountFile \/ PassOver \/ JsonFile \/ EachMatch
  BY <1>7, StatusMode
<1>8. CASE StartLines \/ PrintLine \/ PassLine
  BY <1>8, StatusLines
<1>9. CASE EndLines
  BY <1>9, StatusEnd
<1>10. CASE QuietFound
  <2>1. pc = "mode" /\ (IF Lists THEN Emits ELSE Hit) /\ pc' = "done" /\ status' = 0 /\ Settled
    BY <1>10 DEF QuietFound, Return, parsing, chosen, Settled, Founded
  <2>2. Gives(fid) /\ fid \in allowed
    BY <2>1, GivesNow DEF RunInv, Selects
  <2>3. \E f \in allowed' : Gives(f)' \/ Odd(f)'
    BY <2>1, <2>2, StaySettled DEF Settled, Founded
  <2> QED
    BY <2>1, <2>3 DEF StatusInv, Running
<1>11. CASE Finish
  <2>1. /\ pc = "file" /\ fid \notin DOMAIN world.files /\ pc' = "done" /\ Settled
        /\ status' = IF any THEN 0 ELSE 1
    BY <1>11 DEF Finish, Return, parsing, chosen, Settled, Founded
  <2>2. InWorld /\ fid \in Nat /\ fid # 0
    BY <2>1 DEF RunInv, Opened, Reports, Running, TypeOK
  <2>3. /\ any => \E f \in allowed : Gives(f) \/ Odd(f)
        /\ ~Aside => \A f \in allowed : f < fid /\ Gives(f) => any
    BY <2>1 DEF StatusInv, Running
  <2>4. ASSUME NEW f \in allowed PROVE f < fid
    <3>1. f \in DOMAIN world.files /\ world \in Worlds
      BY <2>2 DEF InWorld
    <3>2. f \in 1..Len(world.files) /\ DOMAIN world.files = 1..Len(world.files) /\ Len(world.files) \in Nat
      BY <3>1, FileType
    <3> QED
      BY <2>1, <2>2, <3>2
  <2>5. (Aside' <=> Aside) /\ allowed' = allowed
    BY <2>1, StaySettled DEF Aside, Settled, Founded
  <2>6. status' = 0 => \E f \in allowed : Gives(f) \/ Odd(f)
    BY <2>1, <2>3
  <2>7. status' = 1 /\ ~Aside => \A f \in allowed : ~Gives(f)
    BY <2>1, <2>3, <2>4
  <2> QED
    BY <2>1, <2>5, <2>6, <2>7, StaySettled DEF StatusInv, Running
<1>12. CASE UNCHANGED vars
  <2>1. Settled /\ UNCHANGED <<pc, fid, selected, any, line, skip, status>>
    BY <1>12 DEF vars, parsing, chosen, writing, Settled, Founded
  <2>2. (Aside' <=> Aside) /\ allowed' = allowed /\ (Running' <=> Running)
    BY <2>1, StaySettled DEF Aside, Settled, Founded, Running
  <2> QED
    BY <2>1, <2>2, StaySettled DEF StatusInv
<1> QED
  BY <1>1, <1>2, <1>3, <1>4, <1>5, <1>6, <1>7, <1>8, <1>9, <1>10, <1>11, <1>12 DEF Next

LEMMA RunStarts == Init => RunInv /\ StatusInv
BY DEF Init, RunInv, Opened, Reports, Selects, Writes, StatusInv, Running

\* The exit status is 0 only when some file has what was asked for, and then
\* always, except in a quiet run for an expression, whose search may give up
\* before the match (the objective of the search, the first record verified
\* in find, the modes of writing and the last line of main).
THEOREM StatusTells == Spec => []StatusMeansFound
<1> QED
  BY OptionsAgree, InitType, NextType, RunStarts, RunKeeps, StatusKeeps, StatusSaid, PTL DEF Spec

-----------------------------------------------------------------------------
(* What is counted.                                                        *)

\* The matches that begin in a line selected, and what each file adds.
Starts(f) == {i \in DOMAIN Remains(f) : LineFor(Lines(Text(f)), Remains(f)[i].s) \in Chosen(f)}

PickedLines   == [f \in allowed |-> Cardinality(Chosen(f))]
PickedMatches == [f \in allowed |-> Cardinality(IF Has("invert") THEN Chosen(f) ELSE Starts(f))]

Past == {f \in allowed : f < fid}

\* When the tally tells the lines written, and the matches.
LinesTold   == Has("json") \/ (on \cap (SummaryModes \cup {"onlyMatching", "vimgrep", "replace"}) = {})
MatchesTold ==
  \/ (Has("json") \/ Has("onlyMatching") \/ Has("vimgrep")) /\ on \cap SummaryModes = {} /\ ~Has("invert")
  \/ Has("countMatches") /\ (Has("stopOnNonmatch") => Has("maxCount")) /\ ~(\E f \in allowed : Hollow(f))

\* The lines of the current file that are written.
Shown == IF pc = "lines" THEN Cardinality({k \in selected : k < line}) ELSE 0

\* What is written so far is the sum over the files done with, and the lines
\* of the current one that are written.
TallyInv ==
  Running /\ ~Has("quiet") =>
    /\ LinesTold => tally.lines = SumFunctionOnSet(PickedLines, Past) + Shown
    /\ MatchesTold => tally.matches = SumFunctionOnSet(PickedMatches, Past)

LEMMA StayPicked ==
  ASSUME Settled
  PROVE  /\ PickedLines' = PickedLines /\ PickedMatches' = PickedMatches /\ allowed' = allowed
         /\ (LinesTold' <=> LinesTold) /\ (MatchesTold' <=> MatchesTold)
<1>1. on' = on /\ allowed' = allowed
  BY DEF Settled, Founded
<1>2. \A f : LineFor(Lines(Text(f)), 0)' = LineFor(Lines(Text(f)), 0)
  BY StaySettled DEF LineFor
<1>3. \A f : Starts(f)' = Starts(f)
  BY StaySettled DEF Starts, LineFor
<1>4. PickedLines' = PickedLines /\ PickedMatches' = PickedMatches
  BY <1>1, <1>3, StaySettled DEF PickedLines, PickedMatches
<1>5. (LinesTold' <=> LinesTold) /\ (MatchesTold' <=> MatchesTold)
  BY <1>1, StaySettled DEF LinesTold, MatchesTold
<1> QED
  BY <1>1, <1>4, <1>5

LEMMA PickedType ==
  ASSUME InWorld, NEW f \in allowed
  PROVE  /\ IsFiniteSet(Chosen(f)) /\ IsFiniteSet(Starts(f)) /\ Chosen(f) \subseteq Nat
         /\ PickedLines[f] \in Nat /\ PickedMatches[f] \in Nat
<1>1. Text(f) \in Seq(STRING) /\ Remains(f) \in Seq(Spans)
  BY ReportedIs
<1>2. LineCount(Text(f)) \in Nat /\ DOMAIN Lines(Text(f)) = 1..LineCount(Text(f))
  BY <1>1, LineCountType
<1>3. Chosen(f) \subseteq 1..LineCount(Text(f))
  BY <1>2, ChooseType DEF Chosen
<1>4. IsFiniteSet(Chosen(f))
  <2>1. IsFiniteSet(1..LineCount(Text(f)))
    BY <1>2, FS_Interval
  <2> QED
    BY <1>3, <2>1, FS_Subset
<1>5. IsFiniteSet(Starts(f))
  <2>1. Len(Remains(f)) \in Nat /\ DOMAIN Remains(f) = 1..Len(Remains(f))
    BY <1>1
  <2>2. Starts(f) \subseteq 1..Len(Remains(f))
    BY <2>1 DEF Starts
  <2>3. IsFiniteSet(1..Len(Remains(f)))
    BY <2>1, FS_Interval
  <2> QED
    BY <2>2, <2>3, FS_Subset
<1>6. Cardinality(Chosen(f)) \in Nat /\ Cardinality(Starts(f)) \in Nat
  BY <1>4, <1>5, FS_CardinalityType
<1>7. PickedLines[f] \in Nat /\ PickedMatches[f] \in Nat
  BY <1>6 DEF PickedLines, PickedMatches
<1> QED
  BY <1>2, <1>3, <1>4, <1>5, <1>7

LEMMA AllowedFinite ==
  ASSUME InWorld
  PROVE  IsFiniteSet(allowed) /\ allowed \subseteq 1..Len(world.files) /\ Len(world.files) \in Nat
           /\ DOMAIN world.files = 1..Len(world.files)
<1>1. allowed \subseteq DOMAIN world.files /\ world \in Worlds
  BY DEF InWorld
<1>2. allowed = {} \/ (Len(world.files) \in Nat /\ DOMAIN world.files = 1..Len(world.files))
  BY <1>1, FileType
<1>3. Len(world.files) \in Nat /\ DOMAIN world.files = 1..Len(world.files)
  <2> DEFINE Files == [path : Seq(STRING), text : Seq(STRING), size : Nat]
  <2>1. world.files \in Seq(Files)
    BY <1>1, CommandAssumption
  <2> HIDE DEF Files
  <2> QED
    BY <2>1
<1>4. IsFiniteSet(1..Len(world.files))
  BY <1>3, FS_Interval
<1> QED
  BY <1>1, <1>3, <1>4, FS_Subset

\* A file that is done with is one more to sum over.
LEMMA OneFileMore ==
  ASSUME InWorld, fid \in Nat, NEW F, \A f \in allowed : F[f] \in Nat
  PROVE  /\ SumFunctionOnSet(F, Past) \in Nat
         /\ SumFunctionOnSet(F, {f \in allowed : f < fid + 1})
              = SumFunctionOnSet(F, Past) + IF fid \in allowed THEN F[fid] ELSE 0
<1> DEFINE Next1 == {f \in allowed : f < fid + 1}
<1>1. IsFiniteSet(allowed) /\ \A f \in allowed : f \in Nat
  BY AllowedFinite
<1>2. Past \subseteq allowed /\ Next1 \subseteq allowed
  BY DEF Past
<1>3. IsFiniteSet(Past) /\ IsFiniteSet(Next1)
  BY <1>1, <1>2, FS_Subset
<1>4. (\A f \in Past : F[f] \in Nat) /\ \A f \in Next1 : F[f] \in Nat
  BY <1>2
<1>5. SumFunctionOnSet(F, Past) \in Nat
  BY <1>3, <1>4, SumType
<1>6. CASE fid \in allowed
  <2>1. fid \in Next1 /\ Next1 \ {fid} = Past
    <3>1. fid \in Next1
      BY <1>6
    <3>2. ASSUME NEW f \in allowed PROVE f \in Next1 \ {fid} <=> f \in Past
      <4>1. f \in Nat /\ fid \in Nat
        BY <1>1
      <4>2. f < fid + 1 /\ f # fid <=> f < fid
        BY <4>1
      <4> QED
        BY <4>2 DEF Past
    <3> QED
      BY <1>2, <3>1, <3>2
  <2> HIDE DEF Next1
  <2>2. SumFunctionOnSet(F, Next1) = F[fid] + SumFunctionOnSet(F, Next1 \ {fid})
    BY <1>3, <1>4, <2>1, SumTakes
  <2>3. SumFunctionOnSet(F, Next1) = F[fid] + SumFunctionOnSet(F, Past)
    BY <2>1, <2>2
  <2>4. F[fid] \in Nat
    BY <1>6
  <2> QED
    BY <1>5, <1>6, <2>3, <2>4 DEF Next1
<1>7. CASE fid \notin allowed
  <2>1. Next1 = Past
    BY <1>1, <1>7 DEF Past
  <2> QED
    BY <1>5, <1>7, <2>1
<1> QED
  BY <1>5, <1>6, <1>7

\* A file done with keeps the tally, if what is written in it is added.
LEMMA TallyNextFile ==
  ASSUME TypeOK, RunInv, TallyInv, NextFile, Running, ~Has("quiet"),
         LinesTold => tally'.lines + Shown = tally.lines + IF fid \in allowed THEN PickedLines[fid] ELSE 0,
         MatchesTold => tally'.matches = tally.matches + IF fid \in allowed THEN PickedMatches[fid] ELSE 0,
         Shown \in Nat, LinesTold => tally'.lines \in Nat
  PROVE  TallyInv'
<1>1. Settled /\ pc' = "file" /\ fid' = fid + 1 /\ fid \in Nat
  BY DEF NextFile, parsing, chosen, Settled, Founded, TypeOK
<1>2. InWorld
  BY DEF RunInv, Opened, TypeOK, Running
<1>3. Past' = {f \in allowed : f < fid + 1} /\ Shown' = 0
  BY <1>1, StayPicked DEF Past, Shown
<1>4. \A f \in allowed : PickedLines[f] \in Nat /\ PickedMatches[f] \in Nat
  BY <1>2, PickedType
<1>5. /\ LinesTold => tally.lines = SumFunctionOnSet(PickedLines, Past) + Shown
      /\ MatchesTold => tally.matches = SumFunctionOnSet(PickedMatches, Past)
  BY DEF TallyInv
<1> DEFINE l == SumFunctionOnSet(PickedLines, Past)
           m == SumFunctionOnSet(PickedMatches, Past)
           l1 == SumFunctionOnSet(PickedLines, {f \in allowed : f < fid + 1})
           m1 == SumFunctionOnSet(PickedMatches, {f \in allowed : f < fid + 1})
<1>6. l \in Nat /\ l1 = l + IF fid \in allowed THEN PickedLines[fid] ELSE 0
  BY <1>1, <1>2, <1>4, OneFileMore
<1>7. m \in Nat /\ m1 = m + IF fid \in allowed THEN PickedMatches[fid] ELSE 0
  BY <1>1, <1>2, <1>4, OneFileMore
<1> HIDE DEF l, m, l1, m1
<1>8. LinesTold => tally'.lines = l1 + 0
  <2> DEFINE x == IF fid \in allowed THEN PickedLines[fid] ELSE 0
  <2>1. x \in Nat
    BY <1>4
  <2>2. LinesTold => tally'.lines + Shown = tally.lines + x /\ tally.lines = l + Shown
    BY <1>5 DEF l
  <2>3. l1 = l + x
    BY <1>6
  <2> HIDE DEF x
  <2> QED
    BY <1>6, <2>1, <2>2, <2>3
<1>9. MatchesTold => tally'.matches = m1
  BY <1>5, <1>7 DEF m
<1>10. SumFunctionOnSet(PickedLines, Past)' = l1 /\ SumFunctionOnSet(PickedMatches, Past)' = m1
  BY <1>1, <1>3, StayPicked DEF l1, m1
<1> QED
  BY <1>1, <1>3, <1>8, <1>9, <1>10, StayPicked DEF TallyInv

\* Every match begins in a line selected when the lines are not limited.
LEMMA EveryOneStarts ==
  ASSUME InWorld, NEW f \in allowed, ~Has("invert"), ~Has("maxCount"), ~Has("stopOnNonmatch"), ~Hollow(f)
  PROVE  Cardinality(Starts(f)) = Len(Remains(f))
<1> DEFINE ms == Remains(f)
           lines == Lines(Text(f))
<1>1. Text(f) \in Seq(STRING) /\ ms \in Seq(Spans) /\ (ms # <<>> => All(f) # <<>>)
  BY ReportedIs
<1>2. Len(ms) \in Nat /\ DOMAIN ms = 1..Len(ms)
  BY <1>1
<1>3. Chosen(f) = MatchedLines(lines, ms)
  BY DEF Chosen, Choose
<1>4. ASSUME NEW i \in DOMAIN ms PROVE i \in Starts(f)
  <2>1. ms[i] \in Spans /\ ms # <<>>
    BY <1>1, <1>2, <1>4
  <2>2. Text(f) # <<>>
    BY <1>1, <2>1 DEF Hollow
  <2>3. /\ FirstLine(lines, ms[i]) \in 1..LineCount(Text(f))
        /\ LastLine(lines, ms[i]) \in 1..LineCount(Text(f))
        /\ FirstLine(lines, ms[i]) <= LastLine(lines, ms[i])
    BY <1>1, <2>1, <2>2, SpanLines
  <2>4. LineCount(Text(f)) \in Nat /\ DOMAIN lines = 1..LineCount(Text(f))
    BY <1>1, LineCountType
  <2> HIDE DEF ms, lines
  <2>5. FirstLine(lines, ms[i]) \in FirstLine(lines, ms[i])..LastLine(lines, ms[i])
    BY <2>3, <2>4
  <2>6. FirstLine(lines, ms[i]) \in MatchedLines(lines, ms)
    BY <2>3, <2>4, <2>5 DEF MatchedLines
  <2> QED
    BY <1>3, <2>6 DEF Starts, FirstLine, ms, lines
<1>5. Starts(f) = 1..Len(ms)
  BY <1>2, <1>4 DEF Starts
<1>6. Cardinality(1..Len(ms)) = Len(ms)
  BY <1>2, FS_Interval
<1> QED
  BY <1>5, <1>6

\* What the modes add is what the file is to add.
LEMMA ModeAdds ==
  ASSUME TypeOK, RunInv, pc = "mode"
  PROVE  /\ fid \in allowed /\ Shown = 0
         /\ Cardinality(selected) = PickedLines[fid] /\ PickedLines[fid] \in Nat
         /\ Cardinality(IF Has("invert") THEN selected ELSE Counted) = PickedMatches[fid]
         /\ PickedMatches[fid] \in Nat
         /\ ~Hit => PickedLines[fid] = 0 /\ PickedMatches[fid] = 0
         /\ Has("countMatches") /\ (Has("stopOnNonmatch") => Has("maxCount")) /\ ~Hollow(fid)
              => CountOf = PickedMatches[fid]
<1>1. /\ InWorld /\ fid \in allowed /\ selected = Chosen(fid)
      /\ \A f \in DOMAIN byfile : byfile[f] = IF f \in allowed /\ Dealt(f) THEN Remains(f) ELSE Reported(f)
      /\ DOMAIN byfile = DOMAIN world.files
  BY DEF RunInv, Opened, Selects, Reports, Running, TypeOK
<1>2. Matches = Remains(fid)
  <2>1. fid \in DOMAIN world.files /\ Dealt(fid)
    BY <1>1, ReportedIs DEF Dealt
  <2> QED
    BY <1>1, <2>1 DEF Matches
<1>3. Counted = Starts(fid)
  BY <1>1, <1>2 DEF Counted, Starts, LinesNow
<1>4. /\ PickedLines[fid] = Cardinality(Chosen(fid))
      /\ PickedMatches[fid] = Cardinality(IF Has("invert") THEN Chosen(fid) ELSE Starts(fid))
  BY <1>1 DEF PickedLines, PickedMatches
<1>5. PickedLines[fid] \in Nat /\ PickedMatches[fid] \in Nat
  BY <1>1, PickedType
<1>6. ~Hit => PickedLines[fid] = 0 /\ PickedMatches[fid] = 0
  <2>1. ~Hit => Chosen(fid) = {} /\ Starts(fid) = {}
    BY <1>1 DEF Hit, Starts
  <2> QED
    BY <1>4, <2>1, FS_EmptySet
<1>7. ASSUME Has("countMatches"), Has("stopOnNonmatch") => Has("maxCount"), ~Hollow(fid)
      PROVE  CountOf = PickedMatches[fid]
  <2>1. ~Has("invert") /\ ~Has("maxCount") => Cardinality(Starts(fid)) = Len(Remains(fid))
    BY <1>1, <1>7, EveryOneStarts
  <2> QED
    BY <1>1, <1>2, <1>3, <1>4, <1>7, <2>1 DEF CountOf
<1> QED
  BY <1>1, <1>3, <1>4, <1>5, <1>6, <1>7 DEF Shown

LEMMA TallyMode ==
  ASSUME TypeOK, RunInv, OptionsInv, TallyInv, ~Has("quiet"),
         ListFile \/ CountFile \/ PassOver \/ JsonFile \/ EachMatch
  PROVE  TallyInv'
<1>1. pc = "mode" /\ NextFile /\ Running
  BY DEF ListFile, CountFile, PassOver, JsonFile, EachMatch, Goes, Running
<1>2. /\ InWorld /\ fid \in Nat /\ ~(Has("json") /\ on \cap SummaryModes # {})
  BY <1>1 DEF RunInv, Opened, Reports, TypeOK
<1>3. /\ fid \in allowed /\ Shown = 0
      /\ Cardinality(selected) = PickedLines[fid] /\ PickedLines[fid] \in Nat
      /\ Cardinality(IF Has("invert") THEN selected ELSE Counted) = PickedMatches[fid]
      /\ PickedMatches[fid] \in Nat
      /\ ~Hit => PickedLines[fid] = 0 /\ PickedMatches[fid] = 0
      /\ Has("countMatches") /\ (Has("stopOnNonmatch") => Has("maxCount")) /\ ~Hollow(fid)
           => CountOf = PickedMatches[fid]
  BY <1>1, ModeAdds
<1> DEFINE l == SumFunctionOnSet(PickedLines, Past)
           m == SumFunctionOnSet(PickedMatches, Past)
<1>4. l \in Nat /\ m \in Nat
  BY <1>2, PickedType, OneFileMore
<1>5. (LinesTold => tally.lines = l + Shown) /\ (MatchesTold => tally.matches = m)
  BY <1>1 DEF TallyInv
<1> HIDE DEF l, m
<1>6. (LinesTold => tally.lines \in Nat) /\ (MatchesTold => tally.matches \in Nat)
  BY <1>3, <1>4, <1>5
<1>7. /\ Lists => on \cap SummaryModes # {} /\ ~Has("countMatches")
      /\ Counts => on \cap SummaryModes # {}
      /\ Has("countMatches") => Counts
  BY DEF OptionsInv, Exclusive, SummaryModes, Lists, Counts, Has
<1>8. /\ LinesTold => tally'.lines = tally.lines + PickedLines[fid]
      /\ MatchesTold => tally'.matches = tally.matches + PickedMatches[fid]
  <2>1. CASE ListFile
    <3>1. Lists
      BY <2>1 DEF ListFile
    <3>2. ~LinesTold /\ ~MatchesTold
      BY <1>2, <1>7, <3>1 DEF LinesTold, MatchesTold
    <3> QED
      BY <3>2
  <2>2. CASE CountFile
    <3>1. Counts /\ tally' = [tally EXCEPT !.matches = @ + CountOf]
      BY <2>2 DEF CountFile
    <3>2. ~LinesTold
      BY <1>2, <1>7, <3>1 DEF LinesTold
    <3>3. MatchesTold => CountOf = PickedMatches[fid]
      BY <1>2, <1>3, <1>7, <3>1 DEF MatchesTold
    <3> QED
      BY <3>1, <3>2, <3>3
  <2>3. CASE PassOver
    <3>1. ~Hit /\ tally' = tally
      BY <2>3 DEF PassOver, Barren
    <3> QED
      BY <1>3, <1>6, <3>1
  <2>4. CASE JsonFile
    <3>1. /\ ~Counts
          /\ tally' = [lines |-> tally.lines + Cardinality(selected),
                       matches |-> tally.matches + Cardinality(IF Has("invert") THEN selected ELSE Counted)]
      BY <2>4 DEF JsonFile
    <3> QED
      BY <1>3, <3>1
  <2>5. CASE EachMatch
    <3>1. /\ ~Counts /\ ~Has("json") /\ (Has("onlyMatching") \/ Has("vimgrep"))
          /\ tally' = [tally EXCEPT !.matches = @ + IF Has("invert") THEN 0 ELSE Cardinality(Counted)]
      BY <2>5 DEF EachMatch
    <3>2. ~LinesTold
      BY <3>1 DEF LinesTold, Has
    <3>3. MatchesTold => ~Has("invert")
      BY <1>7, <3>1 DEF MatchesTold
    <3> QED
      BY <1>3, <3>1, <3>2, <3>3
  <2> QED
    BY <2>1, <2>2, <2>3, <2>4, <2>5
<1>9. LinesTold => tally'.lines \in Nat
  BY <1>3, <1>6, <1>8
<1>10. LinesTold => tally'.lines + Shown = tally.lines + IF fid \in allowed THEN PickedLines[fid] ELSE 0
  BY <1>3, <1>8, <1>9
<1>11. MatchesTold => tally'.matches = tally.matches + IF fid \in allowed THEN PickedMatches[fid] ELSE 0
  BY <1>3, <1>8
<1>12. Shown \in Nat
  BY <1>3
<1> QED
  BY <1>1, <1>9, <1>10, <1>11, <1>12, TallyNextFile

\* The numbers of a set below n + 1 are those below n, and n.
LEMMA OneNumberMore ==
  ASSUME NEW S, IsFiniteSet(S), S \subseteq Nat, NEW n \in Nat
  PROVE  /\ Cardinality({k \in S : k < n}) \in Nat
         /\ Cardinality({k \in S : k < n + 1}) = Cardinality({k \in S : k < n}) + IF n \in S THEN 1 ELSE 0
<1> DEFINE A == {k \in S : k < n}
           B == {k \in S : k < n + 1}
<1>1. A \subseteq S /\ B \subseteq S
  OBVIOUS
<1>2. ASSUME NEW k \in S PROVE k < n + 1 <=> k < n \/ k = n
  <2>1. k \in Nat
    OBVIOUS
  <2> QED
    BY <2>1
<1>3. \A k \in S : k \in B <=> k \in A \/ k = n
  BY <1>2
<1>4. n \notin A
  OBVIOUS
<1> HIDE DEF A, B
<1>5. IsFiniteSet(A) /\ Cardinality(A) \in Nat
  BY <1>1, FS_Subset, FS_CardinalityType
<1>6. CASE n \in S
  <2>1. B = A \cup {n}
    BY <1>1, <1>3, <1>6
  <2>2. Cardinality(A \cup {n}) = Cardinality(A) + 1
    BY <1>4, <1>5, FS_AddElement
  <2> QED
    BY <1>5, <1>6, <2>1, <2>2 DEF A, B
<1>7. CASE n \notin S
  <2>1. B = A
    BY <1>1, <1>3, <1>7
  <2> QED
    BY <1>5, <1>7, <2>1 DEF A, B
<1> QED
  BY <1>6, <1>7

\* While lines are written only the tally of lines is told, which counts
\* those selected up to the line whose turn it is.
LEMMA TallyLines ==
  ASSUME TypeOK, RunInv, OptionsInv, TallyInv, ~Has("quiet"), StartLines \/ PrintLine \/ PassLine
  PROVE  TallyInv'
<1>1. /\ Settled /\ UNCHANGED <<fid, selected>> /\ pc \in {"mode", "lines"} /\ pc' = "lines"
      /\ line \in Nat
  BY DEF StartLines, PrintLine, PassLine, Goes, parsing, chosen, Settled, Founded, TypeOK
<1>2. InWorld /\ fid \in allowed /\ selected = Chosen(fid)
  BY <1>1 DEF RunInv, Opened, Selects, TypeOK
<1>3. IsFiniteSet(selected) /\ selected \subseteq Nat
  BY <1>2, PickedType
<1>4. ~MatchesTold
  <2>1. ~Counts /\ ~Has("json") /\ ~Has("onlyMatching") /\ ~Has("vimgrep")
    BY DEF StartLines, PrintLine, PassLine, RunInv, Writes
  <2> QED
    BY <2>1 DEF MatchesTold, Counts
<1> DEFINE l == SumFunctionOnSet(PickedLines, Past)
           b(n) == Cardinality({k \in selected : k < n})
<1>5. LinesTold => tally.lines = l + Shown
  BY <1>1 DEF TallyInv, Running
<1>6. l \in Nat /\ l' = l
  <2>1. l \in Nat
    BY <1>2, PickedType, OneFileMore DEF TypeOK
  <2>2. Past' = Past
    BY <1>1, StayPicked DEF Past
  <2> QED
    BY <1>1, <2>1, <2>2, StayPicked
<1> HIDE DEF l
<1>7. Shown' = b(line')
  BY <1>1 DEF Shown
<1>8. \A n \in Nat : b(n) \in Nat /\ b(n + 1) = b(n) + IF n \in selected THEN 1 ELSE 0
  BY <1>3, OneNumberMore
<1>9. LinesTold => tally'.lines = l + Shown'
  <2>1. CASE StartLines
    <3>1. pc = "mode" /\ line' = 1 /\ tally' = tally
      BY <2>1 DEF StartLines, Goes
    <3>2. \A k \in selected : ~(k < 1)
      <4>1. Text(fid) \in Seq(STRING)
        BY <1>2, ReportedIs
      <4>2. LineCount(Text(fid)) \in Nat /\ DOMAIN Lines(Text(fid)) = 1..LineCount(Text(fid))
        BY <4>1, LineCountType
      <4> QED
        BY <1>2, <4>2, ChooseType DEF Chosen
    <3>3. {k \in selected : k < 1} = {}
      BY <3>2
    <3>4. Shown = 0 /\ Shown' = 0
      BY <1>7, <3>1, <3>3, FS_EmptySet DEF Shown
    <3> QED
      BY <1>5, <3>1, <3>4
  <2>2. CASE PrintLine \/ PassLine
    <3>1. pc = "lines" /\ line' = line + 1
      BY <2>2 DEF PrintLine, PassLine
    <3>2. Shown = b(line) /\ Shown' = b(line + 1)
      BY <1>7, <3>1 DEF Shown
    <3> HIDE DEF b
    <3>3. LinesTold => tally.lines \in Nat
      BY <1>1, <1>5, <1>6, <1>8, <3>2
    <3>4. ASSUME LinesTold PROVE tally'.lines = tally.lines + IF line \in selected THEN 1 ELSE 0
      <4>1. CASE PrintLine
        BY <4>1 DEF PrintLine
      <4>2. CASE PassLine
        <5>1. ~Has("replace")
          BY <1>1, <3>1, <3>4 DEF LinesTold, Has, RunInv, Writes
        <5>2. skip = 0 /\ line # 0 /\ selected \subseteq emit
          BY <3>1, <5>1 DEF RunInv, Writes
        <5>3. line \notin selected /\ tally' = tally
          BY <1>1, <4>2, <5>2 DEF PassLine
        <5> QED
          BY <3>3, <3>4, <5>3
      <4> QED
        BY <2>2, <4>1, <4>2
    <3> QED
      BY <1>1, <1>5, <1>6, <1>8, <3>2, <3>4
  <2> QED
    BY <2>1, <2>2
<1>10. LinesTold' => tally'.lines = l' + Shown'
  BY <1>1, <1>6, <1>9, StayPicked
<1>11. ~MatchesTold'
  BY <1>1, <1>4, StayPicked
<1> QED
  BY <1>10, <1>11 DEF TallyInv, l

LEMMA TallyEnd ==
  ASSUME TypeOK, RunInv, TallyInv, ~Has("quiet"), EndLines
  PROVE  TallyInv'
<1>1. /\ pc = "lines" /\ line \notin DOMAIN LinesNow /\ tally' = tally /\ NextFile /\ Running /\ line \in Nat
  BY DEF EndLines, Running, TypeOK
<1>2. /\ InWorld /\ fid \in allowed /\ selected = Chosen(fid) /\ fid \in Nat
      /\ ~Counts /\ ~Has("json") /\ ~Has("onlyMatching") /\ ~Has("vimgrep") /\ line # 0
  BY <1>1 DEF RunInv, Opened, Selects, Writes, TypeOK
<1>3. ~MatchesTold
  BY <1>2 DEF MatchesTold, Counts
<1>4. {k \in selected : k < line} = selected
  <2>1. Text(fid) \in Seq(STRING)
    BY <1>2, ReportedIs
  <2>2. LineCount(Text(fid)) \in Nat /\ DOMAIN LinesNow = 1..LineCount(Text(fid))
    BY <2>1, LineCountType DEF LinesNow
  <2>3. selected \subseteq DOMAIN LinesNow
    BY <1>2, ChooseType DEF Chosen, LinesNow
  <2> QED
    BY <1>1, <1>2, <2>2, <2>3
<1>5. Shown = PickedLines[fid] /\ PickedLines[fid] \in Nat
  BY <1>1, <1>2, <1>4, PickedType DEF Shown, PickedLines
<1>6. LinesTold => tally.lines \in Nat
  <2>1. SumFunctionOnSet(PickedLines, Past) \in Nat
    BY <1>2, PickedType, OneFileMore
  <2>2. LinesTold => tally.lines = SumFunctionOnSet(PickedLines, Past) + Shown
    BY <1>1 DEF TallyInv
  <2> QED
    BY <1>5, <2>1, <2>2
<1>7. LinesTold => tally'.lines + Shown = tally.lines + IF fid \in allowed THEN PickedLines[fid] ELSE 0
  BY <1>1, <1>2, <1>5, <1>6
<1>8. LinesTold => tally'.lines \in Nat
  BY <1>1, <1>6
<1>9. Shown \in Nat
  BY <1>5
<1> QED
  BY <1>1, <1>3, <1>7, <1>8, <1>9, TallyNextFile

LEMMA TallyKeeps == TypeOK /\ RunInv /\ OptionsInv /\ TallyInv /\ [Next]_vars => TallyInv'
<1> SUFFICES ASSUME TypeOK, RunInv, OptionsInv, TallyInv, [Next]_vars, Running', ~Has("quiet")'
             PROVE  TallyInv'
  BY DEF TallyInv
<1>1. CASE ReadConfig \/ ReadFlag \/ EndOfFlags \/ Open \/ Refuse \/ RefuseJson \/ ListAll \/ QuietFound \/ Finish
  <2>1. pc' \in {"parse", "open", "list", "search", "done"}
    BY <1>1 DEF ReadConfig, ReadFlag, Read, EndOfFlags, Open, Refuse, RefuseJson, ListAll, QuietFound, Finish, Return
  <2> QED
    BY <2>1 DEF Running
<1>2. CASE Search
  <2>1. /\ pc = "search" /\ pc' = "file" /\ fid' = 1 /\ Founded /\ tally' = tally
        /\ tally = [lines |-> 0, matches |-> 0]
    BY <1>2, MissesSurely DEF Search, RunInv, Opened
  <2>2. InWorld
    BY <2>1 DEF RunInv, Opened, TypeOK
  <2>3. \A f \in allowed : ~(f < 1)
    <3>1. \A f \in allowed : f \in Nat \ {0}
      BY <2>2, ReportedIs
    <3> QED
      BY <3>1
  <2>4. Past' = {}
    BY <2>1, <2>3 DEF Past, Founded
  <2>5. Shown' = 0
    BY <2>1 DEF Shown
  <2>6. SumFunctionOnSet(PickedLines, Past)' = 0 /\ SumFunctionOnSet(PickedMatches, Past)' = 0
    BY <2>1, <2>4, SumOfNone
  <2> QED
    BY <2>1, <2>5, <2>6 DEF TallyInv
<1>3. ASSUME Settled, UNCHANGED <<fid, tally>>, Running, Shown' = Shown PROVE TallyInv'
  <2>1. Past' = Past /\ (Has("quiet")' <=> Has("quiet"))
    BY <1>3, StayPicked, StaySettled DEF Past
  <2>2. SumFunctionOnSet(PickedLines, Past)' = SumFunctionOnSet(PickedLines, Past)
        /\ SumFunctionOnSet(PickedMatches, Past)' = SumFunctionOnSet(PickedMatches, Past)
    BY <1>3, <2>1, StayPicked
  <2> QED
    BY <1>3, <2>1, <2>2, StayPicked DEF TallyInv
<1>4. CASE Begin
  <2>1. Settled /\ UNCHANGED <<fid, tally>> /\ pc = "file" /\ pc' = "mode"
    BY <1>4 DEF Begin, parsing, Settled, Founded
  <2>2. Shown' = Shown /\ Running
    BY <2>1 DEF Shown, Running
  <2> QED
    BY <1>3, <2>1, <2>2
<1>5. CASE UNCHANGED vars
  <2>1. Settled /\ UNCHANGED <<fid, tally, pc, selected, line>>
    BY <1>5 DEF vars, parsing, chosen, writing, Settled, Founded
  <2>2. Shown' = Shown /\ Running
    BY <2>1 DEF Shown, Running
  <2> QED
    BY <1>3, <2>1, <2>2
<1>6. CASE PassFile
  <2>1. /\ Settled /\ pc = "file" /\ fid \notin allowed /\ tally' = tally /\ NextFile
    BY <1>6 DEF PassFile, NextFile, parsing, chosen, Settled, Founded
  <2>2. Running /\ Shown = 0 /\ ~Has("quiet") /\ InWorld /\ fid \in Nat
    BY <2>1, StaySettled DEF Running, Shown, RunInv, Opened, TypeOK
  <2>3. SumFunctionOnSet(PickedLines, Past) \in Nat /\ SumFunctionOnSet(PickedMatches, Past) \in Nat
    BY <2>2, PickedType, OneFileMore
  <2>4. (LinesTold => tally.lines \in Nat) /\ (MatchesTold => tally.matches \in Nat)
    BY <2>2, <2>3 DEF TallyInv
  <2>5. LinesTold => tally'.lines + Shown = tally.lines + IF fid \in allowed THEN PickedLines[fid] ELSE 0
    BY <2>1, <2>2, <2>4
  <2>6. MatchesTold => tally'.matches = tally.matches + IF fid \in allowed THEN PickedMatches[fid] ELSE 0
    BY <2>1, <2>4
  <2>7. Shown \in Nat /\ (LinesTold => tally'.lines \in Nat)
    BY <2>1, <2>2, <2>4
  <2> QED
    BY <2>1, <2>2, <2>5, <2>6, <2>7, TallyNextFile
<1>7. ASSUME Settled PROVE ~Has("quiet")
  BY <1>7, StaySettled
<1>8. CASE ListFile \/ CountFile \/ PassOver \/ JsonFile \/ EachMatch
  <2>1. Settled
    BY <1>8 DEF ListFile, CountFile, PassOver, JsonFile, EachMatch, NextFile, parsing, chosen, Settled, Founded
  <2> QED
    BY <1>7, <1>8, <2>1, TallyMode
<1>9. CASE StartLines \/ PrintLine \/ PassLine
  <2>1. Settled
    BY <1>9 DEF StartLines, PrintLine, PassLine, parsing, chosen, Settled, Founded
  <2> QED
    BY <1>7, <1>9, <2>1, TallyLines
<1>10. CASE EndLines
  <2>1. Settled
    BY <1>10 DEF EndLines, NextFile, parsing, chosen, Settled, Founded
  <2> QED
    BY <1>7, <1>10, <2>1, TallyEnd
<1> QED
  BY <1>1, <1>2, <1>4, <1>5, <1>6, <1>8, <1>9, <1>10 DEF Next

LEMMA TallySaid == TypeOK /\ RunInv /\ TallyInv => TallyAgrees
<1> SUFFICES ASSUME TypeOK, RunInv, TallyInv, pc = "file", fid \notin DOMAIN world.files, ~Has("quiet")
             PROVE  /\ LinesTold => tally.lines = Recount.lines
                    /\ MatchesTold => tally.matches = Recount.matches
  BY DEF TallyAgrees, LinesTold, MatchesTold
<1>1. /\ InWorld /\ fid \in Nat /\ fid # 0 /\ DOMAIN byfile = DOMAIN world.files
      /\ \A f \in DOMAIN byfile : byfile[f] = IF f \in allowed /\ Dealt(f) THEN Remains(f) ELSE Reported(f)
  BY DEF RunInv, Opened, Reports, Running, TypeOK
<1>2. ASSUME NEW f \in allowed PROVE f < fid /\ byfile[f] = Remains(f)
  <2>1. f \in 1..Len(world.files) /\ DOMAIN world.files = 1..Len(world.files) /\ Len(world.files) \in Nat
    BY <1>1, AllowedFinite
  <2>2. f < fid
    BY <1>1, <2>1
  <2> QED
    BY <1>1, <2>1, <2>2 DEF Dealt
<1>3. Past = allowed
  BY <1>2 DEF Past
<1>4. ASSUME NEW f \in allowed PROVE Picks(f) = Chosen(f) /\ Begun(f) = Starts(f)
  <2>1. byfile[f] = Remains(f)
    BY <1>2
  <2>2. Picks(f) = Chosen(f)
    BY <2>1 DEF Picks, Chosen
  <2> QED
    BY <2>1, <2>2 DEF Begun, Starts
<1>5. [f \in allowed |-> Cardinality(Picks(f))] = PickedLines
  BY <1>4 DEF PickedLines
<1>6. [f \in allowed |-> Cardinality(IF Has("invert") THEN Picks(f) ELSE Begun(f))] = PickedMatches
  BY <1>4 DEF PickedMatches
<1>7. Recount = [lines |-> SumFunctionOnSet(PickedLines, allowed), matches |-> SumFunctionOnSet(PickedMatches, allowed)]
  BY <1>5, <1>6 DEF Recount, Total
<1>8. Shown = 0 /\ SumFunctionOnSet(PickedLines, Past) \in Nat
  BY <1>1, PickedType, OneFileMore DEF Shown
<1>9. /\ LinesTold => tally.lines = SumFunctionOnSet(PickedLines, Past) + Shown
      /\ MatchesTold => tally.matches = SumFunctionOnSet(PickedMatches, Past)
  BY DEF TallyInv, Running
<1> QED
  BY <1>3, <1>7, <1>8, <1>9

\* What --stats counts again is what main has written (the counters in the
\* loop over the files, and the recount before the statistics).
THEOREM TallyIsRight == Spec => []TallyAgrees
<1>1. Init => TallyInv
  BY DEF Init, TallyInv, Running
<1> QED
  BY <1>1, OptionsAgree, InitType, NextType, RunStarts, RunKeeps, TallyKeeps, TallySaid, PTL DEF Spec

-----------------------------------------------------------------------------
(* Replaced lines keep the rest of their text.                             *)

\* Lines that follow one another, none of them empty.
Layout(lines) ==
  /\ lines \in Seq([b : Nat, e : Nat])
  /\ lines # <<>> => lines[1].b = 0
  /\ \A k \in DOMAIN lines : lines[k].b < lines[k].e
  /\ \A j, k \in DOMAIN lines : j < k => lines[j].e <= lines[k].b
  /\ \A k \in DOMAIN lines : k + 1 \in DOMAIN lines => lines[k].e = lines[k + 1].b

\* Of two numbers of a set the one of lower rank is the lesser.
LEMMA LesserRank ==
  ASSUME NEW S, IsFiniteSet(S), S \subseteq Nat
  PROVE  \A i, j \in S : Cardinality({x \in S : x < i}) < Cardinality({x \in S : x < j}) => i < j
<1> SUFFICES ASSUME NEW i \in S, NEW j \in S,
                    Cardinality({x \in S : x < i}) < Cardinality({x \in S : x < j})
             PROVE  i < j
  OBVIOUS
<1> DEFINE B(y) == {x \in S : x < y}
<1>1. i \in Nat /\ j \in Nat /\ \A x \in S : x \in Nat
  OBVIOUS
<1>2. SUFFICES ASSUME j <= i PROVE FALSE
  BY <1>1
<1>3. B(j) \subseteq B(i)
  <2>1. \A x \in S : x < j => x < i
    BY <1>1, <1>2
  <2> QED
    BY <2>1
<1>4. IsFiniteSet(B(i))
  <2>1. B(i) \in SUBSET S
    OBVIOUS
  <2> HIDE DEF B
  <2> QED
    BY <2>1, FS_Subset
<1>5. IsFiniteSet(B(j)) /\ Cardinality(B(j)) <= Cardinality(B(i))
  BY <1>3, <1>4, FS_Subset
<1>6. Cardinality(B(i)) \in Nat /\ Cardinality(B(j)) \in Nat
  BY <1>4, <1>5, FS_CardinalityType
<1> QED
  BY <1>5, <1>6

\* The lines of a text are laid out so.
LEMMA LinesLaidOut ==
  ASSUME NEW text \in Seq(STRING)
  PROVE  Layout(Lines(text))
<1> DEFINE S == Ends(text)
           n == Cardinality(S)
           rank(i) == Cardinality({j \in S : j < i})
           end(k) == IF k = 0 THEN 0 ELSE CHOOSE i \in S : rank(i) = k - 1
<1>1. Len(text) \in Nat /\ S \subseteq 1..Len(text) /\ IsFiniteSet(S) /\ n \in Nat
  BY EndsFinite
<1>2. S \subseteq Nat /\ \A i \in S : i > 0
  BY <1>1
<1>3. \A k \in 1..n : \E i \in S : rank(i) = k - 1
  <2> HIDE DEF S
  <2> QED
    BY <1>1, <1>2, NumberRanks
<1>4. Lines(text) = [k \in 1..n |-> [b |-> end(k - 1), e |-> end(k)]]
  BY DEF Lines
<1> HIDE DEF S, n
<1>5. \A k \in 1..n : end(k) \in S /\ rank(end(k)) = k - 1
  <2> TAKE k \in 1..n
  <2>1. \E i \in S : rank(i) = k - 1
    BY <1>3
  <2> DEFINE c == CHOOSE i \in S : rank(i) = k - 1
  <2>2. c \in S /\ rank(c) = k - 1
    <3> HIDE DEF rank
    <3> QED
      BY <2>1
  <2>3. end(k) = c
    <3>1. k # 0
      BY <1>1
    <3> HIDE DEF rank
    <3> QED
      BY <3>1
  <2> HIDE DEF c, end, rank
  <2> QED
    BY <2>2, <2>3
<1>6. end(0) = 0
  OBVIOUS
<1>6a. \A i, j \in S : rank(i) < rank(j) => i < j
  BY <1>1, <1>2, LesserRank
<1> HIDE DEF rank, end
<1>7. ASSUME NEW j \in 1..n, NEW k \in 1..n, j < k PROVE end(j) < end(k)
  <2>1. end(j) \in S /\ end(k) \in S /\ rank(end(j)) < rank(end(k))
    <3>1. j - 1 < k - 1
      BY <1>7, <1>1
    <3> QED
      BY <1>5, <3>1
  <2> QED
    BY <2>1, <1>6a
<1>8. \A k \in 0..n : end(k) \in Nat /\ (k > 0 => end(k) > 0)
  <2> TAKE k \in 0..n
  <2>1. CASE k = 0
    BY <1>6, <2>1
  <2>2. CASE k # 0
    <3>1. k \in 1..n
      BY <1>1, <2>2
    <3>2. end(k) \in S
      BY <1>5, <3>1
    <3> QED
      BY <1>2, <3>2
  <2> QED
    BY <2>1, <2>2
<1>9. \A j, k \in 0..n : j < k => end(j) < end(k)
  BY <1>1, <1>6, <1>7, <1>8
<1>10. \A j, k \in 0..n : j <= k => end(j) <= end(k)
  BY <1>1, <1>8, <1>9
<1> DEFINE L == Lines(text)
<1>11. /\ DOMAIN L = 1..n
       /\ \A k \in 1..n : L[k] = [b |-> end(k - 1), e |-> end(k)] /\ k - 1 \in 0..n /\ k \in 0..n
  BY <1>1, <1>4
<1>12. \A k \in 1..n : L[k].b = end(k - 1) /\ L[k].e = end(k)
  BY <1>11
<1>13. L \in Seq([b : Nat, e : Nat]) /\ (L # <<>> => n > 0)
  <2>1. \A k \in 1..n : [b |-> end(k - 1), e |-> end(k)] \in [b : Nat, e : Nat]
    BY <1>8, <1>11
  <2>2. [k \in 1..n |-> [b |-> end(k - 1), e |-> end(k)]] \in Seq([b : Nat, e : Nat])
    BY <1>1, <2>1
  <2>3. n = 0 => L = <<>>
    BY <1>4
  <2> QED
    BY <1>1, <1>4, <2>2, <2>3
<1>14. L # <<>> => L[1].b = 0
  BY <1>1, <1>6, <1>12, <1>13
<1>15. \A k \in DOMAIN L : L[k].b < L[k].e
  <2> TAKE k \in DOMAIN L
  <2>1. k - 1 \in 0..n /\ k \in 0..n /\ k - 1 < k
    BY <1>1, <1>11
  <2> QED
    BY <1>9, <1>11, <1>12, <2>1
<1>16. \A j, k \in DOMAIN L : j < k => L[j].e <= L[k].b
  <2> SUFFICES ASSUME NEW j \in DOMAIN L, NEW k \in DOMAIN L, j < k PROVE L[j].e <= L[k].b
    OBVIOUS
  <2>1. j \in 0..n /\ k - 1 \in 0..n /\ j <= k - 1
    BY <1>1, <1>11
  <2> QED
    BY <1>10, <1>11, <1>12, <2>1
<1>17. \A k \in DOMAIN L : k + 1 \in DOMAIN L => L[k].e = L[k + 1].b
  <2> SUFFICES ASSUME NEW k \in DOMAIN L, k + 1 \in DOMAIN L PROVE L[k].e = L[k + 1].b
    OBVIOUS
  <2>1. (k + 1) - 1 = k
    BY <1>1, <1>11
  <2> QED
    BY <1>11, <1>12, <2>1
<1> QED
  BY <1>13, <1>14, <1>15, <1>16, <1>17 DEF Layout

\* Where lines begin and end.
LEMMA LayoutType ==
  ASSUME NEW lines, Layout(lines)
  PROVE  /\ Len(lines) \in Nat /\ DOMAIN lines = 1..Len(lines)
         /\ lines # <<>> => Len(lines) > 0
         /\ \A k \in 1..Len(lines) : lines[k].b \in Nat /\ lines[k].e \in Nat
<1> DEFINE R == [b : Nat, e : Nat]
<1>1. lines \in Seq(R)
  BY DEF Layout
<1> HIDE DEF R
<1>2. Len(lines) \in Nat /\ DOMAIN lines = 1..Len(lines) /\ \A k \in 1..Len(lines) : lines[k] \in R
  BY <1>1
<1>3. lines # <<>> => Len(lines) > 0
  BY <1>1
<1> QED
  BY <1>2, <1>3 DEF R

\* The line of an offset is the last one that begins there or before.
LEMMA LineForSays ==
  ASSUME NEW lines, Layout(lines), lines # <<>>, NEW off \in Nat
  PROVE  LET j == LineFor(lines, off)
         IN /\ j \in DOMAIN lines /\ lines[j].b <= off
            /\ \A k \in DOMAIN lines : j < k => off < lines[k].b
            /\ off < lines[Len(lines)].e => off < lines[j].e
<1> DEFINE n == Len(lines)
           S == {k \in DOMAIN lines : lines[k].b <= off}
<1>1. /\ n \in Nat /\ n > 0 /\ DOMAIN lines = 1..n
      /\ \A k \in 1..n : lines[k].b \in Nat /\ lines[k].e \in Nat
  BY LayoutType
<1> HIDE DEF n
<1>2. S \subseteq 1..n /\ 1 \in S
  BY <1>1 DEF Layout
<1> DEFINE j == Max(S)
<1>3. j \in S /\ \A k \in S : k <= j
  <2> HIDE DEF S
  <2>1. S \in SUBSET (1..n) /\ S # {}
    BY <1>2
  <2> QED
    BY <1>1, <2>1, GreatestIs
<1> HIDE DEF j
<1>4. \A k \in 1..n : k < j => lines[k].b <= lines[j].b
  <2> TAKE k \in 1..n
  <2>1. j \in 1..n
    BY <1>1, <1>3
  <2>2. lines[k].b < lines[k].e /\ (k < j => lines[k].e <= lines[j].b)
    BY <1>1, <2>1 DEF Layout
  <2> QED
    BY <1>1, <2>1, <2>2
<1>5. S = 1..j
  <2>1. j \in 1..n /\ lines[j].b <= off
    BY <1>1, <1>3
  <2>2. \A k \in 1..j : k \in 1..n /\ lines[k].b <= off
    BY <1>1, <1>4, <2>1
  <2>3. 1..j \subseteq S
    BY <1>1, <2>2
  <2>4. S \subseteq 1..j
    BY <1>1, <1>2, <1>3
  <2> QED
    BY <2>3, <2>4
<1>6. LineFor(lines, off) = Cardinality(S)
  BY DEF LineFor
<1>7. j \in 1..n
  BY <1>1, <1>3
<1>8. Cardinality(1..j) = j
  BY <1>1, <1>7, FS_Interval
<1>9. LineFor(lines, off) = j
  BY <1>5, <1>6, <1>8
<1>10. \A k \in DOMAIN lines : j < k => off < lines[k].b
  <2> TAKE k \in DOMAIN lines
  <2>1. k \in S => k <= j
    BY <1>3
  <2> QED
    BY <1>1, <1>7, <2>1
<1>11. off < lines[n].e => off < lines[j].e
  <2>1. CASE j = n
    BY <2>1
  <2>2. CASE j # n
    <3>1. j + 1 \in 1..n /\ j < j + 1
      BY <1>1, <1>7, <2>2
    <3>2. lines[j].e = lines[j + 1].b
      BY <1>1, <1>7, <3>1 DEF Layout
    <3> QED
      BY <1>1, <1>10, <3>1, <3>2
  <2> QED
    BY <2>1, <2>2
<1> QED
  BY <1>1, <1>3, <1>7, <1>9, <1>10, <1>11 DEF n

\* Spans of a sequence, each before the next.
Sorted(ms) == ms \in Seq(Spans) /\ \A i, j \in DOMAIN ms : i < j => SpanBefore(ms[i], ms[j])

\* Spans put in order are sorted,
LEMMA InOrderSorted ==
  ASSUME NEW S \in SUBSET Spans, IsFiniteSet(S)
  PROVE  Sorted(InOrder(S))
<1> DEFINE B == [m \in S |-> {x \in S : SpanBefore(x, m)}]
           n == Cardinality(S)
           rank(m) == Cardinality({x \in S : SpanBefore(x, m)})
           t(k) == CHOOSE m \in S : rank(m) = k - 1
<1>1. Orders(B, S)
  BY SpansOrdered
<1>2. n \in Nat
  BY FS_CardinalityType
<1>3. \A m \in S : B[m] = {x \in S : SpanBefore(x, m)} /\ rank(m) = Cardinality(B[m])
  OBVIOUS
<1> HIDE DEF B
<1>4. ASSUME NEW k \in 1..n PROVE t(k) \in S /\ Cardinality(B[t(k)]) = k - 1
  <2>1. k - 1 \in 0..(Cardinality(S) - 1)
    BY <1>2
  <2>2. HasRank(B, S, k - 1)
    BY <1>1, <2>1, RankIsThere
  <2>3. \E m \in S : rank(m) = k - 1
    BY <1>3, <2>2 DEF HasRank
  <2>4. t(k) \in S /\ rank(t(k)) = k - 1
    <3> HIDE DEF rank
    <3> QED
      BY <2>3
  <2> HIDE DEF t, rank
  <2> QED
    BY <1>3, <2>4
<1>5. InOrder(S) = [k \in 1..n |-> t(k)]
  BY DEF InOrder
<1> HIDE DEF t, rank
<1>6. ASSUME NEW i \in 1..n, NEW j \in 1..n, i < j PROVE SpanBefore(t(i), t(j))
  <2>1. t(i) \in S /\ t(j) \in S /\ Cardinality(B[t(i)]) = i - 1 /\ Cardinality(B[t(j)]) = j - 1
    BY <1>4
  <2>2. t(i) # t(j)
    BY <1>2, <1>6, <2>1
  <2>3. t(j) \notin B[t(i)]
    <3>1. t(j) \in B[t(i)] => Cardinality(B[t(j)]) < Cardinality(B[t(i)])
      BY <1>1, <2>1, RankGrows
    <3> QED
      BY <1>2, <1>6, <2>1, <3>1
  <2>4. t(i) \in B[t(j)]
    BY <1>1, <2>1, <2>2, <2>3 DEF Orders
  <2> QED
    BY <1>3, <2>1, <2>4
<1> HIDE DEF n
<1>7. InOrder(S) \in Seq(Spans)
  BY InOrderIs
<1>8. DOMAIN InOrder(S) = 1..n /\ \A k \in 1..n : InOrder(S)[k] = t(k)
  BY <1>5
<1> QED
  BY <1>6, <1>7, <1>8 DEF Sorted

\* the first of them are,
LEMMA SubSorted ==
  ASSUME NEW ms, Sorted(ms), NEW f
  PROVE  Sorted(Cut(f, ms))
<1>0. ms \in Seq(Spans) /\ \A i, j \in DOMAIN ms : i < j => SpanBefore(ms[i], ms[j])
  BY DEF Sorted
<1>1. Len(ms) \in Nat /\ DOMAIN ms = 1..Len(ms)
  BY <1>0
<1>2. IsFiniteSet(1..Len(ms)) /\ Cardinality(1..Len(ms)) = Len(ms)
  <2> DEFINE N == Len(ms)
  <2>1. N \in Nat
    BY <1>1
  <2> HIDE DEF N
  <2>2. IsFiniteSet(1..N) /\ Cardinality(1..N) = N
    BY <2>1, FS_Interval
  <2> QED
    BY <2>2 DEF N
<1> DEFINE I == {i \in DOMAIN ms : ms[i].s < Nul(f)}
           n == Cardinality(I)
<1>3. n \in Nat /\ n <= Len(ms)
  BY <1>1, <1>2, FS_Subset, FS_CardinalityType
<1>4. Cut(f, ms) = SubSeq(ms, 1, n) \/ Cut(f, ms) = ms
  BY DEF Cut
<1> HIDE DEF n
<1> DEFINE s == SubSeq(ms, 1, n)
<1>5. s \in Seq(Spans) /\ DOMAIN s = 1..n /\ \A i \in 1..n : s[i] = ms[i] /\ i \in DOMAIN ms
  BY <1>0, <1>1, <1>3
<1>6. Sorted(s)
  <2> HIDE DEF s
  <2> QED
    BY <1>0, <1>5 DEF Sorted
<1> QED
  BY <1>4, <1>6

\* and so are the matches that remain in a file.
LEMMA RemainsSorted ==
  ASSUME InWorld, NEW f \in allowed
  PROVE  Sorted(Remains(f))
<1>1. f \in DOMAIN world.files
  BY DEF InWorld
<1>2. HitsAt(f) \in SUBSET Spans /\ IsFiniteSet(HitsAt(f))
  BY <1>1, FoundFinite
<1>3. Merged(f, missed) = InOrder(HitsAt(f))
  BY DEF Merged, HitsAt
<1>4. Sorted(Merged(f, missed))
  BY <1>2, <1>3, InOrderSorted
<1>5. Sorted(<<>>)
  BY DEF Sorted
<1>6. Sorted(Reported(f))
  BY <1>4, <1>5 DEF Reported
<1> QED
  BY <1>6, SubSorted DEF Remains

\* What replace_line keeps while it goes through the matches.
Replacing == [cursor : Nat, copied : Seq(Nat), marks : Seq(Spans), done : BOOLEAN]

\* Each after the ones before.
Rises(seq) == \A i, j \in DOMAIN seq : i < j => seq[i] < seq[j]

\* A run of bytes.
LEMMA BytesAre ==
  ASSUME NEW a \in Nat, NEW b \in Nat
  PROVE  /\ Bytes(a, b) \in Seq(Nat) /\ Rises(Bytes(a, b))
         /\ \A x : x \in Range(Bytes(a, b)) <=> x \in Nat /\ a <= x /\ x < b
<1> DEFINE n == b - a
           s == Bytes(a, b)
<1>1. s = [i \in 1..n |-> a + i - 1] /\ DOMAIN s = 1..n /\ \A i \in 1..n : s[i] = a + i - 1 /\ s[i] \in Nat
  BY DEF Bytes
<1>2. s \in Seq(Nat)
  <2>1. CASE a <= b
    <3>1. n \in Nat
      BY <2>1
    <3> HIDE DEF n, s
    <3>2. \A i \in 1..n : a + i - 1 \in Nat
      BY <1>1
    <3> QED
      BY <1>1, <3>1, <3>2
  <2>2. CASE ~(a <= b)
    <3>1. 1..n = 1..0
      BY <2>2
    <3>2. s = <<>>
      <4> HIDE DEF n, s
      <4>1. DOMAIN s = {}
        BY <1>1, <3>1
      <4> QED
        BY <1>1, <4>1
    <3> QED
      BY <3>2
  <2> QED
    BY <2>1, <2>2
<1>3. Rises(s)
  BY <1>1 DEF Rises
<1>4. ASSUME NEW x PROVE x \in Range(s) <=> x \in Nat /\ a <= x /\ x < b
  <2>1. x \in Range(s) => x \in Nat /\ a <= x /\ x < b
    BY <1>1 DEF Range
  <2>2. ASSUME x \in Nat, a <= x, x < b PROVE x \in Range(s)
    <3>1. x - a + 1 \in 1..n /\ s[x - a + 1] = x
      BY <1>1, <2>2
    <3> QED
      BY <1>1, <3>1 DEF Range
  <2> QED
    BY <2>1, <2>2
<1> QED
  BY <1>2, <1>3, <1>4

\* In the order of a relation.
Along(seq, R) == \A i, j \in DOMAIN seq : i < j => <<seq[i], seq[j]>> \in R

\* Two sequences in an order, and all of the one before all of the other.
LEMMA JoinAlong ==
  ASSUME NEW T, NEW R, NEW s \in Seq(T), NEW t \in Seq(T), Along(s, R), Along(t, R),
         \A x \in Range(s), y \in Range(t) : <<x, y>> \in R
  PROVE  /\ s \o t \in Seq(T) /\ Along(s \o t, R)
         /\ Range(s \o t) = Range(s) \cup Range(t)
<1> DEFINE m == Len(s)
           n == Len(t)
           u == s \o t
<1>1. /\ m \in Nat /\ n \in Nat /\ DOMAIN s = 1..m /\ DOMAIN t = 1..n
      /\ u \in Seq(T) /\ DOMAIN u = 1..(m + n)
      /\ \A i \in 1..m : u[i] = s[i] /\ s[i] \in T
      /\ \A i \in (m + 1)..(m + n) : u[i] = t[i - m] /\ i - m \in 1..n
      /\ \A i \in 1..n : t[i] \in T
  OBVIOUS
<1> HIDE DEF u, m, n
<1>2. Range(u) = Range(s) \cup Range(t)
  <2>1. ASSUME NEW x \in Range(u) PROVE x \in Range(s) \cup Range(t)
    <3>1. PICK i \in 1..(m + n) : x = u[i]
      BY <1>1 DEF Range
    <3>2. CASE i \in 1..m
      BY <1>1, <3>1, <3>2 DEF Range
    <3>3. CASE i \notin 1..m
      <4>1. i \in (m + 1)..(m + n)
        BY <1>1, <3>3
      <4>2. x = t[i - m] /\ i - m \in DOMAIN t
        BY <1>1, <3>1, <4>1
      <4> QED
        BY <4>2 DEF Range
    <3> QED
      BY <3>2, <3>3
  <2>2. ASSUME NEW x \in Range(s) PROVE x \in Range(u)
    <3>1. PICK i \in 1..m : x = s[i]
      BY <1>1 DEF Range
    <3>2. i \in DOMAIN u /\ u[i] = x
      BY <1>1, <3>1
    <3> QED
      BY <3>2 DEF Range
  <2>3. ASSUME NEW x \in Range(t) PROVE x \in Range(u)
    <3>1. PICK i \in 1..n : x = t[i]
      BY <1>1 DEF Range
    <3>2. i + m \in (m + 1)..(m + n) /\ (i + m) - m = i
      BY <1>1
    <3>3. i + m \in DOMAIN u /\ u[i + m] = x
      BY <1>1, <3>1, <3>2
    <3> QED
      BY <3>3 DEF Range
  <2> QED
    BY <2>1, <2>2, <2>3
<1>3. ASSUME NEW i \in DOMAIN u, NEW j \in DOMAIN u, i < j PROVE <<u[i], u[j]>> \in R
  <2>1. CASE j \in 1..m
    <3>1. i \in 1..m
      BY <1>1, <1>3, <2>1
    <3> QED
      BY <1>1, <1>3, <2>1, <3>1 DEF Along
  <2>2. CASE i \notin 1..m
    <3>1. i \in (m + 1)..(m + n) /\ j \in (m + 1)..(m + n)
      BY <1>1, <1>3, <2>2
    <3>2. i - m < j - m /\ i - m \in DOMAIN t /\ j - m \in DOMAIN t
      BY <1>1, <1>3, <3>1
    <3>3. <<t[i - m], t[j - m]>> \in R
      BY <3>2 DEF Along
    <3> QED
      BY <1>1, <3>1, <3>3
  <2>3. CASE i \in 1..m /\ j \notin 1..m
    <3>1. j \in (m + 1)..(m + n)
      BY <1>1, <2>3
    <3>2. u[i] \in Range(s) /\ u[j] \in Range(t)
      BY <1>1, <2>3, <3>1 DEF Range
    <3> QED
      BY <3>2
  <2> QED
    BY <2>1, <2>2, <2>3
<1> QED
  BY <1>1, <1>2, <1>3 DEF Along, u

\* Numbers that rise, joined with greater ones that rise.
LEMMA JoinRises ==
  ASSUME NEW s \in Seq(Nat), NEW t \in Seq(Nat), Rises(s), Rises(t),
         \A x \in Range(s), y \in Range(t) : x < y
  PROVE  /\ s \o t \in Seq(Nat) /\ Rises(s \o t)
         /\ Range(s \o t) = Range(s) \cup Range(t)
<1> DEFINE R == {p \in Nat \X Nat : p[1] < p[2]}
<1>1. ASSUME NEW q \in Seq(Nat) PROVE Rises(q) <=> Along(q, R)
  <2>1. \A i \in DOMAIN q : q[i] \in Nat
    OBVIOUS
  <2> QED
    BY <2>1 DEF Rises, Along
<1>2. \A x \in Range(s), y \in Range(t) : <<x, y>> \in R
  BY DEF Range
<1>3. s \o t \in Seq(Nat)
  OBVIOUS
<1> HIDE DEF R
<1>4. Along(s \o t, R) /\ Range(s \o t) = Range(s) \cup Range(t)
  BY <1>1, <1>2, JoinAlong
<1> QED
  BY <1>1, <1>3, <1>4

SpansRise(seq) == \A i, j \in DOMAIN seq : i < j => SpanBefore(seq[i], seq[j])

\* Spans in order, joined with later ones in order.
LEMMA JoinSpans ==
  ASSUME NEW s \in Seq(Spans), NEW t \in Seq(Spans), SpansRise(s), SpansRise(t),
         \A x \in Range(s), y \in Range(t) : SpanBefore(x, y)
  PROVE  /\ s \o t \in Seq(Spans) /\ SpansRise(s \o t)
         /\ Range(s \o t) = Range(s) \cup Range(t)
<1> DEFINE R == {p \in Spans \X Spans : SpanBefore(p[1], p[2])}
<1>1. ASSUME NEW q \in Seq(Spans) PROVE SpansRise(q) <=> Along(q, R)
  <2>1. \A i \in DOMAIN q : q[i] \in Spans
    OBVIOUS
  <2> QED
    BY <2>1 DEF SpansRise, Along
<1>2. \A x \in Range(s), y \in Range(t) : <<x, y>> \in R
  BY DEF Range
<1>3. s \o t \in Seq(Spans)
  OBVIOUS
<1> HIDE DEF R
<1>4. Along(s \o t, R) /\ Range(s \o t) = Range(s) \cup Range(t)
  BY <1>1, <1>2, JoinAlong
<1> QED
  BY <1>1, <1>3, <1>4

\* Where a span ends: the end of its last line.
LEMMA LastLineIs ==
  ASSUME NEW lines, Layout(lines), lines # <<>>, NEW m \in Spans
  PROVE  /\ FirstLine(lines, m) \in DOMAIN lines /\ LastLine(lines, m) \in DOMAIN lines
         /\ lines[FirstLine(lines, m)].b <= m.s
         /\ lines[LastLine(lines, m)].e \in Nat
         /\ \A k \in DOMAIN lines : lines[k].b <= m.s => k <= FirstLine(lines, m) /\ k <= LastLine(lines, m)
         /\ \A k \in DOMAIN lines : m.s < lines[k].e => FirstLine(lines, m) <= k
         /\ \A k \in DOMAIN lines : m.e <= lines[k].e /\ m.s < lines[k].e => LastLine(lines, m) <= k
         /\ \A k \in DOMAIN lines : LastLine(lines, m) < k => m.e <= lines[k].b
<1> DEFINE off == IF m.e > m.s THEN m.e - 1 ELSE m.s
           f == FirstLine(lines, m)
           l == LastLine(lines, m)
<1>1. m.s \in Nat /\ m.e \in Nat /\ m.s <= m.e
  BY DEF Spans
<1>2. off \in Nat /\ m.s <= off /\ m.e <= off + 1
  BY <1>1
<1>3. f = LineFor(lines, m.s) /\ l = LineFor(lines, off)
  BY DEF FirstLine, LastLine
<1>4. DOMAIN lines = 1..Len(lines) /\ Len(lines) \in Nat /\ \A k \in DOMAIN lines : lines[k].b \in Nat /\ lines[k].e \in Nat
  BY LayoutType
<1>5. f \in DOMAIN lines /\ lines[f].b <= m.s /\ \A k \in DOMAIN lines : f < k => m.s < lines[k].b
  BY <1>1, <1>3, LineForSays
<1>6. /\ l \in DOMAIN lines /\ lines[l].b <= off /\ \A k \in DOMAIN lines : l < k => off < lines[k].b
  <2> HIDE DEF off
  <2> QED
    BY <1>2, <1>3, LineForSays
<1> HIDE DEF f, l
<1>7. \A j, k \in DOMAIN lines : j < k => lines[j].e <= lines[k].b
  BY DEF Layout
<1>8. ASSUME NEW k \in DOMAIN lines, lines[k].b <= m.s PROVE k <= f /\ k <= l
  <2>1. lines[k].b <= off
    BY <1>1, <1>2, <1>4, <1>8
  <2>2. ~(f < k) /\ ~(l < k)
    BY <1>1, <1>2, <1>4, <1>5, <1>6, <1>8, <2>1
  <2> QED
    BY <1>4, <1>5, <1>6, <2>2
<1>9. ASSUME NEW k \in DOMAIN lines, m.s < lines[k].e PROVE f <= k
  <2>1. ~(k < f)
    BY <1>1, <1>4, <1>5, <1>7, <1>9
  <2> QED
    BY <1>4, <1>5, <2>1
<1>10. ASSUME NEW k \in DOMAIN lines, m.e <= lines[k].e, m.s < lines[k].e PROVE l <= k
  <2>1. off < lines[k].e
    BY <1>1, <1>4, <1>10
  <2>2. ~(k < l)
    <3> HIDE DEF off
    <3> QED
      BY <1>2, <1>4, <1>6, <1>7, <2>1
  <2> QED
    BY <1>4, <1>6, <2>2
<1>11. ASSUME NEW k \in DOMAIN lines, l < k PROVE m.e <= lines[k].b
  <2>1. off < lines[k].b
    BY <1>6, <1>11
  <2> HIDE DEF off
  <2> QED
    BY <1>1, <1>2, <1>4, <2>1
<1> QED
  BY <1>4, <1>5, <1>6, <1>8, <1>9, <1>10, <1>11 DEF f, l

\* One match leaves what replace_line keeps of its type.
LEMMA StepType ==
  ASSUME NEW lines, Layout(lines), NEW k \in DOMAIN lines, NEW st \in Replacing, NEW m \in Spans
  PROVE  ReplaceStep(lines, k, st, m) \in Replacing
<1> DEFINE cursor == IF m.e > lines[k].e THEN lines[LastLine(lines, m)].e ELSE m.e
           put == [cursor |-> cursor, marks |-> Append(st.marks, m), done |-> cursor >= lines[k].e,
                   copied |-> st.copied \o Bytes(st.cursor, m.s) \o Bytes(m.e, cursor)]
<1>1. m.s \in Nat /\ m.e \in Nat /\ lines # <<>>
  BY DEF Spans
<1>2. st.cursor \in Nat /\ st.copied \in Seq(Nat) /\ st.marks \in Seq(Spans) /\ st.done \in BOOLEAN
  BY DEF Replacing
<1>3. cursor \in Nat
  BY <1>1, LastLineIs
<1>4. put \in Replacing
  <2> HIDE DEF cursor
  <2>1. Bytes(st.cursor, m.s) \in Seq(Nat) /\ Bytes(m.e, cursor) \in Seq(Nat)
    BY <1>1, <1>2, <1>3, BytesAre
  <2>2. st.copied \o Bytes(st.cursor, m.s) \o Bytes(m.e, cursor) \in Seq(Nat)
    BY <1>2, <2>1
  <2>3. Append(st.marks, m) \in Seq(Spans)
    BY <1>2
  <2>4. (cursor >= lines[k].e) \in BOOLEAN
    OBVIOUS
  <2> QED
    BY <1>3, <2>2, <2>3, <2>4 DEF Replacing
<1>5. [st EXCEPT !.done = TRUE] \in Replacing
  BY DEF Replacing
<1>6. Greater(st.cursor, m.e) \in Nat
  BY <1>1, <1>2 DEF Greater
<1>7. [st EXCEPT !.cursor = Greater(@, m.e), !.done = Greater(st.cursor, m.e) >= lines[k].e] \in Replacing
  <2> DEFINE g == Greater(st.cursor, m.e)
  <2>1. [st EXCEPT !.cursor = g, !.done = g >= lines[k].e] \in Replacing
    <3>1. g \in Nat /\ (g >= lines[k].e) \in BOOLEAN
      BY <1>6
    <3> HIDE DEF g
    <3> QED
      BY <3>1 DEF Replacing
  <2> QED
    BY <2>1
<1> HIDE DEF put
<1>8. \/ ReplaceStep(lines, k, st, m) = st
      \/ ReplaceStep(lines, k, st, m) = [st EXCEPT !.done = TRUE]
      \/ ReplaceStep(lines, k, st, m) = [st EXCEPT !.cursor = Greater(@, m.e), !.done = Greater(st.cursor, m.e) >= lines[k].e]
      \/ ReplaceStep(lines, k, st, m) = put
  BY DEF ReplaceStep, put
<1> QED
  BY <1>4, <1>5, <1>7, <1>8

AtStart(lines, k) == [cursor |-> lines[k].b, copied |-> <<>>, marks |-> <<>>, done |-> FALSE]

\* The line is written to its end.
Closed(lines, k, last) ==
  [last EXCEPT !.copied = @ \o IF last.cursor < lines[k].e THEN Bytes(last.cursor, lines[k].e) ELSE <<>>]

\* replace_line goes through the matches one after the other.
LEMMA LineRuns ==
  ASSUME NEW lines, Layout(lines), NEW k \in DOMAIN lines, NEW ms \in Seq(Spans)
  PROVE  \E h \in [0..Len(ms) -> Replacing] :
           /\ h[0] = AtStart(lines, k)
           /\ \A i \in 1..Len(ms) : h[i] = ReplaceStep(lines, k, h[i - 1], ms[i])
           /\ ReplaceLine(lines, ms, k) = Closed(lines, k, h[Len(ms)])
<1> DEFINE n == Len(ms)
           A == Replacing
           first == AtStart(lines, k)
           step == [i \in 1..n |-> [s \in A |-> ReplaceStep(lines, k, s, ms[i])]]
<1>0. lines[k].b \in Nat
  BY LayoutType
<1>1. n \in Nat /\ DOMAIN ms = 1..n /\ first \in A
  <2>1. <<>> \in Seq(Nat) /\ <<>> \in Seq(Spans)
    OBVIOUS
  <2> QED
    BY <1>0, <2>1 DEF AtStart, Replacing
<1>2. step \in [1..n -> [A -> A]]
  <2>1. \A i \in 1..n : ms[i] \in Spans
    OBVIOUS
  <2>2. \A s \in Replacing, m \in Spans : ReplaceStep(lines, k, s, m) \in Replacing
    BY StepType
  <2> QED
    BY <2>1, <2>2
<1>3. PICK g \in [SUBSET (1..n) -> A] :
        /\ Folds(g, 1..n, first, Last1(n), step)
        /\ FoldedTo(g, n) \in [0..n -> A]
        /\ Runs(FoldedTo(g, n), n, first, step)
  <2> HIDE DEF n, A, step, first
  <2> QED
    BY <1>1, <1>2, FoldRuns
<1> DEFINE Eq(iter) ==
      iter = [s \in SUBSET (1..n) |->
                IF s = {} THEN first ELSE ReplaceStep(lines, k, iter[s \ {Max(s)}], ms[Max(s)])]
<1>4. Eq(g)
  <2>1. ASSUME NEW s \in SUBSET (1..n)
        PROVE  g[s] = IF s = {} THEN first
                      ELSE ReplaceStep(lines, k, g[s \ {Max(s)}], ms[Max(s)])
    <3>1. CASE s = {}
      <4> HIDE DEF first, n, A, step
      <4> QED
        BY <1>3, <3>1 DEF Folds
    <3>2. CASE s # {}
      <4>1. Max(s) \in s /\ s \ {Max(s)} \in SUBSET (1..n)
        BY <1>1, <3>2, LastOne
      <4>2. g[s] = step[Max(s)][g[s \ {Max(s)}]]
        <5> HIDE DEF n, step, A, first
        <5> QED
          BY <1>3, <3>2 DEF Folds, Last1
      <4>3. g[s \ {Max(s)}] \in A /\ Max(s) \in 1..n
        <5> HIDE DEF n, A, first, step
        <5> QED
          BY <1>3, <4>1
      <4> HIDE DEF n, A, first
      <4> QED
        BY <3>2, <4>2, <4>3
    <3> HIDE DEF n, A, first
    <3> QED
      BY <3>1, <3>2
  <2> HIDE DEF n, A, first, step
  <2> QED
    BY <1>3, <2>1
<1> DEFINE chosenRun == CHOOSE iter : Eq(iter)
<1>5. Eq(chosenRun)
  <2> HIDE DEF Eq
  <2> QED
    BY <1>4
<1>6. ReplaceLine(lines, ms, k) = Closed(lines, k, chosenRun[1..n])
  BY <1>1 DEF ReplaceLine, FoldLeft, MapThenFoldSet, AtStart, Closed
<1>7. \A i \in 1..n : chosenRun[1..i] = ReplaceStep(lines, k, chosenRun[1..(i - 1)], ms[i])
  <2> HIDE DEF chosenRun, n, first
  <2> QED
    BY <1>1, <1>5, LastOne
<1> DEFINE h == FoldedTo(g, n)
<1>8. h \in [0..n -> A] /\ h[0] = first /\ \A i \in 1..n : h[i] = step[i][h[i - 1]]
  <2> HIDE DEF first, step, n, A
  <2> QED
    BY <1>3 DEF Runs
<1>9. \A i \in 1..n : h[i] = ReplaceStep(lines, k, h[i - 1], ms[i])
  <2> SUFFICES ASSUME NEW i \in 1..n PROVE h[i] = ReplaceStep(lines, k, h[i - 1], ms[i])
    OBVIOUS
  <2>1. h[i] = step[i][h[i - 1]] /\ h[i - 1] \in A
    <3> HIDE DEF h, n, A, step, first
    <3> QED
      BY <1>1, <1>8
  <2> HIDE DEF h, n, A, first
  <2> QED
    BY <2>1
<1>10. \A i \in Nat : i <= n => chosenRun[1..i] = h[i]
  <2> DEFINE T == {i \in Nat : i <= n => chosenRun[1..i] = h[i]}
  <2>1. 0 \in T
    <3>1. 1..0 = {} /\ {} \in SUBSET (1..n)
      OBVIOUS
    <3>2. chosenRun[1..0] = first
      <4> HIDE DEF chosenRun, n, first
      <4> QED
        BY <1>5, <3>1
    <3> HIDE DEF chosenRun, h, n, first
    <3> QED
      BY <1>8, <3>2
  <2>2. ASSUME NEW i \in T PROVE i + 1 \in T
    <3> HIDE DEF chosenRun, h, n, first
    <3>1. i + 1 \in Nat /\ (i + 1) - 1 = i
      OBVIOUS
    <3>2. CASE i + 1 <= n
      <4>1. i + 1 \in 1..n /\ i <= n
        BY <1>1, <3>2
      <4>2. chosenRun[1..(i + 1)] = ReplaceStep(lines, k, chosenRun[1..i], ms[i + 1])
        BY <1>7, <3>1, <4>1
      <4>3. h[i + 1] = ReplaceStep(lines, k, h[i], ms[i + 1])
        BY <1>9, <3>1, <4>1
      <4>4. chosenRun[1..i] = h[i]
        BY <4>1
      <4> QED
        BY <3>1, <4>2, <4>3, <4>4
    <3> QED
      BY <3>1, <3>2
  <2>3. T \in SUBSET Nat
    OBVIOUS
  <2>4. T = Nat
    <3> HIDE DEF T
    <3> QED
      BY <2>1, <2>2, <2>3, FromZero
  <2> QED
    BY <2>4
<1>11. ReplaceLine(lines, ms, k) = Closed(lines, k, h[n])
  <2> HIDE DEF chosenRun, h
  <2> QED
    BY <1>1, <1>6, <1>10
<1> HIDE DEF h
<1> QED
  BY <1>8, <1>9, <1>11

\* Matches that begin in a line, where the last line of one ends, bytes that
\* matches cover, and matches that do not overlap.
Inside(lines, k, m) == lines[k].b <= m.s /\ m.s < lines[k].e
Over(lines, m) == lines[LastLine(lines, m)].e
Under(ms, x) == \E j \in DOMAIN ms : ms[j].s <= x /\ x < ms[j].e
Apart(ms) == \A i, j \in DOMAIN ms : i < j => ms[i].e <= ms[j].s

\* How far replace_line has come in line k after the first i matches.
Ahead(lines, ms, k, st, i) ==
  /\ lines[k].b <= st.cursor /\ (~st.done => st.cursor < lines[k].e)
  /\ \A j \in DOMAIN ms : j > i => IF st.done THEN ~Inside(lines, k, ms[j])
                                   ELSE lines[k].b <= ms[j].s => st.cursor <= ms[j].s

MarksSo(lines, ms, k, st, i) ==
  /\ SpansRise(st.marks)
  /\ Range(st.marks) = {ms[j] : j \in {j \in DOMAIN ms : j <= i /\ Inside(lines, k, ms[j])}}

CopiedSo(lines, ms, k, st, i) ==
  /\ Rises(st.copied)
  /\ \A x \in Range(st.copied) :
       /\ lines[k].b <= x /\ x < st.cursor
       /\ x < lines[k].e \/ \E j \in DOMAIN ms : Inside(lines, k, ms[j]) /\ ms[j].e > lines[k].e /\ x < Over(lines, ms[j])

KeptSo(lines, ms, k, st, i) ==
  \A x \in Nat : lines[k].b <= x /\ x < st.cursor => Under(ms, x) \/ x \in Range(st.copied)

ApartSo(lines, ms, k, st, i) ==
  \A j \in DOMAIN ms : j <= i /\ Inside(lines, k, ms[j]) =>
    /\ \A x \in Range(st.copied) : x < ms[j].s \/ ms[j].e <= x
    /\ ms[j].e <= lines[k].e => ms[j].e <= st.cursor
    /\ ms[j].e > lines[k].e => Over(lines, ms[j]) <= st.cursor /\ lines[k].e <= st.cursor

SoFar(lines, ms, k, st, i) ==
  /\ Ahead(lines, ms, k, st, i) /\ MarksSo(lines, ms, k, st, i) /\ CopiedSo(lines, ms, k, st, i)
  /\ KeptSo(lines, ms, k, st, i) /\ ApartSo(lines, ms, k, st, i)

\* A match that is passed over lies before the cursor or behind the line.
LEMMA PassedStep ==
  ASSUME NEW lines, Layout(lines), NEW k \in DOMAIN lines, NEW ms, Sorted(ms), Apart(ms), NEW st \in Replacing,
         NEW i \in Nat, i + 1 \in DOMAIN ms, SoFar(lines, ms, k, st, i),
         ~Inside(lines, k, ms[i + 1]), NEW to \in Replacing,
         to.copied = st.copied, to.marks = st.marks, st.cursor <= to.cursor,
         \A x \in Nat : st.cursor <= x /\ x < to.cursor => Under(ms, x),
         Ahead(lines, ms, k, to, i + 1)
  PROVE  SoFar(lines, ms, k, to, i + 1)
<1>1. st.cursor \in Nat /\ to.cursor \in Nat /\ Range(st.copied) \subseteq Nat
  BY DEF Replacing, Range
<1>2. /\ lines[k].b \in Nat /\ lines[k].e \in Nat
  BY LayoutType
<1>3. ms \in Seq(Spans) /\ \A j \in DOMAIN ms : j \in Nat /\ ms[j].s \in Nat /\ ms[j].e \in Nat
  <2>1. ms \in Seq(Spans)
    BY DEF Sorted
  <2>2. \A j \in DOMAIN ms : j \in Nat /\ ms[j] \in Spans
    BY <2>1
  <2> QED
    BY <2>1, <2>2 DEF Spans
<1>4. \A j \in DOMAIN ms : j <= i + 1 /\ Inside(lines, k, ms[j]) <=> j <= i /\ Inside(lines, k, ms[j])
  BY <1>3
<1>5. MarksSo(lines, ms, k, to, i + 1)
  <2>1. {j \in DOMAIN ms : j <= i /\ Inside(lines, k, ms[j])} = {j \in DOMAIN ms : j <= i + 1 /\ Inside(lines, k, ms[j])}
    BY <1>4
  <2> QED
    BY <2>1 DEF SoFar, MarksSo
<1>6. CopiedSo(lines, ms, k, to, i + 1)
  BY <1>1, <1>2 DEF SoFar, CopiedSo
<1>7. KeptSo(lines, ms, k, to, i + 1)
  BY <1>1, <1>2 DEF SoFar, KeptSo
<1>8. ApartSo(lines, ms, k, to, i + 1)
  <2> SUFFICES ASSUME NEW j \in DOMAIN ms, j <= i + 1, Inside(lines, k, ms[j])
               PROVE  /\ \A x \in Range(to.copied) : x < ms[j].s \/ ms[j].e <= x
                      /\ ms[j].e <= lines[k].e => ms[j].e <= to.cursor
                      /\ ms[j].e > lines[k].e => Over(lines, ms[j]) <= to.cursor /\ lines[k].e <= to.cursor
    BY DEF ApartSo
  <2>1. j <= i
    BY <1>4
  <2>2. /\ \A x \in Range(st.copied) : x < ms[j].s \/ ms[j].e <= x
        /\ ms[j].e <= lines[k].e => ms[j].e <= st.cursor
        /\ ms[j].e > lines[k].e => Over(lines, ms[j]) <= st.cursor /\ lines[k].e <= st.cursor
    BY <2>1 DEF SoFar, ApartSo
  <2>3. Over(lines, ms[j]) \in Nat
    <3>1. lines # <<>> /\ ms[j] \in Spans
      BY <1>3
    <3> QED
      BY <3>1, LastLineIs DEF Over
  <2> QED
    BY <1>1, <1>2, <1>3, <2>2, <2>3
<1> QED
  BY <1>5, <1>6, <1>7, <1>8 DEF SoFar

\* A match that is replaced: the bytes before it stay, and with a match that
\* ends behind the line the rest of the line it ends in.
LEMMA PutStep ==
  ASSUME NEW lines, Layout(lines), NEW k \in DOMAIN lines, NEW ms, Sorted(ms), Apart(ms), NEW st \in Replacing,
         NEW i \in Nat, i + 1 \in DOMAIN ms, SoFar(lines, ms, k, st, i), ~st.done,
         NEW m, m = ms[i + 1], m.s < lines[k].e, st.cursor <= m.s,
         NEW to \in Replacing,
         to.cursor = IF m.e > lines[k].e THEN Over(lines, m) ELSE m.e,
         to.done = (to.cursor >= lines[k].e), to.marks = Append(st.marks, m),
         to.copied = st.copied \o Bytes(st.cursor, m.s) \o Bytes(m.e, to.cursor)
  PROVE  SoFar(lines, ms, k, to, i + 1)
<1> DEFINE b == lines[k].b
           e == lines[k].e
           c == st.cursor
           d == to.cursor
<1>1. c \in Nat /\ d \in Nat /\ st.copied \in Seq(Nat) /\ st.marks \in Seq(Spans) /\ to.done \in BOOLEAN
  BY DEF Replacing
<1>2. b \in Nat /\ e \in Nat
  BY LayoutType
<1>3. ms \in Seq(Spans) /\ \A j \in DOMAIN ms : j \in Nat /\ ms[j] \in Spans /\ ms[j].s \in Nat /\ ms[j].e \in Nat /\ ms[j].s <= ms[j].e
  <2>1. ms \in Seq(Spans)
    BY DEF Sorted
  <2>2. \A j \in DOMAIN ms : j \in Nat /\ ms[j] \in Spans
    BY <2>1
  <2> QED
    BY <2>1, <2>2 DEF Spans
<1>4. m \in Spans /\ m.s \in Nat /\ m.e \in Nat /\ m.s <= m.e
  BY <1>3
<1>5. b <= c /\ c < e
  BY DEF SoFar, Ahead
<1>6. Inside(lines, k, m)
  BY <1>1, <1>2, <1>4, <1>5 DEF Inside
<1>7. lines # <<>> /\ \A j \in DOMAIN ms : Over(lines, ms[j]) \in Nat
  BY <1>3, LastLineIs DEF Over
<1>8. m.e > e => e <= Over(lines, m)
  <2>1. lines[k].b <= m.s
    BY <1>1, <1>2, <1>4, <1>5
  <2>2. LastLine(lines, m) \in DOMAIN lines /\ k <= LastLine(lines, m)
    BY <1>4, <1>7, <2>1, LastLineIs
  <2>3. k \in Nat /\ LastLine(lines, m) \in Nat
    BY <2>2, LayoutType
  <2>4. k < LastLine(lines, m) => lines[k].e <= lines[LastLine(lines, m)].b /\ lines[LastLine(lines, m)].b < lines[LastLine(lines, m)].e
    BY <2>2 DEF Layout
  <2>5. lines[LastLine(lines, m)].b \in Nat /\ lines[LastLine(lines, m)].e \in Nat
    BY <2>2, LayoutType
  <2> QED
    BY <1>2, <2>2, <2>3, <2>4, <2>5 DEF Over
<1>9. c <= d
  BY <1>1, <1>2, <1>4, <1>5, <1>7, <1>8
<1>10. /\ to.copied \in Seq(Nat) /\ Rises(to.copied)
       /\ \A x : x \in Range(to.copied) <=>
                   x \in Range(st.copied) \/ (x \in Nat /\ ((c <= x /\ x < m.s) \/ (m.e <= x /\ x < d)))
  <2>1. /\ Bytes(c, m.s) \in Seq(Nat) /\ Rises(Bytes(c, m.s))
        /\ \A x : x \in Range(Bytes(c, m.s)) <=> x \in Nat /\ c <= x /\ x < m.s
    BY <1>1, <1>4, BytesAre
  <2>2. /\ Bytes(m.e, d) \in Seq(Nat) /\ Rises(Bytes(m.e, d))
        /\ \A x : x \in Range(Bytes(m.e, d)) <=> x \in Nat /\ m.e <= x /\ x < d
    BY <1>1, <1>4, BytesAre
  <2>3. Rises(st.copied) /\ \A x \in Range(st.copied) : x \in Nat /\ x < c
    <3>1. \A x \in Range(st.copied) : x \in Nat
      BY <1>1 DEF Range
    <3> QED
      BY <3>1 DEF SoFar, CopiedSo
  <2> DEFINE u == st.copied \o Bytes(c, m.s)
  <2>4. u \in Seq(Nat) /\ Rises(u) /\ Range(u) = Range(st.copied) \cup Range(Bytes(c, m.s))
    <3>1. \A x \in Range(st.copied), y \in Range(Bytes(c, m.s)) : x < y
      BY <1>1, <2>1, <2>3
    <3> QED
      BY <1>1, <2>1, <2>3, <3>1, JoinRises
  <2> HIDE DEF u
  <2>5. u \o Bytes(m.e, d) \in Seq(Nat) /\ Rises(u \o Bytes(m.e, d)) /\ Range(u \o Bytes(m.e, d)) = Range(u) \cup Range(Bytes(m.e, d))
    <3>1. \A x \in Range(u), y \in Range(Bytes(m.e, d)) : x < y
      BY <1>1, <1>4, <2>1, <2>2, <2>3, <2>4
    <3> QED
      BY <2>2, <2>4, <3>1, JoinRises
  <2>6. to.copied = u \o Bytes(m.e, d)
    BY DEF u
  <2> QED
    BY <2>1, <2>2, <2>4, <2>5, <2>6
<1> DEFINE J == {j \in DOMAIN ms : j <= i /\ Inside(lines, k, ms[j])}
           J1 == {j \in DOMAIN ms : j <= i + 1 /\ Inside(lines, k, ms[j])}
<1>11. J1 = J \cup {i + 1}
  <2>1. \A j \in DOMAIN ms : j <= i + 1 <=> j <= i \/ j = i + 1
    BY <1>3
  <2> QED
    BY <1>6, <2>1
<1>12. MarksSo(lines, ms, k, to, i + 1)
  <2>1. SpansRise(st.marks) /\ Range(st.marks) = {ms[j] : j \in J}
    BY DEF SoFar, MarksSo
  <2>2. <<m>> \in Seq(Spans) /\ SpansRise(<<m>>) /\ Range(<<m>>) = {m}
    BY <1>4 DEF SpansRise, Range
  <2>3. \A x \in Range(st.marks), y \in Range(<<m>>) : SpanBefore(x, y)
    <3>1. ASSUME NEW j \in J PROVE SpanBefore(ms[j], m)
      <4>1. j < i + 1
        BY <1>3
      <4> QED
        BY <4>1 DEF Sorted
    <3> QED
      BY <2>1, <2>2, <3>1
  <2>4. Append(st.marks, m) = st.marks \o <<m>>
    BY <1>1, <1>4
  <2>5. SpansRise(to.marks) /\ Range(to.marks) = Range(st.marks) \cup {m}
    BY <1>1, <2>1, <2>2, <2>3, <2>4, JoinSpans
  <2>6. Range(st.marks) \cup {m} = {ms[j] : j \in J1}
    <3> HIDE DEF J, J1
    <3> QED
      BY <1>11, <2>1
  <2> QED
    BY <2>5, <2>6 DEF MarksSo
<1>13. CopiedSo(lines, ms, k, to, i + 1)
  <2> SUFFICES ASSUME NEW x \in Range(to.copied)
               PROVE  /\ b <= x /\ x < d
                      /\ x < e \/ \E j \in DOMAIN ms : Inside(lines, k, ms[j]) /\ ms[j].e > lines[k].e /\ x < Over(lines, ms[j])
    BY <1>10 DEF CopiedSo
  <2>1. CASE x \in Range(st.copied)
    <3>1. b <= x /\ x < c /\ x \in Nat
      BY <1>1, <2>1 DEF SoFar, CopiedSo, Range
    <3> QED
      BY <1>1, <1>2, <1>5, <1>9, <3>1
  <2>2. CASE x \in Nat /\ c <= x /\ x < m.s
    <3>1. m.s <= d
      BY <1>1, <1>2, <1>4, <1>7, <1>8
    <3> QED
      BY <1>1, <1>2, <1>4, <1>5, <2>2, <3>1
  <2>3. CASE x \in Nat /\ m.e <= x /\ x < d
    <3>1. m.e > e /\ x < Over(lines, m)
      BY <1>1, <1>2, <1>4, <2>3
    <3>2. b <= x /\ x < d
      BY <1>1, <1>2, <1>4, <1>5, <2>3
    <3> QED
      BY <1>6, <3>1, <3>2
  <2> QED
    BY <1>10, <2>1, <2>2, <2>3
<1>14. KeptSo(lines, ms, k, to, i + 1)
  <2> SUFFICES ASSUME NEW x \in Nat, b <= x, x < d PROVE Under(ms, x) \/ x \in Range(to.copied)
    BY DEF KeptSo
  <2>1. CASE x < c
    <3>1. Under(ms, x) \/ x \in Range(st.copied)
      BY <2>1 DEF SoFar, KeptSo
    <3> QED
      BY <1>10, <3>1
  <2>2. CASE c <= x /\ x < m.s
    BY <1>10, <2>2
  <2>3. CASE m.s <= x /\ x < m.e
    BY <2>3 DEF Under
  <2>4. CASE m.e <= x
    BY <1>10, <2>4
  <2> QED
    BY <1>1, <1>4, <2>1, <2>2, <2>3, <2>4
<1>15. ApartSo(lines, ms, k, to, i + 1)
  <2> SUFFICES ASSUME NEW j \in DOMAIN ms, j <= i + 1, Inside(lines, k, ms[j])
               PROVE  /\ \A x \in Range(to.copied) : x < ms[j].s \/ ms[j].e <= x
                      /\ ms[j].e <= lines[k].e => ms[j].e <= to.cursor
                      /\ ms[j].e > lines[k].e => Over(lines, ms[j]) <= to.cursor /\ lines[k].e <= to.cursor
    BY DEF ApartSo
  <2>1. CASE j = i + 1
    <3>1. \A x \in Range(to.copied) : x < m.s \/ m.e <= x
      <4>1. \A x \in Range(st.copied) : x \in Nat /\ x < c
        BY <1>1 DEF SoFar, CopiedSo, Range
      <4> QED
        BY <1>1, <1>4, <1>10, <4>1
    <3> QED
      BY <1>1, <1>2, <1>4, <1>7, <1>8, <2>1, <3>1
  <2>2. CASE j # i + 1
    <3>1. j <= i
      BY <1>3, <2>2
    <3>2. /\ \A x \in Range(st.copied) : x < ms[j].s \/ ms[j].e <= x
          /\ ms[j].e <= lines[k].e => ms[j].e <= c
          /\ ms[j].e > lines[k].e => Over(lines, ms[j]) <= c /\ lines[k].e <= c
      BY <3>1 DEF SoFar, ApartSo
    <3>3. ms[j].e <= c
      <4>1. ms[j].e \in Nat /\ ~(e <= c)
        BY <1>1, <1>2, <1>3, <1>5
      <4>2. ~(ms[j].e > e)
        BY <3>2, <4>1
      <4>3. ms[j].e <= e
        BY <1>2, <4>1, <4>2
      <4> QED
        BY <3>2, <4>3
    <3>4. \A x \in Range(to.copied) : x < ms[j].s \/ ms[j].e <= x
      <4> TAKE x \in Range(to.copied)
      <4>1. ms[j].e \in Nat
        BY <1>3
      <4>2. x \in Range(st.copied) \/ (x \in Nat /\ ((c <= x /\ x < m.s) \/ (m.e <= x /\ x < d)))
        BY <1>10
      <4>3. x \in Nat /\ c <= x => ms[j].e <= x
        BY <1>1, <3>3, <4>1
      <4>4. x \in Nat /\ m.e <= x => c <= x
        BY <1>1, <1>4
      <4> QED
        BY <3>2, <4>2, <4>3, <4>4
    <3>5. ms[j].e <= d
      BY <1>1, <1>3, <1>9, <3>3
    <3>6. ms[j].e > e => Over(lines, ms[j]) <= d /\ e <= d
      BY <1>1, <1>2, <1>7, <1>9, <3>2
    <3> QED
      BY <3>4, <3>5, <3>6
  <2> QED
    BY <2>1, <2>2
<1>16. Ahead(lines, ms, k, to, i + 1)
  <2>0. to.done <=> d >= e
    OBVIOUS
  <2>1. b <= d /\ (~to.done => d < e)
    BY <1>1, <1>2, <1>5, <1>9, <2>0
  <2>2. ASSUME NEW j \in DOMAIN ms, j > i + 1
        PROVE  IF to.done THEN ~Inside(lines, k, ms[j]) ELSE lines[k].b <= ms[j].s => to.cursor <= ms[j].s
    <3>1. m.e <= ms[j].s
      BY <1>3, <2>2 DEF Apart
    <3>2. CASE to.done
      <4>1. d >= e
        BY <2>0, <3>2
      <4>2. m.e >= e
        BY <1>1, <1>2, <1>4, <4>1
      <4> QED
        BY <1>2, <1>3, <1>4, <3>1, <3>2, <4>2 DEF Inside
    <3>3. CASE ~to.done
      <4>1. d < e
        BY <1>1, <1>2, <2>0, <3>3
      <4>2. d = m.e
        BY <1>1, <1>2, <1>4, <1>7, <1>8, <4>1
      <4> QED
        BY <3>1, <3>3, <4>2
    <3> QED
      BY <3>2, <3>3
  <2> QED
    BY <2>1, <2>2 DEF Ahead
<1> QED
  BY <1>12, <1>13, <1>14, <1>15, <1>16 DEF SoFar

\* Every match leaves replace_line where it should be.
LEMMA StepKeeps ==
  ASSUME NEW lines, Layout(lines), NEW k \in DOMAIN lines, NEW ms, Sorted(ms), Apart(ms), NEW st \in Replacing,
         NEW i \in Nat, i + 1 \in DOMAIN ms, SoFar(lines, ms, k, st, i)
  PROVE  SoFar(lines, ms, k, ReplaceStep(lines, k, st, ms[i + 1]), i + 1)
<1> DEFINE m == ms[i + 1]
           b == lines[k].b
           e == lines[k].e
           c == st.cursor
           to == ReplaceStep(lines, k, st, m)
<1> SUFFICES SoFar(lines, ms, k, to, i + 1)
  OBVIOUS
<1>1. c \in Nat /\ st.done \in BOOLEAN
  BY DEF Replacing
<1>2. b \in Nat /\ e \in Nat
  BY LayoutType
<1>3. ms \in Seq(Spans) /\ \A j \in DOMAIN ms : j \in Nat /\ ms[j] \in Spans /\ ms[j].s \in Nat /\ ms[j].e \in Nat /\ ms[j].s <= ms[j].e
  <2>1. ms \in Seq(Spans)
    BY DEF Sorted
  <2>2. \A j \in DOMAIN ms : j \in Nat /\ ms[j] \in Spans
    BY <2>1
  <2> QED
    BY <2>1, <2>2 DEF Spans
<1>4. m \in Spans /\ m.s \in Nat /\ m.e \in Nat /\ m.s <= m.e
  BY <1>3
<1>5. to \in Replacing
  BY <1>4, StepType
<1>6. \A j \in DOMAIN ms : j > i + 1 => j > i
  BY <1>3
<1>7. Ahead(lines, ms, k, st, i) /\ b <= c /\ (~st.done => c < e)
  BY DEF SoFar, Ahead
<1>8. CASE st.done \/ m.e < c
  <2>1. to = st
    BY <1>8 DEF ReplaceStep
  <2>2. ~Inside(lines, k, m)
    <3>1. CASE st.done
      <4>1. i + 1 > i
        OBVIOUS
      <4> QED
        BY <1>7, <3>1, <4>1 DEF Ahead
    <3>2. CASE ~st.done /\ m.e < c
      <4>1. i + 1 > i
        OBVIOUS
      <4>2. b <= m.s => c <= m.s
        BY <1>7, <3>2, <4>1 DEF Ahead
      <4>3. ~(c <= m.s)
        BY <1>1, <1>4, <3>2
      <4> QED
        BY <4>2, <4>3 DEF Inside
    <3> QED
      BY <1>8, <3>1, <3>2
  <2>3. Ahead(lines, ms, k, st, i + 1)
    BY <1>6, <1>7 DEF Ahead
  <2>4. c <= c /\ \A x \in Nat : c <= x /\ x < c => Under(ms, x)
    BY <1>1
  <2>5. SoFar(lines, ms, k, st, i + 1)
    BY <2>2, <2>3, <2>4, PassedStep
  <2> QED
    BY <2>1, <2>5
<1>9. CASE ~(st.done \/ m.e < c) /\ m.s >= e
  <2>1. to = [st EXCEPT !.done = TRUE]
    BY <1>9 DEF ReplaceStep
  <2>2. to.cursor = c /\ to.copied = st.copied /\ to.marks = st.marks /\ to.done = TRUE
    BY <2>1 DEF Replacing
  <2>3. ~Inside(lines, k, m)
    BY <1>2, <1>4, <1>9 DEF Inside
  <2>4. ASSUME NEW j \in DOMAIN ms, j > i + 1 PROVE ~Inside(lines, k, ms[j])
    <3>1. m.e <= ms[j].s
      BY <1>3, <2>4 DEF Apart
    <3> QED
      BY <1>2, <1>3, <1>4, <1>9, <3>1 DEF Inside
  <2>5. Ahead(lines, ms, k, to, i + 1)
    BY <1>7, <2>2, <2>4 DEF Ahead
  <2>6. c <= to.cursor /\ \A x \in Nat : c <= x /\ x < to.cursor => Under(ms, x)
    BY <1>1, <2>2
  <2> HIDE DEF to
  <2> QED
    BY <1>5, <2>2, <2>3, <2>5, <2>6, PassedStep
<1>10. CASE ~(st.done \/ m.e < c) /\ ~(m.s >= e) /\ m.s < c
  <2> DEFINE g == Greater(c, m.e)
  <2>1. to = [st EXCEPT !.cursor = g, !.done = g >= e]
    BY <1>10 DEF ReplaceStep
  <2>2. g = m.e /\ c <= m.e
    BY <1>1, <1>4, <1>10 DEF Greater
  <2>3. to.cursor = m.e /\ to.copied = st.copied /\ to.marks = st.marks /\ (to.done <=> m.e >= e)
    <3> HIDE DEF g
    <3>1. to.cursor = g /\ to.copied = st.copied /\ to.marks = st.marks /\ to.done = (g >= e)
      BY <2>1 DEF Replacing
    <3> QED
      BY <2>2, <3>1
  <2>4. m.s < b
    <3>1. i + 1 > i
      OBVIOUS
    <3>2. b <= m.s => c <= m.s
      BY <1>7, <1>10, <3>1 DEF Ahead
    <3> QED
      BY <1>1, <1>2, <1>4, <1>10, <3>2
  <2>5. ~Inside(lines, k, m)
    BY <1>2, <1>4, <2>4 DEF Inside
  <2>6. \A x \in Nat : c <= x /\ x < m.e => Under(ms, x)
    <3> SUFFICES ASSUME NEW x \in Nat, c <= x, x < m.e PROVE Under(ms, x)
      OBVIOUS
    <3>1. m.s <= x
      BY <1>1, <1>4, <1>10
    <3> QED
      BY <3>1 DEF Under
  <2>7. ASSUME NEW j \in DOMAIN ms, j > i + 1
        PROVE  IF to.done THEN ~Inside(lines, k, ms[j]) ELSE b <= ms[j].s => m.e <= ms[j].s
    <3>1. m.e <= ms[j].s
      BY <1>3, <2>7 DEF Apart
    <3>2. m.e >= e => ~Inside(lines, k, ms[j])
      BY <1>2, <1>3, <1>4, <3>1 DEF Inside
    <3> HIDE DEF to
    <3> QED
      BY <2>3, <3>1, <3>2
  <2>8. b <= m.e /\ (~(m.e >= e) => m.e < e)
    BY <1>1, <1>2, <1>4, <1>7, <2>2
  <2> HIDE DEF to
  <2>9. Ahead(lines, ms, k, to, i + 1)
    BY <2>3, <2>7, <2>8 DEF Ahead
  <2> QED
    BY <1>5, <2>2, <2>3, <2>5, <2>6, <2>9, PassedStep
<1>11. CASE ~(st.done \/ m.e < c) /\ ~(m.s >= e) /\ ~(m.s < c)
  <2> DEFINE d == IF m.e > e THEN Over(lines, m) ELSE m.e
  <2>1. to = [cursor |-> d, marks |-> Append(st.marks, m), done |-> d >= e,
              copied |-> st.copied \o Bytes(c, m.s) \o Bytes(m.e, d)]
    BY <1>11 DEF ReplaceStep, Over
  <2>2. /\ to.cursor = d /\ to.done = (d >= e) /\ to.marks = Append(st.marks, m)
        /\ to.copied = st.copied \o Bytes(c, m.s) \o Bytes(m.e, d)
    <3> DEFINE y == st.copied \o Bytes(c, m.s) \o Bytes(m.e, d)
               z == d >= e
               a == Append(st.marks, m)
    <3>1. to = [cursor |-> d, marks |-> a, done |-> z, copied |-> y]
      BY <2>1
    <3> HIDE DEF d, y, z, a, to
    <3>2. to.cursor = d /\ to.done = z /\ to.marks = a /\ to.copied = y
      BY <3>1
    <3> QED
      BY <3>2 DEF y, z, a
  <2>3. ~st.done /\ m.s < e /\ c <= m.s
    BY <1>1, <1>2, <1>4, <1>11
  <2> HIDE DEF to, m
  <2>4. m = ms[i + 1]
    BY DEF m
  <2>5. to.cursor = d /\ to.done = (to.cursor >= e) /\ to.copied = st.copied \o Bytes(c, m.s) \o Bytes(m.e, to.cursor)
    <3> HIDE DEF d
    <3> QED
      BY <2>2
  <2> QED
    BY <1>5, <2>2, <2>3, <2>4, <2>5, PutStep
<1> QED
  BY <1>8, <1>9, <1>10, <1>11

\* A match that runs on behind its line.
Onward(lines, k, m) == Inside(lines, k, m) /\ m.e > lines[k].e

\* The bytes that writing line k with its matches replaced reaches.
Reached(lines, ms, k, x) ==
  /\ lines[k].b <= x
  /\ x < lines[k].e \/ \E j \in DOMAIN ms : Onward(lines, k, ms[j]) /\ x < Over(lines, ms[j])

\* What replace_line makes of line k: the matches that begin in it, in order,
\* and every byte of its reach that no match covers.
LEMMA LineReplaced ==
  ASSUME NEW lines, Layout(lines), NEW k \in DOMAIN lines, NEW ms, Sorted(ms), Apart(ms)
  PROVE  LET new == ReplaceLine(lines, ms, k)
         IN /\ new.copied \in Seq(Nat) /\ Rises(new.copied)
            /\ new.marks \in Seq(Spans) /\ SpansRise(new.marks)
            /\ Range(new.marks) = {ms[j] : j \in {j \in DOMAIN ms : Inside(lines, k, ms[j])}}
            /\ \A x \in Range(new.copied) : Reached(lines, ms, k, x)
            /\ \A x \in Nat : Reached(lines, ms, k, x) => Under(ms, x) \/ x \in Range(new.copied)
            /\ \A j \in DOMAIN ms : Inside(lines, k, ms[j]) => \A x \in Range(new.copied) : x < ms[j].s \/ ms[j].e <= x
<1> DEFINE n == Len(ms)
           new == ReplaceLine(lines, ms, k)
           b == lines[k].b
           e == lines[k].e
<1>1. ms \in Seq(Spans) /\ n \in Nat /\ DOMAIN ms = 1..n
  BY DEF Sorted
<1>2. \A j \in DOMAIN ms : j \in Nat /\ ms[j] \in Spans /\ ms[j].s \in Nat /\ ms[j].e \in Nat /\ ms[j].s <= ms[j].e
  <2>1. \A j \in DOMAIN ms : j \in Nat /\ ms[j] \in Spans
    BY <1>1
  <2> QED
    BY <2>1 DEF Spans
<1>3. b \in Nat /\ e \in Nat /\ b < e
  BY LayoutType DEF Layout
<1>4. PICK h \in [0..n -> Replacing] :
        /\ h[0] = AtStart(lines, k)
        /\ \A i \in 1..n : h[i] = ReplaceStep(lines, k, h[i - 1], ms[i])
        /\ new = Closed(lines, k, h[n])
  <2> HIDE DEF new
  <2> QED
    BY <1>1, LineRuns DEF new
<1> DEFINE G == {i \in 0..n : SoFar(lines, ms, k, h[i], i)}
<1>5. 0 \in G
  <2>1. 0 \in 0..n /\ h[0] = [cursor |-> b, copied |-> <<>>, marks |-> <<>>, done |-> FALSE]
    BY <1>1, <1>4 DEF AtStart
  <2>2. h[0].cursor = b /\ h[0].copied = <<>> /\ h[0].marks = <<>> /\ h[0].done = FALSE
    BY <2>1
  <2>3. Range(<<>>) = {}
    BY DEF Range
  <2>4. \A j \in DOMAIN ms : ~(j <= 0)
    BY <1>1
  <2>5. Ahead(lines, ms, k, h[0], 0)
    BY <1>3, <2>2 DEF Ahead
  <2>6. MarksSo(lines, ms, k, h[0], 0)
    <3>1. {j \in DOMAIN ms : j <= 0 /\ Inside(lines, k, ms[j])} = {}
      BY <2>4
    <3>2. SpansRise(<<>>)
      BY DEF SpansRise
    <3> QED
      BY <2>2, <2>3, <3>1, <3>2 DEF MarksSo
  <2>7. CopiedSo(lines, ms, k, h[0], 0)
    BY <2>2, <2>3 DEF CopiedSo, Rises
  <2>8. KeptSo(lines, ms, k, h[0], 0)
    BY <1>3, <2>2 DEF KeptSo
  <2>9. ApartSo(lines, ms, k, h[0], 0)
    BY <2>4 DEF ApartSo
  <2> QED
    BY <2>1, <2>5, <2>6, <2>7, <2>8, <2>9 DEF SoFar
<1>6. \A i \in 1..n : i - 1 \in G => i \in G
  <2> SUFFICES ASSUME NEW i \in 1..n, i - 1 \in G PROVE i \in G
    OBVIOUS
  <2>1. i - 1 \in Nat /\ (i - 1) + 1 = i /\ i \in 0..n /\ i - 1 \in 0..n
    BY <1>1
  <2>2. h[i - 1] \in Replacing /\ SoFar(lines, ms, k, h[i - 1], i - 1)
    BY <1>4, <2>1
  <2>3. SoFar(lines, ms, k, ReplaceStep(lines, k, h[i - 1], ms[(i - 1) + 1]), (i - 1) + 1)
    BY <1>1, <2>1, <2>2, StepKeeps
  <2> QED
    BY <1>4, <2>1, <2>3
<1>7. n \in G
  <2> HIDE DEF G, n
  <2> QED
    BY <1>1, <1>5, <1>6, Upwards
<1> DEFINE st == h[n]
<1>8. st \in Replacing /\ SoFar(lines, ms, k, st, n)
  BY <1>4, <1>7
<1> HIDE DEF st, new
<1> DEFINE c == st.cursor
           tail == IF c < e THEN Bytes(c, e) ELSE <<>>
<1>9. c \in Nat /\ st.copied \in Seq(Nat) /\ st.marks \in Seq(Spans) /\ b <= c
  BY <1>8 DEF Replacing, SoFar, Ahead
<1>10. new.marks = st.marks /\ new.copied = st.copied \o tail
  <2>1. new = [st EXCEPT !.copied = st.copied \o tail]
    BY <1>4 DEF st, Closed
  <2> HIDE DEF tail
  <2> QED
    BY <1>8, <2>1 DEF Replacing
<1>11. /\ tail \in Seq(Nat) /\ Rises(tail)
       /\ \A x : x \in Range(tail) <=> x \in Nat /\ c <= x /\ x < e
  <2>1. CASE c < e
    BY <1>3, <1>9, <2>1, BytesAre
  <2>2. CASE ~(c < e)
    <3>1. tail = <<>>
      BY <2>2
    <3>2. <<>> \in Seq(Nat) /\ Rises(<<>>) /\ Range(<<>>) = {}
      BY DEF Rises, Range
    <3>3. \A x : ~(x \in Nat /\ c <= x /\ x < e)
      BY <1>3, <1>9, <2>2
    <3> HIDE DEF tail
    <3> QED
      BY <3>1, <3>2, <3>3
  <2> QED
    BY <2>1, <2>2
<1> HIDE DEF tail
<1>12. Rises(st.copied) /\ \A x \in Range(st.copied) : x \in Nat /\ b <= x /\ x < c
  BY <1>8, <1>9 DEF SoFar, CopiedSo, Range
<1>13. /\ new.copied \in Seq(Nat) /\ Rises(new.copied)
       /\ Range(new.copied) = Range(st.copied) \cup Range(tail)
  <2>1. \A x \in Range(st.copied), y \in Range(tail) : x < y
    BY <1>9, <1>11, <1>12
  <2> QED
    BY <1>9, <1>10, <1>11, <1>12, <2>1, JoinRises
<1>14. \A j \in DOMAIN ms : j <= n
  BY <1>1
<1>15. SpansRise(new.marks) /\ Range(new.marks) = {ms[j] : j \in {j \in DOMAIN ms : Inside(lines, k, ms[j])}}
  <2>1. {j \in DOMAIN ms : j <= n /\ Inside(lines, k, ms[j])} = {j \in DOMAIN ms : Inside(lines, k, ms[j])}
    BY <1>14
  <2> QED
    BY <1>8, <1>10, <2>1 DEF SoFar, MarksSo
<1>16. ASSUME NEW x \in Range(new.copied) PROVE Reached(lines, ms, k, x)
  <2>1. CASE x \in Range(st.copied)
    BY <1>8, <2>1 DEF SoFar, CopiedSo, Reached, Onward
  <2>2. CASE x \in Range(tail)
    BY <1>3, <1>9, <1>11, <2>2 DEF Reached
  <2> QED
    BY <1>13, <2>1, <2>2
<1>17. ASSUME NEW x \in Nat, Reached(lines, ms, k, x) PROVE Under(ms, x) \/ x \in Range(new.copied)
  <2>1. CASE x < c
    <3>1. Under(ms, x) \/ x \in Range(st.copied)
      BY <1>8, <1>17, <2>1 DEF SoFar, KeptSo, Reached
    <3> QED
      BY <1>13, <3>1
  <2>2. CASE ~(x < c) /\ x < e
    <3>1. c <= x
      BY <1>9, <2>2
    <3>2. x \in Range(tail)
      BY <1>11, <2>2, <3>1
    <3> QED
      BY <1>13, <3>2
  <2>3. CASE ~(x < c) /\ ~(x < e)
    <3>1. PICK j \in DOMAIN ms : Onward(lines, k, ms[j]) /\ x < Over(lines, ms[j])
      BY <1>17, <2>3 DEF Reached
    <3>2. Over(lines, ms[j]) <= c
      BY <1>8, <1>14, <3>1 DEF SoFar, ApartSo, Onward
    <3>3. Over(lines, ms[j]) \in Nat
      <4>1. lines # <<>> /\ ms[j] \in Spans
        BY <1>2
      <4> QED
        BY <4>1, LastLineIs DEF Over
    <3> QED
      BY <1>9, <2>3, <3>1, <3>2, <3>3
  <2> QED
    BY <2>1, <2>2, <2>3
<1>18. ASSUME NEW j \in DOMAIN ms, Inside(lines, k, ms[j]), NEW x \in Range(new.copied)
       PROVE  x < ms[j].s \/ ms[j].e <= x
  <2>1. /\ \A y \in Range(st.copied) : y < ms[j].s \/ ms[j].e <= y
        /\ ms[j].e <= e => ms[j].e <= c
        /\ ms[j].e > e => e <= c
    BY <1>8, <1>14, <1>18 DEF SoFar, ApartSo
  <2>2. CASE x \in Range(st.copied)
    BY <2>1, <2>2
  <2>3. CASE x \in Range(tail)
    <3>1. x \in Nat /\ c <= x /\ x < e /\ ms[j].e \in Nat
      BY <1>2, <1>11, <2>3
    <3>2. ms[j].e <= c
      BY <1>3, <1>9, <2>1, <3>1
    <3> QED
      BY <1>9, <3>1, <3>2
  <2> QED
    BY <1>13, <2>2, <2>3
<1> QED
  BY <1>9, <1>10, <1>13, <1>15, <1>16, <1>17, <1>18 DEF new

\* A byte of a line.
InLine(lines, k, x) == lines[k].b <= x /\ x < lines[k].e

\* The lines that the matches of a sequence are in.
Taken(lines, re) == {k \in DOMAIN lines : \E m \in Range(re) : FirstLine(lines, m) <= k /\ k <= LastLine(lines, m)}

\* What has been written before line ln, and what has been replaced.
TextSo(lines, ms, em, pr, co, re, ln, sk) ==
  /\ ln \in Nat \ {0} /\ sk \in 0..Len(lines) /\ pr \subseteq DOMAIN lines /\ \A k \in pr : k < ln
  /\ co \in Seq(Nat) /\ Rises(co) /\ re \in Seq(Spans) /\ SpansRise(re)
  /\ \A m \in Range(re) : /\ m \in Range(ms) /\ FirstLine(lines, m) \in pr
                          /\ LastLine(lines, m) < ln \/ LastLine(lines, m) <= sk
  /\ sk >= ln => \E m \in Range(re) : LastLine(lines, m) = sk
  /\ \A k \in em : k < ln => k \in pr \cup Taken(lines, re)
  /\ \A x \in Range(co) : \E k \in pr \cup Taken(lines, re) : InLine(lines, k, x)
  /\ \A k \in pr \cup Taken(lines, re), x \in Nat : InLine(lines, k, x) => Under(ms, x) \/ x \in Range(co)
  /\ \A m \in Range(re), x \in Range(co) : x < m.s \/ m.e <= x

\* What is written of line ln: bytes of its own and of the lines its matches
\* reach, and all of them that no match covers.
Adds(lines, ms, ln, co, re, sk) ==
  /\ co \in Seq(Nat) /\ Rises(co) /\ re \in Seq(Spans) /\ SpansRise(re)
  /\ sk \in 0..Len(lines) /\ (sk > ln => \E m \in Range(re) : LastLine(lines, m) = sk)
  /\ \A m \in Range(re) : /\ m \in Range(ms) /\ FirstLine(lines, m) = ln /\ lines[ln].b <= m.s
                          /\ LastLine(lines, m) <= ln \/ LastLine(lines, m) <= sk
  /\ \A x \in Range(co) : lines[ln].b <= x /\ \E k \in {ln} \cup Taken(lines, re) : InLine(lines, k, x)
  /\ \A k \in {ln} \cup Taken(lines, re), x \in Nat : InLine(lines, k, x) => Under(ms, x) \/ x \in Range(co)
  /\ \A m \in Range(re), x \in Range(co) : x < m.s \/ m.e <= x

\* Writing a line keeps what is known of those before it,
LEMMA AddLine ==
  ASSUME NEW lines, Layout(lines), NEW ms \in Seq(Spans), NEW em, NEW pr, NEW co, NEW re, NEW ln \in DOMAIN lines, NEW sk,
         TextSo(lines, ms, em, pr, co, re, ln, sk), ln > sk, em \subseteq DOMAIN lines,
         NEW co2, NEW re2, NEW a \in 0..Len(lines), Adds(lines, ms, ln, co2, re2, a),
         NEW sk2, sk2 = Greater(sk, a)
  PROVE  TextSo(lines, ms, em, pr \cup {ln}, co \o co2, re \o re2, ln + 1, sk2)
<1> DEFINE b == lines[ln].b
           S == pr \cup Taken(lines, re)
           N == {ln} \cup Taken(lines, re2)
<1>1. /\ Len(lines) \in Nat /\ DOMAIN lines = 1..Len(lines) /\ lines # <<>>
      /\ \A k \in DOMAIN lines : lines[k].b \in Nat /\ lines[k].e \in Nat
  BY LayoutType
<1>2. /\ ln \in Nat /\ sk \in 0..Len(lines) /\ sk \in Nat /\ sk2 \in 0..Len(lines) /\ sk2 \in Nat
      /\ b \in Nat /\ a <= sk2 /\ a \in Nat /\ (sk2 = sk \/ sk2 = a)
  <2>1. sk \in 0..Len(lines)
    BY DEF TextSo
  <2> QED
    BY <1>1, <2>1 DEF Greater
<1>3. /\ co \in Seq(Nat) /\ Rises(co) /\ re \in Seq(Spans) /\ SpansRise(re) /\ pr \subseteq DOMAIN lines
      /\ \A k \in pr : k < ln
      /\ \A m \in Range(re) : m \in Range(ms) /\ FirstLine(lines, m) \in pr /\ (LastLine(lines, m) < ln \/ LastLine(lines, m) <= sk)
      /\ \A k \in em : k < ln => k \in S
      /\ \A x \in Range(co) : \E k \in S : InLine(lines, k, x)
      /\ \A k \in S, x \in Nat : InLine(lines, k, x) => Under(ms, x) \/ x \in Range(co)
      /\ \A m \in Range(re), x \in Range(co) : x < m.s \/ m.e <= x
  BY DEF TextSo
<1>4. /\ co2 \in Seq(Nat) /\ Rises(co2) /\ re2 \in Seq(Spans) /\ SpansRise(re2)
      /\ a > ln => \E m \in Range(re2) : LastLine(lines, m) = a
      /\ \A m \in Range(re2) : /\ m \in Range(ms) /\ FirstLine(lines, m) = ln /\ b <= m.s
                               /\ LastLine(lines, m) <= ln \/ LastLine(lines, m) <= a
      /\ \A x \in Range(co2) : b <= x /\ \E k \in N : InLine(lines, k, x)
      /\ \A k \in N, x \in Nat : InLine(lines, k, x) => Under(ms, x) \/ x \in Range(co2)
      /\ \A m \in Range(re2), x \in Range(co2) : x < m.s \/ m.e <= x
  BY DEF Adds
<1>5. \A m \in Spans : /\ m.s \in Nat /\ m.e \in Nat /\ m.s <= m.e
                       /\ FirstLine(lines, m) \in DOMAIN lines /\ LastLine(lines, m) \in DOMAIN lines
                       /\ (b <= m.s => ln <= FirstLine(lines, m)) /\ (LastLine(lines, m) < ln => m.e <= b)
  <2> TAKE m \in Spans
  <2>1. m.s \in Nat /\ m.e \in Nat /\ m.s <= m.e
    BY DEF Spans
  <2> QED
    BY <1>1, <2>1, LastLineIs
<1>6. Range(re) \subseteq Spans /\ Range(re2) \subseteq Spans /\ Range(co) \subseteq Nat /\ Range(co2) \subseteq Nat
  BY <1>3, <1>4 DEF Range
<1>7. ASSUME NEW m \in Range(re) PROVE m.s < b /\ m.e <= b /\ FirstLine(lines, m) < ln /\ LastLine(lines, m) < ln
  <2>1. m \in Spans /\ FirstLine(lines, m) \in DOMAIN lines /\ LastLine(lines, m) \in DOMAIN lines
    BY <1>5, <1>6
  <2>2. FirstLine(lines, m) < ln
    BY <1>3
  <2>3. LastLine(lines, m) < ln
    BY <1>1, <1>2, <1>3, <2>1
  <2>4. m.e <= b /\ ~(b <= m.s) /\ m.s \in Nat
    BY <1>1, <1>2, <1>5, <2>1, <2>2, <2>3
  <2> QED
    BY <1>2, <2>2, <2>3, <2>4
<1>8. ASSUME NEW k \in S PROVE k \in DOMAIN lines /\ k < ln
  <2>1. CASE k \in pr
    BY <1>3, <2>1
  <2>2. CASE k \in Taken(lines, re)
    <3>1. k \in DOMAIN lines
      BY <2>2 DEF Taken
    <3>2. PICK m \in Range(re) : k <= LastLine(lines, m)
      BY <2>2 DEF Taken
    <3>3. LastLine(lines, m) < ln /\ LastLine(lines, m) \in DOMAIN lines
      BY <1>5, <1>6, <1>7
    <3> QED
      BY <1>1, <1>2, <3>1, <3>2, <3>3
  <2> QED
    BY <2>1, <2>2
<1>9. ASSUME NEW x \in Range(co) PROVE x \in Nat /\ x < b
  <2>1. PICK k \in S : InLine(lines, k, x)
    BY <1>3
  <2>2. k \in DOMAIN lines /\ k < ln
    BY <1>8
  <2>3. lines[k].e <= b
    BY <2>2 DEF Layout
  <2> QED
    BY <1>1, <1>2, <1>6, <2>1, <2>2, <2>3 DEF InLine
<1>10. /\ co \o co2 \in Seq(Nat) /\ Rises(co \o co2) /\ Range(co \o co2) = Range(co) \cup Range(co2)
  <2>1. \A x \in Range(co), y \in Range(co2) : x < y
    BY <1>2, <1>4, <1>6, <1>9
  <2> QED
    BY <1>3, <1>4, <2>1, JoinRises
<1>11. /\ re \o re2 \in Seq(Spans) /\ SpansRise(re \o re2) /\ Range(re \o re2) = Range(re) \cup Range(re2)
  <2>1. \A x \in Range(re), y \in Range(re2) : SpanBefore(x, y)
    <3> TAKE x \in Range(re), y \in Range(re2)
    <3>1. x \in Spans /\ y \in Spans /\ x.s < b /\ b <= y.s
      BY <1>4, <1>6, <1>7
    <3>2. x.s < y.s
      BY <1>2, <1>5, <3>1
    <3> QED
      BY <3>2 DEF SpanBefore
  <2> QED
    BY <1>3, <1>4, <2>1, JoinSpans
<1> DEFINE S2 == (pr \cup {ln}) \cup Taken(lines, re \o re2)
<1>12. S2 = S \cup N
  BY <1>11 DEF Taken
<1> HIDE DEF S, N, S2
<1>13. ln + 1 \in Nat \ {0} /\ pr \cup {ln} \subseteq DOMAIN lines /\ \A k \in pr \cup {ln} : k < ln + 1
  BY <1>1, <1>2, <1>3
<1>14. ASSUME NEW m \in Range(re \o re2)
       PROVE  /\ m \in Range(ms) /\ FirstLine(lines, m) \in pr \cup {ln}
              /\ LastLine(lines, m) < ln + 1 \/ LastLine(lines, m) <= sk2
  <2>1. m \in Spans /\ LastLine(lines, m) \in Nat
    BY <1>1, <1>5, <1>6, <1>11
  <2>2. CASE m \in Range(re)
    BY <1>2, <1>3, <1>7, <2>1, <2>2
  <2>3. CASE m \in Range(re2)
    BY <1>2, <1>4, <2>1, <2>3
  <2> QED
    BY <1>11, <2>2, <2>3
<1>15. sk2 >= ln + 1 => \E m \in Range(re \o re2) : LastLine(lines, m) = sk2
  <2> SUFFICES ASSUME sk2 >= ln + 1 PROVE \E m \in Range(re2) : LastLine(lines, m) = sk2
    BY <1>11
  <2>1. sk2 # sk
    BY <1>2
  <2>2. a = sk2 /\ a > ln
    BY <1>2, <2>1
  <2> QED
    BY <1>4, <2>2
<1>16. \A k \in em : k < ln + 1 => k \in S2
  <2> TAKE k \in em
  <2>1. k < ln + 1 => k < ln \/ k = ln
    BY <1>1, <1>2
  <2> QED
    BY <1>3, <1>12, <2>1 DEF N
<1>17. \A x \in Range(co \o co2) : \E k \in S2 : InLine(lines, k, x)
  BY <1>3, <1>4, <1>10, <1>12
<1>18. \A k \in S2, x \in Nat : InLine(lines, k, x) => Under(ms, x) \/ x \in Range(co \o co2)
  BY <1>3, <1>4, <1>10, <1>12
<1>19. \A m \in Range(re \o re2), x \in Range(co \o co2) : x < m.s \/ m.e <= x
  <2> TAKE m \in Range(re \o re2), x \in Range(co \o co2)
  <2>1. CASE m \in Range(re) /\ x \in Range(co)
    BY <1>3, <2>1
  <2>2. CASE m \in Range(re2) /\ x \in Range(co2)
    BY <1>4, <2>2
  <2>3. CASE m \in Range(re) /\ x \in Range(co2)
    <3>1. m.e <= b /\ b <= x /\ m \in Spans /\ x \in Nat
      BY <1>4, <1>6, <1>7, <2>3
    <3> QED
      BY <1>2, <1>5, <3>1
  <2>4. CASE m \in Range(re2) /\ x \in Range(co)
    <3>1. x < b /\ b <= m.s /\ m \in Spans /\ x \in Nat
      BY <1>4, <1>6, <1>9, <2>4
    <3> QED
      BY <1>2, <1>5, <3>1
  <2> QED
    BY <1>10, <1>11, <2>1, <2>2, <2>3, <2>4
<1>20. sk2 \in 0..Len(lines)
  BY <1>2
<1> QED
  BY <1>10, <1>11, <1>13, <1>14, <1>15, <1>16, <1>17, <1>18, <1>19, <1>20 DEF TextSo, S2

\* and so does passing a line that is covered or not due.
LEMMA LeaveLine ==
  ASSUME NEW lines, Layout(lines), NEW ms \in Seq(Spans), NEW em, NEW pr, NEW co, NEW re, NEW ln \in DOMAIN lines, NEW sk,
         TextSo(lines, ms, em, pr, co, re, ln, sk), ln <= sk \/ ln \notin em, em \subseteq DOMAIN lines
  PROVE  TextSo(lines, ms, em, pr, co, re, ln + 1, sk)
<1>1. Len(lines) \in Nat /\ DOMAIN lines = 1..Len(lines) /\ lines # <<>>
  BY LayoutType
<1>2. ln \in Nat /\ sk \in Nat /\ re \in Seq(Spans) /\ pr \subseteq DOMAIN lines /\ sk \in 0..Len(lines)
  BY <1>1 DEF TextSo
<1>3. \A m \in Range(re) : FirstLine(lines, m) \in DOMAIN lines /\ LastLine(lines, m) \in DOMAIN lines
  <2>1. \A m \in Range(re) : m \in Spans
    BY <1>2 DEF Range
  <2> QED
    BY <1>1, <2>1, LastLineIs
<1>4. \A k \in pr : k < ln + 1
  BY <1>1, <1>2 DEF TextSo
<1>5. \A m \in Range(re) : LastLine(lines, m) < ln + 1 \/ LastLine(lines, m) <= sk
  BY <1>1, <1>2, <1>3 DEF TextSo
<1>6. sk >= ln + 1 => \E m \in Range(re) : LastLine(lines, m) = sk
  <2>1. sk >= ln + 1 => sk >= ln
    BY <1>2
  <2> QED
    BY <2>1 DEF TextSo
<1>7. ASSUME NEW k \in em, k < ln + 1 PROVE k \in pr \cup Taken(lines, re)
  <2>1. CASE k < ln
    BY <2>1 DEF TextSo
  <2>2. CASE ~(k < ln)
    <3>1. k = ln
      BY <1>1, <1>2, <1>7, <2>2
    <3>2. sk >= ln
      BY <1>2, <3>1
    <3>3. PICK m \in Range(re) : LastLine(lines, m) = sk
      BY <3>2 DEF TextSo
    <3>4. FirstLine(lines, m) \in pr /\ FirstLine(lines, m) < ln
      BY DEF TextSo
    <3>5. FirstLine(lines, m) <= ln /\ ln <= LastLine(lines, m)
      BY <1>1, <1>2, <1>3, <3>2, <3>3, <3>4
    <3> QED
      BY <3>1, <3>5 DEF Taken
  <2> QED
    BY <2>1, <2>2
<1>8. ln + 1 \in Nat \ {0}
  BY <1>2
<1> QED
  BY <1>4, <1>5, <1>6, <1>7, <1>8 DEF TextSo

\* A line written as it is.
LEMMA WholeLine ==
  ASSUME NEW lines, Layout(lines), NEW ms, NEW ln \in DOMAIN lines
  PROVE  Adds(lines, ms, ln, Bytes(lines[ln].b, lines[ln].e), <<>>, 0)
<1> DEFINE co == Bytes(lines[ln].b, lines[ln].e)
<1>1. Len(lines) \in Nat /\ DOMAIN lines = 1..Len(lines) /\ lines[ln].b \in Nat /\ lines[ln].e \in Nat
  BY LayoutType
<1>2. /\ co \in Seq(Nat) /\ Rises(co)
      /\ \A x : x \in Range(co) <=> x \in Nat /\ lines[ln].b <= x /\ x < lines[ln].e
  BY <1>1, BytesAre
<1>3. <<>> \in Seq(Spans) /\ SpansRise(<<>>) /\ Range(<<>>) = {}
  BY DEF SpansRise, Range
<1>4. Taken(lines, <<>>) = {}
  BY <1>3 DEF Taken
<1>5. 0 \in 0..Len(lines) /\ ~(0 > ln)
  BY <1>1
<1>6. \A x \in Range(co) : lines[ln].b <= x /\ InLine(lines, ln, x)
  BY <1>2 DEF InLine
<1>7. \A x \in Nat : InLine(lines, ln, x) => x \in Range(co)
  BY <1>2 DEF InLine
<1> HIDE DEF co
<1> QED
  BY <1>2, <1>3, <1>4, <1>5, <1>6, <1>7 DEF Adds, co

\* A line written with its matches replaced, where rc is the last line that
\* one of them reaches, or 0.
LEMMA ChangedLine ==
  ASSUME NEW lines, Layout(lines), NEW ms, Sorted(ms), Apart(ms), NEW ln \in DOMAIN lines,
         NEW rc \in 0..Len(lines),
         \A j \in DOMAIN ms : Onward(lines, ln, ms[j]) => LastLine(lines, ms[j]) <= rc,
         rc # 0 => \E j \in DOMAIN ms : Onward(lines, ln, ms[j]) /\ LastLine(lines, ms[j]) = rc
  PROVE  LET new == ReplaceLine(lines, ms, ln)
         IN Adds(lines, ms, ln, new.copied, new.marks, rc)
<1> DEFINE b == lines[ln].b
           e == lines[ln].e
           co == ReplaceLine(lines, ms, ln).copied
           re == ReplaceLine(lines, ms, ln).marks
<1>1. /\ Len(lines) \in Nat /\ DOMAIN lines = 1..Len(lines) /\ lines # <<>>
      /\ \A k \in DOMAIN lines : lines[k].b \in Nat /\ lines[k].e \in Nat /\ lines[k].b < lines[k].e
  <2>1. \A k \in DOMAIN lines : lines[k].b < lines[k].e
    BY DEF Layout
  <2>2. /\ Len(lines) \in Nat /\ DOMAIN lines = 1..Len(lines)
        /\ \A k \in DOMAIN lines : lines[k].b \in Nat /\ lines[k].e \in Nat
    BY LayoutType
  <2>3. lines # <<>>
    OBVIOUS
  <2> QED
    BY <2>1, <2>2, <2>3
<1>2. /\ co \in Seq(Nat) /\ Rises(co) /\ re \in Seq(Spans) /\ SpansRise(re)
      /\ Range(re) = {ms[j] : j \in {j \in DOMAIN ms : Inside(lines, ln, ms[j])}}
      /\ \A x \in Range(co) : Reached(lines, ms, ln, x)
      /\ \A x \in Nat : Reached(lines, ms, ln, x) => Under(ms, x) \/ x \in Range(co)
      /\ \A j \in DOMAIN ms : Inside(lines, ln, ms[j]) => \A x \in Range(co) : x < ms[j].s \/ ms[j].e <= x
  BY LineReplaced
<1> HIDE DEF co, re
<1>3. ms \in Seq(Spans) /\ \A j \in DOMAIN ms : ms[j] \in Spans /\ ms[j].s \in Nat /\ ms[j].e \in Nat
  <2>1. ms \in Seq(Spans)
    BY DEF Sorted
  <2>2. \A j \in DOMAIN ms : ms[j] \in Spans
    BY <2>1
  <2> QED
    BY <2>1, <2>2 DEF Spans
<1>4. ASSUME NEW j \in DOMAIN ms, Inside(lines, ln, ms[j])
      PROVE  /\ FirstLine(lines, ms[j]) = ln /\ LastLine(lines, ms[j]) \in DOMAIN lines /\ ln <= LastLine(lines, ms[j])
             /\ LastLine(lines, ms[j]) <= ln \/ Onward(lines, ln, ms[j])
  <2> DEFINE m == ms[j]
  <2>1. m \in Spans /\ b <= m.s /\ m.s < e /\ m.s \in Nat /\ m.e \in Nat
    BY <1>3, <1>4 DEF Inside
  <2>2. FirstLine(lines, m) \in DOMAIN lines /\ LastLine(lines, m) \in DOMAIN lines
    BY <1>1, <2>1, LastLineIs
  <2>3. ln <= FirstLine(lines, m) /\ ln <= LastLine(lines, m) /\ FirstLine(lines, m) <= ln
    BY <1>1, <2>1, LastLineIs
  <2>4. m.e <= e => LastLine(lines, m) <= ln
    BY <1>1, <2>1, LastLineIs
  <2>5. FirstLine(lines, m) = ln
    BY <1>1, <2>2, <2>3
  <2>6. m.e <= e \/ m.e > e
    BY <1>1, <2>1
  <2> QED
    BY <1>4, <2>2, <2>3, <2>4, <2>5, <2>6 DEF Onward
<1>5. rc > ln => \E m \in Range(re) : LastLine(lines, m) = rc
  <2> SUFFICES ASSUME rc > ln PROVE \E m \in Range(re) : LastLine(lines, m) = rc
    OBVIOUS
  <2>1. rc # 0
    BY <1>1
  <2>2. PICK j \in DOMAIN ms : Onward(lines, ln, ms[j]) /\ LastLine(lines, ms[j]) = rc
    BY <2>1
  <2>3. ms[j] \in Range(re)
    BY <1>2, <2>2 DEF Onward
  <2> QED
    BY <2>2, <2>3
<1>6. ASSUME NEW m \in Range(re)
      PROVE  /\ m \in Range(ms) /\ FirstLine(lines, m) = ln /\ b <= m.s
             /\ LastLine(lines, m) <= ln \/ LastLine(lines, m) <= rc
             /\ \A x \in Range(co) : x < m.s \/ m.e <= x
  <2>1. PICK j \in DOMAIN ms : m = ms[j] /\ Inside(lines, ln, ms[j])
    BY <1>2
  <2>2. m \in Range(ms)
    BY <2>1 DEF Range
  <2> QED
    BY <1>2, <1>4, <2>1, <2>2 DEF Inside
<1>7. \A k \in Taken(lines, re) : ln <= k /\ (k = ln \/ \E j \in DOMAIN ms : Onward(lines, ln, ms[j]) /\ k <= LastLine(lines, ms[j]))
  <2> TAKE k \in Taken(lines, re)
  <2>1. PICK m \in Range(re) : FirstLine(lines, m) <= k /\ k <= LastLine(lines, m) /\ k \in DOMAIN lines
    BY DEF Taken
  <2>2. PICK j \in DOMAIN ms : m = ms[j] /\ Inside(lines, ln, ms[j])
    BY <1>2
  <2>3. LastLine(lines, m) \in DOMAIN lines /\ FirstLine(lines, m) = ln
    BY <1>4, <2>2
  <2>4. ln <= k /\ (LastLine(lines, m) <= ln => k = ln)
    BY <1>1, <2>1, <2>3
  <2> QED
    BY <1>4, <2>1, <2>2, <2>4
<1>8. ASSUME NEW x \in Range(co)
      PROVE  b <= x /\ \E k \in {ln} \cup Taken(lines, re) : InLine(lines, k, x)
  <2>1. Reached(lines, ms, ln, x) /\ x \in Nat
    BY <1>2 DEF Range
  <2>2. CASE x < e
    BY <2>1, <2>2 DEF Reached, InLine
  <2>3. CASE ~(x < e)
    <3>1. PICK j \in DOMAIN ms : Onward(lines, ln, ms[j]) /\ x < Over(lines, ms[j])
      BY <2>1, <2>3 DEF Reached
    <3> DEFINE l == LastLine(lines, ms[j])
               k == LineFor(lines, x)
               N == Len(lines)
    <3>2. l \in DOMAIN lines /\ x < lines[l].e /\ FirstLine(lines, ms[j]) = ln
      BY <1>4, <3>1 DEF Onward, Over
    <3>3. x < lines[N].e
      <4>1. l = N \/ l < N
        BY <1>1, <3>2
      <4>2. l < N => lines[l].e <= lines[N].b /\ lines[N].b < lines[N].e /\ N \in DOMAIN lines
        BY <1>1, <3>2 DEF Layout
      <4>3. N \in DOMAIN lines /\ lines[N].e \in Nat /\ lines[N].b \in Nat /\ lines[l].e \in Nat
        BY <1>1, <3>2
      <4> QED
        BY <2>1, <3>2, <4>1, <4>2, <4>3
    <3>4. /\ k \in DOMAIN lines /\ lines[k].b <= x /\ x < lines[k].e
          /\ \A i \in DOMAIN lines : k < i => x < lines[i].b
      BY <1>1, <2>1, <3>3, LineForSays
    <3> HIDE DEF k, l, N
    <3>5. k <= l
      <4>1. l < k => lines[l].e <= lines[k].b
        BY <3>2, <3>4 DEF Layout
      <4> QED
        BY <1>1, <2>1, <3>2, <3>4, <4>1
    <3>6. ln <= k
      <4>1. b <= x
        BY <2>1 DEF Reached
      <4>2. k < ln => x < b
        BY <3>4
      <4> QED
        BY <1>1, <2>1, <3>4, <4>1, <4>2
    <3>7. ms[j] \in Range(re)
      BY <1>2, <3>1 DEF Onward
    <3>8. k \in Taken(lines, re)
      BY <3>2, <3>4, <3>5, <3>6, <3>7 DEF Taken, l
    <3> QED
      BY <2>1, <3>4, <3>8 DEF Reached, InLine
  <2> QED
    BY <2>2, <2>3
<1>9. ASSUME NEW k \in {ln} \cup Taken(lines, re), NEW x \in Nat, InLine(lines, k, x)
      PROVE  Under(ms, x) \/ x \in Range(co)
  <2>1. CASE k = ln
    BY <1>2, <1>9, <2>1 DEF Reached, InLine
  <2>2. CASE k # ln
    <3>1. k \in Taken(lines, re) /\ k \in DOMAIN lines
      BY <2>2 DEF Taken
    <3>2. PICK j \in DOMAIN ms : Onward(lines, ln, ms[j]) /\ k <= LastLine(lines, ms[j])
      BY <1>7, <2>2, <3>1
    <3> DEFINE l == LastLine(lines, ms[j])
    <3>3. l \in DOMAIN lines
      BY <1>4, <3>2 DEF Onward
    <3> HIDE DEF l
    <3>4. ln <= k /\ k <= l
      BY <1>7, <3>1, <3>2 DEF l
    <3>5. lines[k].e <= lines[l].e
      <4>1. k < l => lines[k].e <= lines[l].b
        BY <3>1, <3>3 DEF Layout
      <4>2. k < l \/ k = l
        BY <1>1, <3>1, <3>3, <3>4
      <4> QED
        BY <1>1, <3>1, <3>3, <4>1, <4>2
    <3>6. b <= lines[k].b
      <4>1. ln < k => e <= lines[k].b
        BY <3>1 DEF Layout
      <4>2. ln < k
        BY <1>1, <2>2, <3>1, <3>4
      <4> QED
        BY <1>1, <3>1, <4>1, <4>2
    <3>7. lines[k].b <= x /\ x < lines[k].e
      BY <1>9 DEF InLine
    <3>8. b <= x /\ x < lines[l].e
      BY <1>1, <3>1, <3>3, <3>5, <3>6, <3>7
    <3>9. Reached(lines, ms, ln, x)
      BY <3>2, <3>8 DEF Reached, Over, l
    <3> QED
      BY <1>2, <3>9
  <2> QED
    BY <2>1, <2>2
<1> QED
  BY <1>2, <1>5, <1>6, <1>8, <1>9 DEF Adds, co, re

\* While lines with replacements are written.
TextInv ==
  pc = "lines" /\ Has("replace") /\ ~Has("invert") /\ Disjoint =>
    TextSo(LinesNow, Matches, emit, printed, copied, replaced, line, skip)

\* The lines and the matches of the current file.
LEMMA CurrentFile ==
  ASSUME TypeOK, Progress, RunInv, pc \in {"mode", "lines"}
  PROVE  /\ Layout(LinesNow) /\ Sorted(Matches)
         /\ DOMAIN LinesNow = 1..Len(LinesNow) /\ Len(LinesNow) \in Nat
         /\ selected \subseteq DOMAIN LinesNow /\ Due \subseteq DOMAIN LinesNow
<1>1. InWorld /\ fid \in allowed
  BY DEF RunInv, Opened, Selects, TypeOK
<1>2. Layout(LinesNow)
  BY <1>1, ReportedIs, LinesLaidOut DEF LinesNow
<1>3. Matches = Remains(fid)
  <2>1. fid \in DOMAIN world.files
    BY <1>1 DEF InWorld
  <2>2. Dealt(fid) /\ Running
    BY DEF Dealt, Running
  <2> QED
    BY <1>1, <2>1, <2>2 DEF RunInv, Reports, Matches
<1>4. Sorted(Matches)
  BY <1>1, <1>3, RemainsSorted
<1>5. selected \subseteq DOMAIN LinesNow
  BY DEF Progress
<1>6. Due \subseteq DOMAIN LinesNow
  BY DEF Due, Window
<1> QED
  BY <1>2, <1>4, <1>5, <1>6, LayoutType

\* The lines a replacement covers: where skip_until comes from.
LEMMA ReachIs ==
  ASSUME Layout(LinesNow), Sorted(Matches), line \in DOMAIN LinesNow
  PROVE  /\ Reach(line) \in 0..Len(LinesNow)
         /\ \A j \in DOMAIN Matches : Onward(LinesNow, line, Matches[j]) => LastLine(LinesNow, Matches[j]) <= Reach(line)
         /\ Reach(line) # 0 => \E j \in DOMAIN Matches : Onward(LinesNow, line, Matches[j]) /\ LastLine(LinesNow, Matches[j]) = Reach(line)
<1> DEFINE lines == LinesNow
           ms == Matches
           onward == {i \in DOMAIN ms : ms[i].s \in lines[line].b..lines[line].e - 1 /\ ms[i].e > lines[line].e}
           L == {LastLine(lines, ms[i]) : i \in onward}
           N == Len(lines)
<1>1. Reach(line) = IF onward = {} THEN 0 ELSE Max(L)
  BY DEF Reach
<1> HIDE DEF lines, ms
<1>2. /\ N \in Nat /\ DOMAIN lines = 1..N /\ lines # <<>> /\ line \in DOMAIN lines
      /\ lines[line].b \in Nat /\ lines[line].e \in Nat /\ Layout(lines)
  <2>1. Layout(lines) /\ line \in DOMAIN lines
    BY DEF lines
  <2> QED
    BY <2>1, LayoutType
<1>3. \A i \in DOMAIN ms : ms[i] \in Spans /\ ms[i].s \in Nat /\ ms[i].e \in Nat
  <2>1. ms \in Seq(Spans)
    BY DEF Sorted, ms
  <2>2. \A i \in DOMAIN ms : ms[i] \in Spans
    BY <2>1
  <2> QED
    BY <2>2 DEF Spans
<1>4. \A i \in DOMAIN ms : i \in onward <=> Onward(lines, line, ms[i])
  BY <1>2, <1>3 DEF Onward, Inside
<1>5. L \in SUBSET (1..N)
  BY <1>2, <1>3, LastLineIs
<1> HIDE DEF onward, N
<1>6. L # {} => Max(L) \in L /\ \A y \in L : y <= Max(L)
  <2> HIDE DEF L
  <2> QED
    BY <1>2, <1>5, GreatestIs
<1>7. L = {} <=> onward = {}
  OBVIOUS
<1>8. CASE onward = {}
  <2>1. Reach(line) = 0 /\ 0 \in 0..N
    BY <1>1, <1>2, <1>8
  <2> QED
    BY <1>4, <1>8, <2>1 DEF lines, ms, N
<1>9. CASE onward # {}
  <2>1. Reach(line) = Max(L) /\ Max(L) \in L /\ \A y \in L : y <= Max(L)
    BY <1>1, <1>6, <1>7, <1>9
  <2>2. Reach(line) \in 0..N
    BY <1>2, <1>5, <2>1
  <2>3. PICK j \in onward : Reach(line) = LastLine(lines, ms[j])
    BY <2>1
  <2>4. j \in DOMAIN ms /\ Onward(lines, line, ms[j])
    BY <1>4, <2>3 DEF onward
  <2>5. \A i \in DOMAIN ms : Onward(lines, line, ms[i]) => LastLine(lines, ms[i]) <= Reach(line)
    BY <1>4, <2>1
  <2> QED
    BY <2>2, <2>3, <2>4, <2>5 DEF lines, ms, N
<1> QED
  BY <1>8, <1>9

\* The line written next.
LEMMA TextPrints ==
  ASSUME TypeOK, Progress, RunInv, PrintLine, Has("replace"), ~Has("invert"), Disjoint, TextInv
  PROVE  TextSo(LinesNow, Matches, emit, printed', copied', replaced', line + 1, skip')
<1>1. /\ pc = "lines" /\ line \in DOMAIN LinesNow /\ line > skip
      /\ printed' = printed \cup {line}
      /\ LET kept == [copied |-> Bytes(LinesNow[line].b, LinesNow[line].e), marks |-> <<>>]
             new == IF Replaces(line) THEN ReplaceLine(LinesNow, Matches, line) ELSE kept
         IN copied' = copied \o new.copied /\ replaced' = replaced \o new.marks
      /\ skip' = IF Replaces(line) THEN Greater(skip, Reach(line)) ELSE skip
  BY DEF PrintLine
<1>2. /\ Layout(LinesNow) /\ Sorted(Matches) /\ Apart(Matches)
      /\ Len(LinesNow) \in Nat /\ emit \subseteq DOMAIN LinesNow
  BY <1>1, CurrentFile DEF Progress, Disjoint, Apart
<1>3. TextSo(LinesNow, Matches, emit, printed, copied, replaced, line, skip)
  BY <1>1 DEF TextInv
<1>4. Matches \in Seq(Spans)
  BY <1>2 DEF Sorted
<1>5. CASE Replaces(line)
  <2>1. /\ copied' = copied \o ReplaceLine(LinesNow, Matches, line).copied
        /\ replaced' = replaced \o ReplaceLine(LinesNow, Matches, line).marks
        /\ skip' = Greater(skip, Reach(line))
    BY <1>1, <1>5
  <2>2. /\ Reach(line) \in 0..Len(LinesNow)
        /\ Adds(LinesNow, Matches, line, ReplaceLine(LinesNow, Matches, line).copied, ReplaceLine(LinesNow, Matches, line).marks, Reach(line))
    BY <1>1, <1>2, ReachIs, ChangedLine
  <2> DEFINE co == ReplaceLine(LinesNow, Matches, line).copied
             re == ReplaceLine(LinesNow, Matches, line).marks
             a == Reach(line)
  <2> HIDE DEF co, re, a
  <2>3. Adds(LinesNow, Matches, line, co, re, a) /\ a \in 0..Len(LinesNow)
    BY <2>2 DEF co, re, a
  <2>4. TextSo(LinesNow, Matches, emit, printed \cup {line}, copied \o co, replaced \o re, line + 1, Greater(skip, a))
    BY <1>1, <1>2, <1>3, <1>4, <2>3, AddLine
  <2> QED
    BY <1>1, <2>1, <2>4 DEF co, re, a
<1>6. CASE ~Replaces(line)
  <2>1. /\ copied' = copied \o Bytes(LinesNow[line].b, LinesNow[line].e)
        /\ replaced' = replaced \o <<>> /\ skip' = skip
    BY <1>1, <1>6
  <2>2. 0 \in 0..Len(LinesNow) /\ skip' = Greater(skip, 0)
    <3>1. skip \in 0..Len(LinesNow)
      BY <1>3 DEF TextSo
    <3> QED
      BY <1>2, <2>1, <3>1 DEF Greater
  <2>3. Adds(LinesNow, Matches, line, Bytes(LinesNow[line].b, LinesNow[line].e), <<>>, 0)
    BY <1>1, <1>2, WholeLine
  <2> DEFINE co == Bytes(LinesNow[line].b, LinesNow[line].e)
  <2> HIDE DEF co
  <2>4. TextSo(LinesNow, Matches, emit, printed \cup {line}, copied \o co, replaced \o <<>>, line + 1, Greater(skip, 0))
    <3>1. Adds(LinesNow, Matches, line, co, <<>>, 0)
      BY <2>3 DEF co
    <3> QED
      BY <1>1, <1>2, <1>3, <1>4, <2>2, <3>1, AddLine
  <2> QED
    BY <1>1, <2>1, <2>2, <2>4 DEF co
<1> QED
  BY <1>5, <1>6

\* Nothing is written yet.
LEMMA TextStarts ==
  ASSUME NEW lines, Len(lines) \in Nat, NEW ms, NEW em, em \subseteq DOMAIN lines, DOMAIN lines = 1..Len(lines)
  PROVE  TextSo(lines, ms, em, {}, <<>>, <<>>, 1, 0)
<1>1. /\ <<>> \in Seq(Nat) /\ <<>> \in Seq(Spans) /\ Range(<<>>) = {} /\ Rises(<<>>) /\ SpansRise(<<>>)
  BY DEF Range, Rises, SpansRise
<1>2. Taken(lines, <<>>) = {}
  BY <1>1 DEF Taken
<1>3. \A k \in em : ~(k < 1)
  OBVIOUS
<1> QED
  BY <1>1, <1>2, <1>3 DEF TextSo

\* No step breaks the invariant,
LEMMA TextKeeps == TypeOK /\ Progress /\ RunInv /\ TextInv /\ [Next]_vars => TextInv'
<1> SUFFICES ASSUME TypeOK, Progress, RunInv, TextInv, [Next]_vars,
                    pc' = "lines", Has("replace")', ~Has("invert")', Disjoint'
             PROVE  TextSo(LinesNow, Matches, emit, printed, copied, replaced, line, skip)'
  BY DEF TextInv
<1>1. StartLines \/ PrintLine \/ PassLine \/ UNCHANGED vars
  <2>1. ReadConfig \/ ReadFlag \/ EndOfFlags \/ Open \/ Refuse \/ RefuseJson \/ ListAll \/ QuietFound \/ Finish => pc' # "lines"
    BY DEF ReadConfig, ReadFlag, Read, EndOfFlags, Open, Refuse, RefuseJson, ListAll, QuietFound, Finish, Return
  <2>2. Search \/ Begin \/ PassFile \/ ListFile \/ CountFile \/ PassOver \/ JsonFile \/ EachMatch \/ EndLines => pc' # "lines"
    BY DEF Search, Begin, PassFile, ListFile, CountFile, PassOver, JsonFile, EachMatch, EndLines, NextFile, Goes
  <2> QED
    BY <2>1, <2>2 DEF Next
<1>2. Still /\ byfile' = byfile /\ pc \in {"mode", "lines"}
  <2>1. CASE StartLines \/ PrintLine \/ PassLine
    BY <2>1 DEF StartLines, PrintLine, PassLine, Goes, Still, parsing, chosen
  <2>2. CASE UNCHANGED vars
    BY <2>2 DEF vars, Still, parsing, chosen, writing
  <2> QED
    BY <1>1, <2>1, <2>2
<1>3. LinesNow' = LinesNow /\ Matches' = Matches /\ Has("replace") /\ ~Has("invert") /\ Disjoint
  <2>1. LinesNow' = LinesNow /\ Has("replace") /\ ~Has("invert")
    BY <1>2, StillLines
  <2>2. Matches' = Matches
    BY <1>2 DEF Matches, Still
  <2> QED
    BY <2>1, <2>2 DEF Disjoint
<1> SUFFICES TextSo(LinesNow, Matches, emit', printed', copied', replaced', line', skip')
  BY <1>3
<1>4. /\ Layout(LinesNow) /\ Sorted(Matches) /\ Due \subseteq DOMAIN LinesNow
      /\ DOMAIN LinesNow = 1..Len(LinesNow) /\ Len(LinesNow) \in Nat
  BY <1>2, CurrentFile
<1>5. CASE StartLines
  <2>1. emit' = Due /\ printed' = {} /\ copied' = <<>> /\ replaced' = <<>> /\ line' = 1 /\ skip' = 0
    BY <1>5 DEF StartLines, Due
  <2> QED
    BY <1>4, <2>1, TextStarts
<1>6. CASE PrintLine
  <2>1. line' = line + 1 /\ emit' = emit
    BY <1>6 DEF PrintLine
  <2> QED
    BY <1>3, <1>6, <2>1, TextPrints
<1>7. CASE PassLine
  <2>1. /\ line' = line + 1 /\ UNCHANGED <<emit, skip, printed, copied, replaced>> /\ pc = "lines"
        /\ line \in DOMAIN LinesNow /\ (line <= skip \/ line \notin emit)
    BY <1>7 DEF PassLine
  <2>2. TextSo(LinesNow, Matches, emit, printed, copied, replaced, line, skip)
    BY <1>3, <2>1 DEF TextInv
  <2>3. emit \subseteq DOMAIN LinesNow /\ Matches \in Seq(Spans)
    BY <1>4, <2>1 DEF Progress, Sorted
  <2> QED
    BY <1>4, <2>1, <2>2, <2>3, LeaveLine
<1>8. CASE UNCHANGED vars
  <2>1. UNCHANGED <<pc, emit, skip, printed, copied, replaced, line>>
    BY <1>8 DEF vars, writing
  <2> QED
    BY <1>3, <2>1 DEF TextInv
<1> QED
  BY <1>1, <1>5, <1>6, <1>7, <1>8

\* which says at the end of the lines what is promised.
LEMMA TextSaid == TypeOK /\ Progress /\ RunInv /\ TextInv => NoTextLost
<1> SUFFICES ASSUME TypeOK, Progress, RunInv, TextInv, Written, Has("replace"), ~Has("invert"), Disjoint
             PROVE  LET covered == UNION {FirstLine(LinesNow, m)..LastLine(LinesNow, m) : m \in Range(replaced)}
                        shown == UNION {LinesNow[k].b..LinesNow[k].e - 1 : k \in printed \cup covered}
                        matched == UNION {Span(m) : m \in Range(Matches)}
                    IN /\ emit \subseteq printed \cup covered
                       /\ Ascends(copied, <) /\ Ascends(replaced, SpanBefore)
                       /\ Range(copied) \subseteq shown /\ shown \ matched \subseteq Range(copied)
                       /\ \A m \in Range(replaced) : Span(m) \cap Range(copied) = {}
  BY DEF NoTextLost
<1> DEFINE covered == UNION {FirstLine(LinesNow, m)..LastLine(LinesNow, m) : m \in Range(replaced)}
           shown == UNION {LinesNow[k].b..LinesNow[k].e - 1 : k \in printed \cup covered}
           matched == UNION {Span(m) : m \in Range(Matches)}
<1>1. pc = "lines" /\ line \notin DOMAIN LinesNow
  BY DEF Written
<1>2. /\ Layout(LinesNow) /\ Sorted(Matches) /\ emit \subseteq DOMAIN LinesNow
      /\ DOMAIN LinesNow = 1..Len(LinesNow) /\ Len(LinesNow) \in Nat
  BY <1>1, CurrentFile DEF Progress
<1>3. /\ line \in Nat \ {0} /\ copied \in Seq(Nat) /\ Rises(copied) /\ replaced \in Seq(Spans) /\ SpansRise(replaced)
      /\ printed \subseteq DOMAIN LinesNow
      /\ \A m \in Range(replaced) : m \in Range(Matches)
      /\ \A k \in emit : k < line => k \in printed \cup Taken(LinesNow, replaced)
      /\ \A x \in Range(copied) : \E k \in printed \cup Taken(LinesNow, replaced) : InLine(LinesNow, k, x)
      /\ \A k \in printed \cup Taken(LinesNow, replaced), x \in Nat : InLine(LinesNow, k, x) => Under(Matches, x) \/ x \in Range(copied)
      /\ \A m \in Range(replaced), x \in Range(copied) : x < m.s \/ m.e <= x
  BY <1>1 DEF TextInv, TextSo
<1>4. covered = Taken(LinesNow, replaced)
  <2> DEFINE lines == LinesNow
             R == Range(replaced)
             N == Len(lines)
  <2>1. \A m \in R : FirstLine(lines, m) \in 1..N /\ LastLine(lines, m) \in 1..N
    <3> SUFFICES ASSUME NEW m \in R PROVE FirstLine(lines, m) \in 1..N /\ LastLine(lines, m) \in 1..N
      OBVIOUS
    <3>1. m \in Spans
      BY <1>3 DEF Range
    <3>2. \E k \in printed : k \in DOMAIN LinesNow
      BY <1>1, <1>3 DEF TextInv, TextSo
    <3>3. lines # <<>>
      BY <3>2
    <3> QED
      BY <1>2, <3>1, <3>3, LastLineIs
  <2>2. covered = {k \in DOMAIN lines : \E m \in R : FirstLine(lines, m) <= k /\ k <= LastLine(lines, m)}
    <3>1. covered = UNION {FirstLine(lines, m)..LastLine(lines, m) : m \in R}
      OBVIOUS
    <3>2. DOMAIN lines = 1..N /\ N \in Nat
      BY <1>2
    <3> HIDE DEF lines, R, N, covered
    <3>3. \A m \in R : \A k : k \in FirstLine(lines, m)..LastLine(lines, m) <=> k \in 1..N /\ FirstLine(lines, m) <= k /\ k <= LastLine(lines, m)
      BY <2>1, <3>2
    <3> QED
      BY <3>1, <3>2, <3>3
  <2> QED
    BY <2>2 DEF Taken
<1> DEFINE S == printed \cup covered
<1>5. S \subseteq DOMAIN LinesNow
  BY <1>3, <1>4 DEF Taken
<1>6. emit \subseteq S
  <2>1. \A k \in emit : k < line
    <3> SUFFICES ASSUME NEW k \in emit PROVE k < line
      OBVIOUS
    <3>1. line \in 1..LineCount(Text(fid)) + 1 /\ LineCount(Text(fid)) \in Nat /\ DOMAIN LinesNow = 1..LineCount(Text(fid))
      BY <1>1, LinesNowType DEF Progress
    <3> QED
      BY <1>1, <1>2, <3>1
  <2> QED
    BY <1>3, <1>4, <2>1
<1>7. Ascends(copied, <) /\ Ascends(replaced, SpanBefore)
  BY <1>3 DEF Ascends, Rises, SpansRise
<1>8. \A k \in S : \A x : x \in LinesNow[k].b..LinesNow[k].e - 1 <=> x \in Nat /\ InLine(LinesNow, k, x)
  <2>1. \A k \in DOMAIN LinesNow : LinesNow[k].b \in Nat /\ LinesNow[k].e \in Nat
    BY <1>2, LayoutType
  <2>2. \A k \in S : LinesNow[k].b \in Nat /\ LinesNow[k].e \in Nat
    BY <1>5, <2>1
  <2> HIDE DEF S
  <2> QED
    BY <2>2 DEF InLine
<1>9. Range(copied) \subseteq Nat
  BY <1>3 DEF Range
<1>10. \A m \in Range(Matches) : \A x : x \in Span(m) <=> x \in Nat /\ m.s <= x /\ x < m.e
  <2> TAKE m \in Range(Matches)
  <2> TAKE x
  <2>1. m \in Spans
    BY <1>2 DEF Range, Sorted
  <2>2. m.s \in Nat /\ m.e \in Nat
    BY <2>1 DEF Spans
  <2> QED
    BY <2>2 DEF Span
<1>11. ASSUME NEW x \in Range(copied) PROVE x \in shown
  <2>1. PICK k \in S : InLine(LinesNow, k, x)
    BY <1>3, <1>4
  <2> HIDE DEF S, covered
  <2>2. x \in LinesNow[k].b..LinesNow[k].e - 1
    BY <1>8, <1>9, <2>1
  <2> QED
    BY <2>2 DEF S
<1>12. ASSUME NEW x \in shown, x \notin matched PROVE x \in Range(copied)
  <2>1. PICK k \in S : x \in LinesNow[k].b..LinesNow[k].e - 1
    OBVIOUS
  <2> HIDE DEF S, covered
  <2>2. x \in Nat /\ InLine(LinesNow, k, x)
    BY <1>8, <2>1
  <2>3. ~Under(Matches, x)
    <3> SUFFICES ASSUME Under(Matches, x) PROVE FALSE
      OBVIOUS
    <3>1. PICK j \in DOMAIN Matches : Matches[j].s <= x /\ x < Matches[j].e
      BY DEF Under
    <3>2. Matches[j] \in Range(Matches)
      BY DEF Range
    <3>3. x \in Span(Matches[j])
      BY <1>10, <2>2, <3>1, <3>2
    <3> QED
      BY <1>12, <3>2, <3>3
  <2> QED
    BY <1>3, <1>4, <2>2, <2>3 DEF S
<1>13. \A m \in Range(replaced) : Span(m) \cap Range(copied) = {}
  <2> TAKE m \in Range(replaced)
  <2>1. m \in Spans /\ m \in Range(Matches)
    BY <1>3 DEF Range
  <2>2. m.s \in Nat /\ m.e \in Nat
    BY <2>1 DEF Spans
  <2>3. ASSUME NEW x \in Span(m), x \in Range(copied) PROVE FALSE
    <3>1. x \in Nat /\ m.s <= x /\ x < m.e
      BY <1>10, <2>1
    <3>2. x < m.s \/ m.e <= x
      BY <1>3, <2>3
    <3> QED
      BY <2>2, <3>1, <3>2
  <2> QED
    BY <2>3
<1> QED
  BY <1>6, <1>7, <1>11, <1>12, <1>13

\* With a replacement no byte outside the matches is lost or written twice,
\* over however many lines the matches run (replace_line, skip_until in main).
THEOREM TextKept == Spec => []NoTextLost
<1>1. Init => Progress /\ TextInv
  BY DEF Init, Progress, TextInv
<1> QED
  BY <1>1, InitType, NextType, RunStarts, RunKeeps, ProgressKeeps, TextKeeps, TextSaid, PTL DEF Spec

-----------------------------------------------------------------------------
(* The rules of the ignore files.                                          *)

\* Does rule i of an ignore file say anything of a path?
Speaks(s, i, path) == Below(s.dir, path) /\ RuleMatches(s.rules[i], Local(s.dir, path))

\* What a rule makes of the verdict before it.
Answer(s, path, r, v) == IF Below(s.dir, path) /\ RuleMatches(r, Local(s.dir, path)) THEN ~r.neg ELSE v

\* allowed_path goes through the rules of one file one after the other.
LEMMA VerdictRuns ==
  ASSUME NEW s, s.rules \in Seq(RuleSet), NEW path, NEW v \in BOOLEAN
  PROVE  \E h \in [0..Len(s.rules) -> BOOLEAN] :
           /\ h[0] = v
           /\ \A i \in 1..Len(s.rules) : h[i] = Answer(s, path, s.rules[i], h[i - 1])
           /\ Verdict(s, path, v) = h[Len(s.rules)]
<1> DEFINE R == s.rules
           n == Len(R)
           A == BOOLEAN
           step == [i \in 1..n |-> [x \in A |-> Answer(s, path, R[i], x)]]
<1>1. n \in Nat /\ DOMAIN R = 1..n /\ v \in A
  OBVIOUS
<1>2. step \in [1..n -> [A -> A]]
  <2>1. \A i \in 1..n : R[i].neg \in BOOLEAN
    <3>1. \A i \in 1..n : R[i] \in RuleSet
      OBVIOUS
    <3> QED
      BY <3>1 DEF RuleSet
  <2>2. \A i \in 1..n, x \in BOOLEAN : Answer(s, path, R[i], x) \in BOOLEAN
    BY <2>1 DEF Answer
  <2> QED
    BY <2>2
<1>3. PICK g \in [SUBSET (1..n) -> A] :
        /\ Folds(g, 1..n, v, Last1(n), step)
        /\ FoldedTo(g, n) \in [0..n -> A]
        /\ Runs(FoldedTo(g, n), n, v, step)
  <2> HIDE DEF n, A, step
  <2> QED
    BY <1>1, <1>2, FoldRuns
<1> DEFINE Eq(iter) ==
      iter = [t \in SUBSET (1..n) |->
                IF t = {} THEN v ELSE Answer(s, path, R[Max(t)], iter[t \ {Max(t)}])]
<1>4. Eq(g)
  <2>1. ASSUME NEW t \in SUBSET (1..n)
        PROVE  g[t] = IF t = {} THEN v ELSE Answer(s, path, R[Max(t)], g[t \ {Max(t)}])
    <3>1. CASE t = {}
      <4> HIDE DEF n, A, step
      <4> QED
        BY <1>3, <3>1 DEF Folds
    <3>2. CASE t # {}
      <4>1. Max(t) \in t /\ t \ {Max(t)} \in SUBSET (1..n)
        BY <1>1, <3>2, LastOne
      <4>2. g[t] = step[Max(t)][g[t \ {Max(t)}]]
        <5> HIDE DEF n, step, A
        <5> QED
          BY <1>3, <3>2 DEF Folds, Last1
      <4>3. g[t \ {Max(t)}] \in A /\ Max(t) \in 1..n
        <5> HIDE DEF n, A, step
        <5> QED
          BY <1>3, <4>1
      <4> HIDE DEF n, A
      <4> QED
        BY <3>2, <4>2, <4>3
    <3> HIDE DEF n, A
    <3> QED
      BY <3>1, <3>2
  <2> HIDE DEF n, A, step
  <2> QED
    BY <1>3, <2>1
<1> DEFINE chosenRun == CHOOSE iter : Eq(iter)
<1>5. Eq(chosenRun)
  <2> HIDE DEF Eq
  <2> QED
    BY <1>4
<1>6. Verdict(s, path, v) = chosenRun[1..n]
  BY <1>1 DEF Verdict, FoldLeft, MapThenFoldSet, Answer
<1>7. \A i \in 1..n : chosenRun[1..i] = Answer(s, path, R[i], chosenRun[1..(i - 1)])
  <2> TAKE i \in 1..n
  <2> HIDE DEF chosenRun, n, A, step, R
  <2>1. Max(1..i) = i /\ (1..i) \ {i} = 1..(i - 1) /\ 1..i \in SUBSET (1..n) /\ 1..i # {}
    BY <1>1, LastOne
  <2>2. chosenRun[1..i] = Answer(s, path, R[Max(1..i)], chosenRun[(1..i) \ {Max(1..i)}])
    BY <1>5, <2>1
  <2> QED
    BY <2>1, <2>2
<1> DEFINE h == FoldedTo(g, n)
<1>8. h \in [0..n -> A] /\ h[0] = v /\ \A i \in 1..n : h[i] = step[i][h[i - 1]]
  <2> HIDE DEF step, n, A
  <2> QED
    BY <1>3 DEF Runs
<1>9. \A i \in 1..n : h[i] = Answer(s, path, R[i], h[i - 1])
  <2> SUFFICES ASSUME NEW i \in 1..n PROVE h[i] = Answer(s, path, R[i], h[i - 1])
    OBVIOUS
  <2>1. h[i] = step[i][h[i - 1]] /\ h[i - 1] \in A
    <3> HIDE DEF h, n, A, step
    <3> QED
      BY <1>1, <1>8
  <2> HIDE DEF h, n, A
  <2> QED
    BY <2>1
<1> DEFINE T == {i \in 0..n : chosenRun[1..i] = h[i]}
<1>10. 0 \in T
  <2>1. 1..0 = {} /\ {} \in SUBSET (1..n) /\ 0 \in 0..n
    BY <1>1
  <2>2. chosenRun[1..0] = v
    <3> HIDE DEF chosenRun, n
    <3> QED
      BY <1>5, <2>1
  <2> HIDE DEF chosenRun, h, n
  <2> QED
    BY <1>8, <2>1, <2>2
<1>11. \A i \in 1..n : i - 1 \in T => i \in T
  <2> SUFFICES ASSUME NEW i \in 1..n, i - 1 \in T PROVE i \in T
    OBVIOUS
  <2> HIDE DEF chosenRun, h, n
  <2> QED
    BY <1>1, <1>7, <1>9
<1>12. n \in T
  <2> HIDE DEF T, n
  <2> QED
    BY <1>1, <1>10, <1>11, Upwards
<1>13. Verdict(s, path, v) = h[n]
  <2> HIDE DEF chosenRun, h, n
  <2> QED
    BY <1>6, <1>12
<1> HIDE DEF h, step
<1> QED
  BY <1>8, <1>9, <1>13

\* The last rule that says anything of the path decides.
LEMMA VerdictIs ==
  ASSUME NEW s, s.rules \in Seq(RuleSet), NEW path, NEW v \in BOOLEAN
  PROVE  /\ Verdict(s, path, v) \in BOOLEAN
         /\ (\A i \in DOMAIN s.rules : ~Speaks(s, i, path)) => Verdict(s, path, v) = v
         /\ \A i \in DOMAIN s.rules :
              Speaks(s, i, path) /\ (\A j \in DOMAIN s.rules : Speaks(s, j, path) => j <= i)
                => Verdict(s, path, v) = ~s.rules[i].neg
<1> DEFINE R == s.rules
           n == Len(R)
           S(i) == Speaks(s, i, path)
<1>1. n \in Nat /\ DOMAIN R = 1..n
  OBVIOUS
<1>2. PICK h \in [0..n -> BOOLEAN] :
        /\ h[0] = v
        /\ \A i \in 1..n : h[i] = Answer(s, path, R[i], h[i - 1])
        /\ Verdict(s, path, v) = h[n]
  BY VerdictRuns
<1>3. \A i \in 1..n : h[i] = IF S(i) THEN ~R[i].neg ELSE h[i - 1]
  BY <1>2 DEF Answer, Speaks
<1> DEFINE Untouched(i) == (\A j \in 1..i : ~S(j)) => h[i] = v
           Latter(i) == \A j \in 1..i : S(j) /\ (\A k \in 1..i : S(k) => k <= j) => h[i] = ~R[j].neg
           G == {i \in 0..n : Untouched(i) /\ Latter(i)}
<1> HIDE DEF S, n, R
<1>4. 0 \in G
  BY <1>1, <1>2
<1>5. ASSUME NEW i \in 1..n, i - 1 \in G PROVE i \in G
  <2>1. i \in 0..n /\ i - 1 \in 0..n /\ 1..i = (1..(i - 1)) \cup {i} /\ i \in Nat
    BY <1>1
  <2>2. CASE S(i)
    <3>1. h[i] = ~R[i].neg
      BY <1>3, <2>2
    <3>2. i \in 1..i
      BY <2>1
    <3>3. Untouched(i)
      BY <2>2, <3>2
    <3>4. \A j \in 1..i : (\A k \in 1..i : S(k) => k <= j) => j = i
      <4> TAKE j \in 1..i
      <4> HAVE \A k \in 1..i : S(k) => k <= j
      <4>1. i <= j
        BY <2>2, <3>2
      <4> QED
        BY <4>1
    <3>5. Latter(i)
      BY <3>1, <3>4
    <3> QED
      BY <2>1, <3>3, <3>5
  <2>3. CASE ~S(i)
    <3>1. h[i] = h[i - 1]
      BY <1>3, <2>3
    <3>2. Untouched(i - 1) /\ Latter(i - 1)
      BY <1>5
    <3>3. Untouched(i)
      <4> SUFFICES ASSUME \A j \in 1..i : ~S(j) PROVE h[i] = v
        OBVIOUS
      <4>1. \A j \in 1..(i - 1) : ~S(j)
        BY <2>1
      <4> QED
        BY <3>1, <3>2, <4>1
    <3>4. Latter(i)
      <4> SUFFICES ASSUME NEW j \in 1..i, S(j), \A k \in 1..i : S(k) => k <= j PROVE h[i] = ~R[j].neg
        OBVIOUS
      <4>1. j \in 1..(i - 1) /\ \A k \in 1..(i - 1) : S(k) => k <= j
        BY <2>1, <2>3
      <4>2. h[i - 1] = ~R[j].neg
        BY <3>2, <4>1
      <4> QED
        BY <3>1, <4>2
    <3> QED
      BY <2>1, <3>3, <3>4
  <2> QED
    BY <2>2, <2>3
<1>6. n \in G
  <2> HIDE DEF G
  <2> QED
    BY <1>1, <1>4, <1>5, Upwards
<1>7. Verdict(s, path, v) \in BOOLEAN
  BY <1>1, <1>2
<1>8. (\A i \in DOMAIN R : ~S(i)) => Verdict(s, path, v) = v
  BY <1>1, <1>2, <1>6
<1>9. \A i \in DOMAIN R : S(i) /\ (\A j \in DOMAIN R : S(j) => j <= i) => Verdict(s, path, v) = ~R[i].neg
  BY <1>1, <1>2, <1>6
<1> QED
  BY <1>7, <1>8, <1>9 DEF S, R

\* Ignore files that can be told apart by name and directory.
IgnoreSet(S) ==
  /\ IsFiniteSet(S)
  /\ \A s \in S : /\ s.kind \in Kinds /\ s.rules \in Seq(RuleSet)
                  /\ s.kind \in Discovered => s.dir \in Seq(STRING)
  /\ \A s, t \in S : s.kind = t.kind /\ (s.kind \in Discovered => s.dir = t.dir) => s = t

LEMMA EarlierWeighs ==
  ASSUME NEW S, IgnoreSet(S), NEW s \in S, NEW t \in S
  PROVE  /\ Weight(s) \in Nat /\ Weight(t) \in Nat
         /\ Earlier(s, t) => Weight(s) < Weight(t)
<1>1. /\ s.kind \in Kinds /\ (s.kind \in Discovered => s.dir \in Seq(STRING))
      /\ t.kind \in Kinds /\ (t.kind \in Discovered => t.dir \in Seq(STRING))
  BY DEF IgnoreSet
<1>2. /\ s.kind \in Discovered => Len(s.dir) \in Nat /\ Rank[s.kind] \in 0..2
      /\ t.kind \in Discovered => Len(t.dir) \in Nat /\ Rank[t.kind] \in 0..2
  BY <1>1 DEF Discovered, Rank
<1> DEFINE a == s.kind
           b == t.kind
           d == Len(s.dir)
           e == Len(t.dir)
           q == Rank[s.kind]
           r == Rank[t.kind]
           v == Weight(s)
           w == Weight(t)
<1>3. /\ v = (CASE a = "manual" -> 0 [] a = "global" -> 1 [] a = "exclude" -> 2 [] OTHER -> 3 + 3 * d + q)
      /\ w = (CASE b = "manual" -> 0 [] b = "global" -> 1 [] b = "exclude" -> 2 [] OTHER -> 3 + 3 * e + r)
  BY DEF Weight
<1> DEFINE class(k) == CASE k = "manual" -> 0 [] k = "global" -> 1 [] k = "exclude" -> 2 [] OTHER -> 3
<1>4. Earlier(s, t) =>
        IF class(a) # 3 \/ class(b) # 3 THEN class(a) < class(b)
        ELSE IF d # e THEN d < e ELSE q < r
  BY DEF Earlier
<1>5. a \in Kinds /\ b \in Kinds /\ (a \in Discovered => d \in Nat /\ q \in 0..2) /\ (b \in Discovered => e \in Nat /\ r \in 0..2)
  BY <1>1, <1>2
<1> HIDE DEF a, b, d, e, q, r, v, w
<1>6. v \in Nat /\ w \in Nat
  BY <1>3, <1>5 DEF Kinds, Discovered
<1>7. Earlier(s, t) => v < w
  BY <1>3, <1>4, <1>5 DEF Kinds, Discovered
<1> QED
  BY <1>6, <1>7 DEF v, w

\* Of two ignore files above the same path one is read before the other.
LEMMA EarlierEither ==
  ASSUME NEW S, IgnoreSet(S), NEW s \in S, NEW t \in S, s # t, NEW path \in Seq(STRING),
         Below(s.dir, path), Below(t.dir, path)
  PROVE  Earlier(s, t) \/ Earlier(t, s)
<1>1. /\ s.kind \in Kinds /\ (s.kind \in Discovered => s.dir \in Seq(STRING))
      /\ t.kind \in Kinds /\ (t.kind \in Discovered => t.dir \in Seq(STRING))
  BY DEF IgnoreSet
<1>2. ~(s.kind = t.kind /\ (s.kind \in Discovered => s.dir = t.dir))
  BY DEF IgnoreSet
<1>3. CASE s.kind \notin Discovered \/ t.kind \notin Discovered
  BY <1>1, <1>2, <1>3 DEF Earlier, Kinds, Discovered
<1>4. CASE s.kind \in Discovered /\ t.kind \in Discovered
  <2>1. s.dir \in Seq(STRING) /\ t.dir \in Seq(STRING) /\ Len(s.dir) \in Nat /\ Len(t.dir) \in Nat
    BY <1>1, <1>4
  <2>2. CASE Len(s.dir) # Len(t.dir)
    BY <1>4, <2>1, <2>2 DEF Earlier, Discovered
  <2>3. CASE Len(s.dir) = Len(t.dir)
    <3>1. s.dir = t.dir
      BY <2>3 DEF Below
    <3>2. s.kind # t.kind
      BY <1>2, <3>1
    <3>3. Rank[s.kind] < Rank[t.kind] \/ Rank[t.kind] < Rank[s.kind]
      BY <1>4, <3>2 DEF Rank, Discovered
    <3> QED
      BY <1>4, <3>1, <3>3 DEF Earlier, Discovered
  <2> QED
    BY <2>2, <2>3
<1> QED
  BY <1>3, <1>4

LEMMA LastIs ==
  ASSUME NEW S, IgnoreSet(S), NEW s \in SUBSET S, s # {}
  PROVE  LastOf(s) \in s /\ \A t \in s : ~Earlier(LastOf(s), t)
<1> DEFINE Top(r, x) == \A t \in r : Weight(t) <= Weight(x)
           G == {r \in SUBSET S : r = {} \/ \E x \in r : Top(r, x)}
<1>0. \A x \in S : Weight(x) \in Nat
  BY EarlierWeighs
<1>1. {} \in G
  OBVIOUS
<1>2. ASSUME NEW r \in SUBSET S, r # {}, \A x \in r : r \ {x} \in G PROVE r \in G
  <2>1. PICK x \in r : TRUE
    BY <1>2
  <2>2. r \ {x} \in G
    BY <1>2
  <2>3. CASE r \ {x} = {}
    <3>1. Top(r, x)
      BY <1>0, <2>3
    <3> QED
      BY <3>1
  <2>4. CASE r \ {x} # {}
    <3>1. PICK y \in r \ {x} : Top(r \ {x}, y)
      BY <2>2, <2>4
    <3>2. Weight(x) \in Nat /\ Weight(y) \in Nat /\ \A t \in r : Weight(t) \in Nat
      BY <1>0
    <3>3. CASE Weight(x) <= Weight(y)
      <4>1. Top(r, y)
        BY <3>1, <3>3
      <4> QED
        BY <4>1
    <3>4. CASE Weight(y) <= Weight(x)
      <4>1. Top(r, x)
        BY <3>1, <3>2, <3>4
      <4> QED
        BY <4>1
    <3> QED
      BY <3>2, <3>3, <3>4
  <2> QED
    BY <2>3, <2>4
<1>3. IsFiniteSet(S)
  BY DEF IgnoreSet
<1>4. s \in G
  <2> HIDE DEF G
  <2> QED
    BY <1>1, <1>2, <1>3, FromEmpty
<1>5. PICK x \in s : Top(s, x)
  BY <1>4
<1>6. \A t \in s : ~Earlier(x, t)
  <2> SUFFICES ASSUME NEW t \in s, Earlier(x, t) PROVE FALSE
    OBVIOUS
  <2>1. Weight(x) < Weight(t) /\ Weight(x) \in Nat /\ Weight(t) \in Nat
    BY EarlierWeighs
  <2>2. Weight(t) <= Weight(x)
    BY <1>5
  <2> QED
    BY <2>1, <2>2
<1>7. \E x2 \in s : \A t \in s : ~Earlier(x2, t)
  BY <1>6
<1> QED
  BY <1>7 DEF LastOf

\* allowed_path goes through the ignore files, each after those it overrules.
LEMMA IgnoredRuns ==
  ASSUME NEW S, IgnoreSet(S), NEW path
  PROVE  \E g \in [SUBSET S -> BOOLEAN] :
           /\ \A r \in SUBSET S :
                g[r] = IF r = {} THEN FALSE ELSE Verdict(LastOf(r), path, g[r \ {LastOf(r)}])
           /\ Ignored(S, path) = g[S]
<1> DEFINE A == BOOLEAN
           base == FALSE
           c == [r \in SUBSET S |-> LastOf(r)]
           step == [s \in S |-> [x \in A |-> Verdict(s, path, x)]]
<1>1. IsFiniteSet(S) /\ base \in A
  BY DEF IgnoreSet
<1>2. \A r \in SUBSET S : r # {} => LastOf(r) \in r /\ LastOf(r) \in S /\ r \ {LastOf(r)} \in SUBSET S
  BY LastIs
<1>3. Chooses(c, S)
  BY <1>2 DEF Chooses
<1>4. step \in [S -> [A -> A]]
  <2>1. \A s \in S, x \in BOOLEAN : Verdict(s, path, x) \in BOOLEAN
    BY VerdictIs DEF IgnoreSet
  <2> QED
    BY <2>1
<1>5. PICK g \in [SUBSET S -> A] : Folds(g, S, base, c, step)
  <2> HIDE DEF A, base, c, step
  <2> QED
    BY <1>1, <1>3, <1>4, FoldExists
<1> DEFINE Eq(iter) ==
      iter = [r \in SUBSET S |-> IF r = {} THEN FALSE ELSE Verdict(LastOf(r), path, iter[r \ {LastOf(r)}])]
<1>6. ASSUME NEW r \in SUBSET S
      PROVE  g[r] = IF r = {} THEN FALSE ELSE Verdict(LastOf(r), path, g[r \ {LastOf(r)}])
  <2>1. CASE r = {}
    BY <1>5, <2>1 DEF Folds
  <2>2. CASE r # {}
    <3>1. LastOf(r) \in S /\ g[r \ {LastOf(r)}] \in A
      BY <1>2, <2>2
    <3>2. g[r] = step[LastOf(r)][g[r \ {LastOf(r)}]]
      <4> HIDE DEF A, base, step
      <4> QED
        BY <1>5, <2>2 DEF Folds
    <3>3. g[r] = Verdict(LastOf(r), path, g[r \ {LastOf(r)}])
      <4> HIDE DEF A
      <4> QED
        BY <3>1, <3>2
    <3> QED
      BY <2>2, <3>3
  <2> QED
    BY <2>1, <2>2
<1>7. Eq(g)
  <2> HIDE DEF A
  <2> QED
    BY <1>6
<1> DEFINE chosenRun == CHOOSE iter : Eq(iter)
<1>8. Eq(chosenRun)
  <2> HIDE DEF Eq
  <2> QED
    BY <1>7
<1>9. Ignored(S, path) = chosenRun[S]
  BY DEF Ignored, MapThenFoldSet
<1> DEFINE G == {r \in SUBSET S : chosenRun[r] = g[r]}
<1>10. {} \in G
  <2> HIDE DEF chosenRun, A
  <2> QED
    BY <1>6, <1>8
<1>11. ASSUME NEW r \in SUBSET S, r # {}, \A x \in r : r \ {x} \in G PROVE r \in G
  <2>1. chosenRun[r \ {LastOf(r)}] = g[r \ {LastOf(r)}]
    BY <1>2, <1>11
  <2>2. chosenRun[r] = Verdict(LastOf(r), path, chosenRun[r \ {LastOf(r)}])
    <3> HIDE DEF chosenRun
    <3> QED
      BY <1>8, <1>11
  <2>3. g[r] = Verdict(LastOf(r), path, g[r \ {LastOf(r)}])
    BY <1>6, <1>11
  <2> HIDE DEF chosenRun
  <2> QED
    BY <2>1, <2>2, <2>3
<1>12. S \in G
  <2>1. S \in SUBSET S
    OBVIOUS
  <2> HIDE DEF G
  <2> QED
    BY <1>1, <1>10, <1>11, <2>1, FromEmpty
<1>13. Ignored(S, path) = g[S]
  <2> HIDE DEF chosenRun
  <2> QED
    BY <1>9, <1>12
<1> QED
  BY <1>6, <1>13

\* Rule i of an ignore file says something of the path, and every other rule
\* that does comes before it.
Leads(S, s, i, path) ==
  /\ Speaks(s, i, path)
  /\ \A t \in S : \A j \in DOMAIN t.rules :
       Speaks(t, j, path) => Weight(t) < Weight(s) \/ (t = s /\ j <= i)

\* The rule that is nearest, and the last there, says that the path is ignored.
Decides(S, path) == \E s \in S : \E i \in DOMAIN s.rules : ~s.rules[i].neg /\ Leads(S, s, i, path)

\* The ignore file that comes last decides, if it says anything.
LEMMA LastDecides ==
  ASSUME NEW S, IgnoreSet(S), NEW path \in Seq(STRING), NEW r \in SUBSET S, r # {},
         NEW v \in BOOLEAN, v <=> Decides(r \ {LastOf(r)}, path)
  PROVE  Verdict(LastOf(r), path, v) <=> Decides(r, path)
<1> DEFINE x == LastOf(r)
           q == r \ {x}
           w == Verdict(x, path, v)
<1>1. x \in r /\ x \in S /\ \A t \in r : ~Earlier(x, t)
  BY LastIs
<1>2. x.rules \in Seq(RuleSet)
  BY <1>1 DEF IgnoreSet
<1>3. /\ w \in BOOLEAN
      /\ (\A i \in DOMAIN x.rules : ~Speaks(x, i, path)) => w = v
      /\ \A i \in DOMAIN x.rules :
           Speaks(x, i, path) /\ (\A j \in DOMAIN x.rules : Speaks(x, j, path) => j <= i) => w = ~x.rules[i].neg
  <2> HIDE DEF x
  <2> QED
    BY <1>2, VerdictIs
<1>4. v <=> Decides(q, path)
  OBVIOUS
<1> HIDE DEF x, w
<1>5. CASE \A i \in DOMAIN x.rules : ~Speaks(x, i, path)
  <2>1. w = v
    BY <1>3, <1>5
  <2>2. Decides(q, path) => Decides(r, path)
    <3> SUFFICES ASSUME Decides(q, path) PROVE Decides(r, path)
      OBVIOUS
    <3>0. PICK s \in q : \E i \in DOMAIN s.rules : ~s.rules[i].neg /\ Leads(q, s, i, path)
      BY DEF Decides
    <3>1. PICK i \in DOMAIN s.rules : ~s.rules[i].neg /\ Leads(q, s, i, path)
      BY <3>0
    <3>2. Leads(r, s, i, path)
      BY <1>5, <3>1 DEF Leads
    <3> QED
      BY <3>1, <3>2 DEF Decides
  <2>3. Decides(r, path) => Decides(q, path)
    BY <1>5 DEF Decides, Leads
  <2> QED
    BY <1>4, <2>1, <2>2, <2>3 DEF w, x
<1>6. CASE \E i \in DOMAIN x.rules : Speaks(x, i, path)
  <2> DEFINE spoke == {i \in DOMAIN x.rules : Speaks(x, i, path)}
             m == Max(spoke)
  <2>1. m \in spoke /\ \A j \in spoke : j <= m
    <3>1. Len(x.rules) \in Nat /\ DOMAIN x.rules = 1..Len(x.rules)
      BY <1>2
    <3>2. spoke \in SUBSET (1..Len(x.rules)) /\ spoke # {}
      BY <1>6, <3>1
    <3> HIDE DEF spoke
    <3> QED
      BY <3>1, <3>2, GreatestIs
  <2>2. m \in DOMAIN x.rules /\ Speaks(x, m, path) /\ \A j \in DOMAIN x.rules : Speaks(x, j, path) => j <= m
    BY <2>1
  <2> HIDE DEF m, spoke
  <2>3. w = ~x.rules[m].neg
    BY <1>3, <2>2
  <2>4. ASSUME NEW t \in r, t # x, NEW j \in DOMAIN t.rules, Speaks(t, j, path) PROVE Weight(t) < Weight(x)
    <3>1. Earlier(x, t) \/ Earlier(t, x)
      BY <1>1, <2>2, <2>4, EarlierEither DEF Speaks
    <3> QED
      BY <1>1, <2>4, <3>1, EarlierWeighs
  <2>5. w => Decides(r, path)
    BY <1>1, <2>2, <2>3, <2>4 DEF Decides, Leads
  <2>6. Decides(r, path) => w
    <3> SUFFICES ASSUME Decides(r, path) PROVE w
      OBVIOUS
    <3>0. PICK s \in r : \E i \in DOMAIN s.rules : ~s.rules[i].neg /\ Leads(r, s, i, path)
      BY DEF Decides
    <3>1. PICK i \in DOMAIN s.rules : ~s.rules[i].neg /\ Leads(r, s, i, path)
      BY <3>0
    <3>2. Weight(x) < Weight(s) \/ (x = s /\ m <= i)
      BY <1>1, <2>2, <3>1 DEF Leads
    <3>3. ~(Weight(x) < Weight(s))
      <4> SUFFICES ASSUME Weight(x) < Weight(s) PROVE FALSE
        OBVIOUS
      <4>1. Weight(x) \in Nat /\ Weight(s) \in Nat
        BY <1>1, EarlierWeighs
      <4>2. s # x
        BY <4>1
      <4>3. Weight(s) < Weight(x)
        BY <2>4, <3>1, <4>2 DEF Leads
      <4> QED
        BY <4>1, <4>3
    <3>4. x = s /\ i = m
      <4>1. x = s /\ m <= i
        BY <3>2, <3>3
      <4>2. i \in DOMAIN x.rules /\ i <= m /\ DOMAIN x.rules = 1..Len(x.rules) /\ Len(x.rules) \in Nat
        BY <1>2, <2>2, <3>1, <4>1 DEF Leads
      <4> QED
        BY <2>2, <4>1, <4>2
    <3> QED
      BY <2>3, <3>1, <3>4
  <2> QED
    BY <2>5, <2>6 DEF w, x
<1> QED
  BY <1>5, <1>6

LEMMA IgnoredIs ==
  ASSUME NEW S, IgnoreSet(S), NEW path \in Seq(STRING)
  PROVE  Ignored(S, path) <=> Decides(S, path)
<1>1. PICK g \in [SUBSET S -> BOOLEAN] :
        /\ \A r \in SUBSET S :
             g[r] = IF r = {} THEN FALSE ELSE Verdict(LastOf(r), path, g[r \ {LastOf(r)}])
        /\ Ignored(S, path) = g[S]
  BY IgnoredRuns
<1> DEFINE G == {r \in SUBSET S : g[r] <=> Decides(r, path)}
<1>2. {} \in G
  BY <1>1 DEF Decides
<1>3. ASSUME NEW r \in SUBSET S, r # {}, \A x \in r : r \ {x} \in G PROVE r \in G
  <2>1. LastOf(r) \in r
    BY <1>3, LastIs
  <2>2. g[r \ {LastOf(r)}] \in BOOLEAN /\ (g[r \ {LastOf(r)}] <=> Decides(r \ {LastOf(r)}, path))
    BY <1>3, <2>1
  <2>3. Verdict(LastOf(r), path, g[r \ {LastOf(r)}]) <=> Decides(r, path)
    BY <1>3, <2>2, LastDecides
  <2> QED
    BY <1>1, <1>3, <2>3
<1>4. S \in G
  <2>1. S \in SUBSET S /\ IsFiniteSet(S)
    BY DEF IgnoreSet
  <2> HIDE DEF G
  <2> QED
    BY <1>2, <1>3, <2>1, FromEmpty
<1> QED
  BY <1>1, <1>4

\* load_ignore leaves no two ignore files of one name in one directory.
LEMMA LiveSet ==
  ASSUME NEW x \in Worlds, NEW switches, NEW root
  PROVE  IgnoreSet(Sources(switches, x, root))
<1> DEFINE I == {s \in x.ignores : InForce(switches, s, root, x.git)}
           At(s) == IF s.kind \in {"manual", "global"} THEN [s EXCEPT !.dir = root] ELSE s
           f == [s \in I |-> At(s)]
           S == Sources(switches, x, root)
<1>1. /\ IsFiniteSet(x.ignores) /\ \A s \in x.ignores : IgnoreFile(s)
      /\ \A s, t \in x.ignores : s.kind = t.kind /\ (s.kind \in Discovered => s.dir = t.dir) => s = t
  BY CommandAssumption
<1>2. S = {f[s] : s \in I}
  BY DEF Sources
<1>3. IsFiniteSet(I)
  BY <1>1, FS_Subset
<1>4. IsFiniteSet(S)
  <2> HIDE DEF f, I, S
  <2> QED
    BY <1>2, <1>3, ImageFinite
<1>5. ASSUME NEW s \in x.ignores
      PROVE  /\ At(s).kind = s.kind /\ At(s).rules = s.rules
             /\ s.kind \in Kinds /\ s.rules \in Seq(RuleSet) /\ s.dir \in Seq(STRING)
             /\ s.kind \in Discovered => At(s) = s
  <2>1. s \in [dir : Seq(STRING), kind : Kinds, rules : Seq(RuleSet)]
    BY <1>1 DEF IgnoreFile
  <2>2. s.kind \in Kinds /\ s.rules \in Seq(RuleSet) /\ s.dir \in Seq(STRING)
    BY <2>1
  <2>3. LET t == [s EXCEPT !.dir = root] IN t.kind = s.kind /\ t.rules = s.rules
    BY <2>1
  <2>4. At(s).kind = s.kind /\ At(s).rules = s.rules
    BY <2>3
  <2>5. s.kind \in Discovered => At(s) = s
    BY DEF Discovered
  <2> QED
    BY <2>2, <2>4, <2>5
<1>6. \A y \in S : \E s \in x.ignores : y = At(s)
  BY <1>2
<1> HIDE DEF At, S
<1>7. \A y \in S : /\ y.kind \in Kinds /\ y.rules \in Seq(RuleSet)
                   /\ y.kind \in Discovered => y.dir \in Seq(STRING)
  <2> TAKE y \in S
  <2>1. PICK s \in x.ignores : y = At(s)
    BY <1>6
  <2>2. y.kind = s.kind /\ y.rules = s.rules /\ (s.kind \in Discovered => y = s)
    BY <1>5, <2>1
  <2> QED
    BY <1>5, <2>2
<1>8. \A y, z \in S : y.kind = z.kind /\ (y.kind \in Discovered => y.dir = z.dir) => y = z
  <2> SUFFICES ASSUME NEW y \in S, NEW z \in S, y.kind = z.kind, y.kind \in Discovered => y.dir = z.dir
               PROVE  y = z
    OBVIOUS
  <2>1. PICK s \in x.ignores : y = At(s)
    BY <1>6
  <2>2. PICK t \in x.ignores : z = At(t)
    BY <1>6
  <2>3. y.kind = s.kind /\ z.kind = t.kind /\ (s.kind \in Discovered => y = s) /\ (t.kind \in Discovered => z = t)
    BY <1>5, <2>1, <2>2
  <2>4. s = t
    BY <1>1, <2>3
  <2> QED
    BY <2>1, <2>2, <2>4
<1>9. IgnoreSet(S)
  BY <1>4, <1>7, <1>8 DEF IgnoreSet
<1> QED
  BY <1>9 DEF S

\* The pairs that NearestRuleWins speaks of.
LEMMA DecidesSame ==
  ASSUME NEW S, IgnoreSet(S), NEW path
  PROVE  LET speak == {p \in UNION {{s} \X DOMAIN s.rules : s \in S} :
                          Below(p[1].dir, path) /\ RuleMatches(p[1].rules[p[2]], Local(p[1].dir, path))}
         IN Decides(S, path) <=>
              \E p \in speak : /\ ~p[1].rules[p[2]].neg
                               /\ \A q \in speak : Weight(q[1]) < Weight(p[1]) \/ (q[1] = p[1] /\ q[2] <= p[2])
<1> DEFINE pairs == UNION {{s} \X DOMAIN s.rules : s \in S}
           speak == {p \in pairs : Below(p[1].dir, path) /\ RuleMatches(p[1].rules[p[2]], Local(p[1].dir, path))}
           best(p) == \A q \in speak : Weight(q[1]) < Weight(p[1]) \/ (q[1] = p[1] /\ q[2] <= p[2])
<1>1. \A p \in pairs : p[1] \in S /\ p[2] \in DOMAIN p[1].rules
  OBVIOUS
<1>2. \A s \in S : \A i \in DOMAIN s.rules : <<s, i>> \in pairs
  OBVIOUS
<1> HIDE DEF pairs
<1>3. \A p \in speak : p[1] \in S /\ p[2] \in DOMAIN p[1].rules /\ Speaks(p[1], p[2], path)
  BY <1>1 DEF Speaks
<1>4. \A s \in S : \A i \in DOMAIN s.rules : Speaks(s, i, path) => <<s, i>> \in speak
  <2> SUFFICES ASSUME NEW s \in S, NEW i \in DOMAIN s.rules, Speaks(s, i, path) PROVE <<s, i>> \in speak
    OBVIOUS
  <2> DEFINE p == <<s, i>>
  <2>1. p[1] = s /\ p[2] = i /\ p \in pairs
    BY <1>2
  <2> HIDE DEF p
  <2>2. p \in speak
    BY <2>1 DEF Speaks
  <2> QED
    BY <2>2 DEF p
<1> HIDE DEF speak
<1>5. \A p \in speak : best(p) <=> Leads(S, p[1], p[2], path)
  <2> TAKE p \in speak
  <2>1. best(p) => Leads(S, p[1], p[2], path)
    <3> SUFFICES ASSUME best(p), NEW t \in S, NEW j \in DOMAIN t.rules, Speaks(t, j, path)
                 PROVE  Weight(t) < Weight(p[1]) \/ (t = p[1] /\ j <= p[2])
      BY <1>3 DEF Leads
    <3> DEFINE q == <<t, j>>
    <3>1. q \in speak /\ q[1] = t /\ q[2] = j
      BY <1>4
    <3> HIDE DEF q
    <3> QED
      BY <3>1
  <2>2. Leads(S, p[1], p[2], path) => best(p)
    BY <1>3 DEF Leads
  <2> QED
    BY <2>1, <2>2
<1> HIDE DEF best
<1>6. Decides(S, path) => \E p \in speak : ~p[1].rules[p[2]].neg /\ best(p)
  <2> SUFFICES ASSUME Decides(S, path) PROVE \E p \in speak : ~p[1].rules[p[2]].neg /\ best(p)
    OBVIOUS
  <2>1. PICK s \in S : \E i \in DOMAIN s.rules : ~s.rules[i].neg /\ Leads(S, s, i, path)
    BY DEF Decides
  <2>2. PICK i \in DOMAIN s.rules : ~s.rules[i].neg /\ Leads(S, s, i, path)
    BY <2>1
  <2> DEFINE p == <<s, i>>
  <2>3. p \in speak /\ p[1] = s /\ p[2] = i
    BY <1>4, <2>2 DEF Leads
  <2> HIDE DEF p
  <2> QED
    BY <1>5, <2>2, <2>3
<1>7. (\E p \in speak : ~p[1].rules[p[2]].neg /\ best(p)) => Decides(S, path)
  BY <1>3, <1>5 DEF Decides
<1> QED
  BY <1>6, <1>7 DEF speak, pairs, best

LEMMA NearestSaid == TypeOK /\ RunInv => NearestRuleWins
<1> SUFFICES ASSUME TypeOK, RunInv, pc \in {"list", "search"} PROVE NearestRuleWins
  BY DEF NearestRuleWins
<1>1. world \in Worlds
  BY DEF TypeOK, RunInv, Opened, InWorld
<1> DEFINE live == Sources(on, world, Root(world, want.paths))
<1>2. IgnoreSet(live)
  BY <1>1, LiveSet
<1>3. \A f \in DOMAIN world.files : world.files[f].path \in Seq(STRING)
  <2> DEFINE File == [path : Seq(STRING), text : Seq(STRING), size : Nat]
             files == world.files
  <2>1. files \in Seq(File)
    BY <1>1, CommandAssumption
  <2> HIDE DEF File, files
  <2>2. \A f \in DOMAIN files : files[f] \in File
    BY <2>1
  <2>3. \A y \in File : y.path \in Seq(STRING)
    BY DEF File
  <2> QED
    BY <2>2, <2>3 DEF files
<1> HIDE DEF live
<1>4. \A f \in DOMAIN world.files :
        Ignored(live, world.files[f].path) <=> Decides(live, world.files[f].path)
  BY <1>2, <1>3, IgnoredIs
<1> QED
  BY <1>2, <1>4, DecidesSame DEF NearestRuleWins, live

\* Of the rules that match a file the one of the nearest and highest-ranking
\* ignore file decides, and in one file the last (load_ignore, allowed_path).
THEOREM NearestDecides == Spec => []NearestRuleWins
<1> QED
  BY InitType, NextType, RunStarts, RunKeeps, NearestSaid, PTL DEF Spec
=============================================================================
