--------------------------- MODULE SeqEditorProofs ---------------------------
(* What TLAPS proves of the drawing of sequential pages, for tables, pages  *)
(* and lists of any size and any number of clicks. When the operator looks  *)
(* where he puts a step with its transition, two elements never share a     *)
(* cell; when he also types numbers of steps of the page, the lists of the  *)
(* transitions name steps that are there: whatever is drawn, linked,        *)
(* erased, applied, given up or reset.                                      *)
EXTENDS SeqEditor, FiniteSetTheorems, WellFoundedInduction, TLAPS

-----------------------------------------------------------------------------
(* The invariant: the tables of the project and those under edit are well   *)
(* drawn.                                                                   *)

IInv ==
    /\ WellDrawn(live) /\ WellDrawn(draw)
    /\ editing \in Pages \cup {None}

-----------------------------------------------------------------------------
(* What the clicks that put nothing new do: an element stays where it is,   *)
(* or is no more.                                                           *)
Fewer(d, e) ==
    /\ \A s \in Steps : e.step[s].page # None =>
         e.step[s].page = d.step[s].page /\ e.step[s].at = d.step[s].at
    /\ \A t \in Transis : e.transi[t].page # None =>
         e.transi[t].page = d.transi[t].page /\ e.transi[t].at = d.transi[t].at
    /\ \A k \in Comments : e.comment[k].page # None =>
         e.comment[k].page = d.comment[k].page /\ e.comment[k].at = d.comment[k].at

(* A chart with no new element stays well drawn.                            *)
LEMMA FewerIsWellDrawn ==
    ASSUME NEW d, NEW e, WellDrawn(d), Tables(e), Fewer(d, e)
    PROVE  WellDrawn(e)
<1>1. OnTheirLines(e)
  BY DEF WellDrawn, OnTheirLines, Fewer
<1>2. ASSUME NEW s \in Steps, NEW r \in Steps, e.step[s].page # None, s # r
      PROVE  << e.step[s].page, e.step[s].at >> # << e.step[r].page, e.step[r].at >>
  BY <1>2 DEF WellDrawn, Alone, Fewer
<1>3. ASSUME NEW t \in Transis, NEW u \in Transis, e.transi[t].page # None, t # u
      PROVE  << e.transi[t].page, e.transi[t].at >> # << e.transi[u].page, e.transi[u].at >>
  BY <1>3 DEF WellDrawn, Alone, Fewer
<1>4. ASSUME NEW k \in Comments, e.comment[k].page # None
      PROVE  /\ e.comment[k].page = d.comment[k].page
             /\ \A c : Covers(e.comment[k], c) <=> Covers(d.comment[k], c)
  BY <1>4 DEF Fewer, Covers
<1>5. ASSUME NEW k \in Comments, e.comment[k].page # None,
             NEW s \in Steps, e.step[s].page = e.comment[k].page
      PROVE  ~Covers(e.comment[k], e.step[s].at)
  <2>1. d.step[s].page = d.comment[k].page /\ e.step[s].at = d.step[s].at /\ d.comment[k].page # None
    BY <1>4, <1>5 DEF Fewer
  <2> QED
    BY <2>1, <1>4, <1>5 DEF WellDrawn, Alone
<1>6. ASSUME NEW k \in Comments, e.comment[k].page # None,
             NEW t \in Transis, e.transi[t].page = e.comment[k].page
      PROVE  ~Covers(e.comment[k], e.transi[t].at)
  <2>1. d.transi[t].page = d.comment[k].page /\ e.transi[t].at = d.transi[t].at /\ d.comment[k].page # None
    BY <1>4, <1>6 DEF Fewer
  <2> QED
    BY <2>1, <1>4, <1>6 DEF WellDrawn, Alone
<1>7. ASSUME NEW k \in Comments, e.comment[k].page # None,
             NEW j \in Comments \ {k}, e.comment[j].page = e.comment[k].page
      PROVE  ~Covers(e.comment[k], e.comment[j].at)
  <2>1. d.comment[j].page = d.comment[k].page /\ e.comment[j].at = d.comment[j].at /\ d.comment[k].page # None
    BY <1>4, <1>7 DEF Fewer
  <2> QED
    BY <2>1, <1>4, <1>7 DEF WellDrawn, Alone
<1> QED
  BY <1>1, <1>2, <1>3, <1>5, <1>6, <1>7 DEF WellDrawn, Alone

-----------------------------------------------------------------------------
(* The last and the first of a set of places in a table.                    *)

LEMMA FirstIsThere ==
    ASSUME NEW S \in SUBSET Nat, S # {}
    PROVE  Min(S) \in S /\ \A y \in S : Min(S) <= y
<1> DEFINE R == {p \in Nat \X Nat : p[1] < p[2]}
<1>1. IsWellFoundedOn(R, Nat)
  BY NatLessThanWellFounded, Zenon DEF OpToRel
<1>2. PICK x \in S : \A y \in S : ~(<< y, x >> \in R)
  <2> HIDE DEF R
  <2> QED
    BY <1>1, WFMin
<1>3. \A y \in S : x <= y
  <2> TAKE y \in S
  <2>1. << y, x >> \in Nat \X Nat /\ ~(<< y, x >> \in R)
    BY <1>2
  <2>2. ~(y < x)
    BY <2>1
  <2> QED
    BY <2>2
<1> QED
  BY <1>3 DEF Min

LEMMA LastIsThere ==
    ASSUME NEW n \in Nat, NEW S \in SUBSET (0 .. n - 1), S # {}
    PROVE  LastOf(S) \in S
<1> DEFINE T == {n - x : x \in S}
<1>1. T # {}
  OBVIOUS
<1>2. \A x \in S : x \in Nat /\ n - x \in Nat /\ n - x \in T
  OBVIOUS
<1>3. T \in SUBSET Nat
  BY <1>2
<1>4. PICK x \in S : n - x = Min(T)
  <2>1. Min(T) \in T
    <3> HIDE DEF T
    <3> QED
      BY <1>1, <1>3, FirstIsThere
  <2> QED
    BY <2>1
<1>5. \A y \in S : n - x <= n - y
  <2> HIDE DEF T
  <2> QED
    BY <1>1, <1>2, <1>3, <1>4, FirstIsThere
<1>6. \A y \in S : x >= y
  BY <1>2, <1>5
<1> QED
  BY <1>6 DEF LastOf, Max

(* What a search says of the tables.                                        *)
LEMMA SearchesSay ==
    ASSUME NEW d, NEW p, NEW c
    PROVE  /\ SearchStep(d, p, c) = None =>
                \A s \in Steps : ~(d.step[s].page = p /\ d.step[s].at = c)
           /\ SearchTransi(d, p, c) = None =>
                \A t \in Transis : ~(d.transi[t].page = p /\ d.transi[t].at = c)
           /\ SearchComment(d, p, c) = None =>
                \A k \in Comments : ~(d.comment[k].page = p /\ Covers(d.comment[k], c))
           /\ SearchComment(d, p, c) # None => SearchComment(d, p, c) \in Comments
<1> DEFINE SS == {s \in Steps : d.step[s].page = p /\ d.step[s].at = c}
           TT == {t \in Transis : d.transi[t].page = p /\ d.transi[t].at = c}
           KK == {k \in Comments : d.comment[k].page = p /\ Covers(d.comment[k], c)}
<1> USE SeqEditorAssumption
<1>1. SS # {} => LastOf(SS) \in SS
  <2>1. NbrSteps \in Nat /\ SS \in SUBSET (0 .. NbrSteps - 1)
    BY DEF Steps
  <2> HIDE DEF SS
  <2> QED
    BY <2>1, LastIsThere
<1>2. TT # {} => LastOf(TT) \in TT
  <2>1. NbrTransis \in Nat /\ TT \in SUBSET (0 .. NbrTransis - 1)
    BY DEF Transis
  <2> HIDE DEF TT
  <2> QED
    BY <2>1, LastIsThere
<1>3. KK # {} => LastOf(KK) \in KK
  <2>1. NbrComments \in Nat /\ KK \in SUBSET (0 .. NbrComments - 1)
    BY DEF Comments
  <2> HIDE DEF KK
  <2> QED
    BY <2>1, LastIsThere
<1>4. SS # {} => SearchStep(d, p, c) # None
  BY <1>1 DEF SearchStep, Steps, None
<1>5. TT # {} => SearchTransi(d, p, c) # None
  BY <1>2 DEF SearchTransi, Transis, None
<1>6. KK # {} => SearchComment(d, p, c) # None
  BY <1>3 DEF SearchComment, Comments, None
<1>7. SearchComment(d, p, c) # None => SearchComment(d, p, c) \in Comments
  BY <1>3 DEF SearchComment, LastOf
<1> QED
  BY <1>4, <1>5, <1>6, <1>7

(* An empty cell is empty whatever the search looks for: on an odd line     *)
(* there is no transition, on an even one no step.                          *)
Vacant(d, p, c) ==
    /\ \A s \in Steps : ~(d.step[s].page = p /\ d.step[s].at = c)
    /\ \A t \in Transis : ~(d.transi[t].page = p /\ d.transi[t].at = c)
    /\ \A k \in Comments : ~(d.comment[k].page = p /\ Covers(d.comment[k], c))

LEMMA NothingIsVacant ==
    ASSUME NEW d, OnTheirLines(d), NEW p, p # None, NEW c, SearchIt(d, p, c) = Nothing
    PROVE  Vacant(d, p, c)
<1>1. /\ \A off : [type |-> "step", off |-> off] # Nothing
      /\ \A off : [type |-> "transi", off |-> off] # Nothing
      /\ \A off : [type |-> "comment", off |-> off] # Nothing
  BY DEF Nothing, NoFirst
<1>2. /\ Odd(c) => SearchStep(d, p, c) = None
      /\ ~Odd(c) => SearchTransi(d, p, c) = None
      /\ SearchComment(d, p, c) = None
  BY <1>1 DEF SearchIt
<1>3. CASE Odd(c)
  BY <1>2, <1>3, SearchesSay DEF Vacant, OnTheirLines
<1>4. CASE ~Odd(c)
  BY <1>2, <1>4, SearchesSay DEF Vacant, OnTheirLines
<1> QED
  BY <1>3, <1>4

-----------------------------------------------------------------------------
(* What each click does to the tables: it adds nothing, ...                 *)

(* A row that stays where it is, or is freed.                               *)
Stays(r, q) == q.page \in {None, r.page} /\ q.at = r.at
StepKept(r, q) == IsStep(q) /\ Stays(r, q)
TransiKept(r, q) == IsTransi(q) /\ Stays(r, q)
CommentKept(r, q) == IsComment(q) /\ Stays(r, q)

LEMMA StaysTwice ==
    ASSUME NEW r, NEW q, NEW x, Stays(r, q), Stays(q, x)
    PROVE  Stays(r, x)
BY DEF Stays

LEMMA StepRow ==
    ASSUME NEW r, IsStep(r), NEW n, NEW init
    PROVE  /\ StepKept(r, [r EXCEPT !.page = None])
           /\ StepKept(r, [r EXCEPT !.num = n, !.init = init])
<1> DEFINE q == [r EXCEPT !.num = n]
<1>1. StepKept(r, [r EXCEPT !.page = None])
  BY DEF StepKept, IsStep, Stays
<1>2. StepKept(r, q)
  BY DEF StepKept, IsStep, Stays
<1>3. [r EXCEPT !.num = n, !.init = init] = [q EXCEPT !.init = init]
  BY Zenon
<1>4. StepKept(q, [q EXCEPT !.init = init])
  <2> HIDE DEF q
  <2> QED
    BY <1>2 DEF StepKept, IsStep, Stays
<1>5. StepKept(r, [q EXCEPT !.init = init])
  BY <1>2, <1>4, StaysTwice, Zenon DEF StepKept
<1> QED
  BY <1>1, <1>3, <1>5, Zenon

LEMMA TransiRow ==
    ASSUME NEW r, IsTransi(r), NEW a
    PROVE  /\ TransiKept(r, [r EXCEPT !.page = None])
           /\ TransiKept(r, [r EXCEPT !.act = a])
           /\ TransiKept(r, [r EXCEPT !.desact = a])
           /\ TransiKept(r, [r EXCEPT !.act[1] = a])
           /\ TransiKept(r, [r EXCEPT !.desact[1] = a])
           /\ TransiKept(r, [r EXCEPT !.start = a])
           /\ TransiKept(r, [r EXCEPT !.end = a])
<1>1. TransiKept(r, [r EXCEPT !.page = None])
  BY DEF TransiKept, IsTransi, Stays
<1>2. TransiKept(r, [r EXCEPT !.act = a])
  BY DEF TransiKept, IsTransi, Stays
<1>3. TransiKept(r, [r EXCEPT !.desact = a])
  BY DEF TransiKept, IsTransi, Stays
<1>4. TransiKept(r, [r EXCEPT !.act[1] = a])
  BY DEF TransiKept, IsTransi, Stays
<1>5. TransiKept(r, [r EXCEPT !.desact[1] = a])
  BY DEF TransiKept, IsTransi, Stays
<1>6. TransiKept(r, [r EXCEPT !.start = a])
  BY DEF TransiKept, IsTransi, Stays
<1>7. TransiKept(r, [r EXCEPT !.end = a])
  BY DEF TransiKept, IsTransi, Stays
<1> QED
  BY <1>1, <1>2, <1>3, <1>4, <1>5, <1>6, <1>7, Zenon

LEMMA TransiRowTwice ==
    ASSUME NEW r, IsTransi(r), NEW a, NEW b
    PROVE  /\ TransiKept(r, [r EXCEPT !.act = a, !.desact = b])
           /\ TransiKept(r, [r EXCEPT !.start = a, !.desact[1] = b])
           /\ TransiKept(r, [r EXCEPT !.end = a, !.act[1] = b])
           /\ TransiKept(r, [r EXCEPT !.act[1] = a, !.desact[1] = b])
<1> DEFINE q1 == [r EXCEPT !.act = a]
           q2 == [r EXCEPT !.start = a]
           q3 == [r EXCEPT !.end = a]
           q4 == [r EXCEPT !.act[1] = a]
<1>1. TransiKept(r, q1) /\ TransiKept(r, q2) /\ TransiKept(r, q3) /\ TransiKept(r, q4)
  BY TransiRow, Zenon
<1>2. /\ [r EXCEPT !.act = a, !.desact = b] = [q1 EXCEPT !.desact = b]
      /\ [r EXCEPT !.start = a, !.desact[1] = b] = [q2 EXCEPT !.desact[1] = b]
      /\ [r EXCEPT !.end = a, !.act[1] = b] = [q3 EXCEPT !.act[1] = b]
      /\ [r EXCEPT !.act[1] = a, !.desact[1] = b] = [q4 EXCEPT !.desact[1] = b]
  BY Zenon
<1> HIDE DEF q1, q2, q3, q4
<1>3. /\ TransiKept(q1, [q1 EXCEPT !.desact = b])
      /\ TransiKept(q2, [q2 EXCEPT !.desact[1] = b])
      /\ TransiKept(q3, [q3 EXCEPT !.act[1] = b])
      /\ TransiKept(q4, [q4 EXCEPT !.desact[1] = b])
  BY <1>1, TransiRow, Zenon DEF TransiKept
<1>4. \A q, x : TransiKept(r, q) /\ TransiKept(q, x) => TransiKept(r, x)
  BY StaysTwice, Zenon DEF TransiKept
<1> QED
  BY <1>1, <1>2, <1>3, <1>4, Zenon

LEMMA CommentRow ==
    ASSUME NEW r, IsComment(r)
    PROVE  CommentKept(r, [r EXCEPT !.page = None])
BY DEF CommentKept, IsComment, Stays

LEMMA TablesFewer ==
    ASSUME NEW d, Tables(d), NEW e,
           e = [step |-> e.step, transi |-> e.transi, comment |-> e.comment],
           e.step = [s \in Steps |-> e.step[s]],
           \A s \in Steps : StepKept(d.step[s], e.step[s]),
           e.transi = [t \in Transis |-> e.transi[t]],
           \A t \in Transis : TransiKept(d.transi[t], e.transi[t]),
           e.comment = [k \in Comments |-> e.comment[k]],
           \A k \in Comments : CommentKept(d.comment[k], e.comment[k])
    PROVE  Tables(e) /\ Fewer(d, e)
<1>1. Tables(e)
  BY DEF Tables, StepsTable, TransisTable, CommentsTable, StepKept, TransiKept, CommentKept
<1>2. Fewer(d, e)
  BY DEF Fewer, Stays, StepKept, TransiKept, CommentKept
<1> QED
  BY <1>1, <1>2

LEMMA SameFewer ==
    ASSUME NEW d, Tables(d)
    PROVE  /\ \A s \in Steps : IsStep(d.step[s]) /\ StepKept(d.step[s], d.step[s])
           /\ \A t \in Transis : IsTransi(d.transi[t]) /\ TransiKept(d.transi[t], d.transi[t])
           /\ \A k \in Comments : IsComment(d.comment[k]) /\ CommentKept(d.comment[k], d.comment[k])
           /\ Fewer(d, d)
BY DEF Tables, StepsTable, TransisTable, CommentsTable, Stays, Fewer, StepKept, TransiKept, CommentKept

LEMMA OneStepFewer ==
    ASSUME NEW d, Tables(d), NEW s, NEW r,
           NEW e, e = [d EXCEPT !.step[s] = r],
           s \in Steps => StepKept(d.step[s], r)
    PROVE  Tables(e) /\ Fewer(d, e)
<1>1. /\ e = [step |-> e.step, transi |-> d.transi, comment |-> d.comment]
      /\ e.step = [d.step EXCEPT ![s] = r]
  BY DEF Tables
<1>2. /\ e.step = [x \in Steps |-> e.step[x]]
      /\ \A x \in Steps : e.step[x] = IF x = s THEN r ELSE d.step[x]
  BY <1>1 DEF Tables, StepsTable
<1>3. \A x \in Steps : StepKept(d.step[x], e.step[x])
  BY <1>2, SameFewer
<1>4. e.transi = d.transi /\ e.comment = d.comment
  BY <1>1
<1> QED
  BY <1>1, <1>2, <1>3, <1>4, SameFewer, TablesFewer DEF Tables, TransisTable, CommentsTable

LEMMA OneTransiFewer ==
    ASSUME NEW d, Tables(d), NEW t, NEW r,
           NEW e, e = [d EXCEPT !.transi[t] = r],
           t \in Transis => TransiKept(d.transi[t], r)
    PROVE  Tables(e) /\ Fewer(d, e)
<1>1. /\ e = [step |-> d.step, transi |-> e.transi, comment |-> d.comment]
      /\ e.transi = [d.transi EXCEPT ![t] = r]
  BY DEF Tables
<1>2. /\ e.transi = [x \in Transis |-> e.transi[x]]
      /\ \A x \in Transis : e.transi[x] = IF x = t THEN r ELSE d.transi[x]
  BY <1>1 DEF Tables, TransisTable
<1>3. \A x \in Transis : TransiKept(d.transi[x], e.transi[x])
  BY <1>2, SameFewer
<1>4. e.step = d.step /\ e.comment = d.comment
  BY <1>1
<1> QED
  BY <1>1, <1>2, <1>3, <1>4, SameFewer, TablesFewer DEF Tables, StepsTable, CommentsTable

LEMMA DestroyStepFewer ==
    ASSUME NEW d, Tables(d), NEW s,
           NEW e, e = DestroyStep(d, s)
    PROVE  Tables(e) /\ Fewer(d, e)
<1> DEFINE r == [d.step[s] EXCEPT !.page = None]
           Freed(l) == IF \E i \in DOMAIN l : l[i] = s THEN PackStepsList(Without(l, s)) ELSE l
           Freeing(x) == [x EXCEPT !.act = Freed(x.act), !.desact = Freed(x.desact)]
           Row(t) == IF d.transi[t].page # d.step[s].page THEN d.transi[t] ELSE Freeing(d.transi[t])
<1>1. e = [d EXCEPT !.step[s] = r, !.transi = [t \in Transis |-> Row(t)]]
  BY Zenon DEF DestroyStep
<1>2. \A t \in Transis : TransiKept(d.transi[t], Row(t))
  BY SameFewer, TransiRowTwice, Zenon
<1>3. s \in Steps => StepKept(d.step[s], r)
  BY SameFewer, StepRow, Zenon
<1> HIDE DEF Row, r
<1>4. /\ e = [step |-> e.step, transi |-> e.transi, comment |-> e.comment]
      /\ e.step = [d.step EXCEPT ![s] = r]
      /\ e.transi = [t \in Transis |-> Row(t)]
      /\ e.comment = d.comment
  BY <1>1 DEF Tables
<1>5. /\ e.step = [x \in Steps |-> e.step[x]]
      /\ \A x \in Steps : e.step[x] = IF x = s THEN r ELSE d.step[x]
  BY <1>4 DEF Tables, StepsTable
<1>6. \A x \in Steps : StepKept(d.step[x], e.step[x])
  BY <1>3, <1>5, SameFewer, Zenon
<1>7. /\ e.transi = [t \in Transis |-> e.transi[t]]
      /\ \A t \in Transis : TransiKept(d.transi[t], e.transi[t])
  BY <1>2, <1>4
<1>8. /\ e.comment = [k \in Comments |-> e.comment[k]]
      /\ \A k \in Comments : CommentKept(d.comment[k], e.comment[k])
  BY <1>4, SameFewer DEF Tables, CommentsTable
<1> QED
  BY <1>4, <1>5, <1>6, <1>7, <1>8, TablesFewer

LEMMA DestroyTransiFewer ==
    ASSUME NEW d, Tables(d), NEW t
    PROVE  Tables(DestroyTransi(d, t)) /\ Fewer(d, DestroyTransi(d, t))
<1> DEFINE r == [d.transi[t] EXCEPT !.page = None]
<1>1. DestroyTransi(d, t) = [d EXCEPT !.transi[t] = r]
  BY DEF DestroyTransi
<1>2. t \in Transis => TransiKept(d.transi[t], r)
  BY SameFewer, TransiRow, Zenon
<1> HIDE DEF r
<1> QED
  BY <1>1, <1>2, OneTransiFewer, Zenon

LEMMA DestroyCommentFewer ==
    ASSUME NEW d, Tables(d), NEW k,
           NEW e, e = DestroyComment(d, k)
    PROVE  Tables(e) /\ Fewer(d, e)
<1> DEFINE r == [d.comment[k] EXCEPT !.page = None]
<1>1. /\ e = [step |-> d.step, transi |-> d.transi, comment |-> e.comment]
      /\ e.comment = [d.comment EXCEPT ![k] = r]
  BY DEF Tables, DestroyComment
<1>2. k \in Comments => CommentKept(d.comment[k], r)
  BY SameFewer, CommentRow, Zenon
<1> HIDE DEF r
<1>3. /\ e.comment = [x \in Comments |-> e.comment[x]]
      /\ \A x \in Comments : e.comment[x] = IF x = k THEN r ELSE d.comment[x]
  BY <1>1 DEF Tables, CommentsTable
<1>4. \A x \in Comments : CommentKept(d.comment[x], e.comment[x])
  BY <1>2, <1>3, SameFewer, Zenon
<1>5. e.step = d.step /\ e.transi = d.transi
  BY <1>1
<1> QED
  BY <1>1, <1>3, <1>4, <1>5, SameFewer, TablesFewer DEF Tables, StepsTable, TransisTable

LEMMA DestroyItFewer ==
    ASSUME NEW d, Tables(d), NEW e
    PROVE  Tables(DestroyIt(d, e)) /\ Fewer(d, DestroyIt(d, e))
BY DestroyStepFewer, DestroyTransiFewer, DestroyCommentFewer, SameFewer, Zenon DEF DestroyIt

(* A list of a transition that changes.                                     *)
LEMMA ListFewer ==
    ASSUME NEW d, Tables(d), NEW t, NEW a, NEW x,
           \/ x = [d EXCEPT !.transi[t].act = a]
           \/ x = [d EXCEPT !.transi[t].desact = a]
           \/ x = [d EXCEPT !.transi[t].act[1] = a]
           \/ x = [d EXCEPT !.transi[t].desact[1] = a]
    PROVE  Tables(x) /\ Fewer(d, x)
<1>1. \A r : x = [d EXCEPT !.transi[t] = r] /\ (t \in Transis => TransiKept(d.transi[t], r))
            => Tables(x) /\ Fewer(d, x)
  BY OneTransiFewer, Zenon
<1>2. /\ t \in Transis => TransiKept(d.transi[t], [d.transi[t] EXCEPT !.act = a])
      /\ t \in Transis => TransiKept(d.transi[t], [d.transi[t] EXCEPT !.desact = a])
      /\ t \in Transis => TransiKept(d.transi[t], [d.transi[t] EXCEPT !.act[1] = a])
      /\ t \in Transis => TransiKept(d.transi[t], [d.transi[t] EXCEPT !.desact[1] = a])
  BY SameFewer, TransiRow, Zenon
<1>3. \/ x = [d EXCEPT !.transi[t] = [d.transi[t] EXCEPT !.act = a]]
      \/ x = [d EXCEPT !.transi[t] = [d.transi[t] EXCEPT !.desact = a]]
      \/ x = [d EXCEPT !.transi[t] = [d.transi[t] EXCEPT !.act[1] = a]]
      \/ x = [d EXCEPT !.transi[t] = [d.transi[t] EXCEPT !.desact[1] = a]]
  BY Zenon
<1> QED
  BY <1>1, <1>2, <1>3, Zenon

LEMMA ListsFewer ==
    ASSUME NEW d, Tables(d), NEW t, NEW a, NEW b,
           NEW x, x = [d EXCEPT !.transi[t].act = a, !.transi[t].desact = b]
    PROVE  Tables(x) /\ Fewer(d, x)
<1> DEFINE r == [d.transi[t] EXCEPT !.act = a, !.desact = b]
<1>1. x = [d EXCEPT !.transi[t] = r]
  OBVIOUS
<1>2. t \in Transis => TransiKept(d.transi[t], r)
  BY SameFewer, TransiRowTwice, Zenon
<1> HIDE DEF r
<1> QED
  BY <1>1, <1>2, OneTransiFewer, Zenon

LEMMA LinkFewer ==
    ASSUME NEW d, Tables(d), NEW t, NEW top, NEW s,
           NEW m, m = DoLinkTransitionAndStep(d, t, top, s)
    PROVE  Tables(m) /\ Fewer(d, m)
<1>1. PICK a : m = [d EXCEPT !.transi[t].desact[1] = a] \/ m = [d EXCEPT !.transi[t].act[1] = a]
  BY Zenon DEF DoLinkTransitionAndStep
<1>2. CASE m = [d EXCEPT !.transi[t].desact[1] = a]
  BY <1>2, ListFewer
<1>3. CASE m = [d EXCEPT !.transi[t].act[1] = a]
  BY <1>3, ListFewer
<1> QED
  BY <1>1, <1>2, <1>3

LEMMA ManyStepsFewer ==
    ASSUME NEW d, Tables(d), NEW p, NEW start, NEW e, NEW f, NEW y,
           NEW m, m = ManySteps(d, p, start, e, f, y)
    PROVE  Tables(m) /\ Fewer(d, m)
<1>1. PICK t, l : \/ m = d
                  \/ m = [d EXCEPT !.transi[t].act = l]
                  \/ m = [d EXCEPT !.transi[t].desact = l]
  BY Zenon DEF ManySteps
<1>2. CASE m = d
  BY <1>2, SameFewer
<1>3. CASE m = [d EXCEPT !.transi[t].act = l]
  BY <1>3, ListFewer
<1>4. CASE m = [d EXCEPT !.transi[t].desact = l]
  BY <1>4, ListFewer
<1> QED
  BY <1>1, <1>2, <1>3, <1>4

LEMMA ManyTransisFewer ==
    ASSUME NEW d, Tables(d), NEW p, NEW start, NEW e, NEW f,
           NEW m, m = ManyTransis(d, p, start, e, f)
    PROVE  Tables(m) /\ Fewer(d, m)
<1> DEFINE found == OnLine(LAMBDA c : SearchTransi(d, p, c), Span(d, e, f), AtOf(d, e)[2])
           Heads(l) == [i \in DOMAIN found |-> IF found[i] = None THEN None ELSE l[found[i]][1]]
           Given(l, old) == IF LastFilled(Heads(l)) = None THEN old ELSE LastFilled(Heads(l))
           Link(r, others) ==
             IF start
             THEN [r EXCEPT !.start = others,
                            !.desact[1] = Given([t \in Transis |-> d.transi[t].desact], @)]
             ELSE [r EXCEPT !.end = others,
                            !.act[1] = Given([t \in Transis |-> d.transi[t].act], @)]
           g == [t \in Transis |->
                   IF \E i \in DOMAIN found : found[i] = t
                   THEN Link(d.transi[t], PackStepsList(Without(found, t))) ELSE d.transi[t]]
<1>1. m = d \/ m = [d EXCEPT !.transi = g]
  BY Zenon DEF ManyTransis
<1>2. \A t \in Transis : TransiKept(d.transi[t], g[t])
  <2>1. \A t \in Transis : \A a, b :
          /\ TransiKept(d.transi[t], [d.transi[t] EXCEPT !.start = a, !.desact[1] = b])
          /\ TransiKept(d.transi[t], [d.transi[t] EXCEPT !.end = a, !.act[1] = b])
          /\ TransiKept(d.transi[t], d.transi[t])
    BY SameFewer, TransiRowTwice, Zenon
  <2>2. \A t \in Transis : \A o : TransiKept(d.transi[t], Link(d.transi[t], o))
    <3> HIDE DEF found, Given
    <3> QED
      BY <2>1, Zenon
  <2>3. \A t \in Transis : g[t] = d.transi[t] \/ \E o : g[t] = Link(d.transi[t], o)
    <3> HIDE DEF Link, found
    <3> QED
      OBVIOUS
  <2> HIDE DEF Link, g
  <2> QED
    BY <2>1, <2>2, <2>3, Zenon
<1>g. g = [t \in Transis |-> g[t]]
  <2> HIDE DEF Link, found
  <2> QED
    OBVIOUS
<1> HIDE DEF g
<1>3. CASE m = d
  BY <1>3, SameFewer, Zenon
<1>4. CASE m = [d EXCEPT !.transi = g]
  <2>1. /\ m = [step |-> m.step, transi |-> m.transi, comment |-> m.comment]
        /\ m.step = d.step /\ m.comment = d.comment
        /\ m.transi = g
    BY <1>4 DEF Tables
  <2> QED
    BY <1>2, <1>g, <2>1, SameFewer, TablesFewer DEF Tables, StepsTable, CommentsTable
<1> QED
  BY <1>1, <1>3, <1>4

LEMMA StepPropertiesFewer ==
    ASSUME NEW d, Tables(d), NEW s, NEW n, NEW init,
           NEW m, m = [d EXCEPT !.step[s].num = n, !.step[s].init = init]
    PROVE  Tables(m) /\ Fewer(d, m)
<1> DEFINE r == [d.step[s] EXCEPT !.num = n, !.init = init]
<1>1. m = [d EXCEPT !.step[s] = r]
  OBVIOUS
<1>2. s \in Steps => StepKept(d.step[s], r)
  BY SameFewer, StepRow, Zenon
<1> HIDE DEF r
<1> QED
  BY <1>1, <1>2, OneStepFewer, Zenon

-----------------------------------------------------------------------------
(* ... or adds one element where there was nothing.                         *)

(* Everything but the new element is where it was.                          *)
SameSteps(d, e, S) ==
    \A s \in S : e.step[s].page = d.step[s].page /\ e.step[s].at = d.step[s].at
SameTransis(d, e, T) ==
    \A t \in T : e.transi[t].page = d.transi[t].page /\ e.transi[t].at = d.transi[t].at
SameComments(d, e, K) ==
    \A k \in K : e.comment[k].page = d.comment[k].page /\ e.comment[k].at = d.comment[k].at

LEMMA OneMoreStep ==
    ASSUME NEW d, WellDrawn(d), NEW e, Tables(e), NEW s \in Steps, NEW p, NEW c,
           SameSteps(d, e, Steps \ {s}), SameTransis(d, e, Transis), SameComments(d, e, Comments),
           e.step[s].page = p, e.step[s].at = c, p # None, Odd(c), Vacant(d, p, c)
    PROVE  WellDrawn(e)
<1>1. OnTheirLines(e)
  BY DEF WellDrawn, OnTheirLines, SameSteps, SameTransis
<1>2. ASSUME NEW r \in Steps, NEW q \in Steps, e.step[r].page # None, r # q
      PROVE  << e.step[r].page, e.step[r].at >> # << e.step[q].page, e.step[q].at >>
  <2>1. CASE r = s
    BY <1>2, <2>1 DEF SameSteps, Vacant
  <2>2. CASE q = s
    BY <1>2, <2>2 DEF SameSteps, Vacant
  <2>3. CASE r # s /\ q # s
    BY <1>2, <2>3 DEF SameSteps, WellDrawn, Alone
  <2> QED
    BY <2>1, <2>2, <2>3
<1>3. ASSUME NEW t \in Transis, NEW u \in Transis, e.transi[t].page # None, t # u
      PROVE  << e.transi[t].page, e.transi[t].at >> # << e.transi[u].page, e.transi[u].at >>
  BY <1>3 DEF SameTransis, WellDrawn, Alone
<1>4. \A k \in Comments : \A x : Covers(e.comment[k], x) <=> Covers(d.comment[k], x)
  BY DEF SameComments, Covers
<1>5. ASSUME NEW k \in Comments, e.comment[k].page # None,
             NEW r \in Steps, e.step[r].page = e.comment[k].page
      PROVE  ~Covers(e.comment[k], e.step[r].at)
  <2>1. CASE r = s
    BY <1>4, <1>5, <2>1 DEF SameComments, Vacant
  <2>2. CASE r # s
    BY <1>4, <1>5, <2>2 DEF SameComments, SameSteps, WellDrawn, Alone
  <2> QED
    BY <2>1, <2>2
<1>6. ASSUME NEW k \in Comments, e.comment[k].page # None,
             NEW t \in Transis, e.transi[t].page = e.comment[k].page
      PROVE  ~Covers(e.comment[k], e.transi[t].at)
  BY <1>4, <1>6 DEF SameComments, SameTransis, WellDrawn, Alone
<1>7. ASSUME NEW k \in Comments, e.comment[k].page # None,
             NEW j \in Comments \ {k}, e.comment[j].page = e.comment[k].page
      PROVE  ~Covers(e.comment[k], e.comment[j].at)
  BY <1>4, <1>7 DEF SameComments, WellDrawn, Alone
<1> QED
  BY <1>1, <1>2, <1>3, <1>5, <1>6, <1>7 DEF WellDrawn, Alone

LEMMA OneMoreTransi ==
    ASSUME NEW d, WellDrawn(d), NEW e, Tables(e), NEW t \in Transis, NEW p, NEW c,
           SameSteps(d, e, Steps), SameTransis(d, e, Transis \ {t}), SameComments(d, e, Comments),
           e.transi[t].page = p, e.transi[t].at = c, p # None, ~Odd(c), Vacant(d, p, c)
    PROVE  WellDrawn(e)
<1>1. OnTheirLines(e)
  BY DEF WellDrawn, OnTheirLines, SameSteps, SameTransis
<1>2. ASSUME NEW s \in Steps, NEW r \in Steps, e.step[s].page # None, s # r
      PROVE  << e.step[s].page, e.step[s].at >> # << e.step[r].page, e.step[r].at >>
  BY <1>2 DEF SameSteps, WellDrawn, Alone
<1>3. ASSUME NEW u \in Transis, NEW v \in Transis, e.transi[u].page # None, u # v
      PROVE  << e.transi[u].page, e.transi[u].at >> # << e.transi[v].page, e.transi[v].at >>
  <2>1. CASE u = t
    BY <1>3, <2>1 DEF SameTransis, Vacant
  <2>2. CASE v = t
    BY <1>3, <2>2 DEF SameTransis, Vacant
  <2>3. CASE u # t /\ v # t
    BY <1>3, <2>3 DEF SameTransis, WellDrawn, Alone
  <2> QED
    BY <2>1, <2>2, <2>3
<1>4. \A k \in Comments : \A x : Covers(e.comment[k], x) <=> Covers(d.comment[k], x)
  BY DEF SameComments, Covers
<1>5. ASSUME NEW k \in Comments, e.comment[k].page # None,
             NEW s \in Steps, e.step[s].page = e.comment[k].page
      PROVE  ~Covers(e.comment[k], e.step[s].at)
  BY <1>4, <1>5 DEF SameComments, SameSteps, WellDrawn, Alone
<1>6. ASSUME NEW k \in Comments, e.comment[k].page # None,
             NEW u \in Transis, e.transi[u].page = e.comment[k].page
      PROVE  ~Covers(e.comment[k], e.transi[u].at)
  <2>1. CASE u = t
    BY <1>4, <1>6, <2>1 DEF SameComments, Vacant
  <2>2. CASE u # t
    BY <1>4, <1>6, <2>2 DEF SameComments, SameTransis, WellDrawn, Alone
  <2> QED
    BY <2>1, <2>2
<1>7. ASSUME NEW k \in Comments, e.comment[k].page # None,
             NEW j \in Comments \ {k}, e.comment[j].page = e.comment[k].page
      PROVE  ~Covers(e.comment[k], e.comment[j].at)
  BY <1>4, <1>7 DEF SameComments, WellDrawn, Alone
<1> QED
  BY <1>1, <1>2, <1>3, <1>5, <1>6, <1>7 DEF WellDrawn, Alone

LEMMA OneMoreComment ==
    ASSUME NEW d, WellDrawn(d), NEW e, Tables(e), NEW k \in Comments, NEW p, NEW c \in Cells,
           SameSteps(d, e, Steps), SameTransis(d, e, Transis), SameComments(d, e, Comments \ {k}),
           e.comment[k].page = p, e.comment[k].at = c, p # None,
           \A i \in 0 .. CommentWidth - 1 : Vacant(d, p, << c[1] + i, c[2] >>)
    PROVE  WellDrawn(e)
<1> USE SeqEditorAssumption
<1>1. OnTheirLines(e)
  BY DEF WellDrawn, OnTheirLines, SameSteps, SameTransis
<1>2. ASSUME NEW s \in Steps, NEW r \in Steps, e.step[s].page # None, s # r
      PROVE  << e.step[s].page, e.step[s].at >> # << e.step[r].page, e.step[r].at >>
  BY <1>2 DEF SameSteps, WellDrawn, Alone
<1>3. ASSUME NEW t \in Transis, NEW u \in Transis, e.transi[t].page # None, t # u
      PROVE  << e.transi[t].page, e.transi[t].at >> # << e.transi[u].page, e.transi[u].at >>
  BY <1>3 DEF SameTransis, WellDrawn, Alone
<1>4. \A j \in Comments \ {k} : \A x : Covers(e.comment[j], x) <=> Covers(d.comment[j], x)
  BY DEF SameComments, Covers
<1>5. ASSUME NEW x \in Cells, Covers(e.comment[k], x)
      PROVE  Vacant(d, p, x)
  <2>1. x[1] \in Int /\ x[2] \in Int /\ x = << x[1], x[2] >> /\ c[1] \in Int
    BY DEF Cells
  <2>2. x[2] = c[2] /\ x[1] \in c[1] .. c[1] + CommentWidth - 1
    BY <1>5 DEF Covers
  <2>3. x[1] - c[1] \in 0 .. CommentWidth - 1 /\ c[1] + (x[1] - c[1]) = x[1]
    BY <2>1, <2>2
  <2>4. Vacant(d, p, << c[1] + (x[1] - c[1]), c[2] >>)
    BY <2>3
  <2> QED
    BY <2>1, <2>2, <2>3, <2>4
<1>6. Vacant(d, p, c)
  <2>1. Covers(e.comment[k], c)
    BY DEF Covers, Cells
  <2> QED
    BY <1>5, <2>1
<1>7. /\ \A s \in Steps : e.step[s].at \in Cells /\ e.step[s].at = d.step[s].at
      /\ \A t \in Transis : e.transi[t].at \in Cells /\ e.transi[t].at = d.transi[t].at
      /\ \A j \in Comments : e.comment[j].at \in Cells
  BY DEF Tables, StepsTable, TransisTable, CommentsTable, IsStep, IsTransi, IsComment,
         SameSteps, SameTransis
<1>8. ASSUME NEW j \in Comments, e.comment[j].page # None,
             NEW s \in Steps, e.step[s].page = e.comment[j].page
      PROVE  ~Covers(e.comment[j], e.step[s].at)
  <2>1. CASE j = k
    BY <1>5, <1>7, <1>8, <2>1 DEF SameSteps, Vacant
  <2>2. CASE j # k
    BY <1>4, <1>8, <2>2 DEF SameComments, SameSteps, WellDrawn, Alone
  <2> QED
    BY <2>1, <2>2
<1>9. ASSUME NEW j \in Comments, e.comment[j].page # None,
             NEW t \in Transis, e.transi[t].page = e.comment[j].page
      PROVE  ~Covers(e.comment[j], e.transi[t].at)
  <2>1. CASE j = k
    BY <1>5, <1>7, <1>9, <2>1 DEF SameTransis, Vacant
  <2>2. CASE j # k
    BY <1>4, <1>9, <2>2 DEF SameComments, SameTransis, WellDrawn, Alone
  <2> QED
    BY <2>1, <2>2
<1>10. ASSUME NEW j \in Comments, e.comment[j].page # None,
              NEW i \in Comments \ {j}, e.comment[i].page = e.comment[j].page
       PROVE  ~Covers(e.comment[j], e.comment[i].at)
  <2>1. CASE j = k
    <3>1. d.comment[i].page = p /\ d.comment[i].at = e.comment[i].at
      BY <1>10, <2>1 DEF SameComments
    <3>2. Covers(d.comment[i], d.comment[i].at)
      BY <1>7, <3>1 DEF Covers, Cells
    <3> QED
      BY <1>5, <1>7, <3>1, <3>2, <2>1 DEF Vacant
  <2>2. CASE i = k
    BY <1>4, <1>6, <1>10, <2>2 DEF SameComments, Vacant
  <2>3. CASE j # k /\ i # k
    BY <1>4, <1>10, <2>3 DEF SameComments, WellDrawn, Alone
  <2> QED
    BY <2>1, <2>2, <2>3
<1> QED
  BY <1>1, <1>2, <1>3, <1>8, <1>9, <1>10 DEF WellDrawn, Alone

LEMMA CreateStepWellDrawn ==
    ASSUME NEW d, WellDrawn(d), FreeSteps(d) # {}, NEW p, p # None,
           NEW c \in Cells, Odd(c), Vacant(d, p, c), NEW init,
           NEW m, m = CreateStep(d, p, c, init)
    PROVE  /\ WellDrawn(m)
           /\ \A x : x # c /\ Vacant(d, p, x) => Vacant(m, p, x)
<1> DEFINE s == Min(FreeSteps(d))
           r == [page |-> p, at |-> c, num |-> d.step[s].num, init |-> init]
           e == [d EXCEPT !.step[s] = r]
           above == SearchTransi(d, p, Beside(c, -1))
           below == SearchTransi(d, p, Beside(c, 1))
           Row(t) == [e.transi[t] EXCEPT !.act[1] = IF t = above THEN s ELSE @,
                                         !.desact[1] = IF t = below THEN s ELSE @]
           n == AutoNumber(e, p, c)
<1>1. s \in Steps
  <2>1. FreeSteps(d) \in SUBSET Nat /\ FreeSteps(d) \subseteq Steps
    BY DEF FreeSteps, Steps
  <2> QED
    BY <2>1, FirstIsThere
<1>2. m = [e EXCEPT !.step[s].num = n, !.transi = [t \in Transis |-> Row(t)]]
  BY Zenon DEF CreateStep
<1>3. Tables(d)
  BY DEF WellDrawn
<1>4. e.transi = d.transi /\ e.comment = d.comment /\ e.step = [d.step EXCEPT ![s] = r]
      /\ e = [step |-> e.step, transi |-> e.transi, comment |-> e.comment]
  BY <1>3 DEF Tables
<1>5. \A t \in Transis : TransiKept(d.transi[t], Row(t))
                        /\ Row(t).page = d.transi[t].page
  <2> TAKE t \in Transis
  <2>1. \E a, b : Row(t) = [d.transi[t] EXCEPT !.act[1] = a, !.desact[1] = b]
    BY <1>4, Zenon
  <2>2. IsTransi(d.transi[t])
    BY <1>3, SameFewer
  <2> HIDE DEF Row
  <2>3. PICK a, b : Row(t) = [d.transi[t] EXCEPT !.act[1] = a, !.desact[1] = b]
    BY <2>1
  <2>4. Row(t).page = d.transi[t].page
    BY <2>2, <2>3 DEF IsTransi
  <2>5. TransiKept(d.transi[t], [d.transi[t] EXCEPT !.act[1] = a, !.desact[1] = b])
    BY <2>2, TransiRowTwice, Zenon
  <2>6. TransiKept(d.transi[t], Row(t))
    BY <2>3, <2>5, Zenon
  <2> QED
    BY <2>4, <2>6
<1> HIDE DEF Row, n
<1>6. IsStep(r) /\ IsStep([r EXCEPT !.num = n])
      /\ [r EXCEPT !.num = n].page = p /\ [r EXCEPT !.num = n].at = c
  BY DEF IsStep
<1>7. e.step[s] = r
  BY <1>1, <1>3, <1>4 DEF Tables, StepsTable
<1> HIDE DEF e, r
<1>8. /\ m = [step |-> m.step, transi |-> m.transi, comment |-> m.comment]
      /\ m.step = [e.step EXCEPT ![s] = [r EXCEPT !.num = n]]
      /\ m.transi = [t \in Transis |-> Row(t)]
      /\ m.comment = d.comment
  BY <1>2, <1>4, <1>7
<1>9. /\ m.step = [x \in Steps |-> m.step[x]]
      /\ \A x \in Steps : m.step[x] = IF x = s THEN [r EXCEPT !.num = n] ELSE d.step[x]
  BY <1>3, <1>4, <1>8 DEF Tables, StepsTable
<1>10. Tables(m)
  <2>1. StepsTable(m.step)
    BY <1>3, <1>6, <1>9 DEF Tables, StepsTable
  <2>2. TransisTable(m.transi)
    BY <1>5, <1>8 DEF TransisTable, TransiKept
  <2>3. CommentsTable(m.comment)
    BY <1>3, <1>8 DEF Tables
  <2> QED
    BY <1>8, <2>1, <2>2, <2>3 DEF Tables
<1>11. /\ SameSteps(d, m, Steps \ {s})
       /\ SameTransis(d, m, Transis)
       /\ SameComments(d, m, Comments)
       /\ m.step[s].page = p /\ m.step[s].at = c
  BY <1>1, <1>5, <1>6, <1>8, <1>9 DEF SameSteps, SameTransis, SameComments, TransiKept, Stays
<1>12. WellDrawn(m)
  BY <1>1, <1>10, <1>11, OneMoreStep
<1>13. ASSUME NEW x, x # c, Vacant(d, p, x) PROVE Vacant(m, p, x)
  <2>1. \A k \in Comments : Covers(m.comment[k], x) <=> Covers(d.comment[k], x)
    BY <1>8
  <2> QED
    BY <1>11, <1>13, <2>1 DEF Vacant, SameSteps, SameTransis, SameComments
<1> QED
  BY <1>12, <1>13

LEMMA CreateTransiWellDrawn ==
    ASSUME NEW d, WellDrawn(d), FreeTransis(d) # {}, NEW p, p # None,
           NEW c \in Cells, ~Odd(c), Vacant(d, p, c),
           NEW m, m = CreateTransi(d, p, c)
    PROVE  WellDrawn(m)
<1> DEFINE t == Min(FreeTransis(d))
           r == [page |-> p, at |-> c, start |-> NoList, end |-> NoList,
                 desact |-> [NoList EXCEPT ![1] = SearchStep(d, p, Beside(c, -1))],
                 act |-> [NoList EXCEPT ![1] = SearchStep(d, p, Beside(c, 1))]]
<1>1. t \in Transis
  <2>1. FreeTransis(d) \in SUBSET Nat /\ FreeTransis(d) \subseteq Transis
    BY DEF FreeTransis, Transis
  <2> QED
    BY <2>1, FirstIsThere
<1>2. m = [d EXCEPT !.transi[t] = r]
  BY Zenon DEF CreateTransi
<1>3. IsTransi(r) /\ r.page = p /\ r.at = c
  BY DEF IsTransi
<1> HIDE DEF r
<1>4. /\ m = [step |-> d.step, transi |-> m.transi, comment |-> d.comment]
      /\ m.transi = [d.transi EXCEPT ![t] = r]
  BY <1>2 DEF WellDrawn, Tables
<1>5. /\ m.transi = [x \in Transis |-> m.transi[x]]
      /\ \A x \in Transis : m.transi[x] = IF x = t THEN r ELSE d.transi[x]
  BY <1>1, <1>4 DEF WellDrawn, Tables, TransisTable
<1>6. m.step = d.step /\ m.comment = d.comment
  BY <1>4
<1>7. Tables(m)
  <2>1. TransisTable(m.transi)
    BY <1>3, <1>5 DEF WellDrawn, Tables, TransisTable
  <2> QED
    BY <1>4, <1>6, <2>1 DEF WellDrawn, Tables
<1>8. /\ SameSteps(d, m, Steps) /\ SameTransis(d, m, Transis \ {t}) /\ SameComments(d, m, Comments)
      /\ m.transi[t].page = p /\ m.transi[t].at = c
  BY <1>1, <1>3, <1>5, <1>6 DEF SameSteps, SameTransis, SameComments
<1> QED
  BY <1>1, <1>7, <1>8, OneMoreTransi

LEMMA CreateCommentWellDrawn ==
    ASSUME NEW d, WellDrawn(d), FreeComments(d) # {}, NEW p, p # None, NEW c \in Cells,
           \A i \in 0 .. CommentWidth - 1 : Vacant(d, p, << c[1] + i, c[2] >>),
           NEW m, m = CreateComment(d, p, c)
    PROVE  WellDrawn(m)
<1> DEFINE k == Min(FreeComments(d))
           r == [page |-> p, at |-> c]
<1>1. k \in Comments
  <2>1. FreeComments(d) \in SUBSET Nat /\ FreeComments(d) \subseteq Comments
    BY DEF FreeComments, Comments
  <2> QED
    BY <2>1, FirstIsThere
<1>2. m = [d EXCEPT !.comment[k] = r]
  BY Zenon DEF CreateComment
<1>3. IsComment(r) /\ r.page = p /\ r.at = c
  BY DEF IsComment
<1> HIDE DEF r
<1>4. /\ m = [step |-> d.step, transi |-> d.transi, comment |-> m.comment]
      /\ m.comment = [d.comment EXCEPT ![k] = r]
  BY <1>2 DEF WellDrawn, Tables
<1>5. /\ m.comment = [x \in Comments |-> m.comment[x]]
      /\ \A x \in Comments : m.comment[x] = IF x = k THEN r ELSE d.comment[x]
  BY <1>1, <1>4 DEF WellDrawn, Tables, CommentsTable
<1>6. m.step = d.step /\ m.transi = d.transi
  BY <1>4
<1>7. Tables(m)
  <2>1. CommentsTable(m.comment)
    BY <1>3, <1>5 DEF WellDrawn, Tables, CommentsTable
  <2> QED
    BY <1>4, <1>6, <2>1 DEF WellDrawn, Tables
<1>8. /\ SameSteps(d, m, Steps) /\ SameTransis(d, m, Transis) /\ SameComments(d, m, Comments \ {k})
      /\ m.comment[k].page = p /\ m.comment[k].at = c
  BY <1>1, <1>3, <1>5, <1>6 DEF SameSteps, SameTransis, SameComments
<1> QED
  BY <1>1, <1>7, <1>8, OneMoreComment

-----------------------------------------------------------------------------
(* The clicks on the page under edit.                                       *)

LEMMA StepClickedWellDrawn ==
    ASSUME NEW d, WellDrawn(d), editing # None, NEW e, NEW c \in Cells, NEW init,
           e = Nothing => Vacant(d, editing, c),
           NEW m, m = StepClicked(d, e, c, init)
    PROVE  /\ WellDrawn(m)
           /\ e = Nothing => \A x : x # c /\ Vacant(d, editing, x) => Vacant(m, editing, x)
<1>1. CASE m = d
  BY <1>1
<1>2. CASE e.type = "step" /\ m = DestroyStep(d, e.off)
  <2>1. e # Nothing
    BY <1>2 DEF Nothing, NoFirst
  <2>2. Tables(m) /\ Fewer(d, m)
    BY <1>2, DestroyStepFewer DEF WellDrawn
  <2> QED
    BY <2>1, <2>2, FewerIsWellDrawn
<1>3. CASE Odd(c) /\ e = Nothing /\ FreeSteps(d) # {} /\ m = CreateStep(d, editing, c, init)
  BY <1>3, CreateStepWellDrawn
<1>4. \/ m = d
      \/ e.type = "step" /\ m = DestroyStep(d, e.off)
      \/ Odd(c) /\ e = Nothing /\ FreeSteps(d) # {} /\ m = CreateStep(d, editing, c, init)
  BY Zenon DEF StepClicked
<1> QED
  BY <1>1, <1>2, <1>3, <1>4

LEMMA TransiClickedWellDrawn ==
    ASSUME NEW d, WellDrawn(d), editing # None, NEW e, NEW c \in Cells,
           e = Nothing => Vacant(d, editing, c),
           NEW m, m = TransiClicked(d, e, c)
    PROVE  WellDrawn(m)
<1>1. CASE m = d
  BY <1>1
<1>2. CASE m = DestroyTransi(d, e.off)
  <2>1. Tables(m) /\ Fewer(d, m)
    BY <1>2, DestroyTransiFewer DEF WellDrawn
  <2> QED
    BY <2>1, FewerIsWellDrawn
<1>3. CASE ~Odd(c) /\ e = Nothing /\ FreeTransis(d) # {} /\ m = CreateTransi(d, editing, c)
  BY <1>3, CreateTransiWellDrawn
<1>4. \/ m = d
      \/ m = DestroyTransi(d, e.off)
      \/ ~Odd(c) /\ e = Nothing /\ FreeTransis(d) # {} /\ m = CreateTransi(d, editing, c)
  BY Zenon DEF TransiClicked
<1> QED
  BY <1>1, <1>2, <1>3, <1>4

LEMMA PlacesAreCells ==
    \A c \in Places : /\ c \in Cells /\ Beside(c, 1) \in Cells /\ Beside(c, 1) # c
BY SeqEditorAssumption DEF Places, Cells, Beside

LEMMA SearchVacant ==
    ASSUME NEW d, WellDrawn(d), editing # None, NEW c
    PROVE  SearchIt(d, editing, c) = Nothing => Vacant(d, editing, c)
BY NothingIsVacant DEF WellDrawn

LEMMA PutCommentWellDrawn ==
    ASSUME WellDrawn(draw), editing # None, NEW c \in Places, PutComment(c)
    PROVE  WellDrawn(draw')
<1> DEFINE e == SearchIt(draw, editing, c)
           at == IF e.type = "comment" THEN draw.comment[e.off].at ELSE c
<1>1. draw' = IF RoomForComment(at) THEN CreateComment(draw, editing, at) ELSE draw
  BY Zenon DEF PutComment
<1>2. at \in Cells
  <2>1. CASE e.type = "comment"
    <3>1. e.off = SearchComment(draw, editing, c) /\ e.off # None
      BY <2>1 DEF SearchIt, Nothing, NoFirst
    <3>2. e.off \in Comments
      BY <3>1, SearchesSay
    <3> HIDE DEF e
    <3> QED
      BY <2>1, <3>2 DEF WellDrawn, Tables, CommentsTable, IsComment
  <2>2. CASE e.type # "comment"
    BY <2>2, PlacesAreCells
  <2> QED
    BY <2>1, <2>2
<1> HIDE DEF at
<1>3. CASE RoomForComment(at)
  <2>1. \A i \in 0 .. CommentWidth - 1 : Vacant(draw, editing, << at[1] + i, at[2] >>)
    BY <1>3, SearchVacant DEF RoomForComment
  <2>2. FreeComments(draw) # {}
    BY <1>3 DEF RoomForComment
  <2> QED
    BY <1>1, <1>2, <1>3, <2>1, <2>2, CreateCommentWellDrawn
<1> QED
  BY <1>1, <1>3

LEMMA TwoClicksWellDrawn ==
    ASSUME WellDrawn(draw), NEW tool, NEW c, NEW top, TwoClicks(tool, c, top)
    PROVE  WellDrawn(draw')
<1> DEFINE e == SearchIt(draw, editing, c)
<1>1. Tables(draw) /\ Fewer(draw, draw)
  BY SameFewer DEF WellDrawn
<1>2. \A m \in Linked(first.elem, e, top) : Tables(m) /\ Fewer(draw, m)
  <2> TAKE m \in Linked(first.elem, e, top)
  <2> HIDE DEF e
  <2>1. \/ m = draw
        \/ m = DoLinkTransitionAndStep(draw, first.elem.off, first.top, e.off)
        \/ m = DoLinkTransitionAndStep(draw, e.off, top, first.elem.off)
    BY Zenon DEF Linked
  <2>2. CASE m = DoLinkTransitionAndStep(draw, first.elem.off, first.top, e.off)
    BY <1>1, <2>2, LinkFewer
  <2>3. CASE m = DoLinkTransitionAndStep(draw, e.off, top, first.elem.off)
    BY <1>1, <2>3, LinkFewer
  <2> QED
    BY <1>1, <2>1, <2>2, <2>3
<1>3. \A m \in ManyLinked(tool, first.elem, e) : Tables(m) /\ Fewer(draw, m)
  <2> TAKE m \in ManyLinked(tool, first.elem, e)
  <2> HIDE DEF e
  <2>1. \/ m = draw
        \/ \E y : m = ManySteps(draw, editing, tool = "start steps", first.elem, e, y)
        \/ m = ManyTransis(draw, editing, tool = "start transis", first.elem, e)
    BY Zenon DEF ManyLinked
  <2>2. ASSUME NEW y, m = ManySteps(draw, editing, tool = "start steps", first.elem, e, y)
        PROVE  Tables(m) /\ Fewer(draw, m)
    BY <1>1, <2>2, ManyStepsFewer
  <2>3. CASE m = ManyTransis(draw, editing, tool = "start transis", first.elem, e)
    BY <1>1, <2>3, ManyTransisFewer
  <2> QED
    BY <1>1, <2>1, <2>2, <2>3
<1>4. draw' = draw \/ draw' \in Linked(first.elem, e, top) \/ draw' \in ManyLinked(tool, first.elem, e)
  BY Zenon DEF TwoClicks
<1> HIDE DEF e
<1>5. Tables(draw') /\ Fewer(draw, draw')
  BY <1>1, <1>2, <1>3, <1>4
<1> QED
  BY <1>5, FewerIsWellDrawn

LEMMA InitPageWellDrawn ==
    ASSUME WellDrawn(live), NEW p, InitSeqElementsOfPage(p)
    PROVE  WellDrawn(live') /\ draw' = live'
<1> DEFINE Step(s) == LET r == live.step[s] IN IF r.page = p THEN [r EXCEPT !.page = None] ELSE r
           Transi(t) == LET r == live.transi[t] IN
                          IF r.page = p THEN [FreeTransi EXCEPT !.at = r.at] ELSE r
           Comment(k) == LET r == live.comment[k] IN
                           IF r.page = p THEN [r EXCEPT !.page = None] ELSE r
<1>1. live' = [live EXCEPT !.step = [s \in Steps |-> Step(s)],
                           !.transi = [t \in Transis |-> Transi(t)],
                           !.comment = [k \in Comments |-> Comment(k)]]
  BY Zenon DEF InitSeqElementsOfPage
<1>2. Tables(live)
  BY DEF WellDrawn
<1>3. \A s \in Steps : StepKept(live.step[s], Step(s))
  BY <1>2, SameFewer, StepRow, Zenon
<1>4. \A k \in Comments : CommentKept(live.comment[k], Comment(k))
  BY <1>2, SameFewer, CommentRow, Zenon
<1>5. \A t \in Transis : TransiKept(live.transi[t], Transi(t))
  <2> TAKE t \in Transis
  <2> DEFINE q == [FreeTransi EXCEPT !.at = live.transi[t].at]
  <2>1. TransiKept(live.transi[t], live.transi[t]) /\ live.transi[t].at \in Cells
    BY <1>2, SameFewer DEF IsTransi
  <2>2. TransiKept(live.transi[t], q)
    BY <2>1 DEF FreeTransi, TransiKept, IsTransi, Stays
  <2> QED
    BY <2>1, <2>2, Zenon
<1> HIDE DEF Step, Transi, Comment
<1>6. live' = [step |-> [s \in Steps |-> Step(s)], transi |-> [t \in Transis |-> Transi(t)],
               comment |-> [k \in Comments |-> Comment(k)]]
  BY <1>1, <1>2 DEF Tables
<1>7. Tables(live') /\ Fewer(live, live')
  <2> DEFINE m == live'
  <2>1. /\ m = [step |-> m.step, transi |-> m.transi, comment |-> m.comment]
        /\ m.step = [s \in Steps |-> m.step[s]] /\ \A s \in Steps : m.step[s] = Step(s)
        /\ m.transi = [t \in Transis |-> m.transi[t]] /\ \A t \in Transis : m.transi[t] = Transi(t)
        /\ m.comment = [k \in Comments |-> m.comment[k]]
        /\ \A k \in Comments : m.comment[k] = Comment(k)
    BY <1>6
  <2> HIDE DEF m
  <2>2. Tables(m) /\ Fewer(live, m)
    BY <1>2, <1>3, <1>4, <1>5, <2>1, TablesFewer
  <2> QED
    BY <2>2 DEF m
<1> QED
  BY <1>7, FewerIsWellDrawn DEF InitSeqElementsOfPage

-----------------------------------------------------------------------------
(* The theorem.                                                             *)

LEMMA Initially == Init => IInv
BY ChartsAssumption DEF Init, IInv

LEMMA ClickWellDrawn ==
    ASSUME Careful, WellDrawn(draw), editing # None, NEW c \in Places,
           \/ \E init \in BOOLEAN : PutStep(c, init)
           \/ PutTransi(c) \/ PutStepAndTransi(c) \/ Eraser(c) \/ PutComment(c)
    PROVE  WellDrawn(draw')
<1> DEFINE e == SearchIt(draw, editing, c)
<1>1. e = Nothing => Vacant(draw, editing, c)
  BY SearchVacant
<1>2. ASSUME NEW init, PutStep(c, init) PROVE WellDrawn(draw')
  <2>1. draw' = StepClicked(draw, e, c, init)
    BY <1>2 DEF PutStep
  <2> HIDE DEF e
  <2> QED
    BY <1>1, <2>1, PlacesAreCells, StepClickedWellDrawn
<1>3. CASE PutTransi(c)
  <2>1. draw' = TransiClicked(draw, e, c)
    BY <1>3 DEF PutTransi
  <2> HIDE DEF e
  <2> QED
    BY <1>1, <2>1, PlacesAreCells, TransiClickedWellDrawn
<1>4. CASE PutStepAndTransi(c)
  <2> DEFINE m == StepClicked(draw, e, c, FALSE)
             below == Beside(c, 1)
  <2>1. draw' = TransiClicked(m, e, below)
    BY <1>4 DEF PutStepAndTransi
  <2>2. Vacant(draw, editing, below)
    BY <1>4, SearchVacant DEF PutStepAndTransi
  <2>3. below \in Cells /\ below # c /\ c \in Cells
    BY PlacesAreCells
  <2> HIDE DEF e, below
  <2>4. WellDrawn(m) /\ (e = Nothing => Vacant(m, editing, below))
    BY <1>1, <2>2, <2>3, StepClickedWellDrawn
  <2> HIDE DEF m
  <2> QED
    BY <2>1, <2>3, <2>4, TransiClickedWellDrawn
<1>5. CASE Eraser(c)
  <2>1. draw' = DestroyIt(draw, e)
    BY <1>5 DEF Eraser
  <2> HIDE DEF e
  <2>2. Tables(draw') /\ Fewer(draw, draw')
    BY <2>1, DestroyItFewer DEF WellDrawn
  <2> QED
    BY <2>2, FewerIsWellDrawn
<1>6. CASE PutComment(c)
  BY <1>6, PutCommentWellDrawn
<1> QED
  BY <1>2, <1>3, <1>4, <1>5, <1>6

LEMMA StepKeeps ==
    ASSUME Careful, IInv, [Next]_vars
    PROVE  IInv'
<1>1. WellDrawn(live) /\ WellDrawn(draw) /\ editing \in Pages \cup {None}
  BY DEF IInv
<1>2. CASE UNCHANGED vars
  BY <1>1, <1>2 DEF vars, IInv, WellDrawn, Tables, OnTheirLines, Alone
<1>3. CASE ApplySeqPageEdited
  BY <1>1, <1>3 DEF ApplySeqPageEdited, IInv
<1>4. CASE CancelSeqPageEdited
  BY <1>1, <1>4 DEF CancelSeqPageEdited, IInv
<1>5. ASSUME NEW p \in Pages, ModifyCurrentSeqPage(p) PROVE IInv'
  BY <1>1, <1>5 DEF ModifyCurrentSeqPage, IInv
<1>6. ASSUME NEW p \in Pages, InitSeqElementsOfPage(p) PROVE IInv'
  <2>1. WellDrawn(live') /\ draw' = live'
    BY <1>1, <1>6, InitPageWellDrawn
  <2> QED
    BY <1>1, <1>6, <2>1 DEF InitSeqElementsOfPage, IInv
<1>7. ASSUME NEW c \in Places,
             \/ \E init \in BOOLEAN : PutStep(c, init)
             \/ PutTransi(c) \/ PutStepAndTransi(c) \/ Eraser(c) \/ PutComment(c)
      PROVE  IInv'
  <2>1. Click /\ UNCHANGED << live, editing >>
    BY <1>7 DEF PutStep, PutTransi, PutStepAndTransi, Eraser, PutComment, OneClick
  <2>2. WellDrawn(draw')
    BY <1>1, <1>7, <2>1, ClickWellDrawn DEF Click
  <2> QED
    BY <1>1, <2>1, <2>2 DEF IInv
<1>8. ASSUME NEW c \in Places, NEW tool, NEW top, TwoClicks(tool, c, top) PROVE IInv'
  <2>1. WellDrawn(draw')
    BY <1>1, <1>8, TwoClicksWellDrawn
  <2> QED
    BY <1>1, <1>8, <2>1 DEF TwoClicks, IInv
<1>9. ASSUME NEW s \in Steps, NEW n, NEW init, SaveStep(s, n, init) PROVE IInv'
  <2>1. Tables(draw') /\ Fewer(draw, draw')
    BY <1>1, <1>9, StepPropertiesFewer DEF SaveStep, WellDrawn
  <2>2. WellDrawn(draw')
    BY <1>1, <2>1, FewerIsWellDrawn
  <2> QED
    BY <1>1, <1>9, <2>2 DEF SaveStep, Click, IInv
<1>10. ASSUME NEW t \in Transis, NEW a, NEW b, SaveTransi(t, a, b) PROVE IInv'
  <2>1. Tables(draw') /\ Fewer(draw, draw')
    BY <1>1, <1>10, ListsFewer DEF SaveTransi, WellDrawn
  <2>2. WellDrawn(draw')
    BY <1>1, <2>1, FewerIsWellDrawn
  <2> QED
    BY <1>1, <1>10, <2>2 DEF SaveTransi, Click, IInv
<1> QED
  BY <1>2, <1>3, <1>4, <1>5, <1>6, <1>7, <1>8, <1>9, <1>10 DEF Next

(* The tables under edit and those of the project stay well drawn, for an   *)
(* operator who looks where he puts a step with its transition.             *)
THEOREM Invariance == Careful => (Spec => []IInv)
<1>1. ASSUME Careful PROVE Spec => []IInv
  <2>1. Init => IInv
    BY Initially
  <2>2. IInv /\ [Next]_vars => IInv'
    BY <1>1, StepKeeps
  <2> QED
    BY <2>1, <2>2, PTL DEF Spec
<1> QED
  BY <1>1

(* Two elements of a page never share a cell (edit_sequential.c:957, 988,   *)
(* 1058): none works on unseen by the search, out of reach of the operator. *)
THEOREM NoElementHidden == Careful => (Spec => []OnePerCell)
<1>1. IInv => OnePerCell
  BY DEF IInv, WellDrawn, OnePerCell
<1> QED
  BY <1>1, Invariance, PTL

-----------------------------------------------------------------------------
(* The lists of the transitions: packed, they have no hole, and name steps  *)
(* that are there.                                                          *)
(* The places of a list that are filled, counted from the left.             *)
LEMMA NthIsThere ==
    ASSUME NEW S \in SUBSET Nat, IsFiniteSet(S), NEW i \in 1 .. Cardinality(S)
    PROVE  Nth(S, i) \in S
<1> DEFINE Upto(x) == {y \in S : y <= x}
           Counted == {n \in Nat : n \in 1 .. Cardinality(S) /\ \A x \in S : Cardinality(Upto(x)) # n}
<1>0. \A y \in S : y \in Nat
  OBVIOUS
<1>1. Cardinality(S) \in Nat
  BY FS_CardinalityType
<1>2. SUFFICES \E x \in S : Cardinality(Upto(x)) = i
  BY DEF Nth
<1>3. SUFFICES ASSUME Counted # {} PROVE FALSE
  BY <1>1
<1> DEFINE n == Min(Counted)
<1>4. n \in Counted /\ \A m \in Counted : n <= m
  <2> HIDE DEF Counted
  <2>1. Counted \in SUBSET Nat
    BY DEF Counted
  <2> QED
    BY <1>3, <2>1, FirstIsThere
<1>5. n \in Nat /\ n \in 1 .. Cardinality(S) /\ \A x \in S : Cardinality(Upto(x)) # n
  BY <1>4
<1>6. \A x \in S : IsFiniteSet(Upto(x))
  BY FS_Subset
<1> HIDE DEF n
<1>7. CASE n = 1
  <2>1. S # {}
    BY <1>1, <1>5, FS_EmptySet
  <2>2. Min(S) \in S /\ \A y \in S : Min(S) <= y
    BY <2>1, FirstIsThere
  <2>3. Upto(Min(S)) = {Min(S)}
    <3>0. Min(S) \in Nat
      BY <1>0, <2>2
    <3>1. ASSUME NEW y \in S, y <= Min(S) PROVE y = Min(S)
      <4>1. y \in Nat /\ Min(S) <= y
        BY <1>0, <2>2
      <4> QED
        BY <3>0, <3>1, <4>1
    <3>2. Min(S) <= Min(S)
      BY <3>0
    <3> QED
      BY <2>2, <3>1, <3>2, Zenon
  <2> QED
    BY <1>5, <1>7, <2>2, <2>3, FS_Singleton
<1>8. CASE n # 1
  <2>1. n - 1 \in Nat /\ n - 1 \in 1 .. Cardinality(S) /\ n - 1 \notin Counted
    BY <1>1, <1>4, <1>5, <1>8
  <2>2. PICK x \in S : Cardinality(Upto(x)) = n - 1
    BY <2>1
  <2> DEFINE Rest == {y \in S : y > x}
  <2>3. Rest # {}
    <3>1. ASSUME Rest = {} PROVE FALSE
      <4>1. \A y \in S : y <= x
        BY <1>0, <3>1
      <4>2. Upto(x) = S
        BY <4>1
      <4> QED
        BY <1>1, <1>5, <2>2, <4>2
    <3> QED
      BY <3>1
  <2>4. Min(Rest) \in Rest /\ \A y \in Rest : Min(Rest) <= y
    <3> HIDE DEF Rest
    <3>1. Rest \in SUBSET Nat
      BY DEF Rest
    <3> QED
      BY <2>3, <3>1, FirstIsThere
  <2> DEFINE z == Min(Rest)
  <2>5. Upto(z) = Upto(x) \cup {z} /\ z \notin Upto(x) /\ z \in S
    <3>1. z \in S /\ z > x /\ \A y \in S : y > x => z <= y
      BY <2>4
    <3> HIDE DEF z
    <3>2. \A y \in S : y <= z <=> (y <= x \/ y = z)
      BY <1>0, <3>1
    <3>3. ~(z <= x)
      BY <1>0, <3>1
    <3> QED
      BY <3>1, <3>2, <3>3
  <2>6. Cardinality(Upto(z)) = n - 1 + 1
    <3>1. IsFiniteSet(Upto(x))
      BY <1>6
    <3> HIDE DEF z, Upto
    <3>2. Cardinality(Upto(x) \cup {z}) =
            IF z \in Upto(x) THEN Cardinality(Upto(x)) ELSE Cardinality(Upto(x)) + 1
      BY <3>1, FS_AddElement, Zenon
    <3> QED
      BY <2>2, <2>5, <3>2, Zenon
  <2>7. n - 1 + 1 = n
    BY <1>5
  <2> HIDE DEF z, Upto
  <2> QED
    BY <1>5, <2>5, <2>6, <2>7, Zenon
<1> QED
  BY <1>7, <1>8

LEMMA PackedIsCompact ==
    ASSUME NEW n \in Nat, NEW l, DOMAIN l = 1 .. n, NEW A, None \notin A,
           \A i \in 1 .. n : l[i] # None => l[i] \in A
    PROVE  Compact(A, PackStepsList(l))
<1> DEFINE k == Cardinality(Filled(l))
           q == PackStepsList(l)
<1>1. Filled(l) \in SUBSET Nat /\ Filled(l) \subseteq 1 .. n
  BY DEF Filled
<1>2. IsFiniteSet(Filled(l))
  BY <1>1, FS_Interval, FS_Subset
<1>3. k \in Nat
  BY <1>2, FS_CardinalityType
<1>4. \A i \in 1 .. k : l[Nth(Filled(l), i)] \in A
  <2> TAKE i \in 1 .. k
  <2>1. Nth(Filled(l), i) \in Filled(l)
    BY <1>1, <1>2, NthIsThere
  <2> QED
    BY <2>1 DEF Filled
<1> HIDE DEF k
<1>5. q = [i \in 1 .. Switchs |-> IF i <= k THEN l[Nth(Filled(l), i)] ELSE None]
  BY DEF PackStepsList, k
<1>6. \A i \in 1 .. Switchs : i <= k => i \in 1 .. k
  BY <1>3, SeqEditorAssumption
<1>7. \A i \in 1 .. Switchs : q[i] \in IF i <= k THEN A ELSE {None}
  <2> HIDE DEF q
  <2> QED
    BY <1>4, <1>5, <1>6
<1>8. q \in [1 .. Switchs -> A \cup {None}]
  BY <1>4, <1>5, <1>6
<1>9. \A i \in 1 .. Switchs - 1 : q[i] = None => q[i + 1] = None
  <2> HIDE DEF q
  <2> TAKE i \in 1 .. Switchs - 1
  <2>1. i \in 1 .. Switchs /\ i + 1 \in 1 .. Switchs /\ i \in Int
    BY SeqEditorAssumption
  <2>2. CASE i <= k
    BY <1>7, <2>1, <2>2
  <2>3. CASE ~(i <= k)
    BY <1>3, <1>7, <2>1, <2>3
  <2> QED
    BY <2>2, <2>3
<1> QED
  BY <1>8, <1>9 DEF Compact

-----------------------------------------------------------------------------
(* The lists of the transitions.                                            *)

LEMMA NoneIsNoStep == \A d, p : None \notin On(d, p)
BY SeqEditorAssumption DEF On, Steps, None

(* A search finds what is on the page searched.                             *)
LEMMA SearchesFind ==
    ASSUME NEW d, NEW p, NEW c
    PROVE  /\ SearchStep(d, p, c) # None => SearchStep(d, p, c) \in On(d, p)
           /\ SearchTransi(d, p, c) # None =>
                /\ SearchTransi(d, p, c) \in Transis
                /\ d.transi[SearchTransi(d, p, c)].page = p
<1> DEFINE SS == {s \in Steps : d.step[s].page = p /\ d.step[s].at = c}
           TT == {t \in Transis : d.transi[t].page = p /\ d.transi[t].at = c}
<1> USE SeqEditorAssumption
<1>1. SS # {} => LastOf(SS) \in SS
  <2>1. NbrSteps \in Nat /\ SS \in SUBSET (0 .. NbrSteps - 1)
    BY DEF Steps
  <2> HIDE DEF SS
  <2> QED
    BY <2>1, LastIsThere
<1>2. TT # {} => LastOf(TT) \in TT
  <2>1. NbrTransis \in Nat /\ TT \in SUBSET (0 .. NbrTransis - 1)
    BY DEF Transis
  <2> HIDE DEF TT
  <2> QED
    BY <2>1, LastIsThere
<1>3. SearchStep(d, p, c) # None => SearchStep(d, p, c) \in On(d, p)
  BY <1>1 DEF SearchStep, LastOf, On
<1>4. SearchTransi(d, p, c) # None =>
        SearchTransi(d, p, c) \in Transis /\ d.transi[SearchTransi(d, p, c)].page = p
  BY <1>2 DEF SearchTransi, LastOf
<1> QED
  BY <1>3, <1>4

(* What a click finds is there.                                             *)
There(d, p, e) ==
    /\ e.type = "step" => e.off \in On(d, p)
    /\ e.type = "transi" => e.off \in Transis /\ d.transi[e.off].page = p

LEMMA FoundIsThere ==
    ASSUME NEW d, NEW p, NEW c
    PROVE  There(d, p, SearchIt(d, p, c))
<1> DEFINE e == SearchIt(d, p, c)
<1>1. e.type = "step" => e.off = SearchStep(d, p, c) /\ SearchStep(d, p, c) # None
  BY DEF SearchIt, Nothing, NoFirst
<1>2. e.type = "transi" => e.off = SearchTransi(d, p, c) /\ SearchTransi(d, p, c) # None
  BY DEF SearchIt, Nothing, NoFirst
<1> HIDE DEF e
<1>3. There(d, p, e)
  BY <1>1, <1>2, SearchesFind DEF There
<1> QED
  BY <1>3 DEF e

(* The last place filled of a list.                                         *)
LEMMA LastFilledIsThere ==
    ASSUME NEW n \in Nat, NEW l, DOMAIN l = 1 .. n, LastFilled(l) # None
    PROVE  \E i \in 1 .. n : l[i] # None /\ l[i] = LastFilled(l)
<1> DEFINE S == Filled(l)
<1>1. S # {} /\ LastFilled(l) = l[Max(S)]
  BY DEF LastFilled
<1>2. S \in SUBSET (0 .. (n + 1) - 1) /\ S \subseteq 1 .. n /\ \A i \in S : l[i] # None
  BY DEF Filled
<1> HIDE DEF S
<1>3. LastOf(S) \in S
  <2> DEFINE k == n + 1
  <2>1. k \in Nat /\ S \in SUBSET (0 .. k - 1)
    BY <1>2
  <2> HIDE DEF k
  <2> QED
    BY <1>1, <2>1, LastIsThere
<1>4. Max(S) \in S
  BY <1>1, <1>3 DEF LastOf
<1> QED
  BY <1>1, <1>2, <1>4

(* The first place of a list that is given to a step.                       *)
LEMMA FirstGiven ==
    ASSUME NEW A, None \notin A, NEW l, Compact(A, l), NEW x \in A
    PROVE  Compact(A, [l EXCEPT ![1] = x])
<1> DEFINE q == [l EXCEPT ![1] = x]
<1>0. Switchs \in Nat /\ 1 \in 1 .. Switchs
  BY SeqEditorAssumption
<1>1. q \in [1 .. Switchs -> A \cup {None}] /\ \A i \in 1 .. Switchs : q[i] = IF i = 1 THEN x ELSE l[i]
  BY DEF Compact
<1>2. ASSUME NEW i \in 1 .. Switchs - 1, q[i] = None PROVE q[i + 1] = None
  <2> HIDE DEF q
  <2>1. i \in 1 .. Switchs /\ i + 1 \in 1 .. Switchs /\ i + 1 # 1
    BY <1>0
  <2>2. i # 1 /\ l[i] = None
    BY <1>1, <1>2, <2>1
  <2>3. l[i + 1] = None
    BY <2>2 DEF Compact
  <2> QED
    BY <1>1, <2>1, <2>3
<1> QED
  BY <1>1, <1>2 DEF Compact

(* Steps that are added harm no list.                                       *)
LEMMA MoreIsCompact ==
    ASSUME NEW A, NEW B, A \subseteq B, NEW l, Compact(A, l)
    PROVE  Compact(B, l)
BY DEF Compact

(* The list of a new transition.                                            *)
LEMMA NewIsCompact ==
    ASSUME NEW A, NEW x \in A \cup {None}
    PROVE  Compact(A, [NoList EXCEPT ![1] = x])
<1> DEFINE q == [NoList EXCEPT ![1] = x]
<1>1. Switchs \in Nat
  BY SeqEditorAssumption
<1>2. q = [i \in 1 .. Switchs |-> IF i = 1 THEN x ELSE None]
  BY <1>1 DEF NoList
<1>3. q \in [1 .. Switchs -> A \cup {None}]
  BY <1>2
<1>4. ASSUME NEW i \in 1 .. Switchs - 1 PROVE q[i + 1] = None
  <2>1. i + 1 \in 1 .. Switchs /\ i + 1 # 1
    BY <1>1
  <2> HIDE DEF q
  <2> QED
    BY <1>2, <2>1
<1> QED
  BY <1>3, <1>4 DEF Compact

(* A step out of a list.                                                    *)
LEMMA FreedIsCompact ==
    ASSUME NEW A, None \notin A, NEW l, Compact(A, l), NEW s
    PROVE  Compact(A \ {s}, IF \E i \in DOMAIN l : l[i] = s THEN PackStepsList(Without(l, s)) ELSE l)
<1>0. Switchs \in Nat /\ DOMAIN l = 1 .. Switchs
  BY SeqEditorAssumption DEF Compact
<1>1. Compact(A \ {s}, PackStepsList(Without(l, s)))
  <2> DEFINE w == Without(l, s)
  <2>1. /\ DOMAIN w = 1 .. Switchs
        /\ \A i \in 1 .. Switchs : w[i] # None => w[i] \in A \ {s}
    BY <1>0 DEF Without, Compact
  <2> HIDE DEF w
  <2>2. Compact(A \ {s}, PackStepsList(w))
    BY <1>0, <2>1, PackedIsCompact
  <2> QED
    BY <2>2 DEF w
<1>2. CASE ~ \E i \in DOMAIN l : l[i] = s
  BY <1>0, <1>2 DEF Compact
<1> QED
  BY <1>1, <1>2

(* What a change of one list leaves of a row, and of the tables.            *)
LEMMA ListsOfRow ==
    ASSUME NEW r, IsTransi(r), NEW a, NEW b
    PROVE  /\ LET q == [r EXCEPT !.act = a] IN q.page = r.page /\ q.act = a /\ q.desact = r.desact
           /\ LET q == [r EXCEPT !.desact = a] IN q.page = r.page /\ q.desact = a /\ q.act = r.act
           /\ LET q == [r EXCEPT !.act = a, !.desact = b]
              IN q.page = r.page /\ q.act = a /\ q.desact = b
           /\ LET q == [r EXCEPT !.start = b, !.desact[1] = a]
              IN q.page = r.page /\ q.desact = [r.desact EXCEPT ![1] = a] /\ q.act = r.act
           /\ LET q == [r EXCEPT !.end = b, !.act[1] = a]
              IN q.page = r.page /\ q.act = [r.act EXCEPT ![1] = a] /\ q.desact = r.desact
<1>1. LET q == [r EXCEPT !.act = a] IN q.page = r.page /\ q.act = a /\ q.desact = r.desact
  BY DEF IsTransi
<1>2. LET q == [r EXCEPT !.desact = a] IN q.page = r.page /\ q.desact = a /\ q.act = r.act
  BY DEF IsTransi
<1>3. LET q == [r EXCEPT !.act = a, !.desact = b] IN q.page = r.page /\ q.act = a /\ q.desact = b
  BY DEF IsTransi
<1>4. LET q == [r EXCEPT !.start = b, !.desact[1] = a]
      IN q.page = r.page /\ q.desact = [r.desact EXCEPT ![1] = a] /\ q.act = r.act
  BY DEF IsTransi
<1>5. LET q == [r EXCEPT !.end = b, !.act[1] = a]
      IN q.page = r.page /\ q.act = [r.act EXCEPT ![1] = a] /\ q.desact = r.desact
  BY DEF IsTransi
<1> QED
  BY <1>1, <1>2, <1>3, <1>4, <1>5, Zenon

(* One transition that changes.                                             *)
LEMMA OneTransiAlive ==
    ASSUME NEW d, Tables(d), ListsAlive(d), NEW t, NEW r,
           NEW e, e = [d EXCEPT !.transi[t] = r],
           t \in Transis /\ r.page # None => Alive(d, r)
    PROVE  ListsAlive(e)
<1>1. /\ e.step = d.step
      /\ e.transi = [d.transi EXCEPT ![t] = r]
  BY DEF Tables
<1>2. \A x \in Transis : e.transi[x] = IF x = t THEN r ELSE d.transi[x]
  BY <1>1 DEF Tables, TransisTable
<1>3. \A p : On(e, p) = On(d, p)
  BY <1>1 DEF On
<1>4. \A q : Alive(e, q) <=> Alive(d, q)
  BY <1>3 DEF Alive
<1> QED
  BY <1>2, <1>4 DEF ListsAlive

(* A list that is changed as a whole, or at its first place.                *)
LEMMA ListAlive ==
    ASSUME NEW d, Tables(d), ListsAlive(d), NEW t, NEW a,
           NEW e, \/ e = [d EXCEPT !.transi[t].act = a]
                  \/ e = [d EXCEPT !.transi[t].desact = a],
           t \in Transis /\ d.transi[t].page # None => Compact(On(d, d.transi[t].page), a)
    PROVE  ListsAlive(e)
<1> DEFINE r == d.transi[t]
<1>1. t \in Transis => IsTransi(r)
  BY SameFewer
<1>2. CASE e = [d EXCEPT !.transi[t].act = a]
  <2> DEFINE q == [r EXCEPT !.act = a]
  <2>1. e = [d EXCEPT !.transi[t] = q]
    BY <1>2, Zenon
  <2>2. t \in Transis => q.page = r.page /\ q.act = a /\ q.desact = r.desact
    BY <1>1, ListsOfRow
  <2> HIDE DEF q
  <2>3. t \in Transis /\ q.page # None => Alive(d, q)
    BY <2>2 DEF ListsAlive, Alive
  <2> QED
    BY <2>1, <2>3, OneTransiAlive
<1>3. CASE e = [d EXCEPT !.transi[t].desact = a]
  <2> DEFINE q == [r EXCEPT !.desact = a]
  <2>1. e = [d EXCEPT !.transi[t] = q]
    BY <1>3, Zenon
  <2>2. t \in Transis => q.page = r.page /\ q.desact = a /\ q.act = r.act
    BY <1>1, ListsOfRow
  <2> HIDE DEF q
  <2>3. t \in Transis /\ q.page # None => Alive(d, q)
    BY <2>2 DEF ListsAlive, Alive
  <2> QED
    BY <2>1, <2>3, OneTransiAlive
<1> QED
  BY <1>2, <1>3

(* The two lists, saved together.                                           *)
LEMMA ListsAliveTwo ==
    ASSUME NEW d, Tables(d), ListsAlive(d), NEW t \in Transis, NEW a, NEW b,
           NEW e, e = [d EXCEPT !.transi[t].act = a, !.transi[t].desact = b],
           Compact(On(d, d.transi[t].page), a), Compact(On(d, d.transi[t].page), b)
    PROVE  ListsAlive(e)
<1> DEFINE r == d.transi[t]
           q == [r EXCEPT !.act = a, !.desact = b]
<1>1. e = [d EXCEPT !.transi[t] = q]
  OBVIOUS
<1>2. IsTransi(r)
  BY SameFewer
<1>3. q.page = r.page /\ q.act = a /\ q.desact = b
  BY <1>2, ListsOfRow
<1> HIDE DEF q
<1>4. Alive(d, q)
  BY <1>3 DEF Alive
<1> QED
  BY <1>1, <1>4, OneTransiAlive

(* The tools in two clicks: a step and a transition linked, ...             *)
LEMMA LinkAlive ==
    ASSUME NEW d, Tables(d), ListsAlive(d), NEW p, p # None, NEW top,
           NEW t \in Transis, d.transi[t].page = p, NEW s \in On(d, p),
           NEW m, m = DoLinkTransitionAndStep(d, t, top, s)
    PROVE  ListsAlive(m)
<1> DEFINE r == d.transi[t]
           First(l) == [l EXCEPT ![1] = IF l[1] = None THEN s ELSE l[1]]
<1>0. Compact(On(d, p), r.act) /\ Compact(On(d, p), r.desact)
  BY DEF ListsAlive, Alive
<1>1. \A l : Compact(On(d, p), l) => Compact(On(d, p), First(l))
  <2> TAKE l
  <2> HAVE Compact(On(d, p), l)
  <2>1. CASE l[1] = None
    BY <2>1, NoneIsNoStep, FirstGiven
  <2>2. CASE l[1] # None
    <3>1. First(l) = l
      BY <2>2 DEF Compact
    <3> QED
      BY <3>1
  <2> QED
    BY <2>1, <2>2
<1>2. \/ m = [d EXCEPT !.transi[t].desact = First(r.desact)]
      \/ m = [d EXCEPT !.transi[t].act = First(r.act)]
  BY Zenon DEF DoLinkTransitionAndStep
<1>3. Compact(On(d, p), First(r.act)) /\ Compact(On(d, p), First(r.desact))
  BY <1>0, <1>1
<1> HIDE DEF First
<1>4. CASE m = [d EXCEPT !.transi[t].desact = First(r.desact)]
  BY <1>3, <1>4, ListAlive
<1>5. CASE m = [d EXCEPT !.transi[t].act = First(r.act)]
  BY <1>3, <1>5, ListAlive
<1> QED
  BY <1>2, <1>4, <1>5

(* ... the steps of a line, ...                                             *)
LEMMA ManyStepsAlive ==
    ASSUME NEW d, Tables(d), ListsAlive(d), NEW p, p # None, NEW start,
           NEW e, There(d, p, e), NEW f, There(d, p, f), NEW y,
           NEW m, m = ManySteps(d, p, start, e, f, y)
    PROVE  ListsAlive(m)
<1> DEFINE span == Span(d, e, f)
           line == IF start THEN y - 1 ELSE y + 1
           Near == [i \in 1 .. PageWidth |-> IF i - 1 \in span THEN SearchTransi(d, p, << i - 1, line >>) ELSE None]
           Row == [i \in 1 .. PageWidth |-> IF i - 1 \in span THEN SearchStep(d, p, << i - 1, y >>) ELSE None]
           t == IF f.type = "transi" THEN f.off ELSE IF e.type = "transi" THEN e.off
                ELSE LastFilled(Near)
           l == PackStepsList(Row)
<1>0. PageWidth \in Nat
  BY SeqEditorAssumption
<1>1. \/ m = d
      \/ t # None /\ (m = [d EXCEPT !.transi[t].act = l] \/ m = [d EXCEPT !.transi[t].desact = l])
  BY Zenon DEF ManySteps, OnLine
<1>2. Compact(On(d, p), l)
  <2>1. DOMAIN Row = 1 .. PageWidth /\ \A i \in 1 .. PageWidth : Row[i] # None => Row[i] \in On(d, p)
    BY SearchesFind
  <2> HIDE DEF Row
  <2> QED
    BY <1>0, <2>1, NoneIsNoStep, PackedIsCompact
<1>3. t # None => t \in Transis /\ d.transi[t].page = p
  <2>1. LastFilled(Near) # None => LastFilled(Near) \in Transis /\ d.transi[LastFilled(Near)].page = p
    <3>1. DOMAIN Near = 1 .. PageWidth /\ \A i \in 1 .. PageWidth : Near[i] # None =>
            Near[i] \in Transis /\ d.transi[Near[i]].page = p
      BY SearchesFind
    <3> HIDE DEF Near
    <3> QED
      BY <1>0, <3>1, LastFilledIsThere
  <2> HIDE DEF Near
  <2> QED
    BY <2>1 DEF There
<1> HIDE DEF t, l
<1>4. CASE m = d
  BY <1>4
<1>5. CASE t # None /\ (m = [d EXCEPT !.transi[t].act = l] \/ m = [d EXCEPT !.transi[t].desact = l])
  BY <1>2, <1>3, <1>5, ListAlive
<1> QED
  BY <1>1, <1>4, <1>5

(* A transition whose lists do not change names the same steps, when none   *)
(* of its page goes.                                                        *)
LEMMA StillAlive ==
    ASSUME NEW d, ListsAlive(d), NEW m,
           \A t \in Transis : m.transi[t].page # None =>
             /\ m.transi[t].page = d.transi[t].page
             /\ m.transi[t].act = d.transi[t].act /\ m.transi[t].desact = d.transi[t].desact
             /\ On(d, d.transi[t].page) \subseteq On(m, d.transi[t].page)
    PROVE  ListsAlive(m)
<1>1. SUFFICES ASSUME NEW t \in Transis, m.transi[t].page # None
               PROVE  Alive(m, m.transi[t])
  BY DEF ListsAlive
<1>2. Alive(d, d.transi[t])
  BY <1>1 DEF ListsAlive
<1> QED
  BY <1>1, <1>2, MoreIsCompact DEF Alive

(* ... the transitions of a line: the step that all get is the first of a   *)
(* list of one of them.                                                     *)
LEMMA ManyTransisAlive ==
    ASSUME NEW d, Tables(d), ListsAlive(d), NEW p, p # None, NEW start, NEW e, NEW f,
           NEW m, m = ManyTransis(d, p, start, e, f)
    PROVE  ListsAlive(m)
<1> DEFINE span == Span(d, e, f)
           y == AtOf(d, e)[2]
           found == [i \in 1 .. PageWidth |->
                       IF i - 1 \in span THEN SearchTransi(d, p, << i - 1, y >>) ELSE None]
           Heads(l) == [i \in DOMAIN found |-> IF found[i] = None THEN None ELSE l[found[i]][1]]
           Given(l, old) == IF LastFilled(Heads(l)) = None THEN old ELSE LastFilled(Heads(l))
           act == [t \in Transis |-> d.transi[t].act]
           desact == [t \in Transis |-> d.transi[t].desact]
           Link(r, others) ==
             IF start
             THEN [r EXCEPT !.start = others, !.desact[1] = Given(desact, @)]
             ELSE [r EXCEPT !.end = others, !.act[1] = Given(act, @)]
           g == [t \in Transis |->
                   IF \E i \in DOMAIN found : found[i] = t
                   THEN Link(d.transi[t], PackStepsList(Without(found, t))) ELSE d.transi[t]]
<1>0. PageWidth \in Nat /\ Switchs \in Nat /\ 1 \in 1 .. Switchs
  BY SeqEditorAssumption
<1>1. m = d \/ m = [d EXCEPT !.transi = g]
  BY Zenon DEF ManyTransis, OnLine
<1>2. /\ DOMAIN found = 1 .. PageWidth
      /\ \A i \in 1 .. PageWidth : found[i] # None =>
           found[i] \in Transis /\ d.transi[found[i]].page = p
  BY SearchesFind
<1> HIDE DEF found
<1>3. ASSUME NEW l, \A t \in Transis : d.transi[t].page = p => Compact(On(d, p), l[t]),
             NEW a, Compact(On(d, p), a)
      PROVE  Compact(On(d, p), [a EXCEPT ![1] = Given(l, a[1])])
  <2> DEFINE H == Heads(l)
  <2>1. CASE LastFilled(H) = None
    <3>1. Given(l, a[1]) = a[1]
      BY <2>1, Zenon
    <3> HIDE DEF Given, H
    <3>2. [a EXCEPT ![1] = Given(l, a[1])] = a
      BY <1>3, <3>1 DEF Compact
    <3> QED
      BY <1>3, <3>2
  <2>2. CASE LastFilled(H) # None
    <3>1. DOMAIN H = 1 .. PageWidth
      BY <1>2
    <3>2. PICK i \in 1 .. PageWidth : H[i] # None /\ H[i] = LastFilled(H)
      <4> HIDE DEF H
      <4> QED
        BY <1>0, <2>2, <3>1, LastFilledIsThere
    <3>3. found[i] # None /\ H[i] = l[found[i]][1]
      BY <1>2, <3>2
    <3>4. Compact(On(d, p), l[found[i]])
      BY <1>2, <1>3, <3>3
    <3>5. H[i] \in On(d, p)
      BY <1>0, <3>2, <3>3, <3>4 DEF Compact
    <3>6. Given(l, a[1]) = H[i]
      BY <2>2, <3>2
    <3> HIDE DEF Given, H
    <3> QED
      BY <1>3, <3>5, <3>6, NoneIsNoStep, FirstGiven
  <2> QED
    BY <2>1, <2>2
<1>4. \A t \in Transis : d.transi[t].page = p =>
        Compact(On(d, p), d.transi[t].act) /\ Compact(On(d, p), d.transi[t].desact)
  BY DEF ListsAlive, Alive
<1>5. \A t \in Transis : act[t] = d.transi[t].act /\ desact[t] = d.transi[t].desact
  OBVIOUS
<1> HIDE DEF Given, act, desact
<1>6. ASSUME NEW t \in Transis, d.transi[t].page = p, NEW o
      PROVE  Link(d.transi[t], o).page = p /\ Alive(d, Link(d.transi[t], o))
  <2> DEFINE r == d.transi[t]
             q1 == [r EXCEPT !.start = o, !.desact[1] = Given(desact, r.desact[1])]
             q2 == [r EXCEPT !.end = o, !.act[1] = Given(act, r.act[1])]
  <2>1. Link(r, o) = IF start THEN q1 ELSE q2
    BY Zenon
  <2>2. IsTransi(r)
    BY SameFewer
  <2>3. q1.page = p /\ q1.desact = [r.desact EXCEPT ![1] = Given(desact, r.desact[1])] /\ q1.act = r.act
    BY <1>6, <2>2, ListsOfRow
  <2>4. q2.page = p /\ q2.act = [r.act EXCEPT ![1] = Given(act, r.act[1])] /\ q2.desact = r.desact
    BY <1>6, <2>2, ListsOfRow
  <2> HIDE DEF q1, q2, Link
  <2>5. Compact(On(d, p), r.act) /\ Compact(On(d, p), r.desact)
    BY <1>4, <1>6
  <2>6. Alive(d, q1)
    BY <1>3, <1>4, <1>5, <2>3, <2>5 DEF Alive
  <2>7. Alive(d, q2)
    BY <1>3, <1>4, <1>5, <2>4, <2>5 DEF Alive
  <2> QED
    BY <2>1, <2>3, <2>4, <2>6, <2>7
<1> HIDE DEF Link
<1>7. \A t \in Transis : g[t].page # None => Alive(d, g[t])
  <2> TAKE t \in Transis
  <2>1. CASE \E i \in DOMAIN found : found[i] = t
    <3>0. t # None
      BY SeqEditorAssumption DEF Transis, None
    <3>1. d.transi[t].page = p
      BY <1>2, <2>1, <3>0
    <3>2. g[t] = Link(d.transi[t], PackStepsList(Without(found, t)))
      BY <2>1
    <3> QED
      BY <1>6, <3>1, <3>2
  <2>2. CASE ~ \E i \in DOMAIN found : found[i] = t
    BY <2>2 DEF ListsAlive
  <2> QED
    BY <2>1, <2>2
<1> HIDE DEF g
<1>8. CASE m = [d EXCEPT !.transi = g]
  <2>1. m.step = d.step /\ m.transi = g
    BY <1>8 DEF Tables
  <2>2. \A x : On(m, x) = On(d, x)
    BY <2>1 DEF On
  <2> QED
    BY <1>7, <2>1, <2>2 DEF ListsAlive, Alive
<1> QED
  BY <1>1, <1>8

(* The step destroyed leaves the lists of the page; no other page names it. *)
LEMMA DestroyStepAlive ==
    ASSUME NEW d, Tables(d), ListsAlive(d), NEW s \in Steps, d.step[s].page # None,
           NEW e, e = DestroyStep(d, s)
    PROVE  ListsAlive(e)
<1> DEFINE r == [d.step[s] EXCEPT !.page = None]
           p == d.step[s].page
           Freed(l) == IF \E i \in DOMAIN l : l[i] = s THEN PackStepsList(Without(l, s)) ELSE l
           Freeing(x) == [x EXCEPT !.act = Freed(x.act), !.desact = Freed(x.desact)]
           Row(t) == IF d.transi[t].page # p THEN d.transi[t] ELSE Freeing(d.transi[t])
<1>1. e = [d EXCEPT !.step[s] = r, !.transi = [t \in Transis |-> Row(t)]]
  BY Zenon DEF DestroyStep
<1>2. r.page = None
  BY SameFewer DEF IsStep
<1>3. \A t \in Transis : IsTransi(d.transi[t])
  BY SameFewer
<1>4. \A l : Compact(On(d, p), l) => Compact(On(d, p) \ {s}, Freed(l))
  BY NoneIsNoStep, FreedIsCompact
<1> HIDE DEF r, Freed
<1>5. \A t \in Transis : /\ Freeing(d.transi[t]).page = d.transi[t].page
                        /\ Freeing(d.transi[t]).act = Freed(d.transi[t].act)
                        /\ Freeing(d.transi[t]).desact = Freed(d.transi[t].desact)
  <2> TAKE t \in Transis
  <2>1. IsTransi(d.transi[t])
    BY <1>3
  <2> QED
    BY <2>1, ListsOfRow
<1> HIDE DEF Freeing
<1>6. e.step = [d.step EXCEPT ![s] = r] /\ e.transi = [t \in Transis |-> Row(t)]
  BY <1>1 DEF Tables
<1>7. \A x \in Steps : e.step[x].page = IF x = s THEN None ELSE d.step[x].page
  BY <1>2, <1>6 DEF Tables, StepsTable
<1>8. ASSUME NEW q, q # None
      PROVE  On(e, q) = IF q = p THEN On(d, p) \ {s} ELSE On(d, q)
  BY <1>7, <1>8 DEF On
<1>9. ASSUME NEW t \in Transis, e.transi[t].page # None
      PROVE  Alive(e, e.transi[t])
  <2>1. e.transi[t] = Row(t)
    BY <1>6
  <2>2. e.transi[t].page = d.transi[t].page
    BY <1>5, <2>1
  <2>3. Alive(d, d.transi[t])
    BY <1>9, <2>2 DEF ListsAlive
  <2>4. CASE d.transi[t].page # p
    BY <1>8, <1>9, <2>1, <2>3, <2>4 DEF Alive
  <2>5. CASE d.transi[t].page = p
    <3>1. /\ e.transi[t].page = p /\ On(e, p) = On(d, p) \ {s}
          /\ e.transi[t].act = Freed(d.transi[t].act)
          /\ e.transi[t].desact = Freed(d.transi[t].desact)
      BY <1>5, <1>8, <1>9, <2>1, <2>2, <2>5
    <3>2. Compact(On(d, p), d.transi[t].act) /\ Compact(On(d, p), d.transi[t].desact)
      BY <2>3, <2>5 DEF Alive
    <3> QED
      BY <1>4, <3>1, <3>2 DEF Alive
  <2> QED
    BY <2>4, <2>5
<1> QED
  BY <1>9 DEF ListsAlive

(* What the eraser found.                                                   *)
LEMMA DestroyItAlive ==
    ASSUME NEW d, Tables(d), ListsAlive(d), NEW p, p # None, NEW e, There(d, p, e),
           NEW m, m = DestroyIt(d, e)
    PROVE  ListsAlive(m)
<1>1. CASE e.type = "step" /\ m = DestroyStep(d, e.off)
  BY <1>1, DestroyStepAlive DEF There, On
<1>2. CASE e.type = "transi" /\ m = DestroyTransi(d, e.off)
  <2> DEFINE r == [d.transi[e.off] EXCEPT !.page = None]
  <2>1. m = [d EXCEPT !.transi[e.off] = r]
    BY <1>2 DEF DestroyTransi
  <2>2. r.page = None
    BY <1>2, SameFewer DEF There, IsTransi
  <2> HIDE DEF r
  <2> QED
    BY <2>1, <2>2, OneTransiAlive
<1>3. CASE m = DestroyComment(d, e.off)
  <2>1. m.step = d.step /\ m.transi = d.transi
    BY <1>3 DEF Tables, DestroyComment
  <2> QED
    BY <2>1, StillAlive DEF On
<1>4. \/ e.type = "step" /\ m = DestroyStep(d, e.off)
      \/ e.type = "transi" /\ m = DestroyTransi(d, e.off)
      \/ m = DestroyComment(d, e.off)
      \/ m = d
  BY Zenon DEF DestroyIt
<1> QED
  BY <1>1, <1>2, <1>3, <1>4

(* A new transition takes the steps above and below it.                     *)
LEMMA CreateTransiAlive ==
    ASSUME NEW d, Tables(d), ListsAlive(d), NEW p, p # None, NEW c,
           NEW m, m = CreateTransi(d, p, c)
    PROVE  ListsAlive(m)
<1> DEFINE t == Min(FreeTransis(d))
           act == [NoList EXCEPT ![1] = SearchStep(d, p, Beside(c, 1))]
           desact == [NoList EXCEPT ![1] = SearchStep(d, p, Beside(c, -1))]
           r == [page |-> p, at |-> c, start |-> NoList, end |-> NoList, desact |-> desact, act |-> act]
<1>1. m = [d EXCEPT !.transi[t] = r]
  BY Zenon DEF CreateTransi
<1>2. Compact(On(d, p), act) /\ Compact(On(d, p), desact)
  <2>1. \A x : SearchStep(d, p, x) \in On(d, p) \cup {None}
    BY SearchesFind
  <2> QED
    BY <2>1, NewIsCompact
<1> HIDE DEF act, desact
<1>3. Alive(d, r)
  BY <1>2 DEF Alive
<1> HIDE DEF r
<1> QED
  BY <1>1, <1>3, OneTransiAlive

(* A new step goes at the head of the lists of the transitions beside it;   *)
(* nothing named it while it was free.                                      *)
LEMMA CreateStepAlive ==
    ASSUME NEW d, Tables(d), ListsAlive(d), FreeSteps(d) # {}, NEW p, p # None,
           NEW c, NEW init, NEW m, m = CreateStep(d, p, c, init)
    PROVE  ListsAlive(m)
<1> DEFINE s == Min(FreeSteps(d))
           r == [page |-> p, at |-> c, num |-> d.step[s].num, init |-> init]
           e == [d EXCEPT !.step[s] = r]
           above == SearchTransi(d, p, Beside(c, -1))
           below == SearchTransi(d, p, Beside(c, 1))
           A(t) == IF t = above THEN s ELSE e.transi[t].act[1]
           B(t) == IF t = below THEN s ELSE e.transi[t].desact[1]
           Row(t) == [e.transi[t] EXCEPT !.act[1] = A(t), !.desact[1] = B(t)]
           n == AutoNumber(e, p, c)
<1>1. s \in Steps /\ d.step[s].page = None
  <2>1. FreeSteps(d) \in SUBSET Nat
    BY DEF FreeSteps, Steps
  <2>2. s \in FreeSteps(d)
    BY <2>1, FirstIsThere
  <2> QED
    BY <2>2 DEF FreeSteps
<1>2. m = [e EXCEPT !.step[s].num = n, !.transi = [t \in Transis |-> Row(t)]]
  BY Zenon DEF CreateStep
<1>3. e.transi = d.transi /\ e.step = [d.step EXCEPT ![s] = r]
      /\ e = [step |-> e.step, transi |-> e.transi, comment |-> e.comment]
  BY DEF Tables
<1>4. above # None => above \in Transis /\ d.transi[above].page = p
  BY SearchesFind
<1>5. below # None => below \in Transis /\ d.transi[below].page = p
  BY SearchesFind
<1> HIDE DEF n, above, below
<1>6. /\ m.step = [e.step EXCEPT ![s] = [e.step[s] EXCEPT !.num = n]]
      /\ m.transi = [t \in Transis |-> Row(t)]
  <2> HIDE DEF e, Row
  <2> QED
    BY <1>2, <1>3
<1>7. \A x \in Steps : m.step[x].page = IF x = s THEN p ELSE d.step[x].page
  <2>1. e.step[s] = r
    BY <1>1, <1>3 DEF Tables, StepsTable
  <2>2. [r EXCEPT !.num = n].page = p
    OBVIOUS
  <2> HIDE DEF e, r
  <2>3. m.step = [d.step EXCEPT ![s] = [r EXCEPT !.num = n]]
    BY <1>3, <1>6, <2>1, Zenon
  <2> HIDE DEF s
  <2> QED
    BY <1>1, <2>2, <2>3 DEF Tables, StepsTable
<1> HIDE DEF s
<1>8. ASSUME NEW q, q # None
      PROVE  On(m, q) = IF q = p THEN On(d, p) \cup {s} ELSE On(d, q)
  BY <1>1, <1>7, <1>8 DEF On
<1>9. ASSUME NEW t \in Transis
      PROVE  /\ m.transi[t].page = d.transi[t].page
             /\ m.transi[t].act = [d.transi[t].act EXCEPT ![1] = A(t)]
             /\ m.transi[t].desact = [d.transi[t].desact EXCEPT ![1] = B(t)]
  <2>1. m.transi[t] = Row(t)
    BY <1>6
  <2>2. Row(t) = [d.transi[t] EXCEPT !.act[1] = A(t), !.desact[1] = B(t)]
    BY <1>3, Zenon
  <2>3. IsTransi(d.transi[t])
    BY SameFewer
  <2> HIDE DEF Row, A, B
  <2> DEFINE q == d.transi[t]
             a == A(t)
             b == B(t)
  <2>4. [q EXCEPT !.act[1] = a, !.desact[1] = b].page = q.page
    BY <2>3 DEF IsTransi
  <2>5. [q EXCEPT !.act[1] = a, !.desact[1] = b].act = [q.act EXCEPT ![1] = a]
    BY <2>3 DEF IsTransi
  <2>6. [q EXCEPT !.act[1] = a, !.desact[1] = b].desact = [q.desact EXCEPT ![1] = b]
    BY <2>3 DEF IsTransi
  <2> QED
    BY <2>1, <2>2, <2>4, <2>5, <2>6, Zenon
<1>10. \A t \in Transis : /\ A(t) = IF t = above THEN s ELSE d.transi[t].act[1]
                         /\ B(t) = IF t = below THEN s ELSE d.transi[t].desact[1]
  BY <1>3, Zenon
<1> HIDE DEF A, B, e, r
<1>11. ASSUME NEW t \in Transis, m.transi[t].page # None
       PROVE  Alive(m, m.transi[t])
  <2> DEFINE q == d.transi[t].page
             w == d.transi[t].act
             v == d.transi[t].desact
  <2>1. m.transi[t].page = q /\ q # None
    BY <1>9, <1>11
  <2>2. Compact(On(d, q), w) /\ Compact(On(d, q), v)
    BY <2>1 DEF ListsAlive, Alive
  <2>3. Compact(On(m, q), w) /\ Compact(On(m, q), v)
    <3>1. On(d, q) \subseteq On(m, q)
      BY <1>8, <2>1
    <3> QED
      BY <2>2, <3>1, MoreIsCompact
  <2>4. \A l : Compact(On(m, q), l) => [l EXCEPT ![1] = l[1]] = l
    BY DEF Compact
  <2>5. t \in {above, below} => q = p /\ s \in On(m, q)
    <3>1. t # None
      BY SeqEditorAssumption DEF Transis, None
    <3> QED
      BY <1>4, <1>5, <1>8, <2>1, <3>1
  <2> HIDE DEF q, w, v
  <2>6. Compact(On(m, q), [w EXCEPT ![1] = A(t)])
    <3>1. CASE t = above
      BY <1>10, <2>3, <2>5, <3>1, NoneIsNoStep, FirstGiven
    <3>2. CASE t # above
      <4>1. A(t) = w[1]
        BY <1>10, <3>2 DEF w
      <4> QED
        BY <2>3, <2>4, <4>1
    <3> QED
      BY <3>1, <3>2
  <2>7. Compact(On(m, q), [v EXCEPT ![1] = B(t)])
    <3>1. CASE t = below
      BY <1>10, <2>3, <2>5, <3>1, NoneIsNoStep, FirstGiven
    <3>2. CASE t # below
      <4>1. B(t) = v[1]
        BY <1>10, <3>2 DEF v
      <4> QED
        BY <2>3, <2>4, <4>1
    <3> QED
      BY <3>1, <3>2
  <2>8. m.transi[t].act = [w EXCEPT ![1] = A(t)] /\ m.transi[t].desact = [v EXCEPT ![1] = B(t)]
    BY <1>9 DEF w, v
  <2> QED
    BY <2>1, <2>6, <2>7, <2>8 DEF Alive
<1> QED
  BY <1>11 DEF ListsAlive

(* The numbers the operator reads or types, taken back as steps.            *)
LEMMA ConvertedIsCompact ==
    ASSUME NEW d, NEW p, NEW n \in Nat, NEW numbers, DOMAIN numbers = 1 .. n,
           Readable(d, p, numbers)
    PROVE  Compact(On(d, p), ConvertUserStepsList(d, numbers))
<1> DEFINE l == [i \in DOMAIN numbers |-> StepNumbered(d, numbers[i])]
<1>1. \A x : StepNumbered(d, x) # None => StepNumbered(d, x) \in Steps
  <2> TAKE x
  <2> DEFINE S == {s \in Steps : d.step[s].num = x}
  <2>1. S \in SUBSET Nat /\ S \subseteq Steps
    BY DEF Steps
  <2>2. S # {} => Min(S) \in S
    <3> HIDE DEF S
    <3> QED
      BY <2>1, FirstIsThere
  <2> QED
    BY <2>1, <2>2 DEF StepNumbered, FirstOf
<1>2. \A i \in 1 .. n : l[i] # None => l[i] \in On(d, p)
  <2> TAKE i \in 1 .. n
  <2>1. l[i] = StepNumbered(d, numbers[i]) /\ numbers[i] \in Range(numbers)
    BY DEF Range
  <2> QED
    BY <1>1, <2>1 DEF Readable, On
<1>3. DOMAIN l = 1 .. n
  OBVIOUS
<1> HIDE DEF l
<1>4. Compact(On(d, p), PackStepsList(l))
  BY <1>2, <1>3, NoneIsNoStep, PackedIsCompact
<1> QED
  BY <1>4 DEF ConvertUserStepsList, l

(* The numbers shown, up to the first None.                                 *)
LEMMA DisplayedIsAList ==
    ASSUME NEW d, NEW l, DOMAIN l = 1 .. Switchs
    PROVE  \E n \in Nat : DOMAIN Displayed(d, l) = 1 .. n
<1> DEFINE S == {i \in DOMAIN l : l[i] = None} \cup {Switchs + 1}
<1>1. S \in SUBSET Nat /\ S # {} /\ \A i \in S : i - 1 \in Nat
  BY SeqEditorAssumption
<1> HIDE DEF S
<1>2. FirstOf(S) \in S
  BY <1>1, FirstIsThere DEF FirstOf
<1>3. DOMAIN Displayed(d, l) = 1 .. FirstOf(S) - 1
  BY DEF Displayed, Shown, S
<1> QED
  BY <1>1, <1>2, <1>3

(* What is there stays there, when nothing leaves its page.                 *)
PlacesKept(d, m) ==
    /\ \A p : On(d, p) \subseteq On(m, p)
    /\ \A t \in Transis : m.transi[t].page = d.transi[t].page

LEMMA StillThere ==
    ASSUME NEW d, NEW m, NEW p, NEW e, PlacesKept(d, m), There(d, p, e)
    PROVE  There(m, p, e)
BY DEF PlacesKept, There

LEMMA ListsKeepPlaces ==
    ASSUME NEW d, Tables(d), NEW t \in Transis, NEW a, NEW b,
           NEW m, m = [d EXCEPT !.transi[t].act = a, !.transi[t].desact = b]
    PROVE  PlacesKept(d, m)
<1> DEFINE q == [d.transi[t] EXCEPT !.act = a, !.desact = b]
<1>1. m = [d EXCEPT !.transi[t] = q]
  OBVIOUS
<1>2. q.page = d.transi[t].page
  BY SameFewer, ListsOfRow
<1> HIDE DEF q
<1>3. m.step = d.step /\ m.transi = [d.transi EXCEPT ![t] = q]
  BY <1>1 DEF Tables
<1>4. \A x \in Transis : m.transi[x].page = d.transi[x].page
  BY <1>2, <1>3 DEF Tables, TransisTable
<1> QED
  BY <1>3, <1>4 DEF PlacesKept, On

(* The properties saved: what is typed names steps of the page.             *)
LEMMA SaveTransiAlive ==
    ASSUME Careful, Tables(draw), ListsAlive(draw), editing # None, NEW t \in Transis,
           NEW n \in Nat, NEW act, DOMAIN act = 1 .. n,
           NEW k \in Nat, NEW desact, DOMAIN desact = 1 .. k,
           SaveTransi(t, act, desact)
    PROVE  ListsAlive(draw') /\ PlacesKept(draw, draw')
<1> DEFINE a == ConvertUserStepsList(draw, act)
           b == ConvertUserStepsList(draw, desact)
<1>1. draw.transi[t].page = editing
  BY DEF SaveTransi
<1>2. Compact(On(draw, editing), a) /\ Compact(On(draw, editing), b)
  BY ConvertedIsCompact DEF SaveTransi
<1>3. draw' = [draw EXCEPT !.transi[t].act = a, !.transi[t].desact = b]
  BY DEF SaveTransi
<1> HIDE DEF a, b
<1>4. PlacesKept(draw, draw')
  BY <1>3, ListsKeepPlaces
<1> QED
  BY <1>1, <1>2, <1>3, <1>4, ListsAliveTwo

(* The number of a step is not what the lists keep.                         *)
LEMMA SaveStepAlive ==
    ASSUME NEW d, Tables(d), ListsAlive(d), NEW s, NEW n, NEW init,
           NEW m, m = [d EXCEPT !.step[s].num = n, !.step[s].init = init]
    PROVE  ListsAlive(m) /\ PlacesKept(d, m)
<1> DEFINE r == [d.step[s] EXCEPT !.num = n, !.init = init]
<1>1. m.transi = d.transi /\ m.step = [d.step EXCEPT ![s] = r]
  BY DEF Tables
<1>2. s \in Steps => r.page = d.step[s].page
  BY SameFewer DEF IsStep
<1> HIDE DEF r
<1>3. \A x \in Steps : m.step[x].page = d.step[x].page
  BY <1>1, <1>2 DEF Tables, StepsTable
<1>4. \A p : On(d, p) \subseteq On(m, p)
  BY <1>3 DEF On
<1>5. m.transi = d.transi
  BY <1>1
<1> QED
  BY <1>4, <1>5, StillAlive DEF PlacesKept

(* A page reset: its steps and the transitions that name them go together.  *)
LEMMA InitPageAlive ==
    ASSUME Tables(live), ListsAlive(live), NEW p \in Nat, InitSeqElementsOfPage(p)
    PROVE  ListsAlive(live')
<1> DEFINE Step(s) == LET r == live.step[s] IN IF r.page = p THEN [r EXCEPT !.page = None] ELSE r
           Transi(t) == LET r == live.transi[t] IN
                          IF r.page = p THEN [FreeTransi EXCEPT !.at = r.at] ELSE r
           m == live'
<1>1. m.step = [s \in Steps |-> Step(s)] /\ m.transi = [t \in Transis |-> Transi(t)]
  <2>1. \E f : m = [live EXCEPT !.step = [s \in Steps |-> Step(s)],
                                !.transi = [t \in Transis |-> Transi(t)], !.comment = f]
    BY Zenon DEF InitSeqElementsOfPage
  <2> HIDE DEF m, Step, Transi
  <2> QED
    BY <2>1 DEF Tables
<1>2. ASSUME NEW s \in Steps, live.step[s].page # p PROVE m.step[s].page = live.step[s].page
  BY <1>1, <1>2
<1>3. ASSUME NEW t \in Transis
      PROVE  IF live.transi[t].page = p THEN m.transi[t].page = None ELSE m.transi[t] = live.transi[t]
  <2>1. [FreeTransi EXCEPT !.at = live.transi[t].at].page = None
    BY DEF FreeTransi
  <2> QED
    BY <1>1, <2>1
<1> HIDE DEF m
<1>4. ListsAlive(m)
  BY <1>2, <1>3, StillAlive DEF On
<1> QED
  BY <1>4 DEF m

LEMMA StepClickedAlive ==
    ASSUME NEW d, Tables(d), ListsAlive(d), editing # None, NEW e, There(d, editing, e),
           NEW c, NEW init, NEW m, m = StepClicked(d, e, c, init)
    PROVE  ListsAlive(m)
<1>1. CASE e.type = "step" /\ m = DestroyStep(d, e.off)
  BY <1>1, DestroyStepAlive DEF There, On
<1>2. CASE FreeSteps(d) # {} /\ m = CreateStep(d, editing, c, init)
  BY <1>2, CreateStepAlive
<1>3. \/ m = d
      \/ e.type = "step" /\ m = DestroyStep(d, e.off)
      \/ FreeSteps(d) # {} /\ m = CreateStep(d, editing, c, init)
  BY Zenon DEF StepClicked
<1> QED
  BY <1>1, <1>2, <1>3

LEMMA TransiClickedAlive ==
    ASSUME NEW d, Tables(d), ListsAlive(d), editing # None, NEW e,
           NEW c, NEW m, m = TransiClicked(d, e, c)
    PROVE  ListsAlive(m)
<1>1. CASE m = DestroyTransi(d, e.off)
  <2> DEFINE r == [d.transi[e.off] EXCEPT !.page = None]
  <2>1. m = [d EXCEPT !.transi[e.off] = r]
    BY <1>1 DEF DestroyTransi
  <2>2. e.off \in Transis => r.page = None
    BY SameFewer DEF IsTransi
  <2> HIDE DEF r
  <2> QED
    BY <2>1, <2>2, OneTransiAlive
<1>2. CASE m = CreateTransi(d, editing, c)
  BY <1>2, CreateTransiAlive
<1>3. m = d \/ m = DestroyTransi(d, e.off) \/ m = CreateTransi(d, editing, c)
  BY Zenon DEF TransiClicked
<1> QED
  BY <1>1, <1>2, <1>3

LEMMA TwoClicksAlive ==
    ASSUME Tables(draw), ListsAlive(draw), editing # None, There(draw, editing, first.elem),
           NEW tool, NEW c, NEW top, TwoClicks(tool, c, top)
    PROVE  ListsAlive(draw')
<1> DEFINE e == SearchIt(draw, editing, c)
<1>1. There(draw, editing, e)
  BY FoundIsThere
<1>2. draw' = draw \/ draw' \in Linked(first.elem, e, top) \/ draw' \in ManyLinked(tool, first.elem, e)
  BY Zenon DEF TwoClicks
<1> HIDE DEF e
<1>3. \A m \in Linked(first.elem, e, top) : ListsAlive(m)
  <2> TAKE m \in Linked(first.elem, e, top)
  <2>1. \/ m = draw
        \/ /\ first.elem.type = "transi" /\ e.type = "step"
           /\ m = DoLinkTransitionAndStep(draw, first.elem.off, first.top, e.off)
        \/ /\ first.elem.type = "step" /\ e.type = "transi"
           /\ m = DoLinkTransitionAndStep(draw, e.off, top, first.elem.off)
    BY Zenon DEF Linked
  <2>2. CASE /\ first.elem.type = "transi" /\ e.type = "step"
             /\ m = DoLinkTransitionAndStep(draw, first.elem.off, first.top, e.off)
    BY <1>1, <2>2, LinkAlive DEF There
  <2>3. CASE /\ first.elem.type = "step" /\ e.type = "transi"
             /\ m = DoLinkTransitionAndStep(draw, e.off, top, first.elem.off)
    BY <1>1, <2>3, LinkAlive DEF There
  <2> QED
    BY <2>1, <2>2, <2>3
<1>4. \A m \in ManyLinked(tool, first.elem, e) : ListsAlive(m)
  <2> TAKE m \in ManyLinked(tool, first.elem, e)
  <2>1. \/ m = draw
        \/ \E y : m = ManySteps(draw, editing, tool = "start steps", first.elem, e, y)
        \/ m = ManyTransis(draw, editing, tool = "start transis", first.elem, e)
    BY Zenon DEF ManyLinked
  <2>2. ASSUME NEW y, m = ManySteps(draw, editing, tool = "start steps", first.elem, e, y)
        PROVE  ListsAlive(m)
    BY <1>1, <2>2, ManyStepsAlive
  <2>3. CASE m = ManyTransis(draw, editing, tool = "start transis", first.elem, e)
    BY <2>3, ManyTransisAlive
  <2> QED
    BY <2>1, <2>2, <2>3
<1> QED
  BY <1>2, <1>3, <1>4

-----------------------------------------------------------------------------
(* The invariant of the lists, in the tables of the project as in the copy  *)
(* under edit. The element that a tool keeps from its first click is used   *)
(* at the second one without a new search: it has to be there still.        *)

FirstThere ==
    /\ first = [tool |-> first.tool, elem |-> first.elem, top |-> first.top]
    /\ There(draw, editing, first.elem)
    /\ editing = None => first.elem.type \notin {"step", "transi"}

LInv == IInv /\ ListsAlive(live) /\ ListsAlive(draw) /\ FirstThere

LEMMA NoFirstIsThere ==
    /\ NoFirst = [tool |-> NoFirst.tool, elem |-> NoFirst.elem, top |-> NoFirst.top]
    /\ \A d, p : There(d, p, Nothing)
    /\ NoFirst.elem = Nothing /\ Nothing.type \notin {"step", "transi"}
BY DEF NoFirst, Nothing, There

LEMMA ClickAlive ==
    ASSUME Careful, IInv, ListsAlive(draw), editing # None, NEW c \in Places,
           \/ \E init \in BOOLEAN : PutStep(c, init)
           \/ PutTransi(c) \/ PutStepAndTransi(c) \/ Eraser(c) \/ PutComment(c)
    PROVE  ListsAlive(draw')
<1> DEFINE e == SearchIt(draw, editing, c)
<1>1. There(draw, editing, e) /\ Tables(draw) /\ WellDrawn(draw)
  BY FoundIsThere DEF IInv, WellDrawn
<1>2. ASSUME NEW init, PutStep(c, init) PROVE ListsAlive(draw')
  <2>1. draw' = StepClicked(draw, e, c, init)
    BY <1>2 DEF PutStep
  <2> HIDE DEF e
  <2> QED
    BY <1>1, <2>1, StepClickedAlive
<1>3. CASE PutTransi(c)
  <2>1. draw' = TransiClicked(draw, e, c)
    BY <1>3 DEF PutTransi
  <2> HIDE DEF e
  <2> QED
    BY <1>1, <2>1, TransiClickedAlive
<1>4. CASE PutStepAndTransi(c)
  <2> DEFINE m == StepClicked(draw, e, c, FALSE)
  <2>1. draw' = TransiClicked(m, e, Beside(c, 1))
    BY <1>4 DEF PutStepAndTransi
  <2>2. e = Nothing => Vacant(draw, editing, c)
    BY <1>1, SearchVacant
  <2> HIDE DEF e
  <2>3. WellDrawn(m)
    BY <1>1, <2>2, PlacesAreCells, StepClickedWellDrawn
  <2>4. ListsAlive(m)
    BY <1>1, StepClickedAlive
  <2> HIDE DEF m
  <2> QED
    BY <2>1, <2>3, <2>4, TransiClickedAlive DEF WellDrawn
<1>5. CASE Eraser(c)
  <2>1. draw' = DestroyIt(draw, e)
    BY <1>5 DEF Eraser
  <2> HIDE DEF e
  <2> QED
    BY <1>1, <2>1, DestroyItAlive
<1>6. CASE PutComment(c)
  <2>1. \E at : draw' = CreateComment(draw, editing, at) \/ draw' = draw
    BY <1>6, Zenon DEF PutComment
  <2>2. draw'.step = draw.step /\ draw'.transi = draw.transi
    BY <1>1, <2>1 DEF CreateComment, Tables
  <2> QED
    BY <2>2, StillAlive DEF On
<1> QED
  BY <1>2, <1>3, <1>4, <1>5, <1>6

LEMMA StepKeepsLists ==
    ASSUME Careful, LInv, [Next]_vars
    PROVE  LInv'
<1>0. IInv'
  BY StepKeeps DEF LInv
<1>1. /\ IInv /\ Tables(live) /\ Tables(draw) /\ ListsAlive(live) /\ ListsAlive(draw)
      /\ editing \in Pages \cup {None} /\ FirstThere
  BY DEF LInv, IInv, WellDrawn
<1>p. \A p \in Pages : p \in Nat /\ p # None
  BY SeqEditorAssumption DEF None
<1>f. ASSUME first' = NoFirst PROVE FirstThere'
  BY <1>f, NoFirstIsThere DEF FirstThere
<1>g. ASSUME first' = [first EXCEPT !.elem = Nothing] PROVE FirstThere'
  <2>1. first' = [tool |-> first.tool, elem |-> Nothing, top |-> first.top]
    BY <1>1, <1>g DEF FirstThere
  <2> QED
    BY <2>1, NoFirstIsThere DEF FirstThere
<1>h. ASSUME UNCHANGED << editing, first >>, PlacesKept(draw, draw') PROVE FirstThere'
  BY <1>1, <1>h, StillThere DEF FirstThere
<1>2. CASE UNCHANGED vars
  BY <1>0, <1>1, <1>2 DEF vars, LInv, ListsAlive, Alive, On, FirstThere, There
<1>3. CASE ApplySeqPageEdited
  BY <1>0, <1>1, <1>3, <1>g DEF ApplySeqPageEdited, LInv
<1>4. CASE CancelSeqPageEdited
  BY <1>0, <1>1, <1>4, <1>g DEF CancelSeqPageEdited, LInv
<1>5. ASSUME NEW p \in Pages, ModifyCurrentSeqPage(p) PROVE LInv'
  <2>1. FirstThere'
    BY <1>1, <1>5 DEF ModifyCurrentSeqPage, FirstThere, There
  <2> QED
    BY <1>0, <1>1, <1>5, <2>1 DEF ModifyCurrentSeqPage, LInv
<1>6. ASSUME NEW p \in Pages, InitSeqElementsOfPage(p) PROVE LInv'
  <2>1. ListsAlive(live') /\ draw' = live'
    BY <1>1, <1>p, <1>6, InitPageAlive DEF InitSeqElementsOfPage
  <2>2. FirstThere'
    BY <1>1, <1>6 DEF InitSeqElementsOfPage, FirstThere, There
  <2> QED
    BY <1>0, <2>1, <2>2 DEF LInv
<1>7. ASSUME NEW c \in Places,
             \/ \E init \in BOOLEAN : PutStep(c, init)
             \/ PutTransi(c) \/ PutStepAndTransi(c) \/ Eraser(c) \/ PutComment(c)
      PROVE  LInv'
  <2>1. OneClick /\ editing # None
    BY <1>7 DEF PutStep, PutTransi, PutStepAndTransi, Eraser, PutComment, OneClick, Click
  <2>2. ListsAlive(draw')
    BY <1>1, <1>7, <2>1, ClickAlive
  <2> QED
    BY <1>0, <1>1, <1>f, <2>1, <2>2 DEF OneClick, LInv
<1>8. ASSUME NEW c \in Places, NEW tool, NEW top, TwoClicks(tool, c, top) PROVE LInv'
  <2>1. editing # None /\ UNCHANGED << live, editing >>
    BY <1>8 DEF TwoClicks, Click
  <2>2. ListsAlive(draw')
    BY <1>1, <1>8, <2>1, TwoClicksAlive DEF FirstThere
  <2>3. FirstThere'
    <3> DEFINE e == SearchIt(draw, editing, c)
    <3>1. There(draw, editing, e)
      BY FoundIsThere
    <3>2. \/ first' = NoFirst
          \/ first' = [first EXCEPT !.elem = Nothing]
          \/ draw' = draw /\ first' = [tool |-> tool, elem |-> e, top |-> top]
      BY <1>8, Zenon DEF TwoClicks
    <3> HIDE DEF e
    <3>3. CASE draw' = draw /\ first' = [tool |-> tool, elem |-> e, top |-> top]
      BY <2>1, <3>1, <3>3 DEF FirstThere
    <3> QED
      BY <1>f, <1>g, <3>2, <3>3
  <2> QED
    BY <1>0, <1>1, <2>1, <2>2, <2>3 DEF LInv
<1>9. ASSUME NEW s \in Steps, NEW n, NEW init, SaveStep(s, n, init) PROVE LInv'
  <2>1. Click /\ UNCHANGED << live, editing, first >> /\ draw' = [draw EXCEPT !.step[s].num = n, !.step[s].init = init]
    BY <1>9 DEF SaveStep
  <2>2. ListsAlive(draw') /\ PlacesKept(draw, draw')
    BY <1>1, <2>1, SaveStepAlive
  <2>3. FirstThere'
    BY <1>1, <1>h, <2>1, <2>2
  <2> QED
    BY <1>0, <1>1, <2>1, <2>2, <2>3 DEF LInv
<1>10. ASSUME NEW t \in Transis, NEW n \in Numbers,
              \/ SaveTransi(t, << n >>, Displayed(draw, draw.transi[t].desact))
              \/ SaveTransi(t, Displayed(draw, draw.transi[t].act), << n >>)
       PROVE  LInv'
  <2>1. /\ UNCHANGED << live, editing, first >>
        /\ editing # None /\ draw.transi[t].page = editing
    BY <1>10 DEF SaveTransi, Click
  <2>2. Compact(On(draw, editing), draw.transi[t].act) /\ Compact(On(draw, editing), draw.transi[t].desact)
    BY <1>1, <2>1 DEF ListsAlive, Alive
  <2>3. DOMAIN draw.transi[t].act = 1 .. Switchs /\ DOMAIN draw.transi[t].desact = 1 .. Switchs
    BY <2>2 DEF Compact
  <2>4. PICK i \in Nat : DOMAIN Displayed(draw, draw.transi[t].act) = 1 .. i
    BY <2>3, DisplayedIsAList
  <2>5. PICK j \in Nat : DOMAIN Displayed(draw, draw.transi[t].desact) = 1 .. j
    BY <2>3, DisplayedIsAList
  <2>6. 1 \in Nat /\ DOMAIN << n >> = 1 .. 1
    OBVIOUS
  <2>7. CASE SaveTransi(t, << n >>, Displayed(draw, draw.transi[t].desact))
    <3>1. ListsAlive(draw') /\ PlacesKept(draw, draw')
      BY <1>1, <2>1, <2>5, <2>6, <2>7, SaveTransiAlive
    <3>2. FirstThere'
      BY <1>1, <1>h, <2>1, <3>1
    <3> QED
      BY <1>0, <1>1, <2>1, <3>1, <3>2 DEF LInv
  <2>8. CASE SaveTransi(t, Displayed(draw, draw.transi[t].act), << n >>)
    <3>1. ListsAlive(draw') /\ PlacesKept(draw, draw')
      BY <1>1, <2>1, <2>4, <2>6, <2>8, SaveTransiAlive
    <3>2. FirstThere'
      BY <1>1, <1>h, <2>1, <3>1
    <3> QED
      BY <1>0, <1>1, <2>1, <3>1, <3>2 DEF LInv
  <2> QED
    BY <1>10, <2>7, <2>8
<1>11. \/ UNCHANGED vars \/ ApplySeqPageEdited \/ CancelSeqPageEdited
       \/ \E p \in Pages : ModifyCurrentSeqPage(p) \/ InitSeqElementsOfPage(p)
       \/ \E c \in Places :
            \/ \E init \in BOOLEAN : PutStep(c, init)
            \/ PutTransi(c) \/ PutStepAndTransi(c) \/ Eraser(c) \/ PutComment(c)
            \/ \E tool, top : TwoClicks(tool, c, top)
       \/ \E s \in Steps : \E n, init : SaveStep(s, n, init)
       \/ \E t \in Transis, n \in Numbers :
            \/ SaveTransi(t, << n >>, Displayed(draw, draw.transi[t].desact))
            \/ SaveTransi(t, Displayed(draw, draw.transi[t].act), << n >>)
  BY DEF Next
<1> QED
  BY <1>2, <1>3, <1>4, <1>5, <1>6, <1>7, <1>8, <1>9, <1>10, <1>11

(* Every list of the project and of the copy under edit names steps of its  *)
(* page (edit_sequential.c:378-416, 469-489, 689-789), and the first element *)
(* of a tool in two clicks is still there at the second click.              *)
THEOREM ListsInvariance == Careful => (Spec => []LInv)
<1>1. ASSUME Careful PROVE Spec => []LInv
  <2>1. Init => LInv
    <3>1. ASSUME Init PROVE FirstThere
      BY <3>1, NoFirstIsThere DEF Init, FirstThere
    <3> QED
      BY <3>1, Initially, ChartsAssumption DEF LInv, Init
  <2>2. LInv /\ [Next]_vars => LInv'
    BY <1>1, StepKeepsLists
  <2> QED
    BY <2>1, <2>2, PTL DEF Spec
<1> QED
  BY <1>1

(* The lists that the engine reads (calc_sequential.c) have no hole and no  *)
(* step destroyed or of another page, after any number of clicks.           *)
THEOREM ListsNameSteps == Careful => (Spec => []StepsAlive)
<1>1. LInv => StepsAlive
  <2>1. SUFFICES ASSUME LInv, NEW t \in Transis, draw.transi[t].page # None,
                        NEW l \in {draw.transi[t].act, draw.transi[t].desact}
                 PROVE  /\ \A i \in 1 .. Switchs - 1 : l[i] = None => l[i + 1] = None
                        /\ \A i \in 1 .. Switchs : l[i] # None =>
                             draw.step[l[i]].page = draw.transi[t].page
    BY Zenon DEF StepsAlive
  <2>2. Compact(On(draw, draw.transi[t].page), l)
    BY <2>1 DEF LInv, ListsAlive, Alive
  <2> QED
    BY <2>2 DEF Compact, On
<1> QED
  BY <1>1, ListsInvariance, PTL
=============================================================================
