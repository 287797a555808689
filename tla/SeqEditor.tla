------------------------------ MODULE SeqEditor ------------------------------
(* The drawing of the sequential pages (edit_sequential.c): the clicks of  *)
(* the operator on the page under edit and the properties he saves, on a   *)
(* copy of the tables of steps, transitions and comments that replaces     *)
(* them when it is applied. An element is free when its NumPage is -1.     *)
(*                                                                         *)
(* Abstracted: the condition of a transition and the text of a comment;    *)
(* the engine stopped while a page is applied, which RunStop and           *)
(* Sequential have.                                                        *)
EXTENDS Integers, SequencesExt
CONSTANTS
    NbrSteps, NbrTransis, NbrComments,  \* NBR_STEPS, NBR_TRANSITIONS, NBR_SEQ_COMMENTS
    Switchs,        \* NBR_SWITCHS_MAX, the length of the lists of a transition
    Pages, PageWidth, PageHeight,
    CommentWidth,   \* 4
    Charts,         \* what the tables may have at first
    NumberMax,      \* the bound of the step numbers, 9999
    ClicksMax,      \* the bound of the clicks of the operator
    Careful  \* he puts no step and transition above an element, types numbers
             \* of steps of the page only and gives each step its own

Steps == 0 .. NbrSteps - 1
Transis == 0 .. NbrTransis - 1
Comments == 0 .. NbrComments - 1
Places == (0 .. PageWidth - 1) \X (0 .. PageHeight - 1)
None == -1
NoList == [i \in 1 .. Switchs |-> None]

ASSUME SeqEditorAssumption ==
    /\ NbrSteps \in Nat \ {0} /\ NbrTransis \in Nat \ {0} /\ NbrComments \in Nat \ {0}
    /\ Switchs \in Nat /\ PageWidth \in 1 .. Switchs  \* else DoManyTransitionsLinked overflows
    /\ PageHeight \in Nat \ {0} /\ Pages \subseteq Nat
    /\ CommentWidth \in Nat \ {0} /\ NumberMax \in Nat /\ ClicksMax \in Nat
    /\ Careful \in BOOLEAN

VARIABLES
    live,     \* Sequential: the tables of steps, transitions and comments
    editing,  \* the page under edit, or None
    draw,     \* EditSeqDatas
    first,    \* the first element of a tool in two clicks, or NoFirst
    clicks

vars == << live, editing, draw, first, clicks >>
NoFirst == [tool |-> "none", elem |-> [type |-> "none", off |-> None], top |-> FALSE]
Nothing == NoFirst.elem

FreeStep == [page |-> None, at |-> << 0, 0 >>, num |-> 0, init |-> FALSE]
FreeTransi == [page |-> None, at |-> << 0, 0 >>, act |-> NoList, desact |-> NoList,
               start |-> NoList, end |-> NoList]
FreeComment == [page |-> None, at |-> << 0, 0 >>]
NoChart == [step |-> [s \in Steps |-> FreeStep], transi |-> [t \in Transis |-> FreeTransi],
            comment |-> [k \in Comments |-> FreeComment]]

Init ==
    /\ live \in Charts /\ draw = live
    /\ editing = None /\ first = NoFirst /\ clicks = 0

-----------------------------------------------------------------------------
(* The search of an element: the last one of the table at that place.      *)

LastOf(S) == IF S = {} THEN None ELSE Max(S)
FirstOf(S) == IF S = {} THEN None ELSE Min(S)
SearchStep(d, p, c) == LastOf({s \in Steps : d.step[s].page = p /\ d.step[s].at = c})
SearchTransi(d, p, c) == LastOf({t \in Transis : d.transi[t].page = p /\ d.transi[t].at = c})
Covers(k, c) == k.at[2] = c[2] /\ c[1] \in k.at[1] .. k.at[1] + CommentWidth - 1
SearchComment(d, p, c) ==
    LastOf({k \in Comments : d.comment[k].page = p /\ Covers(d.comment[k], c)})

Odd(c) == c[2] % 2 = 1
SearchIt(d, p, c) ==
    LET s == SearchStep(d, p, c)
        t == SearchTransi(d, p, c)
        k == SearchComment(d, p, c)
    IN IF Odd(c) /\ s # None THEN [type |-> "step", off |-> s]
       ELSE IF ~Odd(c) /\ t # None THEN [type |-> "transi", off |-> t]
       ELSE IF k # None THEN [type |-> "comment", off |-> k] ELSE Nothing

FreeSteps(d) == {s \in Steps : d.step[s].page = None}
FreeTransis(d) == {t \in Transis : d.transi[t].page = None}
FreeComments(d) == {k \in Comments : d.comment[k].page = None}
Beside(c, dy) == << c[1], c[2] + dy >>

(* A list read up to its first None: what is not None moves to the front.  *)
Filled(l) == {i \in DOMAIN l : l[i] # None}
Nth(S, i) == CHOOSE x \in S : Cardinality({y \in S : y <= x}) = i
PackStepsList(l) ==
    [i \in 1 .. Switchs |-> IF i <= Cardinality(Filled(l)) THEN l[Nth(Filled(l), i)] ELSE None]
LastFilled(l) == IF Filled(l) = {} THEN None ELSE l[Max(Filled(l))]
Without(l, o) == [i \in DOMAIN l |-> IF l[i] = o THEN None ELSE l[i]]

-----------------------------------------------------------------------------
(* What the clicks do to the tables d. *)

(* Mutant: the transitions keep the step destroyed. *)
DestroyStepOnly(d, s) == [d EXCEPT !.step[s].page = None]
DestroyStep(d, s) ==
    LET Freed(l) == IF \E i \in DOMAIN l : l[i] = s THEN PackStepsList(Without(l, s)) ELSE l
        Row(r) == [r EXCEPT !.act = Freed(r.act), !.desact = Freed(r.desact)]
    IN [d EXCEPT !.step[s].page = None,
                 !.transi = [t \in Transis |->
                    IF d.transi[t].page # d.step[s].page THEN d.transi[t] ELSE Row(d.transi[t])]]
DestroyTransi(d, t) == [d EXCEPT !.transi[t].page = None]
DestroyComment(d, k) == [d EXCEPT !.comment[k].page = None]
DestroyIt(d, e) == CASE e.type = "step" -> DestroyStep(d, e.off)
                     [] e.type = "transi" -> DestroyTransi(d, e.off)
                     [] e.type = "comment" -> DestroyComment(d, e.off)
                     [] OTHER -> d

(* The number of a new step: after the one above it, or the first one that *)
(* one pass over the table, the new step with its old number included,     *)
(* does not find.                                                          *)
AutoNumber(d, p, c) ==
    LET above == SearchStep(d, p, Beside(c, -2))
        Pass(n, s) == IF d.step[s].page # None /\ d.step[s].num = n THEN n + 1 ELSE n
    IN IF above # None THEN d.step[above].num + 1
       ELSE FoldLeft(Pass, 0, [i \in 1 .. NbrSteps |-> i - 1])

CreateStep(d, p, c, init) ==
    LET s == Min(FreeSteps(d))
        e == [d EXCEPT !.step[s] = [page |-> p, at |-> c, num |-> d.step[s].num, init |-> init]]
        above == SearchTransi(d, p, Beside(c, -1))
        below == SearchTransi(d, p, Beside(c, 1))
        Tied == [t \in Transis |->
                   [e.transi[t] EXCEPT !.act[1] = IF t = above THEN s ELSE @,
                                       !.desact[1] = IF t = below THEN s ELSE @]]
    IN [e EXCEPT !.step[s].num = AutoNumber(e, p, c), !.transi = Tied]

CreateTransi(d, p, c) ==
    LET t == Min(FreeTransis(d))
    IN [d EXCEPT !.transi[t] = [page |-> p, at |-> c, start |-> NoList, end |-> NoList,
          desact |-> [NoList EXCEPT ![1] = SearchStep(d, p, Beside(c, -1))],
          act |-> [NoList EXCEPT ![1] = SearchStep(d, p, Beside(c, 1))]]]

CreateComment(d, p, c) ==
    [d EXCEPT !.comment[Min(FreeComments(d))] = [page |-> p, at |-> c]]

DoLinkTransitionAndStep(d, t, top, s) ==
    IF top THEN [d EXCEPT !.transi[t].desact[1] = IF @ = None THEN s ELSE @]
    ELSE [d EXCEPT !.transi[t].act[1] = IF @ = None THEN s ELSE @]

(* CommonSearchForManyStepsOrTransi: the line is the one of the first      *)
(* element; for a step clicked second, the one of the step whose index is  *)
(* the first element's.                                                    *)
AtOf(d, e) == IF e.type = "step" THEN d.step[e.off].at ELSE d.transi[e.off].at
Span(d, e, f) == LET xs == {AtOf(d, e)[1], AtOf(d, f)[1]} IN Min(xs) .. Max(xs)
StepsLines(d, e, f) ==
    IF e.type = "step" THEN {d.step[e.off].at[2]}
    ELSE IF f.type # "step" THEN {}
    ELSE IF e.off \in Steps THEN {d.step[e.off].at[2]} ELSE 0 .. PageHeight - 1
OnLine(found(_), span, y) ==
    [i \in 1 .. PageWidth |-> IF i - 1 \in span THEN found(<< i - 1, y >>) ELSE None]

(* DoManyStepsActOrDesact: the steps of the line, y, become all the steps   *)
(* that the transition clicked, or one of the line beside, sets or resets. *)
ManySteps(d, p, start, e, f, y) ==
    LET span == Span(d, e, f)
        Near == OnLine(LAMBDA c : SearchTransi(d, p, c), span, IF start THEN y - 1 ELSE y + 1)
        t == IF f.type = "transi" THEN f.off ELSE IF e.type = "transi" THEN e.off
             ELSE LastFilled(Near)
        l == PackStepsList(OnLine(LAMBDA c : SearchStep(d, p, c), span, y))
    IN IF t = None THEN d
       ELSE IF start THEN [d EXCEPT !.transi[t].act = l] ELSE [d EXCEPT !.transi[t].desact = l]

(* DoManyTransitionsLinked: every transition of the line gets the others,  *)
(* and the first step of the last of them that has one: as the loop goes   *)
(* on over those already linked, all end with the same step.               *)
ManyTransis(d, p, start, e, f) ==
    LET found == OnLine(LAMBDA c : SearchTransi(d, p, c), Span(d, e, f), AtOf(d, e)[2])
        Heads(l) == [i \in DOMAIN found |-> IF found[i] = None THEN None ELSE l[found[i]][1]]
        Given(l, old) == IF LastFilled(Heads(l)) = None THEN old ELSE LastFilled(Heads(l))
        Link(r, others) ==
          IF start
          THEN [r EXCEPT !.start = others,
                         !.desact[1] = Given([t \in Transis |-> d.transi[t].desact], @)]
          ELSE [r EXCEPT !.end = others, !.act[1] = Given([t \in Transis |-> d.transi[t].act], @)]
    IN IF Cardinality(Filled(found)) < 2 THEN d
       ELSE [d EXCEPT !.transi = [t \in Transis |->
               IF \E i \in DOMAIN found : found[i] = t
               THEN Link(d.transi[t], PackStepsList(Without(found, t))) ELSE d.transi[t]]]

(* ConvertUserStepsList: the first step of the table with that number, be  *)
(* it free or of another page. BuffStepListToDisplay gives the numbers.    *)
StepNumbered(d, n) == FirstOf({s \in Steps : d.step[s].num = n})
ConvertUserStepsList(d, numbers) ==
    PackStepsList([i \in DOMAIN numbers |-> StepNumbered(d, numbers[i])])
Shown(l) == 1 .. FirstOf({i \in DOMAIN l : l[i] = None} \cup {Switchs + 1}) - 1
Displayed(d, l) == [i \in Shown(l) |-> d.step[l[i]].num]

-----------------------------------------------------------------------------
ModifyCurrentSeqPage(p) ==
    /\ editing = None /\ editing' = p
    /\ draw' = live
    /\ UNCHANGED << live, first, clicks >>

ApplySeqPageEdited ==
    /\ editing # None /\ editing' = None
    /\ live' = draw /\ first' = [first EXCEPT !.elem = Nothing]
    /\ UNCHANGED << draw, clicks >>

(* The copy given up is read no more; the model forgets it. *)
CancelSeqPageEdited ==
    /\ editing # None /\ editing' = None
    /\ draw' = live /\ first' = [first EXCEPT !.elem = Nothing]
    /\ UNCHANGED << live, clicks >>

(* A section in sequential added, or deleted, with this page. *)
InitSeqElementsOfPage(p) ==
    /\ editing = None /\ clicks < ClicksMax
    /\ live' = [live EXCEPT
         !.step = [s \in Steps |-> LET r == live.step[s] IN
                     IF r.page = p THEN [r EXCEPT !.page = None] ELSE r],
         !.transi = [t \in Transis |-> LET r == live.transi[t] IN
                       IF r.page = p THEN [FreeTransi EXCEPT !.at = r.at] ELSE r],
         !.comment = [k \in Comments |-> LET r == live.comment[k] IN
                        IF r.page = p THEN [r EXCEPT !.page = None] ELSE r]]
    /\ draw' = live'
    /\ UNCHANGED << editing, first, clicks >>

Click == editing # None /\ clicks < ClicksMax /\ clicks' = clicks + 1
OneClick == Click /\ first' = NoFirst /\ UNCHANGED << live, editing >>

(* ELE_SEQ_STEP, EDIT_SEQ_INIT_STEP: a step, or the one there destroyed. *)
StepClicked(d, e, c, init) ==
    IF ~Odd(c) \/ c[2] >= PageHeight - 1 THEN d
    ELSE IF e.type = "step" THEN DestroyStep(d, e.off)
    ELSE IF e = Nothing /\ FreeSteps(d) # {} THEN CreateStep(d, editing, c, init) ELSE d
(* ELE_SEQ_TRANSITION, with what was found where the operator clicked. *)
TransiClicked(d, e, c) ==
    IF Odd(c) \/ c[2] >= PageHeight - 1 THEN d
    ELSE IF e.type = "transi" THEN DestroyTransi(d, e.off)
    ELSE IF e = Nothing /\ FreeTransis(d) # {} THEN CreateTransi(d, editing, c) ELSE d

PutStep(c, init) ==
    /\ OneClick
    /\ draw' = StepClicked(draw, SearchIt(draw, editing, c), c, init)
PutTransi(c) ==
    /\ OneClick
    /\ draw' = TransiClicked(draw, SearchIt(draw, editing, c), c)
(* The transition goes below; nothing is searched there. *)
PutStepAndTransi(c) ==
    LET e == SearchIt(draw, editing, c)
    IN /\ OneClick
       /\ Careful => SearchIt(draw, editing, Beside(c, 1)) = Nothing
       /\ draw' = TransiClicked(StepClicked(draw, e, c, FALSE), e, Beside(c, 1))

Eraser(c) == OneClick /\ draw' = DestroyIt(draw, SearchIt(draw, editing, c))

(* Mutant: only the first cell of the comment is searched. *)
FirstCellFree(at) == /\ at[1] <= PageWidth - CommentWidth /\ FreeComments(draw) # {}
                     /\ SearchIt(draw, editing, at) = Nothing
RoomForComment(at) ==
    /\ at[1] <= PageWidth - CommentWidth /\ FreeComments(draw) # {}
    /\ \A i \in 0 .. CommentWidth - 1 :
         SearchIt(draw, editing, << at[1] + i, at[2] >>) = Nothing
PutComment(c) ==
    LET e == SearchIt(draw, editing, c)
        at == IF e.type = "comment" THEN draw.comment[e.off].at ELSE c
    IN /\ OneClick
       /\ draw' = IF RoomForComment(at) THEN CreateComment(draw, editing, at) ELSE draw

(* The tools in two clicks: EDIT_SEQ_LINK, and START and END of MANY_STEPS *)
(* and MANY_TRANS.                                                         *)
Linked(e, f, top) ==
    CASE e.type = "transi" /\ f.type = "step" ->
           {DoLinkTransitionAndStep(draw, e.off, first.top, f.off)}
      [] e.type = "step" /\ f.type = "transi" ->
           {DoLinkTransitionAndStep(draw, f.off, top, e.off)}
      [] OTHER -> {draw}
ManyLinked(tool, e, f) ==
    IF ~({e.type, f.type} \subseteq {"step", "transi"}) THEN {draw}
    ELSE IF tool \in {"start steps", "end steps"}
    THEN IF StepsLines(draw, e, f) = {} THEN {draw}
         ELSE {ManySteps(draw, editing, tool = "start steps", e, f, y) : y \in StepsLines(draw, e, f)}
    ELSE IF "step" \in {e.type, f.type} THEN {draw}
    ELSE {ManyTransis(draw, editing, tool = "start transis", e, f)}
TwoClicks(tool, c, top) ==
    LET e == SearchIt(draw, editing, c)
    IN /\ Click /\ UNCHANGED << live, editing >>
       /\ \/ /\ first.tool # tool /\ draw' = draw
             /\ clicks + 1 < ClicksMax  \* of no use as the last click
             /\ first' = IF e = Nothing THEN NoFirst ELSE [tool |-> tool, elem |-> e, top |-> top]
          \/ /\ first.tool = tool /\ e = Nothing /\ draw' = draw
             /\ first' = [first EXCEPT !.elem = Nothing]
          \/ /\ first.tool = tool /\ e # Nothing
             /\ draw' \in IF tool = "link" THEN Linked(first.elem, e, top)
                         ELSE ManyLinked(tool, first.elem, e)
             /\ first' = NoFirst

(* SaveSeqElementProperties, of the element a click of the pointer chose;  *)
(* the lists of a transition are shown as numbers and read back. The first *)
(* click of a tool in two clicks stays.                                    *)
SaveStep(s, n, init) ==
    /\ Click /\ UNCHANGED << live, editing, first >>
    /\ draw.step[s].page = editing
    /\ Careful => \A r \in Steps \ {s} : draw.step[r].num # n
    /\ draw' = [draw EXCEPT !.step[s].num = n, !.step[s].init = init]
Readable(d, p, numbers) ==
    \A s \in {StepNumbered(d, n) : n \in Range(numbers)} \ {None} : d.step[s].page = p
SaveTransi(t, act, desact) ==
    /\ Click /\ UNCHANGED << live, editing, first >>
    /\ draw.transi[t].page = editing
    /\ Careful => Readable(draw, editing, act) /\ Readable(draw, editing, desact)
    /\ draw' = [draw EXCEPT !.transi[t].act = ConvertUserStepsList(draw, act),
                            !.transi[t].desact = ConvertUserStepsList(draw, desact)]

Numbers == 0 .. NumberMax
Next ==
    \/ ApplySeqPageEdited \/ CancelSeqPageEdited
    \/ \E p \in Pages : ModifyCurrentSeqPage(p) \/ InitSeqElementsOfPage(p)
    \/ \E c \in Places :
         \/ \E init \in BOOLEAN : PutStep(c, init)
         \/ PutTransi(c) \/ PutStepAndTransi(c) \/ Eraser(c) \/ PutComment(c)
         \/ \E tool \in {"link", "start steps", "end steps", "start transis", "end transis"},
               top \in BOOLEAN : TwoClicks(tool, c, top)
    \/ \E s \in Steps, n \in Numbers, init \in BOOLEAN : SaveStep(s, n, init)
    \/ \E t \in Transis :
         LET Now(l) == Displayed(draw, l)
         IN \E n \in Numbers : \/ SaveTransi(t, << n >>, Now(draw.transi[t].desact))
                              \/ SaveTransi(t, Now(draw.transi[t].act), << n >>)

Spec == Init /\ [][Next]_vars

-----------------------------------------------------------------------------
(* The lists of a transition, which the engine reads up to their first -1  *)
(* (calc_sequential.c), have no hole and name steps of the page that are   *)
(* there: whatever is destroyed, put back in the same place of the tables, *)
(* linked or typed in the properties.                                      *)
StepsAlive == \A t \in Transis : LET r == draw.transi[t] IN r.page # None =>
    \A l \in {r.act, r.desact} :
        /\ \A i \in 1 .. Switchs - 1 : l[i] = None => l[i + 1] = None
        /\ \A i \in 1 .. Switchs : l[i] # None => draw.step[l[i]].page = r.page

(* A cell of a page has one element at most: of two in a cell the search   *)
(* finds one only, and the other works on unseen and cannot be edited.     *)
(* "There is already an element!" (edit_sequential.c:957, 988).            *)
Alone(d) ==
    /\ \A s, r \in Steps : d.step[s].page # None /\ s # r =>
         << d.step[s].page, d.step[s].at >> # << d.step[r].page, d.step[r].at >>
    /\ \A t, u \in Transis : d.transi[t].page # None /\ t # u =>
         << d.transi[t].page, d.transi[t].at >> # << d.transi[u].page, d.transi[u].at >>
    /\ \A k \in Comments : d.comment[k].page # None =>
         /\ \A s \in Steps : d.step[s].page = d.comment[k].page =>
               ~Covers(d.comment[k], d.step[s].at)
         /\ \A t \in Transis : d.transi[t].page = d.comment[k].page =>
               ~Covers(d.comment[k], d.transi[t].at)
         /\ \A j \in Comments \ {k} : d.comment[j].page = d.comment[k].page =>
               ~Covers(d.comment[k], d.comment[j].at)
OnePerCell == Alone(draw)

-----------------------------------------------------------------------------
(* What the tables have at first is new or was drawn with this editor: the  *)
(* form of a table, steps on odd lines and transitions on even ones - the   *)
(* search of an element looks for the kind of the line only -, one element  *)
(* per cell, and lists of steps of the page, without a hole.                *)
Cells == Int \X Int

IsStep(r) ==
    /\ r = [page |-> r.page, at |-> r.at, num |-> r.num, init |-> r.init]
    /\ r.at \in Cells
IsTransi(r) ==
    /\ r = [page |-> r.page, at |-> r.at, act |-> r.act, desact |-> r.desact,
            start |-> r.start, end |-> r.end]
    /\ r.at \in Cells
IsComment(r) == r = [page |-> r.page, at |-> r.at] /\ r.at \in Cells

StepsTable(f) == f = [s \in Steps |-> f[s]] /\ \A s \in Steps : IsStep(f[s])
TransisTable(f) == f = [t \in Transis |-> f[t]] /\ \A t \in Transis : IsTransi(f[t])
CommentsTable(f) == f = [k \in Comments |-> f[k]] /\ \A k \in Comments : IsComment(f[k])
Tables(d) ==
    /\ d = [step |-> d.step, transi |-> d.transi, comment |-> d.comment]
    /\ StepsTable(d.step) /\ TransisTable(d.transi) /\ CommentsTable(d.comment)

OnTheirLines(d) ==
    /\ \A s \in Steps : d.step[s].page # None => Odd(d.step[s].at)
    /\ \A t \in Transis : d.transi[t].page # None => ~Odd(d.transi[t].at)

WellDrawn(d) == Tables(d) /\ OnTheirLines(d) /\ Alone(d)

(* A list without a hole, whose entries are of A.                           *)
Compact(A, l) ==
    /\ l \in [1 .. Switchs -> A \cup {None}]
    /\ \A i \in 1 .. Switchs - 1 : l[i] = None => l[i + 1] = None

On(d, p) == {s \in Steps : d.step[s].page = p}
Alive(d, r) == Compact(On(d, r.page), r.act) /\ Compact(On(d, r.page), r.desact)
ListsAlive(d) == \A t \in Transis : d.transi[t].page # None => Alive(d, d.transi[t])

ASSUME ChartsAssumption == \A d \in Charts : WellDrawn(d) /\ ListsAlive(d)
=============================================================================
