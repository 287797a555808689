----------------------------- MODULE RungEditor -----------------------------
(* The drawing of one rung: the clicks of the operator on the grid of the  *)
(* rung under edit (edit.c) and the selection of a part of it that is      *)
(* copied or moved (edit_copy.c). A big element has one alive block, its   *)
(* top right one, and the others are unusable; a function block takes a    *)
(* number, a comparison or an operation one of the expressions, from       *)
(* tables shared with all the rungs.                                       *)
(*                                                                         *)
(* Abstracted: rising and falling contacts are contacts, Set and Reset     *)
(* coils are coils, Call is Jump; the variable of a simple element and     *)
(* the properties of a function block are left out, the text of an         *)
(* expression is free, invalid ("#") or a text; a selection is made from   *)
(* the press of the button to its release in one step, and in the rung     *)
(* under edit. A number is 0 where it has no meaning.                      *)
EXTENDS Integers, SequencesExt
CONSTANTS
    Width, Height,     \* RUNG_WIDTH, RUNG_HEIGHT
    Tools,             \* the elements of the tool bar the operator draws
    NbrBlocks, NbrExprs,
    BlocksElsewhere,   \* the numbers of the function blocks of other rungs
    ExprsElsewhere,    \* the expressions of other rungs
    Rungs,             \* what the rung under edit may have at first
    ClicksMax,         \* the bound of the clicks of the operator
    Careful  \* he selects and moves whole elements, pastes where he sees the
             \* place is free and without power, once, what he has not erased
             \* since, moves no expression and renumbers no block

FunctionBlocks == {"counter", "timer", "register"}
WithExpr == {"compar", "operate"}
Big == FunctionBlocks \cup WithExpr
Coils == {"coil", "coilNot", "jump"}
Simple == {"contact", "contactNot"} \cup Coils
Types == Simple \cup Big \cup {"free", "connection", "unusable"}

ASSUME EditorAssumption ==
    /\ Width \in Nat \ {0} /\ Height \in Nat \ {0}
    /\ NbrBlocks \in Nat \ {0} /\ NbrExprs \in Nat \ {0} /\ ClicksMax \in Nat
    /\ Tools \subseteq Types \ {"free", "unusable"}
    /\ BlocksElsewhere \in [FunctionBlocks -> SUBSET (0 .. NbrBlocks - 1)]
    /\ Rungs # {}
    /\ ExprsElsewhere \subseteq 0 .. NbrExprs - 1 /\ Careful \in BOOLEAN

Cells == (0 .. Width - 1) \X (0 .. Height - 1)
Exprs == 0 .. NbrExprs - 1
None == << -1, -1 >>
Before(c, d) == c[2] < d[2] \/ (c[2] = d[2] /\ c[1] < d[1])
First(cells) == CHOOSE c \in cells : \A d \in cells \ {c} : Before(c, d)
(* The cells of a part, row by row; the area of an element. *)
Rows(at, size) == [k \in 1 .. size[1] * size[2] |->
    << at[1] + ((k - 1) % size[1]), at[2] + ((k - 1) \div size[1]) >>]
Selected(at, size) == Range(Rows(at, size))
Shifted(at, o) == << at[1] + o[1], at[2] + o[2] >>

VARIABLES
    live,    \* RungArray's rung and ArithmExpr: a grid, of which the power of
             \* the cells that conduct is left out, and the expressions
    editing, \* EditDatas.ModeEdit
    draw,    \* EditDatas.Rung, EditArithmExpr and the Num...UsedInRung tables
    part,    \* the part selected: where, its size, what was there
    ghost,   \* the cell of the ghost zone, where a click pastes it
    clicks

vars == << live, editing, draw, part, ghost, clicks >>

RulesForSpecialElements ==
    [counter |-> << 2, 4 >>, timer |-> << 2, 2 >>, register |-> << 2, 3 >>,
     compar |-> << 3, 1 >>, operate |-> << 3, 1 >>]
Size(t) == IF t \in Big THEN RulesForSpecialElements[t] ELSE << 1, 1 >>
Area(s, c) == (c[1] - s[1] + 1 .. c[1]) \X (c[2] .. c[2] + s[2] - 1)

Empty == [type |-> "free", num |-> 0, top |-> FALSE, dyn |-> FALSE]
NoPart == [at |-> None, size |-> << 0, 0 >>, cells |-> << >>, cleaned |-> TRUE]

NumbersIn(g, cells, types) == {g[d].num : d \in {b \in cells : g[b].type \in types}}
NumbersOf(g) == [t \in FunctionBlocks |-> BlocksElsewhere[t] \cup NumbersIn(g, Cells, {t})]

(* A rung of the project, or a new one; the expressions it does not use    *)
(* are free but for those of other rungs.                                  *)
Init ==
    /\ \E g \in Rungs : live =
         [grid |-> g, exprs |-> [e \in Exprs |->
            IF e \in ExprsElsewhere \cup NumbersIn(g, Cells, WithExpr) THEN "text" ELSE ""]]
    /\ editing = FALSE
    /\ draw = [grid |-> live.grid, exprs |-> live.exprs, busy |-> NumbersOf(live.grid)]
    /\ part = NoPart /\ ghost = None /\ clicks = 0

-----------------------------------------------------------------------------
(* What the clicks are made of, on a drawing s. *)

(* Mutant: an expression is not given back with its block. *)
KeepExpr(s, cells) == s.exprs

FreeExpr(s, cells) == [e \in Exprs |->
    IF e \in NumbersIn(s.grid, cells, WithExpr) THEN "" ELSE s.exprs[e]]
FreeNumber(s, cells) == [t \in FunctionBlocks |-> s.busy[t] \ NumbersIn(s.grid, cells, {t})]

(* CleanForBigElement: the cells of an element t of alive block c. *)
CleanForBigElement(s, t, c, fill) ==
    LET cells == IF t \in Big THEN Area(Size(t), c) \cap Cells ELSE {}
    IN [grid  |-> [d \in Cells |-> IF d \in cells THEN [Empty EXCEPT !.type = fill] ELSE s.grid[d]],
        exprs |-> FreeExpr(s, cells), busy |-> FreeNumber(s, cells)]

VerticalCleanup(g, c) ==
    LET Down == << c[1], c[2] + 1 >>
        Left == << c[1] - 1, c[2] >>
        Needed == \/ Down \in Cells /\ g[Down].top
                  \/ c[1] < Width - 1 /\ g[c].type # "free"
                  \/ Left \in Cells /\ g[Left].type # "free"
    IN IF c \notin Cells \/ Needed THEN g ELSE [g EXCEPT ![c].top = FALSE]

(* Mutant: an element erased keeps its power. *)
FullDeletePowered(s, c) ==
    LET t == s.grid[c].type
        r == CleanForBigElement(s, t, c, "free")
        g == [r.grid EXCEPT ![c].type = "free", ![c].num = 0]
    IN [r EXCEPT !.grid = IF t \in Simple
          THEN VerticalCleanup(VerticalCleanup(g, c), << c[1] + 1, c[2] >>) ELSE g]

FullDeleteElement(s, c) ==
    LET t == s.grid[c].type
        r == CleanForBigElement(s, t, c, "free")
        g == [r.grid EXCEPT ![c].type = "free", ![c].dyn = FALSE, ![c].num = 0]
    IN [r EXCEPT !.grid = IF t \in Simple
          THEN VerticalCleanup(VerticalCleanup(g, c), << c[1] + 1, c[2] >>) ELSE g]

(* CheckForBlocksOfBigElement: the alive block for a click on c. *)
AliveBlock(g, c) ==
    LET Hit(d) == /\ g[d].type \in Big
                  /\ c[1] \in d[1] - Size(g[d].type)[1] - 1 .. d[1]
                  /\ c[2] \in d[2] .. d[2] + Size(g[d].type)[2] - 1
        Hits == {d \in Cells : Hit(d)}
    IN IF g[c].type # "unusable" \/ Hits = {} THEN c ELSE First(Hits)

(* Mutant: an element is drawn over part of a big one. *)
FitsAlive(g, s, output, c) ==
    /\ c[1] = Width - 1 => output
    /\ Area(s, c) \subseteq Cells
    /\ g[c].type \notin Big \cup {"unusable"}

(* VerifyConstraintsAndRulesForElement, at c, of something of size s. *)
Fits(g, s, output, c) ==
    /\ c[1] = Width - 1 => output
    /\ Area(s, c) \subseteq Cells
    /\ IF s = << 1, 1 >> THEN g[c].type \notin Big \cup {"unusable"}
       ELSE \A d \in Area(s, c) : g[d].type \in {"free", "connection"}

(* PrepBeforeSettingTypeEleForComplexBlocsAndExpr: an element takes the    *)
(* first number, or the first expression, that is available.               *)
FreeExprs(s) == {e \in Exprs : s.exprs[e] = ""}
FreeNumbers(s, t) == 0 .. NbrBlocks - 1 \ s.busy[t]
Available(s, t) == IF t \in FunctionBlocks THEN FreeNumbers(s, t)
                   ELSE IF t \in WithExpr THEN FreeExprs(s) ELSE {0}
Number(s, t) == CHOOSE m \in Available(s, t) : \A k \in Available(s, t) : m <= k
Prep(s, t) ==
    [grid  |-> s.grid,
     exprs |-> IF t \in WithExpr THEN [s.exprs EXCEPT ![Number(s, t)] = "#"] ELSE s.exprs,
     busy  |-> IF t \in FunctionBlocks THEN [s.busy EXCEPT ![t] = @ \cup {Number(s, t)}]
               ELSE s.busy]

Drawn(s, t, c) ==
    LET r == CleanForBigElement(Prep(s, t), t, c, "unusable")
    IN [r EXCEPT !.grid[c].type = t, !.grid[c].num = Number(s, t)]

-----------------------------------------------------------------------------
(* The rung under edit. *)

(* What a refresh of the rung leaves: b at the outputs of what is drawn; it *)
(* never writes the other cells, free or hidden by a big element.          *)
Outputs(t) == CASE t = "counter" -> 3 [] t = "register" -> 2
                [] t \in {"free", "unusable"} -> 0 [] OTHER -> 1
Written(g, c) == \E y \in 0 .. c[2] : Outputs(g[<< c[1], y >>].type) > c[2] - y
Powered(g, b) == [c \in Cells |-> IF Written(g, c) THEN [g[c] EXCEPT !.dyn = b] ELSE g[c]]
Copied(b) == [grid |-> Powered(live.grid, b), exprs |-> live.exprs, busy |-> NumbersOf(live.grid)]

(* ModifyCurrentRung, and AddRung for a rung that is empty. *)
ModifyCurrentRung == \E b \in BOOLEAN :
    /\ ~editing /\ editing' = TRUE
    /\ draw' = Copied(b)
    /\ UNCHANGED << live, part, ghost, clicks >>

ApplyRungEdited ==
    /\ editing /\ editing' = FALSE /\ ghost' = None
    /\ live' = [grid |-> Powered(draw.grid, FALSE), exprs |-> draw.exprs]
    /\ draw' = Copied(FALSE)'
    /\ UNCHANGED << part, clicks >>

(* The rung given up is read no more; the model forgets it. *)
CancelRungEdited ==
    /\ editing /\ editing' = FALSE /\ ghost' = None
    /\ draw' = Copied(FALSE)
    /\ UNCHANGED << live, part, clicks >>

Click == editing /\ clicks < ClicksMax /\ clicks' = clicks + 1

(* MovePosiForBigElementToAliveBlock: what is drawn starts where the mouse is. *)
MovePosi(s, c) == << Min({c[1] + s[1] - 1, Width - 1}), c[2] >>

(* A click with an element of the tool bar: draw it, or erase the same. *)
DrawElement(t, c) ==
    LET d == MovePosi(Size(t), c)
    IN /\ Click /\ ghost' = None
       /\ draw' = IF draw.grid[d].type = t THEN FullDeleteElement(draw, d)
                  ELSE IF /\ Fits(draw.grid, Size(t), t \in Coils \cup {"operate"}, d)
                          /\ Available(draw, t) # {}
                       THEN Drawn(draw, t, d) ELSE draw
       /\ UNCHANGED << live, editing, part >>

Erase(c) ==
    LET d == AliveBlock(draw.grid, c)
    IN /\ Click /\ ghost' = None
       /\ draw' = IF draw.grid[d].type = "free" THEN [draw EXCEPT !.grid[d].top = FALSE]
                  ELSE FullDeleteElement(draw, d)
       /\ UNCHANGED << live, editing, part >>

ConnectWithTop(c) ==
    /\ Click /\ ghost' = None
    /\ draw' = [draw EXCEPT !.grid[c].top = ~@ /\ c[2] > 0]
    /\ UNCHANGED << live, editing, part >>

LongConnection(c) ==
    LET Reached(x) == x < Width - 1 /\ \A k \in c[1] .. x : draw.grid[<< k, c[2] >>].type = "free"
    IN /\ Click /\ ghost' = None
       /\ draw' = [draw EXCEPT !.grid = [d \in Cells |->
            IF d[2] = c[2] /\ d[1] >= c[1] /\ Reached(d[1])
            THEN [@[d] EXCEPT !.type = "connection"] ELSE @[d]]]
       /\ UNCHANGED << live, editing, part >>

Inverted(t) == CASE t = "contact" -> "contactNot" [] t = "contactNot" -> "contact"
                 [] t = "coil" -> "coilNot" [] t = "coilNot" -> "coil" [] OTHER -> t
InvertContact(c) ==
    /\ Click /\ ghost' = None
    /\ draw' = [draw EXCEPT !.grid[c].type = Inverted(@)]
    /\ UNCHANGED << live, editing, part >>

(* SaveElementProperties, of the element a click of the pointer chose: the *)
(* number of a function block, the text of an expression.                  *)
SaveElementProperties(c, n) ==
    LET d == AliveBlock(draw.grid, c)
        e == draw.grid[d]
    IN /\ Click /\ ghost' = None
       /\ \/ /\ e.type \in FunctionBlocks
             /\ Careful => n = e.num
             /\ draw' = [draw EXCEPT !.grid[d].num = n]
          \/ /\ e.type \in WithExpr
             /\ draw' = [draw EXCEPT !.exprs[e.num] = "text"]
       /\ UNCHANGED << live, editing, part >>

-----------------------------------------------------------------------------
(* A part of the rung, copied or moved. *)

Whole(g, cells) == \A d \in Cells : g[d].type \in Big =>
    LET a == Area(Size(g[d].type), d) IN a \subseteq cells \/ a \cap cells = {}
ToTheRight(p) == p.at[1] + p.size[1] = Width

(* StartOrMotionPartSelection, then EndPartSelection. *)
SelectPart(c, d) ==
    LET size == << d[1] - c[1] + 1, d[2] - c[2] + 1 >>
    IN /\ Click /\ d[1] >= c[1] /\ d[2] >= c[2]
       /\ clicks + 1 < ClicksMax  \* of no use as the last click
       /\ Careful => Whole(draw.grid, Selected(c, size))
       /\ part' = [at |-> c, size |-> size, cleaned |-> FALSE,
                   cells |-> [o \in Selected(<< 0, 0 >>, size) |->
                               draw.grid[Shifted(c, o)]]]
       /\ ghost' = None
       /\ UNCHANGED << live, editing, draw >>

(* The first k cells of the part erased in turn, row by row. *)
Cleaned(s, rows) ==
    LET cleaned[k \in 0 .. Len(rows)] ==
          IF k = 0 THEN s ELSE FullDeleteElement(cleaned[k - 1], rows[k])
    IN cleaned

(* CleanUpSrcWhenStartMoving, as the tool is chosen, once. *)
StartMoving ==
    /\ editing /\ ~part.cleaned
    /\ Careful => /\ Whole(draw.grid, Selected(part.at, part.size))
                  /\ \A d \in Selected(part.at, part.size) : draw.grid[d].type \notin WithExpr
    /\ draw' = LET rows == Rows(part.at, part.size) IN Cleaned(draw, rows)[Len(rows)]
    /\ part' = [part EXCEPT !.cleaned = TRUE]
    /\ ghost' = None
    /\ UNCHANGED << live, editing, clicks >>

(* MouseMotionOnRung: the ghost follows the mouse where the part fits. *)
MouseMotionOnRung(c) ==
    LET d == MovePosi(part.size, c)
    IN /\ editing /\ part # NoPart /\ clicks < ClicksMax
       /\ ghost' = IF Fits(draw.grid, part.size, ToTheRight(part), d)
                   THEN << d[1] - part.size[1] + 1, d[2] >> ELSE None
       /\ UNCHANGED << live, editing, draw, part, clicks >>

(* CopyFunctionBlockPropertiesOrExpr: the text read is the one the number  *)
(* of the source has now.                                                  *)
CopyExpr(exprs, src, n) ==
    IF src.type \in WithExpr THEN [exprs EXCEPT ![n] = exprs[src.num]] ELSE exprs

(* CopyRungPartSrcToDest: a cell of the part copied to d, then the first   *)
(* cells of the part in turn.                                              *)
Paste(s, src, d) ==
    LET p == Prep(s, src.type)
        n == Number(s, src.type)
    IN IF Available(s, src.type) = {} THEN [s EXCEPT !.grid[d].num = -1]
       ELSE [grid |-> [s.grid EXCEPT ![d] = [type |-> src.type, num |-> n,
                                             top |-> src.top, dyn |-> @.dyn]],
             exprs |-> CopyExpr(p.exprs, src, n), busy |-> p.busy]
Pasted(s, cells, to, rows) ==
    LET pasted[k \in 0 .. Len(rows)] ==
          IF k = 0 THEN s
          ELSE Paste(pasted[k - 1], cells[rows[k]], Shifted(to, rows[k]))
    IN pasted

OfPart(types) == {o \in DOMAIN part.cells : part.cells[o].type \in types}

(* CopyNowPartSelected: nothing is verified again since the mouse moved. *)
CopyNowPartSelected ==
    /\ Click /\ part # NoPart /\ ghost # None
    /\ Careful => /\ Fits(draw.grid, part.size, ToTheRight(part), << ghost[1] + part.size[1] - 1, ghost[2] >>)
                  /\ \A d \in Selected(ghost, part.size) : ~draw.grid[d].dyn
                  /\ \A o \in OfPart(WithExpr) : draw.exprs[part.cells[o].num] # ""
                  /\ Cardinality(OfPart(WithExpr)) <= Cardinality(Available(draw, "compar"))
                  /\ \A t \in FunctionBlocks :
                        Cardinality(OfPart({t})) <= Cardinality(Available(draw, t))
    /\ draw' = LET rows == Rows(<< 0, 0 >>, part.size)
               IN Pasted(draw, part.cells, ghost, rows)[Len(rows)]
    /\ UNCHANGED << live, editing, part, ghost >>

Next ==
    \/ ModifyCurrentRung \/ ApplyRungEdited \/ CancelRungEdited
    \/ \E c \in Cells :
         \/ \E t \in Tools : DrawElement(t, c)
         \/ Erase(c) \/ ConnectWithTop(c) \/ LongConnection(c) \/ InvertContact(c)
         \/ \E n \in 0 .. NbrBlocks - 1 : SaveElementProperties(c, n)
         \/ \E d \in Cells : SelectPart(c, d)
         \/ MouseMotionOnRung(c)
    \/ StartMoving \/ CopyNowPartSelected

Spec == Init /\ [][Next]_vars

-----------------------------------------------------------------------------
(* Every unusable cell is part of exactly one big element, the cells of a  *)
(* big element other than its alive one are all unusable and in the grid,  *)
(* and the last column has nothing but coils. The evaluation of a big      *)
(* element takes it for granted when it reads and writes the cells around  *)
(* its alive one (calc.c); drawing, erasing, copying and moving keep it so *)
(* cell by cell.                                                           *)
Hidden(g, d) == Area(Size(g[d].type), d) \ {d}
Formed(g) ==
    LET Alive == {d \in Cells : g[d].type \in Big}
    IN /\ \A d \in Alive : Hidden(g, d) \subseteq {c \in Cells : g[c].type = "unusable"}
       /\ \A c \in Cells : g[c].type = "unusable" =>
            \E d \in Alive : c \in Hidden(g, d) /\ \A o \in Alive : c \in Hidden(g, o) => o = d
       /\ \A c \in Cells : c[1] = Width - 1 =>
            g[c].type \in Coils \cup {"operate", "free", "unusable"}
WellFormed == Formed(draw.grid)

(* No two blocks share a number or an expression, and what is marked used  *)
(* is used, here or in another rung: nothing is lost by drawing, erasing,  *)
(* copying and giving up an edit (edit.c:655-812, edit_copy.c:140-171).    *)
Users(g, types, n) == {d \in Cells : g[d].type \in types /\ g[d].num = n}
Owned(g, exprs, busy) ==
    /\ \A e \in Exprs :
         /\ \A c, d \in Users(g, WithExpr, e) : c = d
         /\ exprs[e] # "" <=> Users(g, WithExpr, e) # {} \/ e \in ExprsElsewhere
    /\ \A t \in FunctionBlocks, n \in 0 .. NbrBlocks - 1 :
         /\ \A c, d \in Users(g, {t}, n) : c = d
         /\ n \in busy[t] <=> Users(g, {t}, n) # {} \/ n \in BlocksElsewhere[t]
BlocksOwned == Owned(draw.grid, draw.exprs, draw.busy)

(* A cell with no output of an element in it carries no power: the refresh *)
(* never writes its DynamicOutput, but StateOnLeft reads it for what is on *)
(* its right (calc.c:285), so the editor has to clear it whatever it       *)
(* removes there.                                                          *)
Dead(g) == \A c \in Cells : g[c].dyn => Written(g, c)
FreeCellsDead == Dead(draw.grid)

(* A click of the eraser on a part of a big element erases that one: every *)
(* big element the click was not in is there after it, as the comment on   *)
(* CheckForBlocksOfBigElement says (edit.c:1049-1050, 1072).               *)
EraseHits == [][\A c \in Cells : Erase(c) =>
    \A d \in Cells : draw.grid[d].type \in Big /\ c \notin Area(Size(draw.grid[d].type), d)
        => draw'.grid[d].type = draw.grid[d].type]_vars

-----------------------------------------------------------------------------
(* What the editor begins with are rungs such as it makes: whole elements, *)
(* numbers and expressions of their own, no power in a free cell.          *)
Grids == [Cells -> [type : Types, num : Nat, top : BOOLEAN, dyn : BOOLEAN]]
Numbered(g) ==
    /\ \A c \in Cells : g[c].type \in WithExpr => g[c].num \in Exprs \ ExprsElsewhere
    /\ \A c \in Cells : g[c].type \in FunctionBlocks =>
         g[c].num \in (0 .. NbrBlocks - 1) \ BlocksElsewhere[g[c].type]
    /\ \A c, d \in Cells :
         /\ g[c].num = g[d].num
         /\ \/ {g[c].type, g[d].type} \subseteq WithExpr
            \/ g[c].type \in FunctionBlocks /\ g[c].type = g[d].type
         => c = d
ASSUME RungsAssumption == \A g \in Rungs : g \in Grids /\ Formed(g) /\ Numbered(g) /\ Dead(g)
=============================================================================
