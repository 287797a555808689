-------------------------- MODULE RungEditorProofs --------------------------
(* What TLAPS proves of the drawing of a rung, for a grid, tables of blocks *)
(* and expressions of any size, and any number of clicks.                  *)
EXTENDS RungEditor, FiniteSetTheorems, WellFoundedInduction, TLAPS

Drawings == [grid : Grids, exprs : [Exprs -> {"", "#", "text"}],
             busy : [FunctionBlocks -> SUBSET (0 .. NbrBlocks - 1)]]

(* What is marked used is used, here or in another rung.                   *)
Marked(s) ==
    /\ \A e \in Exprs : s.exprs[e] # "" <=>
         \/ e \in ExprsElsewhere
         \/ \E c \in Cells : s.grid[c].type \in WithExpr /\ s.grid[c].num = e
    /\ \A t \in FunctionBlocks, n \in 0 .. NbrBlocks - 1 : n \in s.busy[t] <=>
         \/ n \in BlocksElsewhere[t]
         \/ \E c \in Cells : s.grid[c].type = t /\ s.grid[c].num = n

Sound(s) == s \in Drawings /\ Numbered(s.grid) /\ Marked(s)

LEMMA SoundIsOwned ==
  ASSUME NEW s, Sound(s)
  PROVE  Owned(s.grid, s.exprs, s.busy)
<1> DEFINE g == s.grid
<1>1. ASSUME NEW e \in Exprs
      PROVE  /\ \A c, d \in Users(g, WithExpr, e) : c = d
             /\ s.exprs[e] # "" <=> Users(g, WithExpr, e) # {} \/ e \in ExprsElsewhere
  <2>1. \A c, d \in Users(g, WithExpr, e) : c = d
    BY DEF Users, Sound, Numbered
  <2>2. Users(g, WithExpr, e) # {} <=> \E c \in Cells : g[c].type \in WithExpr /\ g[c].num = e
    BY DEF Users
  <2> QED
    BY <2>1, <2>2 DEF Sound, Marked
<1>2. ASSUME NEW t \in FunctionBlocks, NEW n \in 0 .. NbrBlocks - 1
      PROVE  /\ \A c, d \in Users(g, {t}, n) : c = d
             /\ n \in s.busy[t] <=> Users(g, {t}, n) # {} \/ n \in BlocksElsewhere[t]
  <2>1. \A c, d \in Users(g, {t}, n) : c = d
    BY DEF Users, Sound, Numbered
  <2>2. Users(g, {t}, n) # {} <=> \E c \in Cells : g[c].type = t /\ g[c].num = n
    BY DEF Users
  <2> QED
    BY <2>1, <2>2 DEF Sound, Marked
<1> QED
  BY <1>1, <1>2 DEF Owned

-----------------------------------------------------------------------------
(* The elements: their size and their outputs, which are cells of theirs.  *)

LEMMA SizeIs ==
  ASSUME NEW t \in Types
  PROVE  /\ Size(t) \in (1 .. 3) \X (1 .. 4) /\ Outputs(t) \in 0 .. 3
         /\ Outputs(t) <= Size(t)[2]
         /\ t \notin Big => Size(t) = << 1, 1 >> /\ Outputs(t) <= 1
         /\ t \in Big => Size(t) # << 1, 1 >>
         /\ Outputs(t) = 0 <=> t \in {"free", "unusable"}
BY DEF Types, Simple, Coils, Big, FunctionBlocks, WithExpr, Size, Outputs, RulesForSpecialElements

LEMMA CellsAre ==
  ASSUME NEW c
  PROVE  /\ c \in Cells => /\ c = << c[1], c[2] >> /\ c[1] \in 0 .. Width - 1
                           /\ c[2] \in 0 .. Height - 1 /\ c[1] \in Int /\ c[2] \in Int
         /\ \A x \in 0 .. Width - 1, y \in 0 .. Height - 1 : << x, y >> \in Cells
BY EditorAssumption DEF Cells

(* The cells an element t of alive block c takes.                          *)
Cleared(t, c) == IF t \in Big THEN Area(Size(t), c) \cap Cells ELSE {}

LEMMA AreaIs ==
  ASSUME NEW t \in Types, NEW c \in Cells
  PROVE  /\ c \in Area(Size(t), c)
         /\ \A d \in Area(Size(t), c) : d[1] <= c[1] /\ d[2] >= c[2] /\ d[1] \in Int /\ d[2] \in Int
         /\ t \notin Big => Area(Size(t), c) = {c}
         /\ t \in Big => c \in Cleared(t, c)
         /\ \A d \in Cells : d[1] = c[1] /\ d[2] >= c[2] /\ Outputs(t) > d[2] - c[2]
                             => d \in Area(Size(t), c)
<1>1. c = << c[1], c[2] >> /\ c[1] \in Int /\ c[2] \in Int
  BY CellsAre
<1>2. PICK w \in 1 .. 3, h \in 1 .. 4 : Size(t) = << w, h >>
  BY SizeIs
<1>3. Area(Size(t), c) = (c[1] - w + 1 .. c[1]) \X (c[2] .. c[2] + h - 1)
  BY <1>2 DEF Area
<1>4. c \in Area(Size(t), c)
  BY <1>1, <1>3
<1>5. t \notin Big => Area(Size(t), c) = {c}
  <2>1. t \notin Big => w = 1 /\ h = 1
    BY <1>2, SizeIs
  <2>2. \A d : d \in (c[1] .. c[1]) \X (c[2] .. c[2]) <=> d = << c[1], c[2] >>
    BY <1>1
  <2>3. c[1] - 1 + 1 = c[1] /\ c[2] + 1 - 1 = c[2]
    BY <1>1
  <2> QED
    BY <1>1, <1>3, <2>1, <2>2, <2>3
<1>6. ASSUME NEW d \in Cells, d[1] = c[1], d[2] >= c[2], Outputs(t) > d[2] - c[2]
      PROVE  d \in Area(Size(t), c)
  <2>1. d = << d[1], d[2] >> /\ d[2] \in Int
    BY CellsAre
  <2>2. Outputs(t) <= h /\ Outputs(t) \in Int
    BY <1>2, SizeIs
  <2> QED
    BY <1>1, <1>3, <1>6, <2>1, <2>2
<1> QED
  BY <1>1, <1>3, <1>4, <1>5, <1>6 DEF Cleared

-----------------------------------------------------------------------------
(* What clearing the cells of an element leaves.                           *)
LEMMA CleanIs ==
  ASSUME NEW s \in Drawings, NEW t \in Types, NEW c \in Cells, NEW fill \in {"free", "unusable"}
  PROVE  LET r == CleanForBigElement(s, t, c, fill)
         IN /\ r \in Drawings
            /\ r.exprs = FreeExpr(s, Cleared(t, c)) /\ r.busy = FreeNumber(s, Cleared(t, c))
            /\ \A d \in Cleared(t, c) : r.grid[d].type = fill /\ ~r.grid[d].dyn
            /\ \A d \in Cells \ Cleared(t, c) : r.grid[d] = s.grid[d]
<1> DEFINE r == CleanForBigElement(s, t, c, fill)
           E == [Empty EXCEPT !.type = fill]
<1>1. E \in [type : Types, num : Nat, top : BOOLEAN, dyn : BOOLEAN] /\ E.type = fill /\ ~E.dyn
  BY DEF Empty, Types
<1>2. /\ r.grid = [d \in Cells |-> IF d \in Cleared(t, c) THEN E ELSE s.grid[d]]
      /\ r.exprs = FreeExpr(s, Cleared(t, c)) /\ r.busy = FreeNumber(s, Cleared(t, c))
      /\ r = [grid |-> r.grid, exprs |-> r.exprs, busy |-> r.busy]
  BY DEF CleanForBigElement, Cleared
<1>0. /\ s.grid \in [Cells -> [type : Types, num : Nat, top : BOOLEAN, dyn : BOOLEAN]]
      /\ s.busy \in [FunctionBlocks -> SUBSET (0 .. NbrBlocks - 1)]
  BY DEF Drawings, Grids
<1> HIDE DEF E, r
<1>3. r.grid \in Grids
  <2>1. ASSUME NEW d \in Cells
        PROVE  (IF d \in Cleared(t, c) THEN E ELSE s.grid[d])
                 \in [type : Types, num : Nat, top : BOOLEAN, dyn : BOOLEAN]
    BY <1>0, <1>1
  <2> QED
    BY <1>2, <2>1 DEF Grids
<1>4. r.exprs \in [Exprs -> {"", "#", "text"}]
  BY <1>2 DEF FreeExpr, Drawings
<1>5. r.busy \in [FunctionBlocks -> SUBSET (0 .. NbrBlocks - 1)]
  <2>1. ASSUME NEW u \in FunctionBlocks
        PROVE  s.busy[u] \ NumbersIn(s.grid, Cleared(t, c), {u}) \in SUBSET (0 .. NbrBlocks - 1)
    BY <1>0
  <2> QED
    BY <1>2, <2>1 DEF FreeNumber
<1>6. r \in Drawings
  BY <1>2, <1>3, <1>4, <1>5 DEF Drawings
<1>7. Cleared(t, c) \subseteq Cells
  BY DEF Cleared
<1> QED
  BY <1>1, <1>2, <1>6, <1>7 DEF r

(* VerticalCleanup looks at the links with the line above, and changes     *)
(* nothing else.                                                           *)
LEMMA CleanupIs ==
  ASSUME NEW g \in Grids, NEW c
  PROVE  LET h == VerticalCleanup(g, c)
         IN /\ h \in Grids
            /\ \A d \in Cells : h[d].type = g[d].type /\ h[d].num = g[d].num /\ h[d].dyn = g[d].dyn
BY DEF VerticalCleanup, Grids

Erased(s, c) == Cleared(s.grid[c].type, c) \cup {c}

(* What erasing an element leaves: all its cells free, the others but for  *)
(* their links with the line above.                                        *)
LEMMA EraseIs ==
  ASSUME NEW s \in Drawings, NEW c \in Cells
  PROVE  LET r == FullDeleteElement(s, c)  t == s.grid[c].type
         IN /\ r \in Drawings
            /\ r.exprs = FreeExpr(s, Cleared(t, c)) /\ r.busy = FreeNumber(s, Cleared(t, c))
            /\ \A d \in Erased(s, c) : r.grid[d].type = "free" /\ ~r.grid[d].dyn
            /\ \A d \in Cells \ Erased(s, c) : /\ r.grid[d].type = s.grid[d].type
                                              /\ r.grid[d].num = s.grid[d].num
                                              /\ r.grid[d].dyn = s.grid[d].dyn
<1> DEFINE t == s.grid[c].type
           q == CleanForBigElement(s, t, c, "free")
           g == [q.grid EXCEPT ![c].type = "free", ![c].dyn = FALSE, ![c].num = 0]
           h == IF t \in Simple
                THEN VerticalCleanup(VerticalCleanup(g, c), << c[1] + 1, c[2] >>) ELSE g
           r == FullDeleteElement(s, c)
<1>1. t \in Types
  BY DEF Drawings, Grids
<1>2. /\ q \in Drawings
      /\ q.exprs = FreeExpr(s, Cleared(t, c)) /\ q.busy = FreeNumber(s, Cleared(t, c))
      /\ \A d \in Cleared(t, c) : q.grid[d].type = "free" /\ ~q.grid[d].dyn
      /\ \A d \in Cells \ Cleared(t, c) : q.grid[d] = s.grid[d]
  BY <1>1, CleanIs
<1>3. r.grid = h /\ r.exprs = q.exprs /\ r.busy = q.busy
      /\ r = [grid |-> h, exprs |-> q.exprs, busy |-> q.busy]
  <2>1. r = [q EXCEPT !.grid = h]
    BY DEF FullDeleteElement
  <2>2. q = [grid |-> q.grid, exprs |-> q.exprs, busy |-> q.busy]
    BY DEF CleanForBigElement
  <2> HIDE DEF q, h, r
  <2> QED
    BY <2>1, <2>2
<1> HIDE DEF q
<1>4. /\ g \in Grids /\ g[c].type = "free" /\ ~g[c].dyn
      /\ \A d \in Cells \ {c} : g[d] = q.grid[d]
  <2>1. q.grid \in Grids
    BY <1>2 DEF Drawings
  <2>2. g \in Grids
    BY <2>1, ZenonT(60) DEF Grids, Types
  <2> QED
    BY <2>1, <2>2 DEF Grids
<1> HIDE DEF g
<1>5. /\ h \in Grids
      /\ \A d \in Cells : h[d].type = g[d].type /\ h[d].num = g[d].num /\ h[d].dyn = g[d].dyn
  <2> DEFINE k == VerticalCleanup(g, c)
  <2>1. /\ k \in Grids
        /\ \A d \in Cells : k[d].type = g[d].type /\ k[d].num = g[d].num /\ k[d].dyn = g[d].dyn
    BY <1>4, CleanupIs
  <2>2. h = IF t \in Simple THEN VerticalCleanup(k, << c[1] + 1, c[2] >>) ELSE g
    OBVIOUS
  <2> HIDE DEF k, h
  <2> QED
    BY <1>4, <2>1, <2>2, CleanupIs
<1> HIDE DEF h, r
<1>6. r \in Drawings
  BY <1>2, <1>3, <1>5 DEF Drawings
<1>7. Cleared(t, c) \subseteq Cells
  BY DEF Cleared
<1>8. Erased(s, c) = Cleared(t, c) \cup {c}
  BY DEF Erased
<1> QED
  BY <1>2, <1>3, <1>4, <1>5, <1>6, <1>7, <1>8 DEF r


(* Erasing gives back the number, or the expression, of what it erases and *)
(* no other.                                                               *)
LEMMA EraseKeepsSound ==
  ASSUME NEW s, Sound(s), NEW c \in Cells
  PROVE  Sound(FullDeleteElement(s, c))
<1> DEFINE r == FullDeleteElement(s, c)
           t == s.grid[c].type
           A == Cleared(t, c)
<1>1. /\ r \in Drawings
      /\ r.exprs = FreeExpr(s, A) /\ r.busy = FreeNumber(s, A)
      /\ \A d \in Erased(s, c) : r.grid[d].type = "free"
      /\ \A d \in Cells \ Erased(s, c) : /\ r.grid[d].type = s.grid[d].type
                                        /\ r.grid[d].num = s.grid[d].num
  BY EraseIs DEF Sound
<1>2. t \in Types
  BY DEF Sound, Drawings, Grids
<1>3. /\ A \subseteq Cells /\ Erased(s, c) = A \cup {c}
      /\ t \in Big => c \in A
      /\ t \notin Big => A = {}
  BY <1>2, AreaIs DEF Cleared, Erased
<1> HIDE DEF r, t, A
<1>4. "free" \notin Big /\ WithExpr \subseteq Big /\ FunctionBlocks \subseteq Big
  BY DEF Big, FunctionBlocks, WithExpr
<1>5. Numbered(r.grid)
  <2>1. ASSUME NEW d \in Cells, r.grid[d].type \in Big
        PROVE  d \notin Erased(s, c) /\ r.grid[d].type = s.grid[d].type /\ r.grid[d].num = s.grid[d].num
    BY <1>1, <1>4, <2>1
  <2> QED
    BY <1>4, <2>1 DEF Sound, Numbered
<1>6. ASSUME NEW e \in Exprs
      PROVE  r.exprs[e] # "" <=>
               \/ e \in ExprsElsewhere
               \/ \E d \in Cells : r.grid[d].type \in WithExpr /\ r.grid[d].num = e
  <2>1. r.exprs[e] # "" <=> e \notin NumbersIn(s.grid, A, WithExpr) /\ s.exprs[e] # ""
    BY <1>1 DEF FreeExpr
  <2>2. e \in NumbersIn(s.grid, A, WithExpr)
          <=> \E d \in A : s.grid[d].type \in WithExpr /\ s.grid[d].num = e
    BY DEF NumbersIn
  <2>3. s.exprs[e] # "" <=> \/ e \in ExprsElsewhere
                            \/ \E d \in Cells : s.grid[d].type \in WithExpr /\ s.grid[d].num = e
    BY DEF Sound, Marked
  <2>4. ASSUME NEW d \in Cells, s.grid[d].type \in WithExpr, s.grid[d].num = e
        PROVE  /\ e \notin ExprsElsewhere
               /\ \A b \in Cells : s.grid[b].type \in WithExpr /\ s.grid[b].num = e => b = d
    BY <2>4 DEF Sound, Numbered
  <2>5. ASSUME NEW d \in Cells
        PROVE  r.grid[d].type \in WithExpr /\ r.grid[d].num = e
                 <=> d \notin A /\ s.grid[d].type \in WithExpr /\ s.grid[d].num = e
    <3>1. CASE d \in Erased(s, c)
      BY <1>1, <1>3, <1>4, <3>1 DEF t
    <3>2. CASE d \notin Erased(s, c)
      BY <1>1, <1>3, <3>2
    <3> QED
      BY <3>1, <3>2
  <2> QED
    BY <1>3, <2>1, <2>2, <2>3, <2>4, <2>5
<1>7. ASSUME NEW u \in FunctionBlocks, NEW n \in 0 .. NbrBlocks - 1
      PROVE  n \in r.busy[u] <=>
               \/ n \in BlocksElsewhere[u]
               \/ \E d \in Cells : r.grid[d].type = u /\ r.grid[d].num = n
  <2>1. n \in r.busy[u] <=> n \notin NumbersIn(s.grid, A, {u}) /\ n \in s.busy[u]
    BY <1>1 DEF FreeNumber
  <2>2. n \in NumbersIn(s.grid, A, {u})
          <=> \E d \in A : s.grid[d].type = u /\ s.grid[d].num = n
    BY DEF NumbersIn
  <2>3. n \in s.busy[u] <=> \/ n \in BlocksElsewhere[u]
                            \/ \E d \in Cells : s.grid[d].type = u /\ s.grid[d].num = n
    BY DEF Sound, Marked
  <2>4. ASSUME NEW d \in Cells, s.grid[d].type = u, s.grid[d].num = n
        PROVE  /\ n \notin BlocksElsewhere[u]
               /\ \A b \in Cells : s.grid[b].type = u /\ s.grid[b].num = n => b = d
    BY <2>4 DEF Sound, Numbered
  <2>5. ASSUME NEW d \in Cells
        PROVE  r.grid[d].type = u /\ r.grid[d].num = n
                 <=> d \notin A /\ s.grid[d].type = u /\ s.grid[d].num = n
    <3>1. CASE d \in Erased(s, c)
      BY <1>1, <1>3, <1>4, <3>1 DEF t
    <3>2. CASE d \notin Erased(s, c)
      BY <1>1, <1>3, <3>2
    <3> QED
      BY <3>1, <3>2
  <2> QED
    BY <1>3, <2>1, <2>2, <2>3, <2>4, <2>5
<1>8. Marked(r)
  BY <1>6, <1>7 DEF Marked
<1> QED
  BY <1>1, <1>5, <1>8 DEF Sound, r

-----------------------------------------------------------------------------
(* Drawing. *)

(* A set of numbers has a first one.                                       *)
LEMMA LeastNumber ==
  ASSUME NEW S \in SUBSET Nat, S # {}
  PROVE  \E x \in S : \A y \in S : x <= y
<1> DEFINE R == {p \in Nat \X Nat : p[1] < p[2]}
<1>1. IsWellFoundedOn(R, Nat)
  BY NatLessThanWellFounded, Zenon DEF OpToRel
<1>2. PICK x \in S : \A y \in S : ~(<< y, x >> \in R)
  <2> HIDE DEF R
  <2> QED
    BY <1>1, WFMin
<1>3. ASSUME NEW y \in S PROVE x <= y
  <2>1. << y, x >> \in Nat \X Nat /\ ~(<< y, x >> \in R)
    BY <1>2
  <2>2. ~(y < x)
    BY <2>1
  <2> QED
    BY <2>2
<1> QED
  BY <1>3

(* What an element takes is available to it.                               *)
LEMMA NumberIs ==
  ASSUME NEW s \in Drawings, NEW t \in Types, Available(s, t) # {}
  PROVE  /\ Number(s, t) \in Nat /\ Number(s, t) \in Available(s, t)
         /\ t \in WithExpr => Number(s, t) \in Exprs /\ s.exprs[Number(s, t)] = ""
         /\ t \in FunctionBlocks => Number(s, t) \in (0 .. NbrBlocks - 1) \ s.busy[t]
<1>1. /\ t \in FunctionBlocks => Available(s, t) = (0 .. NbrBlocks - 1) \ s.busy[t]
      /\ t \in WithExpr => Available(s, t) = {e \in Exprs : s.exprs[e] = ""}
      /\ t \notin Big => Available(s, t) = {0}
      /\ t \in Big => t \in FunctionBlocks \/ t \in WithExpr
  BY DEF Available, FreeExprs, FreeNumbers, FunctionBlocks, WithExpr, Big
<1>2. Available(s, t) \in SUBSET Nat
  <2>1. 0 .. NbrBlocks - 1 \subseteq Nat /\ Exprs \subseteq Nat
    BY EditorAssumption DEF Exprs
  <2>2. CASE t \notin Big
    <3>1. \A n \in {0} : n \in Nat
      OBVIOUS
    <3>2. Available(s, t) = {0}
      BY <1>1, <2>2
    <3> HIDE DEF Available
    <3> QED
      BY <3>1, <3>2, Zenon
  <2>3. CASE t \in FunctionBlocks
    BY <1>1, <2>1, <2>3
  <2>4. CASE t \in WithExpr
    BY <1>1, <2>1, <2>4
  <2> QED
    BY <1>1, <2>2, <2>3, <2>4
<1>3. Number(s, t) \in Available(s, t)
  BY <1>2, LeastNumber DEF Number
<1> QED
  BY <1>1, <1>2, <1>3

LEMMA PrepIs ==
  ASSUME NEW s \in Drawings, NEW t \in Types, Available(s, t) # {}
  PROVE  LET p == Prep(s, t)  n == Number(s, t)
         IN /\ p \in Drawings /\ p.grid = s.grid
            /\ \A e \in Exprs : p.exprs[e] # "" <=> s.exprs[e] # "" \/ (t \in WithExpr /\ e = n)
            /\ \A u \in FunctionBlocks, m \in 0 .. NbrBlocks - 1 :
                 m \in p.busy[u] <=> m \in s.busy[u] \/ (t = u /\ m = n)
<1> DEFINE p == Prep(s, t)
           n == Number(s, t)
<1>1. /\ t \in WithExpr => n \in Exprs /\ s.exprs[n] = ""
      /\ t \in FunctionBlocks => n \in 0 .. NbrBlocks - 1
  BY NumberIs
<1>2. /\ p.grid = s.grid
      /\ t \in WithExpr => p.exprs = [s.exprs EXCEPT ![n] = "#"]
      /\ t \notin WithExpr => p.exprs = s.exprs
      /\ t \in FunctionBlocks => p.busy = [s.busy EXCEPT ![t] = @ \cup {n}]
      /\ t \notin FunctionBlocks => p.busy = s.busy
      /\ p = [grid |-> p.grid, exprs |-> p.exprs, busy |-> p.busy]
  BY DEF Prep
<1> HIDE DEF p, n
<1>3. /\ s.grid \in Grids
      /\ s.exprs \in [Exprs -> {"", "#", "text"}]
      /\ s.busy \in [FunctionBlocks -> SUBSET (0 .. NbrBlocks - 1)]
  BY DEF Drawings
<1>4. /\ p.exprs \in [Exprs -> {"", "#", "text"}]
      /\ \A e \in Exprs : p.exprs[e] # "" <=> s.exprs[e] # "" \/ (t \in WithExpr /\ e = n)
  <2>1. CASE t \in WithExpr
    <3>1. p.exprs = [e \in Exprs |-> IF e = n THEN "#" ELSE s.exprs[e]]
      BY <1>2, <1>3, <2>1
    <3> QED
      BY <1>3, <2>1, <3>1
  <2>2. CASE t \notin WithExpr
    BY <1>2, <1>3, <2>2
  <2> QED
    BY <2>1, <2>2
<1>5. /\ p.busy \in [FunctionBlocks -> SUBSET (0 .. NbrBlocks - 1)]
      /\ \A u \in FunctionBlocks, m \in 0 .. NbrBlocks - 1 :
           m \in p.busy[u] <=> m \in s.busy[u] \/ (t = u /\ m = n)
  <2>1. CASE t \in FunctionBlocks
    <3>1. p.busy = [u \in FunctionBlocks |-> IF u = t THEN s.busy[t] \cup {n} ELSE s.busy[u]]
      BY <1>2, <1>3, <2>1
    <3>2. n \in 0 .. NbrBlocks - 1
      BY <1>1, <2>1
    <3> QED
      BY <1>3, <2>1, <3>1, <3>2
  <2>2. CASE t \notin FunctionBlocks
    BY <1>2, <1>3, <2>2
  <2> QED
    BY <2>1, <2>2
<1>6. p \in Drawings
  BY <1>2, <1>3, <1>4, <1>5 DEF Drawings
<1> QED
  BY <1>2, <1>4, <1>5, <1>6 DEF p, n


Good(s) == Sound(s) /\ Formed(s.grid) /\ Dead(s.grid)

LEMMA KindsApart ==
  /\ "free" \notin Big /\ "unusable" \notin Big /\ "connection" \notin Big
  /\ WithExpr \subseteq Big /\ FunctionBlocks \subseteq Big /\ WithExpr \cap FunctionBlocks = {}
  /\ \A t \in Big : t \in WithExpr \/ t \in FunctionBlocks
  /\ Big \subseteq Types /\ Simple \cap Big = {}
BY DEF Big, FunctionBlocks, WithExpr, Types, Simple, Coils

LEMMA NumberedIs ==
  ASSUME NEW g, Numbered(g)
  PROVE  /\ \A c \in Cells : g[c].type \in WithExpr =>
               g[c].num \in Exprs /\ g[c].num \notin ExprsElsewhere
         /\ \A c \in Cells : g[c].type \in FunctionBlocks =>
               /\ g[c].num \in 0 .. NbrBlocks - 1
               /\ g[c].num \notin BlocksElsewhere[g[c].type]
         /\ \A c, d \in Cells :
               g[c].type \in WithExpr /\ g[d].type \in WithExpr /\ g[c].num = g[d].num => c = d
         /\ \A c, d \in Cells :
               g[c].type \in FunctionBlocks /\ g[c].type = g[d].type /\ g[c].num = g[d].num => c = d
<1>1. /\ \A c \in Cells : g[c].type \in WithExpr =>
           g[c].num \in Exprs /\ g[c].num \notin ExprsElsewhere
      /\ \A c \in Cells : g[c].type \in FunctionBlocks =>
           /\ g[c].num \in 0 .. NbrBlocks - 1
           /\ g[c].num \notin BlocksElsewhere[g[c].type]
  BY DEF Numbered
<1>2. ASSUME NEW c \in Cells, NEW d \in Cells, g[c].num = g[d].num,
             g[c].type \in WithExpr, g[d].type \in WithExpr
      PROVE  c = d
  <2>1. {g[c].type, g[d].type} \subseteq WithExpr
    BY <1>2
  <2> QED
    BY <1>2, <2>1 DEF Numbered
<1>3. ASSUME NEW c \in Cells, NEW d \in Cells, g[c].num = g[d].num,
             g[c].type \in FunctionBlocks, g[c].type = g[d].type
      PROVE  c = d
  BY <1>3 DEF Numbered
<1> QED
  BY <1>1, <1>2, <1>3

(* A new element at c that takes a number, or an expression, of its own.   *)
Put(s, r, t, c, n) ==
    /\ r.grid[c].type = t /\ r.grid[c].num = n
    /\ \A d \in Cells \ {c} : r.grid[d].type \in Big \/ s.grid[d].type \in Big =>
         r.grid[d].type = s.grid[d].type /\ r.grid[d].num = s.grid[d].num
    /\ \A e \in Exprs : r.exprs[e] # "" <=> s.exprs[e] # "" \/ (t \in WithExpr /\ e = n)
    /\ \A u \in FunctionBlocks, m \in 0 .. NbrBlocks - 1 :
         m \in r.busy[u] <=> m \in s.busy[u] \/ (t = u /\ m = n)

LEMMA PutKeepsSound ==
  ASSUME NEW s, Sound(s), NEW r \in Drawings, NEW t \in Types, NEW c \in Cells,
         Available(s, t) # {}, s.grid[c].type \notin Big, Put(s, r, t, c, Number(s, t))
  PROVE  Sound(r)
<1> USE DEF Put
<1> DEFINE n == Number(s, t)
<1>1. /\ t \in WithExpr => n \in Exprs /\ s.exprs[n] = ""
      /\ t \in FunctionBlocks => n \in 0 .. NbrBlocks - 1 /\ n \notin s.busy[t]
  BY NumberIs, ZenonT(60) DEF Sound
<1> HIDE DEF n
<1>2. t \in WithExpr => /\ n \notin ExprsElsewhere
                        /\ \A d \in Cells : ~(s.grid[d].type \in WithExpr /\ s.grid[d].num = n)
  BY <1>1 DEF Sound, Marked
<1>3. t \in FunctionBlocks => /\ n \notin BlocksElsewhere[t]
                              /\ \A d \in Cells : ~(s.grid[d].type = t /\ s.grid[d].num = n)
  <2>1. ASSUME NEW u \in FunctionBlocks, NEW m \in 0 .. NbrBlocks - 1, m \notin s.busy[u]
        PROVE  /\ m \notin BlocksElsewhere[u]
               /\ \A d \in Cells : ~(s.grid[d].type = u /\ s.grid[d].num = m)
    BY <2>1 DEF Sound, Marked
  <2> QED
    BY <1>1, <2>1, ZenonT(60)
<1>4. ASSUME NEW d \in Cells, d # c, r.grid[d].type \in Big
      PROVE  /\ r.grid[d].type = s.grid[d].type /\ r.grid[d].num = s.grid[d].num
  BY <1>4
<1>5. ASSUME NEW d \in Cells, s.grid[d].type \in Big
      PROVE  /\ d # c /\ r.grid[d].type = s.grid[d].type /\ r.grid[d].num = s.grid[d].num
  BY <1>5
<1>6. r.grid[c].type = t /\ r.grid[c].num = n
  BY DEF n
<1>7. Numbered(r.grid)
  <2>0. Numbered(s.grid)
    BY DEF Sound
  <2>01. ASSUME NEW d \in Cells, r.grid[d].type \in WithExpr
         PROVE  \/ d = c /\ t \in WithExpr /\ r.grid[d].num = n
                \/ /\ d # c /\ s.grid[d].type \in WithExpr
                   /\ s.grid[d].num = r.grid[d].num
    BY <1>4, <1>6, <2>01, KindsApart
  <2>02. ASSUME NEW d \in Cells, r.grid[d].type \in FunctionBlocks
         PROVE  \/ d = c /\ t = r.grid[d].type /\ r.grid[d].num = n
                \/ /\ d # c /\ s.grid[d].type = r.grid[d].type
                   /\ s.grid[d].num = r.grid[d].num
    BY <1>4, <1>6, <2>02, KindsApart
  <2>1. ASSUME NEW d \in Cells, r.grid[d].type \in WithExpr
        PROVE  r.grid[d].num \in Exprs \ ExprsElsewhere
    <3>1. CASE d = c
      BY <1>1, <1>2, <2>01, <2>1, <3>1
    <3>2. CASE d # c
      BY <2>0, <2>01, <2>1, <3>2, NumberedIs, ZenonT(60)
    <3> QED
      BY <3>1, <3>2
  <2>2. ASSUME NEW d \in Cells, r.grid[d].type \in FunctionBlocks
        PROVE  r.grid[d].num \in (0 .. NbrBlocks - 1) \ BlocksElsewhere[r.grid[d].type]
    <3>1. CASE d = c
      BY <1>1, <1>3, <1>6, <2>2, <3>1
    <3>2. CASE d # c
      <4>1. s.grid[d].type = r.grid[d].type /\ s.grid[d].num = r.grid[d].num
        BY <1>4, <2>2, <3>2, KindsApart
      <4>2. /\ s.grid[d].num \in 0 .. NbrBlocks - 1
            /\ s.grid[d].num \notin BlocksElsewhere[s.grid[d].type]
        BY <2>0, <2>2, <4>1, NumberedIs
      <4> QED
        BY <4>1, <4>2
    <3> QED
      BY <3>1, <3>2
  <2>3. ASSUME NEW d \in Cells, NEW b \in Cells, r.grid[d].num = r.grid[b].num,
               {r.grid[d].type, r.grid[b].type} \subseteq WithExpr
        PROVE  d = b
    <3>1. d # c /\ b # c => d = b
      <4>1. ASSUME d # c, b # c
            PROVE  /\ s.grid[d].type \in WithExpr /\ s.grid[b].type \in WithExpr
                   /\ s.grid[d].num = s.grid[b].num
        BY <2>01, <2>3, <4>1
      <4> QED
        BY <2>0, <4>1, NumberedIs
    <3> QED
      BY <1>2, <2>01, <2>3, <3>1
  <2>4. ASSUME NEW d \in Cells, NEW b \in Cells, r.grid[d].num = r.grid[b].num,
               r.grid[d].type \in FunctionBlocks, r.grid[d].type = r.grid[b].type
        PROVE  d = b
    <3>1. d # c /\ b # c => d = b
      <4>1. ASSUME d # c, b # c
            PROVE  /\ s.grid[d].type \in FunctionBlocks /\ s.grid[d].type = s.grid[b].type
                   /\ s.grid[d].num = s.grid[b].num
        BY <2>02, <2>4, <4>1
      <4> QED
        BY <2>0, <4>1, NumberedIs, ZenonT(60)
    <3> QED
      BY <1>3, <2>02, <2>4, <3>1
  <2> QED
    BY <2>1, <2>2, <2>3, <2>4 DEF Numbered
<1>8. ASSUME NEW e \in Exprs
      PROVE  r.exprs[e] # "" <=>
               \/ e \in ExprsElsewhere
               \/ \E d \in Cells : r.grid[d].type \in WithExpr /\ r.grid[d].num = e
  <2>1. r.exprs[e] # "" <=> s.exprs[e] # "" \/ (t \in WithExpr /\ e = n)
    BY DEF n
  <2>2. s.exprs[e] # "" <=> \/ e \in ExprsElsewhere
                            \/ \E d \in Cells : s.grid[d].type \in WithExpr /\ s.grid[d].num = e
    BY DEF Sound, Marked
  <2>3. (\E d \in Cells : r.grid[d].type \in WithExpr /\ r.grid[d].num = e)
          <=> \/ (t \in WithExpr /\ e = n)
              \/ \E d \in Cells : s.grid[d].type \in WithExpr /\ s.grid[d].num = e
    BY <1>4, <1>5, <1>6, KindsApart
  <2> QED
    BY <2>1, <2>2, <2>3
<1>9. ASSUME NEW u \in FunctionBlocks, NEW m \in 0 .. NbrBlocks - 1
      PROVE  m \in r.busy[u] <=>
               \/ m \in BlocksElsewhere[u]
               \/ \E d \in Cells : r.grid[d].type = u /\ r.grid[d].num = m
  <2>1. m \in r.busy[u] <=> m \in s.busy[u] \/ (t = u /\ m = n)
    BY DEF n
  <2>2. m \in s.busy[u] <=> \/ m \in BlocksElsewhere[u]
                            \/ \E d \in Cells : s.grid[d].type = u /\ s.grid[d].num = m
    BY DEF Sound, Marked
  <2>3. (\E d \in Cells : r.grid[d].type = u /\ r.grid[d].num = m)
          <=> \/ (t = u /\ m = n)
              \/ \E d \in Cells : s.grid[d].type = u /\ s.grid[d].num = m
    BY <1>4, <1>5, <1>6, KindsApart
  <2> QED
    BY <2>1, <2>2, <2>3
<1>10. Marked(r)
  BY <1>8, <1>9 DEF Marked
<1> QED
  BY <1>7, <1>10 DEF Sound

(* Where an element fits there is none, nor a part of one.                 *)
LEMMA FitsIs ==
  ASSUME NEW g, NEW t \in Types, NEW c \in Cells,
         Fits(g, Size(t), t \in Coils \cup {"operate"}, c)
  PROVE  /\ Area(Size(t), c) \subseteq Cells
         /\ c[1] = Width - 1 => t \in Coils \cup {"operate"}
         /\ \A d \in Area(Size(t), c) : /\ g[d].type \notin Big \cup {"unusable"}
                                        /\ t \in Big => g[d].type \in {"free", "connection"}
<1>1. CASE t \in Big
  BY <1>1, SizeIs, KindsApart DEF Fits
<1>2. CASE t \notin Big
  BY <1>2, SizeIs, AreaIs DEF Fits
<1> QED
  BY <1>1, <1>2

LEMMA DrawnIs ==
  ASSUME NEW s, Sound(s), NEW t \in Types, NEW c \in Cells, Available(s, t) # {},
         Fits(s.grid, Size(t), t \in Coils \cup {"operate"}, c)
  PROVE  LET r == Drawn(s, t, c)  A == Area(Size(t), c)
         IN /\ Sound(r)
            /\ r.grid[c].type = t /\ (r.grid[c].dyn => t \notin Big)
            /\ \A d \in A \ {c} : r.grid[d].type = "unusable" /\ ~r.grid[d].dyn
            /\ \A d \in Cells \ A : r.grid[d] = s.grid[d]
<1> DEFINE p == Prep(s, t)
           n == Number(s, t)
           q == CleanForBigElement(p, t, c, "unusable")
           g == [q.grid EXCEPT ![c].type = t, ![c].num = n]
           r == Drawn(s, t, c)
           A == Area(Size(t), c)
<1>1. /\ p \in Drawings /\ p.grid = s.grid
      /\ \A e \in Exprs : p.exprs[e] # "" <=> s.exprs[e] # "" \/ (t \in WithExpr /\ e = n)
      /\ \A u \in FunctionBlocks, m \in 0 .. NbrBlocks - 1 :
           m \in p.busy[u] <=> m \in s.busy[u] \/ (t = u /\ m = n)
  BY PrepIs DEF Sound
<1>2. n \in Nat
  BY NumberIs DEF Sound
<1> HIDE DEF p
<1>3. /\ q \in Drawings
      /\ q.exprs = FreeExpr(p, Cleared(t, c)) /\ q.busy = FreeNumber(p, Cleared(t, c))
      /\ \A d \in Cleared(t, c) : q.grid[d].type = "unusable" /\ ~q.grid[d].dyn
      /\ \A d \in Cells \ Cleared(t, c) : q.grid[d] = p.grid[d]
  <2>1. p \in Drawings /\ "unusable" \in {"free", "unusable"}
    BY <1>1
  <2> QED
    BY <2>1, CleanIs
<1>4. r.grid = g /\ r = [grid |-> g, exprs |-> q.exprs, busy |-> q.busy]
  <2>1. r = [q EXCEPT !.grid = g]
    BY DEF Drawn, p
  <2>2. q = [grid |-> q.grid, exprs |-> q.exprs, busy |-> q.busy]
    BY DEF CleanForBigElement
  <2> HIDE DEF q, g, r
  <2> QED
    BY <2>1, <2>2
<1> HIDE DEF n, q, r
<1>5. /\ g \in Grids /\ g[c].type = t /\ g[c].num = n /\ g[c].dyn = q.grid[c].dyn
      /\ \A d \in Cells \ {c} : g[d] = q.grid[d]
  <2>1. q.grid \in Grids
    BY <1>3 DEF Drawings
  <2> QED
    BY <1>2, <2>1 DEF Grids
<1> HIDE DEF g
<1>6. r \in Drawings
  <2>1. /\ q.exprs \in [Exprs -> {"", "#", "text"}]
        /\ q.busy \in [FunctionBlocks -> SUBSET (0 .. NbrBlocks - 1)]
    BY <1>3 DEF Drawings
  <2>2. r = [grid |-> g, exprs |-> q.exprs, busy |-> q.busy] /\ g \in Grids
    BY <1>4, <1>5
  <2> QED
    BY <2>1, <2>2 DEF Drawings
<1>7. /\ A \subseteq Cells /\ c \in A
      /\ \A d \in A : s.grid[d].type \notin Big \cup {"unusable"}
      /\ t \in Big => Cleared(t, c) = A
      /\ t \notin Big => Cleared(t, c) = {} /\ A = {c}
  <2>1. A \subseteq Cells /\ \A d \in A : s.grid[d].type \notin Big \cup {"unusable"}
    BY FitsIs
  <2>2. c \in A /\ (t \notin Big => A = {c})
    BY AreaIs
  <2>3. (t \in Big => Cleared(t, c) = A) /\ (t \notin Big => Cleared(t, c) = {})
    BY <2>1 DEF Cleared
  <2> QED
    BY <2>1, <2>2, <2>3
<1> HIDE DEF A
<1>8. /\ \A d \in A \ {c} : r.grid[d].type = "unusable" /\ ~r.grid[d].dyn
      /\ \A d \in Cells \ A : r.grid[d] = s.grid[d]
      /\ r.grid[c].type = t /\ r.grid[c].num = n /\ (r.grid[c].dyn => t \notin Big)
  BY <1>1, <1>3, <1>4, <1>5, <1>7, ZenonT(60)
<1>9. Sound(r)
  <2>1. \A u \in SUBSET Big : NumbersIn(p.grid, Cleared(t, c), u) = {}
    BY <1>1, <1>7 DEF NumbersIn
  <2>2. q.exprs = [e \in Exprs |-> p.exprs[e]] /\ q.busy = [u \in FunctionBlocks |-> p.busy[u]]
    <3>1. NumbersIn(p.grid, Cleared(t, c), WithExpr) = {}
          /\ \A u \in FunctionBlocks : NumbersIn(p.grid, Cleared(t, c), {u}) = {}
      BY <2>1, KindsApart
    <3> QED
      BY <1>3, <3>1 DEF FreeExpr, FreeNumber
  <2>3. /\ \A e \in Exprs : r.exprs[e] # "" <=> s.exprs[e] # "" \/ (t \in WithExpr /\ e = n)
        /\ \A u \in FunctionBlocks, m \in 0 .. NbrBlocks - 1 :
             m \in r.busy[u] <=> m \in s.busy[u] \/ (t = u /\ m = n)
    <3>1. /\ \A e \in Exprs : r.exprs[e] = p.exprs[e]
          /\ \A u \in FunctionBlocks : r.busy[u] = p.busy[u]
      BY <1>4, <2>2
    <3> QED
      BY <1>1, <3>1
  <2>4. ASSUME NEW d \in Cells \ {c}, r.grid[d].type \in Big \/ s.grid[d].type \in Big
        PROVE  r.grid[d].type = s.grid[d].type /\ r.grid[d].num = s.grid[d].num
    BY <1>7, <1>8, <2>4, KindsApart
  <2>5. s.grid[c].type \notin Big
    BY <1>7
  <2>6. Put(s, r, t, c, Number(s, t))
    BY <1>8, <2>3, <2>4 DEF Put, n
  <2> QED
    BY <1>6, <2>5, <2>6, PutKeepsSound
<1> QED
  BY <1>8, <1>9 DEF r, A


-----------------------------------------------------------------------------
(* Whole elements and dead cells, one element erased or drawn.             *)

LEMMA FormedIs ==
  ASSUME NEW g, Formed(g), NEW d \in Cells, g[d].type \in Big,
         NEW b \in Area(Size(g[d].type), d), b # d
  PROVE  /\ b \in Cells /\ g[b].type = "unusable"
         /\ \A o \in Cells : g[o].type \in Big /\ b \in Area(Size(g[o].type), o) /\ b # o => o = d
<1>1. b \in Hidden(g, d)
  BY DEF Hidden
<1>2. b \in Cells /\ g[b].type = "unusable"
  BY <1>1 DEF Formed
<1>3. ASSUME NEW o \in Cells, g[o].type \in Big, b \in Area(Size(g[o].type), o), b # o
      PROVE  o = d
  <2>1. b \in Hidden(g, o)
    BY <1>3 DEF Hidden
  <2> QED
    BY <1>1, <1>2, <1>3, <2>1 DEF Formed
<1> QED
  BY <1>2, <1>3

LEMMA CoverIs ==
  ASSUME NEW g, Formed(g), NEW b \in Cells, g[b].type = "unusable"
  PROVE  \E d \in Cells : g[d].type \in Big /\ b \in Area(Size(g[d].type), d) /\ b # d
BY DEF Formed, Hidden

LEMMA FormedSuffices ==
  ASSUME NEW g,
         \A d \in Cells : g[d].type \in Big =>
            \A b \in Area(Size(g[d].type), d) : b # d =>
               /\ b \in Cells /\ g[b].type = "unusable"
               /\ \A o \in Cells :
                    g[o].type \in Big /\ b \in Area(Size(g[o].type), o) /\ b # o => o = d,
         \A b \in Cells : g[b].type = "unusable" =>
            \E d \in Cells : g[d].type \in Big /\ b \in Area(Size(g[d].type), d) /\ b # d,
         \A c \in Cells : c[1] = Width - 1 =>
            g[c].type \in Coils \cup {"operate", "free", "unusable"}
  PROVE  Formed(g)
<1> DEFINE Alive == {d \in Cells : g[d].type \in Big}
<1>1. ASSUME NEW d \in Alive
      PROVE  Hidden(g, d) \subseteq {c \in Cells : g[c].type = "unusable"}
  BY DEF Hidden
<1>2. ASSUME NEW b \in Cells, g[b].type = "unusable"
      PROVE  \E d \in Alive : b \in Hidden(g, d) /\ \A o \in Alive : b \in Hidden(g, o) => o = d
  <2>1. PICK d \in Cells : g[d].type \in Big /\ b \in Area(Size(g[d].type), d) /\ b # d
    BY <1>2
  <2>2. d \in Alive /\ b \in Hidden(g, d)
    BY <2>1 DEF Hidden
  <2>3. ASSUME NEW o \in Alive, b \in Hidden(g, o)
        PROVE  o = d
    <3>1. o \in Cells /\ g[o].type \in Big /\ b \in Area(Size(g[o].type), o) /\ b # o
      BY <2>3 DEF Hidden
    <3> QED
      BY <2>1, <3>1
  <2> QED
    BY <2>2, <2>3
<1> QED
  BY <1>1, <1>2 DEF Formed

LEMMA WrittenIs ==
  ASSUME NEW g \in Grids, NEW b \in Cells
  PROVE  Written(g, b) <=>
           \E w \in Cells : w[1] = b[1] /\ w[2] <= b[2] /\ Outputs(g[w].type) > b[2] - w[2]
<1>1. b = << b[1], b[2] >> /\ b[1] \in 0 .. Width - 1 /\ b[2] \in 0 .. Height - 1
  BY CellsAre
<1>2. ASSUME NEW y \in 0 .. b[2]
      PROVE  << b[1], y >> \in Cells /\ << b[1], y >>[1] = b[1] /\ << b[1], y >>[2] = y
             /\ y <= b[2]
  <2>1. y \in 0 .. Height - 1
    BY <1>1, EditorAssumption
  <2> QED
    BY <1>1, <2>1, CellsAre
<1>3. ASSUME NEW w \in Cells, w[1] = b[1], w[2] <= b[2]
      PROVE  w[2] \in 0 .. b[2] /\ w = << b[1], w[2] >>
  BY <1>1, <1>3, CellsAre
<1> QED
  BY <1>2, <1>3 DEF Written

(* An element at w writes cells of its own.                                *)
LEMMA WriterIs ==
  ASSUME NEW g \in Grids, NEW b \in Cells, NEW w \in Cells,
         w[1] = b[1], w[2] <= b[2], Outputs(g[w].type) > b[2] - w[2]
  PROVE  /\ b \in Area(Size(g[w].type), w) /\ g[w].type \notin {"free", "unusable"}
         /\ g[w].type \notin Big => b = w
<1>1. g[w].type \in Types
  BY DEF Grids
<1>2. w[2] \in Int /\ b[2] \in Int
  BY CellsAre
<1>3. Outputs(g[w].type) # 0
  BY <1>1, <1>2, SizeIs
<1>4. b \in Area(Size(g[w].type), w)
  BY <1>1, <1>2, AreaIs
<1> QED
  BY <1>1, <1>3, <1>4, SizeIs, AreaIs

(* Cells are freed that no element is half in.                             *)
Freed(g, h, S) ==
    /\ \A d \in Cells : g[d].type \in Big =>
         \A b \in Area(Size(g[d].type), d) : b \in S <=> d \in S
    /\ \A d \in S : h[d].type = "free" /\ ~h[d].dyn
    /\ \A d \in Cells \ S : h[d].type = g[d].type /\ h[d].dyn = g[d].dyn

LEMMA FreedKeepsFormed ==
  ASSUME NEW g \in Grids, NEW h \in Grids, NEW S, Freed(g, h, S), Formed(g)
  PROVE  Formed(h)
<1> DEFINE In(k, b, d) == k[d].type \in Big /\ b \in Area(Size(k[d].type), d) /\ b # d
<1>1. /\ \A d \in S : h[d].type = "free"
      /\ \A d \in Cells \ S : h[d].type = g[d].type
      /\ \A b, d \in Cells : In(g, b, d) => (b \in S <=> d \in S)
  BY DEF Freed
<1>2. ASSUME NEW d \in Cells, h[d].type \in Big
      PROVE  d \notin S /\ h[d].type = g[d].type
  BY <1>1, <1>2, KindsApart
<1>3. ASSUME NEW d \in Cells, NEW b, In(h, b, d)
      PROVE  /\ b \in Cells /\ h[b].type = "unusable"
             /\ \A o \in Cells : In(h, b, o) => o = d
  <2>1. In(g, b, d) /\ d \notin S
    BY <1>2, <1>3
  <2>2. /\ b \in Cells /\ g[b].type = "unusable"
        /\ \A o \in Cells : In(g, b, o) => o = d
    BY <2>1, FormedIs
  <2>3. b \notin S
    BY <1>1, <2>1, <2>2
  <2>4. \A o \in Cells : In(h, b, o) => In(g, b, o)
    BY <1>2
  <2> QED
    BY <1>1, <2>2, <2>3, <2>4
<1>4. ASSUME NEW b \in Cells, h[b].type = "unusable"
      PROVE  \E d \in Cells : In(h, b, d)
  <2>1. b \notin S /\ g[b].type = "unusable"
    BY <1>1, <1>4
  <2>2. PICK d \in Cells : In(g, b, d)
    BY <2>1, CoverIs
  <2>3. d \notin S
    BY <1>1, <2>1, <2>2
  <2> QED
    BY <1>1, <2>2, <2>3
<1>5. ASSUME NEW b \in Cells, b[1] = Width - 1
      PROVE  h[b].type \in Coils \cup {"operate", "free", "unusable"}
  BY <1>1, <1>5 DEF Formed
<1> QED
  BY <1>3, <1>4, <1>5, FormedSuffices

LEMMA FreedKeepsDead ==
  ASSUME NEW g \in Grids, NEW h \in Grids, NEW S, Freed(g, h, S), Dead(g)
  PROVE  Dead(h)
<1> SUFFICES ASSUME NEW b \in Cells, h[b].dyn PROVE Written(h, b)
  BY DEF Dead
<1>1. b \notin S /\ Written(g, b)
  BY DEF Dead, Freed
<1>2. PICK w \in Cells : w[1] = b[1] /\ w[2] <= b[2] /\ Outputs(g[w].type) > b[2] - w[2]
  BY <1>1, WrittenIs
<1>3. /\ b \in Area(Size(g[w].type), w) /\ (g[w].type \notin Big => b = w)
  BY <1>2, WriterIs
<1>4. w \notin S
  BY <1>1, <1>3 DEF Freed
<1>5. h[w].type = g[w].type
  BY <1>4 DEF Freed
<1> QED
  BY <1>2, <1>5, WrittenIs

(* Erasing an element, by its alive block, frees all its cells.            *)
LEMMA EraseKeeps ==
  ASSUME NEW s, Good(s), NEW c \in Cells, s.grid[c].type # "unusable"
  PROVE  Good(FullDeleteElement(s, c))
<1> DEFINE g == s.grid
           h == FullDeleteElement(s, c).grid
           E == Erased(s, c)
           In(b, d) == g[d].type \in Big /\ b \in Area(Size(g[d].type), d) /\ b # d
<1>0. s \in Drawings /\ Formed(g) /\ Dead(g)
  BY DEF Good, Sound
<1>1. /\ \A d \in E : h[d].type = "free" /\ ~h[d].dyn
      /\ \A d \in Cells \ E : h[d].type = g[d].type /\ h[d].dyn = g[d].dyn
  BY <1>0, EraseIs
<1>2. g \in Grids /\ h \in Grids
  <2>1. FullDeleteElement(s, c) \in Drawings
    BY <1>0, EraseIs
  <2> QED
    BY <1>0, <2>1 DEF Drawings
<1>3. /\ c \in E
      /\ \A b \in Cells : In(b, c) => b \in E
      /\ \A b \in E : b # c => In(b, c)
  <2>1. E = Cleared(g[c].type, c) \cup {c}
    BY DEF Erased
  <2> QED
    BY <2>1 DEF Cleared
<1> HIDE DEF h, E
<1>4. ASSUME NEW d \in Cells, g[d].type \in Big, NEW b \in Area(Size(g[d].type), d)
      PROVE  b \in E <=> d \in E
  <2>1. CASE b = d
    BY <2>1
  <2>2. CASE b # d /\ d = c
    BY <1>0, <1>3, <1>4, <2>2, FormedIs
  <2>3. CASE b # d /\ d # c
    <3>1. d \notin E
      <4>1. ASSUME d \in E PROVE FALSE
        <5>1. In(d, c)
          BY <1>3, <2>3, <4>1
        <5>2. g[d].type = "unusable"
          BY <1>0, <5>1, FormedIs
        <5> QED
          BY <1>4, <5>2, KindsApart
      <4> QED
        BY <4>1
    <3>2. g[b].type = "unusable" /\ \A o \in Cells : In(b, o) => o = d
      BY <1>0, <1>4, <2>3, FormedIs
    <3>3. b # c /\ ~In(b, c)
      BY <2>3, <3>2
    <3> QED
      BY <1>3, <3>1, <3>3
  <2> QED
    BY <2>1, <2>2, <2>3
<1>5. Freed(g, h, E)
  BY <1>1, <1>4 DEF Freed
<1>6. Formed(h) /\ Dead(h)
  BY <1>0, <1>2, <1>5, FreedKeepsFormed, FreedKeepsDead
<1>7. Sound(FullDeleteElement(s, c))
  BY EraseKeepsSound DEF Good
<1> QED
  BY <1>6, <1>7 DEF Good, h

LEMMA DrawnKeeps ==
  ASSUME NEW s, Good(s), NEW t \in Types \ {"free", "unusable"}, NEW c \in Cells,
         Fits(s.grid, Size(t), t \in Coils \cup {"operate"}, c), Available(s, t) # {}
  PROVE  Good(Drawn(s, t, c))
<1> DEFINE g == s.grid
           h == Drawn(s, t, c).grid
           A == Area(Size(t), c)
           In(k, b, d) == k[d].type \in Big /\ b \in Area(Size(k[d].type), d) /\ b # d
<1>1. /\ Sound(Drawn(s, t, c))
      /\ h[c].type = t /\ (h[c].dyn => t \notin Big)
      /\ \A d \in A \ {c} : h[d].type = "unusable" /\ ~h[d].dyn
      /\ \A d \in Cells \ A : h[d] = g[d]
  BY DrawnIs DEF Good
<1>2. /\ A \subseteq Cells /\ c \in A
      /\ c[1] = Width - 1 => t \in Coils \cup {"operate"}
      /\ \A d \in A : /\ g[d].type \notin Big /\ g[d].type # "unusable"
                      /\ t \in Big => g[d].type \in {"free", "connection"}
      /\ t \notin Big => A = {c}
  <2>1. c \in A /\ (t \notin Big => A = {c})
    BY AreaIs
  <2> QED
    BY <2>1, FitsIs
<1>3. g \in Grids /\ h \in Grids /\ Formed(g) /\ Dead(g)
  BY <1>1 DEF Good, Sound, Drawings
<1>4. t \in Big => \A b : b \in A /\ b # c <=> In(h, b, c)
  BY <1>1
<1> HIDE DEF h, A
<1>5. ASSUME NEW d \in Cells, NEW b, In(h, b, d)
      PROVE  \/ d = c /\ b \in A /\ t \in Big
             \/ d \notin A /\ h[d] = g[d] /\ In(g, b, d)
  BY <1>1, <1>4, <1>5, KindsApart
<1>6. ASSUME NEW d \in Cells, NEW b, In(g, b, d)
      PROVE  b \in Cells /\ b \notin A /\ d \notin A /\ g[b].type = "unusable" /\ In(h, b, d)
             /\ \A o \in Cells : In(g, b, o) => o = d
  <2>1. /\ b \in Cells /\ g[b].type = "unusable"
        /\ \A o \in Cells : In(g, b, o) => o = d
    BY <1>3, <1>6, FormedIs
  <2>2. b \notin A /\ d \notin A
    BY <1>2, <1>6, <2>1
  <2>3. h[d] = g[d]
    BY <1>1, <2>2
  <2> QED
    BY <1>6, <2>1, <2>2, <2>3
<1>7. Formed(h)
  <2>1. ASSUME NEW d \in Cells, NEW b, In(h, b, d)
        PROVE  /\ b \in Cells /\ h[b].type = "unusable"
               /\ \A o \in Cells : In(h, b, o) => o = d
    <3>1. CASE d = c /\ b \in A
      <4>1. b \in A \ {c} /\ b \in Cells
        BY <1>2, <2>1, <3>1
      <4>2. ASSUME NEW o \in Cells, In(h, b, o) PROVE o = d
        BY <1>5, <1>6, <3>1, <4>2
      <4> QED
        BY <1>1, <4>1, <4>2
    <3>2. CASE In(g, b, d)
      <4>1. b \in Cells \ A /\ g[b].type = "unusable"
        BY <1>6, <3>2
      <4>2. ASSUME NEW o \in Cells, In(h, b, o) PROVE o = d
        <5>1. In(g, b, o)
          BY <1>5, <4>1, <4>2
        <5> QED
          BY <1>6, <3>2, <5>1
      <4>3. h[b] = g[b]
        BY <1>1, <4>1
      <4> QED
        BY <4>1, <4>2, <4>3
    <3> QED
      BY <1>5, <2>1, <3>1, <3>2
  <2>2. ASSUME NEW b \in Cells, h[b].type = "unusable"
        PROVE  \E d \in Cells : In(h, b, d)
    <3>1. CASE b \in A
      <4>1. b # c /\ t \in Big
        BY <1>1, <1>2, <2>2, <3>1
      <4> QED
        BY <1>4, <3>1, <4>1 DEF A
    <3>2. CASE b \notin A
      <4>1. g[b].type = "unusable"
        BY <1>1, <2>2, <3>2
      <4>2. PICK d \in Cells : In(g, b, d)
        BY <1>3, <4>1, CoverIs
      <4> QED
        BY <1>6, <4>2
    <3> QED
      BY <3>1, <3>2
  <2>3. ASSUME NEW b \in Cells, b[1] = Width - 1
        PROVE  h[b].type \in Coils \cup {"operate", "free", "unusable"}
    <3>1. CASE b = c
      BY <1>1, <1>2, <2>3, <3>1
    <3>2. CASE b \in A \ {c}
      BY <1>1, <3>2
    <3>3. CASE b \notin A
      BY <1>1, <1>3, <2>3, <3>3 DEF Formed
    <3> QED
      BY <3>1, <3>2, <3>3
  <2> QED
    BY <2>1, <2>2, <2>3, FormedSuffices
<1>8. Dead(h)
  <2> SUFFICES ASSUME NEW b \in Cells, h[b].dyn PROVE Written(h, b)
    BY DEF Dead
  <2>1. CASE b \in A
    <3>1. b = c /\ t \notin Big
      BY <1>1, <2>1
    <3>2. Outputs(h[c].type) \in 1 .. 3
      BY <1>1, SizeIs
    <3>3. c[2] \in Int /\ c[2] <= c[2] /\ c[2] - c[2] = 0
      BY CellsAre
    <3>4. Outputs(h[c].type) > c[2] - c[2]
      BY <3>2, <3>3
    <3> QED
      BY <1>3, <3>1, <3>3, <3>4, WrittenIs
  <2>2. CASE b \notin A
    <3>1. h[b] = g[b]
      BY <1>1, <2>2
    <3>2. PICK w \in Cells : w[1] = b[1] /\ w[2] <= b[2] /\ Outputs(g[w].type) > b[2] - w[2]
      <4>1. Written(g, b)
        BY <1>3, <3>1 DEF Dead
      <4> QED
        BY <1>3, <4>1, WrittenIs
    <3>3. g[w].type \notin Big => b = w
      BY <1>3, <3>2, WriterIs
    <3>4. w \notin A
      BY <1>2, <2>2, <3>3
    <3>5. h[w] = g[w]
      BY <1>1, <3>4
    <3> QED
      BY <1>3, <3>2, <3>5, WrittenIs
  <2> QED
    BY <2>1, <2>2
<1> QED
  BY <1>1, <1>7, <1>8 DEF Good, h


-----------------------------------------------------------------------------
(* The cells of a part, row by row.                                        *)

LEMMA DivisionIs ==
  ASSUME NEW w \in Nat \ {0}, NEW h \in Nat \ {0}, NEW n \in Nat, n < w * h
  PROVE  n % w \in 0 .. w - 1 /\ n \div w \in 0 .. h - 1 /\ n = w * (n \div w) + (n % w)
<1>1. PICK q \in Int, r \in 0 .. w - 1 : n = w * q + r /\ n \div w = q /\ n % w = r
  OBVIOUS
<1>2. w * q \in Int /\ w * h \in Int
  BY <1>1
<1>3. q >= 0
  <2>1. ASSUME q <= -1 PROVE FALSE
    <3>1. w * q <= -w
      BY <1>1, <2>1
    <3> QED
      BY <1>1, <1>2, <3>1
  <2> QED
    BY <1>1, <2>1
<1>4. q <= h - 1
  <2>1. ASSUME q >= h PROVE FALSE
    <3>1. w * q >= w * h
      BY <1>1, <2>1
    <3> QED
      BY <1>1, <1>2, <3>1
  <2> QED
    BY <1>1, <2>1
<1>5. q \in 0 .. h - 1
  BY <1>3, <1>4
<1>6. n % w \in 0 .. w - 1
  BY <1>1
<1>7. n \div w \in 0 .. h - 1
  BY <1>1, <1>5
<1>8. n = w * (n \div w) + (n % w)
  BY <1>1
<1> QED
  BY <1>6, <1>7, <1>8

LEMMA RowsAre ==
  ASSUME NEW at, NEW size, at[1] \in Int, at[2] \in Int,
         size[1] \in Nat \ {0}, size[2] \in Nat \ {0}
  PROVE  LET rows == Rows(at, size)
         IN /\ Len(rows) \in Nat /\ DOMAIN rows = 1 .. Len(rows)
            /\ \A k \in 1 .. Len(rows) :
                 \E i \in 0 .. size[1] - 1, j \in 0 .. size[2] - 1 :
                    rows[k] = << at[1] + i, at[2] + j >>
            /\ \A j, k \in 1 .. Len(rows) : rows[j] = rows[k] => j = k
            /\ Selected(at, size) = {rows[k] : k \in 1 .. Len(rows)}
<1> DEFINE rows == Rows(at, size)
           n == size[1] * size[2]
           R(k) == (k - 1) % size[1]
           Q(k) == (k - 1) \div size[1]
<1>1. n \in Nat
  OBVIOUS
<1>2. rows = [k \in 1 .. n |-> << at[1] + R(k), at[2] + Q(k) >>]
  BY DEF Rows
<1>3. ASSUME NEW k \in 1 .. n
      PROVE  R(k) \in 0 .. size[1] - 1 /\ Q(k) \in 0 .. size[2] - 1
             /\ k - 1 = size[1] * Q(k) + R(k)
  <2>1. k - 1 \in Nat /\ k - 1 < size[1] * size[2]
    BY <1>1
  <2> QED
    BY <2>1, DivisionIs
<1> HIDE DEF n, rows, R, Q
<1>4. Len(rows) = n /\ DOMAIN rows = 1 .. n
  BY <1>1, <1>2
<1>5. \A k \in 1 .. n : rows[k] = << at[1] + R(k), at[2] + Q(k) >>
  BY <1>2
<1>6. ASSUME NEW j \in 1 .. n, NEW k \in 1 .. n, rows[j] = rows[k]
      PROVE  j = k
  <2>1. << at[1] + R(j), at[2] + Q(j) >> = << at[1] + R(k), at[2] + Q(k) >>
    BY <1>5, <1>6
  <2>2. R(j) = R(k) /\ Q(j) = Q(k)
    BY <1>3, <2>1, SMTT(30)
  <2> QED
    BY <1>3, <2>2
<1>7. Selected(at, size) = {rows[k] : k \in 1 .. n}
  BY <1>4 DEF Selected, Range, rows
<1>8. ASSUME NEW k \in 1 .. n
      PROVE  \E i \in 0 .. size[1] - 1, j \in 0 .. size[2] - 1 :
                rows[k] = << at[1] + i, at[2] + j >>
  BY <1>3, <1>5
<1> QED
  BY <1>1, <1>4, <1>6, <1>7, <1>8 DEF rows

(* The recursive functions of a part are functions: there is one, by the   *)
(* least number of cells for which there would be none.                    *)
LEMMA CleanedIs ==
  ASSUME NEW s, NEW rows, Len(rows) \in Nat
  PROVE  LET f == Cleaned(s, rows)
         IN f[0] = s /\ \A k \in 1 .. Len(rows) : f[k] = FullDeleteElement(f[k - 1], rows[k])
<1> DEFINE N == Len(rows)
           Body(m) == [k \in 0 .. N |-> IF k = 0 THEN s ELSE FullDeleteElement(m[k - 1], rows[k])]
           f == CHOOSE m : m = Body(m)
           Run(m, n) == m[0] = s /\ \A k \in 1 .. n : m[k] = FullDeleteElement(m[k - 1], rows[k])
           Bad == {n \in 0 .. N : ~\E m : Run(m, n)}
<1>1. Bad = {}
  <2> SUFFICES ASSUME Bad # {} PROVE FALSE
    OBVIOUS
  <2>1. PICK n \in Bad : \A j \in Bad : n <= j
    <3>1. Bad \in SUBSET Nat
      OBVIOUS
    <3> HIDE DEF Bad
    <3> QED
      BY <3>1, LeastNumber
  <2>2. n \in 0 .. N /\ ~\E m : Run(m, n)
    BY <2>1
  <2>3. n # 0
    <3>1. Run([k \in {0} |-> s], 0)
      OBVIOUS
    <3> QED
      BY <2>2, <3>1
  <2>4. n - 1 \in 0 .. N /\ n - 1 \notin Bad
    <3>1. n - 1 \in 0 .. N /\ ~(n <= n - 1)
      BY <2>2, <2>3
    <3> HIDE DEF Bad
    <3> QED
      BY <2>1, <3>1
  <2>5. PICK m : Run(m, n - 1)
    BY <2>4
  <2> DEFINE h == [k \in 0 .. n |-> IF k = n THEN FullDeleteElement(m[n - 1], rows[n]) ELSE m[k]]
  <2>6. h[0] = s /\ h[n] = FullDeleteElement(m[n - 1], rows[n]) /\ h[n - 1] = m[n - 1]
    BY <2>2, <2>3, <2>5
  <2>7. ASSUME NEW k \in 1 .. n
        PROVE  h[k] = FullDeleteElement(h[k - 1], rows[k])
    <3>1. CASE k = n
      BY <2>6, <3>1
    <3>2. CASE k # n
      <4>1. k \in 1 .. n - 1 /\ k \in 0 .. n /\ k - 1 \in 0 .. n /\ k - 1 # n
        BY <2>2, <3>2
      <4>2. h[k] = m[k] /\ h[k - 1] = m[k - 1]
        BY <3>2, <4>1
      <4> HIDE DEF h
      <4> QED
        BY <2>5, <4>1, <4>2
    <3> QED
      BY <3>1, <3>2
  <2> HIDE DEF h
  <2>8. Run(h, n)
    BY <2>6, <2>7
  <2> QED
    BY <2>2, <2>8
<1>2. PICK m : Run(m, N)
  <2>1. N \in 0 .. N
    OBVIOUS
  <2> QED
    BY <1>1, <2>1
<1> DEFINE h == Body(m)
<1>3. h = Body(h)
  <2>1. ASSUME NEW k \in 0 .. N PROVE h[k] = m[k]
    <3>1. k # 0 => k \in 1 .. N
      OBVIOUS
    <3> QED
      BY <1>2, <3>1
  <2>2. ASSUME NEW k \in 0 .. N PROVE h[k] = Body(h)[k]
    <3>1. CASE k = 0
      BY <3>1
    <3>2. CASE k # 0
      <4>1. k - 1 \in 0 .. N
        BY <3>2
      <4>2. h[k - 1] = m[k - 1]
        BY <2>1, <4>1
      <4>3. h[k] = FullDeleteElement(m[k - 1], rows[k])
        BY <3>2
      <4>4. Body(h)[k] = FullDeleteElement(h[k - 1], rows[k])
        <5> HIDE DEF h
        <5> QED
          BY <3>2
      <4> HIDE DEF h, Body
      <4> QED
        BY <4>2, <4>3, <4>4
    <3> QED
      BY <3>1, <3>2
  <2>3. h = [k \in 0 .. N |-> h[k]] /\ Body(h) = [k \in 0 .. N |-> Body(h)[k]]
    OBVIOUS
  <2> HIDE DEF h, Body
  <2> QED
    BY <2>2, <2>3
<1>4. f = Body(f)
  <2> HIDE DEF Body, h
  <2> QED
    BY <1>3
<1>5. Cleaned(s, rows) = f
  BY DEF Cleaned
<1> HIDE DEF f
<1>6. f[0] = s
  BY <1>4
<1>7. ASSUME NEW k \in 1 .. N
      PROVE  f[k] = FullDeleteElement(f[k - 1], rows[k])
  <2>1. k \in 0 .. N /\ k # 0
    OBVIOUS
  <2> QED
    BY <1>4, <2>1
<1> QED
  BY <1>5, <1>6, <1>7


LEMMA PastedIs ==
  ASSUME NEW s, NEW cells, NEW to, NEW rows, Len(rows) \in Nat
  PROVE  LET f == Pasted(s, cells, to, rows)
         IN f[0] = s /\ \A k \in 1 .. Len(rows) :
               f[k] = Paste(f[k - 1], cells[rows[k]], Shifted(to, rows[k]))
<1> DEFINE N == Len(rows)
           Body(m) == [k \in 0 .. N |-> IF k = 0 THEN s
                                  ELSE Paste(m[k - 1], cells[rows[k]], Shifted(to, rows[k]))]
           f == CHOOSE m : m = Body(m)
           Run(m, n) == m[0] = s /\ \A k \in 1 .. n :
                          m[k] = Paste(m[k - 1], cells[rows[k]], Shifted(to, rows[k]))
           Bad == {n \in 0 .. N : ~\E m : Run(m, n)}
<1>1. Bad = {}
  <2> SUFFICES ASSUME Bad # {} PROVE FALSE
    OBVIOUS
  <2>1. PICK n \in Bad : \A j \in Bad : n <= j
    <3>1. Bad \in SUBSET Nat
      OBVIOUS
    <3> HIDE DEF Bad
    <3> QED
      BY <3>1, LeastNumber
  <2>2. n \in 0 .. N /\ ~\E m : Run(m, n)
    BY <2>1
  <2>3. n # 0
    <3>1. Run([k \in {0} |-> s], 0)
      OBVIOUS
    <3> QED
      BY <2>2, <3>1
  <2>4. n - 1 \in 0 .. N /\ n - 1 \notin Bad
    <3>1. n - 1 \in 0 .. N /\ ~(n <= n - 1)
      BY <2>2, <2>3
    <3> HIDE DEF Bad
    <3> QED
      BY <2>1, <3>1
  <2>5. PICK m : Run(m, n - 1)
    BY <2>4
  <2> DEFINE h == [k \in 0 .. n |->
                   IF k = n THEN Paste(m[n - 1], cells[rows[n]], Shifted(to, rows[n])) ELSE m[k]]
  <2>6. h[0] = s /\ h[n] = Paste(m[n - 1], cells[rows[n]], Shifted(to, rows[n])) /\ h[n - 1] = m[n - 1]
    BY <2>2, <2>3, <2>5
  <2>7. ASSUME NEW k \in 1 .. n
        PROVE  h[k] = Paste(h[k - 1], cells[rows[k]], Shifted(to, rows[k]))
    <3>1. CASE k = n
      BY <2>6, <3>1
    <3>2. CASE k # n
      <4>1. k \in 1 .. n - 1 /\ k \in 0 .. n /\ k - 1 \in 0 .. n /\ k - 1 # n
        BY <2>2, <3>2
      <4>2. h[k] = m[k] /\ h[k - 1] = m[k - 1]
        BY <3>2, <4>1
      <4> HIDE DEF h
      <4> QED
        BY <2>5, <4>1, <4>2
    <3> QED
      BY <3>1, <3>2
  <2> HIDE DEF h
  <2>8. Run(h, n)
    BY <2>6, <2>7
  <2> QED
    BY <2>2, <2>8
<1>2. PICK m : Run(m, N)
  <2>1. N \in 0 .. N
    OBVIOUS
  <2> QED
    BY <1>1, <2>1
<1> DEFINE h == Body(m)
<1>3. h = Body(h)
  <2>1. ASSUME NEW k \in 0 .. N PROVE h[k] = m[k]
    <3>1. k # 0 => k \in 1 .. N
      OBVIOUS
    <3> QED
      BY <1>2, <3>1
  <2>2. ASSUME NEW k \in 0 .. N PROVE h[k] = Body(h)[k]
    <3>1. CASE k = 0
      BY <3>1
    <3>2. CASE k # 0
      <4>1. k - 1 \in 0 .. N
        BY <3>2
      <4>2. h[k - 1] = m[k - 1]
        BY <2>1, <4>1
      <4>3. h[k] = Paste(m[k - 1], cells[rows[k]], Shifted(to, rows[k]))
        BY <3>2
      <4>4. Body(h)[k] = Paste(h[k - 1], cells[rows[k]], Shifted(to, rows[k]))
        <5> HIDE DEF h
        <5> QED
          BY <3>2
      <4> HIDE DEF h, Body
      <4> QED
        BY <4>2, <4>3, <4>4
    <3> QED
      BY <3>1, <3>2
  <2>3. h = [k \in 0 .. N |-> h[k]] /\ Body(h) = [k \in 0 .. N |-> Body(h)[k]]
    OBVIOUS
  <2> HIDE DEF h, Body
  <2> QED
    BY <2>2, <2>3
<1>4. f = Body(f)
  <2> HIDE DEF Body, h
  <2> QED
    BY <1>3
<1>5. Pasted(s, cells, to, rows) = f
  BY DEF Pasted
<1> HIDE DEF f
<1>6. f[0] = s
  BY <1>4
<1>7. ASSUME NEW k \in 1 .. N
      PROVE  f[k] = Paste(f[k - 1], cells[rows[k]], Shifted(to, rows[k]))
  <2>1. k \in 0 .. N /\ k # 0
    OBVIOUS
  <2> QED
    BY <1>4, <2>1
<1> QED
  BY <1>5, <1>6, <1>7


(* A part moved is freed, cell by cell: in between, an element may have    *)
(* lost its alive block only.                                              *)
LEMMA MovingKeeps ==
  ASSUME NEW s, Good(s), NEW at, NEW size, at[1] \in Int, at[2] \in Int,
         size[1] \in Nat \ {0}, size[2] \in Nat \ {0},
         Selected(at, size) \subseteq Cells, Whole(s.grid, Selected(at, size))
  PROVE  LET rows == Rows(at, size) IN Good(Cleaned(s, rows)[Len(rows)])
<1> DEFINE rows == Rows(at, size)
           S == Selected(at, size)
           f == Cleaned(s, rows)
           n == Len(rows)
           So(k) == /\ Sound(f[k])
                    /\ \A c \in Cells \ S : /\ f[k].grid[c].type = s.grid[c].type
                                            /\ f[k].grid[c].dyn = s.grid[c].dyn
                    /\ \A c \in S : f[k].grid[c].type \in {"free", s.grid[c].type}
                    /\ \A i \in 1 .. k : /\ f[k].grid[rows[i]].type = "free"
                                         /\ ~f[k].grid[rows[i]].dyn
           Bad == {k \in 0 .. n : ~So(k)}
<1>1. n \in Nat /\ S = {rows[k] : k \in 1 .. n}
  BY RowsAre
<1>2. f[0] = s /\ \A k \in 1 .. n : f[k] = FullDeleteElement(f[k - 1], rows[k])
  BY <1>1, CleanedIs
<1>3. \A k \in 1 .. n : rows[k] \in S /\ rows[k] \in Cells
  BY <1>1
<1>4. \A d \in S : d \in Cells /\ (s.grid[d].type \in Big =>
                                    Area(Size(s.grid[d].type), d) \subseteq S)
  <2>1. ASSUME NEW d \in S, s.grid[d].type \in Big
        PROVE  Area(Size(s.grid[d].type), d) \subseteq S
    <3>1. d \in Cells
      OBVIOUS
    <3>2. d \in Area(Size(s.grid[d].type), d)
      BY <2>1, <3>1, KindsApart, AreaIs
    <3> QED
      BY <2>1, <3>1, <3>2 DEF Whole
  <2> QED
    BY <2>1
<1> HIDE DEF rows, S, f, n
<1>5. So(0)
  BY <1>2, <1>4 DEF Good
<1>6. ASSUME NEW k \in 1 .. n, So(k - 1)
      PROVE  So(k)
  <2> DEFINE q == f[k - 1]
             c == rows[k]
             E == Erased(q, c)
  <2>1. /\ Sound(q) /\ c \in S /\ c \in Cells /\ f[k] = FullDeleteElement(q, c)
        /\ \A d \in Cells \ S : q.grid[d].type = s.grid[d].type /\ q.grid[d].dyn = s.grid[d].dyn
        /\ \A d \in S : q.grid[d].type \in {"free", s.grid[d].type}
        /\ \A i \in 1 .. k - 1 : q.grid[rows[i]].type = "free" /\ ~q.grid[rows[i]].dyn
    BY <1>2, <1>3, <1>6
  <2> HIDE DEF q, c
  <2>2. q \in Drawings
    BY <2>1 DEF Sound
  <2>3. /\ \A d \in E : f[k].grid[d].type = "free" /\ ~f[k].grid[d].dyn
        /\ \A d \in Cells \ E : /\ f[k].grid[d].type = q.grid[d].type
                                /\ f[k].grid[d].dyn = q.grid[d].dyn
    BY <2>1, <2>2, EraseIs
  <2>4. E \subseteq S /\ c \in E
    <3>1. q.grid[c].type \in Big => Area(Size(q.grid[c].type), c) \subseteq S
      BY <1>4, <2>1, KindsApart
    <3> QED
      BY <2>1, <3>1 DEF Erased, Cleared
  <2>5. Sound(f[k])
    BY <2>1, EraseKeepsSound
  <2> HIDE DEF E
  <2>6. \A d \in Cells \ S : /\ f[k].grid[d].type = s.grid[d].type
                             /\ f[k].grid[d].dyn = s.grid[d].dyn
    BY <2>1, <2>3, <2>4
  <2>7. \A d \in S : f[k].grid[d].type \in {"free", s.grid[d].type}
    BY <1>4, <2>1, <2>3
  <2>8. ASSUME NEW i \in 1 .. k
        PROVE  f[k].grid[rows[i]].type = "free" /\ ~f[k].grid[rows[i]].dyn
    <3>1. CASE i = k
      BY <2>3, <2>4, <3>1 DEF c
    <3>2. CASE i # k
      <4>1. i \in 1 .. k - 1 /\ i \in 1 .. n
        BY <1>1, <3>2
      <4>2. rows[i] \in Cells
        BY <1>3, <4>1
      <4> QED
        BY <2>1, <2>3, <4>1, <4>2
    <3> QED
      BY <3>1, <3>2
  <2> QED
    BY <2>5, <2>6, <2>7, <2>8
<1> HIDE DEF So
<1>7. Bad = {}
  <2> SUFFICES ASSUME Bad # {} PROVE FALSE
    OBVIOUS
  <2>1. PICK k \in Bad : \A j \in Bad : k <= j
    <3>1. Bad \in SUBSET Nat
      BY <1>1
    <3> HIDE DEF Bad
    <3> QED
      BY <3>1, LeastNumber
  <2>2. k \in 0 .. n /\ ~So(k) /\ k # 0
    BY <1>5, <2>1
  <2>3. k \in 1 .. n /\ k - 1 \in 0 .. n /\ ~(k <= k - 1)
    BY <1>1, <2>2
  <2>4. So(k - 1)
    BY <2>1, <2>3
  <2> QED
    BY <1>6, <2>2, <2>3, <2>4
<1>8. So(n)
  <2>1. n \in 0 .. n
    BY <1>1
  <2> QED
    BY <1>7, <2>1
<1> DEFINE g == s.grid
           h == f[n].grid
<1>9. /\ Sound(f[n]) /\ g \in Grids /\ h \in Grids /\ Formed(g) /\ Dead(g)
  BY <1>8 DEF So, Good, Sound, Drawings
<1>10. Freed(g, h, S)
  <2>1. ASSUME NEW d \in Cells, g[d].type \in Big, NEW b \in Area(Size(g[d].type), d)
        PROVE  b \in S <=> d \in S
    <3>1. d \in Area(Size(g[d].type), d)
      BY <2>1, KindsApart, AreaIs
    <3>2. Whole(g, S)
      BY DEF S
    <3> QED
      BY <2>1, <3>1, <3>2 DEF Whole
  <2>2. \A d \in S : h[d].type = "free" /\ ~h[d].dyn
    BY <1>1, <1>8 DEF So
  <2>3. \A d \in Cells \ S : h[d].type = g[d].type /\ h[d].dyn = g[d].dyn
    BY <1>8 DEF So
  <2> QED
    BY <2>1, <2>2, <2>3 DEF Freed
<1>11. Formed(h) /\ Dead(h)
  BY <1>9, <1>10, FreedKeepsFormed, FreedKeepsDead
<1> QED
  BY <1>9, <1>11 DEF Good, f, n, rows


-----------------------------------------------------------------------------
(* A part is seen from its own corner: its cells are those of the rung it  *)
(* comes from, and those of the rung it is pasted in, but for a shift.     *)

LEMMA ShiftIs ==
  ASSUME NEW at \in Int \X Int, NEW o \in Int \X Int
  PROVE  /\ Shifted(at, o) \in Int \X Int
         /\ Shifted(at, o)[1] = at[1] + o[1] /\ Shifted(at, o)[2] = at[2] + o[2]
         /\ \A b \in Int \X Int : Shifted(at, b) = Shifted(at, o) => b = o
         /\ \A b \in Int \X Int : \E a \in Int \X Int : b = Shifted(at, a)
<1>1. PICK x \in Int, y \in Int : at = << x, y >>
  OBVIOUS
<1>2. PICK i \in Int, j \in Int : o = << i, j >>
  OBVIOUS
<1>3. ASSUME NEW b \in Int \X Int, Shifted(at, b) = Shifted(at, o)
      PROVE  b = o
  <2>1. PICK k \in Int, l \in Int : b = << k, l >>
    OBVIOUS
  <2>2. << x + k, y + l >> = << x + i, y + j >>
    BY <1>1, <1>2, <1>3, <2>1 DEF Shifted
  <2>3. x + k = x + i /\ y + l = y + j
    BY <2>2
  <2>4. k = i /\ l = j
    BY <2>3
  <2> QED
    BY <1>2, <2>1, <2>4
<1>4. ASSUME NEW b \in Int \X Int
      PROVE  \E a \in Int \X Int : b = Shifted(at, a)
  <2>1. PICK k \in Int, l \in Int : b = << k, l >>
    OBVIOUS
  <2>2. << k - x, l - y >> \in Int \X Int /\ x + (k - x) = k /\ y + (l - y) = l
    OBVIOUS
  <2>3. b = Shifted(at, << k - x, l - y >>)
    BY <1>1, <2>1, <2>2 DEF Shifted
  <2> QED
    BY <2>2, <2>3
<1>5. /\ Shifted(at, o) \in Int \X Int
      /\ Shifted(at, o)[1] = at[1] + o[1] /\ Shifted(at, o)[2] = at[2] + o[2]
  BY <1>1, <1>2 DEF Shifted
<1> QED
  BY <1>3, <1>4, <1>5

LEMMA AreaShifts ==
  ASSUME NEW at \in Int \X Int, NEW o \in Int \X Int, NEW b \in Int \X Int, NEW t \in Types
  PROVE  b \in Area(Size(t), o) <=> Shifted(at, b) \in Area(Size(t), Shifted(at, o))
<1>1. PICK w \in 1 .. 3, h \in 1 .. 4 : Size(t) = << w, h >>
  BY SizeIs
<1>2. /\ at[1] \in Int /\ at[2] \in Int /\ o[1] \in Int /\ o[2] \in Int
      /\ b = << b[1], b[2] >> /\ b[1] \in Int /\ b[2] \in Int
  OBVIOUS
<1>3. /\ Shifted(at, b) = << at[1] + b[1], at[2] + b[2] >>
      /\ Shifted(at, o)[1] = at[1] + o[1] /\ Shifted(at, o)[2] = at[2] + o[2]
  BY ShiftIs DEF Shifted
<1>4. b \in Area(Size(t), o) <=> /\ b[1] \in o[1] - w + 1 .. o[1]
                                 /\ b[2] \in o[2] .. o[2] + h - 1
  BY <1>1, <1>2 DEF Area
<1>5. Shifted(at, b) \in Area(Size(t), Shifted(at, o))
        <=> /\ at[1] + b[1] \in at[1] + o[1] - w + 1 .. at[1] + o[1]
            /\ at[2] + b[2] \in at[2] + o[2] .. at[2] + o[2] + h - 1
  BY <1>1, <1>3 DEF Area
<1> QED
  BY <1>1, <1>2, <1>4, <1>5

LEMMA AreaPoints ==
  ASSUME NEW t \in Types, NEW o \in Int \X Int
  PROVE  Area(Size(t), o) \subseteq Int \X Int
<1>1. PICK w \in 1 .. 3, h \in 1 .. 4 : Size(t) = << w, h >>
  BY SizeIs
<1> QED
  BY <1>1 DEF Area

LEMMA SelectedShifts ==
  ASSUME NEW at \in Int \X Int, NEW size \in (Nat \ {0}) \X (Nat \ {0})
  PROVE  /\ Selected(<< 0, 0 >>, size) \subseteq Int \X Int
         /\ Selected(at, size) = {Shifted(at, o) : o \in Selected(<< 0, 0 >>, size)}
         /\ \A o \in Selected(<< 0, 0 >>, size) : /\ o[1] \in 0 .. size[1] - 1
                                                 /\ o[2] \in 0 .. size[2] - 1
<1> DEFINE z == Rows(<< 0, 0 >>, size)
           r == Rows(at, size)
           n == size[1] * size[2]
           i(k) == (k - 1) % size[1]
           j(k) == (k - 1) \div size[1]
<1>1. size[1] \in Nat \ {0} /\ size[2] \in Nat \ {0} /\ at[1] \in Int /\ at[2] \in Int /\ n \in Nat
  OBVIOUS
<1>2. << 0, 0 >>[1] = 0 /\ << 0, 0 >>[2] = 0
  OBVIOUS
<1>3. /\ z = [k \in 1 .. n |-> << << 0, 0 >>[1] + i(k), << 0, 0 >>[2] + j(k) >>]
      /\ r = [k \in 1 .. n |-> << at[1] + i(k), at[2] + j(k) >>]
  BY DEF Rows
<1>4. ASSUME NEW k \in 1 .. n
      PROVE  i(k) \in 0 .. size[1] - 1 /\ j(k) \in 0 .. size[2] - 1
  <2>1. k - 1 \in Nat /\ k - 1 < size[1] * size[2]
    BY <1>1
  <2> QED
    BY <1>1, <2>1, DivisionIs
<1> HIDE DEF i, j, n
<1>5. ASSUME NEW k \in 1 .. n
      PROVE  /\ z[k] = << i(k), j(k) >> /\ r[k] = Shifted(at, z[k])
             /\ z[k] \in Int \X Int
             /\ z[k][1] \in 0 .. size[1] - 1 /\ z[k][2] \in 0 .. size[2] - 1
  <2>1. i(k) \in Int /\ j(k) \in Int
    BY <1>1, <1>4
  <2>2. z[k] = << 0 + i(k), 0 + j(k) >> /\ r[k] = << at[1] + i(k), at[2] + j(k) >>
    BY <1>2, <1>3
  <2> HIDE DEF z, r
  <2>3. z[k] = << i(k), j(k) >>
    BY <2>1, <2>2
  <2>4. Shifted(at, z[k]) = r[k]
    BY <2>2, <2>3 DEF Shifted
  <2> QED
    BY <1>4, <2>1, <2>3, <2>4
<1>6. Selected(<< 0, 0 >>, size) = {z[k] : k \in 1 .. n}
  <2>1. DOMAIN z = 1 .. n
    BY <1>3
  <2> QED
    BY <2>1 DEF Selected, Range
<1>7. Selected(at, size) = {r[k] : k \in 1 .. n}
  <2>1. DOMAIN r = 1 .. n
    BY <1>3
  <2> QED
    BY <2>1 DEF Selected, Range
<1> HIDE DEF z, r
<1> QED
  BY <1>5, <1>6, <1>7


-----------------------------------------------------------------------------
(* The part selected: whole elements, and coils only in what was the last  *)
(* column.                                                                 *)

PartIn(cells, b, d) == /\ cells[d].type \in Big
                       /\ b \in Area(Size(cells[d].type), d) /\ b # d

WholePart(cells) ==
    /\ \A d \in DOMAIN cells : \A b \in Int \X Int : PartIn(cells, b, d) =>
         /\ b \in DOMAIN cells /\ cells[b].type = "unusable"
         /\ \A o \in DOMAIN cells : PartIn(cells, b, o) => o = d
    /\ \A b \in DOMAIN cells : cells[b].type = "unusable" =>
         \E d \in DOMAIN cells : PartIn(cells, b, d)

PartIs(p) ==
    /\ p.at \in Cells /\ p.size \in (Nat \ {0}) \X (Nat \ {0})
    /\ Selected(p.at, p.size) \subseteq Cells
    /\ p.cells \in [Selected(<< 0, 0 >>, p.size) ->
                      [type : Types, num : Nat, top : BOOLEAN, dyn : BOOLEAN]]
    /\ \A o \in DOMAIN p.cells : p.cells[o].type \in WithExpr => p.cells[o].num \in Exprs
    /\ WholePart(p.cells)
    /\ ToTheRight(p) => \A o \in DOMAIN p.cells : o[1] = p.size[1] - 1 =>
         p.cells[o].type \in Coils \cup {"operate", "free", "unusable"}

LEMMA SelectionIs ==
  ASSUME NEW s, Good(s), NEW c \in Cells, NEW d \in Cells, d[1] >= c[1], d[2] >= c[2], NEW p,
         p.at = c, p.size = << d[1] - c[1] + 1, d[2] - c[2] + 1 >>,
         p.cells = [o \in Selected(<< 0, 0 >>, p.size) |-> s.grid[Shifted(c, o)]],
         Whole(s.grid, Selected(c, p.size))
  PROVE  PartIs(p)
<1> DEFINE g == s.grid
           Z == Selected(<< 0, 0 >>, p.size)
           S == Selected(c, p.size)
           In(b, o) == g[o].type \in Big /\ b \in Area(Size(g[o].type), o) /\ b # o
<1>1. /\ c \in Int \X Int /\ c[1] \in 0 .. Width - 1 /\ c[2] \in 0 .. Height - 1
      /\ d[1] \in 0 .. Width - 1 /\ d[2] \in 0 .. Height - 1
      /\ Cells \subseteq Int \X Int
  BY CellsAre DEF Cells
<1>2. p.size \in (Nat \ {0}) \X (Nat \ {0}) /\ p.size[1] = d[1] - c[1] + 1 /\ p.size[2] = d[2] - c[2] + 1
  BY <1>1
<1>3. /\ Z \subseteq Int \X Int /\ S = {Shifted(c, o) : o \in Z}
      /\ \A o \in Z : o[1] \in 0 .. p.size[1] - 1 /\ o[2] \in 0 .. p.size[2] - 1
  BY <1>1, <1>2, SelectedShifts
<1>4. ASSUME NEW o \in Z
      PROVE  Shifted(c, o) \in Cells /\ Shifted(c, o)[1] = c[1] + o[1]
  <2>1. /\ Shifted(c, o) \in Int \X Int /\ Shifted(c, o)[1] = c[1] + o[1]
        /\ Shifted(c, o)[2] = c[2] + o[2]
    BY <1>1, <1>3, ShiftIs
  <2>2. /\ o[1] \in 0 .. d[1] - c[1] /\ o[2] \in 0 .. d[2] - c[2]
    BY <1>1, <1>2, <1>3
  <2>3. c[1] + o[1] \in 0 .. Width - 1 /\ c[2] + o[2] \in 0 .. Height - 1
    <3>1. PICK x \in Int, y \in Int, i \in Int, j \in Int :
            x = c[1] /\ y = c[2] /\ i = o[1] /\ j = o[2]
      BY <1>1, <2>2
    <3>2. /\ x >= 0 /\ y >= 0 /\ i >= 0 /\ j >= 0
          /\ i <= d[1] - x /\ j <= d[2] - y /\ d[1] \in Int /\ d[2] \in Int
          /\ d[1] <= Width - 1 /\ d[2] <= Height - 1 /\ Width \in Int /\ Height \in Int
      BY <1>1, <2>2, <3>1, EditorAssumption
    <3>3. x + i \in 0 .. Width - 1 /\ y + j \in 0 .. Height - 1
      BY <3>2
    <3> QED
      BY <3>1, <3>3
  <2>4. Shifted(c, o) = << c[1] + o[1], c[2] + o[2] >>
    BY DEF Shifted
  <2> QED
    BY <2>1, <2>3, <2>4, CellsAre
<1>5. g \in Grids /\ Formed(g) /\ Numbered(g)
  BY DEF Good, Sound, Drawings
<1>6. DOMAIN p.cells = Z /\ \A o \in Z : p.cells[o] = g[Shifted(c, o)]
  OBVIOUS
<1>7. p.cells \in [Z -> [type : Types, num : Nat, top : BOOLEAN, dyn : BOOLEAN]]
  BY <1>4, <1>5 DEF Grids
<1> HIDE DEF Z, S
<1>8. ASSUME NEW b \in Int \X Int, NEW o \in Z
      PROVE  PartIn(p.cells, b, o) <=> In(Shifted(c, b), Shifted(c, o))
  <2>1. g[Shifted(c, o)].type \in Types
    BY <1>4, <1>5 DEF Grids
  <2>2. p.cells[o].type = g[Shifted(c, o)].type /\ o \in Int \X Int
    BY <1>3, <1>6
  <2>3. b \in Area(Size(p.cells[o].type), o)
          <=> Shifted(c, b) \in Area(Size(p.cells[o].type), Shifted(c, o))
    BY <1>1, <2>1, <2>2, AreaShifts
  <2>4. b = o <=> Shifted(c, b) = Shifted(c, o)
    BY <1>1, <2>2, ShiftIs, ZenonT(60)
  <2> QED
    BY <2>2, <2>3, <2>4 DEF PartIn
<1>9. ASSUME NEW o \in Z, NEW b \in Int \X Int, PartIn(p.cells, b, o)
      PROVE  /\ b \in Z /\ p.cells[b].type = "unusable"
             /\ \A e \in Z : PartIn(p.cells, b, e) => e = o
  <2>1. In(Shifted(c, b), Shifted(c, o)) /\ Shifted(c, o) \in Cells /\ Shifted(c, o) \in S
    BY <1>3, <1>4, <1>8, <1>9
  <2>2. /\ g[Shifted(c, b)].type = "unusable"
        /\ \A e \in Cells : In(Shifted(c, b), e) => e = Shifted(c, o)
    <3> DEFINE y == Shifted(c, b)
               x == Shifted(c, o)
    <3>1. /\ Formed(g) /\ x \in Cells /\ g[x].type \in Big
          /\ y \in Area(Size(g[x].type), x) /\ y # x
      BY <1>5, <2>1
    <3> HIDE DEF x, y, g
    <3>2. /\ g[y].type = "unusable"
          /\ \A e \in Cells : g[e].type \in Big /\ y \in Area(Size(g[e].type), e) /\ y # e => e = x
      BY <3>1, FormedIs
    <3> QED
      BY <3>2 DEF x, y
  <2>3. Shifted(c, b) \in S
    <3>1. Shifted(c, o) \in Area(Size(g[Shifted(c, o)].type), Shifted(c, o))
      BY <2>1, KindsApart, AreaIs
    <3> QED
      BY <2>1, <3>1 DEF Whole, S
  <2>4. b \in Z
    <3>1. PICK e \in Z : Shifted(c, b) = Shifted(c, e)
      BY <1>3, <2>3
    <3>2. e = b
      BY <1>1, <1>3, <3>1, ShiftIs
    <3> QED
      BY <3>2
  <2>5. ASSUME NEW e \in Z, PartIn(p.cells, b, e) PROVE e = o
    <3>1. Shifted(c, e) = Shifted(c, o)
      BY <1>4, <1>8, <2>2, <2>5
    <3> QED
      BY <1>1, <1>3, <3>1, ShiftIs
  <2> QED
    BY <1>6, <2>2, <2>4, <2>5
<1>10. ASSUME NEW b \in Z, p.cells[b].type = "unusable"
       PROVE  \E o \in Z : PartIn(p.cells, b, o)
  <2>1. g[Shifted(c, b)].type = "unusable" /\ Shifted(c, b) \in Cells /\ Shifted(c, b) \in S
    BY <1>3, <1>4, <1>6, <1>10
  <2>2. PICK e \in Cells : In(Shifted(c, b), e)
    BY <1>5, <2>1, CoverIs
  <2>3. e \in S
    <3>1. e \in Area(Size(g[e].type), e)
      BY <2>2, KindsApart, AreaIs
    <3> QED
      BY <2>1, <2>2, <3>1 DEF Whole, S
  <2>4. PICK o \in Z : e = Shifted(c, o)
    BY <1>3, <2>3
  <2>5. PartIn(p.cells, b, o)
    BY <1>3, <1>8, <2>2, <2>4
  <2> QED
    BY <2>5
<1>11. WholePart(p.cells)
  <2> DEFINE q == p.cells
  <2>1. DOMAIN q = Z
    BY <1>6
  <2>2. \A o \in Z : \A b \in Int \X Int : PartIn(q, b, o) =>
          b \in Z /\ q[b].type = "unusable" /\ \A e \in Z : PartIn(q, b, e) => e = o
    BY <1>9
  <2>3. \A b \in Z : q[b].type = "unusable" => \E o \in Z : PartIn(q, b, o)
    BY <1>10
  <2> HIDE DEF q
  <2>4. WholePart(q)
    BY <2>1, <2>2, <2>3 DEF WholePart
  <2> QED
    BY <2>4 DEF q
<1>12. ASSUME ToTheRight(p), NEW o \in Z, o[1] = p.size[1] - 1
       PROVE  p.cells[o].type \in Coils \cup {"operate", "free", "unusable"}
  <2>1. c[1] + p.size[1] = Width
    BY <1>12 DEF ToTheRight
  <2>2. Shifted(c, o)[1] = Width - 1 /\ Shifted(c, o) \in Cells
    BY <1>1, <1>2, <1>4, <1>12, <2>1
  <2> QED
    BY <1>5, <1>6, <2>2 DEF Formed
<1>13. \A o \in Z : p.cells[o].type \in WithExpr => p.cells[o].num \in Exprs
  BY <1>4, <1>5, <1>6, NumberedIs
<1>14. S \subseteq Cells
  BY <1>3, <1>4
<1> QED
  BY <1>2, <1>6, <1>7, <1>11, <1>12, <1>13, <1>14 DEF PartIs, Z, S


Taken(s, r, t, n) ==
    /\ \A e \in Exprs : r.exprs[e] # "" <=> s.exprs[e] # "" \/ (t \in WithExpr /\ e = n)
    /\ \A u \in FunctionBlocks, m \in 0 .. NbrBlocks - 1 :
         m \in r.busy[u] <=> m \in s.busy[u] \/ (t = u /\ m = n)
Copies(s, r, t, d) ==
    /\ Sound(r)
    /\ r.grid[d].type = t /\ r.grid[d].dyn = s.grid[d].dyn
    /\ \A c \in Cells \ {d} : r.grid[c] = s.grid[c]
    /\ Taken(s, r, t, Number(s, t))

(* A cell copied takes a number, or an expression whose text is the one of *)
(* the source.                                                             *)
LEMMA PasteIs ==
  ASSUME NEW s, Sound(s), NEW src \in [type : Types, num : Nat, top : BOOLEAN, dyn : BOOLEAN],
         NEW t \in Types, src.type = t,
         NEW d \in Cells, Available(s, t) # {}, s.grid[d].type \notin Big,
         t \in WithExpr => src.num \in Exprs /\ s.exprs[src.num] # ""
  PROVE  Copies(s, Paste(s, src, d), t, d)
<1> DEFINE n == Number(s, t)
           p == Prep(s, t)
           r == Paste(s, src, d)
<1>1. s \in Drawings /\ s.grid \in Grids /\ t \in Types /\ src.top \in BOOLEAN
  BY DEF Sound, Drawings
<1>2. /\ n \in Nat
      /\ t \in WithExpr => n \in Exprs /\ s.exprs[n] = ""
  BY <1>1, NumberIs
<1>3. /\ p \in Drawings /\ p.grid = s.grid
      /\ \A e \in Exprs : p.exprs[e] # "" <=> s.exprs[e] # "" \/ (t \in WithExpr /\ e = n)
      /\ \A u \in FunctionBlocks, m \in 0 .. NbrBlocks - 1 :
           m \in p.busy[u] <=> m \in s.busy[u] \/ (t = u /\ m = n)
  BY <1>1, PrepIs
<1> DEFINE G == [s.grid EXCEPT ![d] = [type |-> t, num |-> n, top |-> src.top, dyn |-> @.dyn]]
           X == CopyExpr(p.exprs, src, n)
<1>4. r = [grid |-> G, exprs |-> X, busy |-> p.busy]
  BY DEF Paste
<1>5. r.grid = G /\ r.exprs = X /\ r.busy = p.busy
  <2> HIDE DEF r, G, X
  <2> QED
    BY <1>4
<1>6. /\ G \in Grids /\ G[d].type = t /\ G[d].num = n /\ G[d].dyn = s.grid[d].dyn
      /\ \A c \in Cells \ {d} : G[c] = s.grid[c]
  BY <1>1, <1>2 DEF Grids
<1>7. /\ X \in [Exprs -> {"", "#", "text"}]
      /\ \A e \in Exprs : X[e] # "" <=> s.exprs[e] # "" \/ (t \in WithExpr /\ e = n)
  <2>1. p.exprs \in [Exprs -> {"", "#", "text"}]
    BY <1>3 DEF Drawings
  <2>2. CASE t \notin WithExpr
    <3>1. X = p.exprs
      BY <2>2 DEF CopyExpr
    <3> QED
      BY <1>3, <2>1, <3>1
  <2>3. CASE t \in WithExpr
    <3>1. n \in Exprs /\ src.num \in Exprs /\ p.exprs[src.num] # ""
      BY <1>2, <1>3, <2>3
    <3>2. X = [p.exprs EXCEPT ![n] = p.exprs[src.num]]
      BY <2>3 DEF CopyExpr
    <3> HIDE DEF X
    <3>3. X[n] # "" /\ \A e \in Exprs : e # n => X[e] = p.exprs[e]
      BY <2>1, <3>1, <3>2
    <3>4. X \in [Exprs -> {"", "#", "text"}]
      BY <2>1, <3>1, <3>2
    <3> QED
      BY <1>3, <2>3, <3>3, <3>4
  <2> QED
    BY <2>2, <2>3
<1>8. r \in Drawings
  <2>1. p.busy \in [FunctionBlocks -> SUBSET (0 .. NbrBlocks - 1)]
    BY <1>3 DEF Drawings
  <2> HIDE DEF G, X, r
  <2> QED
    BY <1>4, <1>6, <1>7, <2>1 DEF Drawings
<1> HIDE DEF r, G, X, p, n
<1>9. Sound(r)
  <2>1. Available(s, t) # {} /\ s.grid[d].type \notin Big /\ n = Number(s, t)
    BY DEF n
  <2>2. /\ r.grid[d].type = t /\ r.grid[d].num = Number(s, t)
        /\ \A c \in Cells \ {d} : r.grid[c] = s.grid[c]
    BY <1>5, <1>6, <2>1
  <2>3. \A e \in Exprs : r.exprs[e] # "" <=>
          s.exprs[e] # "" \/ (t \in WithExpr /\ e = Number(s, t))
    BY <1>5, <1>7, <2>1
  <2>4. \A u \in FunctionBlocks, m \in 0 .. NbrBlocks - 1 :
          m \in r.busy[u] <=> m \in s.busy[u] \/ (t = u /\ m = Number(s, t))
    BY <1>3, <1>5, <2>1
  <2>5. \A c \in Cells \ {d} : r.grid[c].type \in Big \/ s.grid[c].type \in Big =>
          r.grid[c].type = s.grid[c].type /\ r.grid[c].num = s.grid[c].num
    BY <2>2
  <2>6. t \in Types /\ r.grid[d].type = t /\ r.grid[d].num = Number(s, t)
    BY <1>1, <2>2
  <2>7. Put(s, r, t, d, Number(s, t))
    BY <2>3, <2>4, <2>5, <2>6 DEF Put
  <2> QED
    BY <1>8, <2>1, <2>7, PutKeepsSound
<1> QED
  <2> HIDE DEF n
  <2>1. Taken(s, r, t, n)
    BY <1>3, <1>5, <1>7 DEF Taken
  <2> QED
    BY <1>5, <1>6, <1>9, <2>1 DEF Copies, r, n

LEMMA TakeOne ==
  ASSUME NEW L, IsFiniteSet(L), NEW F, IsFiniteSet(F), Cardinality(L) <= Cardinality(F),
         NEW x \in L
  PROVE  /\ F # {}
         /\ \A n \in F : Cardinality(L \ {x}) <= Cardinality(F \ {n})
<1>1. Cardinality(L) \in Nat /\ Cardinality(F) \in Nat
  BY FS_CardinalityType
<1>2. Cardinality(L \ {x}) = Cardinality(L) - 1
  BY FS_RemoveElement
<1>3. \A n \in F : Cardinality(F \ {n}) = Cardinality(F) - 1
  BY FS_RemoveElement
<1>4. F # {}
  <2>1. Cardinality(L) # 0
    BY FS_EmptySet
  <2>2. Cardinality(F) # 0
    BY <1>1, <2>1
  <2> QED
    BY <2>2, FS_EmptySet
<1> QED
  BY <1>1, <1>2, <1>3, <1>4

(* Whole elements put where there is room for all of them.                 *)
Placed(g, h, cells, to, D) ==
    /\ DOMAIN cells \subseteq Int \X Int /\ \A o \in DOMAIN cells : cells[o].type \in Types
    /\ D = {Shifted(to, o) : o \in DOMAIN cells}
    /\ \A c \in D : c \in Cells /\ g[c].type \notin Big /\ g[c].type # "unusable"
    /\ \A o \in DOMAIN cells : h[Shifted(to, o)].type = cells[o].type
    /\ \A c \in Cells \ D : h[c].type = g[c].type
    /\ \A o \in DOMAIN cells : Shifted(to, o)[1] = Width - 1 =>
         cells[o].type \in Coils \cup {"operate", "free", "unusable"}

LEMMA PartKeepsFormed ==
  ASSUME NEW g \in Grids, NEW h \in Grids, Formed(g), NEW cells, WholePart(cells),
         NEW to \in Int \X Int, NEW D, Placed(g, h, cells, to, D)
  PROVE  Formed(h)
<1> USE DEF Placed
<1> DEFINE Z == DOMAIN cells
           In(k, b, d) == k[d].type \in Big /\ b \in Area(Size(k[d].type), d) /\ b # d
<1>1. ASSUME NEW d \in D, NEW b, In(h, b, d)
      PROVE  /\ b \in D /\ h[b].type = "unusable"
             /\ \A o \in D : In(h, b, o) => o = d
  <2>1. PICK x \in Z : d = Shifted(to, x)
    OBVIOUS
  <2>2. x \in Int \X Int /\ cells[x].type \in Types /\ h[d].type = cells[x].type
    BY <2>1
  <2>3. d \in Cells /\ d \in Int \X Int
    BY <2>1, <2>2, ShiftIs
  <2>4. b \in Int \X Int
    BY <1>1, <2>2, <2>3, AreaPoints
  <2>5. PICK y \in Int \X Int : b = Shifted(to, y)
    BY <2>2, <2>4, ShiftIs
  <2>6. ASSUME NEW o \in D, In(h, b, o)
        PROVE  \E z \in Z : o = Shifted(to, z) /\ PartIn(cells, y, z)
    <3>1. PICK z \in Z : o = Shifted(to, z)
      OBVIOUS
    <3>2. z \in Int \X Int /\ cells[z].type \in Types /\ h[o].type = cells[z].type
      BY <3>1
    <3>3. Shifted(to, y) \in Area(Size(cells[z].type), Shifted(to, z))
      BY <2>5, <2>6, <3>1, <3>2
    <3>4. y \in Area(Size(cells[z].type), z)
      BY <3>2, <3>3, AreaShifts
    <3>5. y # z
      BY <2>5, <2>6, <3>1
    <3> QED
      BY <2>6, <3>1, <3>2, <3>4, <3>5 DEF PartIn
  <2>7. PICK z \in Z : d = Shifted(to, z) /\ PartIn(cells, y, z)
    BY <1>1, <2>6
  <2>8. /\ y \in Z /\ cells[y].type = "unusable"
        /\ \A o \in Z : PartIn(cells, y, o) => o = z
    BY <2>7 DEF WholePart
  <2>9. b \in D /\ h[b].type = "unusable"
    BY <2>5, <2>8
  <2>10. ASSUME NEW o \in D, In(h, b, o) PROVE o = d
    BY <2>6, <2>7, <2>8, <2>10
  <2> QED
    BY <2>9, <2>10
<1>2. ASSUME NEW d \in Cells \ D, NEW b, In(h, b, d)
      PROVE  /\ b \in Cells \ D /\ h[b].type = "unusable"
             /\ \A o \in Cells \ D : In(h, b, o) => o = d
  <2>1. /\ d \in Cells /\ g[d].type \in Big /\ b \in Area(Size(g[d].type), d) /\ b # d
    BY <1>2
  <2>2. /\ b \in Cells /\ g[b].type = "unusable"
        /\ \A o \in Cells : g[o].type \in Big /\ b \in Area(Size(g[o].type), o) /\ b # o => o = d
    BY <2>1, FormedIs
  <2>3. b \notin D
    BY <2>2
  <2> QED
    BY <2>2, <2>3
<1>3. ASSUME NEW d \in Cells, NEW b, In(h, b, d)
      PROVE  /\ b \in Cells /\ h[b].type = "unusable"
             /\ \A o \in Cells : In(h, b, o) => o = d
  <2>1. CASE d \in D
    <3>1. /\ b \in D /\ h[b].type = "unusable"
          /\ \A o \in D : In(h, b, o) => o = d
      BY <1>1, <1>3, <2>1
    <3>2. ASSUME NEW o \in Cells, In(h, b, o) PROVE o = d
      <4>1. o \in D
        BY <1>2, <3>1, <3>2
      <4> QED
        BY <3>1, <3>2, <4>1
    <3> QED
      BY <3>1, <3>2
  <2>2. CASE d \notin D
    <3>1. /\ b \in Cells \ D /\ h[b].type = "unusable"
          /\ \A o \in Cells \ D : In(h, b, o) => o = d
      BY <1>2, <1>3, <2>2
    <3>2. ASSUME NEW o \in Cells, In(h, b, o) PROVE o = d
      <4>1. o \notin D
        BY <1>1, <3>1, <3>2
      <4> QED
        BY <3>1, <3>2, <4>1
    <3> QED
      BY <3>1, <3>2
  <2> QED
    BY <2>1, <2>2
<1>4. ASSUME NEW b \in Cells, h[b].type = "unusable"
      PROVE  \E d \in Cells : In(h, b, d)
  <2>1. CASE b \in D
    <3>1. PICK y \in Z : b = Shifted(to, y)
      BY <2>1
    <3>2. cells[y].type = "unusable" /\ y \in Int \X Int
      BY <1>4, <3>1
    <3>3. PICK z \in Z : PartIn(cells, y, z)
      BY <3>2 DEF WholePart
    <3> DEFINE d == Shifted(to, z)
    <3>4. /\ d \in D /\ d \in Cells /\ z \in Int \X Int /\ cells[z].type \in Types
          /\ h[d].type = cells[z].type
      OBVIOUS
    <3>5. y \in Area(Size(cells[z].type), z) /\ y # z /\ cells[z].type \in Big
      BY <3>3 DEF PartIn
    <3>6. b \in Area(Size(cells[z].type), d)
      BY <3>1, <3>2, <3>4, <3>5, AreaShifts
    <3>7. b # d
      BY <3>1, <3>2, <3>4, <3>5, ShiftIs
    <3> QED
      BY <3>4, <3>5, <3>6, <3>7
  <2>2. CASE b \notin D
    <3>1. g[b].type = "unusable"
      BY <1>4, <2>2
    <3>2. PICK e \in Cells : g[e].type \in Big /\ b \in Area(Size(g[e].type), e) /\ b # e
      BY <3>1, CoverIs
    <3>3. h[e].type = g[e].type
      BY <3>2
    <3> QED
      BY <3>2, <3>3
  <2> QED
    BY <2>1, <2>2
<1>5. ASSUME NEW c \in Cells, c[1] = Width - 1
      PROVE  h[c].type \in Coils \cup {"operate", "free", "unusable"}
  <2>1. CASE c \in D
    BY <1>5, <2>1
  <2>2. CASE c \notin D
    BY <1>5, <2>2 DEF Formed
  <2> QED
    BY <2>1, <2>2
<1> QED
  BY <1>3, <1>4, <1>5, FormedSuffices

LEMMA PartKeepsDead ==
  ASSUME NEW g \in Grids, NEW h \in Grids, Dead(g), NEW D,
         \A c \in D : c \in Cells /\ g[c].type \notin Big /\ ~g[c].dyn,
         \A c \in Cells \ D : h[c].type = g[c].type,
         \A c \in Cells : h[c].dyn = g[c].dyn
  PROVE  Dead(h)
<1> SUFFICES ASSUME NEW b \in Cells, h[b].dyn PROVE Written(h, b)
  BY DEF Dead
<1>1. b \notin D /\ Written(g, b)
  BY DEF Dead
<1>2. PICK w \in Cells : w[1] = b[1] /\ w[2] <= b[2] /\ Outputs(g[w].type) > b[2] - w[2]
  BY <1>1, WrittenIs
<1>3. g[w].type \notin Big => b = w
  BY <1>2, WriterIs
<1>4. h[w].type = g[w].type
  BY <1>1, <1>3
<1> QED
  BY <1>2, <1>4, WrittenIs


(* What is available is enough for the elements of the cells L to be put.  *)
OfTypes(cells, L, types) == {o \in L : cells[o].type \in types}
Room(s, cells, L) ==
    /\ Cardinality(OfTypes(cells, L, WithExpr)) <= Cardinality(FreeExprs(s))
    /\ \A t \in FunctionBlocks :
         Cardinality(OfTypes(cells, L, {t})) <= Cardinality(FreeNumbers(s, t))

LEMMA FreeAre ==
  ASSUME NEW s
  PROVE  /\ IsFiniteSet(FreeExprs(s)) /\ \A t : IsFiniteSet(FreeNumbers(s, t))
         /\ \A t \in FunctionBlocks : Available(s, t) = FreeNumbers(s, t)
         /\ \A t \in WithExpr : Available(s, t) = FreeExprs(s)
<1>1. IsFiniteSet(0 .. NbrExprs - 1) /\ IsFiniteSet(0 .. NbrBlocks - 1)
  BY EditorAssumption, FS_Interval
<1>2. FreeExprs(s) \subseteq 0 .. NbrExprs - 1
  BY DEF FreeExprs, Exprs
<1>3. \A t : FreeNumbers(s, t) \subseteq 0 .. NbrBlocks - 1
  BY DEF FreeNumbers
<1>4. \A t \in FunctionBlocks : Available(s, t) = FreeNumbers(s, t)
  BY DEF Available
<1>5. \A t \in WithExpr : t \notin FunctionBlocks
  BY KindsApart
<1>6. \A t \in WithExpr : Available(s, t) = FreeExprs(s)
  BY <1>5 DEF Available
<1> QED
  BY <1>1, <1>2, <1>3, <1>4, <1>6, FS_Subset

LEMMA RoomIs ==
  ASSUME NEW s, NEW cells, NEW L, IsFiniteSet(L), Room(s, cells, L), NEW o \in L,
         cells[o].type \in Types
  PROVE  Available(s, cells[o].type) # {}
<1> DEFINE t == cells[o].type
<1>1. CASE t \in WithExpr
  <2> DEFINE K == OfTypes(cells, L, WithExpr)
  <2>1. o \in K /\ IsFiniteSet(K) /\ Cardinality(K) <= Cardinality(FreeExprs(s))
    BY <1>1, FS_Subset DEF OfTypes, Room
  <2>2. IsFiniteSet(FreeExprs(s)) /\ Available(s, t) = FreeExprs(s)
    BY <1>1, FreeAre
  <2> HIDE DEF K
  <2> QED
    BY <2>1, <2>2, TakeOne
<1>2. CASE t \in FunctionBlocks
  <2> DEFINE K == OfTypes(cells, L, {t})
  <2>1. o \in K /\ IsFiniteSet(K)
    BY <1>2, FS_Subset DEF OfTypes
  <2>2. Cardinality(K) <= Cardinality(FreeNumbers(s, t))
    BY <1>2 DEF Room
  <2>3. IsFiniteSet(FreeNumbers(s, t)) /\ Available(s, t) = FreeNumbers(s, t)
    BY <1>2, FreeAre
  <2> HIDE DEF K
  <2> QED
    BY <2>1, <2>2, <2>3, TakeOne
<1>3. CASE t \notin WithExpr /\ t \notin FunctionBlocks
  BY <1>3 DEF Available
<1> QED
  BY <1>1, <1>2, <1>3

LEMMA RoomLeft ==
  ASSUME NEW s \in Drawings, NEW r, NEW t \in Types, Available(s, t) # {},
         Taken(s, r, t, Number(s, t)), NEW cells, NEW L, IsFiniteSet(L),
         Room(s, cells, L), NEW o \in L, cells[o].type = t
  PROVE  Room(r, cells, L \ {o})
<1> DEFINE n == Number(s, t)
<1>1. n \in Available(s, t)
  BY NumberIs
<1>2. Cardinality(OfTypes(cells, L \ {o}, WithExpr)) <= Cardinality(FreeExprs(r))
  <2> DEFINE K == OfTypes(cells, L, WithExpr)
  <2>1. IsFiniteSet(K) /\ Cardinality(K) <= Cardinality(FreeExprs(s))
    BY FS_Subset DEF OfTypes, Room
  <2>2. IsFiniteSet(FreeExprs(s))
    BY FreeAre
  <2>3. CASE t \in WithExpr
    <3>1. OfTypes(cells, L \ {o}, WithExpr) = K \ {o} /\ o \in K
      BY <2>3 DEF OfTypes
    <3>2. FreeExprs(r) = FreeExprs(s) \ {n}
      BY <2>3 DEF FreeExprs, Taken
    <3>3. n \in FreeExprs(s)
      BY <1>1, <2>3, FreeAre
    <3> HIDE DEF K, n
    <3> QED
      BY <2>1, <2>2, <3>1, <3>2, <3>3, TakeOne
  <2>4. CASE t \notin WithExpr
    <3>1. OfTypes(cells, L \ {o}, WithExpr) = K
      BY <2>4 DEF OfTypes
    <3>2. FreeExprs(r) = FreeExprs(s)
      BY <2>4 DEF FreeExprs, Taken
    <3> QED
      BY <2>1, <3>1, <3>2
  <2> QED
    BY <2>3, <2>4
<1>3. ASSUME NEW u \in FunctionBlocks
      PROVE  Cardinality(OfTypes(cells, L \ {o}, {u})) <= Cardinality(FreeNumbers(r, u))
  <2> DEFINE K == OfTypes(cells, L, {u})
  <2>1. IsFiniteSet(K) /\ Cardinality(K) <= Cardinality(FreeNumbers(s, u))
    <3>1. IsFiniteSet(K)
      BY FS_Subset DEF OfTypes
    <3> QED
      BY <3>1 DEF Room
  <2>2. IsFiniteSet(FreeNumbers(s, u))
    BY FreeAre
  <2>3. CASE t = u
    <3>1. OfTypes(cells, L \ {o}, {u}) = K \ {o} /\ o \in K
      BY <2>3 DEF OfTypes
    <3>2. FreeNumbers(r, u) = FreeNumbers(s, u) \ {n}
      BY <2>3 DEF FreeNumbers, Taken
    <3>3. n \in FreeNumbers(s, u)
      BY <1>1, <2>3, FreeAre
    <3> HIDE DEF K, n
    <3> QED
      BY <2>1, <2>2, <3>1, <3>2, <3>3, TakeOne
  <2>4. CASE t # u
    <3>1. OfTypes(cells, L \ {o}, {u}) = K
      BY <2>4 DEF OfTypes
    <3>2. FreeNumbers(r, u) = FreeNumbers(s, u)
      BY <2>4 DEF FreeNumbers, Taken
    <3> QED
      BY <2>1, <3>1, <3>2
  <2> QED
    BY <2>3, <2>4
<1> QED
  BY <1>2, <1>3 DEF Room

(* A place for the part: in the grid, with nothing in it but small ones. *)
Place(g, p, to) ==
    /\ DOMAIN p.cells = Selected(<< 0, 0 >>, p.size) /\ DOMAIN p.cells \subseteq Int \X Int
    /\ Selected(to, p.size) = {Shifted(to, o) : o \in DOMAIN p.cells}
    /\ \A o \in DOMAIN p.cells :
         /\ Shifted(to, o) \in Cells /\ g[Shifted(to, o)].type \notin Big
         /\ g[Shifted(to, o)].type # "unusable"
         /\ Shifted(to, o)[1] = Width - 1 =>
              p.cells[o].type \in Coils \cup {"operate", "free", "unusable"}

LEMMA PlaceIs ==
  ASSUME NEW g, NEW p, PartIs(p), NEW to \in Int \X Int,
         Fits(g, p.size, ToTheRight(p), << to[1] + p.size[1] - 1, to[2] >>)
  PROVE  Place(g, p, to)
<1> DEFINE Z == DOMAIN p.cells
<1>1. PICK w \in Nat \ {0}, h \in Nat \ {0} : p.size = << w, h >>
  BY DEF PartIs
<1>2. PICK x \in Int, y \in Int : to = << x, y >>
  OBVIOUS
<1>3. Z = Selected(<< 0, 0 >>, p.size)
  BY DEF PartIs
<1>4. /\ Z \subseteq Int \X Int
      /\ Selected(to, p.size) = {Shifted(to, o) : o \in Z}
      /\ \A o \in Z : o[1] \in 0 .. w - 1 /\ o[2] \in 0 .. h - 1
  <2>1. p.size \in (Nat \ {0}) \X (Nat \ {0})
    BY DEF PartIs
  <2> QED
    BY <1>1, <1>3, <2>1, SelectedShifts
<1> HIDE DEF Z
<1> DEFINE d == << x + w - 1, y >>
           A == (x .. x + w - 1) \X (y .. y + h - 1)
<1>5. Fits(g, << w, h >>, ToTheRight(p), d)
  BY <1>1, <1>2
<1>6. Area(<< w, h >>, d) = A
  <2>1. x + w - 1 - w + 1 = x
    OBVIOUS
  <2> QED
    BY <2>1 DEF Area
<1>7. A \subseteq Cells
  BY <1>5, <1>6 DEF Fits
<1>8. ASSUME NEW c \in A
      PROVE  g[c].type \notin Big /\ g[c].type # "unusable"
  <2>1. CASE << w, h >> = << 1, 1 >>
    <3>1. w = 1 /\ h = 1
      BY <2>1
    <3>2. c = d
      BY <3>1
    <3> QED
      BY <1>5, <2>1, <3>2 DEF Fits
  <2>2. CASE << w, h >> # << 1, 1 >>
    BY <1>5, <1>6, <2>2, KindsApart DEF Fits
  <2> QED
    BY <2>1, <2>2
<1>9. ASSUME NEW o \in Z
      PROVE  /\ Shifted(to, o) \in A
             /\ Shifted(to, o)[1] = Width - 1 =>
                  p.cells[o].type \in Coils \cup {"operate", "free", "unusable"}
  <2>1. PICK i \in Int, j \in Int : o = << i, j >>
    BY <1>4
  <2>2. i \in 0 .. w - 1 /\ j \in 0 .. h - 1
    BY <1>4, <2>1
  <2>3. Shifted(to, o) = << x + i, y + j >>
    BY <1>2, <2>1 DEF Shifted
  <2>4. x + i \in x .. x + w - 1 /\ y + j \in y .. y + h - 1
    BY <2>2
  <2>5. Shifted(to, o) \in A
    BY <2>3, <2>4
  <2>6. ASSUME Shifted(to, o)[1] = Width - 1
        PROVE  p.cells[o].type \in Coils \cup {"operate", "free", "unusable"}
    <3>1. x + i = Width - 1
      BY <2>3, <2>6
    <3>2. x + w - 1 \in 0 .. Width - 1
      <4>1. d \in A
        OBVIOUS
      <4>2. d \in Cells
        BY <1>7, <4>1
      <4> QED
        BY <4>2 DEF Cells
    <3>3. x + w - 1 = Width - 1 /\ i = w - 1
      BY <2>2, <3>1, <3>2, EditorAssumption
    <3>4. ToTheRight(p)
      BY <1>5, <3>3 DEF Fits
    <3>5. o[1] = p.size[1] - 1
      BY <1>1, <2>1, <3>3
    <3> QED
      BY <3>4, <3>5 DEF PartIs, Z
  <2> QED
    BY <2>5, <2>6
<1> HIDE DEF A
<1> QED
  BY <1>3, <1>4, <1>7, <1>8, <1>9 DEF Z, Place


(* What the expressions of the part say has not been erased since.         *)
Texts(s, cells) == \A o \in DOMAIN cells :
    cells[o].type \in WithExpr => s.exprs[cells[o].num] # ""

(* Pasting whole elements where they fit keeps the drawing good.           *)
LEMMA PastingKeeps ==
  ASSUME NEW s, Good(s), NEW p, PartIs(p), NEW to \in Int \X Int,
         Fits(s.grid, p.size, ToTheRight(p), << to[1] + p.size[1] - 1, to[2] >>),
         \A d \in Selected(to, p.size) : ~s.grid[d].dyn,
         Texts(s, p.cells), Room(s, p.cells, DOMAIN p.cells)
  PROVE  LET rows == Rows(<< 0, 0 >>, p.size)
         IN Good(Pasted(s, p.cells, to, rows)[Len(rows)])
<1> DEFINE rows == Rows(<< 0, 0 >>, p.size)
           cells == p.cells
           Z == DOMAIN cells
           D == Selected(to, p.size)
           f == Pasted(s, cells, to, rows)
           n == Len(rows)
           Left(k) == {o \in Z : \E i \in k + 1 .. n : o = rows[i]}
           So(k) == /\ Sound(f[k])
                    /\ \A c \in Cells : f[k].grid[c].dyn = s.grid[c].dyn
                    /\ \A c \in Cells \ D : f[k].grid[c].type = s.grid[c].type
                    /\ \A i \in 1 .. k : f[k].grid[Shifted(to, rows[i])].type = cells[rows[i]].type
                    /\ \A i \in k + 1 .. n : f[k].grid[Shifted(to, rows[i])].type
                                               = s.grid[Shifted(to, rows[i])].type
                    /\ \A e \in Exprs : s.exprs[e] # "" => f[k].exprs[e] # ""
                    /\ Room(f[k], cells, Left(k))
           Bad == {k \in 0 .. n : ~So(k)}
<1>1. /\ Z = Selected(<< 0, 0 >>, p.size) /\ Z \subseteq Int \X Int
      /\ D = {Shifted(to, o) : o \in Z}
      /\ \A o \in Z :
           /\ Shifted(to, o) \in Cells /\ s.grid[Shifted(to, o)].type \notin Big
           /\ s.grid[Shifted(to, o)].type # "unusable"
           /\ Shifted(to, o)[1] = Width - 1 =>
                cells[o].type \in Coils \cup {"operate", "free", "unusable"}
  <2>1. Place(s.grid, p, to)
    BY PlaceIs
  <2> QED
    BY <2>1 DEF Place
<1>2. /\ n \in Nat /\ Z = {rows[k] : k \in 1 .. n}
      /\ \A j, k \in 1 .. n : rows[j] = rows[k] => j = k
  <2>1. p.size[1] \in Nat \ {0} /\ p.size[2] \in Nat \ {0}
    BY DEF PartIs
  <2>2. << 0, 0 >>[1] \in Int /\ << 0, 0 >>[2] \in Int
    OBVIOUS
  <2> QED
    BY <1>1, <2>1, <2>2, RowsAre, ZenonT(60)
<1>3. f[0] = s /\ \A k \in 1 .. n : f[k] = Paste(f[k - 1], cells[rows[k]], Shifted(to, rows[k]))
  BY <1>2, PastedIs
<1>4. \A o \in Z : /\ cells[o] \in [type : Types, num : Nat, top : BOOLEAN, dyn : BOOLEAN]
                   /\ cells[o].type \in WithExpr =>
                        cells[o].num \in Exprs /\ s.exprs[cells[o].num] # ""
  <2>1. /\ cells \in [Selected(<< 0, 0 >>, p.size) ->
                        [type : Types, num : Nat, top : BOOLEAN, dyn : BOOLEAN]]
        /\ \A o \in Z : cells[o].type \in WithExpr => cells[o].num \in Exprs
    BY DEF PartIs
  <2>2. \A o \in Z : cells[o].type \in WithExpr => s.exprs[cells[o].num] # ""
    BY DEF Texts
  <2> QED
    BY <1>1, <2>1, <2>2
<1>5. WholePart(cells) /\ \A o \in Z : cells[o].type \in Types
  BY <1>4 DEF PartIs
<1>6. Room(s, cells, Z) /\ \A c \in D : ~s.grid[c].dyn
  OBVIOUS
<1>7. IsFiniteSet(Z)
  <2> HIDE DEF rows, n, Z
  <2> DEFINE r == [k \in 1 .. n |-> rows[k]]
  <2>1. IsFiniteSet(1 .. n)
    BY <1>2, FS_Interval
  <2>2. r \in Surjection(1 .. n, Z)
    BY <1>2 DEF Surjection
  <2> HIDE DEF r
  <2> QED
    BY <2>1, <2>2, FS_Surjection
<1>8. s \in Drawings /\ s.grid \in Grids /\ Sound(s) /\ Formed(s.grid) /\ Dead(s.grid)
  BY DEF Good, Sound, Drawings
<1> HIDE DEF rows, Z, D, f, n, cells
<1>9. So(0)
  <2>1. Left(0) = Z
    BY <1>2
  <2> HIDE DEF Left
  <2>2. f[0] = s
    BY <1>3
  <2>3. Room(f[0], cells, Left(0))
    BY <1>6, <2>1, <2>2
  <2>4. /\ Sound(f[0])
        /\ \A c \in Cells : f[0].grid[c].dyn = s.grid[c].dyn /\ f[0].grid[c].type = s.grid[c].type
        /\ \A e \in Exprs : s.exprs[e] # "" => f[0].exprs[e] # ""
    BY <1>8, <2>2
  <2>5. \A i \in 0 + 1 .. n : f[0].grid[Shifted(to, rows[i])].type
                                 = s.grid[Shifted(to, rows[i])].type
    BY <2>2
  <2>6. \A i \in 1 .. 0 : f[0].grid[Shifted(to, rows[i])].type = cells[rows[i]].type
    OBVIOUS
  <2>7. \A c \in Cells : f[0].grid[c].dyn = s.grid[c].dyn
    BY <2>4
  <2>8. \A c \in Cells \ D : f[0].grid[c].type = s.grid[c].type
    BY <2>4
  <2>9. Sound(f[0]) /\ \A e \in Exprs : s.exprs[e] # "" => f[0].exprs[e] # ""
    BY <2>4
  <2> QED
    BY <2>3, <2>5, <2>6, <2>7, <2>8, <2>9, Zenon
<1>10. ASSUME NEW k \in 1 .. n, So(k - 1)
       PROVE  So(k)
  <2> DEFINE q == f[k - 1]
             o == rows[k]
             t == cells[o].type
             d == Shifted(to, o)
             L == Left(k - 1)
  <2>1. o \in Z /\ d \in D /\ d \in Cells /\ t \in Types
    BY <1>1, <1>2, <1>5
  <2>2. /\ Sound(q) /\ \A c \in Cells : q.grid[c].dyn = s.grid[c].dyn
        /\ \A c \in Cells \ D : q.grid[c].type = s.grid[c].type
        /\ \A i \in 1 .. k - 1 : q.grid[Shifted(to, rows[i])].type = cells[rows[i]].type
        /\ \A i \in k .. n : q.grid[Shifted(to, rows[i])].type
                               = s.grid[Shifted(to, rows[i])].type
        /\ \A e \in Exprs : s.exprs[e] # "" => q.exprs[e] # ""
        /\ Room(q, cells, L)
    <3>1. k - 1 + 1 = k
      BY <1>2
    <3> HIDE DEF Left
    <3> QED
      BY <1>10, <3>1
  <2>3. q \in Drawings /\ q.grid[d].type \notin Big
    <3>1. k \in k .. n
      BY <1>2
    <3> QED
      BY <1>1, <2>1, <2>2, <3>1 DEF Sound
  <2>4. o \in L /\ L \ {o} = Left(k) /\ IsFiniteSet(L)
    <3>1. k \in k - 1 + 1 .. n
      BY <1>2
    <3>2. o \in L
      BY <2>1, <3>1
    <3>3. ASSUME NEW x \in Z PROVE x \in L \ {o} <=> x \in Left(k)
      <4>1. PICK j \in 1 .. n : x = rows[j]
        BY <1>2
      <4>2. x \in Left(k) <=> j \in k + 1 .. n
        BY <1>2, <4>1
      <4>3. x \in L <=> j \in k .. n
        BY <1>2, <4>1
      <4>4. x = o <=> j = k
        BY <1>2, <4>1
      <4> QED
        BY <1>2, <4>2, <4>3, <4>4
    <3>4. L \subseteq Z /\ Left(k) \subseteq Z
      OBVIOUS
    <3> HIDE DEF L, Left
    <3> QED
      BY <1>7, <3>2, <3>3, <3>4, FS_Subset
  <2>5. Available(q, t) # {}
    <3>1. Room(q, cells, L)
      BY <2>2
    <3> HIDE DEF q, L, o
    <3> QED
      BY <2>1, <2>4, <3>1, RoomIs
  <2>6. t \in WithExpr => cells[o].num \in Exprs /\ q.exprs[cells[o].num] # ""
    BY <1>4, <2>1, <2>2
  <2>7. f[k] = Paste(q, cells[o], d)
    BY <1>3
  <2>8. cells[o] \in [type : Types, num : Nat, top : BOOLEAN, dyn : BOOLEAN]
    BY <1>4, <2>1
  <2>9. /\ Sound(f[k]) /\ f[k].grid[d].type = t /\ f[k].grid[d].dyn = q.grid[d].dyn
        /\ \A c \in Cells \ {d} : f[k].grid[c] = q.grid[c]
        /\ Taken(q, f[k], t, Number(q, t))
    <3> DEFINE src == cells[o]
    <3>1. src.type = t
      OBVIOUS
    <3> HIDE DEF src, q, t, d
    <3>2. Copies(q, Paste(q, src, d), t, d)
      <4>1. Sound(q)
        BY <2>2
      <4>2. q.grid[d].type \notin Big /\ d \in Cells /\ t \in Types
        BY <2>1, <2>3
      <4>3. /\ t \in WithExpr => src.num \in Exprs /\ q.exprs[src.num] # ""
            /\ src \in [type : Types, num : Nat, top : BOOLEAN, dyn : BOOLEAN]
        BY <2>6, <2>8 DEF src
      <4> QED
        BY <2>5, <3>1, <4>1, <4>2, <4>3, PasteIs
    <3> QED
      BY <2>7, <3>2 DEF Copies, src
  <2>10. Room(f[k], cells, Left(k))
    <3>1. Room(q, cells, L)
      BY <2>2
    <3>2. cells[o].type = t /\ Taken(q, f[k], t, Number(q, t))
      BY <2>9
    <3> HIDE DEF q, L, o, t, Left
    <3>3. Room(f[k], cells, L \ {o})
      BY <2>1, <2>3, <2>4, <2>5, <3>1, <3>2, RoomLeft
    <3> QED
      BY <2>4, <3>3
  <2> HIDE DEF q, d, t, Left
  <2>11. \A c \in Cells : f[k].grid[c].dyn = s.grid[c].dyn
    BY <2>2, <2>9
  <2>12. \A c \in Cells \ D : f[k].grid[c].type = s.grid[c].type
    BY <2>1, <2>2, <2>9
  <2>13. ASSUME NEW i \in 1 .. n, i # k
         PROVE  f[k].grid[Shifted(to, rows[i])] = q.grid[Shifted(to, rows[i])]
    <3>1. rows[i] \in Z /\ rows[i] # o /\ rows[i] \in Int \X Int /\ o \in Int \X Int
      BY <1>1, <1>2, <2>1, <2>13
    <3>2. Shifted(to, rows[i]) # d /\ Shifted(to, rows[i]) \in Cells
      BY <1>1, <3>1, ShiftIs, ZenonT(60) DEF d
    <3> QED
      BY <2>9, <3>2
  <2>14. ASSUME NEW i \in 1 .. k
         PROVE  f[k].grid[Shifted(to, rows[i])].type = cells[rows[i]].type
    <3>1. CASE i = k
      BY <2>9, <3>1 DEF d, t
    <3>2. CASE i # k
      <4>1. i \in 1 .. k - 1 /\ i \in 1 .. n
        BY <1>2, <3>2
      <4> QED
        BY <2>2, <2>13, <3>2, <4>1
    <3> QED
      BY <3>1, <3>2
  <2>15. ASSUME NEW i \in k + 1 .. n
         PROVE  f[k].grid[Shifted(to, rows[i])].type = s.grid[Shifted(to, rows[i])].type
    <3>1. i \in k .. n /\ i \in 1 .. n /\ i # k
      BY <1>2
    <3> QED
      BY <2>2, <2>13, <3>1
  <2>16. \A e \in Exprs : s.exprs[e] # "" => f[k].exprs[e] # ""
    BY <2>2, <2>9 DEF Taken
  <2> QED
    BY <2>9, <2>10, <2>11, <2>12, <2>14, <2>15, <2>16
<1> HIDE DEF So
<1>11. Bad = {}
  <2> SUFFICES ASSUME Bad # {} PROVE FALSE
    OBVIOUS
  <2>1. PICK k \in Bad : \A j \in Bad : k <= j
    <3>1. Bad \in SUBSET Nat
      BY <1>2
    <3> HIDE DEF Bad
    <3> QED
      BY <3>1, LeastNumber
  <2>2. k \in 0 .. n /\ ~So(k) /\ k # 0
    BY <1>9, <2>1
  <2>3. k \in 1 .. n /\ k - 1 \in 0 .. n /\ ~(k <= k - 1)
    BY <1>2, <2>2
  <2>4. So(k - 1)
    BY <2>1, <2>3
  <2> QED
    BY <1>10, <2>2, <2>3, <2>4
<1>12. So(n)
  <2>1. n \in 0 .. n
    BY <1>2
  <2> QED
    BY <1>11, <2>1
<1> DEFINE g == s.grid
           h == f[n].grid
<1>13. /\ Sound(f[n]) /\ h \in Grids /\ \A c \in Cells : h[c].dyn = g[c].dyn
       /\ \A c \in Cells \ D : h[c].type = g[c].type
  BY <1>12 DEF So, Sound, Drawings
<1>14. \A o \in Z : h[Shifted(to, o)].type = cells[o].type
  <2>1. \A i \in 1 .. n : h[Shifted(to, rows[i])].type = cells[rows[i]].type
    BY <1>12 DEF So
  <2> HIDE DEF h
  <2> QED
    BY <1>2, <2>1
<1>15. \A c \in D : c \in Cells /\ g[c].type \notin Big /\ g[c].type # "unusable" /\ ~g[c].dyn
  BY <1>1, <1>6
<1> HIDE DEF g, h
<1>16. g \in Grids /\ Formed(g) /\ Dead(g)
  BY <1>8 DEF g
<1>17. Formed(h)
  <2>1. /\ DOMAIN cells \subseteq Int \X Int /\ \A o \in DOMAIN cells : cells[o].type \in Types
        /\ D = {Shifted(to, o) : o \in DOMAIN cells}
        /\ \A o \in DOMAIN cells : h[Shifted(to, o)].type = cells[o].type
        /\ \A o \in DOMAIN cells : Shifted(to, o)[1] = Width - 1 =>
             cells[o].type \in Coils \cup {"operate", "free", "unusable"}
    BY <1>1, <1>5, <1>14 DEF Z
  <2>2. \A c \in D : c \in Cells /\ g[c].type \notin Big /\ g[c].type # "unusable"
    BY <1>15
  <2>3. Placed(g, h, cells, to, D)
    BY <1>13, <2>1, <2>2 DEF Placed
  <2> QED
    BY <1>5, <1>13, <1>16, <2>3, PartKeepsFormed
<1>18. Dead(h)
  BY <1>13, <1>15, <1>16, PartKeepsDead
<1> QED
  BY <1>13, <1>17, <1>18 DEF Good, h, f, n, rows, cells


-----------------------------------------------------------------------------
(* What the other clicks change: the links, the connections, which contact  *)
(* or coil it is, and the power where an element is refreshed.             *)
Redrawn(g, h) == \A c \in Cells :
    /\ g[c].type \in Big \/ h[c].type \in Big => h[c].type = g[c].type /\ h[c].num = g[c].num
    /\ g[c].type = "unusable" <=> h[c].type = "unusable"
    /\ Outputs(g[c].type) <= Outputs(h[c].type)
    /\ h[c].dyn => g[c].dyn \/ Written(g, c)
    /\ c[1] = Width - 1 => h[c].type = g[c].type \/ h[c].type \in Coils

SameMarks(s, r) == r.busy = s.busy /\ \A e \in Exprs : r.exprs[e] = "" <=> s.exprs[e] = ""

LEMMA RedrawnKeepsSound ==
  ASSUME NEW s, Sound(s), NEW r \in Drawings, Redrawn(s.grid, r.grid), SameMarks(s, r)
  PROVE  Sound(r)
<1> USE DEF SameMarks
<1> DEFINE g == s.grid
           h == r.grid
<1>1. \A c \in Cells : g[c].type \in Big \/ h[c].type \in Big =>
        h[c].type = g[c].type /\ h[c].num = g[c].num
  BY DEF Redrawn
<1>2. Numbered(g) /\ Marked(s)
  BY DEF Sound
<1> HIDE DEF g, h
<1>3. \A c \in Cells : (h[c].type \in WithExpr <=> g[c].type \in WithExpr)
        /\ (h[c].type \in WithExpr => h[c].num = g[c].num)
  BY <1>1, KindsApart
<1>4. \A c \in Cells : \A t \in FunctionBlocks : (h[c].type = t <=> g[c].type = t)
        /\ (h[c].type = t => h[c].num = g[c].num)
  BY <1>1, KindsApart
<1>5. Numbered(h)
  <2>1. ASSUME NEW c \in Cells, h[c].type \in WithExpr
        PROVE  h[c].num \in Exprs \ ExprsElsewhere
    BY <1>2, <1>3, <2>1, NumberedIs
  <2>2. ASSUME NEW c \in Cells, h[c].type \in FunctionBlocks
        PROVE  h[c].num \in (0 .. NbrBlocks - 1) \ BlocksElsewhere[h[c].type]
    BY <1>2, <1>4, <2>2, NumberedIs
  <2>3. ASSUME NEW c \in Cells, NEW d \in Cells, h[c].num = h[d].num,
               \/ {h[c].type, h[d].type} \subseteq WithExpr
               \/ h[c].type \in FunctionBlocks /\ h[c].type = h[d].type
        PROVE  c = d
    <3>1. CASE h[c].type \in WithExpr /\ h[d].type \in WithExpr
      BY <1>2, <1>3, <2>3, <3>1, NumberedIs
    <3>2. CASE h[c].type \in FunctionBlocks /\ h[c].type = h[d].type
      <4>1. /\ g[c].type = h[c].type /\ g[d].type = h[c].type /\ g[c].type \in FunctionBlocks
            /\ g[c].num = h[c].num /\ g[d].num = h[d].num
        BY <1>4, <3>2
      <4> QED
        BY <1>2, <2>3, <4>1, NumberedIs
    <3> QED
      BY <2>3, <3>1, <3>2
  <2> QED
    BY <2>1, <2>2, <2>3 DEF Numbered
<1>6. Marked(r)
  <2>1. ASSUME NEW e \in Exprs
        PROVE  r.exprs[e] # "" <=>
                 \/ e \in ExprsElsewhere
                 \/ \E c \in Cells : h[c].type \in WithExpr /\ h[c].num = e
    <3>1. s.exprs[e] # "" <=>
                 \/ e \in ExprsElsewhere
                 \/ \E c \in Cells : g[c].type \in WithExpr /\ g[c].num = e
      BY <1>2 DEF Marked, g
    <3> QED
      BY <1>3, <3>1
  <2>2. ASSUME NEW t \in FunctionBlocks, NEW n \in 0 .. NbrBlocks - 1
        PROVE  n \in r.busy[t] <=>
                 \/ n \in BlocksElsewhere[t]
                 \/ \E c \in Cells : h[c].type = t /\ h[c].num = n
    <3>1. n \in s.busy[t] <=>
                 \/ n \in BlocksElsewhere[t]
                 \/ \E c \in Cells : g[c].type = t /\ g[c].num = n
      BY <1>2 DEF Marked, g
    <3> QED
      BY <1>4, <3>1
  <2> QED
    BY <2>1, <2>2 DEF Marked, h
<1> QED
  BY <1>5, <1>6 DEF Sound, h

LEMMA RedrawnKeepsFormed ==
  ASSUME NEW g \in Grids, NEW h \in Grids, Formed(g), Redrawn(g, h)
  PROVE  Formed(h)
<1> DEFINE In(k, b, d) == k[d].type \in Big /\ b \in Area(Size(k[d].type), d) /\ b # d
<1>1. \A d \in Cells : /\ g[d].type \in Big \/ h[d].type \in Big => h[d].type = g[d].type
                       /\ g[d].type = "unusable" <=> h[d].type = "unusable"
                       /\ d[1] = Width - 1 => h[d].type = g[d].type \/ h[d].type \in Coils
  BY DEF Redrawn
<1>2. \A d \in Cells : \A b : In(h, b, d) <=> In(g, b, d)
  BY <1>1
<1>3. ASSUME NEW d \in Cells, NEW b, In(h, b, d)
      PROVE  /\ b \in Cells /\ h[b].type = "unusable"
             /\ \A o \in Cells : In(h, b, o) => o = d
  <2>1. In(g, b, d)
    BY <1>2, <1>3
  <2>2. /\ b \in Cells /\ g[b].type = "unusable"
        /\ \A o \in Cells : In(g, b, o) => o = d
    BY <2>1, FormedIs
  <2> HIDE DEF In
  <2> QED
    BY <1>1, <1>2, <2>2
<1>4. ASSUME NEW b \in Cells, h[b].type = "unusable"
      PROVE  \E d \in Cells : In(h, b, d)
  <2>1. PICK d \in Cells : In(g, b, d)
    BY <1>1, <1>4, CoverIs
  <2> QED
    BY <1>2, <2>1
<1>5. ASSUME NEW c \in Cells, c[1] = Width - 1
      PROVE  h[c].type \in Coils \cup {"operate", "free", "unusable"}
  BY <1>1, <1>5 DEF Formed
<1> QED
  BY <1>3, <1>4, <1>5, FormedSuffices

LEMMA RedrawnKeepsDead ==
  ASSUME NEW g \in Grids, NEW h \in Grids, Dead(g), Redrawn(g, h)
  PROVE  Dead(h)
<1> SUFFICES ASSUME NEW b \in Cells, h[b].dyn PROVE Written(h, b)
  BY DEF Dead
<1>1. Written(g, b)
  BY DEF Dead, Redrawn
<1>2. PICK w \in Cells : w[1] = b[1] /\ w[2] <= b[2] /\ Outputs(g[w].type) > b[2] - w[2]
  BY <1>1, WrittenIs
<1>3. g[w].type \in Types /\ h[w].type \in Types /\ w[2] \in Int /\ b[2] \in Int
  BY CellsAre DEF Grids
<1>4. Outputs(g[w].type) \in Int /\ Outputs(h[w].type) \in Int
  BY <1>3, SizeIs
<1>5. Outputs(g[w].type) <= Outputs(h[w].type)
  BY DEF Redrawn
<1>6. Outputs(h[w].type) > b[2] - w[2]
  BY <1>2, <1>3, <1>4, <1>5
<1> QED
  BY <1>2, <1>6, WrittenIs

LEMMA RedrawnKeeps ==
  ASSUME NEW s, Good(s), NEW r \in Drawings, Redrawn(s.grid, r.grid), SameMarks(s, r)
  PROVE  Good(r)
<1>1. Sound(s) /\ Formed(s.grid) /\ Dead(s.grid) /\ s.grid \in Grids /\ r.grid \in Grids
  BY DEF Good, Sound, Drawings
<1>2. Sound(r)
  BY <1>1, RedrawnKeepsSound
<1> QED
  BY <1>1, <1>2, RedrawnKeepsFormed, RedrawnKeepsDead DEF Good

(* The copy of a rung of the project: its own numbers, power everywhere    *)
(* the refresh writes.                                                     *)
LEMMA PoweredIs ==
  ASSUME NEW g \in Grids, NEW b \in BOOLEAN
  PROVE  /\ Powered(g, b) \in Grids
         /\ \A c \in Cells : /\ Powered(g, b)[c].type = g[c].type
                             /\ Powered(g, b)[c].num = g[c].num
                             /\ Powered(g, b)[c].dyn => g[c].dyn \/ Written(g, c)
BY DEF Powered, Grids

LEMMA PoweredKeeps ==
  ASSUME NEW s, Good(s), NEW b \in BOOLEAN, NEW r,
         r = [grid |-> Powered(s.grid, b), exprs |-> s.exprs, busy |-> s.busy]
  PROVE  Good(r)
<1>1. s \in Drawings /\ s.grid \in Grids
  BY DEF Good, Sound, Drawings
<1>2. r.grid = Powered(s.grid, b) /\ r.exprs = s.exprs /\ r.busy = s.busy
  OBVIOUS
<1>3. r \in Drawings
  BY <1>1, PoweredIs DEF Drawings
<1>4. Redrawn(s.grid, r.grid)
  <2>1. \A c \in Cells : s.grid[c].type \in Types
    BY <1>1 DEF Grids
  <2>2. \A c \in Cells : Outputs(s.grid[c].type) \in Int
    BY <2>1, SizeIs
  <2>3. \A c \in Cells : /\ r.grid[c].type = s.grid[c].type /\ r.grid[c].num = s.grid[c].num
                         /\ r.grid[c].dyn => s.grid[c].dyn \/ Written(s.grid, c)
    BY <1>1, <1>2, PoweredIs
  <2> QED
    BY <2>2, <2>3 DEF Redrawn
<1>5. SameMarks(s, r)
  BY <1>2 DEF SameMarks
<1> QED
  BY <1>3, <1>4, <1>5, RedrawnKeeps

LEMMA NumbersOfIs ==
  ASSUME NEW g \in Grids, Numbered(g)
  PROVE  /\ NumbersOf(g) \in [FunctionBlocks -> SUBSET (0 .. NbrBlocks - 1)]
         /\ \A t \in FunctionBlocks : \A n : n \in NumbersOf(g)[t] <=>
              n \in BlocksElsewhere[t] \/ \E c \in Cells : g[c].type = t /\ g[c].num = n
<1> DEFINE B == NumbersOf(g)
<1>1. ASSUME NEW t \in FunctionBlocks
      PROVE  /\ B[t] \subseteq 0 .. NbrBlocks - 1
             /\ \A n : n \in B[t] <=> n \in BlocksElsewhere[t]
                                      \/ \E c \in Cells : g[c].type = t /\ g[c].num = n
  <2>1. \A n : n \in B[t] <=> n \in BlocksElsewhere[t]
                              \/ \E c \in Cells : g[c].type = t /\ g[c].num = n
    BY DEF NumbersOf, NumbersIn
  <2>2. BlocksElsewhere[t] \subseteq 0 .. NbrBlocks - 1
    BY EditorAssumption
  <2>3. \A c \in Cells : g[c].type = t => g[c].num \in 0 .. NbrBlocks - 1
    BY NumberedIs
  <2> HIDE DEF B
  <2> QED
    BY <2>1, <2>2, <2>3
<1>2. B \in [FunctionBlocks -> SUBSET (0 .. NbrBlocks - 1)]
  <2>1. B = [t \in FunctionBlocks |-> B[t]]
    BY DEF NumbersOf
  <2> HIDE DEF B
  <2> QED
    BY <1>1, <2>1
<1> QED
  BY <1>1, <1>2

LEMMA OwnNumbers ==
  ASSUME NEW s, Good(s), NEW r,
         r = [grid |-> s.grid, exprs |-> s.exprs, busy |-> NumbersOf(s.grid)]
  PROVE  Good(r)
<1> DEFINE g == s.grid
           B == NumbersOf(g)
<1>1. /\ s \in Drawings /\ g \in Grids /\ Numbered(g) /\ Marked(s) /\ Formed(g) /\ Dead(g)
      /\ s.exprs \in [Exprs -> {"", "#", "text"}]
  BY DEF Good, Sound, Drawings
<1>2. r.grid = g /\ r.exprs = s.exprs /\ r.busy = B
  OBVIOUS
<1> HIDE DEF g
<1>3. \A t \in FunctionBlocks : \A n : n \in B[t] <=>
        n \in BlocksElsewhere[t] \/ \E c \in Cells : g[c].type = t /\ g[c].num = n
  BY <1>1, NumbersOfIs
<1>4. B \in [FunctionBlocks -> SUBSET (0 .. NbrBlocks - 1)]
  BY <1>1, NumbersOfIs
<1> HIDE DEF B
<1>5. r = [grid |-> g, exprs |-> s.exprs, busy |-> B]
  BY DEF B, g
<1>6. r \in Drawings
  <2> DEFINE x == s.exprs
  <2>1. /\ x \in [Exprs -> {"", "#", "text"}] /\ g \in Grids
        /\ r = [grid |-> g, exprs |-> x, busy |-> B]
    BY <1>1, <1>5
  <2>2. DOMAIN r = {"grid", "exprs", "busy"} /\ r = [grid |-> r.grid, exprs |-> r.exprs, busy |-> r.busy]
    OBVIOUS
  <2>3. /\ r.grid \in Grids /\ r.exprs \in [Exprs -> {"", "#", "text"}]
        /\ r.busy \in [FunctionBlocks -> SUBSET (0 .. NbrBlocks - 1)]
    BY <1>1, <1>2, <1>4
  <2> HIDE DEF x
  <2> QED
    BY <2>2, <2>3 DEF Drawings
<1>7. Marked(r)
  <2>1. \A e \in Exprs : r.exprs[e] # "" <=>
          \/ e \in ExprsElsewhere
          \/ \E c \in Cells : r.grid[c].type \in WithExpr /\ r.grid[c].num = e
    BY <1>1, <1>2 DEF Marked, g
  <2>2. \A t \in FunctionBlocks, n \in 0 .. NbrBlocks - 1 : n \in r.busy[t] <=>
          \/ n \in BlocksElsewhere[t]
          \/ \E c \in Cells : r.grid[c].type = t /\ r.grid[c].num = n
    BY <1>2, <1>3
  <2> QED
    BY <2>1, <2>2 DEF Marked
<1> QED
  BY <1>1, <1>2, <1>6, <1>7 DEF Good, Sound


-----------------------------------------------------------------------------
(* The cell a click is for.                                                *)
LEMMA FirstIs ==
  ASSUME NEW S \in SUBSET Cells, S # {}
  PROVE  First(S) \in S
<1>1. \A c \in S : /\ c = << c[1], c[2] >> /\ c[1] \in Nat /\ c[2] \in Nat
                   /\ c[1] \in Int /\ c[2] \in Int
  BY CellsAre, EditorAssumption
<1> DEFINE Y == {c[2] : c \in S}
<1>2. PICK y \in Y : \A z \in Y : y <= z
  <2>1. Y \in SUBSET Nat /\ Y # {}
    BY <1>1
  <2> HIDE DEF Y
  <2> QED
    BY <2>1, LeastNumber
<1> DEFINE R == {c \in S : c[2] = y}
           X == {c[1] : c \in R}
<1>3. PICK x \in X : \A z \in X : x <= z
  <2>1. X \in SUBSET Nat /\ X # {}
    BY <1>1, <1>2
  <2> HIDE DEF X
  <2> QED
    BY <2>1, LeastNumber
<1>4. PICK c \in S : c[1] = x /\ c[2] = y
  BY <1>3
<1>5. ASSUME NEW d \in S \ {c} PROVE Before(c, d)
  <2>1. /\ y <= d[2] /\ (d[2] = y => x <= d[1])
        /\ c[1] \in Int /\ c[2] \in Int /\ d[1] \in Int /\ d[2] \in Int
    BY <1>1, <1>2, <1>3
  <2>2. ~(c[1] = d[1] /\ c[2] = d[2])
    <3>1. c = << c[1], c[2] >> /\ d = << d[1], d[2] >>
      BY <1>1
    <3>2. c # d
      OBVIOUS
    <3> QED
      BY <3>1, <3>2
  <2> QED
    BY <1>4, <2>1, <2>2 DEF Before
<1> QED
  BY <1>4, <1>5 DEF First

LEMMA AliveIs ==
  ASSUME NEW g \in Grids, Formed(g), NEW c \in Cells
  PROVE  /\ AliveBlock(g, c) \in Cells
         /\ g[AliveBlock(g, c)].type # "unusable"
<1> DEFINE Hit(d) == /\ g[d].type \in Big
                     /\ c[1] \in d[1] - Size(g[d].type)[1] - 1 .. d[1]
                     /\ c[2] \in d[2] .. d[2] + Size(g[d].type)[2] - 1
           Hits == {d \in Cells : Hit(d)}
<1>1. AliveBlock(g, c) = IF g[c].type # "unusable" \/ Hits = {} THEN c ELSE First(Hits)
  BY DEF AliveBlock
<1>2. ASSUME g[c].type = "unusable" PROVE Hits # {}
  <2>1. PICK d \in Cells : g[d].type \in Big /\ c \in Area(Size(g[d].type), d)
    BY <1>2, CoverIs
  <2>2. g[d].type \in Types
    BY DEF Grids
  <2>3. PICK w \in 1 .. 3, h \in 1 .. 4 : Size(g[d].type) = << w, h >>
    BY <2>2, SizeIs
  <2>4. c \in (d[1] - w + 1 .. d[1]) \X (d[2] .. d[2] + h - 1)
    BY <2>1, <2>3 DEF Area
  <2>5. c[1] \in d[1] - w + 1 .. d[1] /\ c[2] \in d[2] .. d[2] + h - 1
    BY <2>4
  <2>6. d[1] \in Int /\ d[2] \in Int
    BY CellsAre
  <2>7. c[1] \in d[1] - w - 1 .. d[1]
    BY <2>5, <2>6
  <2>8. Hit(d)
    BY <2>1, <2>3, <2>5, <2>7
  <2> QED
    BY <2>8
<1>3. \A d \in Hits : d \in Cells /\ g[d].type # "unusable"
  BY KindsApart
<1>4. Hits \in SUBSET Cells
  OBVIOUS
<1> HIDE DEF Hits
<1> QED
  BY <1>1, <1>2, <1>3, <1>4, FirstIs

LEMMA MovePosiIs ==
  ASSUME NEW s, s[1] \in Nat \ {0}, NEW c \in Cells
  PROVE  /\ MovePosi(s, c) \in Cells
         /\ MovePosi(s, c)[1] \in Int /\ MovePosi(s, c)[2] \in Int
<1> DEFINE a == c[1] + s[1] - 1
           m == Min({a, Width - 1})
<1>1. /\ a \in Nat /\ Width - 1 \in Nat
      /\ c[2] \in 0 .. Height - 1
  BY CellsAre, EditorAssumption
<1>2. m \in 0 .. Width - 1
  <2>1. m = CHOOSE x \in {a, Width - 1} : \A y \in {a, Width - 1} : x <= y
    BY DEF Min
  <2> HIDE DEF a, m
  <2>2. \E x \in {a, Width - 1} : \A y \in {a, Width - 1} : x <= y
    BY <1>1
  <2>3. m \in {a, Width - 1} /\ \A y \in {a, Width - 1} : m <= y
    BY <2>1, <2>2
  <2> QED
    BY <1>1, <2>3
<1>3. MovePosi(s, c) = << m, c[2] >>
  BY DEF MovePosi
<1> HIDE DEF m
<1>4. MovePosi(s, c) \in Cells
  BY <1>1, <1>2, <1>3, CellsAre
<1> QED
  BY <1>4, CellsAre


-----------------------------------------------------------------------------
(* The invariant: what is edited and what is in the project are both good, *)
(* and what was selected is made of whole elements.                        *)
LiveCopy == [grid |-> live.grid, exprs |-> live.exprs, busy |-> NumbersOf(live.grid)]
PartKept == part = NoPart \/ /\ PartIs(part)
                             /\ part = [at |-> part.at, size |-> part.size,
                                        cells |-> part.cells, cleaned |-> part.cleaned]
IInv == Good(draw) /\ Good(LiveCopy) /\ PartKept /\ ghost \in Int \X Int

LEMMA InitIsGood ==
  ASSUME Init
  PROVE  IInv
<1>1. PICK g \in Rungs : live =
        [grid |-> g, exprs |-> [e \in Exprs |->
           IF e \in ExprsElsewhere \cup NumbersIn(g, Cells, WithExpr) THEN "text" ELSE ""]]
  BY DEF Init
<1>2. g \in Grids /\ Formed(g) /\ Numbered(g) /\ Dead(g)
  BY RungsAssumption
<1> DEFINE B == NumbersOf(g)
           X == live.exprs
<1>3. /\ B \in [FunctionBlocks -> SUBSET (0 .. NbrBlocks - 1)]
      /\ \A t \in FunctionBlocks : \A n : n \in B[t] <=>
           n \in BlocksElsewhere[t] \/ \E c \in Cells : g[c].type = t /\ g[c].num = n
  BY <1>2, NumbersOfIs
<1>4. X = [e \in Exprs |->
             IF e \in ExprsElsewhere \cup NumbersIn(g, Cells, WithExpr) THEN "text" ELSE ""]
  BY <1>1
<1>5. live.grid = g
  BY <1>1
<1> HIDE DEF X, B
<1>6. /\ X \in [Exprs -> {"", "#", "text"}]
      /\ \A e \in Exprs : X[e] # "" <=>
           \/ e \in ExprsElsewhere
           \/ \E c \in Cells : g[c].type \in WithExpr /\ g[c].num = e
  BY <1>4 DEF NumbersIn
<1> DEFINE r == LiveCopy
<1>7. r = [grid |-> g, exprs |-> X, busy |-> B]
  BY <1>5 DEF LiveCopy, X, B
<1> HIDE DEF r
<1>8. r.grid = g /\ r.exprs = X /\ r.busy = B /\ r \in Drawings
  BY <1>2, <1>3, <1>6, <1>7 DEF Drawings
<1>9. Marked(r)
  <2>1. \A e \in Exprs : r.exprs[e] # "" <=>
          \/ e \in ExprsElsewhere
          \/ \E c \in Cells : r.grid[c].type \in WithExpr /\ r.grid[c].num = e
    BY <1>6, <1>8
  <2>2. \A t \in FunctionBlocks, n \in 0 .. NbrBlocks - 1 : n \in r.busy[t] <=>
          \/ n \in BlocksElsewhere[t]
          \/ \E c \in Cells : r.grid[c].type = t /\ r.grid[c].num = n
    BY <1>3, <1>8
  <2> QED
    BY <2>1, <2>2 DEF Marked
<1>10. Good(r)
  BY <1>2, <1>8, <1>9 DEF Good, Sound
<1>11. draw = r
  BY DEF Init, LiveCopy, r
<1>12. PartKept /\ ghost \in Int \X Int
  <2>1. part = NoPart /\ ghost = None
    BY DEF Init
  <2> QED
    BY <2>1 DEF PartKept, None
<1> QED
  BY <1>10, <1>11, <1>12 DEF IInv, r

LEMMA LiveKept ==
  ASSUME UNCHANGED live, Good(LiveCopy)
  PROVE  Good(LiveCopy)'
BY DEF LiveCopy

LEMMA PartUnchanged ==
  ASSUME UNCHANGED part, PartKept
  PROVE  PartKept'
BY DEF PartKept

LEMMA CopiedIsGood ==
  ASSUME Good(LiveCopy), NEW b \in BOOLEAN
  PROVE  Good(Copied(b))
<1>1. Copied(b) = [grid |-> Powered(LiveCopy.grid, b), exprs |-> LiveCopy.exprs,
                   busy |-> LiveCopy.busy]
  BY DEF Copied, LiveCopy
<1> QED
  BY <1>1, PoweredKeeps

LEMMA ModifyKeeps ==
  ASSUME IInv, ModifyCurrentRung
  PROVE  IInv'
<1>1. PICK b \in BOOLEAN : draw' = Copied(b)
  BY DEF ModifyCurrentRung
<1>2. Good(draw')
  BY <1>1, CopiedIsGood DEF IInv
<1>3. UNCHANGED << live, part, ghost >>
  BY DEF ModifyCurrentRung
<1> QED
  BY <1>2, <1>3, LiveKept, PartUnchanged DEF IInv

LEMMA CancelKeeps ==
  ASSUME IInv, CancelRungEdited
  PROVE  IInv'
<1>1. Good(draw')
  BY CopiedIsGood DEF CancelRungEdited, IInv
<1>2. UNCHANGED << live, part >> /\ ghost' \in Int \X Int
  BY DEF CancelRungEdited, None
<1> QED
  BY <1>1, <1>2, LiveKept, PartUnchanged DEF IInv

LEMMA ApplyKeeps ==
  ASSUME IInv, ApplyRungEdited
  PROVE  IInv'
<1>1. /\ live' = [grid |-> Powered(draw.grid, FALSE), exprs |-> draw.exprs]
      /\ draw' = [grid |-> Powered(live'.grid, FALSE), exprs |-> live'.exprs,
                  busy |-> NumbersOf(live'.grid)]
      /\ UNCHANGED part /\ ghost' \in Int \X Int
  BY DEF ApplyRungEdited, Copied, None
<1> DEFINE s == [grid |-> Powered(draw.grid, FALSE), exprs |-> draw.exprs, busy |-> draw.busy]
           r == [grid |-> s.grid, exprs |-> s.exprs, busy |-> NumbersOf(s.grid)]
           q == [grid |-> Powered(r.grid, FALSE), exprs |-> r.exprs, busy |-> r.busy]
<1>2. Good(s)
  BY PoweredKeeps DEF IInv
<1>3. Good(r)
  <2> HIDE DEF s
  <2> QED
    BY <1>2, OwnNumbers
<1>4. Good(q)
  <2> HIDE DEF r
  <2> QED
    BY <1>3, PoweredKeeps
<1>5. LiveCopy' = r /\ draw' = q
  BY <1>1 DEF LiveCopy
<1>6. Good(LiveCopy') /\ Good(draw')
  <2> HIDE DEF r, q
  <2> QED
    BY <1>3, <1>4, <1>5
<1> QED
  BY <1>1, <1>6, PartUnchanged DEF IInv

(* A click on the drawing alone.                                           *)
LEMMA DrawingKeeps ==
  ASSUME IInv, Good(draw'), UNCHANGED << live, part >>, ghost' = None \/ ghost' = ghost
  PROVE  IInv'
<1>1. ghost' \in Int \X Int
  BY DEF IInv, None
<1> QED
  BY <1>1, LiveKept, PartUnchanged DEF IInv

LEMMA DrawElementKeeps ==
  ASSUME IInv, NEW c \in Cells, NEW t \in Tools, DrawElement(t, c)
  PROVE  IInv'
<1> DEFINE d == MovePosi(Size(t), c)
<1>1. t \in Types \ {"free", "unusable"}
  BY EditorAssumption
<1>2. d \in Cells
  <2>1. Size(t)[1] \in Nat \ {0}
    BY <1>1, SizeIs
  <2> QED
    BY <2>1, MovePosiIs
<1>3. Good(draw)
  BY DEF IInv
<1>4. draw' = IF draw.grid[d].type = t THEN FullDeleteElement(draw, d)
              ELSE IF /\ Fits(draw.grid, Size(t), t \in Coils \cup {"operate"}, d)
                      /\ Available(draw, t) # {}
                   THEN Drawn(draw, t, d) ELSE draw
  BY DEF DrawElement
<1> HIDE DEF d
<1>5. Good(draw')
  <2>1. CASE draw.grid[d].type = t
    BY <1>1, <1>2, <1>3, <1>4, <2>1, EraseKeeps
  <2>2. CASE /\ draw.grid[d].type # t
             /\ Fits(draw.grid, Size(t), t \in Coils \cup {"operate"}, d)
             /\ Available(draw, t) # {}
    BY <1>1, <1>2, <1>3, <1>4, <2>2, DrawnKeeps
  <2>3. CASE /\ draw.grid[d].type # t
             /\ ~(/\ Fits(draw.grid, Size(t), t \in Coils \cup {"operate"}, d)
                  /\ Available(draw, t) # {})
    BY <1>3, <1>4, <2>3
  <2> QED
    BY <2>1, <2>2, <2>3
<1> QED
  BY <1>5, DrawingKeeps DEF DrawElement

(* One cell redrawn.                                                       *)
LEMMA CellRedrawn ==
  ASSUME NEW s, Good(s), NEW c \in Cells, NEW r, NEW x,
         r = [s EXCEPT !.grid[c] = x],
         x \in [type : Types, num : Nat, top : BOOLEAN, dyn : BOOLEAN],
         s.grid[c].type = x.type \/ {s.grid[c].type, x.type} \subseteq Simple,
         s.grid[c].num = x.num, x.dyn = s.grid[c].dyn,
         c[1] = Width - 1 => x.type = s.grid[c].type \/ x.type \in Coils
  PROVE  Good(r)
<1>1. s \in Drawings /\ s.grid \in Grids
  BY DEF Good, Sound, Drawings
<1>2. /\ r.grid = [s.grid EXCEPT ![c] = x] /\ r.exprs = s.exprs /\ r.busy = s.busy
      /\ r \in Drawings
  <2>1. r.grid = [s.grid EXCEPT ![c] = x] /\ r.exprs = s.exprs /\ r.busy = s.busy
    BY <1>1 DEF Drawings
  <2>2. r = [grid |-> r.grid, exprs |-> r.exprs, busy |-> r.busy]
    BY <1>1 DEF Drawings
  <2>3. r.grid \in Grids
    BY <1>1, <2>1 DEF Grids
  <2> QED
    BY <1>1, <2>1, <2>2, <2>3 DEF Drawings
<1>3. /\ r.grid[c] = x /\ \A d \in Cells \ {c} : r.grid[d] = s.grid[d]
  BY <1>1, <1>2 DEF Grids
<1>4. \A d \in Cells : s.grid[d].type \in Types /\ Outputs(s.grid[d].type) \in Int
  BY <1>1, SizeIs DEF Grids
<1>5. \A t \in Simple : Outputs(t) = 1 /\ t \notin Big /\ t # "unusable"
  BY DEF Simple, Coils, Outputs, Big, FunctionBlocks, WithExpr
<1>6. Redrawn(s.grid, r.grid)
  <2>1. ASSUME NEW d \in Cells
        PROVE  /\ s.grid[d].type \in Big \/ r.grid[d].type \in Big =>
                    r.grid[d].type = s.grid[d].type /\ r.grid[d].num = s.grid[d].num
               /\ s.grid[d].type = "unusable" <=> r.grid[d].type = "unusable"
               /\ Outputs(s.grid[d].type) <= Outputs(r.grid[d].type)
               /\ r.grid[d].dyn => s.grid[d].dyn \/ Written(s.grid, d)
               /\ d[1] = Width - 1 => r.grid[d].type = s.grid[d].type \/ r.grid[d].type \in Coils
    <3>1. CASE d # c
      <4>1. r.grid[d] = s.grid[d]
        BY <1>3, <3>1
      <4> QED
        BY <1>4, <4>1
    <3>2. CASE d = c /\ s.grid[c].type = x.type
      BY <1>3, <1>4, <3>2
    <3>3. CASE d = c /\ s.grid[c].type \in Simple /\ x.type \in Simple
      BY <1>3, <1>5, <3>3
    <3> QED
      BY <3>1, <3>2, <3>3
  <2> QED
    BY <2>1 DEF Redrawn
<1>7. SameMarks(s, r)
  BY <1>2 DEF SameMarks
<1> QED
  BY <1>2, <1>6, <1>7, RedrawnKeeps

LEMMA CellIs ==
  ASSUME NEW s, Good(s), NEW c \in Cells
  PROVE  s.grid[c] \in [type : Types, num : Nat, top : BOOLEAN, dyn : BOOLEAN]
BY DEF Good, Sound, Drawings, Grids

LEMMA EraseClickKeeps ==
  ASSUME IInv, NEW c \in Cells, Erase(c)
  PROVE  IInv'
<1> DEFINE d == AliveBlock(draw.grid, c)
<1>1. Good(draw) /\ draw.grid \in Grids /\ Formed(draw.grid)
  BY DEF IInv, Good, Sound, Drawings
<1>2. d \in Cells /\ draw.grid[d].type # "unusable"
  BY <1>1, AliveIs
<1>3. /\ draw.grid[d].type = "free" => draw' = [draw EXCEPT !.grid[d].top = FALSE]
      /\ draw.grid[d].type # "free" => draw' = FullDeleteElement(draw, d)
  BY DEF Erase
<1> HIDE DEF d
<1>4. CASE draw.grid[d].type # "free"
  <2>1. Good(draw')
    BY <1>1, <1>2, <1>3, <1>4, EraseKeeps
  <2> QED
    BY <2>1, DrawingKeeps DEF Erase
<1>5. CASE draw.grid[d].type = "free"
  <2> DEFINE x == [draw.grid[d] EXCEPT !.top = FALSE]
  <2>1. x \in [type : Types, num : Nat, top : BOOLEAN, dyn : BOOLEAN]
        /\ x.type = draw.grid[d].type /\ x.num = draw.grid[d].num /\ x.dyn = draw.grid[d].dyn
    BY <1>1, <1>2, CellIs
  <2>2. draw' = [draw EXCEPT !.grid[d] = x]
    BY <1>3, <1>5
  <2> HIDE DEF x
  <2>3. Good(draw')
    BY <1>1, <1>2, <2>1, <2>2, CellRedrawn
  <2> QED
    BY <2>3, DrawingKeeps DEF Erase
<1> QED
  BY <1>4, <1>5


LEMMA ConnectKeeps ==
  ASSUME IInv, NEW c \in Cells, ConnectWithTop(c)
  PROVE  IInv'
<1> DEFINE v == ~draw.grid[c].top /\ c[2] > 0
           x == [draw.grid[c] EXCEPT !.top = v]
<1>1. Good(draw) /\ draw.grid[c] \in [type : Types, num : Nat, top : BOOLEAN, dyn : BOOLEAN]
  BY CellIs DEF IInv
<1>2. v \in BOOLEAN
  OBVIOUS
<1>3. draw' = [draw EXCEPT !.grid[c] = x]
  BY DEF ConnectWithTop
<1> HIDE DEF v
<1>4. /\ x \in [type : Types, num : Nat, top : BOOLEAN, dyn : BOOLEAN]
      /\ x.type = draw.grid[c].type /\ x.num = draw.grid[c].num /\ x.dyn = draw.grid[c].dyn
  BY <1>1, <1>2
<1> HIDE DEF x
<1>5. Good(draw')
  BY <1>1, <1>3, <1>4, CellRedrawn
<1> QED
  BY <1>5, DrawingKeeps DEF ConnectWithTop

LEMMA InvertedIs ==
  ASSUME NEW t \in Types
  PROVE  /\ Inverted(t) \in Types
         /\ Inverted(t) = t \/ {t, Inverted(t)} \subseteq Simple
         /\ t \in Coils \cup {"operate", "free", "unusable"} =>
              Inverted(t) = t \/ Inverted(t) \in Coils
<1>1. CASE t \in {"contact", "contactNot", "coil", "coilNot"}
  BY <1>1 DEF Inverted, Types, Simple, Coils
<1>2. CASE t \notin {"contact", "contactNot", "coil", "coilNot"}
  BY <1>2 DEF Inverted
<1> QED
  BY <1>1, <1>2

LEMMA InvertKeeps ==
  ASSUME IInv, NEW c \in Cells, InvertContact(c)
  PROVE  IInv'
<1> DEFINE t == draw.grid[c].type
           u == Inverted(t)
           x == [draw.grid[c] EXCEPT !.type = u]
<1>1. /\ Good(draw) /\ Formed(draw.grid)
      /\ draw.grid[c] \in [type : Types, num : Nat, top : BOOLEAN, dyn : BOOLEAN]
  BY CellIs DEF IInv, Good
<1>2. /\ t \in Types /\ u \in Types /\ (u = t \/ {t, u} \subseteq Simple)
      /\ t \in Coils \cup {"operate", "free", "unusable"} => u = t \/ u \in Coils
  <2>1. t \in Types
    BY <1>1
  <2> HIDE DEF t
  <2> QED
    BY <2>1, InvertedIs
<1>3. draw' = [draw EXCEPT !.grid[c] = x]
  BY DEF InvertContact
<1>4. c[1] = Width - 1 => u = t \/ u \in Coils
  BY <1>1, <1>2 DEF Formed
<1> HIDE DEF u
<1>5. /\ x \in [type : Types, num : Nat, top : BOOLEAN, dyn : BOOLEAN]
      /\ x.type = u /\ x.num = draw.grid[c].num /\ x.dyn = draw.grid[c].dyn
  <2> DEFINE y == draw.grid[c]
  <2>1. u \in Types
    BY <1>2
  <2>2. y \in [type : Types, num : Nat, top : BOOLEAN, dyn : BOOLEAN]
    BY <1>1
  <2>3. x = [y EXCEPT !.type = u]
    OBVIOUS
  <2> HIDE DEF y, x
  <2> QED
    BY <2>1, <2>2, <2>3 DEF y
<1> HIDE DEF x
<1>6. draw.grid[c].type = x.type \/ {draw.grid[c].type, x.type} \subseteq Simple
  BY <1>2, <1>5
<1>7. c[1] = Width - 1 => x.type = draw.grid[c].type \/ x.type \in Coils
  BY <1>4, <1>5
<1>8. Good(draw')
  BY <1>1, <1>3, <1>5, <1>6, <1>7, CellRedrawn
<1> QED
  BY <1>8, DrawingKeeps DEF InvertContact

LEMMA LongConnectionKeeps ==
  ASSUME IInv, NEW c \in Cells, LongConnection(c)
  PROVE  IInv'
<1> DEFINE g == draw.grid
           Reached(x) == x < Width - 1 /\ \A k \in c[1] .. x : g[<< k, c[2] >>].type = "free"
           P(d) == d[2] = c[2] /\ d[1] >= c[1] /\ Reached(d[1])
           h == [d \in Cells |-> IF P(d) THEN [g[d] EXCEPT !.type = "connection"] ELSE g[d]]
<1>1. Good(draw) /\ draw \in Drawings /\ g \in Grids
  BY DEF IInv, Good, Sound, Drawings
<1>2. draw' = [draw EXCEPT !.grid = h]
  BY DEF LongConnection
<1>3. ASSUME NEW d \in Cells, P(d)
      PROVE  g[d].type = "free" /\ d[1] # Width - 1
  <2>1. d = << d[1], d[2] >> /\ d[1] \in Int /\ c[1] \in Int
    BY CellsAre
  <2>2. d[1] \in c[1] .. d[1]
    BY <1>3, <2>1
  <2>3. g[<< d[1], c[2] >>].type = "free"
    BY <1>3, <2>2
  <2> QED
    BY <1>3, <2>1, <2>3, EditorAssumption
<1>4. \A d \in Cells : g[d] \in [type : Types, num : Nat, top : BOOLEAN, dyn : BOOLEAN]
  BY <1>1 DEF Grids
<1>5. /\ h \in Grids
      /\ \A d \in Cells : P(d) => h[d].type = "connection" /\ h[d].dyn = g[d].dyn
      /\ \A d \in Cells : ~P(d) => h[d] = g[d]
  <2>1. "connection" \in Types
    BY DEF Types
  <2>2. \A d \in Cells : [g[d] EXCEPT !.type = "connection"] \in
          [type : Types, num : Nat, top : BOOLEAN, dyn : BOOLEAN]
    BY <1>4, <2>1
  <2> HIDE DEF P
  <2>3. h \in Grids
    BY <1>4, <2>2 DEF Grids
  <2>4. ASSUME NEW d \in Cells, P(d)
        PROVE  h[d].type = "connection" /\ h[d].dyn = g[d].dyn
    <3>1. h[d] = [g[d] EXCEPT !.type = "connection"]
      BY <2>4
    <3> QED
      BY <1>4, <3>1
  <2> QED
    BY <2>3, <2>4
<1> HIDE DEF P, h
<1>6. /\ draw'.grid = h /\ draw'.exprs = draw.exprs /\ draw'.busy = draw.busy
      /\ draw' \in Drawings
  BY <1>1, <1>2, <1>5 DEF Drawings
<1>7. \A d \in Cells : g[d].type \in Types /\ Outputs(g[d].type) \in Int
  BY <1>4, SizeIs
<1>8. Outputs("free") = 0 /\ Outputs("connection") = 1
  BY DEF Outputs
<1>9. Redrawn(g, h)
  <2>1. ASSUME NEW d \in Cells
        PROVE  /\ g[d].type \in Big \/ h[d].type \in Big =>
                    h[d].type = g[d].type /\ h[d].num = g[d].num
               /\ g[d].type = "unusable" <=> h[d].type = "unusable"
               /\ Outputs(g[d].type) <= Outputs(h[d].type)
               /\ h[d].dyn => g[d].dyn \/ Written(g, d)
               /\ d[1] = Width - 1 => h[d].type = g[d].type \/ h[d].type \in Coils
    <3>1. CASE P(d)
      <4>1. g[d].type = "free" /\ d[1] # Width - 1
        BY <1>3, <3>1
      <4>2. h[d].type = "connection" /\ h[d].dyn = g[d].dyn
        BY <1>5, <3>1
      <4> QED
        BY <1>8, <4>1, <4>2, KindsApart
    <3>2. CASE ~P(d)
      <4>1. h[d] = g[d]
        BY <1>5, <3>2
      <4> QED
        BY <1>7, <4>1
    <3> QED
      BY <3>1, <3>2
  <2> QED
    BY <2>1 DEF Redrawn
<1>10. SameMarks(draw, draw')
  BY <1>6 DEF SameMarks
<1>11. Good(draw')
  BY <1>1, <1>6, <1>9, <1>10, RedrawnKeeps
<1> QED
  BY <1>11, DrawingKeeps DEF LongConnection

LEMMA SaveKeeps ==
  ASSUME Careful, IInv, NEW c \in Cells, NEW n \in 0 .. NbrBlocks - 1, SaveElementProperties(c, n)
  PROVE  IInv'
<1> DEFINE d == AliveBlock(draw.grid, c)
<1>1. /\ Good(draw) /\ draw \in Drawings /\ draw.grid \in Grids /\ Formed(draw.grid)
      /\ Numbered(draw.grid) /\ Marked(draw)
  BY DEF IInv, Good, Sound, Drawings
<1>2. d \in Cells
  BY <1>1, AliveIs
<1>3. \/ /\ n = draw.grid[d].num
         /\ draw' = [draw EXCEPT !.grid[d].num = n]
      \/ /\ draw.grid[d].type \in WithExpr
         /\ draw' = [draw EXCEPT !.exprs[draw.grid[d].num] = "text"]
  BY DEF SaveElementProperties
<1> HIDE DEF d
<1>4. draw.grid[d] \in [type : Types, num : Nat, top : BOOLEAN, dyn : BOOLEAN]
  BY <1>1, <1>2, CellIs
<1>5. CASE n = draw.grid[d].num /\ draw' = [draw EXCEPT !.grid[d].num = n]
  <2> DEFINE x == [draw.grid[d] EXCEPT !.num = n]
  <2>1. /\ x \in [type : Types, num : Nat, top : BOOLEAN, dyn : BOOLEAN]
        /\ x.type = draw.grid[d].type /\ x.num = draw.grid[d].num /\ x.dyn = draw.grid[d].dyn
    BY <1>4, <1>5
  <2>2. draw' = [draw EXCEPT !.grid[d] = x]
    BY <1>5
  <2> HIDE DEF x
  <2>3. Good(draw')
    BY <1>1, <1>2, <2>1, <2>2, CellRedrawn
  <2> QED
    BY <2>3, DrawingKeeps DEF SaveElementProperties
<1>6. CASE /\ draw.grid[d].type \in WithExpr
           /\ draw' = [draw EXCEPT !.exprs[draw.grid[d].num] = "text"]
  <2> DEFINE e == draw.grid[d].num
  <2>1. e \in Exprs /\ draw.exprs[e] # ""
    BY <1>1, <1>2, <1>6, NumberedIs DEF Marked
  <2>2. draw' = [draw EXCEPT !.exprs[e] = "text"]
    BY <1>6
  <2> HIDE DEF e
  <2>3. /\ draw'.grid = draw.grid /\ draw'.busy = draw.busy
        /\ draw'.exprs = [draw.exprs EXCEPT ![e] = "text"]
        /\ draw' \in Drawings
    BY <1>1, <2>1, <2>2 DEF Drawings
  <2>4. draw.exprs \in [Exprs -> {"", "#", "text"}]
    BY <1>1 DEF Drawings
  <2>5. \A f \in Exprs : draw'.exprs[f] = "" <=> draw.exprs[f] = ""
    BY <2>1, <2>3, <2>4
  <2>6. SameMarks(draw, draw')
    BY <2>3, <2>5 DEF SameMarks
  <2>7. \A f \in Cells : draw.grid[f].type \in Types /\ Outputs(draw.grid[f].type) \in Int
    BY <1>1, SizeIs DEF Grids
  <2>8. Redrawn(draw.grid, draw'.grid)
    BY <2>3, <2>7 DEF Redrawn
  <2>9. Good(draw')
    BY <1>1, <2>3, <2>6, <2>8, RedrawnKeeps
  <2> QED
    BY <2>9, DrawingKeeps DEF SaveElementProperties
<1> QED
  BY <1>3, <1>5, <1>6


LEMMA SelectKeeps ==
  ASSUME Careful, IInv, NEW c \in Cells, NEW d \in Cells, SelectPart(c, d)
  PROVE  IInv'
<1> DEFINE size == << d[1] - c[1] + 1, d[2] - c[2] + 1 >>
<1>1. /\ d[1] >= c[1] /\ d[2] >= c[2] /\ Whole(draw.grid, Selected(c, size))
      /\ part' = [at |-> c, size |-> size, cleaned |-> FALSE,
                  cells |-> [o \in Selected(<< 0, 0 >>, size) |-> draw.grid[Shifted(c, o)]]]
      /\ ghost' = None /\ UNCHANGED << live, draw >>
  BY DEF SelectPart
<1>2. Good(draw)
  BY DEF IInv
<1> DEFINE p == part'
<1> HIDE DEF p
<1>3. /\ p.at = c /\ p.size = << d[1] - c[1] + 1, d[2] - c[2] + 1 >>
      /\ p.cells = [o \in Selected(<< 0, 0 >>, p.size) |-> draw.grid[Shifted(c, o)]]
      /\ Whole(draw.grid, Selected(c, p.size))
      /\ p = [at |-> p.at, size |-> p.size, cells |-> p.cells, cleaned |-> p.cleaned]
  BY <1>1 DEF p
<1>4. PartIs(p)
  BY <1>1, <1>2, <1>3, SelectionIs
<1>5. PartKept'
  BY <1>3, <1>4 DEF PartKept, p
<1>6. Good(draw') /\ Good(LiveCopy)' /\ ghost' \in Int \X Int
  BY <1>1, LiveKept DEF IInv, None
<1> QED
  BY <1>5, <1>6 DEF IInv

LEMMA MotionKeeps ==
  ASSUME IInv, NEW c \in Cells, MouseMotionOnRung(c)
  PROVE  IInv'
<1> DEFINE d == MovePosi(part.size, c)
<1>1. PartIs(part) /\ UNCHANGED << live, draw, part >>
  BY DEF IInv, PartKept, MouseMotionOnRung
<1>2. part.size[1] \in Nat \ {0}
  BY <1>1 DEF PartIs
<1>3. d[1] \in Int /\ d[2] \in Int
  BY <1>2, MovePosiIs
<1>4. ghost' = << d[1] - part.size[1] + 1, d[2] >> \/ ghost' = None
  BY DEF MouseMotionOnRung
<1> HIDE DEF d
<1>5. ghost' \in Int \X Int
  BY <1>2, <1>3, <1>4 DEF None
<1>6. Good(draw')
  BY <1>1 DEF IInv
<1> QED
  BY <1>1, <1>5, <1>6, LiveKept, PartUnchanged DEF IInv

LEMMA MoveKeeps ==
  ASSUME Careful, IInv, StartMoving
  PROVE  IInv'
<1>1. part # NoPart
  BY DEF StartMoving, NoPart
<1>2. /\ PartIs(part)
      /\ part = [at |-> part.at, size |-> part.size, cells |-> part.cells,
                 cleaned |-> part.cleaned]
  BY <1>1 DEF IInv, PartKept
<1>3. /\ Whole(draw.grid, Selected(part.at, part.size))
      /\ draw' = LET rows == Rows(part.at, part.size) IN Cleaned(draw, rows)[Len(rows)]
      /\ part' = [part EXCEPT !.cleaned = TRUE]
      /\ ghost' = None /\ UNCHANGED live
  BY DEF StartMoving
<1>4. Good(draw')
  <2> DEFINE at == part.at
             size == part.size
  <2>1. /\ at \in Cells /\ size[1] \in Nat \ {0} /\ size[2] \in Nat \ {0}
        /\ Selected(at, size) \subseteq Cells
    BY <1>2 DEF PartIs
  <2>2. at[1] \in Int /\ at[2] \in Int
    BY <2>1, CellsAre
  <2>3. Good(draw) /\ Whole(draw.grid, Selected(at, size))
    BY <1>3 DEF IInv
  <2> HIDE DEF at, size
  <2>4. LET rows == Rows(at, size) IN Good(Cleaned(draw, rows)[Len(rows)])
    BY <2>1, <2>2, <2>3, MovingKeeps
  <2> QED
    BY <1>3, <2>4 DEF at, size
<1>5. PartKept'
  <2> DEFINE p == part'
  <2>1. /\ p = [at |-> part.at, size |-> part.size, cells |-> part.cells, cleaned |-> TRUE]
    BY <1>2, <1>3
  <2> HIDE DEF p
  <2>2. /\ p.at = part.at /\ p.size = part.size /\ p.cells = part.cells
        /\ p = [at |-> p.at, size |-> p.size, cells |-> p.cells, cleaned |-> p.cleaned]
    BY <2>1
  <2>3. PartIs(p)
    BY <1>2, <2>2 DEF PartIs, ToTheRight
  <2> QED
    BY <2>2, <2>3 DEF PartKept, p
<1>6. ghost' \in Int \X Int /\ Good(LiveCopy)'
  BY <1>3, LiveKept DEF IInv, None
<1> QED
  BY <1>4, <1>5, <1>6 DEF IInv

LEMMA CopyKeeps ==
  ASSUME Careful, IInv, CopyNowPartSelected
  PROVE  IInv'
<1> DEFINE p == part
<1>1. PartIs(part) /\ Good(draw) /\ ghost \in Int \X Int
  BY DEF IInv, PartKept, CopyNowPartSelected
<1>2. /\ Fits(draw.grid, part.size, ToTheRight(part),
              << ghost[1] + part.size[1] - 1, ghost[2] >>)
      /\ \A d \in Selected(ghost, part.size) : ~draw.grid[d].dyn
      /\ \A o \in OfPart(WithExpr) : draw.exprs[part.cells[o].num] # ""
      /\ Cardinality(OfPart(WithExpr)) <= Cardinality(Available(draw, "compar"))
      /\ \A t \in FunctionBlocks :
           Cardinality(OfPart({t})) <= Cardinality(Available(draw, t))
      /\ draw' = LET rows == Rows(<< 0, 0 >>, part.size)
                 IN Pasted(draw, part.cells, ghost, rows)[Len(rows)]
      /\ UNCHANGED << live, part, ghost >>
  BY DEF CopyNowPartSelected
<1>3. Texts(draw, part.cells)
  BY <1>2 DEF Texts, OfPart
<1>4. Room(draw, part.cells, DOMAIN part.cells)
  <2>1. \A types : OfPart(types) = OfTypes(part.cells, DOMAIN part.cells, types)
    BY DEF OfPart, OfTypes
  <2>2. /\ Available(draw, "compar") = FreeExprs(draw)
        /\ \A t \in FunctionBlocks : Available(draw, t) = FreeNumbers(draw, t)
    BY FreeAre DEF WithExpr
  <2> QED
    BY <1>2, <2>1, <2>2 DEF Room
<1>5. LET rows == Rows(<< 0, 0 >>, part.size)
      IN Good(Pasted(draw, part.cells, ghost, rows)[Len(rows)])
  BY <1>1, <1>2, <1>3, <1>4, PastingKeeps
<1>6. Good(draw')
  BY <1>2, <1>5
<1> QED
  BY <1>2, <1>6, DrawingKeeps

LEMMA NextKeeps ==
  ASSUME Careful, IInv, [Next]_vars
  PROVE  IInv'
<1>1. CASE ModifyCurrentRung
  BY <1>1, ModifyKeeps
<1>2. CASE ApplyRungEdited
  BY <1>2, ApplyKeeps
<1>3. CASE CancelRungEdited
  BY <1>3, CancelKeeps
<1>4. ASSUME NEW c \in Cells,
             \/ \E t \in Tools : DrawElement(t, c)
             \/ Erase(c) \/ ConnectWithTop(c) \/ LongConnection(c) \/ InvertContact(c)
             \/ \E n \in 0 .. NbrBlocks - 1 : SaveElementProperties(c, n)
             \/ \E d \in Cells : SelectPart(c, d)
             \/ MouseMotionOnRung(c)
      PROVE  IInv'
  <2>1. CASE \E t \in Tools : DrawElement(t, c)
    BY <2>1, DrawElementKeeps
  <2>2. CASE Erase(c)
    BY <2>2, EraseClickKeeps
  <2>3. CASE ConnectWithTop(c)
    BY <2>3, ConnectKeeps
  <2>4. CASE LongConnection(c)
    BY <2>4, LongConnectionKeeps
  <2>5. CASE InvertContact(c)
    BY <2>5, InvertKeeps
  <2>6. CASE \E n \in 0 .. NbrBlocks - 1 : SaveElementProperties(c, n)
    BY <2>6, SaveKeeps
  <2>7. CASE \E d \in Cells : SelectPart(c, d)
    BY <2>7, SelectKeeps
  <2>8. CASE MouseMotionOnRung(c)
    BY <2>8, MotionKeeps
  <2> QED
    BY <1>4, <2>1, <2>2, <2>3, <2>4, <2>5, <2>6, <2>7, <2>8
<1>5. CASE StartMoving
  BY <1>5, MoveKeeps
<1>6. CASE CopyNowPartSelected
  BY <1>6, CopyKeeps
<1>7. CASE UNCHANGED vars
  <2>1. UNCHANGED << live, draw, part, ghost >>
    BY <1>7 DEF vars
  <2>2. Good(draw')
    BY <2>1 DEF IInv
  <2> QED
    BY <2>1, <2>2, DrawingKeeps
<1> QED
  BY <1>1, <1>2, <1>3, <1>4, <1>5, <1>6, <1>7 DEF Next

(* For an operator who is careful, what is edited and what is in the       *)
(* project are always made of whole elements with numbers of their own.    *)
THEOREM Invariance == Careful => (Spec => []IInv)
<1>1. SUFFICES ASSUME Careful PROVE Spec => []IInv
  OBVIOUS
<1>2. Init => IInv
  BY InitIsGood
<1>3. IInv /\ [Next]_vars => IInv'
  BY <1>1, NextKeeps
<1> QED
  BY <1>2, <1>3, PTL DEF Spec

(* The blocks of a big element are always where the evaluation takes them   *)
(* for granted, whatever is drawn, erased, moved and pasted.               *)
THEOREM ElementsStayWhole == Careful => (Spec => []WellFormed)
<1>1. SUFFICES ASSUME Careful PROVE Spec => []WellFormed
  OBVIOUS
<1>2. IInv => WellFormed
  BY DEF IInv, Good, WellFormed
<1> QED
  BY <1>1, <1>2, Invariance, PTL

(* No two blocks share a number or an expression, and none is lost.        *)
THEOREM BlocksStayOwned == Careful => (Spec => []BlocksOwned)
<1>1. SUFFICES ASSUME Careful PROVE Spec => []BlocksOwned
  OBVIOUS
<1>2. IInv => BlocksOwned
  BY SoundIsOwned DEF IInv, Good, BlocksOwned
<1> QED
  BY <1>1, <1>2, Invariance, PTL

(* A cell where nothing is drawn never carries power.                      *)
THEOREM FreeCellsStayDead == Careful => (Spec => []FreeCellsDead)
<1>1. SUFFICES ASSUME Careful PROVE Spec => []FreeCellsDead
  OBVIOUS
<1>2. IInv => FreeCellsDead
  BY DEF IInv, Good, FreeCellsDead
<1> QED
  BY <1>1, <1>2, Invariance, PTL
=============================================================================
