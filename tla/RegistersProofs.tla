-------------------------- MODULE RegistersProofs --------------------------
(* Theorems about the register blocks, for any number of registers, any    *)
(* list size and any input values.                                         *)
EXTENDS RegistersStore, SequencesExt, SequenceTheorems, TLAPS

RegType == [mode : Modes, saved : 0 .. Size, first : 0 .. Size,
            latest : 0 .. Size, out : Int, inBak : BOOLEAN,
            outBak : BOOLEAN, empty : BOOLEAN, full : BOOLEAN]

(* The indexes of one register agree with its count, as a sum: what the    *)
(* steps keep, IndexesAgree being drawn from it.                           *)
Agree(q) ==
    /\ q.mode = "LIFO" => q.latest = 0 /\ q.first = q.saved
    /\ q.mode = "FIFO" =>
         \/ q.first = q.latest + q.saved
         \/ q.first + Size + 1 = q.latest + q.saved

Sane(r) == ~tainted[r] => Agree(reg[r])

IInv == TypeOK /\ \A r \in Regs : Sane(r)

-----------------------------------------------------------------------------
(* The cells that a register reaches exist: with the index past its end,   *)
(* the last register reaches the cell that follows the array.              *)
LEMMA CellInArray ==
  ASSUME NEW r \in Regs, NEW i \in 0 .. Size
  PROVE  Cell(r, i) \in 0 .. NbrRegisters * Size
<1>1. NbrRegisters \in Nat /\ Size \in Nat /\ r \in Nat /\ r + 1 <= NbrRegisters
  BY SizesAssumption DEF Regs
<1>2. (r + 1) * Size <= NbrRegisters * Size
  BY <1>1
<1>3. (r + 1) * Size = r * Size + Size /\ r * Size \in Nat /\ NbrRegisters * Size \in Nat
  BY <1>1
<1> QED
  BY <1>1, <1>2, <1>3 DEF Cell

LEMMA PushKeeps ==
  ASSUME NEW q \in RegType, NEW in \in BOOLEAN, Pushes(q, in)
  PROVE  Pushed(q) \in RegType /\ (Agree(q) => Agree(Pushed(q)))
<1>1. q.saved + 1 \in 0 .. Size
  BY SizesAssumption DEF Pushes, RegType
<1>2. Advance(q.first) \in 0 .. Size
  BY SizesAssumption DEF Advance, RegType
<1>3. Pushed(q) = [q EXCEPT !.saved = q.saved + 1, !.first = Advance(q.first)]
  BY DEF Pushed
<1>4. Pushed(q) \in RegType
  BY <1>1, <1>2, <1>3 DEF RegType
<1>5. /\ Pushed(q).mode = q.mode /\ Pushed(q).latest = q.latest
      /\ Pushed(q).saved = q.saved + 1 /\ Pushed(q).first = Advance(q.first)
  BY <1>3 DEF RegType
<1>6. q.first \in 0 .. Size /\ q.latest \in 0 .. Size /\ q.saved \in 0 .. Size
  BY DEF RegType
<1>7. ASSUME Agree(q) PROVE Agree(Pushed(q))
  BY <1>1, <1>5, <1>6, <1>7, SizesAssumption DEF Agree, Advance
<1> QED
  BY <1>4, <1>7

(* Taking the oldest value keeps a FIFO's indexes its count apart.         *)
LEMMA OldestTaken ==
  ASSUME NEW f \in 0 .. Size, NEW l \in 0 .. Size, NEW n \in 1 .. Size,
         f = l + n \/ f + Size + 1 = l + n
  PROVE  f = Advance(l) + (n - 1) \/ f + Size + 1 = Advance(l) + (n - 1)
<1>1. CASE l = Size
  BY <1>1, SizesAssumption DEF Advance
<1>2. CASE l < Size
  BY <1>2, SizesAssumption DEF Advance
<1> QED
  BY <1>1, <1>2, SizesAssumption

LEMMA PopKeeps ==
  ASSUME NEW r \in Regs, NEW q \in RegType, NEW out \in BOOLEAN, Pops(q, out),
         NEW mem \in [0 .. NbrRegisters * Size -> Int]
  PROVE  Popped(r, q, mem) \in RegType /\ (Agree(q) => Agree(Popped(r, q, mem)))
<1>0. q.first \in 0 .. Size /\ q.latest \in 0 .. Size /\ q.mode \in Modes
  BY DEF RegType
<1>1. q.saved \in 1 .. Size /\ q.saved - 1 \in 0 .. Size
  BY SizesAssumption DEF Pops, RegType
<1>2. CASE q.mode = "FIFO"
  <2>1. mem[Cell(r, q.latest)] \in Int
    BY CellInArray DEF RegType
  <2>2. Popped(r, q, mem) = [q EXCEPT !.saved = q.saved - 1, !.out = mem[Cell(r, q.latest)],
                                      !.latest = Advance(q.latest)]
    BY <1>2 DEF Popped
  <2>3. Advance(q.latest) \in 0 .. Size
    BY SizesAssumption DEF Advance, RegType
  <2>4. Popped(r, q, mem) \in RegType
    BY <1>1, <2>1, <2>2, <2>3 DEF RegType
  <2>5. /\ Popped(r, q, mem).mode = "FIFO" /\ Popped(r, q, mem).first = q.first
        /\ Popped(r, q, mem).saved = q.saved - 1
        /\ Popped(r, q, mem).latest = Advance(q.latest)
    BY <1>2, <2>2 DEF RegType
  <2>6. ASSUME Agree(q) PROVE Agree(Popped(r, q, mem))
    <3>1. q.first = q.latest + q.saved \/ q.first + Size + 1 = q.latest + q.saved
      BY <1>2, <2>6 DEF Agree
    <3> QED
      BY <1>0, <1>1, <2>5, <3>1, OldestTaken DEF Agree
  <2> QED
    BY <2>4, <2>6
<1>3. CASE q.mode = "LIFO"
  <2>1. Back(q.first) \in 0 .. Size
    BY SizesAssumption DEF Back, RegType
  <2>2. mem[Cell(r, Back(q.first))] \in Int
    BY <2>1, CellInArray
  <2>3. Popped(r, q, mem) = [q EXCEPT !.saved = q.saved - 1, !.out = mem[Cell(r, Back(q.first))],
                                      !.first = Back(q.first)]
    BY <1>3 DEF Popped
  <2>4. Popped(r, q, mem) \in RegType
    BY <1>1, <2>1, <2>2, <2>3 DEF RegType
  <2>5. /\ Popped(r, q, mem).mode = "LIFO" /\ Popped(r, q, mem).latest = q.latest
        /\ Popped(r, q, mem).saved = q.saved - 1
        /\ Popped(r, q, mem).first = Back(q.first)
    BY <1>3, <2>3 DEF RegType
  <2>6. ASSUME Agree(q) PROVE Agree(Popped(r, q, mem))
    BY <1>0, <1>1, <1>3, <2>5, <2>6, SizesAssumption DEF Agree, Back
  <2> QED
    BY <2>4, <2>6
<1>4. CASE q.mode = "UNDEF"
  <2>1. Popped(r, q, mem) = [q EXCEPT !.saved = @ - 1]
    BY <1>4 DEF Popped
  <2> QED
    BY <1>1, <1>4, <2>1 DEF RegType, Agree, Modes
<1> QED
  BY <1>2, <1>3, <1>4 DEF RegType, Modes

LEMMA ClearKeeps ==
  ASSUME NEW q \in RegType
  PROVE  Cleared(q) \in RegType /\ Agree(Cleared(q))
<1>0. 0 \in 0 .. Size
  BY SizesAssumption
<1>1. Cleared(q) \in RegType
  <2> DEFINE q3 == [q EXCEPT !.saved = 0, !.first = 0, !.latest = 0]
  <2>1. q3 \in RegType
    BY <1>0 DEF RegType
  <2>2. Cleared(q) = [q3 EXCEPT !.out = 0]
    BY DEF Cleared
  <2> HIDE DEF q3
  <2> QED
    BY <2>1, <2>2 DEF RegType
<1>2. Cleared(q).saved = 0 /\ Cleared(q).first = 0 /\ Cleared(q).latest = 0
  BY DEF RegType, Cleared
<1> QED
  BY <1>1, <1>2, SizesAssumption DEF Agree

-----------------------------------------------------------------------------
LEMMA InitIInv == Init => IInv
<1> SUFFICES ASSUME Init PROVE IInv
  OBVIOUS
<1>1. \A m \in Modes : Prepared(m) \in RegType /\ Agree(Prepared(m))
  BY SizesAssumption DEF Prepared, RegType, Agree
<1>2. reg \in [Regs -> RegType] /\ \A r \in Regs : Agree(reg[r])
  BY <1>1 DEF Init
<1> QED
  BY <1>2 DEF Init, IInv, Sane, TypeOK, RegType

LEMMA CalcKeepsIInv ==
  ASSUME IInv, NEW r \in Regs, NEW reset \in BOOLEAN, NEW in \in BOOLEAN,
         NEW out \in BOOLEAN, NEW v \in Values, CalcElemRegister(r, reset, in, out, v)
  PROVE  IInv'
<1> DEFINE push == Pushes(reg[r], in)
           mem  == IF push THEN [cells EXCEPT ![Cell(r, reg[r].first)] = v] ELSE cells
           q1   == IF push THEN Pushed(reg[r]) ELSE reg[r]
           q2   == IF Pops(q1, out) THEN Popped(r, q1, mem) ELSE q1
           q3   == IF reset THEN Cleared(q2) ELSE q2
           q4   == [q3 EXCEPT !.inBak = in, !.outBak = out,
                              !.empty = (q3.saved = 0), !.full = (q3.saved = Size)]
<1>1. reg[r] \in RegType /\ tainted[r] \in BOOLEAN
  BY DEF IInv, TypeOK, RegType
<1>2. mem \in [0 .. NbrRegisters * Size -> Int]
  BY ValuesAssumption DEF IInv, TypeOK
<1>3. q1 \in RegType /\ (Agree(reg[r]) => Agree(q1))
  BY <1>1, PushKeeps
<1>4. q2 \in RegType /\ (Agree(q1) => Agree(q2))
  <2> HIDE DEF q1, mem
  <2> QED
    BY <1>2, <1>3, PopKeeps
<1>5. q3 \in RegType /\ (Agree(q2) => Agree(q3)) /\ (reset => Agree(q3))
  <2> HIDE DEF q2
  <2> QED
    BY <1>4, ClearKeeps
<1>6. q4 \in RegType /\ (Agree(q3) => Agree(q4))
  <2> HIDE DEF q3
  <2> QED
    BY <1>5, ZenonT(30) DEF RegType, Agree
<1>7. /\ cells' = mem
      /\ reg' = [reg EXCEPT ![r] = q4]
      /\ tainted' = [tainted EXCEPT ![r] = @ /\ ~reset]
  BY DEF CalcElemRegister
<1> HIDE DEF q1, q2, q3, q4, mem, push
<1>8. Sane(r)'
  BY <1>1, <1>3, <1>4, <1>5, <1>6, <1>7 DEF IInv, TypeOK, Sane
<1>9. \A s \in Regs : Sane(s)'
  BY <1>7, <1>8 DEF IInv, TypeOK, Sane
<1>10. TypeOK'
  BY <1>1, <1>2, <1>6, <1>7 DEF IInv, TypeOK, RegType
<1> QED
  BY <1>9, <1>10 DEF IInv

LEMMA PrepareKeepsIInv ==
  ASSUME IInv, PrepareRegisters
  PROVE  IInv'
<1>1. \A m \in Modes : Prepared(m) \in RegType /\ Agree(Prepared(m))
  BY SizesAssumption DEF Prepared, RegType, Agree
<1>2. \A r \in Regs : reg[r].mode \in Modes
  BY DEF IInv, TypeOK
<1>3. reg' \in [Regs -> RegType] /\ \A r \in Regs : Agree(reg'[r])
  BY <1>1, <1>2 DEF PrepareRegisters
<1> QED
  BY <1>3 DEF PrepareRegisters, IInv, Sane, TypeOK, RegType

LEMMA EditKeepsIInv ==
  ASSUME IInv, NEW r \in Regs, NEW m \in Modes, SaveElementProperties(r, m)
  PROVE  IInv'
<1>1. reg[r] \in RegType /\ [reg[r] EXCEPT !.mode = m] \in RegType
  BY DEF IInv, TypeOK, RegType
<1>2. reg' = [reg EXCEPT ![r] = [reg[r] EXCEPT !.mode = m]]
  BY DEF SaveElementProperties
<1>3. Sane(r)'
  <2>1. reg'[r] = [reg[r] EXCEPT !.mode = m]
    BY <1>2 DEF IInv, TypeOK
  <2>2. SUFFICES ASSUME ~tainted'[r] PROVE Agree(reg'[r])
    BY DEF Sane
  <2>3. reg[r].saved = 0 /\ reg[r].first = 0 /\ reg[r].latest = 0
    BY <2>2 DEF SaveElementProperties, IInv, TypeOK
  <2>4. reg'[r].saved = 0 /\ reg'[r].first = 0 /\ reg'[r].latest = 0
    BY <1>1, <2>1, <2>3 DEF RegType
  <2> QED
    BY <2>4, SizesAssumption DEF Agree
<1>4. \A s \in Regs : Sane(s)'
  BY <1>2, <1>3 DEF SaveElementProperties, IInv, TypeOK, Sane
<1>5. TypeOK'
  BY <1>1, <1>2 DEF SaveElementProperties, IInv, TypeOK, RegType
<1> QED
  BY <1>4, <1>5 DEF IInv

LEMMA NextIInv == IInv /\ [Next]_vars => IInv'
<1> SUFFICES ASSUME IInv, [Next]_vars PROVE IInv'
  OBVIOUS
<1>1. CASE \E r \in Regs, reset, in, out \in BOOLEAN, v \in Values :
              CalcElemRegister(r, reset, in, out, v)
  BY <1>1, CalcKeepsIInv
<1>2. CASE PrepareRegisters
  BY <1>2, PrepareKeepsIInv
<1>3. CASE \E r \in Regs, m \in Modes : SaveElementProperties(r, m)
  BY <1>3, EditKeepsIInv
<1>4. CASE UNCHANGED vars
  BY <1>4 DEF vars, IInv, TypeOK, Sane
<1> QED
  BY <1>1, <1>2, <1>3, <1>4 DEF Next

(* IInv holds in every state the registers can reach.                      *)
THEOREM Invariance == Spec => []IInv
  BY InitIInv, NextIInv, PTL DEF Spec

(* Counts and indexes stay within 0..Size, for every size.                 *)
THEOREM TypeCorrect == Spec => []TypeOK
<1>1. IInv => TypeOK
  BY DEF IInv
<1> QED
  BY <1>1, Invariance, PTL

(* n steps lead from the index l to the index f.                           *)
Leads(l, n, f) ==
    \E walk \in [0 .. n -> 0 .. Size] :
        /\ walk[0] = l /\ walk[n] = f
        /\ \A k \in 1 .. n : walk[k] = Advance(walk[k - 1])

LEMMA SumLeads ==
  ASSUME NEW l \in 0 .. Size, NEW n \in 0 .. Size, NEW f \in 0 .. Size,
         f = l + n \/ f + Size + 1 = l + n
  PROVE  Leads(l, n, f)
<1> DEFINE at(k) == IF l + k > Size THEN l + k - Size - 1 ELSE l + k
           walk == [k \in 0 .. n |-> at(k)]
<1>0. Size \in Nat
  BY SizesAssumption
<1>1. \A k \in 0 .. n : at(k) \in 0 .. Size
  BY <1>0
<1>2. \A k \in 1 .. n : at(k) = Advance(at(k - 1))
  BY <1>0 DEF Advance
<1>3. at(0) = l /\ at(n) = f
  BY <1>0
<1>4. 0 \in 0 .. n /\ n \in 0 .. n /\ \A k \in 1 .. n : k \in 0 .. n /\ k - 1 \in 0 .. n
  BY <1>0
<1> HIDE DEF at
<1>5. walk \in [0 .. n -> 0 .. Size]
  BY <1>1
<1>6. walk[0] = l /\ walk[n] = f /\ \A k \in 1 .. n : walk[k] = Advance(walk[k - 1])
  BY <1>2, <1>3, <1>4
<1> QED
  BY <1>5, <1>6 DEF Leads

(* The count and the indexes of a regular register always agree.           *)
THEOREM IndexesCorrect == Spec => []IndexesAgree
<1>1. IInv => IndexesAgree
  <2>1. ASSUME IInv, NEW r \in Regs, Regular(r)
        PROVE  /\ reg[r].mode = "LIFO" => reg[r].latest = 0
               /\ Leads(reg[r].latest, reg[r].saved, reg[r].first)
    <3>1. /\ reg[r].first \in 0 .. Size /\ reg[r].latest \in 0 .. Size
          /\ reg[r].saved \in 0 .. Size /\ reg[r].mode \in {"FIFO", "LIFO"}
      BY <2>1 DEF IInv, TypeOK, Regular, Modes
    <3>2. Agree(reg[r])
      BY <2>1 DEF IInv, Sane, Regular
    <3>3. \/ reg[r].first = reg[r].latest + reg[r].saved
          \/ reg[r].first + Size + 1 = reg[r].latest + reg[r].saved
      BY <3>1, <3>2, SizesAssumption DEF Agree
    <3>4. Leads(reg[r].latest, reg[r].saved, reg[r].first)
      BY <3>1, <3>3, SumLeads
    <3> QED
      BY <3>2, <3>4 DEF Agree
  <2> QED
    BY <2>1, Zenon DEF IndexesAgree, Leads
<1> QED
  BY <1>1, Invariance, PTL

(* A LIFO never stores in the cells of its neighbour.                      *)
THEOREM LifoInside == Spec => []LifoStoresInside
<1>1. IInv => LifoStoresInside
  BY DEF IInv, Sane, Agree, TypeOK, LifoStoresInside, Regular
<1> QED
  BY <1>1, Invariance, PTL

(* A cell that two registers reach is past the end of the one before.      *)
LEMMA CellShared ==
  ASSUME NEW t \in Nat, NEW r \in Nat, t # r, Size \in Nat \ {0},
         NEW f \in 0 .. Size, NEW i \in 0 .. Size - 1, Cell(t, f) = Cell(r, i)
  PROVE  f = Size /\ i = 0 /\ t = r - 1
<1>1. t * Size \in Nat /\ r * Size \in Nat /\ t * Size + f = r * Size + i
  BY DEF Cell
<1>2. ASSUME t > r PROVE FALSE
  <2>1. t * Size >= (r + 1) * Size
    BY <1>2
  <2>2. (r + 1) * Size = r * Size + Size
    OBVIOUS
  <2> QED
    BY <1>1, <2>1, <2>2
<1>3. ASSUME r > t + 1 PROVE FALSE
  <2>1. r * Size >= (t + 2) * Size
    BY <1>3
  <2>2. (t + 2) * Size = t * Size + 2 * Size
    OBVIOUS
  <2> QED
    BY <1>1, <2>1, <2>2
<1>4. r = t + 1
  BY <1>2, <1>3
<1>5. r * Size = t * Size + Size
  BY <1>4
<1> QED
  BY <1>1, <1>4, <1>5

(* Of the cells of a register another one writes only the first: it is the *)
(* register before, with its first index past its end, and not a LIFO.     *)
THEOREM ForeignWritesBounded == Spec => ForeignWrites
<1>1. ASSUME IInv, NEW t \in Regs, NEW reset \in BOOLEAN, NEW in \in BOOLEAN,
             NEW out \in BOOLEAN, NEW v \in Values, CalcElemRegister(t, reset, in, out, v),
             NEW r \in Regs, NEW i \in 0 .. Size - 1,
             cells'[Cell(r, i)] # cells[Cell(r, i)], reg'[r] = reg[r]
      PROVE  /\ i = 0 /\ r > 0 /\ reg'[r - 1] # reg[r - 1] /\ reg[r - 1].first = Size
             /\ Regular(r - 1) => reg[r - 1].mode = "FIFO"
  <2>1. Pushes(reg[t], in) /\ cells' = [cells EXCEPT ![Cell(t, reg[t].first)] = v]
    BY <1>1 DEF CalcElemRegister
  <2>2. Cell(t, reg[t].first) = Cell(r, i)
    BY <1>1, <2>1 DEF IInv, TypeOK
  <2>3. reg'[t] # reg[t]
    <3>1. ~reg[t].inBak /\ in
      BY <2>1 DEF Pushes
    <3>2. PICK q : reg' = [reg EXCEPT ![t] = [q EXCEPT !.inBak = in, !.outBak = out,
                              !.empty = (q.saved = 0), !.full = (q.saved = Size)]]
      BY <1>1, Zenon DEF CalcElemRegister
    <3>3. reg'[t] \in RegType /\ reg[t] \in RegType
      <4>1. IInv'
        BY <1>1, CalcKeepsIInv
      <4>2. reg \in [Regs -> RegType] /\ reg' \in [Regs -> RegType]
        BY <1>1, <4>1 DEF IInv, TypeOK, RegType
      <4> QED
        BY <1>1, <4>2
    <3>4. reg'[t] = [q EXCEPT !.inBak = in, !.outBak = out,
                              !.empty = (q.saved = 0), !.full = (q.saved = Size)]
      BY <1>1, <3>2 DEF IInv, TypeOK
    <3>5. reg'[t].inBak = in
      BY <3>3, <3>4 DEF RegType
    <3> QED
      BY <3>1, <3>5
  <2>4. t # r
    BY <1>1, <2>3
  <2>5. reg[t].first \in 0 .. Size /\ reg[t].saved < Size /\ Size \in Nat \ {0} /\ t \in Nat /\ r \in Nat
    BY <1>1, <2>1, SizesAssumption DEF IInv, TypeOK, Regs, Pushes
  <2>6. reg[t].first = Size /\ i = 0 /\ t = r - 1
    BY <1>1, <2>2, <2>4, <2>5, CellShared
  <2>7. Regular(t) => reg[t].mode = "FIFO"
    BY <1>1, <2>5, <2>6 DEF IInv, TypeOK, Sane, Agree, Regular, Modes
  <2> QED
    BY <2>3, <2>5, <2>6, <2>7
<1>2. ASSUME IInv, [Next]_vars, NEW r \in Regs, NEW i \in 0 .. Size - 1,
             cells'[Cell(r, i)] # cells[Cell(r, i)], reg'[r] = reg[r]
      PROVE  /\ i = 0 /\ r > 0 /\ reg'[r - 1] # reg[r - 1] /\ reg[r - 1].first = Size
             /\ Regular(r - 1) => reg[r - 1].mode = "FIFO"
  <2>1. cells' # cells
    BY <1>2
  <2>2. \E t \in Regs, reset, in, out \in BOOLEAN, v \in Values :
           CalcElemRegister(t, reset, in, out, v)
    BY <1>2, <2>1 DEF Next, vars, PrepareRegisters, SaveElementProperties
  <2> QED
    BY <1>1, <1>2, <2>2
<1>3. IInv /\ [Next]_vars =>
        [\A r \in Regs, i \in 0 .. Size - 1 :
            cells'[Cell(r, i)] # cells[Cell(r, i)] =>
                \/ reg'[r] # reg[r]
                \/ /\ i = 0 /\ r > 0 /\ reg'[r - 1] # reg[r - 1] /\ reg[r - 1].first = Size
                   /\ Regular(r - 1) => reg[r - 1].mode = "FIFO"]_vars
  BY <1>2
<1> QED
  BY <1>3, Invariance, PTL DEF Spec, ForeignWrites

-----------------------------------------------------------------------------
(* The refinement: what an evaluation does to the indexes and the array is *)
(* a put, a take and a clear of the sequence that the register holds.      *)
MemType == [0 .. NbrRegisters * Size -> Int]

LEMMA SlotInside ==
  ASSUME NEW q \in RegType, NEW k \in 1 .. Size + 1
  PROVE  Slot(q, k) \in 0 .. Size
<1>1. q.latest \in 0 .. Size /\ Size \in Nat
  BY SizesAssumption DEF RegType
<1> QED
  BY <1>1 DEF Slot

LEMMA HeldIsSequence ==
  ASSUME NEW r \in Regs, NEW q \in RegType, NEW mem \in MemType
  PROVE  /\ Held(r, q, mem) \in Seq(Int)
         /\ Len(Held(r, q, mem)) = q.saved
         /\ \A k \in 1 .. q.saved : Held(r, q, mem)[k] = mem[Cell(r, Slot(q, k))]
<1>1. q.saved \in Nat /\ q.saved <= Size /\ Size \in Nat
  BY SizesAssumption DEF RegType
<1>2. \A k \in 1 .. q.saved : mem[Cell(r, Slot(q, k))] \in Int
  <2> TAKE k \in 1 .. q.saved
  <2>1. Slot(q, k) \in 0 .. Size
    BY <1>1, SlotInside
  <2> QED
    BY <2>1, CellInArray DEF MemType
<1>3. Held(r, q, mem) \in [1 .. q.saved -> Int]
  BY <1>2 DEF Held
<1>4. Held(r, q, mem) \in Seq(Int) /\ Len(Held(r, q, mem)) = q.saved
  BY <1>1, <1>3, LenProperties, SeqDef
<1> QED
  BY <1>4 DEF Held

(* Two indexes of one register are two cells.                              *)
LEMMA CellsDiffer ==
  ASSUME NEW r \in Regs, NEW i \in 0 .. Size, NEW j \in 0 .. Size, i # j
  PROVE  Cell(r, i) # Cell(r, j)
<1>1. r * Size \in Int
  BY SizesAssumption DEF Regs
<1> QED
  BY <1>1 DEF Cell

LEMMA PushPuts ==
  ASSUME NEW r \in Regs, NEW q \in RegType, NEW mem \in MemType, NEW in \in BOOLEAN,
         NEW v \in Values, Agree(q), q.mode # "UNDEF", Pushes(q, in)
  PROVE  Held(r, Pushed(q), [mem EXCEPT ![Cell(r, q.first)] = v])
           = Append(Held(r, q, mem), v)
<1> DEFINE p == Pushed(q)
           m2 == [mem EXCEPT ![Cell(r, q.first)] = v]
<1>1. /\ q.first \in 0 .. Size /\ q.latest \in 0 .. Size
      /\ q.saved \in 0 .. Size /\ q.saved < Size /\ Size \in Nat
  BY SizesAssumption DEF RegType, Pushes
<1>2. v \in Int
  BY ValuesAssumption
<1>3. p \in RegType /\ p.saved = q.saved + 1 /\ p.latest = q.latest
  <2>1. p \in RegType
    BY PushKeeps
  <2> QED
    BY <2>1 DEF Pushed, RegType
<1>4. m2 \in MemType
  BY <1>2 DEF MemType
<1>5. \A k \in 1 .. q.saved + 1 : Slot(p, k) = Slot(q, k) /\ Slot(q, k) \in 0 .. Size
  BY <1>1, <1>3, SlotInside DEF Slot
<1>6. Slot(q, q.saved + 1) = q.first
  BY <1>1 DEF Slot, Agree, RegType, Modes
<1>7. \A k \in 1 .. q.saved : Slot(q, k) # q.first
  BY <1>1 DEF Slot, Agree, RegType, Modes
<1>8. \A k \in 1 .. q.saved : m2[Cell(r, Slot(q, k))] = mem[Cell(r, Slot(q, k))]
  <2> TAKE k \in 1 .. q.saved
  <2>1. Slot(q, k) \in 0 .. Size /\ Slot(q, k) # q.first
    BY <1>1, <1>5, <1>7
  <2>2. Cell(r, Slot(q, k)) # Cell(r, q.first) /\ Cell(r, Slot(q, k)) \in 0 .. NbrRegisters * Size
    BY <1>1, <2>1, CellsDiffer, CellInArray
  <2> QED
    BY <2>2 DEF MemType
<1>9. m2[Cell(r, q.first)] = v
  BY <1>1, CellInArray DEF MemType
<1>10. /\ Held(r, p, m2) \in Seq(Int) /\ Len(Held(r, p, m2)) = q.saved + 1
       /\ \A k \in 1 .. q.saved + 1 : Held(r, p, m2)[k] = m2[Cell(r, Slot(p, k))]
  BY <1>3, <1>4, HeldIsSequence, ZenonT(30)
<1>11. /\ Held(r, q, mem) \in Seq(Int) /\ Len(Held(r, q, mem)) = q.saved
       /\ \A k \in 1 .. q.saved : Held(r, q, mem)[k] = mem[Cell(r, Slot(q, k))]
  BY HeldIsSequence
<1> HIDE DEF p, m2
<1>12. /\ Append(Held(r, q, mem), v) \in Seq(Int)
       /\ Len(Append(Held(r, q, mem), v)) = q.saved + 1
       /\ \A k \in 1 .. q.saved : Append(Held(r, q, mem), v)[k] = Held(r, q, mem)[k]
       /\ Append(Held(r, q, mem), v)[q.saved + 1] = v
  BY <1>1, <1>2, <1>11, AppendProperties
<1>13. \A k \in 1 .. q.saved + 1 : Held(r, p, m2)[k] = Append(Held(r, q, mem), v)[k]
  <2> TAKE k \in 1 .. q.saved + 1
  <2>1. CASE k = q.saved + 1
    BY <1>1, <1>5, <1>6, <1>9, <1>10, <1>12, <2>1
  <2>2. CASE k \in 1 .. q.saved
    <3>1. Held(r, p, m2)[k] = m2[Cell(r, Slot(q, k))]
      BY <1>5, <1>10
    <3>2. Held(r, p, m2)[k] = mem[Cell(r, Slot(q, k))]
      BY <1>8, <2>2, <3>1
    <3> QED
      BY <1>11, <1>12, <2>2, <3>2
  <2>3. k = q.saved + 1 \/ k \in 1 .. q.saved
    BY <1>1
  <2> QED
    BY <2>1, <2>2, <2>3, Zenon
<1> QED
  BY <1>10, <1>12, <1>13, SeqEqual DEF p, m2

LEMMA PopTakes ==
  ASSUME NEW r \in Regs, NEW q \in RegType, NEW mem \in MemType, NEW out \in BOOLEAN,
         Agree(q), q.mode # "UNDEF", Pops(q, out)
  PROVE  LET c == Held(r, q, mem)
             p == Popped(r, q, mem)
         IN  /\ Held(r, p, mem) = IF q.mode = "FIFO" THEN Tail(c) ELSE Front(c)
             /\ p.out = IF q.mode = "FIFO" THEN Head(c) ELSE Last(c)
             /\ p.mode = q.mode
<1> DEFINE c == Held(r, q, mem)
           p == Popped(r, q, mem)
<1>1. /\ q.first \in 0 .. Size /\ q.latest \in 0 .. Size
      /\ q.saved \in 1 .. Size /\ Size \in Nat
  BY SizesAssumption DEF RegType, Pops
<1>2. p \in RegType
  BY PopKeeps DEF MemType
<1>3. /\ c \in Seq(Int) /\ Len(c) = q.saved /\ c # << >>
      /\ \A k \in 1 .. q.saved : c[k] = mem[Cell(r, Slot(q, k))]
  BY <1>1, HeldIsSequence
<1>4. /\ Held(r, p, mem) \in Seq(Int) /\ Len(Held(r, p, mem)) = p.saved
      /\ \A k \in 1 .. p.saved : Held(r, p, mem)[k] = mem[Cell(r, Slot(p, k))]
  BY <1>2, HeldIsSequence
<1>5. CASE q.mode = "FIFO"
  <2>1. p = [q EXCEPT !.saved = q.saved - 1, !.out = mem[Cell(r, q.latest)],
                      !.latest = Advance(q.latest)]
    BY <1>5 DEF Popped
  <2>2. /\ p.saved = q.saved - 1 /\ p.out = mem[Cell(r, q.latest)]
        /\ p.latest = Advance(q.latest) /\ p.mode = q.mode
    BY <2>1 DEF RegType
  <2>3. \A k \in 1 .. q.saved - 1 : Slot(p, k) = Slot(q, k + 1)
    BY <1>1, <2>2 DEF Slot, Advance
  <2>4. Slot(q, 1) = q.latest
    BY <1>1 DEF Slot
  <2>5. Head(c) = c[1] /\ c[1] = mem[Cell(r, q.latest)]
    BY <1>1, <1>3, <2>4
  <2>6. /\ Tail(c) \in Seq(Int) /\ Len(Tail(c)) = q.saved - 1
        /\ \A k \in 1 .. q.saved - 1 : Tail(c)[k] = c[k + 1]
    BY <1>3, HeadTailProperties
  <2> HIDE DEF c, p
  <2>7. \A k \in 1 .. q.saved - 1 : Held(r, p, mem)[k] = Tail(c)[k]
    <3> TAKE k \in 1 .. q.saved - 1
    <3>1. Held(r, p, mem)[k] = mem[Cell(r, Slot(q, k + 1))]
      BY <1>4, <2>2, <2>3
    <3>2. k + 1 \in 1 .. q.saved
      BY <1>1
    <3> QED
      BY <1>3, <2>6, <3>1, <3>2
  <2>8. Held(r, p, mem) = Tail(c)
    <3>1. Len(Held(r, p, mem)) = Len(Tail(c)) /\ Len(Tail(c)) = q.saved - 1
      BY <1>4, <2>2, <2>6
    <3>2. \A k \in 1 .. Len(Held(r, p, mem)) : Held(r, p, mem)[k] = Tail(c)[k]
      BY <2>7, <3>1
    <3> QED
      BY <1>4, <2>6, <3>1, <3>2, SeqEqual
  <2> QED
    BY <1>5, <2>2, <2>5, <2>8 DEF c, p
<1>6. CASE q.mode = "LIFO"
  <2>1. p = [q EXCEPT !.saved = q.saved - 1, !.out = mem[Cell(r, Back(q.first))],
                      !.first = Back(q.first)]
    BY <1>6 DEF Popped
  <2>2. /\ p.saved = q.saved - 1 /\ p.out = mem[Cell(r, Back(q.first))]
        /\ p.latest = q.latest /\ p.mode = q.mode
    BY <2>1 DEF RegType
  <2>3. \A k \in 1 .. q.saved - 1 : Slot(p, k) = Slot(q, k)
    BY <2>2 DEF Slot
  <2>4. Slot(q, q.saved) = Back(q.first)
    BY <1>1, <1>6 DEF Slot, Back, Agree
  <2>5. Last(c) = c[q.saved] /\ c[q.saved] = mem[Cell(r, Back(q.first))]
    BY <1>1, <1>3, <2>4 DEF Last
  <2>6. Front(c) = [k \in 1 .. q.saved - 1 |-> c[k]]
    <3>1. \A k \in 1 .. q.saved - 1 : c[k] \in Int
      BY <1>1, <1>3, ElementOfSeq
    <3>2. /\ Front(c) \in Seq(Int) /\ Len(Front(c)) = q.saved - 1
          /\ \A k \in 1 .. q.saved - 1 : Front(c)[k] = c[k]
      BY <1>1, <1>3, <3>1, SubSeqProperties DEF Front
    <3> QED
      BY <3>2, LenProperties
  <2> HIDE DEF c, p
  <2>7. Held(r, p, mem) \in [1 .. q.saved - 1 -> Int]
    BY <1>4, <2>2, LenProperties
  <2>8. \A k \in 1 .. q.saved - 1 : Held(r, p, mem)[k] = c[k]
    <3> TAKE k \in 1 .. q.saved - 1
    <3>1. Held(r, p, mem)[k] = mem[Cell(r, Slot(q, k))]
      BY <1>4, <2>2, <2>3
    <3>2. k \in 1 .. q.saved
      BY <1>1
    <3> QED
      BY <1>3, <3>1, <3>2
  <2>9. Held(r, p, mem) = Front(c)
    BY <2>6, <2>7, <2>8
  <2> QED
    BY <1>6, <2>2, <2>5, <2>9 DEF c, p
<1> QED
  BY <1>5, <1>6 DEF RegType, Modes

(* An evaluation of a regular register is a step of a bounded store, for   *)
(* any number of registers and whatever the others did to the array.       *)
LEMMA CalcIsUse ==
  ASSUME IInv, NEW r \in Regs, NEW reset \in BOOLEAN, NEW in \in BOOLEAN,
         NEW out \in BOOLEAN, NEW v \in Values,
         CalcElemRegister(r, reset, in, out, v), Regular(r)'
  PROVE  Stores!Use(r)
<1> DEFINE push == Pushes(reg[r], in)
           mem  == IF push THEN [cells EXCEPT ![Cell(r, reg[r].first)] = v] ELSE cells
           q1   == IF push THEN Pushed(reg[r]) ELSE reg[r]
           take == Pops(q1, out)
           q2   == IF take THEN Popped(r, q1, mem) ELSE q1
           q3   == IF reset THEN Cleared(q2) ELSE q2
           q4   == [q3 EXCEPT !.inBak = in, !.outBak = out,
                              !.empty = (q3.saved = 0), !.full = (q3.saved = Size)]
           put  == in /\ ~reg[r].inBak
           took == out /\ ~reg[r].outBak
           c0   == Content(r)
           c1   == IF put /\ Len(c0) < Size THEN Append(c0, v) ELSE c0
<1>1. reg[r] \in RegType /\ tainted[r] \in BOOLEAN /\ cells \in MemType
  BY DEF IInv, TypeOK, RegType, MemType
<1>2. mem \in MemType
  BY <1>1, ValuesAssumption DEF MemType
<1>3. q1 \in RegType /\ (Agree(reg[r]) => Agree(q1)) /\ q1.mode = reg[r].mode
      /\ q1.out = reg[r].out /\ q1.outBak = reg[r].outBak
  <2>1. CASE push
    <3>1. q1 \in RegType /\ (Agree(reg[r]) => Agree(q1))
      BY <1>1, <2>1, PushKeeps
    <3> QED
      BY <1>1, <2>1, <3>1 DEF Pushed, RegType
  <2>2. CASE ~push
    BY <1>1, <2>2
  <2> QED
    BY <2>1, <2>2
<1>4. q2 \in RegType
  <2> HIDE DEF q1, mem
  <2> QED
    BY <1>2, <1>3, PopKeeps DEF MemType
<1>5. cells' = mem /\ reg' = [reg EXCEPT ![r] = q4]
      /\ tainted' = [tainted EXCEPT ![r] = @ /\ ~reset]
  BY DEF CalcElemRegister
<1>6. q3 \in RegType
  <2> HIDE DEF q2
  <2> QED
    BY <1>4, ClearKeeps
<1>7. /\ reg'[r].saved = q3.saved /\ reg'[r].latest = q3.latest
      /\ reg'[r].mode = q3.mode /\ reg'[r].out = q3.out
  <2> HIDE DEF q3
  <2> QED
    BY <1>5, <1>6 DEF IInv, TypeOK, RegType
<1>8. Content(r)' = Held(r, q3, mem)
  <2> HIDE DEF q3, mem
  <2> QED
    BY <1>5, <1>7 DEF Content, Held, Slot
<1>9. q2.mode = q1.mode
  BY <1>3 DEF Popped, RegType
<1>10. CASE reset
  <2>1. q3 = Cleared(q2)
    BY <1>10
  <2>2. q3.saved = 0 /\ q3.out = 0 /\ q3.mode = q2.mode
    <3> HIDE DEF q2, q3
    <3> QED
      BY <1>4, <2>1 DEF Cleared, RegType
  <2>3. Content(r)' = << >>
    <3>1. Held(r, q3, mem) \in Seq(Int) /\ Len(Held(r, q3, mem)) = 0
      BY <1>2, <1>6, <2>2, HeldIsSequence
    <3> QED
      BY <1>8, <3>1, EmptySeq
  <2> HIDE DEF q1, q2, q3
  <2>4. reg'[r].out = 0 /\ reg'[r].mode = reg[r].mode
    BY <1>3, <1>7, <1>9, <2>2
  <2>5. Stores!Step(r, FALSE, FALSE, TRUE, v)
    BY <2>3, <2>4 DEF Stores!Step
  <2> QED
    BY <2>5 DEF Stores!Use
<1>11. CASE ~reset
  <2>1. q3 = q2
    BY <1>11
  <2>2. Agree(reg[r]) /\ reg[r].mode # "UNDEF"
    <3>1. reg'[r].mode = reg[r].mode
      <4> HIDE DEF q1, q2, q3
      <4> QED BY <1>3, <1>7, <1>9, <2>1
    <3>2. ~tainted[r]
      BY <1>1, <1>5, <1>11 DEF Regular, IInv, TypeOK
    <3> QED
      BY <3>1, <3>2 DEF Regular, IInv, Sane
  <2>3. c0 \in Seq(Int) /\ Len(c0) = reg[r].saved
    BY <1>1, HeldIsSequence DEF Content
  <2>4. push <=> put /\ Len(c0) < Size
    BY <2>3 DEF Pushes
  <2>5. Held(r, q1, mem) = c1
    <3>1. CASE push
      <4>1. Held(r, Pushed(reg[r]), mem) = Append(c0, v)
        BY <1>1, <2>2, <3>1, PushPuts DEF Content
      <4> QED
        BY <2>4, <3>1, <4>1
    <3>2. CASE ~push
      BY <2>4, <3>2 DEF Content
    <3> QED
      BY <3>1, <3>2
  <2> HIDE DEF c0, c1, mem, push, q1, put
  <2>6. c1 \in Seq(Int) /\ Len(c1) = q1.saved
    BY <1>2, <1>3, <2>5, HeldIsSequence
  <2>7. take <=> took /\ c1 # << >>
    BY <1>3, <2>6 DEF Pops, RegType
  <2>8. /\ Content(r)' = IF took /\ c1 # << >>
                           THEN IF reg[r].mode = "FIFO" THEN Tail(c1) ELSE Front(c1)
                           ELSE c1
        /\ reg'[r].out = IF took /\ c1 # << >>
                           THEN IF reg[r].mode = "FIFO" THEN Head(c1) ELSE Last(c1)
                           ELSE reg[r].out
        /\ reg'[r].mode = reg[r].mode
    <3>1. CASE take
      <4>1. q3 = Popped(r, q1, mem)
        BY <2>1, <3>1
      <4> HIDE DEF q3, take, took
      <4>2. /\ Held(r, q3, mem) = IF q1.mode = "FIFO" THEN Tail(c1) ELSE Front(c1)
            /\ q3.out = IF q1.mode = "FIFO" THEN Head(c1) ELSE Last(c1)
            /\ q3.mode = q1.mode
        BY <1>2, <1>3, <2>2, <2>5, <3>1, <4>1, PopTakes DEF take
      <4> QED
        BY <1>3, <1>7, <1>8, <2>7, <3>1, <4>2
    <3>2. CASE ~take
      <4>1. q3 = q1
        BY <2>1, <3>2
      <4> HIDE DEF q3, take, took
      <4> QED
        BY <1>3, <1>7, <1>8, <2>5, <2>7, <3>2, <4>1
    <3> QED
      BY <3>1, <3>2
  <2>9. Stores!Put(c0, put, v) = c1
    BY DEF Stores!Put, c1
  <2>10. Stores!Last(c1) = Last(c1) /\ Stores!Front(c1) = Front(c1)
    BY DEF Stores!Last, Last, Stores!Front, Front
  <2> HIDE DEF took
  <2>11. Stores!Step(r, put, took, FALSE, v)
    BY <2>8, <2>9, <2>10 DEF Stores!Step, Stores!Rest, Stores!Taken, c0
  <2>12. put \in BOOLEAN /\ took \in BOOLEAN
    BY DEF put, took
  <2> QED
    BY <2>11, <2>12 DEF Stores!Use
<1> QED
  BY <1>10, <1>11

(* A reset of the logic clears every store.                                *)
LEMMA PrepareIsUse ==
  ASSUME IInv, NEW r \in Regs, PrepareRegisters
  PROVE  Stores!Use(r)
<1>1. PICK v \in Values : TRUE
  BY ValuesAssumption
<1>2. reg'[r].saved = 0 /\ reg'[r].out = 0 /\ reg'[r].mode = reg[r].mode
  BY DEF PrepareRegisters, Prepared
<1>3. reg'[r] \in RegType /\ cells' \in MemType
  <2>1. \A m \in Modes : Prepared(m) \in RegType
    BY SizesAssumption DEF Prepared, RegType
  <2> QED
    BY <2>1 DEF PrepareRegisters, IInv, TypeOK, MemType
<1>4. Content(r)' = << >>
  <2>1. Held(r, reg'[r], cells') \in Seq(Int) /\ Len(Held(r, reg'[r], cells')) = 0
    BY <1>2, <1>3, HeldIsSequence
  <2> QED
    BY <2>1, EmptySeq DEF Content, Held, Slot
<1>5. Stores!Step(r, FALSE, FALSE, TRUE, v)
  BY <1>2, <1>4 DEF Stores!Step
<1> QED
  BY <1>1, <1>5 DEF Stores!Use

(* The editor chooses the mode of an empty store, or what it does to the   *)
(* block makes it irregular.                                               *)
LEMMA EditIsUse ==
  ASSUME IInv, NEW r \in Regs, NEW m \in Modes, SaveElementProperties(r, m), Regular(r)'
  PROVE  Stores!Use(r)
<1>1. reg[r] \in RegType /\ cells \in MemType
  BY DEF IInv, TypeOK, RegType, MemType
<1>2. reg' = [reg EXCEPT ![r] = [reg[r] EXCEPT !.mode = m]] /\ cells' = cells
  BY DEF SaveElementProperties
<1>3. /\ reg'[r].mode = m /\ reg'[r].saved = reg[r].saved
      /\ reg'[r].latest = reg[r].latest /\ reg'[r].out = reg[r].out
  BY <1>1, <1>2 DEF IInv, TypeOK, RegType
<1>4. reg[r].saved = 0
  BY DEF SaveElementProperties, Regular, IInv, TypeOK
<1>5. Content(r) = << >>
  <2>1. Content(r) \in Seq(Int) /\ Len(Content(r)) = 0
    BY <1>1, <1>4, HeldIsSequence DEF Content
  <2> QED
    BY <2>1, EmptySeq
<1>6. Content(r)' = Content(r)
  BY <1>2, <1>3 DEF Content, Held, Slot
<1>7. m \in {"FIFO", "LIFO"}
  BY <1>3 DEF Regular, Modes
<1>8. Stores!Choose(r, m)
  BY <1>3, <1>5, <1>6 DEF Stores!Choose, Stores!Kept
<1> QED
  BY <1>7, <1>8 DEF Stores!Use

LEMMA NothingIsSame ==
  ASSUME UNCHANGED vars, NEW r \in Regs
  PROVE  Stores!Same(r)
<1>1. reg' = reg /\ cells' = cells
  BY DEF vars
<1>2. Content(r)' = Content(r)
  BY <1>1 DEF Content, Held, Slot
<1> QED
  BY <1>1, <1>2 DEF Stores!Same, Stores!Kept

(* Among any number of registers, whatever the neighbours did to the array *)
(* before, each change of a regular register is a step of a bounded store  *)
(* on what it holds at that moment.                                        *)
THEOREM EveryRegisterActsAsAStore ==
  Spec => RegistersImplementStores
<1>1. ASSUME IInv, [Next]_vars, NEW s \in Regs, Regular(s)', reg'[s] # reg[s]
      PROVE  Stores!Use(s)
  <2>0. reg \in [Regs -> RegType]
    BY <1>1 DEF IInv, TypeOK, RegType
  <2>1. ASSUME NEW r \in Regs, NEW reset \in BOOLEAN, NEW in \in BOOLEAN,
               NEW out \in BOOLEAN, NEW v \in Values,
               CalcElemRegister(r, reset, in, out, v)
        PROVE  Stores!Use(s)
    <3>1. r = s
      BY <1>1, <2>0, <2>1 DEF CalcElemRegister
    <3> QED
      BY <1>1, <2>1, <3>1, CalcIsUse
  <2>2. CASE PrepareRegisters
    BY <1>1, <2>2, PrepareIsUse
  <2>3. ASSUME NEW r \in Regs, NEW m \in Modes, SaveElementProperties(r, m)
        PROVE  Stores!Use(s)
    <3>1. r = s
      BY <1>1, <2>0, <2>3 DEF SaveElementProperties
    <3> QED
      BY <1>1, <2>3, <3>1, EditIsUse
  <2>4. CASE UNCHANGED vars
    BY <1>1, <2>4 DEF vars
  <2> QED
    BY <1>1, <2>1, <2>2, <2>3, <2>4 DEF Next
<1>2. IInv /\ [Next]_vars =>
        [\A r \in Regs : Regular(r)' /\ reg'[r] # reg[r] => Stores!Use(r)]_vars
  BY <1>1
<1> QED
  BY <1>2, Invariance, PTL DEF Spec, RegistersImplementStores

(* With one register, that register is a bounded store: FIFO or LIFO, it   *)
(* gives back what was put in, in its order, once each, for any list size  *)
(* and any values.                                                         *)
THEOREM OneRegisterIsAStore ==
  ASSUME NbrRegisters = 1
  PROVE  Spec => LoneRegisterIsStore
<1>1. ASSUME IInv, [Next]_vars, NEW s \in Regs, Regular(s)'
      PROVE  Stores!Use(s) \/ Stores!Same(s)
  <2>0. \A r \in Regs : r = s
    BY DEF Regs
  <2>1. ASSUME NEW r \in Regs, NEW reset \in BOOLEAN, NEW in \in BOOLEAN,
               NEW out \in BOOLEAN, NEW v \in Values,
               CalcElemRegister(r, reset, in, out, v)
        PROVE  Stores!Use(s)
    BY <1>1, <2>0, <2>1, CalcIsUse
  <2>2. CASE PrepareRegisters
    BY <1>1, <2>2, PrepareIsUse
  <2>3. ASSUME NEW r \in Regs, NEW m \in Modes, SaveElementProperties(r, m)
        PROVE  Stores!Use(s)
    BY <1>1, <2>0, <2>3, EditIsUse
  <2>4. CASE UNCHANGED vars
    BY <2>4, NothingIsSame
  <2> QED
    BY <1>1, <2>1, <2>2, <2>3, <2>4 DEF Next
<1>2. IInv /\ [Next]_vars =>
        [\A r \in Regs : Regular(r)' => Stores!Use(r) \/ Stores!Same(r)]_vars
  BY <1>1
<1> QED
  BY <1>2, Invariance, PTL DEF Spec, LoneRegisterIsStore
=============================================================================
