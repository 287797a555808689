----------------------------- MODULE Registers -----------------------------
(* The register blocks (%Rxx) of the ladder language: FIFO and LIFO stores *)
(* of integers, evaluated once per scan by CalcElemRegisterFunc. All the   *)
(* registers keep their values in one array, RegistersListsDatas, of       *)
(* NbrRegisters * Size cells; the first cell after the array is modelled   *)
(* too, because the code reaches it.                                       *)
EXTENDS Integers, Sequences
CONSTANTS
    NbrRegisters,   \* NBR_REGISTERS
    Size,           \* REGISTER_LIST_SIZE
    Values          \* the input values the program presents

ASSUME SizesAssumption == NbrRegisters \in Nat \ {0} /\ Size \in Nat \ {0}
ASSUME ValuesAssumption == Values \subseteq Int /\ Values # {}

Regs == 0 .. NbrRegisters - 1

Modes == {"UNDEF", "FIFO", "LIFO"}

VARIABLES
    reg,      \* RegisterArray
    cells,    \* RegistersListsDatas, and the cell that follows it
    tainted   \* history: the mode was edited while the block was in use

vars == << reg, cells, tainted >>

(* A register after PrepareRegisters. *)
Prepared(m) ==
    [mode |-> m, saved |-> 0, first |-> 0, latest |-> 0, out |-> 0,
     inBak |-> FALSE, outBak |-> FALSE, empty |-> FALSE, full |-> FALSE]

Init ==
    /\ reg \in [Regs -> {Prepared(m) : m \in Modes}]
    /\ cells = [c \in 0 .. NbrRegisters * Size |-> 0]
    /\ tainted = [r \in Regs |-> FALSE]

-----------------------------------------------------------------------------
(* Index i of the list of register r, in the common array. *)
Cell(r, i) == r * Size + i

(* Mutant: the index never wraps. *)
AdvanceNoWrap(i) == i + 1

(* Both indexes are advanced this way: 0 comes after Size, not after       *)
(* Size - 1.                                                               *)
Advance(i) == IF i + 1 > Size THEN 0 ELSE i + 1

(* Mutant: the newest value of a LIFO is looked for one cell further. *)
BackOneFar(i) == IF i - 1 < 0 THEN Size - 1 ELSE i

(* The top of a LIFO goes back this way. *)
Back(i) == IF i - 1 < 0 THEN Size - 1 ELSE i - 1

(* A rising edge on the input In of a register that is not full.           *)
Pushes(q, in) == in /\ ~q.inBak /\ q.saved < Size

Pushed(q) == [q EXCEPT !.saved = @ + 1, !.first = Advance(@)]

(* A rising edge on the input Out of a register that is not empty.         *)
Pops(q, out) == out /\ ~q.outBak /\ q.saved > 0

Popped(r, q, mem) ==
    LET p == [q EXCEPT !.saved = @ - 1]
    IN  CASE q.mode = "FIFO" ->
               [p EXCEPT !.out = mem[Cell(r, q.latest)], !.latest = Advance(@)]
          [] q.mode = "LIFO" ->
               [p EXCEPT !.out = mem[Cell(r, Back(q.first))], !.first = Back(@)]
          [] OTHER -> p

(* Mutant: a reset forgets the index of the oldest value. *)
ClearedKeepsLatest(q) == [q EXCEPT !.saved = 0, !.first = 0, !.out = 0]

Cleared(q) == [q EXCEPT !.saved = 0, !.first = 0, !.latest = 0, !.out = 0]

(* CalcElemRegisterFunc: in, then out, then reset, then the outputs.       *)
CalcElemRegister(r, reset, in, out, v) ==
    LET push == Pushes(reg[r], in)
        mem  == IF push THEN [cells EXCEPT ![Cell(r, reg[r].first)] = v] ELSE cells
        q1   == IF push THEN Pushed(reg[r]) ELSE reg[r]
        q2   == IF Pops(q1, out) THEN Popped(r, q1, mem) ELSE q1
        q3   == IF reset THEN Cleared(q2) ELSE q2
    IN  /\ cells' = mem
        /\ reg' = [reg EXCEPT ![r] =
                     [q3 EXCEPT !.inBak = in, !.outBak = out,
                                !.empty = (q3.saved = 0), !.full = (q3.saved = Size)]]
        /\ tainted' = [tainted EXCEPT ![r] = @ /\ ~reset]

(* Mutant: the values are forgotten, not where they were. *)
PrepareRegistersCountOnly ==
    /\ reg' = [r \in Regs |-> [reg[r] EXCEPT !.saved = 0]]
    /\ tainted' = [r \in Regs |-> FALSE]
    /\ UNCHANGED cells

(* PrepareRegisters, on a reset of the logic or a start: the values stay   *)
(* in the array.                                                           *)
PrepareRegisters ==
    /\ reg' = [r \in Regs |-> Prepared(reg[r].mode)]
    /\ tainted' = [r \in Regs |-> FALSE]
    /\ UNCHANGED cells

(* The properties editor stores the mode at once, on a running engine too. *)
SaveElementProperties(r, m) ==
    /\ m # reg[r].mode
    /\ reg' = [reg EXCEPT ![r].mode = m]
    /\ tainted' = [tainted EXCEPT ![r] =
                     @ \/ reg[r].saved # 0 \/ reg[r].first # 0 \/ reg[r].latest # 0]
    /\ UNCHANGED cells

Next ==
    \/ \E r \in Regs, reset, in, out \in BOOLEAN, v \in Values :
          CalcElemRegister(r, reset, in, out, v)
    \/ PrepareRegisters
    \/ \E r \in Regs, m \in Modes : SaveElementProperties(r, m)

Spec == Init /\ [][Next]_vars

-----------------------------------------------------------------------------
(* Every field stays in its domain: the count and both indexes in 0..Size. *)
TypeOK ==
    /\ reg \in [Regs -> [mode : Modes, saved : 0 .. Size, first : 0 .. Size,
                         latest : 0 .. Size, out : Int, inBak : BOOLEAN,
                         outBak : BOOLEAN, empty : BOOLEAN, full : BOOLEAN]]
    /\ cells \in [0 .. NbrRegisters * Size -> Int]
    /\ tainted \in [Regs -> BOOLEAN]

(* A register whose mode was chosen before it was used. *)
Regular(r) == ~tainted[r] /\ reg[r].mode # "UNDEF"

(* The count and the two indexes, three fields moved apart from each other, *)
(* tell the same story: from the latest index, as many steps as there are  *)
(* values saved lead to the first one, where the next value goes; the      *)
(* latest index of a LIFO never moves.                                     *)
IndexesAgree ==
    \A r \in Regs :
        LET q == reg[r]
        IN  Regular(r) =>
                /\ q.mode = "LIFO" => q.latest = 0
                /\ \E walk \in [0 .. q.saved -> 0 .. Size] :
                      /\ walk[0] = q.latest /\ walk[q.saved] = q.first
                      /\ \A k \in 1 .. q.saved : walk[k] = Advance(walk[k - 1])

(* A LIFO stores in the cells of its own register: the index that a push   *)
(* uses is never the one past the end, whatever the neighbours do.         *)
LifoStoresInside ==
    \A r \in Regs :
        Regular(r) /\ reg[r].mode = "LIFO" /\ reg[r].saved < Size => reg[r].first < Size

(* The array is allocated as one list of Size values per register: the     *)
(* cells of a register change only when the register itself does. False.   *)
CellsKept ==
    [][\A r \in Regs, i \in 0 .. Size - 1 :
          cells'[Cell(r, i)] # cells[Cell(r, i)] => reg'[r] # reg[r]]_vars

(* What is left of it: of the cells of a register another one writes only  *)
(* the first, and it is the register before, no LIFO that was kept as one, *)
(* storing with its first index past its end.                              *)
ForeignWrites ==
    [][\A r \in Regs, i \in 0 .. Size - 1 :
          cells'[Cell(r, i)] # cells[Cell(r, i)] =>
              \/ reg'[r] # reg[r]
              \/ /\ i = 0 /\ r > 0 /\ reg'[r - 1] # reg[r - 1] /\ reg[r - 1].first = Size
                 /\ Regular(r - 1) => reg[r - 1].mode = "FIFO"]_vars
=============================================================================
