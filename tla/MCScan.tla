------------------------------- MODULE MCScan -------------------------------
(* Rungs of three rows, four for the counter: every way to link two columns *)
(* of contacts, rungs with the other elements, rungs wired to a field and   *)
(* forced, and timers of the three modes with every remainder.              *)
EXTENDS ScanProperties

Cell(type, v) == [type |-> type, v |-> v, top |-> FALSE]
Linked(cell, top) == [cell EXCEPT !.top = top]
Free == Cell(FREE, "B0")
Wire == Cell(CONNECTION, "B0")
Unusable == Cell(UNUSABLE, "B0")

(* A rung from the elements that are not free; nothing around it moves.     *)
AllCells(elems) == elems @@ [c \in Cells |-> Free]
Rung(elems) ==
    [elem |-> AllCells(elems), lines |-> NbrLinesUsed(AllCells(elems)),
     mode |-> "on", preset |-> 2, base |-> 3, mapped |-> FALSE, writes |-> {"I0", "B0"}, forces |-> {}, flash |-> FALSE]

Has(code, i) == (code \div 2^i) % 2 = 1
Grid(code) ==
    Rung([c \in (0 .. 2) \X Rows |->
        CASE c[1] = 0 -> IF Has(code, c[2]) THEN Cell(IF c[2] = 1 THEN INPUT_NOT ELSE INPUT, "I0") ELSE Free
          [] c[1] = 1 -> Linked(IF Has(code, 3 + c[2]) THEN Cell(INPUT, "B0") ELSE Wire, c[2] > 0 /\ Has(code, 5 + c[2]))
          [] c[1] = 2 -> Linked(Cell(IF c[2] = 2 THEN OUTPUT_NOT ELSE OUTPUT,
                                     CASE c[2] = 0 -> "Q0" [] c[2] = 1 -> "Q1" [] c[2] = 2 -> "B1"),
                                c[2] > 0 /\ Has(code, 7 + c[2]))])
Grids == [code \in 1 .. 1024 |-> Grid(code - 1)]

(* The other elements: edges and memories, a coil read by a later contact,  *)
(* a comparison and an operation, a jump and a call.                        *)
At(x, y) == << x, y >>
Edge(edge) ==
    Rung(At(0, 0) :> Cell(edge, "I0") @@ At(1, 0) :> Cell(OUTPUT_SET, "Q0")
         @@ At(0, 1) :> Cell(RISING_INPUT, "B0") @@ At(1, 1) :> Cell(OUTPUT_RESET, "Q0")
         @@ At(0, 2) :> Cell(INPUT, "Q0") @@ At(1, 2) :> Cell(OUTPUT, "Q1")
         @@ At(2, 2) :> Cell(INPUT_NOT, "Q1") @@ At(3, 2) :> Cell(OUTPUT, "B1"))
Special(top, last) ==
    Rung(At(0, 0) :> Unusable @@ At(1, 0) :> Unusable @@ At(2, 0) :> Cell(COMPAR, "B0")
         @@ At(3, 0) :> Cell(OUTPUT, "Q0") @@ At(3, 1) :> Linked(Cell(OUTPUT_NOT, "B1"), top)
         @@ At(0, 2) :> Cell(INPUT, "I0") @@ At(1, 2) :> Cell(last, "Q1")
         @@ At(2, 2) :> Linked(Wire, top) @@ At(3, 2) :> Cell(OUTPUT, "Q1"))
Others == << Edge(RISING_INPUT), Edge(FALLING_INPUT), Special(TRUE, OUTPUT_JUMP), Special(FALSE, OUTPUT_JUMP),
             Special(TRUE, OUTPUT_CALL),
             Rung(At(0, 0) :> Cell(INPUT, "I0") @@ At(1, 0) :> Unusable @@ At(2, 0) :> Unusable @@ At(3, 0) :> Cell(OUTPUT_OPERATE, "Q0")) >>

(* An input and two outputs wired to the field, which may be forced.        *)
Wire2(top, forces) ==
    [Rung(At(0, 0) :> Cell(INPUT, "I0") @@ At(0, 1) :> Cell(INPUT_NOT, "I0")
          @@ At(1, 0) :> Wire @@ At(1, 1) :> Linked(Wire, top) @@ At(2, 0) :> Cell(OUTPUT, "Q0") @@ At(2, 1) :> Cell(OUTPUT, "Q1"))
     EXCEPT !.mapped = TRUE, !.writes = {}, !.forces = forces]
Wired == << Wire2(FALSE, {"Q0"}), Wire2(TRUE, {"I0", "Q0"}) >>

TimerRung == At(0, 0) :> Cell(INPUT, "I0") @@ At(1, 0) :> Unusable @@ At(1, 1) :> Unusable
             @@ At(2, 0) :> Cell(TIMER_IEC, "B0") @@ At(2, 1) :> Unusable @@ At(3, 0) :> Cell(OUTPUT, "Q0")
Modes == << "on", "off", "pulse" >>
Timers == [i \in 1 .. 36 |->
    [Rung(TimerRung) EXCEPT !.mode = Modes[(i % 3) + 1], !.preset = ((i \div 3) % 3) + 1, !.base = ((i \div 9) % 4) + 2,
                            !.writes = {"I0"}]]

(* A counter, which the table of calc.c gives the function of the register. *)
Block(type) ==
    Rung(At(0, 1) :> Cell(INPUT, "I0") @@ At(0, 2) :> Cell(INPUT, "B0")
         @@ At(2, 0) :> Cell(type, "B0") @@ At(3, 0) :> Cell(OUTPUT, "Q0") @@ At(3, 1) :> Cell(OUTPUT, "Q1"))

AllPrograms == Grids \o Others \o Wired \o Timers \o << Block(COUNTER) >>

Counting == << Block(COUNTER) >>
Flashing == << [Rung(<<>>) EXCEPT !.writes = {}, !.flash = TRUE] >>
=============================================================================
