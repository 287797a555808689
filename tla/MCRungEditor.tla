---------------------------- MODULE MCRungEditor ----------------------------
EXTENDS RungEditor
Elsewhere == [counter |-> {}, timer |-> {0}, register |-> {}]

(* Rungs drawn before: nothing; a register; a timer and a contact tied to the line     *)
(* above it; an operation over a comparison.                               *)
Cell(t) == [Empty EXCEPT !.type = t]
NewRung == [c \in Cells |-> Empty]
RegisterRung == [c \in Cells |->
    CASE c = << 1, 0 >> -> Cell("register")
      [] c \in {0, 1} \X (0 .. 2) -> Cell("unusable")
      [] OTHER -> Empty]
TimerRung == [c \in Cells |->
    CASE c = << 2, 0 >> -> [Cell("timer") EXCEPT !.num = 1]
      [] c \in {<< 1, 0 >>, << 1, 1 >>, << 2, 1 >>} -> Cell("unusable")
      [] c = << 0, 0 >> -> Cell("connection")
      [] c = << 0, 1 >> -> [Cell("contact") EXCEPT !.top = TRUE]
      [] OTHER -> Empty]
ExprsRung == [c \in Cells |->
    CASE c = << 3, 0 >> -> Cell("operate") [] c = << 2, 1 >> -> [Cell("compar") EXCEPT !.num = 1]
      [] c \in {<< 1, 0 >>, << 2, 0 >>, << 0, 1 >>, << 1, 1 >>} -> Cell("unusable")
      [] OTHER -> Empty]
(* A comparison on the left of a timer that starts a row above it.         *)
WideRung == [c \in Cells |->
    CASE c = << 4, 0 >> -> [Cell("timer") EXCEPT !.num = 1] [] c = << 2, 1 >> -> Cell("compar")
      [] c \in {<< 3, 0 >>, << 3, 1 >>, << 4, 1 >>, << 0, 1 >>, << 1, 1 >>} -> Cell("unusable")
      [] OTHER -> Empty]
WideRungs == {WideRung}
SomeRungs == {NewRung, RegisterRung, TimerRung, ExprsRung}
=============================================================================
