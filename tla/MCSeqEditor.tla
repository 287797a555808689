---------------------------- MODULE MCSeqEditor -----------------------------
EXTENDS SeqEditor

(* Pages drawn before: nothing; one step between two transitions, the      *)
(* first of which leads to a step of another column too.                   *)
StepAt(p, c, n) == [FreeStep EXCEPT !.page = p, !.at = c, !.num = n]
List(s) == PackStepsList(s)
Branches == [NoChart EXCEPT
    !.step[0] = StepAt(0, << 0, 1 >>, 1), !.step[1] = StepAt(0, << 1, 1 >>, 2),
    !.transi[0] = [FreeTransi EXCEPT !.page = 0, !.at = << 0, 0 >>, !.act = List(<< 0, 1 >>)],
    !.transi[1] = [FreeTransi EXCEPT !.page = 0, !.at = << 0, 2 >>, !.desact = List(<< 0 >>)]]
SomeCharts == {NoChart, Branches}
=============================================================================
