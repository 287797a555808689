---------------------------- MODULE MCSequential ----------------------------
(* A chart with an AND: w is left to both branches when a; one branch has  *)
(* two steps, l and l2; the join waits for l2 and r. The step l2 is left   *)
(* by an OR: back to l when a, or by the join when %Xr was published. When *)
(* a and %Xl are TRUE the activity turns between l and l2 in a refresh.    *)
(* The page of the second section is still empty.                          *)
EXTENDS Sequential, TLC

ChartSteps == {"w", "l", "l2", "r"}
ChartOrder == << "w", "l", "l2", "r" >>
ChartPages == {1, 2}
ChartSections == << 1, 2 >>
ChartTransitions == 1 .. 4
ChartTransOf == (1 :> << 1, 2, 3, 4 >>) @@ (2 :> << >>)
ChartBefore == << {"w"}, {"l"}, {"l2", "r"}, {"l2"} >>
ChartAfter == << {"l", "r"}, {"l2"}, {"w"}, {"l"} >>
ChartCondition == << "a", "l", "r", "a" >>
ChartInit == {"w"}
ChartLoops == {{"w", "l", "l2"}, {"w", "r"}}
=============================================================================
