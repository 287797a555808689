--------------------------- MODULE ScanProperties ---------------------------
(* What a rung means, read off its drawing and not off its evaluation: the  *)
(* paths from the left rail, the delays of a timer, and what the field gets *)
(* when nothing moves any more.  Two history variables follow the scan.     *)
EXTENDS Scan

VARIABLES was, \* what each variable was read as by the last refresh
          ran  \* the refreshes since the delay of the timer began, 0 out of a delay

hvars == << program, dyn, var, set, timer, counter, stored, field, filter, port, flash, pc, was, ran >>

CellsOf(types) == {c \in Cells : elem[c].type \in types}
Before(c, d) == c[1] < d[1] \/ (c[1] = d[1] /\ c[2] < d[2])
Coils == CellsOf({OUTPUT, OUTPUT_NOT, OUTPUT_SET, OUTPUT_RESET})
Edges == {RISING_INPUT, FALLING_INPUT}

(* The value a cell reads: the one a coil before it has just given.         *)
Seen(c, v) ==
    IF \E k \in Coils : elem[k].v = v /\ Before(k, c) THEN ReadVarWith(var', v) ELSE ReadVar(v)

Conducts(c) ==
    LET e    == elem[c]
        edge == e.type \in Edges => was[e.v] # ReadVar(e.v)
    IN  \/ e.type \in {CONNECTION, OUTPUT, OUTPUT_NOT, OUTPUT_SET, OUTPUT_RESET, OUTPUT_CALL}
        \/ e.type \in {INPUT, RISING_INPUT} /\ Seen(c, e.v) = 1 /\ edge
        \/ e.type \in {INPUT_NOT, FALLING_INPUT} /\ Seen(c, e.v) = 0 /\ edge
        \/ e.type = COMPAR /\ var[e.v] = 1

Joined(x, r, y) == \A k \in Rows : (r < k /\ k <= y) \/ (y < k /\ k <= r) => elem[x, k].top
(* The rows that have power at the left of a column: a block takes it at    *)
(* its own left side, and a timer gives its output with or without it.      *)
Blocks == CellsOf({TIMER_IEC, COUNTER})
RowsAfter(power, x) ==
    {y \in Rows : \E r \in Rows :
        /\ Joined(x, r, y)
        /\ IF \E b \in Blocks : b[1] = x - 1 /\ r \in b[2] .. b[2] + 3 THEN dyn'[x - 1, r].out = 1
           ELSE /\ r \in power[IF elem[x - 1, r].type = COMPAR THEN x - 2 ELSE x]
                /\ Conducts(<< x - 1, r >>)}
(* The item x + 1 is for the column x.                                      *)
Powered == FoldLeft(LAMBDA power, x : Append(power, RowsAfter(power, x)), << Rows >>, [i \in 1 .. RUNG_WIDTH - 1 |-> i])
HasPower(power, c) == c[2] \in power[c[1] + 1]
Reached(power, c) == ~\E j \in CellsOf({OUTPUT_JUMP}) : Before(j, c) /\ HasPower(power, j)

Acts(power, c) == Reached(power, c) /\ (elem[c].type \in {OUTPUT_SET, OUTPUT_RESET} => HasPower(power, c))
Gives(power, c) ==
    CASE elem[c].type = OUTPUT -> Bit(HasPower(power, c))
      [] elem[c].type = OUTPUT_NOT -> Bit(~HasPower(power, c))
      [] elem[c].type = OUTPUT_SET -> 1
      [] elem[c].type = OUTPUT_RESET -> 0
Refreshed == pc = "refresh" /\ pc' = "write"

(* After a refresh a variable that the rung drives is what the last coil    *)
(* with something to say makes of the paths that lead to it, and any other  *)
(* variable is untouched: StateOnLeft and the functions of calc.c, cell by  *)
(* cell over stale states, come to the connections as they are drawn.       *)
PowerFlows ==
    [][Refreshed =>
         \E power \in {Powered} : \A v \in Vars :
            LET acting == {c \in Coils : elem[c].v = v /\ Acts(power, c)}
            IN  IF acting = {} THEN var'[v] = var[v]
                ELSE \E c \in acting : /\ \A d \in acting : d = c \/ Before(d, c)
                                       /\ var'[v] = Gives(power, c)]_vars

-----------------------------------------------------------------------------
(* The delay of the timer, seen from its input and its output only.         *)
TimerCells == CellsOf({TIMER_IEC})
InputOfTimer == LET c == CHOOSE c \in TimerCells : TRUE IN dyn'[c[1] - 1, c[2]].in
Cap(n) == IF n * Period > (program.preset + 2) * program.base THEN n ELSE n + 1
DelayRuns ==
    CASE program.mode = "on" -> InputOfTimer = 1
      [] program.mode = "off" -> InputOfTimer = 0 /\ (ran > 0 \/ timer.bak = 1)
      [] program.mode = "pulse" -> ran > 0 \/ (InputOfTimer = 1 /\ timer.bak = 0)
Runs == IF DelayRuns THEN Cap(ran) ELSE 0
PulseOver == program.mode = "pulse" /\ timer'.out = 0

HInit == Init /\ was = [v \in Vars |-> 0] /\ ran = 0
HStep ==
    /\ was' = IF Refreshed THEN [v \in Vars |-> ReadVar(v)] ELSE was
    /\ ran' = IF ~Refreshed \/ TimerCells = {} THEN ran ELSE IF PulseOver THEN 0 ELSE Runs
HNext == Next /\ HStep
HSpec == HInit /\ [][HNext]_hvars
HFairSpec == HSpec /\ WF_pc(LogicMoves) /\ WF_vars(ReadPhysicalInputs)

(* A delay is over when its time is, and not more than one base unit        *)
(* before, whatever remainder the last one left and however the period      *)
(* divides the base: the period is not longer than the base.                *)
Time == (Runs - 1) * Period
TimerOnTime ==
    [][Refreshed /\ TimerCells # {} /\ Period <= program.base /\ DelayRuns =>
         LET over == timer'.out = Bit(program.mode = "on")
         IN  /\ Time >= program.preset * program.base => over
             /\ Time <= (program.preset - 1) * program.base => ~over]_hvars

(* When the field, the forced states and the operator leave the program     *)
(* alone, the outputs come to what the drawing makes of the field, and a    *)
(* forced output to its forced state: no sample, copy, evaluation or write  *)
(* is left behind.  Without memory in the rung.                             *)
Straight == /\ program.mapped /\ program.writes = {}
            /\ \A c \in Cells : elem[c].type \in {FREE, CONNECTION, INPUT, INPUT_NOT, OUTPUT}
OutputColumn == (CHOOSE c \in CellsOf({OUTPUT}) : TRUE)[1]
Level(v) == IF v \in Physical /\ set[v] # -1 THEN set[v] ELSE IF v \in Inputs THEN field[v] ELSE var[v]
Closed(c) ==
    LET e == elem[c]
    IN  e.type = CONNECTION \/ (e.type = INPUT /\ Level(e.v) = 1) \/ (e.type = INPUT_NOT /\ Level(e.v) = 0)
Through == FoldLeft(LAMBDA on, x : {y \in Rows : \E r \in on : Closed(<< x - 1, r >>) /\ Joined(x, r, y)},
                    Rows, [i \in 1 .. OutputColumn |-> i])
Settled == Straight =>
    \A c \in CellsOf({OUTPUT}) :
        port[elem[c].v] = IF set[elem[c].v] # -1 THEN set[elem[c].v] ELSE Bit(c[2] \in Through)
FieldReachesOutputs == <>[][UNCHANGED << field, set >>]_hvars => <>[]Settled

(* What the documents say of a counter: an edge on its third input counts,  *)
(* and Q indicates when the value equals the preset.                        *)
CounterCounts ==
    [][Refreshed => \A c \in CellsOf({COUNTER}) :
         LET In(d, i) == d[c[1] - 1, c[2] + i].in
             edge == In(dyn', 2) = 1 /\ In(dyn, 2) = 0
         IN  edge /\ (\A i \in {0, 1, 3} : In(dyn', i) = 0) =>
                 counter'.value = counter.value + 1 /\ counter'.done = Bit(counter'.value = program.preset)]_hvars

(* The flash of one minute goes on and off for ever.                        *)
MinuteFlash == ~program.flash \/ ([]<>S2(flash) /\ []<>~S2(flash))
=============================================================================
