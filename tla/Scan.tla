-------------------------------- MODULE Scan --------------------------------
(* One cycle of the logic task over one rung: the filtered inputs are       *)
(* copied to their variables, the elements of the rung are evaluated column *)
(* by column (calc.c), and the outputs are written (hardware.c).  Between   *)
(* these steps the inputs task samples the field, and an operator writes    *)
(* variables and forces inputs and outputs (vars_access.c).                 *)
EXTENDS Integers, Sequences, FiniteSets, SequencesExt

CONSTANTS RUNG_WIDTH, RUNG_HEIGHT,
          Inputs, Outputs, Bits,  \* the variables %I, %Q and %B of the model
          FilterLength,           \* samples that must agree: FilterMask has as many bits
          Period,                 \* PeriodMilliSecsTaskLogic
          REGISTER_LIST_SIZE,
          Programs,               \* a sequence of rungs, with who changes what around each
          FlashHalf               \* half of the period of the flash of one second

ASSUME ScanAssumption ==
    /\ {RUNG_WIDTH, RUNG_HEIGHT, FilterLength, Period, FlashHalf} \subseteq Nat \ {0}
    /\ Inputs \intersect Outputs = {} /\ (Inputs \union Outputs) \intersect Bits = {}

Columns == 0 .. RUNG_WIDTH - 1
Rows == 0 .. RUNG_HEIGHT - 1
Cells == Columns \X Rows
Physical == Inputs \union Outputs
Vars == Physical \union Bits
Bit(b) == IF b THEN 1 ELSE 0

(* The identifiers of the types of elements, which index CalcElemFunction.  *)
FREE == 0   UNUSABLE == 1  CONNECTION == 2  INPUT == 3  INPUT_NOT == 4
RISING_INPUT == 5  FALLING_INPUT == 6  COMPAR == 7  OUTPUT == 8
OUTPUT_NOT == 9  OUTPUT_SET == 10  OUTPUT_RESET == 11  OUTPUT_JUMP == 14
OUTPUT_CALL == 16  OUTPUT_OPERATE == 17  TIMER_IEC == 18
COUNTER == 20  REGISTER == 21  NUMBER_TYPE_ELEM == 22

CalcElemFunction ==
    << "Free", "Free", "Connection", "Input", "Input", "Input", "Input", "Compare", "Output", "Output",
       "OutputIf", "OutputIf", "Nothing", "Nothing", "Jump", "Nothing", "Jump", "Operate", "TimerIEC",
       "Counter", "Register" >>
FunctionOf(type) ==
    IF type + 1 \in DOMAIN CalcElemFunction THEN CalcElemFunction[type + 1] ELSE "null"

-----------------------------------------------------------------------------
VARIABLES program, \* the rung that runs, and who changes what around it
          dyn,     \* DynamicInput, DynamicState, DynamicOutput, DynamicVarBak of each element
          var,     \* VarArray
          set,     \* VarSetArray: the forced state, -1 when the variable is not forced
          timer, counter, stored, \* the timer, the counter and the register of the rung
          field,   \* the level of each input outside
          filter,  \* InputFilterAndStateArray: the last samples, and the state or -1
          port,    \* the outputs as they were last written
          flash,   \* FlashSecs and FlashMins
          pc       \* the next step of the logic task, "dead" after a call of no function

vars == << program, dyn, var, set, timer, counter, stored, field, filter, port, flash, pc >>

elem == program.elem

(* A forced variable reads as its forced state; what the program writes is  *)
(* kept under it.                                                           *)
ReadVarWith(values, v) == IF v \in Physical /\ set[v] # -1 THEN set[v] ELSE values[v]
ReadVar(v) == ReadVarWith(var, v)

-----------------------------------------------------------------------------
(* The elements on the left of a cell that its vertical links join to it:   *)
(* up while the row is linked to the one above, down while the next row is  *)
(* linked to it.                                                            *)
LinkedUp(x, y, top) == top <= y /\ \A r \in top + 1 .. y : elem[x, r].top
(* Mutant: the link of the row itself is looked at, which leads up.         *)
LinkedDownFromSelf(x, y, low) == low > y /\ \A r \in y .. low - 1 : elem[x, r].top
LinkedDown(x, y, low) == low > y /\ \A r \in y + 1 .. low : elem[x, r].top
StateOnLeft(d, x, y) ==
    Bit(\/ x = 0
        \/ \E r \in Rows : (LinkedUp(x, y, r) \/ LinkedDown(x, y, r)) /\ d[x - 1, r].out = 1)

(* A state of the evaluation: what the functions of the elements change.    *)
Now == [dyn |-> dyn, var |-> var, timer |-> timer, counter |-> counter, stored |-> stored,
        jump |-> FALSE, dead |-> FALSE]

(* The state of a contact, from the variable and, for an edge, from what it *)
(* was at the last evaluation of this element.                              *)
Normal(type, value) == IF type \in {INPUT_NOT, FALLING_INPUT} THEN 1 - value ELSE value
ContactState(type, value, bak) ==
    IF type \in {RISING_INPUT, FALLING_INPUT} /\ bak = 1 THEN 0 ELSE value

FreeFunc(s, x, y) == [s EXCEPT !.dyn[x, y].in = StateOnLeft(s.dyn, x, y)]

ConnectionFunc(s, x, y) ==
    LET on == StateOnLeft(s.dyn, x, y)
    IN  [s EXCEPT !.dyn[x, y] = [@ EXCEPT !.in = IF x = 0 THEN @ ELSE on, !.state = on, !.out = on]]

InputFunc(s, x, y) ==
    LET e     == elem[x, y]
        value == Normal(e.type, ReadVarWith(s.var, e.v))
        state == ContactState(e.type, value, s.dyn[x, y].bak)
        left  == StateOnLeft(s.dyn, x, y)
    IN  [s EXCEPT !.dyn[x, y] =
          [in |-> IF x = 0 THEN @.in ELSE left, state |-> state, out |-> Bit(state = 1 /\ left = 1), bak |-> value]]

(* The truth of the comparison is a variable of the model.                  *)
CompareFunc(s, x, y) ==
    LET state == s.var[elem[x, y].v]
        left  == StateOnLeft(s.dyn, x - 2, y)
    IN  [s EXCEPT !.dyn[x - 2, y].in = IF x = 2 THEN @ ELSE left,
                  !.dyn[x, y].state = state,
                  !.dyn[x, y].out = Bit(state = 1 /\ left = 1)]

OutputFunc(s, x, y) ==
    LET e    == elem[x, y]
        on   == StateOnLeft(s.dyn, x, y)
        put  == IF e.type = OUTPUT_NOT THEN 1 - on ELSE on
        seen == IF e.v \in Physical /\ set[e.v] # -1 THEN set[e.v] ELSE put
    IN  [s EXCEPT !.dyn[x, y] = [@ EXCEPT !.in = on, !.out = on, !.state = seen], !.var[e.v] = put]

OutputIfFunc(s, x, y) ==
    LET e  == elem[x, y]
        on == StateOnLeft(s.dyn, x, y)
    IN  [s EXCEPT !.dyn[x, y] = [@ EXCEPT !.in = on, !.out = on, !.state = on],
                  !.var[e.v] = IF on = 0 THEN @ ELSE IF e.type = OUTPUT_SET THEN 1 ELSE 0]

(* A jump, or a call: the rest of the rung is not evaluated after a jump.   *)
JumpFunc(s, x, y) ==
    LET on == StateOnLeft(s.dyn, x, y)
    IN  [s EXCEPT !.dyn[x, y] = [@ EXCEPT !.in = on, !.out = on, !.state = on],
                  !.jump = (on = 1 /\ elem[x, y].type = OUTPUT_JUMP)]

OperateFunc(s, x, y) ==
    LET on == StateOnLeft(s.dyn, x - 2, y)
    IN  [s EXCEPT !.dyn[x, y] = [@ EXCEPT !.in = on, !.state = on]]

-----------------------------------------------------------------------------
(* The timer: what its mode does of its input, then the end of a delay that *)
(* is started, then the time: at most one unit of its base in a scan.       *)
OnDelay(t, in) ==
    IF in = 0 THEN [t EXCEPT !.out = 0, !.value = 0]
    ELSE IF t.value < program.preset THEN t ELSE [t EXCEPT !.out = 1]
(* Mutant: the input that comes back does not stop the delay.               *)
OffDelayNotStopped(t, in) ==
    IF in = 1 THEN [t EXCEPT !.out = 1, !.value = 0] ELSE [t EXCEPT !.started = @ \/ t.bak = 1]
OffDelay(t, in) ==
    IF in = 1 THEN [t EXCEPT !.out = 1, !.value = 0, !.started = FALSE]
    ELSE [t EXCEPT !.started = @ \/ t.bak = 1]
Pulse(t, in) ==
    IF in = 1 /\ t.bak = 0 /\ ~t.started THEN [t EXCEPT !.out = 1, !.value = 0, !.started = TRUE] ELSE t

Elapsed(t) == [t EXCEPT !.out = 0, !.value = 0, !.started = FALSE]
Count(t) ==
    IF t.rest + Period >= program.base
      THEN [t EXCEPT !.value = @ + 1, !.rest = @ + Period - program.base]
      ELSE [t EXCEPT !.rest = @ + Period]
TimerStep(t, in) ==
    LET a == CASE program.mode = "on" -> OnDelay(t, in)
               [] program.mode = "off" -> OffDelay(t, in)
               [] program.mode = "pulse" -> Pulse(t, in)
        runs == IF program.mode = "on" THEN in = 1 ELSE a.started
        b == IF runs /\ a.value < program.preset THEN Count(a)
             ELSE IF runs /\ program.mode # "on" THEN Elapsed(a) ELSE a
    IN  [b EXCEPT !.bak = in]

TimerIECFunc(s, x, y) ==
    LET on == StateOnLeft(s.dyn, x - 1, y)
        t  == TimerStep(s.timer, on)
    IN  [s EXCEPT !.dyn[x - 1, y].in = on, !.dyn[x, y].out = t.out, !.timer = t]

(* The counter has four inputs in its left column, and its outputs in its   *)
(* right one; the full range of an integer is not reached here.             *)
CounterFunc(s, x, y) ==
    LET In(i)  == StateOnLeft(s.dyn, x - 1, y + i)
        c      == s.counter
        up     == c.value + Bit(In(2) = 1 /\ c.up = 0)
        down   == up - Bit(In(3) = 1 /\ c.down = 0)
        preset == IF In(1) = 1 THEN program.preset ELSE down
        value  == IF In(0) = 1 THEN 0 ELSE preset
        done   == Bit(value = program.preset)
    IN  [s EXCEPT !.counter = [value |-> value, up |-> In(2), down |-> In(3), done |-> done],
                  !.dyn = [c2 \in Cells |->
                      IF c2[1] = x - 1 /\ c2[2] \in y .. y + 3 THEN [@[c2] EXCEPT !.in = In(c2[2] - y)]
                      ELSE IF c2 = << x, y + 1 >> THEN [@[c2] EXCEPT !.out = done]
                      ELSE IF c2 \in {<< x, y >>, << x, y + 2 >>} THEN [@[c2] EXCEPT !.out = 0]
                      ELSE @[c2]]]

(* What this module needs of a register: how many values it holds.          *)
RegisterFunc(s, x, y) ==
    LET In(i)  == StateOnLeft(s.dyn, x - 1, y + i)
        g      == s.stored
        pushed == g.count + Bit(In(1) = 1 /\ g.in = 0 /\ g.count < REGISTER_LIST_SIZE)
        popped == pushed - Bit(In(2) = 1 /\ g.out = 0 /\ pushed > 0)
        count  == IF In(0) = 1 THEN 0 ELSE popped
    IN  [s EXCEPT !.stored = [count |-> count, in |-> In(1), out |-> In(2)],
                  !.dyn = [c \in Cells |->
                      IF c[1] = x - 1 /\ c[2] \in y .. y + 2 THEN [@[c] EXCEPT !.in = In(c[2] - y)]
                      ELSE IF c = << x, y >> THEN [@[c] EXCEPT !.out = Bit(count = 0)]
                      ELSE IF c = << x, y + 1 >> THEN [@[c] EXCEPT !.out = Bit(count = REGISTER_LIST_SIZE)]
                      ELSE @[c]]]

-----------------------------------------------------------------------------
(* RefreshRung: from the left column to the right one, and from the top     *)
(* down in a column, until an element jumps.                                *)
Calc(s, c) ==
    LET x == c[1]
        y == c[2]
        f == FunctionOf(elem[c].type)
    IN  CASE s.jump \/ s.dead \/ y >= program.lines -> s
          [] OTHER ->
             CASE f = "Free" -> FreeFunc(s, x, y)
               [] f = "Connection" -> ConnectionFunc(s, x, y)
               [] f = "Input" -> InputFunc(s, x, y)
               [] f = "Compare" -> CompareFunc(s, x, y)
               [] f = "Output" -> OutputFunc(s, x, y)
               [] f = "OutputIf" -> OutputIfFunc(s, x, y)
               [] f = "Jump" -> JumpFunc(s, x, y)
               [] f = "Operate" -> OperateFunc(s, x, y)
               [] f = "TimerIEC" -> TimerIECFunc(s, x, y)
               [] f = "Counter" -> CounterFunc(s, x, y)
               [] f = "Register" -> RegisterFunc(s, x, y)
               [] f = "Nothing" -> s
               [] f = "null" -> [s EXCEPT !.dead = TRUE]

(* The rows below the last one with an element are not evaluated.           *)
NbrLinesUsed(elems) ==
    LET used == {c \in Cells : elems[c].type # FREE}
    IN  IF used = {} THEN RUNG_HEIGHT ELSE 1 + CHOOSE y \in Rows : /\ \E c \in used : c[2] = y
                                                                   /\ \A c \in used : c[2] <= y
Order == [i \in 1 .. RUNG_WIDTH * RUNG_HEIGHT |-> << (i - 1) \div RUNG_HEIGHT, (i - 1) % RUNG_HEIGHT >>]
RefreshRung == FoldLeft(Calc, Now, Order)

Refresh ==
    /\ pc = "refresh"
    /\ \E s \in {RefreshRung} :
           /\ dyn' = s.dyn /\ var' = s.var /\ timer' = s.timer
           /\ counter' = s.counter /\ stored' = s.stored
           /\ pc' = IF s.dead THEN "dead" ELSE "write"
    /\ UNCHANGED << program, set, field, filter, port, flash >>

(* A state that is not known yet leaves the variable to the operator.       *)
CopyInputsStatesToInputsVars ==
    /\ pc = "copy"
    /\ var' = [v \in Vars |-> IF v \in Inputs /\ filter[v].state # -1 THEN filter[v].state ELSE var[v]]
    /\ pc' = "system"
    /\ UNCHANGED << program, dyn, set, timer, counter, stored, field, filter, port, flash >>

(* The flashes: %S2, which should flash once a minute, is computed from the *)
(* count of the seconds.                                                    *)
S2(f) == f.secs < 60 * FlashHalf
UpdateSystemVars ==
    /\ pc = "system"
    /\ flash' = IF program.flash THEN [secs |-> (flash.secs + 1) % (2 * FlashHalf), mins |-> (flash.mins + 1) % (120 * FlashHalf)]
                ELSE flash
    /\ pc' = "refresh"
    /\ UNCHANGED << program, dyn, var, set, timer, counter, stored, field, filter, port >>

WritePhysicalOutputs ==
    /\ pc = "write"
    /\ port' = [q \in Outputs |-> ReadVar(q)]
    /\ pc' = "copy"
    /\ UNCHANGED << program, dyn, var, set, timer, counter, stored, field, filter, flash >>

-----------------------------------------------------------------------------
(* The inputs task: a new sample enters the buffer; the state changes when  *)
(* the samples under the mask are all equal.                                *)
(* Mutant: a state that is known never falls again.                         *)
FilteredUp(f, level) ==
    [raw |-> << level >> \o SubSeq(f.raw, 1, FilterLength - 1), state |-> IF level = 1 /\ f.raw[1] = 1 THEN 1 ELSE f.state]
Filtered(f, level) ==
    LET raw == << level >> \o SubSeq(f.raw, 1, FilterLength - 1)
    IN  [raw |-> raw, state |-> IF \A i \in DOMAIN raw : raw[i] = level THEN level ELSE f.state]
ReadPhysicalInputs ==
    /\ program.mapped /\ pc # "dead"
    /\ filter' = [i \in Inputs |-> Filtered(filter[i], field[i])]
    /\ UNCHANGED << program, dyn, var, set, timer, counter, stored, field, port, flash, pc >>

FieldChanges(i) ==
    /\ program.mapped /\ pc # "dead"
    /\ field' = [field EXCEPT ![i] = 1 - @]
    /\ UNCHANGED << program, dyn, var, set, timer, counter, stored, filter, port, flash, pc >>

(* The operator, or a Modbus master, between two scans: a bit or an input   *)
(* that is not wired.                                                       *)
WriteVar(v) ==
    /\ v \in program.writes /\ pc = "copy"
    /\ var' = [var EXCEPT ![v] = 1 - @]
    /\ UNCHANGED << program, dyn, set, timer, counter, stored, field, filter, port, flash, pc >>

SetVar(v, value) ==
    /\ v \in program.forces /\ pc # "dead" /\ set[v] # value
    /\ set' = [set EXCEPT ![v] = value]
    /\ UNCHANGED << program, dyn, var, timer, counter, stored, field, filter, port, flash, pc >>
UnsetVar(v) ==
    /\ v \in program.forces /\ pc # "dead" /\ set[v] # -1
    /\ set' = [set EXCEPT ![v] = -1]
    /\ UNCHANGED << program, dyn, var, timer, counter, stored, field, filter, port, flash, pc >>

-----------------------------------------------------------------------------
(* The memory of an edge starts with the state of its variable, so that     *)
(* what is already on when the run starts is not an edge.                   *)
Prepared(p, c) ==
    LET e == p.elem[c]
    IN  [in |-> 0, state |-> 0, out |-> 0,
         bak |-> IF e.type = FALLING_INPUT THEN 1 ELSE 0]

Init ==
    /\ program \in ToSet(Programs)
    /\ dyn = [c \in Cells |-> Prepared(program, c)]
    /\ var = [v \in Vars |-> 0]
    /\ set = [v \in Physical |-> -1]
    /\ timer = [value |-> 0, out |-> 0, bak |-> 0, started |-> FALSE, rest |-> 0]
    /\ counter = [value |-> 0, up |-> 0, down |-> 0, done |-> 0]
    /\ stored = [count |-> 0, in |-> 0, out |-> 0]
    /\ field = [i \in Inputs |-> 0]
    /\ filter = [i \in Inputs |-> [raw |-> [j \in 1 .. FilterLength |-> 0], state |-> -1]]
    /\ port = [q \in Outputs |-> 0]
    /\ flash = [secs |-> 0, mins |-> 0]
    /\ pc = "copy"

LogicTask == CopyInputsStatesToInputsVars \/ UpdateSystemVars \/ Refresh \/ WritePhysicalOutputs

Next ==
    \/ LogicTask
    \/ ReadPhysicalInputs
    \/ \E i \in Inputs : FieldChanges(i)
    \/ \E v \in Vars : WriteVar(v)
    \/ \E v \in Physical, value \in {0, 1} : SetVar(v, value)
    \/ \E v \in Physical : UnsetVar(v)

Spec == Init /\ [][Next]_vars
(* Both tasks are periodic: only a step of the logic task moves pc, so that *)
(* it is fair to that task to be fair to the moves of pc.                   *)
LogicMoves == pc # "dead" /\ pc' \in {"copy", "system", "refresh", "write"} \ {pc}
FairSpec == Spec /\ WF_pc(LogicMoves) /\ WF_vars(ReadPhysicalInputs)
=============================================================================
