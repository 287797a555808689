----------------------------- MODULE Sequential -----------------------------
(* The sequential (Grafcet/SFC) engine, calc_sequential.c: the steps, the  *)
(* transitions that move the activity between them, the variables %Xn the  *)
(* rest of the program sees, and the two operations that set the chart     *)
(* back to its initial steps while the logic task may be refreshing it:    *)
(* the reset, and the apply of a page edited on a running engine.          *)
(*                                                                         *)
(* Abstracted: a transition is evaluated in one step of the model, and so  *)
(* is RefreshStepsVars; the run/stop gate is the one of RunStop, without   *)
(* its hardware requests and single cycles; an edited page keeps its       *)
(* structure, so that only the activity the copy carries matters.          *)
EXTENDS Integers, Sequences, FiniteSets
CONSTANTS
    Steps,        \* the steps that exist (NumPage # -1)
    StepOrder,    \* these steps, in the order of the array Step[]
    Transitions,
    Pages,
    Sections,     \* the pages of the sequential sections, in section order
    TransOf,      \* the transitions of a page, in array order
    Before,       \* NumStepToDesactiv of a transition
    After,        \* NumStepToActiv of a transition
    Condition,    \* the variable of a transition: one of Vars, or a step (%Xn)
    InitSteps,    \* the steps with InitStep set
    Loops,        \* sets of steps among which the chart moves one activity
    Vars,         \* boolean variables, which other threads write too
    Period,       \* PeriodMilliSecsTaskLogic
    TimeTop,      \* the bound of the times, which the code does not have
    PassesMax,    \* 50
    Jobs          \* what the operator does, of {"apply", "reset"}

ASSUME ChartAssumption ==
    /\ StepOrder \in Seq(Steps)
    /\ \A s \in Steps : \E i \in 1 .. Len(StepOrder) : StepOrder[i] = s
    /\ Sections \in Seq(Pages) /\ Sections # << >>
    /\ TransOf \in [Pages -> Seq(Transitions)]
    /\ Before \in [Transitions -> SUBSET Steps]
    /\ After \in [Transitions -> SUBSET Steps]
    /\ Condition \in [Transitions -> Vars \cup Steps]
    /\ InitSteps \subseteq Steps

(* What makes a set of steps a loop: every transition that leaves the set  *)
(* by one step enters it again by one step, no other transition enters it, *)
(* and one of its steps is initial. The branches of an OR are in one loop, *)
(* each branch of an AND is in a loop of its own.                          *)
ASSUME LoopsAssumption ==
    \A L \in Loops :
        /\ L \subseteq Steps
        /\ \E s \in L : InitSteps \cap L = {s}
        /\ \A t \in Transitions :
              \/ Before[t] \cap L = {} /\ After[t] \cap L = {}
              \/ \E b, a \in L : Before[t] \cap L = {b} /\ After[t] \cap L = {a}

ASSUME NumbersAssumption ==
    /\ Period \in Nat \ {0} /\ TimeTop \in Nat /\ PassesMax \in Nat \ {0}
    /\ Jobs \subseteq {"apply", "reset"}

VARIABLES
    active,     \* the steps whose Activated is set
    time,       \* TimeActivated of a step, in milliseconds
    published,  \* the steps whose %Xn is TRUE
    true,       \* the members of Vars that are TRUE
    running,    \* LadderState is RUN
    stopped,    \* LadderStoppedToRunBack
    scan,       \* "idle", "admitted" (line 537 passed) or "page" (flag up)
    sec,        \* the section under refresh
    pass,       \* LoopSecurity + 1
    pos,        \* ScanTransi
    changed,    \* StateChanged
    copy,       \* EditSeqDatas, once ModifyCurrentSeqPage filled it
    job,        \* the operation under way, or "none"
    at,         \* its next step
    next,       \* PrepareSequential's NumStep
    written,    \* history: the variables written since this pass began
    clean,      \* history: no page was under refresh while steps were prepared
    disturbed   \* history: the activity is not (yet) that of a prepared chart

task == << scan, sec, pass, pos, changed >>
operator == << job, at, next, copy >>
vars == << active, time, published, true, running, stopped, task, operator,
           written, clean, disturbed >>

(* Times are told apart up to the bound TimeTop only. *)
Capped(x) == IF x > TimeTop THEN TimeTop ELSE x

Page == Sections[sec]

IsTrue(c) == c \in true \/ c \in published

(* Mutant: one active step before is enough. *)
FiresOnAny(t) == IsTrue(Condition[t]) /\ (\E s \in Before[t] : s \in active)

(* All the steps before an enabled transition are active. *)
Fires(t) == IsTrue(Condition[t]) /\ Before[t] \subseteq active

Fired(t) == (active \ Before[t]) \cup After[t]

NoTimes == [s \in Steps |-> 0]

NoCopy == [active |-> {}, time |-> NoTimes, there |-> FALSE]

Init ==
    /\ active = InitSteps
    /\ time = NoTimes
    /\ published = {}
    /\ true = {}
    /\ running \in BOOLEAN /\ stopped = FALSE
    /\ scan = "idle" /\ sec = 1 /\ pass = 1 /\ pos = 1 /\ changed = FALSE
    /\ copy = NoCopy
    /\ job = "none" /\ at = "none" /\ next = 1
    /\ written = {} /\ clean = TRUE /\ disturbed = FALSE

-----------------------------------------------------------------------------
(* The logic task.                                                         *)

(* It tests LadderState, and only later raises the calculation flag. *)
Admit ==
    /\ scan = "idle" /\ running
    /\ scan' = "admitted"
    /\ UNCHANGED << active, time, published, true, running, stopped, sec, pass, pos,
                    changed, operator, written, clean, disturbed >>

StartPage(s) == sec' = s /\ pass' = 1 /\ pos' = 1 /\ changed' = FALSE /\ written' = {}

Begin ==
    /\ scan = "admitted"
    /\ scan' = "page"
    /\ StartPage(1)
    /\ clean' = (clean /\ at # "prepare")
    /\ UNCHANGED << active, time, published, true, running, stopped, operator, disturbed >>

InPass == scan = "page" /\ pos <= Len(TransOf[Page])

(* Mutant: the page forgets a change when a later transition has none. *)
RefreshTransiLastOnly ==
    /\ InPass
    /\ LET t == TransOf[Page][pos]
       IN  /\ active' = IF Fires(t) THEN Fired(t) ELSE active
           /\ changed' = Fires(t)
    /\ pos' = pos + 1
    /\ UNCHANGED << time, published, true, running, stopped, scan, sec, pass, operator,
                    written, clean, disturbed >>

(* RefreshTransi on the next transition of the page. *)
RefreshTransi ==
    /\ InPass
    /\ LET t == TransOf[Page][pos]
       IN  /\ active' = IF Fires(t) THEN Fired(t) ELSE active
           /\ changed' = (changed \/ Fires(t))
    /\ pos' = pos + 1
    /\ UNCHANGED << time, published, true, running, stopped, scan, sec, pass, operator,
                    written, clean, disturbed >>

PassDone == scan = "page" /\ pos > Len(TransOf[Page])

(* Mutant: no limit to the passes. *)
AgainForEver == changed

Again == changed /\ pass < PassesMax

(* Mutant: the passes are counted only when nothing changed. *)
NextPassUncounted ==
    /\ PassDone /\ Again
    /\ pos' = 1 /\ changed' = FALSE /\ written' = {}
    /\ UNCHANGED << active, time, published, true, running, stopped, scan, sec, pass,
                    operator, clean, disturbed >>

NextPass ==
    /\ PassDone /\ Again
    /\ pass' = pass + 1 /\ pos' = 1 /\ changed' = FALSE /\ written' = {}
    /\ UNCHANGED << active, time, published, true, running, stopped, scan, sec,
                    operator, clean, disturbed >>

(* RefreshStepsVars: every step of every page. *)
StepsTimes ==
    [s \in Steps |-> IF s \in active THEN Capped(time[s] + Period) ELSE 0]

EndPage ==
    /\ PassDone /\ ~Again
    /\ time' = StepsTimes
    /\ published' = active
    /\ IF sec < Len(Sections)
         THEN StartPage(sec + 1) /\ scan' = scan
         ELSE StartPage(1) /\ scan' = "idle"
    /\ UNCHANGED << active, true, running, stopped, operator, clean, disturbed >>

-----------------------------------------------------------------------------
(* The other threads.                                                      *)

(* The Modbus server, the inputs task, the monitor write a variable. *)
WriteVar(v) ==
    /\ true' = IF v \in true THEN true \ {v} ELSE true \cup {v}
    /\ written' = IF scan = "page" THEN written \cup {v} ELSE written
    /\ UNCHANGED << active, time, published, running, stopped, task, operator,
                    clean, disturbed >>

(* DoFlipFlopRunStop. *)
Flip ==
    /\ job = "none"
    /\ running' = ~running
    /\ UNCHANGED << active, time, published, true, stopped, task, operator,
                    written, clean, disturbed >>

(* ModifyCurrentSeqPage: the copy to edit carries the activity too. Bound: *)
(* a chart is not copied again while its activity is disturbed.            *)
ModifyCurrentSeqPage ==
    /\ job = "none" /\ "apply" \in Jobs /\ ~copy.there /\ ~disturbed
    /\ copy' = [active |-> active, time |-> time, there |-> TRUE]
    /\ UNCHANGED << active, time, published, true, running, stopped, task, job, at, next,
                    written, clean, disturbed >>

ApplySeqPageEdited ==
    /\ job = "none" /\ "apply" \in Jobs /\ copy.there
    /\ job' = "apply" /\ at' = "stop"
    /\ UNCHANGED << active, time, published, true, running, stopped, task, next, copy,
                    written, clean, disturbed >>

(* DoReset, which clears the variables before it stops the engine. *)
DoReset ==
    /\ job = "none" /\ "reset" \in Jobs
    /\ job' = "reset" /\ at' = "stop"
    /\ true' = {} /\ published' = {}
    /\ UNCHANGED << active, time, running, stopped, task, next, copy,
                    written, clean, disturbed >>

(* The reset prepares the steps before it runs the engine back, the apply  *)
(* of an edited page afterwards.                                           *)
AfterStop == IF job = "apply" THEN "copy" ELSE "prepare"
AfterPrepare == IF job = "apply" THEN "none" ELSE "runBack"
AfterRunBack == IF job = "apply" THEN "prepare" ELSE "none"

Goto(label) == at' = label /\ job' = IF label = "none" THEN "none" ELSE job

(* StopRunIfRunning *)
Stop ==
    /\ at = "stop"
    /\ running' = FALSE
    /\ stopped' = (stopped \/ running)
    /\ Goto(IF running THEN "wait" ELSE AfterStop)
    /\ UNCHANGED << active, time, published, true, task, next, copy,
                    written, clean, disturbed >>

(* ... which waits until the calculation flag is down. *)
Waited ==
    /\ at = "wait" /\ scan # "page"
    /\ Goto(AfterStop)
    /\ UNCHANGED << active, time, published, true, running, stopped, task, next, copy,
                    written, clean, disturbed >>

(* The memcpy back, with the activity of the time of the copy. *)
CopyBack ==
    /\ at = "copy"
    /\ active' = copy.active /\ time' = copy.time
    /\ copy' = NoCopy
    /\ disturbed' = TRUE
    /\ Goto("runBack")
    /\ UNCHANGED << published, true, running, stopped, task, next, written, clean >>

(* RunBackIfStopped *)
RunBack ==
    /\ at = "runBack"
    /\ running' = (running \/ stopped)
    /\ stopped' = FALSE
    /\ Goto(AfterRunBack)
    /\ UNCHANGED << active, time, published, true, task, next, copy,
                    written, clean, disturbed >>

(* PrepareSequential, one step of the chart at a time. *)
PrepareStep ==
    /\ at = "prepare" /\ next <= Len(StepOrder)
    /\ LET s == StepOrder[next]
       IN  /\ active' = IF s \in InitSteps THEN active \cup {s} ELSE active \ {s}
           /\ time' = [time EXCEPT ![s] = 0]
    /\ next' = next + 1
    /\ clean' = ((next = 1 \/ clean) /\ scan # "page")
    /\ disturbed' = TRUE
    /\ UNCHANGED << published, true, running, stopped, task, job, at, copy, written >>

Prepared ==
    /\ at = "prepare" /\ next > Len(StepOrder)
    /\ next' = 1
    /\ disturbed' = ~clean
    /\ clean' = TRUE
    /\ Goto(AfterPrepare)
    /\ UNCHANGED << active, time, published, true, running, stopped, task, copy, written >>

-----------------------------------------------------------------------------
LogicTask == Admit \/ Begin \/ RefreshTransi \/ NextPass \/ EndPage

OperatorStep == Stop \/ Waited \/ CopyBack \/ RunBack \/ PrepareStep \/ Prepared

Next ==
    \/ LogicTask
    \/ OperatorStep
    \/ \E v \in Vars : WriteVar(v)
    \/ Flip
    \/ ModifyCurrentSeqPage
    \/ ApplySeqPageEdited
    \/ DoReset

Spec == Init /\ [][Next]_vars

(* The logic task is scheduled again and again once a scan has begun. *)
FairSpec == Spec /\ WF_vars(RefreshTransi \/ NextPass \/ EndPage)

-----------------------------------------------------------------------------
TypeOK ==
    /\ active \subseteq Steps
    /\ time \in [Steps -> 0 .. TimeTop]
    /\ published \subseteq Steps
    /\ true \subseteq Vars /\ written \subseteq Vars
    /\ running \in BOOLEAN /\ stopped \in BOOLEAN /\ changed \in BOOLEAN
    /\ clean \in BOOLEAN /\ disturbed \in BOOLEAN
    /\ scan \in {"idle", "admitted", "page"}
    /\ sec \in 1 .. Len(Sections)
    /\ pass \in 1 .. PassesMax
    /\ pos \in 1 .. Len(TransOf[Page]) + 1
    /\ next \in 1 .. Len(StepOrder) + 1
    /\ copy \in [active : SUBSET Steps, there : BOOLEAN,
                 time : [Steps -> 0 .. TimeTop]]
    /\ job \in {"none"} \cup Jobs
    /\ at \in {"none", "stop", "wait", "copy", "runBack", "prepare"}

(* The branches of an OR exclude each other, and each branch of an AND     *)
(* moves its own activity: at every moment of every refresh, whatever the  *)
(* variables do, exactly one step of a loop is active - unless an edited   *)
(* page was copied in, or the steps were prepared during a refresh.        *)
OneStepPerLoop == ~disturbed => \A L \in Loops : \E s \in L : active \cap L = {s}

(* The passes reach a fixed point: when a page is left before the limit of *)
(* passes, a transition that could still fire has its variable written by  *)
(* another thread during the last pass.                                    *)
FixedPoint ==
    PassDone /\ ~changed /\ ~disturbed =>
        \A i \in 1 .. Len(TransOf[Page]) :
            Fires(TransOf[Page][i]) => Condition[TransOf[Page][i]] \in written

(* The refresh of the sequential pages ends, however the variables change  *)
(* and even when the transitions of a page fire in a circle.               *)
RefreshEnds == scan = "page" ~> scan # "page"

(* PrepareSequential is described as setting all the init steps active "at *)
(* start and after modification with the editor": once the editor is done, *)
(* no part of the chart is left without an active step.                    *)
AliveAfterEdit == job = "none" => \A L \in Loops : active \cap L # {}
=============================================================================
