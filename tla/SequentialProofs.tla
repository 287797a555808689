-------------------------- MODULE SequentialProofs --------------------------
(* What TLAPS proves of Sequential: for every chart, every number of pages *)
(* and passes, and every interleaving of the logic task with the operator  *)
(* and the writers of variables, one step of a loop is active.             *)
EXTENDS Sequential, TLAPS

(* PrepareSequential has done the steps before next; it is disturbing the  *)
(* activity, and if it is clean no page is under refresh.                  *)
PreparedSoFar ==
    /\ job = "none" <=> at = "none"
    /\ at # "prepare" => next = 1
    /\ at = "prepare" /\ next > 1 => disturbed /\ (clean => scan # "page")
    /\ at = "prepare" /\ clean =>
          \A i \in 1 .. next - 1 : StepOrder[i] \in active <=> StepOrder[i] \in InitSteps

IInv == TypeOK /\ OneStepPerLoop /\ PreparedSoFar

(* Firing a transition keeps one active step in each loop.                 *)
LEMMA FiringKeepsLoop ==
    ASSUME NEW L \in Loops, NEW t \in Transitions, Fires(t),
           \E s \in L : active \cap L = {s}
    PROVE  \E s \in L : Fired(t) \cap L = {s}
<1>1. PICK s \in L : active \cap L = {s}
  OBVIOUS
<1>2. CASE Before[t] \cap L = {} /\ After[t] \cap L = {}
  <2>1. Fired(t) \cap L = {s}
    BY <1>1, <1>2 DEF Fired
  <2>2. QED
    BY <2>1
<1>3. CASE \E b, a \in L : Before[t] \cap L = {b} /\ After[t] \cap L = {a}
  <2>1. PICK b \in L, a \in L : Before[t] \cap L = {b} /\ After[t] \cap L = {a}
    BY <1>3
  <2>2. b = s
    BY <1>1, <2>1 DEF Fires
  <2>3. Fired(t) \cap L = {a}
    BY <1>1, <2>1, <2>2 DEF Fired
  <2>4. QED
    BY <2>3
<1>4. QED
  BY <1>2, <1>3, LoopsAssumption

(* The initial steps hold one of each loop.                                *)
LEMMA InitialLoops == \A L \in Loops : \E s \in L : InitSteps \cap L = {s}
  BY LoopsAssumption

(* The transition under evaluation is one of the chart's.                  *)
LEMMA InPassTyped ==
    ASSUME TypeOK, InPass
    PROVE  /\ Page \in Pages
           /\ TransOf[Page] \in Seq(Transitions)
           /\ pos \in 1 .. Len(TransOf[Page])
           /\ TransOf[Page][pos] \in Transitions
<1>1. Page \in Pages
  BY ChartAssumption DEF TypeOK, Page
<1>2. TransOf[Page] \in Seq(Transitions)
  BY <1>1, ChartAssumption
<1>3. pos \in 1 .. Len(TransOf[Page])
  BY <1>2 DEF TypeOK, InPass
<1>4. QED
  BY <1>1, <1>2, <1>3

(* The steps' times stay in their domain.                                  *)
LEMMA StepsTimesTyped ==
    ASSUME time \in [Steps -> 0 .. TimeTop]
    PROVE  StepsTimes \in [Steps -> 0 .. TimeTop]
  BY NumbersAssumption DEF StepsTimes, Capped

(* A page starts at its first transition.                                  *)
LEMMA StartPageTyped ==
    ASSUME NEW s \in 1 .. Len(Sections), StartPage(s)
    PROVE  /\ sec' \in 1 .. Len(Sections) /\ pass' \in 1 .. PassesMax
           /\ changed' \in BOOLEAN /\ written' \subseteq Vars
           /\ pos' \in 1 .. Len(TransOf[Page']) + 1
<1>1. Sections[s] \in Pages
  BY ChartAssumption
<1>2. TransOf[Page'] \in Seq(Transitions)
  BY <1>1, ChartAssumption DEF StartPage, Page
<1>3. Len(TransOf[Page']) \in Nat
  BY <1>2
<1>4. pos' \in 1 .. Len(TransOf[Page']) + 1
  BY <1>3 DEF StartPage
<1>5. pass' \in 1 .. PassesMax
  BY NumbersAssumption DEF StartPage
<1>6. sec' \in 1 .. Len(Sections) /\ changed' \in BOOLEAN /\ written' \subseteq Vars
  BY DEF StartPage
<1>7. QED
  BY <1>4, <1>5, <1>6

(* The labels the operator goes to.                                        *)
LEMMA LabelsTyped ==
    /\ AfterStop \in {"copy", "prepare"}
    /\ AfterPrepare \in {"none", "runBack"}
    /\ AfterRunBack \in {"none", "prepare"}
  BY DEF AfterStop, AfterPrepare, AfterRunBack

(* The invariant holds at the start and every step keeps it.               *)
THEOREM Invariance == Spec => []IInv
<1>1. Init => IInv
  <2> SUFFICES ASSUME Init PROVE IInv
    OBVIOUS
  <2>1. NoTimes \in [Steps -> 0 .. TimeTop]
    BY NumbersAssumption DEF NoTimes
  <2>2. Len(Sections) \in Nat /\ 1 \in 1 .. Len(Sections)
    BY ChartAssumption
  <2>3. TransOf[Page] \in Seq(Transitions)
    BY <2>2, ChartAssumption DEF Init, Page
  <2>4. TypeOK
    <3>1. pos \in 1 .. Len(TransOf[Page]) + 1
      <4>1. Len(TransOf[Page]) \in Nat
        BY <2>3
      <4>2. QED
        BY <4>1 DEF Init
    <3>2. pass \in 1 .. PassesMax
      BY NumbersAssumption DEF Init
    <3>3. next \in 1 .. Len(StepOrder) + 1
      <4>1. Len(StepOrder) \in Nat
        BY ChartAssumption
      <4>2. QED
        BY <4>1 DEF Init
    <3>4. copy \in [active : SUBSET Steps, there : BOOLEAN, time : [Steps -> 0 .. TimeTop]]
      BY <2>1 DEF Init, NoCopy
    <3>5. QED
      BY <2>1, <2>2, <3>1, <3>2, <3>3, <3>4, ChartAssumption DEF Init, TypeOK
  <2>5. OneStepPerLoop
    BY InitialLoops DEF Init, OneStepPerLoop
  <2>6. QED
    BY <2>4, <2>5 DEF Init, IInv, PreparedSoFar
<1>2. IInv /\ [Next]_vars => IInv'
  <2> SUFFICES ASSUME IInv, [Next]_vars PROVE IInv'
    OBVIOUS
  <2> USE DEF IInv
  <2>1. CASE Admit
    BY <2>1 DEF Admit, TypeOK, OneStepPerLoop, PreparedSoFar, operator, Page
  <2>2. CASE Begin
    <3>1. 1 \in 1 .. Len(Sections)
      BY ChartAssumption
    <3>2. TypeOK'
      BY <2>2, <3>1, StartPageTyped DEF Begin, TypeOK, operator
    <3>3. OneStepPerLoop'
      BY <2>2 DEF Begin, OneStepPerLoop
    <3>4. PreparedSoFar'
      BY <2>2 DEF Begin, PreparedSoFar, operator
    <3>5. QED
      BY <3>2, <3>3, <3>4
  <2>3. CASE RefreshTransi
    <3> DEFINE t == TransOf[Page][pos]
    <3>1. t \in Transitions /\ pos \in 1 .. Len(TransOf[Page]) /\ Len(TransOf[Page]) \in Nat
      BY <2>3, InPassTyped DEF RefreshTransi
    <3>2. active' = active \/ (Fires(t) /\ active' = Fired(t))
      BY <2>3 DEF RefreshTransi
    <3>3. Fired(t) \subseteq Steps
      BY <3>1, ChartAssumption DEF Fired, TypeOK
    <3>4. TypeOK'
      <4>1. active' \subseteq Steps
        BY <3>2, <3>3 DEF TypeOK
      <4>2. pos' \in 1 .. Len(TransOf[Page]) + 1 /\ Page' = Page
        BY <2>3, <3>1 DEF RefreshTransi, Page
      <4>3. changed' \in BOOLEAN
        BY <2>3 DEF RefreshTransi, TypeOK
      <4>4. QED
        BY <2>3, <4>1, <4>2, <4>3 DEF RefreshTransi, TypeOK, operator
    <3>5. OneStepPerLoop'
      <4> SUFFICES ASSUME ~disturbed', NEW L \in Loops
                   PROVE  \E s \in L : active' \cap L = {s}
        BY DEF OneStepPerLoop
      <4>1. \E s \in L : active \cap L = {s}
        BY <2>3 DEF RefreshTransi, OneStepPerLoop
      <4>2. CASE active' = active
        BY <4>1, <4>2
      <4>3. CASE Fires(t) /\ active' = Fired(t)
        BY <3>1, <4>1, <4>3, FiringKeepsLoop
      <4>4. QED
        BY <3>2, <4>2, <4>3
    <3>6. PreparedSoFar'
      <4>1. scan = "page"
        BY <2>3 DEF RefreshTransi, InPass
      <4>2. at = "prepare" /\ clean => next = 1
        BY <4>1 DEF PreparedSoFar, TypeOK
      <4>3. QED
        BY <2>3, <4>1, <4>2 DEF RefreshTransi, PreparedSoFar, operator
    <3>7. QED
      BY <3>4, <3>5, <3>6
  <2>4. CASE NextPass
    <3>1. TransOf[Page] \in Seq(Transitions)
      BY ChartAssumption DEF TypeOK, Page
    <3>2. Len(TransOf[Page]) \in Nat
      BY <3>1
    <3>3. pass' \in 1 .. PassesMax
      BY <2>4, NumbersAssumption DEF NextPass, Again, TypeOK
    <3>4. pos' \in 1 .. Len(TransOf[Page']) + 1
      BY <2>4, <3>2 DEF NextPass, Page
    <3>5. TypeOK'
      BY <2>4, <3>3, <3>4 DEF NextPass, TypeOK, operator
    <3>6. QED
      BY <2>4, <3>5 DEF NextPass, OneStepPerLoop, PreparedSoFar, operator
  <2>5. CASE EndPage
    <3>1. time' \in [Steps -> 0 .. TimeTop]
      BY <2>5, StepsTimesTyped DEF EndPage, TypeOK
    <3>2. Len(Sections) \in Nat /\ 1 \in 1 .. Len(Sections)
      BY ChartAssumption
    <3>3. \E s \in 1 .. Len(Sections) : StartPage(s)
      BY <2>5, <3>2 DEF EndPage, TypeOK
    <3>4. scan' \in {"page", "idle"} /\ scan = "page"
      BY <2>5 DEF EndPage, PassDone
    <3>5. TypeOK'
      BY <2>5, <3>1, <3>3, <3>4, StartPageTyped DEF EndPage, TypeOK, operator
    <3>6. QED
      BY <2>5, <3>4, <3>5 DEF EndPage, OneStepPerLoop, PreparedSoFar, operator
  <2>6. CASE Stop
    <3>1. TypeOK'
      <4>1. at' \in {"none", "stop", "wait", "copy", "runBack", "prepare"}
        BY <2>6, LabelsTyped DEF Stop, Goto
      <4>2. job' \in {"none"} \cup Jobs
        BY <2>6 DEF Stop, Goto, TypeOK
      <4>3. running' \in BOOLEAN /\ stopped' \in BOOLEAN
        BY <2>6 DEF Stop, TypeOK
      <4>4. QED
        BY <2>6, <4>1, <4>2, <4>3 DEF Stop, TypeOK, task, Page
    <3>2. OneStepPerLoop'
      BY <2>6 DEF Stop, OneStepPerLoop
    <3>3. PreparedSoFar'
      <4>0. job' = "none" <=> at' = "none"
        BY <2>6, LabelsTyped DEF Stop, Goto, PreparedSoFar
      <4>1. at # "prepare" /\ next = 1 /\ next' = 1
        BY <2>6 DEF Stop, PreparedSoFar
      <4>2. QED
        BY <4>0, <4>1 DEF PreparedSoFar
    <3>4. QED
      BY <3>1, <3>2, <3>3
  <2>7. CASE Waited
    <3>1. TypeOK'
      <4>1. at' \in {"none", "stop", "wait", "copy", "runBack", "prepare"}
        BY <2>7, LabelsTyped DEF Waited, Goto
      <4>2. job' \in {"none"} \cup Jobs
        BY <2>7 DEF Waited, Goto, TypeOK
      <4>3. running' \in BOOLEAN /\ stopped' \in BOOLEAN
        BY <2>7 DEF Waited, TypeOK
      <4>4. QED
        BY <2>7, <4>1, <4>2, <4>3 DEF Waited, TypeOK, task, Page
    <3>2. OneStepPerLoop'
      BY <2>7 DEF Waited, OneStepPerLoop
    <3>3. PreparedSoFar'
      <4>0. job' = "none" <=> at' = "none"
        BY <2>7, LabelsTyped DEF Waited, Goto, PreparedSoFar
      <4>1. at # "prepare" /\ next = 1 /\ next' = 1
        BY <2>7 DEF Waited, PreparedSoFar
      <4>2. QED
        BY <4>0, <4>1 DEF PreparedSoFar
    <3>4. QED
      BY <3>1, <3>2, <3>3
  <2>8. CASE CopyBack
    <3>1. NoCopy \in [active : SUBSET Steps, there : BOOLEAN, time : [Steps -> 0 .. TimeTop]]
      BY NumbersAssumption DEF NoCopy, NoTimes
    <3>2. QED
      BY <2>8, <3>1 DEF CopyBack, Goto, TypeOK, OneStepPerLoop, PreparedSoFar, task, Page
  <2>9. CASE RunBack
    <3>1. TypeOK'
      <4>1. at' \in {"none", "stop", "wait", "copy", "runBack", "prepare"}
        BY <2>9, LabelsTyped DEF RunBack, Goto
      <4>2. job' \in {"none"} \cup Jobs
        BY <2>9 DEF RunBack, Goto, TypeOK
      <4>3. running' \in BOOLEAN /\ stopped' \in BOOLEAN
        BY <2>9 DEF RunBack, TypeOK
      <4>4. QED
        BY <2>9, <4>1, <4>2, <4>3 DEF RunBack, TypeOK, task, Page
    <3>2. OneStepPerLoop'
      BY <2>9 DEF RunBack, OneStepPerLoop
    <3>3. PreparedSoFar'
      <4>0. job' = "none" <=> at' = "none"
        BY <2>9, LabelsTyped DEF RunBack, Goto, PreparedSoFar
      <4>1. at # "prepare" /\ next = 1 /\ next' = 1
        BY <2>9 DEF RunBack, PreparedSoFar
      <4>2. QED
        BY <4>0, <4>1 DEF PreparedSoFar
    <3>4. QED
      BY <3>1, <3>2, <3>3
  <2>10. CASE PrepareStep
    <3> DEFINE s == StepOrder[next]
    <3>1. Len(StepOrder) \in Nat /\ next \in 1 .. Len(StepOrder) /\ s \in Steps
      <4>1. StepOrder \in Seq(Steps) /\ Len(StepOrder) \in Nat
        BY ChartAssumption
      <4>2. next \in 1 .. Len(StepOrder) + 1 /\ next <= Len(StepOrder)
        BY <2>10 DEF PrepareStep, TypeOK
      <4>3. next \in 1 .. Len(StepOrder)
        BY <4>1, <4>2
      <4>4. QED
        BY <4>1, <4>3
    <3>2. active' = IF s \in InitSteps THEN active \cup {s} ELSE active \ {s}
      BY <2>10 DEF PrepareStep
    <3>3. TypeOK'
      <4>1. active' \subseteq Steps
        BY <3>1, <3>2 DEF TypeOK
      <4>2. time' \in [Steps -> 0 .. TimeTop]
        <5>1. time' = [time EXCEPT ![s] = 0]
          BY <2>10 DEF PrepareStep
        <5>2. time \in [Steps -> 0 .. TimeTop] /\ 0 \in 0 .. TimeTop
          BY NumbersAssumption DEF TypeOK
        <5>3. QED
          BY <3>1, <5>1, <5>2
      <4>3. next' \in 1 .. Len(StepOrder) + 1
        BY <2>10, <3>1 DEF PrepareStep
      <4>4. clean' \in BOOLEAN /\ disturbed' \in BOOLEAN
        BY <2>10 DEF PrepareStep
      <4>5. QED
        BY <2>10, <4>1, <4>2, <4>3, <4>4 DEF PrepareStep, TypeOK, task, Page
    <3>4. OneStepPerLoop'
      BY <2>10 DEF PrepareStep, OneStepPerLoop
    <3>5. PreparedSoFar'
      <4>1. at' = "prepare" /\ disturbed' /\ (clean' => scan' # "page")
        BY <2>10 DEF PrepareStep, task
      <4>2. ASSUME clean', NEW i \in 1 .. next' - 1
            PROVE  StepOrder[i] \in active' <=> StepOrder[i] \in InitSteps
        <5>1. next' - 1 = next /\ at = "prepare" /\ (next = 1 \/ clean)
          <6>1. next' = next + 1 /\ next \in Nat /\ at = "prepare"
            BY <2>10, <3>1 DEF PrepareStep
          <6>2. next = 1 \/ clean
            BY <2>10, <4>2 DEF PrepareStep
          <6>3. QED
            BY <6>1, <6>2
        <5>2. CASE i = next
          BY <3>2, <5>2
        <5>3. CASE i # next
          <6>1. i \in 1 .. next - 1 /\ next # 1
            BY <3>1, <5>1, <5>3
          <6>2. StepOrder[i] \in active <=> StepOrder[i] \in InitSteps
            BY <5>1, <6>1 DEF PreparedSoFar
          <6>3. QED
            BY <3>2, <6>2
        <5>4. QED
          BY <5>2, <5>3
      <4>3. job' = "none" <=> at' = "none"
        BY <2>10 DEF PrepareStep, PreparedSoFar
      <4>4. QED
        BY <4>1, <4>2, <4>3 DEF PreparedSoFar
    <3>6. QED
      BY <3>3, <3>4, <3>5
  <2>11. CASE Prepared
    <3>1. Len(StepOrder) \in Nat
      BY ChartAssumption
    <3>2. TypeOK'
      <4>1. at' \in {"none", "stop", "wait", "copy", "runBack", "prepare"}
        BY <2>11, LabelsTyped DEF Prepared, Goto
      <4>2. job' \in {"none"} \cup Jobs
        BY <2>11 DEF Prepared, Goto, TypeOK
      <4>3. next' \in 1 .. Len(StepOrder) + 1
        BY <2>11, <3>1 DEF Prepared
      <4>4. clean' \in BOOLEAN /\ disturbed' \in BOOLEAN
        BY <2>11 DEF Prepared, TypeOK
      <4>5. QED
        BY <2>11, <4>1, <4>2, <4>3, <4>4 DEF Prepared, TypeOK, task, Page
    <3>3. OneStepPerLoop'
      <4> SUFFICES ASSUME ~disturbed' PROVE \A L \in Loops : \E s \in L : active' \cap L = {s}
        BY DEF OneStepPerLoop
      <4>1. clean /\ at = "prepare" /\ active' = active
        BY <2>11 DEF Prepared
      <4>2. \A i \in 1 .. Len(StepOrder) : i \in 1 .. next - 1
        BY <2>11, <3>1 DEF Prepared, TypeOK
      <4>3. \A s \in Steps : s \in active <=> s \in InitSteps
        BY <4>1, <4>2, ChartAssumption DEF PreparedSoFar
      <4>4. active = InitSteps
        BY <4>3, ChartAssumption DEF TypeOK
      <4>5. QED
        BY <4>1, <4>4, InitialLoops
    <3>4. PreparedSoFar'
      <4>1. at' # "prepare" /\ next' = 1
        BY <2>11, LabelsTyped DEF Prepared, Goto
      <4>2. job' = "none" <=> at' = "none"
        BY <2>11, LabelsTyped DEF Prepared, Goto, PreparedSoFar
      <4>3. QED
        BY <4>1, <4>2 DEF PreparedSoFar
    <3>5. QED
      BY <3>2, <3>3, <3>4
  <2>12. CASE \E v \in Vars : WriteVar(v)
    <3>1. PICK v \in Vars : WriteVar(v)
      BY <2>12
    <3>2. QED
      BY <3>1 DEF WriteVar, TypeOK, OneStepPerLoop, PreparedSoFar, task, operator, Page
  <2>13. CASE Flip
    BY <2>13 DEF Flip, TypeOK, OneStepPerLoop, PreparedSoFar, task, operator, Page
  <2>14. CASE ModifyCurrentSeqPage
    BY <2>14 DEF ModifyCurrentSeqPage, TypeOK, OneStepPerLoop, PreparedSoFar, task, Page
  <2>15. CASE ApplySeqPageEdited
    <3>1. job' \in {"none"} \cup Jobs
      BY <2>15 DEF ApplySeqPageEdited
    <3>2. QED
      <4>1. TypeOK'
        BY <2>15, <3>1 DEF ApplySeqPageEdited, TypeOK, task, Page
      <4>2. QED
        BY <2>15, <4>1 DEF ApplySeqPageEdited, OneStepPerLoop, PreparedSoFar, task
  <2>16. CASE DoReset
    <3>1. TypeOK'
      <4>1. job' \in {"none"} \cup Jobs
        BY <2>16 DEF DoReset
      <4>2. QED
        BY <2>16, <4>1 DEF DoReset, TypeOK, task, Page
    <3>2. QED
      BY <2>16, <3>1 DEF DoReset, OneStepPerLoop, PreparedSoFar, task
  <2>17. CASE UNCHANGED vars
    BY <2>17 DEF vars, TypeOK, OneStepPerLoop, PreparedSoFar, task, operator, Page
  <2>18. QED
    BY <2>1, <2>2, <2>3, <2>4, <2>5, <2>6, <2>7, <2>8, <2>9, <2>10, <2>11, <2>12,
       <2>13, <2>14, <2>15, <2>16, <2>17 DEF Next, LogicTask, OperatorStep
<1>3. QED
  BY <1>1, <1>2, PTL DEF Spec

(* Every variable of the chart, of the scan and of the operator stays in   *)
(* its domain; in particular ScanTransi stays on the page's transitions    *)
(* and the passes never exceed their limit.                                *)
THEOREM TypeCorrect == Spec => []TypeOK
<1>1. IInv => TypeOK
  BY DEF IInv
<1>2. QED
  BY <1>1, Invariance, PTL

(* In every chart, at every moment, exactly one step of each loop is       *)
(* active while no operation of the operator disturbs the activity.        *)
THEOREM LoopsKept == Spec => []OneStepPerLoop
<1>1. IInv => OneStepPerLoop
  BY DEF IInv
<1>2. QED
  BY <1>1, Invariance, PTL

-----------------------------------------------------------------------------
(* The fixed point of the passes.                                          *)

(* A transition that could still fire has its variable written.            *)
Settled(i) == Fires(TransOf[Page][i]) => Condition[TransOf[Page][i]] \in written

(* As long as a pass changes nothing, the transitions it has been over are *)
(* settled. What the operator does to the steps is left aside, except in a *)
(* chart that has no step for it to disturb.                               *)
PassSoFar ==
    scan = "page" /\ ~changed /\ (disturbed => Steps = {}) =>
        \A i \in 1 .. pos - 1 : Settled(i)

(* What enables a transition only depends on the steps and the variables.  *)
LEMMA FiresUnchanged ==
    ASSUME NEW t, active' = active, published' = published, true' = true
    PROVE  Fires(t)' <=> Fires(t)
  BY DEF Fires, IsTrue

(* A step that leaves the page, the activity and the variables alone keeps *)
(* what the pass has established.                                          *)
LEMMA PassUntouched ==
    ASSUME PassSoFar, active' = active, published' = published, true' = true,
           scan' = scan, sec' = sec, pos' = pos, changed' = changed,
           written' = written, (disturbed' => Steps = {}) => (disturbed => Steps = {})
    PROVE  PassSoFar'
<1>1. SUFFICES ASSUME scan = "page", ~changed, disturbed => Steps = {},
                      NEW i \in 1 .. pos - 1
               PROVE  Settled(i)'
  BY DEF PassSoFar
<1>2. Settled(i)
  BY <1>1 DEF PassSoFar
<1>3. QED
  BY <1>2, FiresUnchanged DEF Settled, Page

(* Every step keeps what the pass has established so far.                  *)
LEMMA PassKept ==
    ASSUME IInv, IInv', PassSoFar, [Next]_vars
    PROVE  PassSoFar'
<1>1. CASE Admit
  BY <1>1 DEF Admit, PassSoFar
<1>2. CASE Begin
  BY <1>2 DEF Begin, StartPage, PassSoFar
<1>3. CASE RefreshTransi
  <2> DEFINE t == TransOf[Page][pos]
  <2>1. SUFFICES ASSUME ~changed', disturbed => Steps = {}, NEW i \in 1 .. pos
                 PROVE  Settled(i)'
    BY <1>3, InPassTyped DEF RefreshTransi, PassSoFar, IInv
  <2>2. scan = "page" /\ ~changed /\ ~Fires(t) /\ active' = active
    BY <1>3, <2>1 DEF RefreshTransi, InPass
  <2>3. published' = published /\ true' = true /\ written' = written /\ Page' = Page
    BY <1>3 DEF RefreshTransi, Page
  <2>4. Settled(i)
    <3>1. CASE i = pos
      BY <2>2, <3>1 DEF Settled
    <3>2. CASE i # pos
      <4>1. i \in 1 .. pos - 1
        BY <1>3, <3>2, InPassTyped DEF RefreshTransi, IInv
      <4>2. QED
        BY <2>1, <2>2, <4>1 DEF PassSoFar
    <3>3. QED
      BY <3>1, <3>2
  <2>5. QED
    BY <2>2, <2>3, <2>4, FiresUnchanged DEF Settled
<1>4. CASE NextPass
  BY <1>4 DEF NextPass, PassSoFar
<1>5. CASE EndPage
  BY <1>5 DEF EndPage, StartPage, PassSoFar
<1>6. CASE Stop
  BY <1>6, PassUntouched DEF Stop, task
<1>7. CASE Waited
  BY <1>7, PassUntouched DEF Waited, task
<1>8. CASE CopyBack
  <2>1. Steps = {} => active' = active
    BY <1>8 DEF CopyBack, IInv, TypeOK
  <2>2. CASE Steps = {}
    BY <1>8, <2>1, <2>2, PassUntouched DEF CopyBack, task
  <2>3. CASE Steps # {}
    BY <1>8, <2>3 DEF CopyBack, PassSoFar
  <2>4. QED
    BY <2>2, <2>3
<1>9. CASE RunBack
  BY <1>9, PassUntouched DEF RunBack, task
<1>10. CASE PrepareStep
  <2>1. Steps # {}
    <3>1. StepOrder \in Seq(Steps) /\ next \in 1 .. Len(StepOrder)
      BY <1>10, ChartAssumption DEF PrepareStep, IInv, TypeOK
    <3>2. StepOrder[next] \in Steps
      BY <3>1
    <3>3. QED
      BY <3>2
  <2>2. QED
    BY <1>10, <2>1 DEF PrepareStep, PassSoFar
<1>11. CASE Prepared
  <2>1. CASE next = 1
    <3>1. Steps = {}
      BY <1>11, <2>1, ChartAssumption DEF Prepared
    <3>2. QED
      BY <1>11, <3>1, PassUntouched DEF Prepared, task
  <2>2. CASE next # 1
    <3>1. next > 1
      BY <2>2, ChartAssumption DEF IInv, TypeOK
    <3>2. disturbed /\ (clean => scan # "page")
      BY <1>11, <3>1 DEF Prepared, IInv, PreparedSoFar
    <3>3. scan' = scan /\ disturbed' = ~clean
      BY <1>11 DEF Prepared, task
    <3>4. CASE clean
      BY <3>2, <3>3, <3>4 DEF PassSoFar
    <3>5. CASE ~clean
      BY <1>11, <3>2, <3>3, <3>5, PassUntouched DEF Prepared, task
    <3>6. QED
      BY <3>4, <3>5
  <2>3. QED
    BY <2>1, <2>2
<1>12. CASE \E v \in Vars : WriteVar(v)
  <2>1. PICK v \in Vars : WriteVar(v)
    BY <1>12
  <2>2. SUFFICES ASSUME scan = "page", ~changed, disturbed => Steps = {},
                        NEW i \in 1 .. pos - 1, Fires(TransOf[Page][i])'
                 PROVE  Condition[TransOf[Page][i]] \in written'
    BY <2>1 DEF WriteVar, task, PassSoFar, Settled, Page
  <2>3. Settled(i)
    BY <2>2 DEF PassSoFar
  <2>4. written' = written \cup {v} /\ active' = active /\ published' = published
    BY <2>1, <2>2 DEF WriteVar
  <2>5. \A c : c # v => (c \in true' <=> c \in true)
    BY <2>1 DEF WriteVar
  <2>6. Page' = Page
    BY <2>1 DEF WriteVar, task, Page
  <2>7. CASE Condition[TransOf[Page][i]] = v
    BY <2>4, <2>7
  <2>8. CASE Condition[TransOf[Page][i]] # v
    BY <2>2, <2>3, <2>4, <2>5, <2>6, <2>8 DEF Fires, IsTrue, Settled
  <2>9. QED
    BY <2>7, <2>8
<1>13. CASE Flip
  BY <1>13, PassUntouched DEF Flip, task
<1>14. CASE ModifyCurrentSeqPage
  BY <1>14, PassUntouched DEF ModifyCurrentSeqPage, task
<1>15. CASE ApplySeqPageEdited
  BY <1>15, PassUntouched DEF ApplySeqPageEdited, task
<1>16. CASE DoReset
  <2>1. \A t : ~Fires(t)'
    BY <1>16 DEF DoReset, Fires, IsTrue
  <2>2. QED
    BY <2>1 DEF PassSoFar, Settled
<1>17. CASE UNCHANGED vars
  BY <1>17, PassUntouched DEF vars, task
<1>18. QED
  BY <1>1, <1>2, <1>3, <1>4, <1>5, <1>6, <1>7, <1>8, <1>9, <1>10, <1>11, <1>12,
     <1>13, <1>14, <1>15, <1>16, <1>17 DEF Next, LogicTask, OperatorStep

(* In every chart, however many passes a page takes and whatever the other *)
(* threads write meanwhile: when the last pass over a page changed nothing *)
(* no transition is left that could fire, except on a variable written     *)
(* during that pass.                                                       *)
THEOREM PassesSettle == Spec => []FixedPoint
<1>1. Init => PassSoFar
  BY DEF Init, PassSoFar
<1>2. IInv /\ IInv' /\ PassSoFar /\ [Next]_vars => PassSoFar'
  BY PassKept
<1>3. IInv /\ PassSoFar => FixedPoint
  <2> SUFFICES ASSUME IInv, PassSoFar, PassDone, ~changed, ~disturbed,
                      NEW i \in 1 .. Len(TransOf[Page])
               PROVE  Settled(i)
    BY DEF FixedPoint, Settled
  <2>1. Page \in Pages
    BY ChartAssumption DEF IInv, TypeOK, Page
  <2>2. Len(TransOf[Page]) \in Nat
    BY <2>1, ChartAssumption
  <2>3. i \in 1 .. pos - 1
    BY <2>2 DEF PassDone, IInv, TypeOK
  <2>4. QED
    BY <2>3 DEF PassSoFar, PassDone
<1>4. QED
  BY <1>1, <1>2, <1>3, Invariance, PTL DEF Spec
=============================================================================
