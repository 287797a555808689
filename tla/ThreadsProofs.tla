---------------------------- MODULE ThreadsProofs ----------------------------
(* What TLAPS proves of the threads that share the engine and the project:  *)
(* those that run and stop it (RunStop), then those that save and load it   *)
(* in its files (Storage).                                                  *)
EXTENDS RunStop, Storage, TLAPS

-----------------------------------------------------------------------------
(* The run and stop of the engine, for every set of threads.               *)
(* The calculation flag is up exactly while the logic task scans.          *)
CalcFlag == underCalc <=> pc[Logic] = "scan"

IInv == TypeOK /\ CalcFlag

LEMMA InitIInv == Init => IInv
  BY ThreadsAssumption, ZenonT(40)
     DEF Init, IInv, TypeOK, CalcFlag, LadderStates, Labels, Jobs, Orders, Threads

(* Every step of a subroutine that any thread may call keeps the types and *)
(* the meaning of the calculation flag.                                    *)
LEMMA CallKeepsIInv ==
  ASSUME IInv, NEW t \in Threads, CallStep(t)
  PROVE  IInv'
<1> USE DEF IInv, TypeOK, CalcFlag, LadderStates, Labels, Jobs, Orders, Threads,
            Goto, Finish, shared
<1>1. CASE FlipRunStopTest(t)
  <2>1. CASE connected /\ Flipped(t) /\ UNCHANGED << want, shared, onTarget >>
    <3>1. CASE Finish(t)
      BY <1>1, <2>1, <3>1 DEF FlipRunStopTest
    <3>2. CASE Goto(t, AfterFlip(t)) /\ UNCHANGED << job, stoppedIt >>
      BY <1>1, <2>1, <3>2 DEF FlipRunStopTest, AfterFlip
    <3> QED
      BY <2>1, <3>1, <3>2 DEF Flipped
  <2>2. CASE /\ Goto(t, "flipSet") /\ pc[t] = "flipRunStop"
             /\ want' = [want EXCEPT ![t] = IF state = "RUN" THEN "STOP" ELSE "RUN"]
             /\ UNCHANGED << job, stoppedIt, shared, onTarget >>
    BY <2>2
  <2> QED
    BY <1>1, <2>1, <2>2, Zenon DEF FlipRunStopTest
<1>2. CASE FlipOneCycleTest(t)
  <2>1. CASE Finish(t) /\ UNCHANGED << want, shared, onTarget >> /\ pc[t] = "flipOneCycle"
    BY <2>1
  <2>2. CASE /\ Goto(t, "flipSet") /\ pc[t] = "flipOneCycle"
             /\ want' = [want EXCEPT ![t] = IF Running THEN "FREEZE" ELSE "ONE_CYCLE"]
             /\ UNCHANGED << job, stoppedIt, shared, onTarget >>
    BY <2>2
  <2> QED
    BY <1>2, <2>1, <2>2, Zenon DEF FlipOneCycleTest
<1>3. CASE FlipSet(t)
  BY <1>3, ZenonT(40) DEF FlipSet, Flipped, AfterFlip
<1>4. CASE StopTest(t)
  BY <1>4 DEF StopTest, AfterStop
<1>5. CASE StopMark(t)
  BY <1>5 DEF StopMark
<1>6. CASE StopSet(t)
  BY <1>6 DEF StopSet
<1>7. CASE StopWait(t)
  BY <1>7 DEF StopWait, AfterStop
<1>8. CASE Service(t)
  BY <1>8 DEF Service
<1>9. CASE RunBackTest(t)
  BY <1>9 DEF RunBackTest
<1>10. CASE RunBackSet(t)
  BY <1>10 DEF RunBackSet
<1>11. CASE RunBackClear(t)
  BY <1>11 DEF RunBackClear
<1>12. CASE AfterRunBack(t)
  BY <1>12, ZenonT(40) DEF AfterRunBack
<1> QED
  BY <1>1, <1>2, <1>3, <1>4, <1>5, <1>6, <1>7, <1>8, <1>9, <1>10, <1>11, <1>12
     DEF CallStep

LEMMA OperatorKeepsIInv ==
  ASSUME IInv, NEW t \in Operators, OperatorStep(t)
  PROVE  IInv'
<1>0. t \in Threads
  BY DEF Threads
<1>1. CASE CallStep(t)
  BY <1>0, <1>1, CallKeepsIInv
<1> USE ThreadsAssumption
    DEF IInv, TypeOK, CalcFlag, LadderStates, Labels, Jobs, Orders, Threads,
        Goto, Finish, shared
<1>2. CASE GuiTest(t)
  BY <1>2 DEF GuiTest
<1>3. CASE InitVarsFirst(t)
  BY <1>3 DEF InitVarsFirst
<1>4. CASE Load(t)
  BY <1>4 DEF Load
<1>5. CASE Split(t)
  BY <1>5, ZenonT(40) DEF Split
<1>6. CASE Ready(t)
  BY <1>6, ZenonT(60) DEF Ready
<1>7. CASE AskInputs(t)
  BY <1>7 DEF AskInputs
<1>8. CASE AskOutputs(t)
  BY <1>8 DEF AskOutputs
<1>9. CASE Connected(t)
  BY <1>9 DEF Connected
<1> QED
  BY <1>1, <1>2, <1>3, <1>4, <1>5, <1>6, <1>7, <1>8, <1>9 DEF OperatorStep

LEMMA OrderKeepsIInv ==
  ASSUME IInv, NEW t \in Operators, NEW o \in Orders, Order(t, o)
  PROVE  IInv'
<1>1. FirstStep[o] \in Labels /\ FirstStep[o] # "scan"
  BY DEF FirstStep, Orders, Labels
<1>2. o \in Jobs
  BY DEF Jobs
<1> QED
  BY <1>1, <1>2, ThreadsAssumption
     DEF IInv, TypeOK, CalcFlag, Order, Goto, shared, Threads

LEMMA TasksKeepIInv ==
  ASSUME IInv, LogicStep \/ LogicMadLoop \/ InputsStep
  PROVE  IInv'
<1>0. Logic \in Threads /\ Inputs \in Threads
  BY DEF Threads
<1>1. CASE CallStep(Logic) \/ CallStep(Inputs)
  BY <1>0, <1>1, CallKeepsIInv
<1> USE <1>0, ThreadsAssumption
    DEF IInv, TypeOK, CalcFlag, LadderStates, Labels, Jobs, Goto, shared
<1>2. CASE InputsCycle
  BY <1>2 DEF InputsCycle
<1>3. CASE LogicTest
  BY <1>3 DEF LogicTest
<1>4. CASE LogicConfTest
  BY <1>4 DEF LogicConfTest
<1>5. CASE LogicEnter
  BY <1>5 DEF LogicEnter
<1>6. CASE LogicMadLoop
  BY <1>6 DEF LogicMadLoop
<1>7. CASE LogicEndScan
  BY <1>7 DEF LogicEndScan
<1>8. CASE LogicOneTest
  BY <1>8 DEF LogicOneTest
<1> QED
  BY <1>1, <1>2, <1>3, <1>4, <1>5, <1>6, <1>7, <1>8 DEF LogicStep, InputsStep

LEMMA NextIInv == IInv /\ [Next]_vars => IInv'
<1> SUFFICES ASSUME IInv, [Next]_vars PROVE IInv'
  OBVIOUS
<1>1. CASE LogicStep \/ LogicMadLoop \/ InputsStep
  BY <1>1, TasksKeepIInv
<1>2. CASE \E t \in Operators : OperatorStep(t)
  BY <1>2, OperatorKeepsIInv
<1>3. CASE \E t \in Operators, o \in Orders : Order(t, o)
  BY <1>3, OrderKeepsIInv
<1>4. CASE UNCHANGED vars
  BY <1>4 DEF vars, IInv, TypeOK, CalcFlag
<1> QED
  BY <1>1, <1>2, <1>3, <1>4 DEF Next

(* IInv holds in every state the engine can reach.                         *)
THEOREM Invariance == Spec => []IInv
  BY InitIInv, NextIInv, PTL DEF Spec

(* Every variable of the run/stop machinery keeps its type.                *)
THEOREM TypeCorrect == Spec => []TypeOK
<1>1. IInv => TypeOK
  BY DEF IInv
<1> QED
  BY <1>1, Invariance, PTL

(* The logic task never polls a calculation flag that only itself can      *)
(* lower, whatever the threads and their orders.                           *)
THEOREM LogicNeverWaitsForItself == Spec => []NoSelfWait
<1>1. IInv => NoSelfWait
  BY DEF IInv, CalcFlag, NoSelfWait
<1> QED
  BY <1>1, Invariance, PTL

-----------------------------------------------------------------------------
(* A single operator thread, the inputs and outputs being on the target:   *)
(* where each thread can be, and what the operator's thread may rely on    *)
(* between its StopRunIfRunning and its RunBackIfStopped.                  *)

LogicPlaces == {"idle", "confTest", "enter", "scan", "oneTest", "flipOneCycle", "flipSet"}

AfterStopTest == {"stopMark", "stopSet", "stopWait", "load", "split", "service", "ready",
                  "ask", "askOut", "runBack", "runBackSet", "runBackClear", "connected",
                  "confDone"}

TasksPlaces ==
    /\ pc[Inputs] = "idle"
    /\ pc[Logic] \in LogicPlaces
    /\ job[Logic] = "none"
    /\ pc[Logic] = "flipSet" => want[Logic] # "RUN"

StoppedPart(op) ==
    /\ pc[op] \in {"stopWait", "split", "service"} => state # "RUN"
    /\ stoppedIt[op] => pc[op] \in AfterStopTest
    /\ stoppedIt[op] /\ pc[op] \in {"stopSet", "stopWait", "load", "split", "service", "runBack"}
          => runBack

SInv(op) == TypeOK /\ (onTarget => TasksPlaces /\ StoppedPart(op))

LEMMA OperatorKeepsSInv ==
  ASSUME NEW op, Operators = {op}, SInv(op), onTarget, OperatorStep(op), onTarget'
  PROVE  (TasksPlaces /\ StoppedPart(op))'
<1>0. op \in Threads /\ op # Logic /\ op # Inputs /\ Logic \in Threads /\ Inputs \in Threads
  BY ThreadsAssumption DEF Threads
<1> USE <1>0
    DEF SInv, TypeOK, TasksPlaces, StoppedPart, AfterStopTest, LogicPlaces, Goto, Finish, shared
<1>1. CASE FlipRunStopTest(op)
  <2>1. CASE connected /\ Flipped(op) /\ UNCHANGED << want, shared, onTarget >>
    BY <1>1, <2>1, ZenonT(40) DEF FlipRunStopTest, Flipped, AfterFlip
  <2>2. CASE /\ Goto(op, "flipSet") /\ pc[op] = "flipRunStop"
             /\ want' = [want EXCEPT ![op] = IF state = "RUN" THEN "STOP" ELSE "RUN"]
             /\ UNCHANGED << job, stoppedIt, shared, onTarget >>
    BY <2>2
  <2> QED
    BY <1>1, <2>1, <2>2, Zenon DEF FlipRunStopTest
<1>2. CASE FlipOneCycleTest(op)
  <2>1. CASE Finish(op) /\ UNCHANGED << want, shared, onTarget >> /\ pc[op] = "flipOneCycle"
    BY <2>1
  <2>2. CASE /\ Goto(op, "flipSet") /\ pc[op] = "flipOneCycle"
             /\ want' = [want EXCEPT ![op] = IF Running THEN "FREEZE" ELSE "ONE_CYCLE"]
             /\ UNCHANGED << job, stoppedIt, shared, onTarget >>
    BY <2>2
  <2> QED
    BY <1>2, <2>1, <2>2, Zenon DEF FlipOneCycleTest
<1>3. CASE FlipSet(op)
  BY <1>3 DEF FlipSet, Flipped, AfterFlip
<1>4. CASE StopTest(op)
  BY <1>4 DEF StopTest, AfterStop
<1>5. CASE StopMark(op)
  BY <1>5 DEF StopMark
<1>6. CASE StopSet(op)
  BY <1>6 DEF StopSet
<1>7. CASE StopWait(op)
  BY <1>7 DEF StopWait, AfterStop
<1>8. CASE Service(op)
  BY <1>8 DEF Service
<1>9. CASE RunBackTest(op)
  BY <1>9 DEF RunBackTest
<1>10. CASE RunBackSet(op)
  BY <1>10 DEF RunBackSet
<1>11. CASE RunBackClear(op)
  BY <1>11 DEF RunBackClear
<1>12. CASE AfterRunBack(op)
  BY <1>12 DEF AfterRunBack
<1>13. CASE GuiTest(op)
  BY <1>13 DEF GuiTest
<1>14. CASE InitVarsFirst(op)
  BY <1>14 DEF InitVarsFirst
<1>15. CASE Load(op)
  BY <1>15 DEF Load
<1>16. CASE Split(op)
  BY <1>16 DEF Split
<1>17. CASE Ready(op)
  BY <1>17 DEF Ready
<1>18. CASE AskInputs(op)
  BY <1>18 DEF AskInputs
<1>19. CASE AskOutputs(op)
  BY <1>19 DEF AskOutputs
<1>20. CASE Connected(op)
  BY <1>20 DEF Connected
<1> QED
  BY <1>1, <1>2, <1>3, <1>4, <1>5, <1>6, <1>7, <1>8, <1>9, <1>10, <1>11, <1>12, <1>13,
     <1>14, <1>15, <1>16, <1>17, <1>18, <1>19, <1>20
     DEF OperatorStep, CallStep

LEMMA TasksKeepSInv ==
  ASSUME NEW op, Operators = {op}, SInv(op), onTarget, onTarget',
         LogicStep \/ LogicMadLoop \/ InputsStep
  PROVE  (TasksPlaces /\ StoppedPart(op))'
<1>0. op \in Threads /\ op # Logic /\ op # Inputs /\ Logic \in Threads /\ Inputs \in Threads
  BY ThreadsAssumption DEF Threads
<1> USE <1>0
    DEF SInv, TypeOK, TasksPlaces, StoppedPart, AfterStopTest, LogicPlaces, Goto, Finish, shared
<1>1. CASE CallStep(Inputs)
  BY <1>1 DEF CallStep, FlipRunStopTest, FlipOneCycleTest, FlipSet, Flipped, StopTest, StopMark,
              StopSet, StopWait, Service, RunBackTest, RunBackSet, RunBackClear, AfterRunBack
<1>2. CASE InputsCycle
  BY <1>2 DEF InputsCycle
<1>3. CASE LogicMadLoop
  BY <1>3 DEF LogicMadLoop
<1>4. CASE LogicTest
  <2>1. pc' = [pc EXCEPT ![Logic] = "confTest"] /\ UNCHANGED << shared, onTarget, job, want, stoppedIt >>
    BY <1>4, Zenon DEF LogicTest, Goto
  <2>2. pc'[op] = pc[op] /\ pc'[Inputs] = pc[Inputs] /\ pc'[Logic] = "confTest"
    BY <2>1, ThreadsAssumption
  <2> QED
    BY <2>1, <2>2
<1>5. CASE LogicConfTest
  BY <1>5 DEF LogicConfTest
<1>6. CASE LogicEnter
  BY <1>6 DEF LogicEnter
<1>7. CASE LogicEndScan
  BY <1>7 DEF LogicEndScan
<1>8. CASE LogicOneTest
  BY <1>8 DEF LogicOneTest
<1>9. CASE CallStep(Logic)
  <2>1. FlipOneCycleTest(Logic) \/ FlipSet(Logic)
    BY <1>9 DEF CallStep, FlipRunStopTest, StopTest, StopMark, StopSet, StopWait, Service,
                RunBackTest, RunBackSet, RunBackClear, AfterRunBack
  <2>2. CASE FlipOneCycleTest(Logic)
    <3>1. CASE Finish(Logic) /\ UNCHANGED << want, shared, onTarget >> /\ pc[Logic] = "flipOneCycle"
      BY <3>1
    <3>2. CASE /\ Goto(Logic, "flipSet") /\ pc[Logic] = "flipOneCycle"
               /\ want' = [want EXCEPT ![Logic] = IF Running THEN "FREEZE" ELSE "ONE_CYCLE"]
               /\ UNCHANGED << job, stoppedIt, shared, onTarget >>
      BY <3>2
    <3> QED
      BY <2>2, <3>1, <3>2, Zenon DEF FlipOneCycleTest
  <2>3. CASE FlipSet(Logic)
    BY <2>3 DEF FlipSet, Flipped, AfterFlip
  <2> QED
    BY <2>1, <2>2, <2>3
<1> QED
  BY <1>1, <1>2, <1>3, <1>4, <1>5, <1>6, <1>7, <1>8, <1>9 DEF LogicStep, InputsStep

LEMMA OrderKeepsSInv ==
  ASSUME NEW op, Operators = {op}, SInv(op), onTarget, NEW o \in Orders, Order(op, o)
  PROVE  (TasksPlaces /\ StoppedPart(op))'
<1>0. op \in Threads /\ op # Logic /\ op # Inputs /\ Logic \in Threads /\ Inputs \in Threads
  BY ThreadsAssumption DEF Threads
<1>1. FirstStep[o] \notin {"stopSet", "stopWait", "load", "split", "service", "runBack"}
  BY DEF FirstStep, Orders
<1>2. ~stoppedIt[op]
  BY DEF SInv, StoppedPart, AfterStopTest, Order
<1> QED
  BY <1>0, <1>1, <1>2
     DEF SInv, TypeOK, TasksPlaces, StoppedPart, LogicPlaces, Order, Goto, shared

(* No step changes where the real inputs and outputs are.                  *)
LEMMA SettingKept == ASSUME [Next]_vars PROVE onTarget' = onTarget
<1>1. ASSUME NEW t, CallStep(t) PROVE onTarget' = onTarget
  BY <1>1
     DEF CallStep, FlipRunStopTest, FlipOneCycleTest, FlipSet, Flipped, StopTest, StopMark, StopSet,
         StopWait, Service, RunBackTest, RunBackSet, RunBackClear, AfterRunBack
<1>2. ASSUME NEW t \in Operators, OperatorStep(t) PROVE onTarget' = onTarget
  BY <1>1, <1>2
     DEF OperatorStep, GuiTest, InitVarsFirst, Load, Split, Ready, AskInputs, AskOutputs,
         Connected
<1>3. ASSUME LogicStep \/ LogicMadLoop \/ InputsStep PROVE onTarget' = onTarget
  BY <1>1, <1>3
     DEF LogicStep, InputsStep, InputsCycle, LogicTest, LogicConfTest, LogicEnter,
         LogicMadLoop, LogicEndScan, LogicOneTest
<1>4. ASSUME NEW t \in Operators, NEW o \in Orders, Order(t, o) PROVE onTarget' = onTarget
  BY <1>4 DEF Order
<1> QED
  BY <1>2, <1>3, <1>4 DEF Next, vars

LEMMA NextSInv ==
  ASSUME NEW op, Operators = {op}
  PROVE  IInv /\ SInv(op) /\ [Next]_vars => SInv(op)'
<1> SUFFICES ASSUME IInv, SInv(op), [Next]_vars PROVE SInv(op)'
  OBVIOUS
<1>1. TypeOK'
  BY NextIInv DEF IInv
<1> SUFFICES ASSUME onTarget' PROVE (TasksPlaces /\ StoppedPart(op))'
  BY <1>1 DEF SInv
<1>2. onTarget
  BY SettingKept, Zenon
<1>3. CASE LogicStep \/ LogicMadLoop \/ InputsStep
  BY <1>2, <1>3, TasksKeepSInv
<1>4. CASE \E t \in Operators : OperatorStep(t)
  BY <1>2, <1>4, OperatorKeepsSInv
<1>5. CASE \E t \in Operators, o \in Orders : Order(t, o)
  BY <1>2, <1>5, OrderKeepsSInv
<1>6. CASE UNCHANGED vars
  BY <1>2, <1>6 DEF vars, SInv, TasksPlaces, StoppedPart
<1> QED
  BY <1>3, <1>4, <1>5, <1>6 DEF Next

LEMMA SingleOperator ==
  ASSUME NEW op, Operators = {op}
  PROVE  Spec => []SInv(op)
<1>1. Init => SInv(op)
  BY InitIInv, ThreadsAssumption
     DEF IInv, Init, SInv, TasksPlaces, StoppedPart, LogicPlaces, Threads
<1>2. IInv /\ SInv(op) /\ [Next]_vars => SInv(op)'
  BY NextSInv
<1> QED
  BY <1>1, <1>2, Invariance, PTL DEF Spec

(* A single operator thread, with the inputs and outputs on the target,    *)
(* never works on the project's datas while the state is RUN.              *)
THEOREM EngineStopped ==
  ASSUME NEW op, Operators = {op}
  PROVE  Spec => []EngineStoppedInService
<1>1. SInv(op) => EngineStoppedInService
  BY DEF SInv, StoppedPart, EngineStoppedInService
<1> QED
  BY <1>1, SingleOperator, PTL

(* ... and finds, when it runs back, that its own stop is remembered.      *)
THEOREM StopRemembered ==
  ASSUME NEW op, Operators = {op}
  PROVE  Spec => []RunBackRemembered
<1>1. SInv(op) => RunBackRemembered
  BY DEF SInv, StoppedPart, RunBackRemembered
<1> QED
  BY <1>1, SingleOperator, PTL

-----------------------------------------------------------------------------
(* The saves and loads of the project: for every project, every set of     *)
(* files, and every order of edits, saves, loads, transfers, cuts and       *)
(* restarts, an operator who works as Careful says loses no work that an    *)
(* edit marked without being asked.                                         *)
Places == {"idle", "save", "open", "join"}
ThreadStates == [at : Places, next : Int, file : Names \cup {NoName}]

StorageTypeOK ==
    /\ asks \in BOOLEAN
    /\ name \in Names \cup {NoName} /\ startup \in Names
    /\ thread \in [Savers -> ThreadStates]

(* While a thread saves the other does not, and the one of the monitor has  *)
(* nothing to lower the flag for.                                           *)
OneSaves ==
    /\ thread["gtk"] = Idle \/ thread["monitor"] = Idle
    /\ thread["monitor"] # Idle => ~asks

StorageIInv == StorageTypeOK /\ OneSaves /\ QuitAsks

LEMMA StorageInitEstablishes == StorageInit => StorageIInv
<1>1. SUFFICES ASSUME StorageInit PROVE StorageIInv
  OBVIOUS
<1>2. StorageTypeOK
  <2>1. asks = FALSE /\ name = NoName /\ startup = First /\ thread = [t \in Savers |-> Idle]
    BY <1>1 DEF StorageInit
  <2>2. Idle \in ThreadStates
    BY DEF Idle, ThreadStates, Places
  <2>3. First \in Names
    BY StorageAssumption DEF Names
  <2>4. QED
    BY <2>1, <2>2, <2>3 DEF StorageTypeOK
<1>3. OneSaves /\ QuitAsks
  BY <1>1 DEF StorageInit, OneSaves, QuitAsks, Savers
<1>4. QED
  BY <1>2, <1>3 DEF StorageIInv

(* A load that fails leaves the project and the flag; one that succeeds     *)
(* makes the project in memory the one held.                                *)
LEMMA LoadKeeps ==
    ASSUME StorageIInv, NEW archive, Install(LoadProjectFiles(archive)), NoSave, UNCHANGED thread,
           name' \in Names \cup {NoName}, startup' \in Names
    PROVE  StorageIInv'
<1> DEFINE result == LoadProjectFiles(archive)
<1>1. CASE result.complete
  <2>1. held' = mem'
    BY <1>1 DEF Install
  <2>2. asks' \in BOOLEAN
    BY <1>1 DEF Install, LoadProjectFiles, StorageIInv, StorageTypeOK
  <2>3. QED
    BY <2>1, <2>2 DEF StorageIInv, StorageTypeOK, OneSaves, QuitAsks, NoSave, Savers
<1>2. CASE ~result.complete
  <2>1. mem' = mem /\ asks' = asks /\ held' = held /\ (silent => silent')
    BY <1>2 DEF Install, LoadProjectFiles
  <2>2. QED
    BY <2>1 DEF StorageIInv, StorageTypeOK, OneSaves, QuitAsks
<1>3. QED
  BY <1>1, <1>2

(* The steps of a save in one of the threads.                               *)
LEMMA SaveKeeps ==
    ASSUME Careful, StorageIInv, NEW t \in Savers, SaveSteps(t)
    PROVE  StorageIInv'
<1>1. CASE SaveFile(t)
  <2>1. PICK k \in Int, a \in {"save", "open"} :
            thread' = [thread EXCEPT ![t].next = k, ![t].at = a]
    <3>1. thread[t].next + 1 \in Int
      BY DEF StorageIInv, StorageTypeOK, ThreadStates
    <3>2. QED
      BY <1>1, <3>1 DEF SaveFile
  <2>2. /\ thread' \in [Savers -> ThreadStates]
        /\ thread'[t].at \in {"save", "open"}
        /\ \A u \in Savers \ {t} : thread'[u] = thread[u]
    BY <2>1 DEF StorageIInv, StorageTypeOK, ThreadStates, Places
  <2>3. thread'[t] # Idle /\ thread[t] # Idle
    <3>1. Idle.at = "idle" /\ thread[t].at = "save"
      BY <1>1 DEF SaveFile, Idle
    <3>2. QED
      BY <2>2, <3>1
  <2>4. asks' \in BOOLEAN /\ (asks' => asks) /\ UNCHANGED << mem, held, silent, name, startup >>
    BY <1>1 DEF SaveFile, files, StorageIInv, StorageTypeOK
  <2>5. QED
    BY <2>2, <2>3, <2>4 DEF StorageIInv, StorageTypeOK, OneSaves, QuitAsks, Savers
<1>2. CASE OpenArchive(t)
  <2>1. thread' = [thread EXCEPT ![t] = [@ EXCEPT !.at = "join"]]
    BY <1>2 DEF OpenArchive
  <2>2. /\ thread' \in [Savers -> ThreadStates]
        /\ thread'[t].at = "join"
        /\ \A u \in Savers \ {t} : thread'[u] = thread[u]
    BY <2>1 DEF StorageIInv, StorageTypeOK, ThreadStates, Places
  <2>3. thread'[t] # Idle /\ thread[t] # Idle
    BY <1>2, <2>2 DEF OpenArchive, Idle
  <2>4. UNCHANGED << mem, held, silent, asks, name, startup >>
    BY <1>2 DEF OpenArchive
  <2>5. QED
    BY <2>2, <2>3, <2>4 DEF StorageIInv, StorageTypeOK, OneSaves, QuitAsks, Savers
<1>3. CASE CloseArchive(t)
  <2>1. thread[t] # Idle /\ thread' = [thread EXCEPT ![t] = Idle]
    BY <1>3 DEF CloseArchive, Idle
  <2>2. thread' \in [Savers -> ThreadStates]
    BY <2>1 DEF StorageIInv, StorageTypeOK, ThreadStates, Places, Idle
  <2>3. /\ UNCHANGED << mem, asks, name, startup >> /\ held' = IF t = "gtk" THEN mem ELSE held
        /\ silent /\ t # "gtk" => silent'
    BY <1>3 DEF CloseArchive
  <2>4. QED
    BY <2>1, <2>2, <2>3 DEF StorageIInv, StorageTypeOK, OneSaves, QuitAsks, Savers
<1>4. QED
  BY <1>1, <1>2, <1>3 DEF SaveSteps

LEMMA BeginKeepsType ==
    ASSUME StorageIInv, NEW t \in Savers, NEW n \in Names, Begin(t, n)
    PROVE  /\ thread' \in [Savers -> ThreadStates]
           /\ thread'[t] # Idle
           /\ \A u \in Savers \ {t} : thread'[u] = thread[u]
BY DEF StorageIInv, StorageTypeOK, Begin, ThreadStates, Places, Idle

LEMMA StorageNextKeeps ==
    ASSUME Careful, StorageIInv, [StorageNext]_storageVars
    PROVE  StorageIInv'
<1> USE DEF files
<1>1. CASE Edit
  BY <1>1 DEF Edit, StorageIInv, StorageTypeOK, OneSaves, QuitAsks, OperatorFree, NoSave, Savers
<1>2. CASE NewProject
  BY <1>2 DEF NewProject, StorageIInv, StorageTypeOK, OneSaves, QuitAsks, OperatorFree, NoSave, Savers
<1>3. CASE GtkSave
  <2>1. PICK n \in Chosen \cup {name} : n # NoName /\ name' = n /\ Begin("gtk", n)
    BY <1>3 DEF GtkSave
  <2>2. n \in Names
    BY <2>1 DEF StorageIInv, StorageTypeOK, Names
  <2>3. /\ thread' \in [Savers -> ThreadStates]
        /\ thread'["gtk"] # Idle /\ thread'["monitor"] = thread["monitor"]
    BY <2>1, <2>2, BeginKeepsType DEF Savers
  <2>4. UNCHANGED << asks, startup >> /\ thread["monitor"] = Idle
    BY <1>3 DEF GtkSave, OperatorFree, NoSave, Savers
  <2>5. QED
    BY <2>1, <2>2, <2>3, <2>4 DEF StorageIInv, StorageTypeOK, OneSaves, QuitAsks
<1>4. CASE MonitorSave
  <2>1. /\ thread' \in [Savers -> ThreadStates]
        /\ thread'["gtk"] = thread["gtk"]
    BY <1>4, BeginKeepsType DEF MonitorSave, Savers, Names
  <2>2. UNCHANGED << mem, held, silent, asks, name, startup >> /\ ~asks /\ thread["gtk"] = Idle
    BY <1>4 DEF MonitorSave, NoSave, Savers
  <2>3. QED
    BY <2>1, <2>2 DEF StorageIInv, StorageTypeOK, OneSaves, QuitAsks
<1>5. CASE GtkLoad
  <2>1. PICK n \in Chosen : name' = n /\ Install(LoadProjectFiles(disk[n]))
    BY <1>5 DEF GtkLoad
  <2>2. NoSave /\ UNCHANGED << thread, startup >>
    BY <1>5 DEF GtkLoad, OperatorFree
  <2>3. QED
    BY <2>1, <2>2, LoadKeeps DEF Names, StorageIInv, StorageTypeOK
<1>6. ASSUME NEW t \in Savers, SaveSteps(t) PROVE StorageIInv'
  BY <1>6, SaveKeeps
<1>7. CASE BeginTransfer \/ ReceivePart \/ AbortTransfer
  <2>1. UNCHANGED << mem, name, asks, startup, thread, held, silent >>
    BY <1>7 DEF BeginTransfer, ReceivePart, AbortTransfer
  <2>2. QED
    BY <2>1 DEF StorageIInv, StorageTypeOK, OneSaves, QuitAsks
<1>8. CASE LoadFromTarget
  <2>1. NoSave /\ UNCHANGED << thread, startup >> /\ name' = NoName
    BY <1>8 DEF LoadFromTarget, WholeReceived
  <2>2. Install(LoadProjectFiles(disk[Received]))
    BY <1>8 DEF LoadFromTarget
  <2>3. QED
    BY <2>1, <2>2, LoadKeeps DEF StorageIInv, StorageTypeOK
<1>9. CASE LoadFromMaster
  <2>1. NoSave /\ UNCHANGED thread /\ name' = Received
    BY <1>9 DEF LoadFromMaster, WholeReceived
  <2>2. Install(LoadProjectFiles(disk[Received])) /\ startup' \in {Received, startup}
    BY <1>9 DEF LoadFromMaster
  <2>3. QED
    BY <2>1, <2>2, LoadKeeps DEF StorageIInv, StorageTypeOK, Names
<1>10. CASE Restart
  <2>1. asks' \in BOOLEAN /\ held' = mem' /\ name' = startup /\ startup' = startup
    BY <1>10 DEF Restart
  <2>2. thread' = [t \in Savers |-> Idle]
    BY <1>10 DEF Restart
  <2>3. QED
    BY <2>1, <2>2 DEF StorageIInv, StorageTypeOK, OneSaves, QuitAsks, Idle, ThreadStates, Places, Savers
<1>11. CASE UNCHANGED storageVars
  BY <1>11 DEF storageVars, StorageIInv, StorageTypeOK, OneSaves, QuitAsks
<1>12. CASE DeleteCurrentRung \/ GetSettings
  <2>1. ASSUME NEW p, Silently(p) PROVE silent' /\ UNCHANGED << asks, name, startup, thread >>
    BY <2>1 DEF Silently
  <2>2. silent' /\ UNCHANGED << asks, name, startup, thread >>
    <3>1. CASE DeleteCurrentRung
      BY <2>1, <3>1 DEF DeleteCurrentRung
    <3>2. CASE GetSettings
      BY <2>1, <3>2 DEF GetSettings
    <3>3. QED
      BY <1>12, <3>1, <3>2
  <2>3. QED
    BY <2>2 DEF StorageIInv, StorageTypeOK, OneSaves, QuitAsks
<1>13. QED
  BY <1>1, <1>2, <1>3, <1>4, <1>5, <1>6, <1>7, <1>8, <1>9, <1>10, <1>11, <1>12 DEF StorageNext

(* The type of what the threads share, one save at a time and the flag that *)
(* follows the work marked and not saved are inductive together.            *)
THEOREM StorageInvariance == Careful => (StorageSpec => []StorageIInv)
<1>1. SUFFICES ASSUME Careful PROVE StorageSpec => []StorageIInv
  OBVIOUS
<1>2. StorageIInv /\ [StorageNext]_storageVars => StorageIInv'
  BY <1>1, StorageNextKeeps
<1>3. QED
  BY StorageInitEstablishes, <1>2, PTL DEF StorageSpec

(* When the operator may quit without being asked, and no edit since then   *)
(* was one that marks nothing, the project in memory is the one that was    *)
(* last saved in a file he chose, or loaded (AskConfirmationToQuit),        *)
(* whatever the projects, the files and the order of edits, saves, loads,   *)
(* transfers and restarts.                                                  *)
THEOREM QuitIsAsked == Careful => (StorageSpec => []QuitAsks)
<1>1. SUFFICES ASSUME Careful PROVE StorageSpec => []QuitAsks
  OBVIOUS
<1>2. StorageIInv => QuitAsks
  BY DEF StorageIInv
<1>3. QED
  BY <1>1, <1>2, StorageInvariance, PTL
=============================================================================
