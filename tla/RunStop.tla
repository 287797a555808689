------------------------------ MODULE RunStop ------------------------------
(***************************************************************************)
(* The run/stop machinery of the engine: the shared LadderState, the flag  *)
(* UnderCalculationPleaseWait that the logic task raises around a scan,    *)
(* the flag LadderStoppedToRunBack shared by all the pairs                 *)
(* StopRunIfRunning / RunBackIfStopped, and the threads that read and      *)
(* write them without any lock: the logic task, the inputs task and the    *)
(* threads that execute an operator's orders (GTK main loop, monitor).     *)
(*                                                                         *)
(* One step is one read or one write of a shared variable; pc[t] is the    *)
(* place of thread t in the code, job[t] the order (or reconfiguration)    *)
(* it is executing.                                                        *)
(***************************************************************************)
CONSTANTS
    Logic,      \* the logic/outputs periodic task
    Inputs,     \* the inputs periodic task
    Operators   \* the threads that execute operator orders

ASSUME ThreadsAssumption ==
    Logic # Inputs /\ Logic \notin Operators /\ Inputs \notin Operators

VARIABLES
    state,        \* InfosGene->LadderState
    underCalc,    \* InfosGene->UnderCalculationPleaseWait
    runBack,      \* InfosGene->LadderStoppedToRunBack
    askInputs,    \* InfosGene->AskToConfHardInputs
    askOutputs,   \* InfosGene->AskToConfHardOutputs
    connected,    \* InfosGUI->TargetMonitor.RemoteConnected
    onTarget,     \* GeneralParamsMirror.RealInputsOutputsOnlyOnTarget
    pc,           \* the place of each thread
    job,          \* what each thread is executing
    want,         \* the state a flip-flop is about to write
    stoppedIt     \* history: this thread's StopRunIfRunning found RUN

vars == << state, underCalc, runBack, askInputs, askOutputs, connected, onTarget,
           pc, job, want, stoppedIt >>
shared == << state, underCalc, runBack, askInputs, askOutputs, connected >>

Threads == {Logic, Inputs} \union Operators

LadderStates == {"LOADING", "STOP", "RUN", "FREEZE", "ONE_CYCLE"}

Running == state \in {"RUN", "ONE_CYCLE"}

Orders == {"runStop", "oneCycle", "reset", "applyPage", "config", "new",
           "loadGui", "loadTransfer", "connect", "disconnect"}

\* The orders that become a request to the target while connected to one.
RemoteOrders == {"runStop", "oneCycle", "reset"}

\* The orders that the menus refuse while connected to a target.
LocalOrders == {"new", "loadGui"}

Jobs == Orders \union {"none", "confInputs", "confOutputs"}

Labels == {"idle", "guiTest", "flipRunStop", "flipOneCycle", "flipSet",
           "initVars", "stopTest", "stopMark", "stopSet", "stopWait", "load",
           "split", "service", "ready", "ask", "askOut", "runBack", "runBackSet",
           "runBackClear", "connected", "confTest", "confDone", "enter", "scan",
           "oneTest"}

(* The end of the start of the application: the project saved as running   *)
(* was loaded (its hardware is then to be configured) or there is none.    *)
Init ==
    /\ state \in {"STOP", "RUN"} /\ underCalc = FALSE /\ runBack = FALSE
    /\ onTarget \in BOOLEAN
    /\ askInputs \in {FALSE, ~onTarget} /\ askOutputs = askInputs
    /\ state = "RUN" => askInputs = ~onTarget
    /\ connected = FALSE
    /\ pc = [t \in Threads |-> "idle"]
    /\ job = [t \in Threads |-> "none"]
    /\ want = [t \in Threads |-> "STOP"]
    /\ stoppedIt = [t \in Threads |-> FALSE]

-----------------------------------------------------------------------------
(* Thread t goes to a place of its code. *)
Goto(t, place) == pc' = [pc EXCEPT ![t] = place]

(* Thread t has finished what it was asked to do. *)
Finish(t) ==
    /\ Goto(t, "idle")
    /\ job' = [job EXCEPT ![t] = "none"]
    /\ stoppedIt' = [stoppedIt EXCEPT ![t] = FALSE]

-----------------------------------------------------------------------------
(* The flip-flops. The present state is tested, then the new one written.  *)

AfterFlip(t) ==
    IF job[t] = "loadGui" THEN "stopTest"
    ELSE IF job[t] = "new" THEN "load" ELSE "idle"

(* The thread has flipped, or left it to the target: it goes on.           *)
Flipped(t) ==
    IF AfterFlip(t) = "idle"
      THEN Finish(t)
      ELSE Goto(t, AfterFlip(t)) /\ UNCHANGED << job, stoppedIt >>

(* While connected to a target the order goes to the target instead, also  *)
(* when another operator connected since it was given.                     *)
FlipRunStopTest(t) ==
    /\ pc[t] = "flipRunStop"
    /\ IF connected
         THEN Flipped(t) /\ UNCHANGED want
         ELSE /\ want' = [want EXCEPT ![t] = IF state = "RUN" THEN "STOP" ELSE "RUN"]
              /\ Goto(t, "flipSet")
              /\ UNCHANGED << job, stoppedIt >>
    /\ UNCHANGED << shared, onTarget >>

(* The logic task's own flip at the end of a single cycle goes to the      *)
(* target too.                                                             *)
FlipOneCycleTest(t) ==
    /\ pc[t] = "flipOneCycle"
    /\ \/ /\ connected
          /\ Finish(t)
          /\ UNCHANGED want
       \/ /\ ~connected
          /\ want' = [want EXCEPT ![t] = IF Running THEN "FREEZE" ELSE "ONE_CYCLE"]
          /\ Goto(t, "flipSet")
          /\ UNCHANGED << job, stoppedIt >>
    /\ UNCHANGED << shared, onTarget >>

FlipSet(t) ==
    /\ pc[t] = "flipSet"
    /\ state' = want[t]
    /\ want' = [want EXCEPT ![t] = "STOP"]
    /\ Flipped(t)
    /\ UNCHANGED << underCalc, runBack, askInputs, askOutputs, connected, onTarget >>

-----------------------------------------------------------------------------
(* StopRunIfRunning: stops only a RUN (never a single cycle), and polls    *)
(* the calculation flag only if it stopped something.                      *)

AfterStop(t) ==
    IF job[t] \in {"loadGui", "loadTransfer"} THEN "load"
    ELSE IF job[t] = "connect" THEN "connected" ELSE "service"

(* Mutant: an engine whose stop is already remembered is not stopped. *)
StopTestOnlyOnce(t) ==
    /\ pc[t] = "stopTest"
    /\ Goto(t, IF state = "RUN" /\ ~runBack THEN "stopMark" ELSE AfterStop(t))
    /\ stoppedIt' = [stoppedIt EXCEPT ![t] = (state = "RUN" /\ ~runBack)]
    /\ UNCHANGED << shared, onTarget, job, want >>

StopTest(t) ==
    /\ pc[t] = "stopTest"
    /\ Goto(t, IF state = "RUN" THEN "stopMark" ELSE AfterStop(t))
    /\ stoppedIt' = [stoppedIt EXCEPT ![t] = (state = "RUN")]
    /\ UNCHANGED << shared, onTarget, job, want >>

(* Mutant: the state is read again when the stop is remembered. *)
StopMarkRereads(t) ==
    /\ pc[t] = "stopMark"
    /\ runBack' = (state = "RUN")
    /\ Goto(t, "stopSet")
    /\ UNCHANGED << state, underCalc, askInputs, askOutputs, connected, onTarget,
                    job, want, stoppedIt >>

StopMark(t) ==
    /\ pc[t] = "stopMark"
    /\ runBack' = TRUE
    /\ Goto(t, "stopSet")
    /\ UNCHANGED << state, underCalc, askInputs, askOutputs, connected, onTarget,
                    job, want, stoppedIt >>

(* Mutant: the state is never set to STOP. *)
StopSetForgotten(t) ==
    /\ pc[t] = "stopSet"
    /\ Goto(t, "stopWait")
    /\ UNCHANGED << shared, onTarget, job, want, stoppedIt >>

StopSet(t) ==
    /\ pc[t] = "stopSet"
    /\ state' = "STOP"
    /\ Goto(t, "stopWait")
    /\ UNCHANGED << underCalc, runBack, askInputs, askOutputs, connected, onTarget,
                    job, want, stoppedIt >>

StopWait(t) ==
    /\ pc[t] = "stopWait"
    /\ ~underCalc
    /\ Goto(t, AfterStop(t))
    /\ UNCHANGED << shared, onTarget, job, want, stoppedIt >>

(* RunBackIfStopped: runs again whatever the shared flag says was stopped. *)

RunBackTest(t) ==
    /\ pc[t] = "runBack"
    /\ Goto(t, IF runBack THEN "runBackSet" ELSE "confDone")
    /\ UNCHANGED << shared, onTarget, job, want, stoppedIt >>

RunBackSet(t) ==
    /\ pc[t] = "runBackSet"
    /\ state' = "RUN"
    /\ Goto(t, "runBackClear")
    /\ UNCHANGED << underCalc, runBack, askInputs, askOutputs, connected, onTarget,
                    job, want, stoppedIt >>

RunBackClear(t) ==
    /\ pc[t] = "runBackClear"
    /\ runBack' = FALSE
    /\ Goto(t, "confDone")
    /\ UNCHANGED << state, underCalc, askInputs, askOutputs, connected, onTarget,
                    job, want, stoppedIt >>

(* What follows RunBackIfStopped: ConfigHardware's callers lower the flag  *)
(* that asked for it, the others have finished.                            *)
AfterRunBack(t) ==
    /\ pc[t] = "confDone"
    /\ askInputs' = (askInputs /\ job[t] # "confInputs")
    /\ askOutputs' = (askOutputs /\ job[t] # "confOutputs")
    /\ IF job[t] = "confOutputs"
         THEN /\ Goto(t, "enter")
              /\ job' = [job EXCEPT ![t] = "none"]
              /\ stoppedIt' = [stoppedIt EXCEPT ![t] = FALSE]
         ELSE Finish(t)
    /\ UNCHANGED << state, underCalc, runBack, connected, onTarget, want >>

-----------------------------------------------------------------------------
(* The orders of an operator. *)

FirstStep ==
    [o \in Orders |->
        CASE o = "runStop"                -> "flipRunStop"
          [] o = "oneCycle"               -> "flipOneCycle"
          [] o = "reset"                  -> "initVars"
          [] o \in {"new", "loadGui"}     -> "guiTest"
          [] o = "config"                 -> "ask"
          [] o = "connect"                -> "initVars"
          [] o = "disconnect"             -> "connected"
          [] OTHER                        -> "stopTest"]

Order(t, o) ==
    /\ t \in Operators /\ pc[t] = "idle"
    /\ connected => o \notin RemoteOrders \union LocalOrders \union {"connect"}
    /\ o = "disconnect" => connected
    /\ job' = [job EXCEPT ![t] = o]
    /\ Goto(t, FirstStep[o])
    /\ UNCHANGED << shared, onTarget, want, stoppedIt >>

(* LoadNewLadder and DoNewProject first flip a RUN to STOP, without        *)
(* waiting for the end of the scan.                                        *)
GuiTest(t) ==
    /\ pc[t] = "guiTest"
    /\ Goto(t, IF state = "RUN" THEN "flipRunStop"
               ELSE IF job[t] = "new" THEN "load" ELSE "stopTest")
    /\ UNCHANGED << shared, onTarget, job, want, stoppedIt >>

(* DoReset and the connection clear the variables before they stop.        *)
InitVarsFirst(t) ==
    /\ pc[t] = "initVars"
    /\ Goto(t, "stopTest")
    /\ UNCHANGED << shared, onTarget, job, want, stoppedIt >>

(* LOADING is written by LoadProjectFiles, and again when the datas are    *)
(* freed; a project whose files cannot be split is left as it was.         *)
Load(t) ==
    /\ pc[t] = "load"
    /\ state' = "LOADING"
    /\ Goto(t, IF job[t] = "new" THEN "service" ELSE "split")
    /\ UNCHANGED << underCalc, runBack, askInputs, askOutputs, connected, onTarget,
                    job, want, stoppedIt >>

Split(t) ==
    /\ pc[t] = "split"
    /\ \/ /\ state' = "LOADING"                    \* split: free and alloc
          /\ Goto(t, "service")
          /\ UNCHANGED << job, stoppedIt >>
       \/ /\ state' = "STOP"                       \* split failed
          /\ Finish(t)
    /\ UNCHANGED << underCalc, runBack, askInputs, askOutputs, connected, onTarget, want >>

(* The thread works on the project's datas: everything that StopRunIf-     *)
(* Running is called for.                                                  *)
Service(t) ==
    /\ pc[t] = "service"
    /\ Goto(t, IF job[t] \in {"new", "loadGui", "loadTransfer"} THEN "ready" ELSE "runBack")
    /\ UNCHANGED << shared, onTarget, job, want, stoppedIt >>

(* Mutant: the loaded project is left in a state of its own. *)
ReadyUnknownState(t) ==
    /\ pc[t] = "ready"
    /\ state' = "LOADED"
    /\ Finish(t)
    /\ UNCHANGED << underCalc, runBack, askInputs, askOutputs, connected, onTarget, want >>

Ready(t) ==
    /\ pc[t] = "ready"
    /\ state' = "STOP"
    /\ IF job[t] = "new"
         THEN Finish(t)
         ELSE Goto(t, "ask") /\ UNCHANGED << job, stoppedIt >>
    /\ UNCHANGED << underCalc, runBack, askInputs, askOutputs, connected, onTarget, want >>

(* HardwareActionsAfterProjectLoaded: ask both tasks to configure.         *)
AskInputs(t) ==
    /\ pc[t] = "ask"
    /\ askInputs' = (askInputs \/ ~onTarget)
    /\ Goto(t, "askOut")
    /\ UNCHANGED << state, underCalc, runBack, askOutputs, connected, onTarget,
                    job, want, stoppedIt >>

AskOutputs(t) ==
    /\ pc[t] = "askOut"
    /\ askOutputs' = (askOutputs \/ ~onTarget)
    /\ Finish(t)
    /\ UNCHANGED << state, underCalc, runBack, askInputs, connected, onTarget, want >>

(* A connection never runs back what it stopped.                           *)
Connected(t) ==
    /\ pc[t] = "connected"
    /\ connected' = (job[t] = "connect")
    /\ Finish(t)
    /\ UNCHANGED << state, underCalc, runBack, askInputs, askOutputs, onTarget, want >>

-----------------------------------------------------------------------------
(* The inputs task. *)

InputsCycle ==
    /\ pc[Inputs] = "idle" /\ Running /\ askInputs
    /\ \/ /\ onTarget
          /\ askInputs' = FALSE
          /\ UNCHANGED << pc, job >>
       \/ /\ ~onTarget
          /\ job' = [job EXCEPT ![Inputs] = "confInputs"]
          /\ Goto(Inputs, "stopTest")
          /\ UNCHANGED askInputs
    /\ UNCHANGED << state, underCalc, runBack, askOutputs, connected, onTarget,
                    want, stoppedIt >>

(* The logic task: the state is tested once, the flag is raised later.     *)

(* Mutant: the calculation flag is raised before the outputs are configured. *)
LogicTestRaisesFlag ==
    /\ pc[Logic] = "idle" /\ Running /\ ~askInputs
    /\ underCalc' = TRUE
    /\ Goto(Logic, "confTest")
    /\ UNCHANGED << state, runBack, askInputs, askOutputs, connected, onTarget,
                    job, want, stoppedIt >>

LogicTest ==
    /\ pc[Logic] = "idle" /\ Running /\ ~askInputs
    /\ Goto(Logic, "confTest")
    /\ UNCHANGED << shared, onTarget, job, want, stoppedIt >>

LogicConfTest ==
    /\ pc[Logic] = "confTest"
    /\ \/ /\ ~onTarget /\ askOutputs
          /\ job' = [job EXCEPT ![Logic] = "confOutputs"]
          /\ Goto(Logic, "stopTest")
          /\ UNCHANGED askOutputs
       \/ /\ onTarget \/ ~askOutputs
          /\ askOutputs' = (askOutputs /\ ~onTarget)
          /\ Goto(Logic, "enter")
          /\ UNCHANGED job
    /\ UNCHANGED << state, underCalc, runBack, askInputs, connected, onTarget,
                    want, stoppedIt >>

LogicEnter ==
    /\ pc[Logic] = "enter"
    /\ underCalc' = TRUE
    /\ Goto(Logic, "scan")
    /\ UNCHANGED << state, runBack, askInputs, askOutputs, connected, onTarget,
                    job, want, stoppedIt >>

(* RefreshASection stops the engine when jumps never end.                  *)
LogicMadLoop ==
    /\ pc[Logic] = "scan"
    /\ state' = "STOP"
    /\ UNCHANGED << underCalc, runBack, askInputs, askOutputs, connected, onTarget,
                    pc, job, want, stoppedIt >>

LogicEndScan ==
    /\ pc[Logic] = "scan"
    /\ underCalc' = FALSE
    /\ Goto(Logic, "oneTest")
    /\ UNCHANGED << state, runBack, askInputs, askOutputs, connected, onTarget,
                    job, want, stoppedIt >>

LogicOneTest ==
    /\ pc[Logic] = "oneTest"
    /\ Goto(Logic, IF state = "ONE_CYCLE" THEN "flipOneCycle" ELSE "idle")
    /\ UNCHANGED << shared, onTarget, job, want, stoppedIt >>

-----------------------------------------------------------------------------
(* The subroutines any thread may be in. *)
CallStep(t) ==
    \/ FlipRunStopTest(t) \/ FlipOneCycleTest(t) \/ FlipSet(t)
    \/ StopTest(t) \/ StopMark(t) \/ StopSet(t) \/ StopWait(t)
    \/ Service(t)
    \/ RunBackTest(t) \/ RunBackSet(t) \/ RunBackClear(t) \/ AfterRunBack(t)

OperatorStep(t) ==
    \/ CallStep(t)
    \/ GuiTest(t) \/ InitVarsFirst(t) \/ Load(t) \/ Split(t) \/ Ready(t)
    \/ AskInputs(t) \/ AskOutputs(t) \/ Connected(t)

InputsStep == InputsCycle \/ CallStep(Inputs)

LogicStep ==
    \/ LogicTest \/ LogicConfTest \/ LogicEnter \/ LogicEndScan \/ LogicOneTest
    \/ CallStep(Logic)

Next ==
    \/ LogicStep
    \/ LogicMadLoop
    \/ InputsStep
    \/ \E t \in Operators : OperatorStep(t)
    \/ \E t \in Operators, o \in Orders : Order(t, o)

(* The tasks and the threads of the operators are scheduled; nobody is     *)
(* obliged to give an order.                                               *)
Fairness ==
    /\ WF_vars(LogicStep)
    /\ WF_vars(InputsStep)
    /\ \A t \in Operators : WF_vars(OperatorStep(t))

Spec == Init /\ [][Next]_vars

FairSpec == Spec /\ Fairness
-----------------------------------------------------------------------------
(* Every variable stays in its domain.                                     *)
TypeOK ==
    /\ state \in LadderStates
    /\ underCalc \in BOOLEAN /\ runBack \in BOOLEAN
    /\ askInputs \in BOOLEAN /\ askOutputs \in BOOLEAN
    /\ connected \in BOOLEAN /\ onTarget \in BOOLEAN
    /\ pc \in [Threads -> Labels]
    /\ job \in [Threads -> Jobs]
    /\ want \in [Threads -> LadderStates]
    /\ stoppedIt \in [Threads -> BOOLEAN]

(* The logic task configures the outputs itself, and ConfigHardware polls  *)
(* the calculation flag that only the logic task lowers: it must never     *)
(* poll while it holds the flag up, or the engine waits for itself.        *)
NoSelfWait == pc[Logic] = "stopWait" => ~underCalc

(* With the inputs and outputs on the target (no ConfigHardware here) and  *)
(* a single operator thread, the state is never RUN while that thread      *)
(* works on the project's datas: only a scan that was admitted before, or  *)
(* a single cycle, can overlap its work.                                   *)
EngineStoppedInService ==
    onTarget => \A t \in Operators : pc[t] = "service" => state # "RUN"

(* Under the same conditions the shared flag LadderStoppedToRunBack still  *)
(* remembers, when RunBackIfStopped reads it, that this thread stopped a   *)
(* running engine: a reset gives the engine back running.                  *)
RunBackRemembered ==
    onTarget => \A t \in Operators :
                    stoppedIt[t] /\ pc[t] \in {"service", "runBack"} => runBack

(* StopRunIfRunning returns: the scan it waits for ends and, the state     *)
(* being STOP, at most one single cycle can still follow - which a         *)
(* connection to a target would keep from ever freezing.                   *)
StopReturns ==
    \A t \in Operators :
        (onTarget /\ pc[t] = "stopWait") ~> (pc[t] # "stopWait" \/ connected)

(* What edit_sequential.c and DoReset claim of StopRunIfRunning (passing   *)
(* in STOP and waiting not under calc): no scan runs while another thread  *)
(* that stopped the engine works on the project's datas.                   *)
ServiceExcludesScan ==
    \A t \in Threads \ {Logic} : stoppedIt[t] /\ pc[t] = "service" => ~underCalc
=============================================================================
