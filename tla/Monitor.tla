------------------------------ MODULE Monitor ------------------------------
(* The monitoring station (master) and the target (slave): the master's     *)
(* thread asks one question at a time and waits for its answer with a       *)
(* time-out, the slave's thread obeys and answers, the operator works in    *)
(* the GTK thread meanwhile.  The link is UDP or a serial line: a message   *)
(* may be lost in both directions, and an answer may come after the master  *)
(* gave up waiting for it.  monitor_threads.c, monitor_protocol.c.          *)
EXTENDS MonitorTransfer, FiniteSetsExt, SequencesExt

CONSTANTS
  Rungs,          \* rungs displayed, that are read in turn
  Patient,        \* the operator waits for the link to be quiet
  MaxTry,         \* 3: time-outs in a row the master accepts
  Plans,          \* bounds, for each case checked: orders and their kinds, transfers
                  \* and their menus, clicks to connect or to disconnect, restarts,
                  \* messages in flight
  MaxIdle         \* bound: disconnections queued in GTK

Idle == "none"
Asking == {"TargetInfos", "Properties", "GetNetwork", "GetSerial"}

\* MonitorMasterSchedulerRequestToAsk: the first order pending is asked
Priority == << "SetState", "Reset", "Clock", "TargetInfos", "Properties", "Reboot",
               "WriteVar", "SetVar", "GetNetwork", "WriteNetwork", "GetSerial",
               "WriteSerial", "CleanUp" >>

ASSUME MonitorAssumption ==
  /\ Rungs \in Nat
  /\ Patient \in BOOLEAN
  /\ {MaxTry, MaxIdle} \subseteq Nat
  /\ Plans \subseteq [orders : Nat, transfers : Nat, clicks : Nat, restarts : Nat, flight : Nat,
               kinds : SUBSET ToSet(Priority),
               menus : SUBSET [file : Files, send : BOOLEAN, connected : BOOLEAN]]

VARIABLES
  connected,      \* RemoteConnected
  previous,       \* PreviousRemoteConnected, PreviousRemoteFileTransfer
  asks,           \* the orders pending: AskTargetTo... # -1
  wanted,         \* the state and the forced value that are asked for
  latest,         \* LatestTargetState, known from the last reading
  poll,           \* SchedAskType and SchedAskNbr: the next thing to read
  tries,          \* NbrSendTry
  waiting,        \* the master's thread waits for an answer
  idle,           \* DoFlipFlopConnectDisconnectTargetInGtk queued in GTK
  questions,      \* in flight to the slave
  answers,        \* in flight to the master
  target,         \* the slave: its LadderState and what an order may change
  local,          \* the master: the variables it shows
  shown,          \* the master: what it knows of the target's settings
  obeyed,         \* the orders the slave executed since they were given
  left            \* what the plan leaves to do

vars == << transferVars, connected, previous, asks, wanted, latest, poll, tries, waiting,
           idle, questions, answers, target, local, shown, obeyed, left >>

masterVars == << connected, previous, asks, wanted, latest, poll, tries, waiting,
                 idle, local, shown >>
slaveVars == << target, obeyed >>

\* the slave: a variable, the value it is forced to, its settings, its log
FirstTarget ==
  [state |-> "RUN", variable |-> 0, forced |-> 0, rebooting |-> FALSE,
   clock |-> FALSE, network |-> FALSE, serial |-> FALSE, log |-> TRUE]

Init ==
  /\ InitTransfer
  /\ connected = FALSE /\ previous = << FALSE, FALSE >>
  /\ asks = {} /\ wanted = [state |-> "STOP", set |-> 0] /\ latest = Idle
  /\ poll = 0 /\ tries = 0 /\ waiting = FALSE /\ idle = 0
  /\ questions = << >> /\ answers = << >>
  /\ target = FirstTarget /\ local = 0 /\ obeyed = {}
  /\ shown = [k \in Asking |-> FALSE]
  /\ left \in Plans

\* nothing of this kind of request is under way
Quiet(kind) == \A m \in ToSet(questions \o answers) : m.req # kind

-----------------------------------------------------------------------------
(* The master's thread: MonitorMasterLoopThread.                            *)

Active == connected \/ transferring

\* a connection or a transfer just began or ended
Changed == \/ previous[1] # connected
           \/ previous[2] # transferring /\ ~connected

Pending == asks \cup (IF Changed /\ connected THEN {"Properties"} ELSE {})

\* the rotation of the readings: variables, rungs displayed or the page
Reading == CASE poll = 0 -> "RdVars"
             [] poll \in 1..Rungs -> "RdRung"
             [] OTHER -> "RdSeq"

NextPoll == IF Rungs = 0 THEN 2 - poll ELSE (poll + 1) % (Rungs + 1)

First(orders) ==
  Priority[Min({i \in 1..Len(Priority) : Priority[i] \in orders})]

Question ==
  CASE transferring -> TransferQuestion
    [] ~transferring /\ Pending # {} -> [req |-> First(Pending), wanted |-> wanted]
    [] OTHER -> [req |-> Reading]

MasterLoopTop ==
  /\ Active /\ ~waiting
  /\ previous' = IF Changed THEN << connected, transferring >> ELSE previous
  /\ tries' = IF Changed THEN 0 ELSE tries
  /\ asks' = Pending

\* with nothing to ask, the changes are looked at all the same
MasterRests ==
  /\ ~Active /\ ~waiting /\ Changed
  /\ previous' = << connected, transferring >>
  /\ tries' = 0
  /\ UNCHANGED << connected, asks, wanted, latest, poll, waiting, idle, local, shown,
                  transferVars, questions, answers, slaveVars, left >>

MasterAsks ==
  /\ MasterLoopTop
  /\ ~(transferring /\ master.abort)
  /\ Len(questions) < left.flight
  /\ questions' = Append(questions, Question)
  /\ waiting' = TRUE
  /\ poll' = IF transferring \/ Pending # {} THEN poll ELSE NextPoll
  /\ IF transferring THEN TransferAsked ELSE UNCHANGED transferVars
  /\ UNCHANGED << connected, wanted, latest, local, shown, idle, answers, slaveVars, left >>

MasterStopsTransfer ==
  /\ MasterLoopTop
  /\ TransferAborted
  /\ UNCHANGED << connected, wanted, latest, local, shown, poll, waiting, idle, questions,
                  answers, slaveVars, left >>

(* Mutant: an answer ends every order pending. *)
AnsweredAll(a) == asks

\* the master's half of each parser: an answer ends the order of its kind,
\* whichever of its questions it answers
Answered(a) == asks \cap {a.req}

\* MonitorParseGeneralResponseToSwitch for the master
MasterReads ==
  /\ waiting /\ answers # << >>
  /\ waiting' = FALSE
  /\ answers' = Tail(answers)
  /\ tries' = 0
  /\ LET a == Head(answers) IN
     /\ asks' = asks \ Answered(a)
     /\ IF a.req = "RdVars" THEN latest' = a.state /\ local' = a.value
                            ELSE UNCHANGED << latest, local >>
     /\ shown' = IF a.req \in Asking THEN [shown EXCEPT ![a.req] = a.shows] ELSE shown
     /\ IF a.req = "Transfer" THEN MasterTransfers(a) ELSE UNCHANGED transferVars
  /\ UNCHANGED << connected, previous, wanted, poll, idle, questions, slaveVars, left >>

\* EndMasterCnxOnError, from the master's thread
EndMasterCnxOnError ==
  /\ asks' = {}
  /\ idle' = idle + (IF connected THEN 1 ELSE 0)
  /\ transferring' = FALSE
  /\ UNCHANGED << master, slave, errors, acking, survey, expired, writable, used >>

MasterTimesOut ==
  /\ waiting /\ answers = << >> /\ idle < MaxIdle
  /\ waiting' = FALSE
  /\ tries' = IF tries > MaxTry THEN tries ELSE tries + 1
  /\ IF tries' > MaxTry THEN EndMasterCnxOnError ELSE UNCHANGED << asks, idle, transferVars >>
  /\ UNCHANGED << connected, previous, wanted, latest, local, shown, poll, questions, answers,
                  slaveVars, left >>

-----------------------------------------------------------------------------
(* What each order does to the target t: the slave's half of each parser.   *)

DoFlipFlopRunStop(s) == IF s = "RUN" THEN "STOP" ELSE "RUN"
DoFlipFlopRunOneCycleFreeze(s) == IF s \in {"RUN", "ONE"} THEN "FREEZE" ELSE "ONE"

SetRunStopState(t, w) ==
  [t EXCEPT !.state =
     CASE w \in {"RUN", "STOP"} /\ w # @ -> DoFlipFlopRunStop(@)
       [] w = "ONE" \/ (w = "FREEZE" /\ w # @) -> DoFlipFlopRunOneCycleFreeze(@)
       [] OTHER -> @]

ResetTarget(t) == [t EXCEPT !.variable = 0]
SetClockTime(t) == [t EXCEPT !.clock = TRUE]
RebootTarget(t) == [t EXCEPT !.rebooting = TRUE]
WriteVarValue(t) == [t EXCEPT !.variable = 1]
SetOrUnsetVar(t, v) == [t EXCEPT !.forced = v]  \* 2: to 0, 1: to 1, 0: free

\* ... and what the orders that only ask are answered
GetTargetInfosVersion(t) == TRUE
GetProjectProperties(t) == TRUE
GetNetworkConfig(t) == t.network
GetMonitorSerialConfig(t) == t.serial

WriteNetworkConfig(t) == [t EXCEPT !.network = TRUE]
WriteMonitorSerialConfig(t) == [t EXCEPT !.serial = TRUE]
CleanUp(t) == [t EXCEPT !.log = FALSE]

Executed(t, q) ==
  CASE q.req = "SetState"     -> SetRunStopState(t, q.wanted.state)
    [] q.req = "Reset"        -> ResetTarget(t)
    [] q.req = "Clock"        -> SetClockTime(t)
    [] q.req = "Reboot"       -> RebootTarget(t)
    [] q.req = "WriteVar"     -> WriteVarValue(t)
    [] q.req = "SetVar"       -> SetOrUnsetVar(t, q.wanted.set)
    [] q.req = "WriteNetwork" -> WriteNetworkConfig(t)
    [] q.req = "WriteSerial"  -> WriteMonitorSerialConfig(t)
    [] q.req = "CleanUp"      -> CleanUp(t)
    [] OTHER                  -> t

Given(t, kind) ==
  CASE kind = "TargetInfos" -> GetTargetInfosVersion(t)
    [] kind = "Properties"  -> GetProjectProperties(t)
    [] kind = "GetNetwork"  -> GetNetworkConfig(t)
    [] kind = "GetSerial"   -> GetMonitorSerialConfig(t)

\* what is saved: the file system goes read-write, then read-only
Saves(q) == \/ q.req \in {"WriteNetwork", "WriteSerial"}
            \/ /\ q.req = "SetState"
               /\ q.wanted.state \in {"RUN", "STOP"} \ {target.state}

\* ReadVar: a forced variable shows the value it is forced to
ReadVars == [req |-> "RdVars", state |-> target.state,
             value |-> IF target.forced = 0 THEN target.variable ELSE target.forced % 2]

Answer(q) == CASE q.req = "Transfer" -> TransferAnswer(q)
               [] q.req = "RdVars" -> ReadVars
               [] q.req \in Asking -> [req |-> q.req, shows |-> Given(target, q.req)]
               [] OTHER -> [req |-> q.req]

SlaveObeys(q) ==
  /\ obeyed' = obeyed \cup ({q.req} \cap ToSet(Priority))
  /\ target' = Executed(target, q)
  /\ writable' = (writable /\ ~Saves(q))
  /\ UNCHANGED << master, slave, transferring, errors, acking, survey, expired, used >>

\* LoadProjectFiles stops the engine once the project is received
SlaveServes(q) ==
  /\ SlaveTransfers(q)
  /\ target' = IF used' # used /\ used'.file = 0 THEN [target EXCEPT !.state = "STOP"]
                                                 ELSE target
  /\ UNCHANGED obeyed

\* MonitorSlaveLoopThread
SlaveAnswers ==
  /\ questions # << >> /\ Len(answers) < left.flight
  /\ LET q == Head(questions) IN
     /\ questions' = Tail(questions)
     /\ answers' = Append(answers, Answer(q))
     /\ IF q.req = "Transfer" THEN SlaveServes(q) ELSE SlaveObeys(q)
  /\ UNCHANGED << masterVars, left >>

-----------------------------------------------------------------------------
(* The link and the target.                                                 *)

LinkLoses ==
  /\ \/ questions # << >> /\ questions' = Tail(questions) /\ UNCHANGED answers
     \/ answers # << >> /\ answers' = Tail(answers) /\ UNCHANGED questions
  /\ UNCHANGED << transferVars, masterVars, slaveVars, left >>

\* the scan asked for is done
CycleEnds ==
  /\ target.state = "ONE" /\ target' = [target EXCEPT !.state = "FREEZE"]
  /\ UNCHANGED << transferVars, masterVars, questions, answers, obeyed, left >>

\* the run/stop button of the target saves the preferences
TargetSaves ==
  /\ writable /\ writable' = FALSE
  /\ target' = [target EXCEPT !.state = DoFlipFlopRunStop(@)]
  /\ UNCHANGED << master, slave, transferring, errors, acking, survey, expired, used,
                  masterVars, questions, answers, obeyed, left >>

\* the target starts again, ordered or not; what it had received is lost
TargetRestarts ==
  /\ \/ target.rebooting /\ UNCHANGED left
     \/ left.restarts > 0 /\ left' = [left EXCEPT !.restarts = @ - 1]
  /\ RestartTransfer
  /\ questions' = << >>
  /\ target' = [target EXCEPT !.state = IF @ = "RUN" THEN "RUN" ELSE "STOP",
                               !.variable = 0, !.rebooting = FALSE]
  /\ UNCHANGED << masterVars, answers, obeyed >>

LogicTask ==
  /\ SecurityTick \/ SecurityCloses
  /\ UNCHANGED << masterVars, questions, answers, slaveVars, left >>

-----------------------------------------------------------------------------
(* The operator, and the idle functions of GTK.                             *)

\* DoFlipFlopConnectDisconnectTargetInGtk: both ways the variables are cleared;
\* the dialog to connect refuses a link in use, the operator may refuse it too
Connect ==
  /\ ~connected
  /\ latest' = Idle
  /\ \/ ~transferring /\ connected' = TRUE /\ local' = 0
     \/ UNCHANGED << connected, local >>

Disconnect ==
  /\ connected
  /\ connected' = FALSE /\ local' = 0
  /\ UNCHANGED latest

FlipFlop ==
  /\ Connect \/ Disconnect
  /\ UNCHANGED << previous, asks, wanted, poll, tries, waiting, shown, questions, answers,
                  slaveVars, transferVars >>

OperatorSwitches ==
  /\ left.clicks > 0 /\ left' = [left EXCEPT !.clicks = @ - 1]
  /\ FlipFlop
  /\ UNCHANGED idle

\* the same, called once the master's thread gave up
IdleFlipFlop ==
  /\ idle > 0 /\ idle' = idle - 1
  /\ FlipFlop
  /\ UNCHANGED left

\* DoFlipFlopRunStop and DoFlipFlopRunOneCycleFreeze when connected
StateClicked == { IF latest = "RUN" THEN "STOP" ELSE "RUN",
                  IF latest = "RUN" THEN "FREEZE" ELSE "ONE" }

Give(kind) ==
  /\ connected /\ left.orders > 0
  /\ Patient => kind \notin asks /\ Quiet(kind)
  /\ asks' = asks \cup {kind}
  /\ obeyed' = obeyed \ {kind}
  /\ CASE kind = "SetState" -> \E w \in StateClicked : wanted' = [wanted EXCEPT !.state = w]
       [] kind = "SetVar" -> \E v \in 0..2 : wanted' = [wanted EXCEPT !.set = v]
       [] OTHER -> UNCHANGED wanted
  /\ left' = [left EXCEPT !.orders = @ - 1]
  /\ UNCHANGED << transferVars, connected, previous, latest, local, shown, poll, tries, waiting,
                  idle, questions, answers, target >>

\* the menus of the transfers, some for a connected operator and some not
StartTransfer ==
  /\ left.transfers > 0
  /\ \E m \in left.menus :
       /\ m.connected = connected
       /\ ~connected => ~transferring
       /\ Patient => ~transferring /\ Quiet("Transfer") /\ survey = Asleep /\ ~expired
       /\ TransferMasterStart(m.file, m.send)
  /\ left' = [left EXCEPT !.transfers = @ - 1]
  /\ UNCHANGED << masterVars, questions, answers, slaveVars >>

OperatorAborts ==
  /\ TransferMasterAskToAbort
  /\ UNCHANGED << masterVars, questions, answers, slaveVars, left >>

-----------------------------------------------------------------------------
Master == MasterRests \/ MasterAsks \/ MasterStopsTransfer \/ MasterReads \/ MasterTimesOut
Target == SlaveAnswers \/ CycleEnds \/ TargetSaves \/ TargetRestarts \/ LogicTask
Operator == \/ OperatorSwitches \/ IdleFlipFlop \/ StartTransfer \/ OperatorAborts
            \/ \E kind \in left.kinds : Give(kind)

Next == Master \/ Target \/ Operator \/ LinkLoses

\* The threads run; the link and the operator do as they like
Fairness == /\ WF_vars(Master) /\ WF_vars(SlaveAnswers) /\ WF_vars(LogicTask)
            /\ WF_vars(IdleFlipFlop)

Spec == Init /\ [][Next]_vars
FairSpec == Spec /\ Fairness

-----------------------------------------------------------------------------
(* What the protocol promises to the operator and to the target.           *)

\* The file that one side loads or shows is the whole file the other side sent,
\* every block once and in order, whatever was lost, repeated or came too late
\* (TransferFileCompletedForSlave, TransferFileCompletedForMaster).
WholeFile == used # NoFile => used.content = Content(used.file)

\* The slave never reads a file it closed: neither the security of the logic
\* task nor the end of the file leaves a transfer that goes on reading
\* (DoNextRead, SecurityForAbortedTransferToSlave).
ReadsOpenFile ==
  questions # << >> =>
    LET q == Head(questions) IN
    q.req = "Transfer" /\ ~Opened(q).send /\ NextRead(q) => Opened(q).open

\* The answer that ends an order comes from a slave that executed it, also after
\* lost questions, restarts and answers of other kinds that come too late
\* (monitor_protocol.c, the master's half of each parser). The answer to an
\* earlier question of the same kind does end an order given meanwhile: Patient
\* leaves that case out.
OrderExecuted ==
  [][MasterReads => asks \ asks' \subseteq obeyed]_vars

\* The file system of the target goes back to read-only, also when the master
\* aborts or vanishes in the middle of a transfer, or the target saves its
\* preferences meanwhile (RemountFileSystemRW, RemountFileSystemRO).
BackToReadOnly == writable ~> ~writable

\* A transfer ends, completed or given up, on a link that may lose everything
\* (NbrSendTry and NbrErrorsMaster).
TransferEnds == transferring ~> ~transferring

\* An order to run or to stop leaves the target in the state that was asked.
StateAsWanted ==
  [][\A q \in ToSet(questions) :
       q.req = "SetState" /\ q.wanted.state \in {"RUN", "STOP"} /\ q = Head(questions) /\ SlaveAnswers
         => target'.state = q.wanted.state]_vars
=============================================================================
