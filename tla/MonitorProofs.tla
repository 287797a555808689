---------------------------- MODULE MonitorProofs ----------------------------
(* What TLAPS proves of the monitor protocol, for every set of files, every *)
(* plan of the operator and every number of messages in flight, when the    *)
(* operator waits for the link to be quiet: no order is dropped for an      *)
(* answer to an earlier one, a file that is loaded is whole, and the slave  *)
(* never reads a file it closed.                                            *)
EXTENDS Monitor, SequenceTheorems, WellFoundedInduction, TLAPS

-----------------------------------------------------------------------------
(* The invariant of the orders.                                            *)

Links ==
  /\ questions \in Seq(ToSet(questions))
  /\ answers \in Seq(ToSet(answers))

PlanType ==
  [orders : Nat, transfers : Nat, clicks : Nat, restarts : Nat, flight : Nat,
   kinds : SUBSET ToSet(Priority),
   menus : SUBSET [file : Files, send : BOOLEAN, connected : BOOLEAN]]

(* An answer in flight to an order is a sign that the slave obeyed.         *)
AnswersObeyed ==
  /\ asks \subseteq ToSet(Priority)
  /\ \A a \in ToSet(answers) : a.req \in ToSet(Priority) => a.req \in obeyed

OrdersInv == Links /\ left \in PlanType /\ AnswersObeyed

(* The operator only asks the slave for files that it has.                  *)
FilesThere == \A p \in Plans : \A m \in p.menus : ~m.send => m.file \notin Missing

MenusOfPlan == \E p \in Plans : left.menus = p.menus

-----------------------------------------------------------------------------
(* The invariant of the transfers.                                         *)

\* the first blocks of a file, and the block that follows b of them
Prefix(f, b) == [i \in 1..b |-> << f, i >>]
Block(f, b) == IF b < Blocks[f] THEN << f, b + 1 >> ELSE End

Pieces == Files \X (Nat \ {0})
TransferType ==
  [send : BOOLEAN, started : BOOLEAN, abort : BOOLEAN, block : Int,
   file : Files \cup {-1}, open : BOOLEAN, datas : Pieces \cup {End},
   content : Seq(Pieces)]

TransferTyped ==
  /\ master \in TransferType /\ slave \in TransferType
  /\ transferring \in BOOLEAN /\ survey \in Int /\ expired \in BOOLEAN

\* the messages of a transfer, each way
Told == {q \in ToSet(questions) : q.req = "Transfer"}
Heard == {a \in ToSet(answers) : a.req = "Transfer"}

(* Nothing was transferred yet: no message of a transfer is in flight.      *)
Untouched == ~master.send /\ ~master.started /\ master.block = -1

NothingSaid == Untouched => ~transferring /\ Told = {} /\ Heard = {}

(* What the master holds: the block it sends, or the blocks it received.    *)
MasterHolds ==
  LET f == master.file  b == master.block IN
  ~Untouched =>
    /\ f \in Files /\ (~master.send => f \notin Missing)
    /\ IF master.send
       THEN /\ b \in 0..Blocks[f] /\ master.datas = Block(f, b)
            /\ master.open => b < Blocks[f]
       ELSE \/ /\ b = -1 /\ master.content = Content(f) /\ ~transferring
            \/ /\ b \in 0..Blocks[f] /\ master.content = Prefix(f, b)
               /\ master.started => b > 0

\* a slave without a transfer, as after a restart
NoTransfer(t) == ~t.send /\ t.block = -1 /\ t.datas = End

(* What the slave holds: the blocks it received, or the block it sends.     *)
SlaveHolds(t) ==
  LET f == t.file  b == t.block IN
  IF t.send
  THEN /\ f \in Files
       /\ b # -1 => b \in 0..Blocks[f] /\ t.content = Prefix(f, b)
  ELSE \/ NoTransfer(t)
       \/ /\ f \in Files /\ b \in 0..Blocks[f] /\ t.datas = Block(f, b)
          /\ b < Blocks[f] => t.open

Starts(q) == q.action \in {"SendFile", "ReceiveFile"}

(* What the master says of its transfer.                                    *)
ToldRight ==
  \A q \in Told :
    /\ q.file = master.file
    /\ ~Starts(q) => master.started
    /\ IF master.send
       THEN /\ q.action \in {"SendFile", "none"}
            /\ q.block \in 0..Blocks[q.file] /\ q.datas = Block(q.file, q.block)
       ELSE /\ q.action \in {"ReceiveFile", "Ack", "Err"}
            /\ q.action = "Ack" => q.block \in 0..Blocks[q.file] - 1

(* What the slave says of it: a block of the file, or that it has none.     *)
HeardRight ==
  \A a \in Heard :
    ~master.send =>
      \/ a.block = -1 /\ a.datas = End
      \/ /\ a.block \in 0..Blocks[master.file]
         /\ a.datas = Block(master.file, a.block)

(* Once the slave answered, both sides speak of the same transfer, but for  *)
(* a slave that restarted.                                                  *)
Paired(t) == (t.send = master.send /\ t.file = master.file) \/ NoTransfer(t)

Matched == master.started \/ Heard # {} => Paired(slave)

(* The security only watches a file that the slave receives.                *)
Surveyed == survey # Asleep \/ expired => slave.send /\ master.send

TransferInv ==
  /\ TransferTyped /\ NothingSaid /\ MasterHolds /\ SlaveHolds(slave)
  /\ ToldRight /\ HeardRight /\ Matched /\ Surveyed /\ WholeFile

-----------------------------------------------------------------------------
(* Sequences and the sets of their elements.                               *)

LEMMA OwnElements ==
  ASSUME NEW S, NEW s \in Seq(S)
  PROVE  s \in Seq(ToSet(s)) /\ Len(s) \in Nat /\ ToSet(s) = {s[i] : i \in 1..Len(s)}
<1>1. Len(s) \in Nat /\ DOMAIN s = 1..Len(s) /\ s = [i \in 1..Len(s) |-> s[i]]
  OBVIOUS
<1>2. ToSet(s) = {s[i] : i \in 1..Len(s)}
  BY <1>1 DEF ToSet
<1>3. \A i \in 1..Len(s) : s[i] \in ToSet(s)
  BY <1>2
<1>4. s \in [1..Len(s) -> ToSet(s)]
  BY <1>1, <1>3
<1> QED
  BY <1>1, <1>2, <1>4, IsASeq

LEMMA Emptied == << >> \in Seq(ToSet(<< >>)) /\ ToSet(<< >>) = {}
BY DEF ToSet

LEMMA Appended ==
  ASSUME NEW s, s \in Seq(ToSet(s)), NEW e
  PROVE  /\ Append(s, e) \in Seq(ToSet(Append(s, e)))
         /\ ToSet(Append(s, e)) = ToSet(s) \cup {e}
<1> DEFINE S == ToSet(s) \cup {e}
           t == Append(s, e)
<1>1. s \in Seq(S) /\ e \in S
  BY OwnElements
<1>2. t \in Seq(S) /\ Len(t) = Len(s) + 1 /\ Len(s) \in Nat
      /\ t[Len(s) + 1] = e /\ \A i \in 1..Len(s) : t[i] = s[i]
  BY <1>1, AppendProperties
<1>3. ToSet(t) = {t[i] : i \in 1..Len(t)} /\ ToSet(s) = {s[i] : i \in 1..Len(s)}
  <2>1. t \in Seq(S) /\ s \in Seq(S)
    BY <1>1, <1>2
  <2> HIDE DEF S, t
  <2>2. ToSet(t) = {t[i] : i \in 1..Len(t)}
    BY <2>1, OwnElements, ZenonT(30)
  <2>3. ToSet(s) = {s[i] : i \in 1..Len(s)}
    BY <2>1, OwnElements, ZenonT(30)
  <2> QED
    BY <2>2, <2>3
<1>4. ToSet(t) = S
  <2>1. \A i \in 1..Len(t) : t[i] \in S
    BY <1>2, <1>3
  <2>2. \A x \in ToSet(s) : x \in ToSet(t)
    BY <1>2, <1>3
  <2>3. e \in ToSet(t)
    BY <1>2, <1>3
  <2> QED
    BY <1>3, <2>1, <2>2, <2>3
<1> QED
  BY <1>2, <1>4

LEMMA Shortened ==
  ASSUME NEW s, s \in Seq(ToSet(s)), s # << >>
  PROVE  /\ Head(s) \in ToSet(s)
         /\ Tail(s) \in Seq(ToSet(Tail(s)))
         /\ ToSet(Tail(s)) \subseteq ToSet(s)
<1> DEFINE S == ToSet(s)
<1>1. Head(s) \in S /\ Tail(s) \in Seq(S)
  BY HeadTailProperties
<1>2. Len(Tail(s)) = Len(s) - 1 /\ \A i \in 1..Len(Tail(s)) : Tail(s)[i] = s[i + 1]
  BY HeadTailProperties
<1>3. S = {s[i] : i \in 1..Len(s)} /\ Len(s) \in Nat
  BY OwnElements
<1>5. ToSet(Tail(s)) = {Tail(s)[i] : i \in 1..Len(Tail(s))} /\ Tail(s) \in Seq(ToSet(Tail(s)))
  <2>1. Tail(s) \in Seq(S)
    BY <1>1
  <2> HIDE DEF S
  <2> QED
    BY <2>1, OwnElements, ZenonT(30)
<1>4. \A i \in 1..Len(Tail(s)) : Tail(s)[i] \in S
  BY <1>2, <1>3
<1> QED
  BY <1>1, <1>3, <1>4, <1>5

LEMMA Joined ==
  ASSUME NEW s, s \in Seq(ToSet(s)), NEW t, t \in Seq(ToSet(t))
  PROVE  ToSet(s \o t) = ToSet(s) \cup ToSet(t)
<1> DEFINE S == ToSet(s) \cup ToSet(t)
           u == s \o t
<1>1. s \in Seq(S) /\ t \in Seq(S)
  BY OwnElements
<1>2. u \in Seq(S) /\ Len(u) = Len(s) + Len(t) /\ Len(s) \in Nat /\ Len(t) \in Nat
      /\ \A i \in 1..Len(s) + Len(t) : u[i] = IF i <= Len(s) THEN s[i] ELSE t[i - Len(s)]
  BY <1>1, ConcatProperties
<1>3. /\ ToSet(s) = {s[i] : i \in 1..Len(s)} /\ ToSet(t) = {t[i] : i \in 1..Len(t)}
      /\ ToSet(u) = {u[i] : i \in 1..Len(u)}
  <2>1. ToSet(s) = {s[i] : i \in 1..Len(s)} /\ ToSet(t) = {t[i] : i \in 1..Len(t)}
    BY OwnElements
  <2>2. ToSet(u) = {u[i] : i \in 1..Len(u)}
    <3>1. u \in Seq(S)
      BY <1>2
    <3> HIDE DEF u, S
    <3> QED
      BY <3>1, OwnElements, ZenonT(30)
  <2> QED
    BY <2>1, <2>2
<1>4. \A i \in 1..Len(u) : u[i] \in S
  <2> HIDE DEF u
  <2> SUFFICES ASSUME NEW i \in 1..Len(u) PROVE u[i] \in S
    OBVIOUS
  <2>1. CASE i <= Len(s)
    BY <1>2, <1>3, <2>1
  <2>2. CASE ~(i <= Len(s))
    <3>1. i - Len(s) \in 1..Len(t) /\ u[i] = t[i - Len(s)]
      BY <1>2, <2>2
    <3> QED
      BY <1>3, <3>1
  <2> QED
    BY <2>1, <2>2
<1>5. \A i \in 1..Len(s) : u[i] = s[i] /\ i \in 1..Len(u)
  BY <1>2
<1>6. \A i \in 1..Len(t) : u[Len(s) + i] = t[i] /\ Len(s) + i \in 1..Len(u)
  BY <1>2
<1>7. ToSet(s) \subseteq ToSet(u)
  BY <1>3, <1>5
<1>8. ToSet(t) \subseteq ToSet(u)
  BY <1>3, <1>6
<1>9. ToSet(u) \subseteq S
  BY <1>3, <1>4
<1> QED
  BY <1>7, <1>8, <1>9

-----------------------------------------------------------------------------
(* The messages of each kind.                                              *)

LEMMA QuestionKind ==
  /\ transferring => Question = TransferQuestion
  /\ ~transferring /\ Pending # {} => Question = [req |-> First(Pending), wanted |-> wanted]
  /\ ~transferring /\ Pending = {} => Question = [req |-> Reading]
BY Zenon DEF Question

LEMMA ReadingKind == Reading \in {"RdVars", "RdRung", "RdSeq"}
BY Zenon DEF Reading

LEMMA AnswerKind == ASSUME NEW q PROVE Answer(q).req = q.req
<1>1. CASE q.req = "Transfer"
  <2>0. q.req # "RdVars" /\ q.req \notin Asking
    BY <1>1 DEF Asking
  <2>1. Answer(q) = TransferAnswer(q)
    BY <1>1, <2>0, Zenon DEF Answer
  <2>2. TransferAnswer(q).req = "Transfer"
    BY DEF TransferAnswer, TakesAnswer, GivesAnswer
  <2> QED
    BY <1>1, <2>1, <2>2
<1>2. CASE q.req = "RdVars"
  <2>0. q.req # "Transfer" /\ q.req \notin Asking
    BY <1>2 DEF Asking
  <2>1. Answer(q) = ReadVars
    BY <1>2, <2>0, Zenon DEF Answer
  <2> QED
    BY <1>2, <2>1 DEF ReadVars
<1>3. CASE q.req \notin {"Transfer", "RdVars"} /\ q.req \in Asking
  <2>1. Answer(q) = [req |-> q.req, shows |-> Given(target, q.req)]
    BY <1>3, Zenon DEF Answer
  <2> QED
    BY <2>1
<1>4. CASE q.req \notin {"Transfer", "RdVars"} /\ q.req \notin Asking
  <2>1. Answer(q) = [req |-> q.req]
    BY <1>4, Zenon DEF Answer
  <2> QED
    BY <2>1
<1> QED
  BY <1>1, <1>2, <1>3, <1>4

LEMMA PriorityKinds ==
  /\ Priority \in Seq(ToSet(Priority))
  /\ ToSet(Priority) = {"SetState", "Reset", "Clock", "TargetInfos", "Properties", "Reboot",
                        "WriteVar", "SetVar", "GetNetwork", "WriteNetwork", "GetSerial",
                        "WriteSerial", "CleanUp"}
<1> DEFINE K == {"SetState", "Reset", "Clock", "TargetInfos", "Properties", "Reboot",
                 "WriteVar", "SetVar", "GetNetwork", "WriteNetwork", "GetSerial",
                 "WriteSerial", "CleanUp"}
<1>1. Priority \in Seq(K) /\ Len(Priority) = 13
  BY DEF Priority
<1>2. ToSet(Priority) = {Priority[i] : i \in 1..13} /\ Priority \in Seq(ToSet(Priority))
  <2>1. Priority \in Seq(K)
    BY <1>1
  <2> HIDE DEF K
  <2>2. Priority \in Seq(ToSet(Priority)) /\ ToSet(Priority) = {Priority[i] : i \in 1..Len(Priority)}
    BY <2>1, OwnElements
  <2> QED
    BY <1>1, <2>2
<1>4. /\ Priority[1] = "SetState" /\ Priority[2] = "Reset" /\ Priority[3] = "Clock"
      /\ Priority[4] = "TargetInfos" /\ Priority[5] = "Properties" /\ Priority[6] = "Reboot"
      /\ Priority[7] = "WriteVar" /\ Priority[8] = "SetVar" /\ Priority[9] = "GetNetwork"
      /\ Priority[10] = "WriteNetwork" /\ Priority[11] = "GetSerial"
      /\ Priority[12] = "WriteSerial" /\ Priority[13] = "CleanUp"
  BY DEF Priority
<1>3. \A i \in 1..13 : i = 1 \/ i = 2 \/ i = 3 \/ i = 4 \/ i = 5 \/ i = 6 \/ i = 7
      \/ i = 8 \/ i = 9 \/ i = 10 \/ i = 11 \/ i = 12 \/ i = 13
  OBVIOUS
<1>5. \A k \in K : k \in ToSet(Priority)
  <2> PICK T : T = ToSet(Priority)
    OBVIOUS
  <2>1. \A i \in 1..13 : Priority[i] \in T
    BY <1>2
  <2>2. /\ Priority[1] \in T /\ Priority[2] \in T /\ Priority[3] \in T /\ Priority[4] \in T
        /\ Priority[5] \in T /\ Priority[6] \in T /\ Priority[7] \in T /\ Priority[8] \in T
        /\ Priority[9] \in T /\ Priority[10] \in T /\ Priority[11] \in T
        /\ Priority[12] \in T /\ Priority[13] \in T
    BY <2>1
  <2>3. \A k \in K : k \in T
    BY <1>4, <2>2, ZenonT(30)
  <2> QED
    BY <2>3
<1>6. \A i \in 1..13 : Priority[i] \in K
  BY <1>3, <1>4
<1> QED
  <2>1. ToSet(Priority) \subseteq K
    BY <1>2, <1>6
  <2>2. K \subseteq ToSet(Priority)
    BY <1>5
  <2> QED
    BY <1>2, <2>1, <2>2, Zenon

-----------------------------------------------------------------------------
(* The orders.                                                             *)

\* a step that adds no message, gives no order and only forgets
LEMMA OrdersLessSaid ==
  ASSUME OrdersInv, Links', ToSet(answers') \subseteq ToSet(answers),
         asks' \subseteq ToSet(Priority), obeyed' = obeyed, left' \in PlanType
  PROVE  OrdersInv'
<1> USE DEF OrdersInv, AnswersObeyed
<1>1. \A a \in ToSet(answers') : a.req \in ToSet(Priority) => a.req \in obeyed'
  OBVIOUS
<1> QED
  BY <1>1

LEMMA OrdersInit == ASSUME Init PROVE OrdersInv
<1>1. left \in PlanType
  BY MonitorAssumption DEF Init, PlanType
<1>2. questions = << >> /\ answers = << >> /\ asks = {}
  BY DEF Init
<1> QED
  BY <1>1, <1>2, Emptied DEF OrdersInv, Links, AnswersObeyed

LEMMA OrdersStep ==
  ASSUME Patient, OrdersInv, [Next]_vars
  PROVE  OrdersInv'
<1> USE DEF OrdersInv
<1>0. Links /\ left \in PlanType /\ asks \subseteq ToSet(Priority)
  BY DEF AnswersObeyed
<1>P. Pending \subseteq ToSet(Priority)
  BY <1>0, PriorityKinds DEF Pending
<1>1. CASE MasterAsks
  <2>1. questions' = Append(questions, Question) /\ answers' = answers
    BY <1>1 DEF MasterAsks
  <2>2. Links'
    BY <1>0, <2>1, Appended DEF Links
  <2>3. asks' = Pending /\ obeyed' = obeyed /\ left' = left
    BY <1>1 DEF MasterAsks, MasterLoopTop, slaveVars
  <2> QED
    BY <1>0, <1>P, <2>1, <2>2, <2>3, OrdersLessSaid
<1>2. CASE MasterStopsTransfer
  <2>1. questions' = questions /\ answers' = answers /\ asks' = Pending
        /\ obeyed' = obeyed /\ left' = left
    BY <1>2 DEF MasterStopsTransfer, MasterLoopTop, slaveVars
  <2> QED
    BY <1>0, <1>P, <2>1, OrdersLessSaid DEF Links
<1>3. CASE MasterReads
  <2>1. answers # << >> /\ answers' = Tail(answers) /\ questions' = questions
        /\ asks' \subseteq asks /\ obeyed' = obeyed /\ left' = left
    BY <1>3 DEF MasterReads, slaveVars
  <2>2. Links' /\ ToSet(answers') \subseteq ToSet(answers)
    BY <1>0, <2>1, Shortened DEF Links
  <2> QED
    BY <1>0, <2>1, <2>2, OrdersLessSaid
<1>4. CASE MasterTimesOut
  <2>1. questions' = questions /\ answers' = answers /\ asks' \subseteq asks
        /\ obeyed' = obeyed /\ left' = left
    BY <1>4 DEF MasterTimesOut, EndMasterCnxOnError, slaveVars
  <2> QED
    BY <1>0, <2>1, OrdersLessSaid DEF Links
<1>5. CASE SlaveAnswers
  <2> DEFINE q == Head(questions)
             a == Answer(q)
  <2>1. questions # << >> /\ questions' = Tail(questions) /\ answers' = Append(answers, a)
        /\ asks' = asks /\ left' = left
    BY <1>5 DEF SlaveAnswers, masterVars
  <2>2. Links' /\ ToSet(answers') = ToSet(answers) \cup {a}
    BY <1>0, <2>1, Shortened, Appended DEF Links
  <2>3. obeyed \subseteq obeyed' /\ (q.req \in ToSet(Priority) => q.req \in obeyed')
    <3>1. CASE q.req = "Transfer"
      <4>1. obeyed' = obeyed
        BY <1>5, <3>1 DEF SlaveAnswers, SlaveServes
      <4> QED
        BY <3>1, <4>1, PriorityKinds
    <3>2. CASE q.req # "Transfer"
      BY <1>5, <3>2 DEF SlaveAnswers, SlaveObeys
    <3> QED
      BY <3>1, <3>2
  <2>4. a.req = q.req
    BY AnswerKind
  <2>5. \A b \in ToSet(answers') : b.req \in ToSet(Priority) => b.req \in obeyed'
    <3> HIDE DEF a, q
    <3> QED
      BY <2>2, <2>3, <2>4 DEF AnswersObeyed
  <2> QED
    BY <1>0, <2>1, <2>2, <2>5 DEF AnswersObeyed
<1>6. CASE CycleEnds \/ TargetSaves \/ LogicTask \/ OperatorAborts
  <2>1. questions' = questions /\ answers' = answers /\ asks' = asks
        /\ obeyed' = obeyed /\ left' = left
    BY <1>6 DEF CycleEnds, TargetSaves, LogicTask, OperatorAborts, masterVars, slaveVars
  <2> QED
    BY <1>0, <2>1, OrdersLessSaid DEF Links
<1>7. CASE TargetRestarts
  <2>1. questions' = << >> /\ answers' = answers /\ asks' = asks /\ obeyed' = obeyed
    BY <1>7 DEF TargetRestarts, masterVars
  <2>2. left' \in PlanType
    BY <1>0, <1>7 DEF TargetRestarts, PlanType
  <2> QED
    BY <1>0, <2>1, <2>2, Emptied, OrdersLessSaid DEF Links
<1>8. CASE LinkLoses
  <2>1. asks' = asks /\ obeyed' = obeyed /\ left' = left
    BY <1>8 DEF LinkLoses, masterVars, slaveVars
  <2>2. Links' /\ ToSet(answers') \subseteq ToSet(answers)
    BY <1>0, <1>8, Shortened DEF LinkLoses, Links
  <2> QED
    BY <1>0, <2>1, <2>2, OrdersLessSaid
<1>9. CASE OperatorSwitches \/ IdleFlipFlop \/ StartTransfer
  <2>1. questions' = questions /\ answers' = answers /\ asks' = asks /\ obeyed' = obeyed
    BY <1>9 DEF OperatorSwitches, IdleFlipFlop, FlipFlop, StartTransfer, masterVars, slaveVars
  <2>2. left' \in PlanType
    BY <1>0, <1>9 DEF OperatorSwitches, IdleFlipFlop, StartTransfer, PlanType
  <2> QED
    BY <1>0, <2>1, <2>2, OrdersLessSaid DEF Links
<1>10. ASSUME NEW kind \in left.kinds, Give(kind) PROVE OrdersInv'
  <2>1. kind \in ToSet(Priority)
    BY <1>0 DEF PlanType
  <2>2. questions' = questions /\ answers' = answers /\ asks' = asks \cup {kind}
        /\ obeyed' = obeyed \ {kind}
    BY <1>10 DEF Give
  <2>3. left' \in PlanType
    BY <1>0, <1>10 DEF Give, PlanType
  <2>4. \A a \in ToSet(answers) : a.req # kind
    BY <1>0, <1>10, Joined DEF Give, Quiet, Links
  <2> QED
    BY <1>0, <2>1, <2>2, <2>3, <2>4 DEF AnswersObeyed, Links
<1>11. CASE UNCHANGED vars
  BY <1>11, <1>0, OrdersLessSaid DEF vars, Links
<1>12. CASE MasterRests
  <2>1. questions' = questions /\ answers' = answers /\ asks' = asks
        /\ obeyed' = obeyed /\ left' = left
    BY <1>12 DEF MasterRests, slaveVars
  <2> QED
    BY <1>0, <2>1, OrdersLessSaid DEF Links
<1> QED
  BY <1>1, <1>2, <1>3, <1>4, <1>5, <1>6, <1>7, <1>8, <1>9, <1>10, <1>11, <1>12
  DEF Next, Master, Target, Operator

(* The orders: only an answer that a slave sent once it executed the order  *)
(* is ever in flight for it (MonitorParseGeneralResponseToSwitch).          *)
THEOREM OrdersInvariance == Patient => (Spec => []OrdersInv)
<1> SUFFICES ASSUME Patient PROVE Spec => []OrdersInv
  OBVIOUS
<1>1. Init => OrdersInv
  BY OrdersInit
<1>2. OrdersInv /\ [Next]_vars => OrdersInv'
  BY OrdersStep
<1> QED
  BY <1>1, <1>2, PTL DEF Spec

-----------------------------------------------------------------------------
(* The blocks of a file.                                                   *)

LEMMA BlocksOfFile ==
  ASSUME NEW f \in Files, NEW b \in 0..Blocks[f]
  PROVE  /\ Blocks[f] \in Nat
         /\ Prefix(f, b) \in Seq(Pieces) /\ Block(f, b) \in Pieces \cup {End}
         /\ Block(f, b) = End <=> b = Blocks[f]
         /\ Prefix(f, 0) = << >> /\ Prefix(f, Blocks[f]) = Content(f)
         /\ b < Blocks[f] => /\ Append(Prefix(f, b), Block(f, b)) = Prefix(f, b + 1)
                             /\ Content(f)[b + 1] = Block(f, b)
<1>1. Blocks[f] \in Nat
  BY TransferAssumption
<1>2. \A i \in Nat \ {0} : << f, i >> \in Pieces
  BY DEF Pieces
<1>3. Prefix(f, b) \in [1..b -> Pieces]
  BY <1>1, <1>2 DEF Prefix
<1>4. Prefix(f, b) \in Seq(Pieces)
  BY <1>1, <1>3
<1>5. Block(f, b) \in Pieces \cup {End}
  BY <1>1, <1>2 DEF Block
<1>6. Block(f, b) = End <=> b = Blocks[f]
  <2>1. << f, b + 1 >> # << >>
    OBVIOUS
  <2> QED
    BY <1>1, <2>1 DEF Block, End
<1>7. Prefix(f, 0) = << >> /\ Prefix(f, Blocks[f]) = Content(f)
  BY DEF Prefix, Content
<1>8. ASSUME b < Blocks[f]
      PROVE  Append(Prefix(f, b), Block(f, b)) = Prefix(f, b + 1)
  <2> DEFINE s == Prefix(f, b)
             e == << f, b + 1 >>
             t == Append(s, e)
  <2>1. Block(f, b) = e
    BY <1>8 DEF Block
  <2>2. Len(s) = b /\ \A i \in 1..b : s[i] = << f, i >>
    BY <1>1 DEF Prefix
  <2>3. e \in Pieces
    BY <1>1, <1>2
  <2>4. Len(t) = b + 1 /\ t \in Seq(Pieces) /\ t[b + 1] = e /\ \A i \in 1..b : t[i] = s[i]
    <3> HIDE DEF s, e
    <3> QED
      BY <1>1, <1>4, <2>2, <2>3, AppendProperties DEF s
  <2>5. DOMAIN t = 1..(b + 1) /\ t = [i \in 1..(b + 1) |-> t[i]]
    BY <2>4
  <2>6. \A i \in 1..(b + 1) : t[i] = << f, i >>
    <3> SUFFICES ASSUME NEW i \in 1..(b + 1) PROVE t[i] = << f, i >>
      OBVIOUS
    <3>1. CASE i = b + 1
      BY <2>4, <3>1
    <3>2. CASE i # b + 1
      BY <1>1, <2>2, <2>4, <3>2
    <3> QED
      BY <3>1, <3>2
  <2>7. t = Prefix(f, b + 1)
    <3> HIDE DEF t
    <3> QED
      BY <2>5, <2>6 DEF Prefix
  <2> QED
    BY <2>1, <2>7
<1>9. ASSUME b < Blocks[f]
      PROVE  Content(f)[b + 1] = Block(f, b)
  BY <1>1, <1>9 DEF Content, Block
<1> QED
  BY <1>1, <1>4, <1>5, <1>6, <1>7, <1>8, <1>9

(* The next block read is the one after, and the file closes at its end.    *)
LEMMA NextBlockRead ==
  ASSUME NEW t \in TransferType, t.file \in Files, t.block \in -1..(Blocks[t.file] - 1)
  PROVE  LET r == DoNextRead(t) IN
         /\ r \in TransferType
         /\ r.send = t.send /\ r.started = t.started /\ r.file = t.file
         /\ r.block = t.block + 1 /\ r.block \in 0..Blocks[t.file]
         /\ r.datas = Block(t.file, r.block)
         /\ r.open = (t.open /\ r.block < Blocks[t.file])
<1>1. PICK f \in Files : f = t.file
  OBVIOUS
<1>2. PICK b \in 0..Blocks[f] : b = t.block + 1
  BY <1>1, TransferAssumption
<1>3. PICK d \in Pieces \cup {End} : d = Block(f, b)
  BY BlocksOfFile
<1>4. b < Blocks[f] => Content(f)[b + 1] = d
  BY <1>3, BlocksOfFile
<1>5. b \in Int /\ Blocks[f] \in Nat /\ (~(b < Blocks[f]) => d = End)
  BY <1>3, TransferAssumption DEF Block
<1>6. DoNextRead(t) = IF b < Blocks[f] THEN [t EXCEPT !.block = b, !.datas = d]
                      ELSE [t EXCEPT !.block = b, !.datas = d, !.open = FALSE]
  <2>1. DoNextRead(t) = IF b < Blocks[f]
                        THEN [t EXCEPT !.block = b, !.datas = Content(f)[b + 1]]
                        ELSE [t EXCEPT !.block = b, !.datas = End, !.open = FALSE]
    BY <1>1, <1>2 DEF DoNextRead
  <2> QED
    BY <2>1, <1>4, <1>5
<1>7. b \in Int /\ Blocks[f] \in Nat /\ t.open \in BOOLEAN
  BY <1>1, TransferAssumption DEF TransferType
<1> QED
  BY <1>1, <1>2, <1>3, <1>6, <1>7 DEF TransferType

(* A block that is the next one makes the file one block longer, and the    *)
(* empty one says that it was whole.                                        *)
LEMMA BlockTaken ==
  ASSUME NEW t \in TransferType, t.file \in Files, t.block \in 0..Blocks[t.file],
         t.content = Prefix(t.file, t.block), NEW datas, datas = Block(t.file, t.block)
  PROVE  LET r == AddDatasToFileToReceive(t, datas, TRUE) IN
         /\ r \in TransferType
         /\ r.send = t.send /\ r.started = t.started /\ r.file = t.file
         /\ datas = End => r.block = -1 /\ r.content = Content(t.file)
         /\ datas # End => /\ r.block = t.block + 1 /\ r.block \in 0..Blocks[t.file]
                           /\ r.content = Prefix(t.file, r.block)
<1>1. PICK f \in Files : f = t.file
  OBVIOUS
<1>2. PICK b \in 0..Blocks[f] : b = t.block
  BY <1>1
<1>3. /\ b \in Int /\ Blocks[f] \in Nat /\ t.content = Prefix(f, b) /\ datas = Block(f, b)
      /\ datas \in Pieces \cup {End} /\ t.content \in Seq(Pieces)
  BY <1>1, <1>2, BlocksOfFile
<1>4. CASE datas = End
  <2>n. PICK n \in Int : n = -1
    OBVIOUS
  <2>1. AddDatasToFileToReceive(t, datas, TRUE) = [t EXCEPT !.block = n]
    BY <1>4, <2>n DEF AddDatasToFileToReceive
  <2>2. b = Blocks[f]
    BY <1>3, <1>4, BlocksOfFile
  <2>3. t.content = Content(f)
    BY <1>3, <2>2, BlocksOfFile
  <2>4. PICK r \in TransferType : r = [t EXCEPT !.block = n]
    BY DEF TransferType
  <2>5. r.send = t.send /\ r.started = t.started /\ r.file = t.file /\ r.block = -1
        /\ r.content = t.content
    BY <2>n, <2>4 DEF TransferType
  <2> QED
    BY <1>1, <1>4, <2>1, <2>3, <2>4, <2>5
<1>5. CASE datas # End
  <2>1. b < Blocks[f]
    BY <1>3, <1>5, BlocksOfFile
  <2>2. PICK c \in Seq(Pieces) : c = Append(t.content, datas)
    BY <1>3, <1>5, AppendProperties
  <2>3. AddDatasToFileToReceive(t, datas, TRUE) = [t EXCEPT !.content = c, !.block = b + 1]
    BY <1>2, <1>5, <2>2 DEF AddDatasToFileToReceive, TransferType
  <2>4. c = Prefix(f, b + 1)
    BY <1>3, <2>1, <2>2, BlocksOfFile
  <2>n. PICK n \in Int : n = b + 1
    BY <1>3
  <2>5. PICK r \in TransferType : r = [t EXCEPT !.content = c, !.block = n]
    BY DEF TransferType
  <2>6. r.send = t.send /\ r.started = t.started /\ r.file = t.file /\ r.block = n
        /\ r.content = c
    BY <2>5 DEF TransferType
  <2>7. AddDatasToFileToReceive(t, datas, TRUE) = r
    BY <2>3, <2>n, <2>5
  <2>8. r.block = t.block + 1 /\ r.block \in 0..Blocks[t.file]
    BY <1>1, <1>2, <1>3, <2>1, <2>n, <2>6
  <2>9. r.content = Prefix(t.file, r.block)
    BY <1>1, <2>n, <2>4, <2>6
  <2> QED
    BY <1>5, <2>5, <2>6, <2>7, <2>8, <2>9
<1> QED
  BY <1>4, <1>5

-----------------------------------------------------------------------------
(* What a question opens at the slave.                                     *)

LEMMA OpenedKind ==
  ASSUME NEW q
  PROVE  /\ q.action = "SendFile" =>
              Opened(q) = StartToWriteFileToReceive(
                 [slave EXCEPT !.open = FALSE, !.started = FALSE, !.file = q.file,
                               !.send = TRUE])
         /\ q.action = "ReceiveFile" =>
              Opened(q) = StartToReadFileToSend(
                 [slave EXCEPT !.open = FALSE, !.started = FALSE, !.file = q.file,
                               !.send = FALSE], q.file \notin Missing)
         /\ ~Starts(q) => Opened(q) = slave
<1>1. "SendFile" # "ReceiveFile"
  OBVIOUS
<1>2. ASSUME q.action = "SendFile"
      PROVE  Opened(q) = StartToWriteFileToReceive(
                 [[slave EXCEPT !.open = FALSE, !.started = FALSE, !.file = q.file]
                   EXCEPT !.send = TRUE])
  BY <1>1, <1>2, Zenon DEF Opened
<1>3. ASSUME q.action = "ReceiveFile"
      PROVE  Opened(q) = StartToReadFileToSend(
                 [[slave EXCEPT !.open = FALSE, !.started = FALSE, !.file = q.file]
                   EXCEPT !.send = FALSE], q.file \notin Missing)
  BY <1>1, <1>3, Zenon DEF Opened
<1>4. ASSUME ~Starts(q)
      PROVE  Opened(q) = slave
  BY <1>4, Zenon DEF Opened, Starts
<1>5. [[slave EXCEPT !.open = FALSE, !.started = FALSE, !.file = q.file] EXCEPT !.send = TRUE]
      = [slave EXCEPT !.open = FALSE, !.started = FALSE, !.file = q.file, !.send = TRUE]
  OBVIOUS
<1>6. [[slave EXCEPT !.open = FALSE, !.started = FALSE, !.file = q.file] EXCEPT !.send = FALSE]
      = [slave EXCEPT !.open = FALSE, !.started = FALSE, !.file = q.file, !.send = FALSE]
  OBVIOUS
<1> QED
  BY <1>2, <1>3, <1>4, <1>5, <1>6

LEMMA OpenedRight ==
  ASSUME TransferInv, NEW q \in Told
  PROVE  LET t == Opened(q) IN
         /\ t \in TransferType /\ SlaveHolds(t) /\ Paired(t)
         /\ master.file \in Files /\ q.file = master.file
         /\ slave.send /\ master.send => t.send
<1> DEFINE t == Opened(q)
<1>1. /\ q.file = master.file /\ (~Starts(q) => master.started)
      /\ IF master.send THEN q.action \in {"SendFile", "none"}
                        ELSE q.action \in {"ReceiveFile", "Ack", "Err"}
  BY DEF TransferInv, ToldRight
<1>2. PICK f \in Files : f = master.file /\ f = q.file /\ (~master.send => f \notin Missing)
  BY <1>1 DEF TransferInv, NothingSaid, MasterHolds
<1>3. slave \in TransferType /\ master.send \in BOOLEAN
  BY DEF TransferInv, TransferTyped, TransferType
<1>4. CASE q.action = "SendFile"
  <2>n. PICK n \in Int : n = 0
    OBVIOUS
  <2>c. PICK c : c = << >>
    OBVIOUS
  <2>d. c \in Seq(Pieces)
    BY <2>c
  <2>1. t = [slave EXCEPT !.open = FALSE, !.started = FALSE, !.file = f, !.send = TRUE,
                          !.content = c, !.block = n]
    <3>1. t = StartToWriteFileToReceive(
                [slave EXCEPT !.open = FALSE, !.started = FALSE, !.file = f, !.send = TRUE])
      BY <1>2, <1>4, OpenedKind
    <3> HIDE DEF t
    <3> QED
      BY <1>3, <2>n, <2>c, <3>1 DEF StartToWriteFileToReceive, TransferType
  <2>2. /\ t \in TransferType /\ t.send = TRUE /\ t.file = f /\ t.block = 0 /\ t.content = << >>
    <3> HIDE DEF t
    <3> QED
      BY <1>3, <2>1, <2>n, <2>c, <2>d DEF TransferType
  <2>3. master.send
    BY <1>1, <1>4
  <2>4. 0 \in 0..Blocks[f] /\ Prefix(f, 0) = << >>
    BY BlocksOfFile, TransferAssumption
  <2> HIDE DEF t
  <2>5. SlaveHolds(t) /\ Paired(t)
    BY <1>2, <1>3, <2>2, <2>3, <2>4 DEF SlaveHolds, Paired
  <2> QED
    BY <1>2, <2>2, <2>5 DEF t
<1>5. CASE q.action = "ReceiveFile"
  <2>n. PICK n \in Int : n = -1
    OBVIOUS
  <2> DEFINE u == [slave EXCEPT !.open = TRUE, !.started = FALSE, !.file = f, !.send = FALSE,
                                !.block = n]
  <2>1. t = DoNextRead(u)
    <3>1. t = StartToReadFileToSend(
                [slave EXCEPT !.open = FALSE, !.started = FALSE, !.file = f, !.send = FALSE],
                TRUE)
      <4>1. ~master.send /\ q.file \notin Missing
        BY <1>1, <1>2, <1>5
      <4>2. (q.file \notin Missing) = TRUE
        BY <4>1
      <4> QED
        BY <1>2, <1>5, <4>2, OpenedKind
    <3>2. [[slave EXCEPT !.open = FALSE, !.started = FALSE, !.file = f, !.send = FALSE]
             EXCEPT !.open = TRUE, !.block = n] = u
      BY <1>3 DEF TransferType
    <3> HIDE DEF t, u
    <3> QED
      BY <2>n, <3>1, <3>2 DEF StartToReadFileToSend
  <2>2. /\ u \in TransferType /\ u.send = FALSE /\ u.file = f /\ u.block = -1 /\ u.open = TRUE
    BY <1>3, <2>n DEF TransferType
  <2>3. Blocks[f] \in Nat
    BY TransferAssumption
  <2> HIDE DEF t, u
  <2>4. /\ t \in TransferType /\ t.send = FALSE /\ t.file = f /\ t.block \in 0..Blocks[f]
        /\ t.datas = Block(f, t.block) /\ t.open = (t.block < Blocks[f])
    BY <2>1, <2>2, <2>3, NextBlockRead
  <2>5. master.send = FALSE
    BY <1>1, <1>3, <1>5
  <2>6. SlaveHolds(t) /\ Paired(t)
    BY <1>2, <2>4, <2>5 DEF SlaveHolds, Paired
  <2> QED
    BY <1>2, <2>4, <2>5, <2>6 DEF t
<1>6. CASE ~Starts(q)
  <2>1. t = slave
    BY <1>6, OpenedKind
  <2>2. Paired(slave)
    BY <1>1, <1>6 DEF TransferInv, Matched
  <2> QED
    BY <1>2, <1>3, <2>1, <2>2 DEF TransferInv
<1> QED
  BY <1>4, <1>5, <1>6 DEF Starts

(* The slave never reads a block of a file it closed.                       *)
LEMMA ReadsWhatIsOpen ==
  ASSUME TransferInv, NEW q \in Told, ~Opened(q).send, NextRead(q)
  PROVE  /\ Opened(q).open
         /\ Opened(q).file = q.file /\ q.file \in Files
         /\ Opened(q).block \in 0..(Blocks[q.file] - 1)
<1> PICK t \in TransferType : t = Opened(q) /\ SlaveHolds(t) /\ Paired(t)
  BY OpenedRight
<1>1. q.action = "Ack" /\ q.block = t.block
  BY DEF NextRead
<1>2. ~master.send /\ q.block \in 0..(Blocks[q.file] - 1)
  BY <1>1 DEF TransferInv, ToldRight
<1>3. ~NoTransfer(t)
  BY <1>1, <1>2 DEF NoTransfer
<1>4. t.file = q.file
  BY <1>3, OpenedRight DEF Paired
<1> QED
  BY <1>1, <1>2, <1>3, <1>4, TransferAssumption DEF SlaveHolds

-----------------------------------------------------------------------------
(* The transfers, step by step.                                            *)

LEMMA TransferQuestionKind ==
  /\ TransferQuestion.req = "Transfer" /\ TransferQuestion.file = master.file
  /\ TransferQuestion.action \in {"SendFile", "ReceiveFile", "Ack", "Err", "none"}
  /\ ~master.started /\ master.send => TransferQuestion.action = "SendFile"
  /\ ~master.started /\ ~master.send => TransferQuestion.action = "ReceiveFile"
  /\ master.started /\ master.send => TransferQuestion.action = "none"
  /\ master.started /\ ~master.send => TransferQuestion.action \in {"Ack", "Err"}
  /\ master.send => /\ TransferQuestion.block = master.block
                    /\ TransferQuestion.datas = master.datas
  /\ ~master.send /\ TransferQuestion.action = "Ack" =>
       TransferQuestion.block = master.block - 1
<1> DEFINE Made(x, b, d) == [req |-> "Transfer", action |-> x, file |-> master.file,
                             block |-> b, datas |-> d]
<1>0. "SendFile" # "Ack" /\ "ReceiveFile" # "Ack" /\ "none" # "Ack" /\ "Err" # "Ack"
  OBVIOUS
<1>1. ASSUME ~master.started, master.send
      PROVE  TransferQuestion = Made("SendFile", master.block, master.datas)
  BY <1>0, <1>1, Zenon DEF TransferQuestion
<1>2. ASSUME ~master.started, ~master.send
      PROVE  TransferQuestion = Made("ReceiveFile", -1, End)
  BY <1>0, <1>2, Zenon DEF TransferQuestion
<1>3. ASSUME master.started, master.send
      PROVE  TransferQuestion = Made("none", master.block, master.datas)
  BY <1>0, <1>3, Zenon DEF TransferQuestion
<1>4. ASSUME master.started, ~master.send, acking
      PROVE  TransferQuestion = Made("Ack", master.block - 1, End)
  BY <1>0, <1>4, Zenon DEF TransferQuestion
<1>5. ASSUME master.started, ~master.send, ~acking
      PROVE  TransferQuestion = Made("Err", -1, End)
  BY <1>0, <1>5, Zenon DEF TransferQuestion
<1>6. CASE ~master.started /\ master.send
  BY <1>1, <1>6
<1>7. CASE ~master.started /\ ~master.send
  BY <1>2, <1>7
<1>8. CASE master.started /\ master.send
  BY <1>3, <1>8
<1>9. CASE master.started /\ ~master.send /\ acking
  BY <1>4, <1>9
<1>10. CASE master.started /\ ~master.send /\ ~acking
  BY <1>5, <1>10
<1> QED
  BY <1>6, <1>7, <1>8, <1>9, <1>10

LEMMA FirstIsOrder ==
  ASSUME NEW orders, orders # {}, orders \subseteq ToSet(Priority)
  PROVE  First(orders) \in ToSet(Priority)
<1> DEFINE S == {i \in 1..Len(Priority) : Priority[i] \in orders}
           R == {p \in Nat \X Nat : p[1] < p[2]}
<1>1. Len(Priority) \in Nat /\ ToSet(Priority) = {Priority[i] : i \in 1..Len(Priority)}
  BY PriorityKinds, OwnElements
<1>2. S # {} /\ S \subseteq 1..Len(Priority) /\ S \subseteq Nat
  BY <1>1
<1>3. IsWellFoundedOn(R, Nat)
  BY NatLessThanWellFounded, Zenon DEF OpToRel
<1>4. \E n \in S : \A m \in S : ~(<< m, n >> \in R)
  <2> HIDE DEF R, S
  <2> QED
    BY <1>2, <1>3, WFMin
<1>5. \E n \in S : \A m \in S : n <= m
  <2>1. PICK n \in S : \A m \in S : ~(<< m, n >> \in R)
    BY <1>4
  <2>2. ASSUME NEW m \in S PROVE n <= m
    <3>1. m \in Nat /\ n \in Nat
      BY <1>2
    <3>2. m < n => << m, n >> \in R
      BY <3>1
    <3>3. ~(m < n)
      BY <2>1, <3>2, Zenon
    <3> QED
      BY <3>1, <3>3
  <2> QED
    BY <2>2
<1>6. Min(S) \in S
  <2> HIDE DEF S
  <2> QED
    BY <1>5 DEF Min
<1> QED
  BY <1>1, <1>2, <1>6 DEF First

\* a step that adds no message of a transfer, and only may give one up
LEMMA TransferLessSaid ==
  ASSUME TransferInv, Told' \subseteq Told, Heard' \subseteq Heard,
         UNCHANGED << master, slave, survey, expired, used >>,
         transferring' \in {transferring, FALSE}
  PROVE  TransferInv'
<1> USE DEF TransferInv
<1>1. TransferTyped'
  BY DEF TransferTyped
<1>0. transferring' => transferring
  OBVIOUS
<1>2. NothingSaid' /\ MasterHolds'
  <2>1. NothingSaid'
    BY <1>0 DEF NothingSaid, Untouched
  <2>2. Untouched' = Untouched
    BY DEF Untouched
  <2>3. MasterHolds'
    BY <1>0, <2>2 DEF MasterHolds
  <2> QED
    BY <2>1, <2>3
<1>3. SlaveHolds(slave)'
  BY DEF SlaveHolds, NoTransfer
<1>4. ToldRight'
  BY DEF ToldRight
<1>5. HeardRight'
  BY DEF HeardRight
<1>6. Matched' /\ Surveyed'
  BY DEF Matched, Paired, NoTransfer, Surveyed
<1>7. WholeFile'
  BY DEF WholeFile
<1> QED
  BY <1>1, <1>2, <1>3, <1>4, <1>5, <1>6, <1>7

LEMMA TransferInit == ASSUME Init PROVE TransferInv
<1>1. master = IdleTransfer /\ slave = IdleTransfer /\ transferring = FALSE
      /\ survey = Asleep /\ expired = FALSE /\ used = NoFile
      /\ questions = << >> /\ answers = << >>
  BY DEF Init, InitTransfer
<1>2. Told = {} /\ Heard = {}
  BY <1>1, Emptied DEF Told, Heard
<1>3. IdleTransfer \in TransferType
  BY DEF IdleTransfer, TransferType
<1>4. NoTransfer(slave) /\ Untouched
  BY <1>1 DEF NoTransfer, Untouched, IdleTransfer
<1>5. TransferTyped
  <2>1. master \in TransferType /\ slave \in TransferType
    BY <1>1, <1>3
  <2>2. survey \in Int
    BY <1>1 DEF Asleep
  <2> QED
    BY <1>1, <2>1, <2>2, Zenon DEF TransferTyped
<1>6. NothingSaid /\ MasterHolds
  BY <1>1, <1>2, <1>4 DEF NothingSaid, MasterHolds
<1>7. SlaveHolds(slave) /\ Matched
  BY <1>4 DEF SlaveHolds, Matched, Paired, NoTransfer
<1>8. ToldRight /\ HeardRight /\ Surveyed /\ WholeFile
  BY <1>1, <1>2 DEF ToldRight, HeardRight, Surveyed, WholeFile
<1> QED
  BY <1>5, <1>6, <1>7, <1>8 DEF TransferInv

LEMMA AskingKeeps ==
  ASSUME OrdersInv, TransferInv, MasterAsks
  PROVE  TransferInv'
<1>1. /\ questions' = Append(questions, Question) /\ answers' = answers
      /\ UNCHANGED << master, slave, transferring, survey, expired, used >>
  BY DEF MasterAsks, TransferAsked, transferVars, slaveVars
<1>2. ToSet(questions') = ToSet(questions) \cup {Question}
  BY <1>1, Appended DEF OrdersInv, Links
<1>3. CASE ~transferring
  <2>1. Question.req # "Transfer"
    <3>1. CASE Pending # {}
      <4>1. First(Pending) \in ToSet(Priority)
        BY <3>1, PriorityKinds, FirstIsOrder DEF Pending, OrdersInv, AnswersObeyed
      <4>2. Question.req = First(Pending)
        BY <1>3, <3>1, QuestionKind
      <4> QED
        BY <4>1, <4>2, PriorityKinds
    <3>2. CASE Pending = {}
      BY <1>3, <3>2, QuestionKind, ReadingKind
    <3> QED
      BY <3>1, <3>2
  <2>2. Told' = Told /\ Heard' = Heard
    BY <1>1, <1>2, <2>1 DEF Told, Heard
  <2> QED
    BY <1>1, <2>2, TransferLessSaid
<1>4. CASE transferring
  <2> PICK q : q = TransferQuestion
    OBVIOUS
  <2>1. Question = q /\ q.req = "Transfer"
    BY <1>4, QuestionKind, TransferQuestionKind
  <2>2. Told' = Told \cup {q} /\ Heard' = Heard
    BY <1>1, <1>2, <2>1 DEF Told, Heard
  <2>3. ~Untouched /\ master.file \in Files /\ Blocks[master.file] \in Nat
    BY <1>4, TransferAssumption DEF TransferInv, NothingSaid, MasterHolds
  <2>4. /\ q.file = master.file
        /\ ~Starts(q) => master.started
        /\ IF master.send
           THEN /\ q.action \in {"SendFile", "none"}
                /\ q.block \in 0..Blocks[q.file] /\ q.datas = Block(q.file, q.block)
           ELSE /\ q.action \in {"ReceiveFile", "Ack", "Err"}
                /\ q.action = "Ack" => q.block \in 0..Blocks[q.file] - 1
    <3>1. q.file = master.file
      BY TransferQuestionKind
    <3>2. ~Starts(q) => master.started
      BY TransferQuestionKind DEF Starts
    <3>3. ASSUME master.send
          PROVE  /\ q.action \in {"SendFile", "none"}
                 /\ q.block \in 0..Blocks[q.file] /\ q.datas = Block(q.file, q.block)
      BY <2>3, <3>3, TransferQuestionKind DEF TransferInv, MasterHolds
    <3>4. ASSUME ~master.send
          PROVE  q.action \in {"ReceiveFile", "Ack", "Err"}
      BY <3>4, TransferQuestionKind
    <3>5. ASSUME ~master.send, q.action = "Ack"
          PROVE  q.block \in 0..Blocks[q.file] - 1
      <4>1. master.started /\ q.block = master.block - 1
        BY <3>5, TransferQuestionKind
      <4>2. master.block \in 1..Blocks[master.file]
        BY <1>4, <2>3, <3>5, <4>1 DEF TransferInv, MasterHolds
      <4> QED
        BY <2>3, <3>1, <4>1, <4>2
    <3> QED
      BY <3>1, <3>2, <3>3, <3>4, <3>5
  <2>5. ToldRight'
    BY <1>1, <2>2, <2>4 DEF TransferInv, ToldRight, Starts
  <2>6. NothingSaid' /\ MasterHolds'
    BY <1>1, <2>3 DEF TransferInv, NothingSaid, MasterHolds, Untouched
  <2>7. HeardRight' /\ Matched'
    BY <1>1, <2>2 DEF TransferInv, HeardRight, Matched, Paired, NoTransfer
  <2>8. TransferTyped' /\ SlaveHolds(slave)' /\ Surveyed' /\ WholeFile'
    BY <1>1 DEF TransferInv, TransferTyped, SlaveHolds, NoTransfer, Surveyed, WholeFile
  <2> QED
    BY <2>5, <2>6, <2>7, <2>8 DEF TransferInv
<1> QED
  BY <1>3, <1>4

LEMMA ReadingKeeps ==
  ASSUME OrdersInv, TransferInv, MasterReads
  PROVE  TransferInv'
<1> PICK a : a = Head(answers)
  OBVIOUS
<1>1. /\ questions' = questions /\ answers # << >> /\ answers' = Tail(answers)
      /\ IF a.req = "Transfer" THEN MasterTransfers(a) ELSE UNCHANGED transferVars
  BY DEF MasterReads, slaveVars
<1>2. a \in ToSet(answers) /\ ToSet(answers') \subseteq ToSet(answers)
  BY <1>1, Shortened DEF OrdersInv, Links
<1>3. Told' = Told /\ Heard' \subseteq Heard
  BY <1>1, <1>2 DEF Told, Heard
<1>4. CASE a.req # "Transfer"
  BY <1>1, <1>3, <1>4, TransferLessSaid DEF transferVars
<1>5. CASE a.req = "Transfer"
  <2>1. a \in Heard /\ MasterTransfers(a) /\ UNCHANGED << slave, survey, expired >>
    BY <1>1, <1>2, <1>5 DEF Heard, MasterTransfers
  <2>2. ~Untouched
    BY <2>1 DEF TransferInv, NothingSaid
  <2>f. PICK f \in Files : /\ f = master.file /\ Blocks[f] \in Nat
                           /\ ~master.send => f \notin Missing
    BY <2>2, TransferAssumption DEF TransferInv, MasterHolds
  <2>3. /\ master \in TransferType /\ transferring \in BOOLEAN
        /\ master.open \in BOOLEAN /\ master.send \in BOOLEAN /\ master.block \in Int
    BY DEF TransferInv, TransferTyped, TransferType
  <2>4. Paired(slave)
    BY <2>1 DEF TransferInv, Matched
  <2>5. CASE WrongAnswer(a)
    BY <1>3, <2>1, <2>3, <2>5, TransferLessSaid DEF WrongAnswer
  <2> DEFINE s == [master EXCEPT !.started = TRUE]
  <2>6. s \in TransferType /\ s.send = master.send /\ s.file = f /\ s.block = master.block
        /\ s.datas = master.datas /\ s.open = master.open /\ s.started = TRUE
        /\ s.content = master.content
    BY <2>f, <2>3 DEF TransferType
  <2>7. ASSUME master' \in TransferType, master'.send = master.send, master'.file = master.file,
               master'.started = TRUE, transferring' \in BOOLEAN
        PROVE  /\ TransferTyped' /\ NothingSaid' /\ SlaveHolds(slave)' /\ ToldRight'
               /\ HeardRight' /\ Matched' /\ Surveyed'
    <3>1. TransferTyped'
      BY <2>1, <2>7 DEF TransferInv, TransferTyped
    <3>2. NothingSaid'
      BY <2>7 DEF NothingSaid, Untouched
    <3>3. SlaveHolds(slave)' /\ Surveyed'
      BY <2>1, <2>7 DEF TransferInv, SlaveHolds, NoTransfer, Surveyed
    <3>4. ToldRight'
      BY <1>3, <2>7 DEF TransferInv, ToldRight, Starts
    <3>5. HeardRight'
      BY <1>3, <2>7 DEF TransferInv, HeardRight
    <3>6. Matched'
      BY <2>1, <2>4, <2>7 DEF Matched, Paired, NoTransfer
    <3> QED
      BY <3>1, <3>2, <3>3, <3>4, <3>5, <3>6
  <2>8. CASE GoOnSending(a)
    <3>1. master.send /\ used' = used /\ transferring' \in BOOLEAN
      BY <2>3, <2>8 DEF GoOnSending, SentOk
    <3>2. master.block \in 0..Blocks[f] /\ master.datas = Block(f, master.block)
          /\ (master.open => master.block < Blocks[f])
      BY <2>2, <2>f, <3>1 DEF TransferInv, MasterHolds
    <3>3. CASE master.open
      <4>1. master' = DoNextRead(s)
        BY <2>8, <3>3 DEF GoOnSending
      <4>2. s.file \in Files /\ s.block \in -1..(Blocks[s.file] - 1)
        BY <2>6, <2>f, <3>2, <3>3
      <4> HIDE DEF s
      <4>3. /\ master' \in TransferType /\ master'.send = master.send
            /\ master'.file = f /\ master'.started = TRUE
            /\ master'.block \in 0..Blocks[f] /\ master'.datas = Block(f, master'.block)
            /\ master'.open => master'.block < Blocks[f]
        BY <2>6, <4>1, <4>2, NextBlockRead
      <4>4. MasterHolds'
        BY <3>1, <4>3 DEF MasterHolds
      <4> QED
        BY <2>7, <2>f, <3>1, <4>3, <4>4 DEF TransferInv, WholeFile
    <3>4. CASE ~master.open
      <4>1. master' = s
        BY <2>8, <3>4 DEF GoOnSending
      <4> HIDE DEF s
      <4>2. MasterHolds'
        BY <2>f, <2>6, <3>1, <3>2, <4>1 DEF MasterHolds
      <4> QED
        BY <2>7, <2>f, <2>6, <3>1, <4>1, <4>2 DEF TransferInv, WholeFile
    <3> QED
      BY <3>3, <3>4
  <2>9. CASE GoOnReceiving(a)
    <3>1. /\ ~master.send /\ a.block = master.block
          /\ master' = AddDatasToFileToReceive(s, a.datas, TRUE)
          /\ transferring' = (transferring /\ a.datas # End)
          /\ used' = IF a.datas = End
                     THEN [by |-> "master", file |-> f, content |-> master.content] ELSE used
      BY <2>9, <2>f DEF GoOnReceiving, ReceivedOk
    <3>2. \/ a.block = -1 /\ a.datas = End
          \/ a.block \in 0..Blocks[f] /\ a.datas = Block(f, a.block)
      BY <2>1, <2>f, <3>1 DEF TransferInv, HeardRight
    <3>3. \/ master.block = -1 /\ master.content = Content(f)
          \/ master.block \in 0..Blocks[f] /\ master.content = Prefix(f, master.block)
      BY <2>2, <2>f, <3>1 DEF TransferInv, MasterHolds
    <3>4. CASE master.block = -1
      <4>1. a.datas = End /\ master.content = Content(f)
        BY <3>1, <3>2, <3>3, <3>4, <2>f
      <4>2. PICK n \in Int : n = -1
        OBVIOUS
      <4>3. master' = [s EXCEPT !.block = n]
        BY <3>1, <4>1, <4>2 DEF AddDatasToFileToReceive
      <4> HIDE DEF s
      <4>4. /\ master' \in TransferType /\ master'.send = master.send /\ master'.file = f
            /\ master'.started = TRUE /\ master'.block = -1 /\ master'.content = Content(f)
        BY <2>6, <4>1, <4>2, <4>3 DEF TransferType
      <4>5. transferring' = FALSE /\ used' = [by |-> "master", file |-> f, content |-> Content(f)]
        BY <3>1, <4>1
      <4>6. MasterHolds' /\ WholeFile'
        <5>1. MasterHolds'
          BY <2>f, <3>1, <4>4, <4>5 DEF MasterHolds
        <5>2. used'.content = Content(used'.file)
          BY <4>5
        <5> QED
          BY <5>1, <5>2 DEF WholeFile
      <4> QED
        BY <2>7, <2>f, <4>4, <4>5, <4>6 DEF TransferInv
    <3>5. CASE master.block # -1
      <4>1. /\ s.file = f /\ s.block \in 0..Blocks[f] /\ s.content = Prefix(f, s.block)
            /\ a.datas = Block(f, s.block)
        BY <2>6, <3>1, <3>2, <3>3, <3>5
      <4> HIDE DEF s
      <4>2. /\ master' \in TransferType /\ master'.send = master.send /\ master'.file = f
            /\ master'.started = TRUE
            /\ a.datas = End => master'.block = -1 /\ master'.content = Content(f)
            /\ a.datas # End => /\ master'.block = s.block + 1 /\ master'.block \in 0..Blocks[f]
                                /\ master'.content = Prefix(f, master'.block)
        <5> PICK d : d = a.datas
          OBVIOUS
        <5>1. /\ s.file \in Files /\ s.block \in 0..Blocks[s.file]
              /\ s.content = Prefix(s.file, s.block) /\ d = Block(s.file, s.block)
          BY <4>1
        <5>2. master' = AddDatasToFileToReceive(s, d, TRUE)
          BY <3>1
        <5>3. /\ master' \in TransferType
              /\ master'.send = s.send /\ master'.started = s.started /\ master'.file = s.file
              /\ d = End => master'.block = -1 /\ master'.content = Content(s.file)
              /\ d # End => /\ master'.block = s.block + 1 /\ master'.block \in 0..Blocks[s.file]
                            /\ master'.content = Prefix(s.file, master'.block)
          BY <2>6, <5>1, <5>2, BlockTaken
        <5> QED
          BY <2>6, <4>1, <5>3
      <4>3. a.datas = End => master.content = Content(f)
        <5>1. a.datas = End => s.block = Blocks[f]
          BY <4>1, BlocksOfFile
        <5>2. Prefix(f, Blocks[f]) = Content(f)
          BY <4>1, BlocksOfFile
        <5> QED
          BY <2>6, <4>1, <5>1, <5>2
      <4>4. MasterHolds'
        <5>1. CASE a.datas = End
          BY <2>f, <3>1, <4>2, <5>1 DEF MasterHolds
        <5>2. CASE a.datas # End
          <6>1. master'.block > 0
            BY <4>1, <4>2, <5>2, <2>f
          <6> QED
            BY <2>f, <3>1, <4>2, <5>2, <6>1 DEF MasterHolds
        <5> QED
          BY <5>1, <5>2
      <4>5. WholeFile'
        <5>1. CASE a.datas = End
          BY <3>1, <4>3, <5>1 DEF WholeFile
        <5>2. CASE a.datas # End
          BY <3>1, <5>2 DEF WholeFile, TransferInv
        <5> QED
          BY <5>1, <5>2
      <4> QED
        BY <2>7, <2>f, <2>3, <3>1, <4>2, <4>4, <4>5 DEF TransferInv
    <3> QED
      BY <3>4, <3>5
  <2> QED
    BY <2>1, <2>5, <2>8, <2>9 DEF MasterTransfers
<1> QED
  BY <1>4, <1>5

\* the slave takes a block
LEMMA TakingKeeps ==
  ASSUME TransferInv, NEW q \in Told, SlaveTakes(q)
  PROVE  /\ slave' \in TransferType /\ slave'.send /\ SlaveHolds(slave') /\ Paired(slave')
         /\ master.send /\ survey' \in Int
         /\ used' = used \/ used'.content = Content(used'.file)
<1> PICK t \in TransferType : t = Opened(q) /\ SlaveHolds(t) /\ Paired(t)
  BY OpenedRight
<1> PICK f \in Files : f = master.file /\ f = q.file
  BY OpenedRight
<1> PICK d : d = q.datas
  OBVIOUS
<1> DEFINE after == IF q.block = t.block THEN AddDatasToFileToReceive(t, d, Remounted(q)) ELSE t
           complete == q.block = t.block /\ Added(d, Remounted(q)) /\ after.block = -1
<1>1. /\ t.send /\ slave' = after
      /\ survey' = IF complete THEN Asleep ELSE 0
      /\ used' = IF complete THEN [by |-> "slave", file |-> t.file, content |-> t.content]
                             ELSE used
  <2>1. t.send /\ slave' = after
    BY DEF SlaveTakes
  <2>2. complete <=> /\ q.block = t.block
                     /\ (IF q.block = t.block THEN Added(d, Remounted(q))
                         ELSE q.action = "SendFile")
                     /\ after.block = -1
    OBVIOUS
  <2>3. survey' = IF complete THEN Asleep ELSE 0
    BY <2>2, Zenon DEF SlaveTakes
  <2>4. used' = IF complete THEN [by |-> "slave", file |-> t.file, content |-> t.content]
                            ELSE used
    BY <2>2, Zenon DEF SlaveTakes
  <2> QED
    BY <2>1, <2>3, <2>4
<1>2. t.file = f /\ master.send /\ t.send = TRUE
  <2>1. t.send = TRUE
    BY <1>1 DEF TransferType
  <2> QED
    BY <1>1, <2>1 DEF Paired, NoTransfer
<1>3. q.block \in 0..Blocks[f] /\ d = Block(f, q.block)
  BY <1>2 DEF TransferInv, ToldRight
<1>4. t.block # -1 => t.block \in 0..Blocks[f] /\ t.content = Prefix(f, t.block)
  BY <1>1, <1>2 DEF SlaveHolds
<1>5. survey' \in Int
  BY <1>1 DEF Asleep
<1>6. CASE q.block # t.block
  <2>1. slave' = t /\ used' = used
    BY <1>1, <1>6
  <2> HIDE DEF after, complete
  <2> QED
    BY <1>2, <1>5, <2>1
<1>7. CASE q.block = t.block
  <2>1. t.block \in 0..Blocks[f] /\ t.content = Prefix(f, t.block) /\ d = Block(f, t.block)
    BY <1>3, <1>4, <1>7
  <2>2. d = End => t.content = Content(f)
    <3>1. d = End => t.block = Blocks[f]
      BY <2>1, BlocksOfFile
    <3>2. Prefix(f, Blocks[f]) = Content(f)
      BY <2>1, BlocksOfFile
    <3> QED
      BY <2>1, <3>1, <3>2
  <2>3. CASE Remounted(q) \/ d = End
    <3> DEFINE r == AddDatasToFileToReceive(t, d, TRUE)
    <3>1. after = r
      BY <1>7, <2>3, Zenon DEF AddDatasToFileToReceive
    <3>2. /\ t.file \in Files /\ t.block \in 0..Blocks[t.file]
          /\ t.content = Prefix(t.file, t.block) /\ d = Block(t.file, t.block)
      BY <1>2, <2>1
    <3>3. /\ r \in TransferType /\ r.send = TRUE /\ r.file = f
          /\ d = End => r.block = -1
          /\ d # End => r.block \in 0..Blocks[f] /\ r.content = Prefix(f, r.block)
      <4>1. /\ r \in TransferType /\ r.send = t.send /\ r.file = t.file
            /\ d = End => r.block = -1
            /\ d # End => r.block \in 0..Blocks[t.file] /\ r.content = Prefix(t.file, r.block)
        <5> HIDE DEF r
        <5> QED
          BY <3>2, BlockTaken DEF r
      <4> HIDE DEF r
      <4> QED
        BY <1>2, <4>1
    <3>4. slave' = r
      BY <1>1, <3>1
    <3>5. complete => d = End
      <4>1. ASSUME d # End PROVE after.block # -1
        <5> HIDE DEF after, r
        <5> QED
          BY <3>1, <3>3, <4>1
      <4> QED
        BY <4>1
    <3>6. used' = used \/ used'.content = Content(used'.file)
      <4> HIDE DEF complete
      <4> QED
        BY <1>1, <1>2, <2>2, <3>5
    <3> HIDE DEF after, complete, r
    <3>7. SlaveHolds(slave') /\ Paired(slave')
      BY <1>2, <3>3, <3>4 DEF SlaveHolds, Paired
    <3> QED
      BY <1>2, <1>5, <3>3, <3>4, <3>6, <3>7
  <2>4. CASE ~Remounted(q) /\ d # End
    <3>n. PICK n \in Int : n = -1
      OBVIOUS
    <3>1. slave' = [t EXCEPT !.block = n]
      BY <1>1, <1>7, <2>4, <3>n DEF AddDatasToFileToReceive
    <3>2. used' = used
      BY <1>1, <2>4 DEF Added
    <3> HIDE DEF after, complete
    <3>3. slave' \in TransferType /\ slave'.send = TRUE /\ slave'.file = f /\ slave'.block = -1
      BY <1>2, <3>n, <3>1 DEF TransferType
    <3>4. SlaveHolds(slave') /\ Paired(slave')
      BY <1>2, <3>3 DEF SlaveHolds, Paired
    <3> QED
      BY <1>2, <1>5, <3>2, <3>3, <3>4
  <2> QED
    BY <2>3, <2>4
<1> QED
  BY <1>6, <1>7

\* the slave gives a block
LEMMA GivingKeeps ==
  ASSUME TransferInv, NEW q \in Told, SlaveGives(q)
  PROVE  /\ slave' \in TransferType /\ SlaveHolds(slave') /\ Paired(slave')
         /\ ~slave'.send /\ ~Opened(q).send
         /\ ~(slave.send /\ master.send)
         /\ GivesAnswer(q).block = slave'.block /\ GivesAnswer(q).datas = slave'.datas
         /\ survey' = survey /\ used' = used
<1> PICK t \in TransferType : t = Opened(q) /\ SlaveHolds(t) /\ Paired(t)
                              /\ (slave.send /\ master.send => t.send)
  BY OpenedRight
<1>1. /\ ~t.send /\ survey' = survey /\ used' = used
      /\ slave' = IF NextRead(q) THEN DoNextRead(t) ELSE [t EXCEPT !.started = TRUE]
  BY DEF SlaveGives
<1>2. GivesAnswer(q) = LET u == IF NextRead(q) THEN DoNextRead(t) ELSE t IN
                       [req |-> "Transfer", block |-> u.block, datas |-> u.datas,
                        action |-> "none"]
  BY DEF GivesAnswer
<1>3. CASE NextRead(q)
  <2>1. t.open /\ t.file = q.file /\ q.file \in Files /\ t.block \in 0..(Blocks[q.file] - 1)
    BY <1>1, <1>3, ReadsWhatIsOpen
  <2>2. t.file \in Files /\ t.block \in -1..(Blocks[t.file] - 1) /\ q.file = master.file
    BY <2>1, OpenedRight, TransferAssumption
  <2>3. slave' = DoNextRead(t)
    BY <1>1, <1>3
  <2>4. /\ slave' \in TransferType /\ slave'.send = t.send /\ slave'.file = t.file
        /\ slave'.block \in 0..Blocks[t.file] /\ slave'.datas = Block(t.file, slave'.block)
        /\ slave'.open = (t.open /\ slave'.block < Blocks[t.file])
    BY <2>2, <2>3, NextBlockRead
  <2>5. t.send = FALSE /\ t.open = TRUE /\ ~NoTransfer(t)
    BY <1>1, <2>1 DEF TransferType, NoTransfer
  <2>6. SlaveHolds(slave')
    BY <2>2, <2>4, <2>5 DEF SlaveHolds
  <2>7. Paired(slave')
    BY <2>4, <2>5 DEF Paired
  <2> QED
    BY <1>1, <1>2, <1>3, <2>3, <2>4, <2>5, <2>6, <2>7
<1>4. CASE ~NextRead(q)
  <2>1. slave' = [t EXCEPT !.started = TRUE]
    BY <1>1, <1>4
  <2>2. /\ slave' \in TransferType /\ slave'.send = t.send /\ slave'.file = t.file
        /\ slave'.block = t.block /\ slave'.datas = t.datas /\ slave'.open = t.open
        /\ slave'.content = t.content
    BY <2>1 DEF TransferType
  <2>3. SlaveHolds(slave') /\ Paired(slave')
    BY <2>2 DEF SlaveHolds, Paired, NoTransfer
  <2> QED
    BY <1>1, <1>2, <1>4, <2>2, <2>3
<1> QED
  BY <1>3, <1>4

LEMMA AnsweringKeeps ==
  ASSUME OrdersInv, TransferInv, SlaveAnswers
  PROVE  TransferInv'
<1> PICK q : q = Head(questions)
  OBVIOUS
<1> PICK a : a = Answer(q)
  OBVIOUS
<1>1. /\ questions # << >> /\ questions' = Tail(questions) /\ answers' = Append(answers, a)
      /\ IF q.req = "Transfer" THEN SlaveServes(q) ELSE SlaveObeys(q)
  BY DEF SlaveAnswers
<1>2. /\ q \in ToSet(questions) /\ ToSet(questions') \subseteq ToSet(questions)
      /\ ToSet(answers') = ToSet(answers) \cup {a} /\ a.req = q.req
  BY <1>1, Shortened, Appended, AnswerKind DEF OrdersInv, Links
<1>3. CASE q.req # "Transfer"
  <2>1. Told' \subseteq Told /\ Heard' \subseteq Heard
    BY <1>2, <1>3 DEF Told, Heard
  <2>2. UNCHANGED << master, slave, transferring, survey, expired, used >>
    BY <1>1, <1>3 DEF SlaveObeys
  <2> QED
    BY <2>1, <2>2, TransferLessSaid
<1>4. CASE q.req = "Transfer"
  <2>1. q \in Told /\ Told' \subseteq Told /\ Heard' = Heard \cup {a}
    BY <1>2, <1>4 DEF Told, Heard
  <2>2. /\ SlaveTakes(q) \/ SlaveGives(q)
        /\ UNCHANGED << master, transferring, expired >>
    BY <1>1, <1>4 DEF SlaveServes, SlaveTransfers
  <2>3. a = TransferAnswer(q)
    <3>1. q.req # "RdVars" /\ q.req \notin Asking
      BY <1>4 DEF Asking
    <3> QED
      BY <1>4, <3>1, Zenon DEF Answer
  <2>4. ~Untouched /\ master.file \in Files
    BY <2>1 DEF TransferInv, NothingSaid, MasterHolds
  <2>5. /\ slave' \in TransferType /\ SlaveHolds(slave') /\ Paired(slave') /\ survey' \in Int
        /\ used' = used \/ used'.content = Content(used'.file)
        /\ survey' # Asleep \/ expired => slave'.send /\ master.send
        /\ master.send \/ (a.block = slave'.block /\ a.datas = slave'.datas /\ ~slave'.send)
    <3>1. CASE SlaveTakes(q)
      BY <2>1, <3>1, TakingKeeps
    <3>2. CASE SlaveGives(q)
      <4>1. /\ slave' \in TransferType /\ SlaveHolds(slave') /\ Paired(slave')
            /\ ~slave'.send /\ ~Opened(q).send /\ ~(slave.send /\ master.send)
            /\ GivesAnswer(q).block = slave'.block /\ GivesAnswer(q).datas = slave'.datas
            /\ survey' = survey /\ used' = used
        BY <2>1, <3>2, GivingKeeps
      <4>2. a = GivesAnswer(q)
        BY <2>3, <4>1 DEF TransferAnswer
      <4>3. survey = Asleep /\ ~expired /\ survey \in Int
        BY <4>1 DEF TransferInv, Surveyed, TransferTyped
      <4> QED
        BY <4>1, <4>2, <4>3
    <3> QED
      BY <2>2, <3>1, <3>2
  <2>6. TransferTyped'
    BY <2>2, <2>5 DEF TransferInv, TransferTyped
  <2>7. NothingSaid' /\ MasterHolds'
    BY <2>2, <2>4 DEF TransferInv, NothingSaid, MasterHolds, Untouched
  <2>8. SlaveHolds(slave)' /\ Matched'
    BY <2>2, <2>5 DEF SlaveHolds, NoTransfer, Matched, Paired
  <2>9. ToldRight'
    BY <2>1, <2>2 DEF TransferInv, ToldRight, Starts
  <2>10. HeardRight'
    <3>1. ASSUME ~master.send
          PROVE  \/ a.block = -1 /\ a.datas = End
                 \/ /\ a.block \in 0..Blocks[master.file]
                    /\ a.datas = Block(master.file, a.block)
      <4>1. a.block = slave'.block /\ a.datas = slave'.datas /\ ~slave'.send
        BY <2>5, <3>1
      <4>2. CASE NoTransfer(slave')
        BY <4>1, <4>2 DEF NoTransfer
      <4>3. CASE ~NoTransfer(slave')
        BY <2>5, <4>1, <4>3 DEF SlaveHolds, Paired
      <4> QED
        BY <4>2, <4>3
    <3> QED
      BY <2>1, <2>2, <3>1 DEF TransferInv, HeardRight
  <2>11. Surveyed'
    BY <2>2, <2>5 DEF Surveyed
  <2>12. WholeFile'
    BY <2>5 DEF TransferInv, WholeFile
  <2> QED
    BY <2>6, <2>7, <2>8, <2>9, <2>10, <2>11, <2>12 DEF TransferInv
<1> QED
  BY <1>3, <1>4

LEMMA RestartKeeps ==
  ASSUME TransferInv, TargetRestarts
  PROVE  TransferInv'
<1>1. /\ questions' = << >> /\ answers' = answers /\ slave' = IdleTransfer
      /\ survey' = Asleep /\ expired' = FALSE
      /\ UNCHANGED << master, transferring, used >>
  BY DEF TargetRestarts, RestartTransfer
<1>2. Told' = {} /\ Heard' = Heard
  BY <1>1, Emptied DEF Told, Heard
<1>3. IdleTransfer \in TransferType /\ NoTransfer(IdleTransfer)
  BY DEF IdleTransfer, TransferType, NoTransfer
<1>4. TransferTyped'
  <2>1. survey' \in Int
    BY <1>1 DEF Asleep
  <2> QED
    BY <1>1, <1>3, <2>1 DEF TransferInv, TransferTyped
<1>5. NothingSaid' /\ MasterHolds'
  BY <1>1, <1>2 DEF TransferInv, NothingSaid, MasterHolds, Untouched
<1>6. SlaveHolds(slave)' /\ Matched' /\ ToldRight' /\ Surveyed'
  BY <1>1, <1>2, <1>3 DEF SlaveHolds, Matched, Paired, NoTransfer, ToldRight, Surveyed,
                          IdleTransfer
<1>7. HeardRight' /\ WholeFile'
  BY <1>1, <1>2 DEF TransferInv, HeardRight, WholeFile
<1> QED
  BY <1>4, <1>5, <1>6, <1>7 DEF TransferInv

\* the security only closes a file that the slave receives
LEMMA SecurityKeeps ==
  ASSUME TransferInv, LogicTask
  PROVE  TransferInv'
<1>1. /\ questions' = questions /\ answers' = answers
      /\ UNCHANGED << master, transferring, used >>
  BY DEF LogicTask, SecurityTick, SecurityCloses, masterVars
<1>2. Told' = Told /\ Heard' = Heard
  BY <1>1 DEF Told, Heard
<1>3. slave \in TransferType /\ slave.send /\ master.send /\ survey \in Int
  BY DEF LogicTask, SecurityTick, SecurityCloses, TransferInv, Surveyed, TransferTyped
<1>4. /\ slave' \in TransferType /\ slave'.send = slave.send /\ slave'.file = slave.file
      /\ slave'.block = slave.block /\ slave'.content = slave.content
      /\ survey' \in Int /\ expired' \in BOOLEAN
  <2>1. CASE SecurityTick
    <3>1. slave' = slave /\ survey' = survey + 1 /\ expired' = (survey' > SurveyTicks)
      BY <2>1 DEF SecurityTick
    <3>2. survey' \in Int /\ expired' \in BOOLEAN
      BY <1>3, <3>1
    <3> QED
      BY <1>3, <3>1, <3>2
  <2>2. CASE SecurityCloses
    <3>1. slave' = [slave EXCEPT !.open = FALSE] /\ survey' = Asleep /\ expired' = FALSE
      BY <2>2 DEF SecurityCloses
    <3>2. survey' \in Int
      BY <3>1 DEF Asleep
    <3>4. expired' \in BOOLEAN
      BY <3>1
    <3>3. /\ slave' \in TransferType /\ slave'.send = slave.send /\ slave'.file = slave.file
          /\ slave'.block = slave.block /\ slave'.content = slave.content
      BY <1>3, <3>1 DEF TransferType
    <3> QED
      BY <3>2, <3>3, <3>4
  <2> QED
    BY <2>1, <2>2 DEF LogicTask
<1>5. TransferTyped' /\ Surveyed'
  BY <1>1, <1>3, <1>4 DEF TransferInv, TransferTyped, Surveyed
<1>6. NothingSaid' /\ MasterHolds'
  BY <1>1, <1>2 DEF TransferInv, NothingSaid, MasterHolds, Untouched
<1>7. SlaveHolds(slave)' /\ Matched'
  BY <1>1, <1>2, <1>3, <1>4 DEF TransferInv, SlaveHolds, Matched, Paired, NoTransfer
<1>8. ToldRight' /\ HeardRight' /\ WholeFile'
  BY <1>1, <1>2 DEF TransferInv, ToldRight, Starts, HeardRight, WholeFile
<1> QED
  BY <1>5, <1>6, <1>7, <1>8 DEF TransferInv

LEMMA StartKeeps ==
  ASSUME Patient, FilesThere, MenusOfPlan, OrdersInv, TransferInv, StartTransfer
  PROVE  TransferInv'
<1> PICK m \in left.menus :
      /\ ~transferring /\ Quiet("Transfer") /\ survey = Asleep /\ ~expired
      /\ TransferMasterStart(m.file, m.send)
  BY DEF StartTransfer
<1> PICK f \in Files, snd \in BOOLEAN : f = m.file /\ snd = m.send
  BY DEF OrdersInv, PlanType
<1>0. ~snd => f \notin Missing
  BY DEF FilesThere, MenusOfPlan
<1>1. /\ questions' = questions /\ answers' = answers /\ transferring' = TRUE
      /\ UNCHANGED << slave, survey, expired, used >>
  BY DEF StartTransfer, TransferMasterStart, masterVars, slaveVars
<1>2. Told' = {} /\ Heard' = {}
  BY <1>1, Joined DEF OrdersInv, Links, Quiet, Told, Heard
<1> DEFINE fresh == [master EXCEPT !.send = snd, !.started = FALSE, !.abort = FALSE, !.file = f]
<1>3. master \in TransferType /\ Blocks[f] \in Nat
  BY TransferAssumption DEF TransferInv, TransferTyped
<1>4. /\ fresh \in TransferType /\ fresh.send = snd /\ fresh.started = FALSE /\ fresh.file = f
  BY <1>3 DEF TransferType
<1>5. master' = IF snd THEN StartToReadFileToSend(fresh, TRUE)
                       ELSE StartToWriteFileToReceive(fresh)
  BY DEF TransferMasterStart
<1> HIDE DEF fresh
<1>6. /\ master' \in TransferType /\ master'.send = snd /\ master'.started = FALSE
      /\ ~Untouched' /\ MasterHolds'
  <2>1. CASE snd
    <3>n. PICK n \in Int : n = -1
      OBVIOUS
    <3> DEFINE u == [fresh EXCEPT !.open = TRUE, !.block = n]
    <3>1. u \in TransferType /\ u.send = TRUE /\ u.started = FALSE /\ u.file = f /\ u.block = -1
      BY <1>4, <2>1, <3>n DEF TransferType
    <3>2. master' = DoNextRead(u)
      BY <1>5, <2>1, <3>n DEF StartToReadFileToSend
    <3> HIDE DEF u
    <3>3. u.file \in Files /\ u.block \in -1..(Blocks[u.file] - 1)
      BY <1>3, <3>1
    <3>4. /\ master' \in TransferType /\ master'.send = TRUE /\ master'.started = FALSE
          /\ master'.file = f /\ master'.block \in 0..Blocks[f]
          /\ master'.datas = Block(f, master'.block)
          /\ master'.open => master'.block < Blocks[f]
      BY <3>1, <3>2, <3>3, NextBlockRead
    <3> QED
      BY <2>1, <3>4 DEF Untouched, MasterHolds
  <2>2. CASE ~snd
    <3>n. PICK n \in Int : n = 0
      OBVIOUS
    <3>c. PICK c : c = << >>
      OBVIOUS
    <3>d. c \in Seq(Pieces)
      BY <3>c
    <3>1. master' = [fresh EXCEPT !.content = c, !.block = n]
      BY <1>5, <2>2, <3>n, <3>c DEF StartToWriteFileToReceive
    <3>2. /\ master' \in TransferType /\ master'.send = FALSE /\ master'.started = FALSE
          /\ master'.file = f /\ master'.block = n /\ master'.content = c
      BY <1>4, <2>2, <3>d, <3>1 DEF TransferType
    <3>3. 0 \in 0..Blocks[f] /\ c = Prefix(f, 0)
      BY <1>3, <3>c, BlocksOfFile
    <3>4. ~Untouched'
      BY <3>2, <3>n DEF Untouched
    <3>5. MasterHolds'
      BY <1>0, <2>2, <3>2, <3>3, <3>n DEF MasterHolds
    <3> QED
      BY <2>2, <3>2, <3>4, <3>5
  <2> QED
    BY <2>1, <2>2
<1>7. TransferTyped' /\ NothingSaid'
  BY <1>1, <1>6 DEF TransferInv, TransferTyped, NothingSaid
<1>8. SlaveHolds(slave)'
  BY <1>1 DEF TransferInv, SlaveHolds, NoTransfer
<1>9. ToldRight' /\ HeardRight' /\ Matched'
  BY <1>2, <1>6 DEF ToldRight, HeardRight, Matched
<1>10. Surveyed' /\ WholeFile'
  BY <1>1 DEF TransferInv, Surveyed, WholeFile
<1> QED
  BY <1>6, <1>7, <1>8, <1>9, <1>10 DEF TransferInv

LEMMA AbortKeeps ==
  ASSUME TransferInv, OperatorAborts
  PROVE  TransferInv'
<1>1. /\ questions' = questions /\ answers' = answers
      /\ UNCHANGED << slave, transferring, survey, expired, used >>
      /\ master' = [master EXCEPT !.abort = TRUE]
  BY DEF OperatorAborts, TransferMasterAskToAbort, masterVars
<1>2. Told' = Told /\ Heard' = Heard
  BY <1>1 DEF Told, Heard
<1>3. /\ master' \in TransferType /\ master'.send = master.send
      /\ master'.started = master.started /\ master'.file = master.file
      /\ master'.block = master.block /\ master'.datas = master.datas
      /\ master'.open = master.open /\ master'.content = master.content
  BY <1>1 DEF TransferInv, TransferTyped, TransferType
<1>4. TransferTyped' /\ NothingSaid'
  BY <1>1, <1>2, <1>3 DEF TransferInv, TransferTyped, NothingSaid, Untouched
<1>5. MasterHolds'
  <2>1. Untouched' = Untouched
    BY <1>3 DEF Untouched
  <2> QED
    BY <1>1, <1>3, <2>1 DEF TransferInv, MasterHolds
<1>6. SlaveHolds(slave)' /\ Matched'
  BY <1>1, <1>2, <1>3 DEF TransferInv, SlaveHolds, NoTransfer, Matched, Paired
<1>7. ToldRight' /\ HeardRight'
  BY <1>2, <1>3 DEF TransferInv, ToldRight, Starts, HeardRight
<1>8. Surveyed' /\ WholeFile'
  BY <1>1, <1>3 DEF TransferInv, Surveyed, WholeFile
<1> QED
  BY <1>4, <1>5, <1>6, <1>7, <1>8 DEF TransferInv

LEMMA TransferStep ==
  ASSUME Patient, FilesThere, MenusOfPlan, OrdersInv, TransferInv, [Next]_vars
  PROVE  TransferInv'
<1>1. CASE MasterAsks
  BY <1>1, AskingKeeps
<1>2. CASE MasterReads
  BY <1>2, ReadingKeeps
<1>3. CASE SlaveAnswers
  BY <1>3, AnsweringKeeps
<1>4. CASE TargetRestarts
  BY <1>4, RestartKeeps
<1>5. CASE LogicTask
  BY <1>5, SecurityKeeps
<1>6. CASE StartTransfer
  BY <1>6, StartKeeps
<1>7. CASE OperatorAborts
  BY <1>7, AbortKeeps
<1>8. CASE LinkLoses
  <2>1. UNCHANGED << master, slave, transferring, survey, expired, used >>
    BY <1>8 DEF LinkLoses, transferVars
  <2>2. ToSet(questions') \subseteq ToSet(questions) /\ ToSet(answers') \subseteq ToSet(answers)
    BY <1>8, Shortened DEF LinkLoses, OrdersInv, Links
  <2> QED
    BY <2>1, <2>2, TransferLessSaid DEF Told, Heard
<1>9. CASE MasterRests \/ MasterStopsTransfer \/ MasterTimesOut \/ CycleEnds \/ TargetSaves
           \/ OperatorSwitches \/ IdleFlipFlop \/ (\E kind \in left.kinds : Give(kind))
  <2>1. UNCHANGED << master, slave, survey, expired, used, questions, answers >>
        /\ transferring' \in {transferring, FALSE}
    BY <1>9 DEF MasterRests, MasterStopsTransfer, TransferAborted, MasterTimesOut, EndMasterCnxOnError,
                CycleEnds, TargetSaves, OperatorSwitches, IdleFlipFlop, FlipFlop, Give,
                transferVars
  <2> QED
    BY <2>1, TransferLessSaid DEF Told, Heard
<1>10. CASE UNCHANGED vars
  <2>1. UNCHANGED << master, slave, survey, expired, used, questions, answers, transferring >>
    BY <1>10 DEF vars, transferVars
  <2> QED
    BY <2>1, TransferLessSaid DEF Told, Heard
<1> QED
  BY <1>1, <1>2, <1>3, <1>4, <1>5, <1>6, <1>7, <1>8, <1>9, <1>10
  DEF Next, Master, Target, Operator

LEMMA MenusStep ==
  ASSUME MenusOfPlan, OrdersInv, [Next]_vars
  PROVE  MenusOfPlan'
<1>1. left \in PlanType
  BY DEF OrdersInv
<1>2. CASE \/ OperatorSwitches \/ StartTransfer \/ TargetRestarts
           \/ (\E kind \in left.kinds : Give(kind))
  <2>1. \/ left' = [left EXCEPT !.clicks = @ - 1] \/ left' = [left EXCEPT !.transfers = @ - 1]
        \/ left' = [left EXCEPT !.orders = @ - 1] \/ left' = [left EXCEPT !.restarts = @ - 1]
        \/ left' = left
    BY <1>2 DEF OperatorSwitches, StartTransfer, TargetRestarts, Give
  <2>2. left'.menus = left.menus
    BY <1>1, <2>1 DEF PlanType
  <2> QED
    BY <2>2 DEF MenusOfPlan
<1>3. CASE \/ Master \/ SlaveAnswers \/ CycleEnds \/ TargetSaves \/ LogicTask \/ LinkLoses
           \/ IdleFlipFlop \/ OperatorAborts \/ UNCHANGED vars
  <2>1. left' = left
    BY <1>3 DEF Master, MasterRests, MasterAsks, MasterStopsTransfer, MasterReads, MasterTimesOut,
       SlaveAnswers, CycleEnds, TargetSaves, LogicTask, LinkLoses, IdleFlipFlop,
       OperatorAborts, vars
  <2> QED
    BY <2>1 DEF MenusOfPlan
<1> QED
  BY <1>2, <1>3 DEF Next, Target, Operator

(* The transfers: what each side holds and what each message says is a      *)
(* block of the file that the master asked for, whatever the link loses or  *)
(* delays (monitor_transfer.c).                                             *)
THEOREM TransferInvariance ==
  Patient /\ FilesThere => (Spec => [](MenusOfPlan /\ OrdersInv /\ TransferInv))
<1> DEFINE IInv == MenusOfPlan /\ OrdersInv /\ TransferInv
<1> SUFFICES ASSUME Patient, FilesThere PROVE Spec => []IInv
  OBVIOUS
<1>1. Init => IInv
  <2>1. Init => MenusOfPlan
    BY DEF Init, MenusOfPlan
  <2> QED
    BY <2>1, OrdersInit, TransferInit
<1>2. IInv /\ [Next]_vars => IInv'
  BY MenusStep, OrdersStep, TransferStep
<1> QED
  <2> HIDE DEF IInv
  <2> QED
    BY <1>1, <1>2, PTL DEF Spec

(* A file that one side loads or shows is whole, for every file of the      *)
(* target and every loss, when the operator waits for the link to be quiet  *)
(* before a transfer and asks for files that the slave has                  *)
(* (TransferFileCompletedForSlave, TransferFileCompletedForMaster).         *)
THEOREM FilesAreWhole == Patient /\ FilesThere => (Spec => []WholeFile)
<1> SUFFICES ASSUME Patient, FilesThere PROVE Spec => []WholeFile
  OBVIOUS
<1>1. MenusOfPlan /\ OrdersInv /\ TransferInv => WholeFile
  BY DEF TransferInv
<1> QED
  BY <1>1, TransferInvariance, PTL

(* The slave never reads a block of a file that it, or the security of the  *)
(* logic task, closed (DoNextRead, SecurityForAbortedTransferToSlave).      *)
THEOREM NoReadOfAClosedFile == Patient /\ FilesThere => (Spec => []ReadsOpenFile)
<1> SUFFICES ASSUME Patient, FilesThere PROVE Spec => []ReadsOpenFile
  OBVIOUS
<1>1. ASSUME OrdersInv, TransferInv PROVE ReadsOpenFile
  <2> SUFFICES ASSUME NEW q, q = Head(questions), questions # << >>, q.req = "Transfer",
                      ~Opened(q).send, NextRead(q)
               PROVE  Opened(q).open
    BY DEF ReadsOpenFile
  <2>1. q \in Told
    BY <1>1, Shortened DEF OrdersInv, Links, Told
  <2> QED
    BY <1>1, <2>1, ReadsWhatIsOpen
<1>2. MenusOfPlan /\ OrdersInv /\ TransferInv => ReadsOpenFile
  BY <1>1
<1> QED
  BY <1>2, TransferInvariance, PTL
=============================================================================
