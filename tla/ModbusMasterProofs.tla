------------------------- MODULE ModbusMasterProofs -------------------------
(* What TLAPS proves of ModbusMaster: for every table of requests, every   *)
(* number of slaves, loads and configurations, the connections stay in     *)
(* step, and a slave is put in error by three failures of its own.         *)
EXTENDS ModbusMaster, WellFoundedInduction, TLAPS

Questions == [req : Reqs, id : 0 .. IdMax]
Replies == [req : Reqs, id : 0 .. IdMax, ok : BOOLEAN]

TypeOK ==
    /\ serial \in BOOLEAN /\ polling \in BOOLEAN /\ sentOk \in BOOLEAN
    /\ current \in Reqs \cup {-1} /\ errorCnt \in 0 .. 2 /\ id \in 0 .. IdMax
    /\ phase \in {"ask", "send", "wait", "treat"}
    /\ asked \in Slaves \cup {None}
    /\ reply \in Seq(Replies) /\ Len(reply) <= 1
    /\ open \subseteq Slaves /\ error \subseteq Slaves /\ ends \subseteq Slaves
    /\ pending \in [Slaves -> Seq(Questions)]
    /\ inbox \in [Slaves \cup {Line} -> Seq(Replies)]
    /\ status \in [Slaves -> {"up", "flaky", "off"}]
    /\ changes \in 0 .. ChangesMax
    /\ faults \in [Slaves -> 0 .. 2] /\ excused \in BOOLEAN

(* The request under way is for the slave that is asked.                   *)
Exchange ==
    /\ phase = "ask" <=> asked = None
    /\ current # -1 => Usable(current)
    /\ phase # "ask" /\ current # -1 => SlaveOf[current] = asked
    /\ reply # << >> => phase = "treat"

Quiet(s) == pending[s] = << >> /\ inbox[s] = << >>

(* Over Ethernet only the slave that is asked has something on its         *)
(* connection, once the question is sent: the question or its answer, not  *)
(* both, and nothing once an answer is read.                               *)
OneExchange ==
    ~serial =>
        /\ \A s \in Slaves : s # asked \/ phase = "send" => Quiet(s)
        /\ phase \in {"wait", "treat"} => pending[asked] = << >> \/ inbox[asked] = << >>
        /\ reply # << >> => Quiet(asked)

(* ... and it bears the identifier of the question, unless the project was *)
(* loaded meanwhile.                                                       *)
Numbered ==
    ~serial /\ phase # "ask" /\ current # -1 =>
        /\ pending[asked] # << >> => pending[asked][1].id = id
        /\ \A i \in 1 .. Len(inbox[asked]) : inbox[asked][i].id = id
        /\ reply # << >> => reply[1].id = id

(* ErrorCnt counts failures of the slave of the current request.           *)
Counted ==
    /\ current = -1 => errorCnt = 0
    /\ current # -1 /\ SlaveOf[current] \in error => errorCnt = 0
    /\ current # -1 /\ ~excused => errorCnt <= faults[SlaveOf[current]]

IInv == TypeOK /\ Exchange /\ OneExchange /\ Numbered /\ Counted

-----------------------------------------------------------------------------
(* A set of numbers that is not empty has a least one, which Nearest is.   *)
LEMMA NearestIsLeast ==
    ASSUME NEW S \in SUBSET Nat, S # {}
    PROVE  Nearest(S) \in S /\ \A j \in S : Nearest(S) <= j
<1> DEFINE R == {p \in Nat \X Nat : p[1] < p[2]}
<1>1. IsWellFoundedOn(R, Nat)
  BY NatLessThanWellFounded, Zenon DEF OpToRel
<1>2. PICK x \in S : \A y \in S : ~(<< y, x >> \in R)
  <2> HIDE DEF R
  <2>1. QED
    BY <1>1, WFMin
<1>3. \A y \in S : x <= y
  <2> TAKE y \in S
  <2>1. << y, x >> \in Nat \X Nat /\ ~(<< y, x >> \in R)
    BY <1>2
  <2>2. ~(y < x)
    BY <2>1
  <2>3. QED
    BY <2>2
<1>4. QED
  BY <1>3 DEF Nearest

(* The ring of the table is made of its requests.                          *)
LEMMA RingTyped ==
    ASSUME NEW r \in Reqs \cup {-1}, NEW k \in Nat \ {0}
    PROVE  Ring(r, k) \in Reqs
<1>1. r + k \in Nat /\ NbrReqs \in Nat \ {0}
  BY TableAssumption DEF Reqs
<1>2. QED
  BY <1>1 DEF Ring, Reqs

(* What FindNextReqFromTable finds, if anything, is a request in use.      *)
LEMMA FindNextTyped ==
    ASSUME NEW r \in Reqs \cup {-1}, NEW another
    PROVE  FindNext(r, another) = -1 \/ (FindNext(r, another) \in Reqs /\ Usable(FindNext(r, another)))
<1> DEFINE usable == {k \in 1 .. NbrReqs + 1 : Usable(Ring(r, k))}
           others == {k \in usable : another => SlaveOf[Ring(r, k)] # SlaveOf[r]}
<1>1. \A k \in usable : Ring(r, k) \in Reqs /\ Usable(Ring(r, k))
  BY RingTyped
<1>2. usable \in SUBSET Nat /\ others \in SUBSET Nat /\ others \subseteq usable
  OBVIOUS
<1>3. others # {} => Nearest(others) \in usable
  BY <1>2, NearestIsLeast
<1>4. usable # {} => Nearest(usable) \in usable
  BY <1>2, NearestIsLeast
<1>5. FindNext(r, another) \in {Ring(r, k) : k \in usable} \cup {-1}
  <2> HIDE DEF usable, others
  <2>1. FindNext(r, another) = IF others # {} THEN Ring(r, Nearest(others))
                               ELSE IF usable # {} THEN Ring(r, Nearest(usable)) ELSE -1
    BY DEF FindNext, usable, others
  <2>2. QED
    BY <2>1, <1>3, <1>4
<1>6. QED
  BY <1>1, <1>5

(* The slave of a request in use is one of the slaves, never None.         *)
LEMMA UsableSlave ==
    ASSUME NEW r \in Reqs, Usable(r)
    PROVE  SlaveOf[r] \in Slaves /\ SlaveOf[r] # None
  BY TableAssumption DEF Usable

(* What is asked while an exchange is under way is a slave.                *)
LEMMA AskedIsSlave ==
    ASSUME TypeOK, Exchange, phase # "ask"
    PROVE  asked \in Slaves
  BY DEF TypeOK, Exchange

(* The channel of a slave is one of those that have an inbox.              *)
LEMMA ChannelTyped ==
    ASSUME NEW s \in Slaves
    PROVE  Channel(s) \in Slaves \cup {Line} /\ (~serial => Channel(s) = s)
  BY DEF Channel

(* What is delivered is a question.                                        *)
LEMMA DeliverTyped ==
    ASSUME TypeOK, NEW s \in Slaves, NEW r \in Reqs, Deliver(s, r)
    PROVE  /\ pending' \in [Slaves -> Seq(Questions)]
           /\ pending'[s][1].id = id
           /\ \A t \in Slaves \ {s} : pending'[t] = pending[t]
<1> DEFINE q == [req |-> r, id |-> id]
<1>1. q \in Questions /\ q.id = id
  BY DEF TypeOK, Questions
<1>2. pending' = [pending EXCEPT ![s] = << q >>]
  BY DEF Deliver
<1>3. << q >> \in Seq(Questions) /\ << q >>[1] = q
  BY <1>1
<1>4. QED
  <2> HIDE DEF q
  <2>1. QED
    BY <1>1, <1>2, <1>3 DEF TypeOK

(* Sending leaves everything but the question and the connection.          *)
LEMMA SendTyped ==
    ASSUME TypeOK, Exchange, Send
    PROVE  /\ asked \in Slaves
           /\ pending' \in [Slaves -> Seq(Questions)]
           /\ open' \subseteq Slaves /\ ends' \subseteq Slaves
           /\ sentOk' \in BOOLEAN
           /\ \A t \in Slaves \ {asked} : pending'[t] = pending[t]
           /\ pending'[asked] = pending[asked] \/ pending'[asked][1].id = id
<1>1. asked \in Slaves
  BY AskedIsSlave DEF Send
<1>2. PICK r \in Reqs : IF serial THEN SendSerial(asked, r) ELSE SendSocket(asked, r)
  BY DEF Send
<1>3. Deliver(asked, r) \/ UNCHANGED pending
  BY <1>2 DEF SendSerial, SendSocket
<1>4. /\ pending' \in [Slaves -> Seq(Questions)]
      /\ \A t \in Slaves \ {asked} : pending'[t] = pending[t]
      /\ pending'[asked] = pending[asked] \/ pending'[asked][1].id = id
  <2>1. CASE Deliver(asked, r)
    BY <1>1, <2>1, DeliverTyped
  <2>2. CASE UNCHANGED pending
    BY <2>2 DEF TypeOK
  <2>3. QED
    BY <1>3, <2>1, <2>2
<1>5. open' \subseteq Slaves /\ ends' \subseteq Slaves /\ sentOk' \in BOOLEAN
  <2>1. CASE serial
    BY <1>2, <2>1 DEF SendSerial, TypeOK
  <2>2. CASE ~serial
    <3>1. \/ Connect(asked) \/ UNCHANGED << open, ends >>
          \/ open' = open \ {asked} /\ ends' = ends
      BY <1>2, <2>2 DEF SendSocket
    <3>2. open' \subseteq Slaves /\ ends' \subseteq Slaves
      BY <1>1, <3>1 DEF Connect, TypeOK
    <3>3. sentOk' = (asked \in open') \/ sentOk' = FALSE
      BY <1>2, <2>2, Zenon DEF SendSocket
    <3>4. sentOk' \in BOOLEAN
      <4>1. (asked \in open') \in BOOLEAN
        OBVIOUS
      <4>2. QED
        BY <3>3, <4>1, Zenon
    <3>5. QED
      BY <3>2, <3>4
  <2>3. QED
    BY <2>1, <2>2
<1>6. QED
  BY <1>1, <1>4, <1>5

(* What is received is one of the replies that waited.                     *)
LEMMA ReceiveTyped ==
    ASSUME TypeOK, Exchange, Receive
    PROVE  /\ asked \in Slaves
           /\ \E i \in 1 .. Len(inbox[Channel(asked)]) :
                  reply' = << inbox[Channel(asked)][i] >>
           /\ reply' \in Seq(Replies) /\ Len(reply') <= 1
           /\ inbox' \in [Slaves \cup {Line} -> Seq(Replies)]
           /\ inbox'[Channel(asked)] = << >>
           /\ \A c \in (Slaves \cup {Line}) \ {Channel(asked)} : inbox'[c] = inbox[c]
<1> DEFINE received == inbox[Channel(asked)]
           mine == {i \in DOMAIN received : FromAsked(received[i])}
           first == IF mine = {} THEN 1 ELSE Nearest(mine)
<1>1. asked \in Slaves
  BY AskedIsSlave DEF Receive
<1>2. received \in Seq(Replies) /\ received # << >>
  BY <1>1, ChannelTyped DEF Receive, TypeOK
<1>3. DOMAIN received = 1 .. Len(received) /\ Len(received) \in Nat /\ Len(received) # 0
  BY <1>2
<1>4. mine \in SUBSET Nat /\ mine \subseteq 1 .. Len(received)
  BY <1>3
<1>5. first \in 1 .. Len(received)
  <2>1. mine # {} => Nearest(mine) \in mine
    <3> HIDE DEF mine
    <3>1. QED
      BY <1>4, NearestIsLeast
  <2>2. QED
    BY <1>3, <1>4, <2>1
<1>6. reply' = << received[first] >>
  BY DEF Receive
<1>7. reply' \in Seq(Replies) /\ Len(reply') <= 1
  <2>1. received[first] \in Replies
    <3> HIDE DEF received, first
    <3>1. QED
      BY <1>2, <1>5
  <2>2. QED
    BY <1>6, <2>1
<1>8. inbox' = [inbox EXCEPT ![Channel(asked)] = << >>]
  BY DEF Receive
<1>9. << >> \in Seq(Replies)
  OBVIOUS
<1>10. /\ inbox' \in [Slaves \cup {Line} -> Seq(Replies)]
       /\ inbox'[Channel(asked)] = << >>
       /\ \A c \in (Slaves \cup {Line}) \ {Channel(asked)} : inbox'[c] = inbox[c]
  BY <1>1, <1>8, <1>9, ChannelTyped DEF TypeOK
<1>11. QED
  BY <1>1, <1>5, <1>6, <1>7, <1>10

(* The clean-up after a bad response: the connection is closed and nothing *)
(* is left on it.                                                          *)
LEMMA CleanUpTyped ==
    ASSUME TypeOK, NEW a \in Slaves, a = asked, CleanUp
    PROVE  /\ open' \subseteq Slaves /\ ends' \subseteq Slaves
           /\ pending' \in [Slaves -> Seq(Questions)]
           /\ inbox' \in [Slaves \cup {Line} -> Seq(Replies)]
           /\ ~serial => /\ pending'[a] = << >> /\ inbox'[a] = << >>
                         /\ \A s \in Slaves \ {a} :
                                pending'[s] = pending[s] /\ inbox'[s] = inbox[s]
<1>1. << >> \in Seq(Replies) /\ << >> \in Seq(Questions)
  OBVIOUS
<1>2. inbox' = [inbox EXCEPT ![Channel(a)] = << >>]
  BY DEF CleanUp
<1>3. inbox' \in [Slaves \cup {Line} -> Seq(Replies)]
  BY <1>1, <1>2, ChannelTyped DEF TypeOK
<1>4. pending' \in [Slaves -> Seq(Questions)]
  BY <1>1 DEF CleanUp, AfterPurge, TypeOK
<1>5. ~serial => /\ pending'[a] = << >> /\ inbox'[a] = << >>
                 /\ \A s \in Slaves \ {a} :
                        pending'[s] = pending[s] /\ inbox'[s] = inbox[s]
  BY <1>2, ChannelTyped DEF CleanUp, TypeOK
<1>6. QED
  BY <1>3, <1>4, <1>5 DEF CleanUp, TypeOK

(* An answer moves the question of a slave to an inbox.                    *)
LEMMA AnswerTyped ==
    ASSUME TypeOK, NEW s \in Slaves, Answer(s)
    PROVE  /\ pending' \in [Slaves -> Seq(Questions)]
           /\ pending'[s] = << >>
           /\ \A t \in Slaves \ {s} : pending'[t] = pending[t]
           /\ inbox' \in [Slaves \cup {Line} -> Seq(Replies)]
           /\ \A c \in (Slaves \cup {Line}) \ {Channel(s)} : inbox'[c] = inbox[c]
           /\ \E f \in Replies : /\ inbox'[Channel(s)] = Append(inbox[Channel(s)], f)
                                 /\ f.id = pending[s][1].id
<1>1. PICK ok \in {TRUE, status[s] = "up"} :
          inbox' = [inbox EXCEPT ![Channel(s)] =
            Append(@, [req |-> pending[s][1].req, id |-> pending[s][1].id, ok |-> ok])]
  BY DEF Answer
<1> DEFINE f == [req |-> pending[s][1].req, id |-> pending[s][1].id, ok |-> ok]
<1>2. pending[s] \in Seq(Questions) /\ pending[s] # << >>
  BY DEF TypeOK, Answer
<1>3. pending[s][1] \in Questions
  BY <1>2
<1>4. f \in Replies /\ f.id = pending[s][1].id
  BY <1>3 DEF Questions, Replies
<1>5. Channel(s) \in Slaves \cup {Line}
  BY ChannelTyped
<1>6. inbox' = [inbox EXCEPT ![Channel(s)] = Append(inbox[Channel(s)], f)]
  BY <1>1, <1>5 DEF TypeOK
<1>7. Append(inbox[Channel(s)], f) \in Seq(Replies)
  BY <1>4, <1>5 DEF TypeOK
<1>8. /\ inbox' \in [Slaves \cup {Line} -> Seq(Replies)]
      /\ inbox'[Channel(s)] = Append(inbox[Channel(s)], f)
      /\ \A c \in (Slaves \cup {Line}) \ {Channel(s)} : inbox'[c] = inbox[c]
  <2> HIDE DEF f
  <2>1. QED
    BY <1>5, <1>6, <1>7 DEF TypeOK
<1>9. /\ pending' \in [Slaves -> Seq(Questions)]
      /\ pending'[s] = << >>
      /\ \A t \in Slaves \ {s} : pending'[t] = pending[t]
  <2>1. << >> \in Seq(Questions)
    OBVIOUS
  <2>2. QED
    BY <2>1 DEF Answer, TypeOK
<1>10. QED
  BY <1>4, <1>8, <1>9

(* A slave that fails or is repaired has at most forgotten its question.   *)
LEMMA ChangeTyped ==
    ASSUME TypeOK, NEW s \in Slaves, Change(s)
    PROVE  /\ status' \in [Slaves -> {"up", "flaky", "off"}]
           /\ pending' \in [Slaves -> Seq(Questions)]
           /\ \A t \in Slaves : pending'[t] = pending[t] \/ pending'[t] = << >>
           /\ ends' \subseteq Slaves
<1>1. status' \in [Slaves -> {"up", "flaky", "off"}]
  BY DEF Change, TypeOK
<1>2. << >> \in Seq(Questions)
  OBVIOUS
<1>3. /\ pending' \in [Slaves -> Seq(Questions)]
      /\ \A t \in Slaves : pending'[t] = pending[t] \/ pending'[t] = << >>
  BY <1>2 DEF Change, TypeOK
<1>4. QED
  BY <1>1, <1>3 DEF Change, TypeOK

(* After a response the current request is one of the table's, or none.    *)
LEMMA TreatTyped ==
    ASSUME TypeOK, Exchange, current # -1, Good \/ Bad
    PROVE  /\ SlaveOf[current] \in Slaves
           /\ current' \in Reqs \cup {-1} /\ (current' # -1 => Usable(current'))
           /\ error' \subseteq Slaves /\ errorCnt' \in 0 .. 2
           /\ faults' \in [Slaves -> 0 .. 2] /\ excused' \in BOOLEAN
<1>1. SlaveOf[current] \in Slaves
  BY UsableSlave DEF TypeOK, Exchange
<1>2. CASE Good
  <2>1. current' \in Reqs \cup {-1} /\ (current' # -1 => Usable(current'))
    BY <1>2, FindNextTyped DEF Good, TypeOK
  <2>2. faults' = [faults EXCEPT ![SlaveOf[current]] = 0]
    BY <1>2 DEF Good
  <2>3. faults' \in [Slaves -> 0 .. 2]
    BY <1>1, <2>2 DEF TypeOK
  <2>4. QED
    BY <1>1, <1>2, <2>1, <2>3 DEF Good, TypeOK
<1>3. CASE Bad
  <2>1. current' \in Reqs \cup {-1} /\ (current' # -1 => Usable(current'))
    BY <1>3, FindNextTyped DEF Bad, TypeOK, Exchange
  <2>2. PICK n \in 0 .. 2 : faults' = [faults EXCEPT ![SlaveOf[current]] = n]
    <3>1. Count(faults[SlaveOf[current]]) \in 0 .. 2
      <4>1. faults[SlaveOf[current]] \in 0 .. 2
        BY <1>1 DEF TypeOK
      <4>2. QED
        BY <4>1 DEF Count
    <3>2. CASE AtLimit \/ ~Faulty
      <4>1. faults' = [faults EXCEPT ![SlaveOf[current]] = 0]
        BY <1>3, <3>2 DEF Bad
      <4>2. QED
        BY <4>1
    <3>3. CASE ~(AtLimit \/ ~Faulty)
      <4>1. faults' = [faults EXCEPT ![SlaveOf[current]] = Count(faults[SlaveOf[current]])]
        BY <1>1, <1>3, <3>3 DEF Bad, TypeOK
      <4>2. QED
        BY <3>1, <4>1
    <3>4. QED
      BY <3>2, <3>3
  <2>3. faults' \in [Slaves -> 0 .. 2]
    BY <1>1, <2>2 DEF TypeOK
  <2>4. errorCnt' \in 0 .. 2
    BY <1>3 DEF Bad, AtLimit, TypeOK
  <2>5. excused' \in BOOLEAN /\ error' \subseteq Slaves
    BY <1>1, <1>3 DEF Bad, TypeOK
  <2>6. QED
    BY <1>1, <2>1, <2>3, <2>4, <2>5
<1>4. QED
  BY <1>2, <1>3

-----------------------------------------------------------------------------
(* Every step keeps the variables in their domains.                        *)
LEMMA TypeKept ==
    ASSUME TypeOK, Exchange, Counted, [Next]_vars
    PROVE  TypeOK'
<1>1. CASE Ask
  <2>1. current' \in Reqs /\ asked' \in Slaves
    <3>1. current' \in Reqs /\ Usable(current')
      BY <1>1, FindNextTyped DEF Ask, TypeOK, Exchange
    <3>2. QED
      BY <1>1, <3>1, UsableSlave DEF Ask
  <2>2. id' \in 0 .. IdMax
    <3>1. id + 1 \in Nat /\ IdMax + 1 \in Nat \ {0}
      BY TableAssumption DEF TypeOK
    <3>2. (id + 1) % (IdMax + 1) \in 0 .. IdMax
      BY <3>1, TableAssumption
    <3>3. QED
      BY <1>1, <3>2 DEF Ask, TypeOK
  <2>3. QED
    BY <1>1, <2>1, <2>2 DEF Ask, TypeOK, network, history
<1>2. CASE Send
  <2>1. phase' \in {"ask", "send", "wait", "treat"} /\ reply' \in Seq(Replies) /\ Len(reply') <= 1
    BY <1>2 DEF Send
  <2>2. QED
    BY <1>2, <2>1, SendTyped DEF Send, TypeOK, history
<1>3. CASE Receive
  BY <1>3, ReceiveTyped DEF Receive, TypeOK, history
<1>4. CASE TimeOut
  BY <1>4 DEF TimeOut, TypeOK, network, history
<1>5. CASE Treat
  <2>1. asked \in Slaves
    BY <1>5, AskedIsSlave DEF Treat
  <2>2. reply' \in Seq(Replies) /\ Len(reply') <= 1 /\ asked' \in Slaves \cup {None}
    BY <1>5 DEF Treat
  <2>3. CASE current = -1 /\ CleanUp /\ UNCHANGED << current, errorCnt, error, history >>
    BY <1>5, <2>1, <2>2, <2>3, CleanUpTyped DEF Treat, TypeOK, history
  <2>4. CASE current # -1 /\ RepOk /\ Good /\ UNCHANGED << open, network >>
    BY <1>5, <2>2, <2>4, TreatTyped DEF Treat, TypeOK, network
  <2>5. CASE current # -1 /\ ~RepOk /\ Bad /\ CleanUp
    BY <1>5, <2>1, <2>2, <2>5, TreatTyped, CleanUpTyped DEF Treat, TypeOK
  <2>6. QED
    BY <1>5, <2>3, <2>4, <2>5 DEF Treat
<1>6. CASE Poll
  BY <1>6 DEF Poll, TypeOK, master, network, history
<1>7. CASE InitVars
  BY <1>7 DEF InitVars, TypeOK, master, network, history
<1>8. CASE InitModbusMasterParams
  <2>1. changes' \in 0 .. ChangesMax /\ id' \in 0 .. IdMax
    BY <1>8, TableAssumption DEF InitModbusMasterParams, TypeOK
  <2>2. current' \in Reqs \cup {-1} /\ errorCnt' \in 0 .. 2
    BY <1>8 DEF InitModbusMasterParams
  <2>3. excused' \in BOOLEAN
    BY <1>8, Zenon DEF InitModbusMasterParams
  <2>4. QED
    BY <1>8, <2>1, <2>2, <2>3 DEF InitModbusMasterParams, TypeOK, network
<1>9. CASE Configure
  <2>1. /\ pending' \in [Slaves -> Seq(Questions)]
        /\ inbox' \in [Slaves \cup {Line} -> Seq(Replies)]
    BY <1>9 DEF Configure
  <2>2. changes' \in 0 .. ChangesMax /\ serial' \in BOOLEAN
    BY <1>9, TableAssumption DEF Configure, TypeOK
  <2>3. QED
    BY <1>9, <2>1, <2>2 DEF Configure, TypeOK, master, history
<1>10. CASE \E s \in Slaves : Answer(s)
  <2>1. PICK s \in Slaves : Answer(s)
    BY <1>10
  <2>2. QED
    BY <2>1, AnswerTyped DEF Answer, TypeOK, master, history
<1>11. CASE \E s \in Slaves : Change(s)
  <2>1. PICK s \in Slaves : Change(s)
    BY <1>11
  <2>2. QED
    BY <2>1, ChangeTyped DEF Change, TypeOK, master, history
<1>12. CASE UNCHANGED vars
  BY <1>12 DEF vars, TypeOK, master, network, history
<1>13. QED
  BY <1>1, <1>2, <1>3, <1>4, <1>5, <1>6, <1>7, <1>8, <1>9, <1>10, <1>11, <1>12
     DEF Next, Loop

(* Every step keeps the request under way that of the slave asked.         *)
LEMMA ExchangeKept ==
    ASSUME TypeOK, Exchange, [Next]_vars
    PROVE  Exchange'
<1>1. CASE Ask
  <2>1. current' \in Reqs /\ Usable(current')
    BY <1>1, FindNextTyped DEF Ask, TypeOK, Exchange
  <2>2. asked' = SlaveOf[current'] /\ asked' # None
    BY <1>1, <2>1, UsableSlave DEF Ask
  <2>3. QED
    BY <1>1, <2>1, <2>2 DEF Ask, Exchange, Usable
<1>2. CASE Send
  BY <1>2 DEF Send, Exchange, Usable
<1>3. CASE Receive
  BY <1>3 DEF Receive, Exchange, Usable
<1>4. CASE TimeOut
  BY <1>4 DEF TimeOut, Exchange, Usable
<1>5. CASE Treat
  <2>1. phase' = "ask" /\ asked' = None /\ reply' = << >>
    BY <1>5 DEF Treat
  <2>2. current' # -1 => Usable(current')
    <3>1. CASE current = -1 /\ current' = current
      BY <3>1
    <3>2. CASE current # -1 /\ (Good \/ Bad)
      BY <3>2, TreatTyped
    <3>3. QED
      BY <1>5, <3>1, <3>2 DEF Treat
  <2>3. QED
    BY <2>1, <2>2 DEF Exchange, Usable
<1>6. CASE Poll \/ InitVars \/ Configure
  BY <1>6 DEF Poll, InitVars, Configure, Exchange, master, Usable
<1>7. CASE InitModbusMasterParams
  BY <1>7 DEF InitModbusMasterParams, Exchange, Usable
<1>8. CASE \E s \in Slaves : Answer(s) \/ Change(s)
  BY <1>8 DEF Answer, Change, Exchange, master, Usable
<1>9. CASE UNCHANGED vars
  BY <1>9 DEF vars, Exchange, master, Usable
<1>10. QED
  BY <1>1, <1>2, <1>3, <1>4, <1>5, <1>6, <1>7, <1>8, <1>9 DEF Next, Loop

(* Every step keeps each connection to one exchange at a time.             *)
LEMMA OneExchangeKept ==
    ASSUME TypeOK, Exchange, OneExchange, TypeOK', [Next]_vars
    PROVE  OneExchange'
<1>1. CASE Ask
  BY <1>1, TableAssumption DEF Ask, OneExchange, Exchange, Quiet, network
<1>2. CASE Send
  <2>1. SUFFICES ASSUME ~serial
                 PROVE  /\ \A s \in Slaves \ {asked} : Quiet(s)'
                        /\ inbox'[asked] = << >>
    BY <1>2, SendTyped DEF Send, OneExchange
  <2>2. \A s \in Slaves : Quiet(s)
    BY <1>2, <2>1 DEF Send, OneExchange
  <2>3. inbox' = inbox
    BY <1>2 DEF Send
  <2>4. QED
    BY <1>2, <2>2, <2>3, SendTyped DEF Quiet
<1>3. CASE Receive
  <2>1. SUFFICES ASSUME ~serial PROVE OneExchange'
    BY <1>3 DEF Receive, OneExchange
  <2>2. asked \in Slaves /\ Channel(asked) = asked
    BY <1>3, <2>1, AskedIsSlave, ChannelTyped DEF Receive
  <2>3. /\ pending' = pending /\ asked' = asked /\ phase' = "treat" /\ serial' = serial
        /\ inbox[asked] # << >> /\ phase = "wait"
    BY <1>3, <2>2 DEF Receive
  <2>4. inbox'[asked] = << >> /\ \A s \in Slaves \ {asked} : inbox'[s] = inbox[s]
    BY <1>3, <2>2, ReceiveTyped
  <2>5. pending[asked] = << >> /\ \A s \in Slaves \ {asked} : Quiet(s)
    BY <2>1, <2>3 DEF OneExchange
  <2>6. \A s \in Slaves : Quiet(s)'
    BY <2>2, <2>3, <2>4, <2>5 DEF Quiet
  <2>7. QED
    BY <2>2, <2>3, <2>6 DEF OneExchange, Quiet
<1>4. CASE TimeOut
  BY <1>4 DEF TimeOut, OneExchange, Quiet, network
<1>5. CASE Treat
  <2>1. SUFFICES ASSUME ~serial PROVE \A s \in Slaves : Quiet(s)'
    BY <1>5 DEF Treat, OneExchange
  <2>2. asked \in Slaves
    BY <1>5, AskedIsSlave DEF Treat
  <2>3. \A s \in Slaves \ {asked} : Quiet(s)
    BY <2>1 DEF OneExchange
  <2>4. CASE CleanUp
    BY <2>1, <2>2, <2>3, <2>4, CleanUpTyped DEF Quiet
  <2>5. CASE RepOk /\ UNCHANGED network
    <3>1. Quiet(asked)
      BY <2>1, <2>5 DEF OneExchange, RepOk
    <3>2. QED
      BY <2>3, <2>5, <3>1 DEF Quiet, network
  <2>6. QED
    BY <1>5, <2>4, <2>5 DEF Treat, network
<1>6. CASE Poll \/ InitVars
  BY <1>6 DEF Poll, InitVars, OneExchange, Quiet, master, network
<1>7. CASE InitModbusMasterParams
  BY <1>7 DEF InitModbusMasterParams, OneExchange, Quiet, network
<1>8. CASE Configure
  <2>1. \A s \in Slaves : Quiet(s)'
    BY <1>8 DEF Configure, Quiet
  <2>2. phase' = "ask" /\ reply' = << >>
    BY <1>8 DEF Configure, master, Exchange
  <2>3. QED
    BY <2>1, <2>2 DEF OneExchange
<1>9. CASE \E s \in Slaves : Answer(s)
  <2>1. PICK s \in Slaves : Answer(s)
    BY <1>9
  <2>2. SUFFICES ASSUME ~serial PROVE OneExchange'
    BY <2>1 DEF Answer, OneExchange
  <2>3. UNCHANGED << serial, phase, asked, reply >> /\ pending[s] # << >>
    BY <2>1 DEF Answer, master
  <2>4. s = asked /\ phase \in {"wait", "treat"} /\ reply = << >>
    <3>1. s = asked /\ phase # "send"
      BY <2>2, <2>3 DEF OneExchange, Quiet
    <3>2. phase # "ask"
      BY <3>1, TableAssumption DEF Exchange
    <3>3. reply = << >>
      BY <2>2, <2>3, <3>1 DEF OneExchange, Quiet
    <3>4. QED
      BY <3>1, <3>2, <3>3 DEF TypeOK
  <2>5. /\ pending'[asked] = << >>
        /\ \A t \in Slaves \ {asked} : pending'[t] = pending[t] /\ inbox'[t] = inbox[t]
    BY <2>1, <2>2, <2>4, AnswerTyped, ChannelTyped
  <2>6. \A t \in Slaves \ {asked} : Quiet(t)'
    BY <2>2, <2>5 DEF OneExchange, Quiet
  <2>7. QED
    BY <2>3, <2>4, <2>5, <2>6 DEF OneExchange
<1>10. CASE \E s \in Slaves : Change(s)
  <2>1. PICK s \in Slaves : Change(s)
    BY <1>10
  <2>2. UNCHANGED << serial, phase, asked, reply, inbox >>
    BY <2>1 DEF Change, master
  <2>3. \A t \in Slaves : pending'[t] = pending[t] \/ pending'[t] = << >>
    BY <2>1, ChangeTyped
  <2>4. \A t \in Slaves : Quiet(t) => Quiet(t)'
    BY <2>2, <2>3 DEF Quiet
  <2>5. phase # "ask" => asked \in Slaves
    BY AskedIsSlave
  <2>6. QED
    BY <2>2, <2>3, <2>4, <2>5 DEF OneExchange, Exchange
<1>11. CASE UNCHANGED vars
  BY <1>11 DEF vars, OneExchange, Quiet, master, network
<1>12. QED
  BY <1>1, <1>2, <1>3, <1>4, <1>5, <1>6, <1>7, <1>8, <1>9, <1>10, <1>11
     DEF Next, Loop

(* Every step keeps the identifier of the question on what is on its way.  *)
LEMMA NumberedKept ==
    ASSUME TypeOK, Exchange, OneExchange, Numbered, Exchange', OneExchange', [Next]_vars
    PROVE  Numbered'
<1>0. SUFFICES ASSUME ~serial', phase' # "ask", current' # -1
               PROVE  /\ pending'[asked'] # << >> => pending'[asked'][1].id = id'
                      /\ \A i \in 1 .. Len(inbox'[asked']) : inbox'[asked'][i].id = id'
                      /\ reply' # << >> => reply'[1].id = id'
  BY DEF Numbered
<1>1. CASE Ask
  <2>1. phase' = "send" /\ reply' = << >>
    BY <1>1 DEF Ask, Exchange
  <2>2. asked' \in Slaves /\ pending'[asked'] = << >> /\ inbox'[asked'] = << >>
    <3>1. current' \in Reqs /\ Usable(current') /\ asked' = SlaveOf[current']
      BY <1>1, FindNextTyped DEF Ask, TypeOK, Exchange
    <3>2. asked' \in Slaves
      BY <3>1, UsableSlave
    <3>3. QED
      BY <1>0, <2>1, <3>2 DEF OneExchange, Quiet
  <2>3. QED
    BY <2>1, <2>2
<1>2. CASE Send
  <2>1. UNCHANGED << serial, current, id, asked, inbox >> /\ phase = "send" /\ reply' = << >>
    BY <1>2 DEF Send
  <2>2. asked \in Slaves /\ Quiet(asked)
    BY <1>0, <1>2, <2>1, SendTyped DEF OneExchange
  <2>3. pending'[asked] = pending[asked] \/ pending'[asked][1].id = id
    BY <1>2, SendTyped
  <2>4. QED
    BY <2>1, <2>2, <2>3 DEF Quiet
<1>3. CASE Receive
  <2>1. UNCHANGED << serial, current, id, asked, pending >> /\ phase = "wait"
    BY <1>3 DEF Receive
  <2>2. asked \in Slaves /\ Channel(asked) = asked
    BY <1>0, <1>3, <2>1, ReceiveTyped, ChannelTyped
  <2>3. inbox'[asked] = << >>
    BY <1>3, <2>2, ReceiveTyped
  <2>4. PICK i \in 1 .. Len(inbox[asked]) : reply' = << inbox[asked][i] >>
    BY <1>3, <2>2, ReceiveTyped
  <2>5. inbox[asked][i].id = id /\ (pending[asked] # << >> => pending[asked][1].id = id)
    BY <1>0, <2>1 DEF Numbered
  <2>6. QED
    BY <2>1, <2>3, <2>4, <2>5
<1>4. CASE TimeOut
  BY <1>0, <1>4 DEF TimeOut, Numbered, network
<1>5. CASE Treat
  BY <1>0, <1>5 DEF Treat
<1>6. CASE Poll \/ InitVars
  BY <1>0, <1>6 DEF Poll, InitVars, Numbered, master, network
<1>7. CASE InitModbusMasterParams
  BY <1>0, <1>7 DEF InitModbusMasterParams
<1>8. CASE Configure
  BY <1>0, <1>8 DEF Configure, master
<1>9. CASE \E s \in Slaves : Answer(s)
  <2>1. PICK s \in Slaves : Answer(s)
    BY <1>9
  <2>2. UNCHANGED << serial, phase, current, id, asked, reply >> /\ pending[s] # << >>
    BY <2>1 DEF Answer, master
  <2>3. s = asked /\ Channel(s) = s /\ phase \in {"wait", "treat"} /\ reply = << >>
    BY <1>0, <2>2, ChannelTyped DEF OneExchange, Quiet, TypeOK, Exchange
  <2>4. inbox[s] = << >> /\ pending[s][1].id = id
    BY <1>0, <2>2, <2>3 DEF OneExchange, Numbered
  <2>5. PICK f \in Replies : inbox'[s] = Append(inbox[s], f) /\ f.id = id
    BY <2>1, <2>3, <2>4, AnswerTyped
  <2>6. inbox'[s] = << f >>
    BY <2>4, <2>5
  <2>7. \A i \in 1 .. Len(inbox'[s]) : inbox'[s][i].id = id
    BY <2>5, <2>6
  <2>8. pending'[s] = << >>
    BY <2>1, AnswerTyped
  <2>9. QED
    BY <2>2, <2>3, <2>7, <2>8
<1>10. CASE \E s \in Slaves : Change(s)
  <2>1. PICK s \in Slaves : Change(s)
    BY <1>10
  <2>2. UNCHANGED << serial, phase, current, id, asked, reply, inbox >>
    BY <2>1 DEF Change, master
  <2>3. pending'[asked] = pending[asked] \/ pending'[asked] = << >>
    BY <1>0, <2>1, <2>2, ChangeTyped, AskedIsSlave
  <2>4. QED
    BY <1>0, <2>2, <2>3 DEF Numbered
<1>11. CASE UNCHANGED vars
  BY <1>0, <1>11 DEF vars, Numbered, master, network
<1>12. QED
  BY <1>1, <1>2, <1>3, <1>4, <1>5, <1>6, <1>7, <1>8, <1>9, <1>10, <1>11
     DEF Next, Loop

(* A bad response is a failure of the slave, unless it is excused: what it *)
(* answers correctly to the current request is accepted.                   *)
LEMMA RefusedIsFaulty ==
    ASSUME TypeOK, Exchange, Numbered, phase = "treat", current # -1, ~RepOk, ~Excused
    PROVE  Faulty
<1>1. serial => sentOk /\ Kind[current] \in {"read", "write"}
  BY TableAssumption DEF Excused, Kinds, TypeOK
<1>2. ASSUME NEW i \in DOMAIN reply, reply[i].ok, reply[i].req = current
      PROVE  FALSE
  <2>1. i = 1 /\ reply # << >>
    BY <1>2 DEF TypeOK
  <2>2. ~serial => reply[1].id = id
    BY <2>1 DEF Numbered
  <2>3. SlaveOf[reply[1].req] = asked
    BY <1>2, <2>1 DEF Exchange
  <2>4. Accepts(reply[1])
    BY <1>1, <1>2, <2>1, <2>2, <2>3 DEF Accepts
  <2>5. QED
    BY <2>1, <2>4 DEF RepOk
<1>3. QED
  BY <1>1, <1>2 DEF Faulty

(* Every step keeps ErrorCnt a count of the failures of one slave.         *)
LEMMA CountedKept ==
    ASSUME TypeOK, Exchange, Numbered, Counted, TypeOK', Exchange', [Next]_vars
    PROVE  Counted'
<1>0. current' # -1 => SlaveOf[current'] \in Slaves /\ faults'[SlaveOf[current']] \in 0 .. 2
  BY UsableSlave DEF TypeOK, Exchange, Usable
<1>1. errorCnt' = 0 => Counted'
  BY <1>0 DEF Counted
<1>2. CASE Ask
  <2>1. current = -1 => errorCnt' = 0
    BY <1>2 DEF Ask, Counted
  <2>2. CASE current # -1
    BY <1>2, <2>2 DEF Ask, Counted, history
  <2>3. QED
    BY <1>1, <2>1, <2>2
<1>3. CASE Send
  BY <1>3 DEF Send, Counted, history
<1>4. CASE Receive \/ TimeOut
  BY <1>4 DEF Receive, TimeOut, Counted, history
<1>5. CASE Treat
  <2>1. CASE current = -1 /\ UNCHANGED << current, errorCnt, error, history >>
    BY <2>1 DEF Counted, history
  <2>2. CASE Good
    BY <1>1, <2>2 DEF Good
  <2>3. CASE current # -1 /\ ~RepOk /\ Bad
    <3> DEFINE s == SlaveOf[current]
    <3>1. CASE AtLimit
      BY <1>1, <2>3, <3>1 DEF Bad
    <3>2. CASE ~AtLimit
      <4>1. current' = current /\ error' = error /\ errorCnt' = errorCnt + 1
        BY <2>3, <3>2 DEF Bad
      <4>2. s \notin error
        BY <3>2 DEF AtLimit, TypeOK
      <4>3. ASSUME ~excused' PROVE errorCnt' <= faults'[s]
        <5>1. ~excused /\ ~Excused
          BY <2>3, <3>2, <4>3 DEF Bad
        <5>2. Faulty
          BY <1>5, <2>3, <5>1, RefusedIsFaulty DEF Treat
        <5>3. s \in Slaves /\ errorCnt <= faults[s] /\ faults[s] \in 0 .. 2
          BY <1>0, <2>3, <4>1, <5>1 DEF Counted, TypeOK
        <5>4. faults' = [faults EXCEPT ![s] = Count(@)]
          BY <2>3, <3>2, <5>2 DEF Bad
        <5>5. faults'[s] = Count(faults[s])
          BY <5>3, <5>4 DEF TypeOK
        <5>6. errorCnt + 1 \in 0 .. 2
          BY <4>1 DEF TypeOK
        <5>7. QED
          BY <4>1, <5>3, <5>5, <5>6 DEF Count, TypeOK
      <4>4. QED
        BY <2>3, <4>1, <4>2, <4>3 DEF Counted
    <3>3. QED
      BY <3>1, <3>2
  <2>4. QED
    BY <1>5, <2>1, <2>2, <2>3 DEF Treat
<1>6. CASE Poll \/ InitVars \/ Configure
  BY <1>6 DEF Poll, InitVars, Configure, Counted, master, history
<1>7. CASE InitModbusMasterParams
  BY <1>1, <1>7 DEF InitModbusMasterParams
<1>8. CASE \E s \in Slaves : Answer(s) \/ Change(s)
  BY <1>8 DEF Answer, Change, Counted, master, history
<1>9. CASE UNCHANGED vars
  BY <1>9 DEF vars, Counted, master, history
<1>10. QED
  BY <1>2, <1>3, <1>4, <1>5, <1>6, <1>7, <1>8, <1>9 DEF Next, Loop

-----------------------------------------------------------------------------
(* The invariant holds at the start and every step keeps it.               *)
THEOREM Invariance == Spec => []IInv
<1>1. Init => IInv
  <2> SUFFICES ASSUME Init PROVE IInv
    OBVIOUS
  <2>1. TypeOK
    <3>1. /\ pending \in [Slaves -> Seq(Questions)]
          /\ inbox \in [Slaves \cup {Line} -> Seq(Replies)]
          /\ reply \in Seq(Replies) /\ Len(reply) <= 1
      BY DEF Init
    <3>2. id \in 0 .. IdMax /\ changes \in 0 .. ChangesMax
      BY TableAssumption DEF Init
    <3>3. /\ status \in [Slaves -> {"up", "flaky", "off"}]
          /\ faults \in [Slaves -> 0 .. 2]
      BY DEF Init
    <3>4. excused \in BOOLEAN /\ polling \in BOOLEAN /\ sentOk \in BOOLEAN /\ serial \in BOOLEAN
      BY Zenon DEF Init
    <3>5. QED
      BY <3>1, <3>2, <3>3, <3>4 DEF Init, TypeOK
  <2>2. Exchange
    BY DEF Init, Exchange
  <2>3. OneExchange
    BY DEF Init, OneExchange, Quiet
  <2>4. QED
    BY <2>1, <2>2, <2>3 DEF Init, IInv, Numbered, Counted
<1>2. IInv /\ [Next]_vars => IInv'
  BY TypeKept, ExchangeKept, OneExchangeKept, NumberedKept, CountedKept DEF IInv
<1>3. QED
  BY <1>1, <1>2, PTL DEF Spec

(* In every table, whatever the slaves do: between two exchanges nothing   *)
(* of the last one is left on a connection, so that a late answer is never *)
(* read as the answer to the next question.                                *)
THEOREM NoLateAnswer == Spec => []ConnectionsInStep
<1>1. IInv => ConnectionsInStep
  BY TableAssumption DEF IInv, OneExchange, Exchange, Quiet, ConnectionsInStep
<1>2. QED
  BY <1>1, Invariance, PTL

(* In every table, however the slaves fail and whatever is loaded or       *)
(* configured: a slave that is put in error has failed three times in a    *)
(* row itself, apart from the failures the serial line is the cause of.    *)
THEOREM ErrorIsThirdFailure == Spec => ErrorAfterThree
<1>1. IInv /\ [Next]_vars =>
        \A s \in error' \ error : ~(excused \/ Excused) => faults[s] = 2 /\ Faulty
  <2> SUFFICES ASSUME IInv, [Next]_vars, NEW s \in error' \ error, ~excused, ~Excused
               PROVE  faults[s] = 2 /\ Faulty
    OBVIOUS
  <2>1. error' # error /\ error' # {}
    OBVIOUS
  <2>2. Treat
    BY <2>1 DEF Next, Loop, Ask, Send, Receive, TimeOut, Poll, InitVars,
                InitModbusMasterParams, Configure, Answer, Change, vars
  <2>3. current # -1 /\ ~RepOk /\ Bad
    BY <2>1, <2>2 DEF Treat, Good
  <2>4. AtLimit /\ s = SlaveOf[current]
    BY <2>3 DEF Bad
  <2>5. errorCnt = 2
    BY <2>4 DEF AtLimit, IInv, TypeOK
  <2>6. s \in Slaves /\ faults[s] \in 0 .. 2 /\ errorCnt <= faults[s]
    BY <2>3, <2>4, UsableSlave DEF IInv, TypeOK, Exchange, Counted
  <2>7. Faulty
    BY <2>2, <2>3, RefusedIsFaulty DEF IInv, Treat
  <2>8. QED
    BY <2>5, <2>6, <2>7
<1>2. QED
  BY <1>1, Invariance, PTL DEF Spec, ErrorAfterThree
=============================================================================
