---------------------------- MODULE ModbusMaster ----------------------------
(* The Modbus master: the thread of SocketModbusMasterLoop that polls the  *)
(* slaves of the requests' table one question at a time, over one TCP      *)
(* connection per slave or over one serial line, and tells the program by  *)
(* the bits %S10.. which slaves do not answer.                             *)
(*                                                                         *)
(* Abstracted: a frame is the request it asks or answers, its transaction  *)
(* identifier and whether it is a correct answer; the mapping of values to *)
(* variables is left out; reading all the replies that come after a bad    *)
(* one is one step with the treatment of the bad one. The table is         *)
(* reloaded unchanged; UDP is left out. External: the slaves, that are up, *)
(* off or flaky (anything may happen to a question), and the network.      *)
EXTENDS Integers, Sequences, FiniteSets
CONSTANTS
    Slaves,
    None,          \* an empty entry of the table; no slave, no question
    NbrReqs,       \* NBR_MODBUS_MASTER_REQ
    SlaveOf,       \* SlaveListNum of a request: one of Slaves, or None
    Kind,          \* "read", "write" (one element) or "writeMany"
    IdMax,         \* the greatest transaction identifier, 65535
    LineMax,       \* bound: the replies that wait on the serial line
    ChangesMax     \* bound: the loads and changes of configuration

Reqs == 0 .. NbrReqs - 1
Kinds == {"read", "write", "writeMany"}
Line == "line"

ASSUME TableAssumption ==
    /\ NbrReqs \in Nat \ {0} /\ None \notin Slaves /\ Line \notin Slaves
    /\ SlaveOf \in [Reqs -> Slaves \cup {None}]
    /\ Kind \in [Reqs -> Kinds]
    /\ IdMax \in Nat \ {0} /\ LineMax \in Nat \ {0} /\ ChangesMax \in Nat

VARIABLES
    serial,     \* ModbusSerialPortNameUsed is not empty
    polling,    \* LadderState is RUN (and the serial port is open)
    current,    \* CurrentReq
    errorCnt,   \* ErrorCnt
    id,         \* InvoqIdentifHeaderIP
    sentOk,     \* SendResultStatus is 0
    phase,      \* the place of the thread: "ask", "send", "wait" or "treat"
    asked,      \* the slave of the question: CurrentSlave
    reply,      \* ResponseFrame: a sequence of at most one reply
    open,       \* the slaves whose ClientSockDescrip is valid
    error,      \* the slaves whose bit %S10.. is set
    ends,       \* external: the slaves that have their end of the connection
    pending,    \* external: the question a slave has not answered yet
    inbox,      \* external: the replies received and not read, per channel
    status,     \* external: what a slave does with a question
    changes,    \* bound: how many loads and changes of configuration
    faults,     \* history: failures in a row, up to 2, of a slave not in error
    excused     \* history: errorCnt counts a failure that is no slave's

master == << current, errorCnt, id, sentOk, phase, asked, reply, open >>
network == << ends, pending, inbox >>
history == << faults, excused >>
vars == << serial, polling, master, error, network, status, changes, history >>

Channel(s) == IF serial THEN Line ELSE s

Init ==
    /\ serial \in BOOLEAN /\ polling = TRUE
    /\ current = -1 /\ errorCnt = 0 /\ id = 0 /\ sentOk = TRUE
    /\ phase = "ask" /\ asked = None /\ reply = << >>
    /\ open = {} /\ error = {} /\ ends = {}
    /\ pending = [s \in Slaves |-> << >>]
    /\ inbox = [c \in Slaves \cup {Line} |-> << >>]
    /\ status = [s \in Slaves |-> "up"]
    /\ changes = 0
    /\ faults = [s \in Slaves |-> 0] /\ excused = FALSE

-----------------------------------------------------------------------------
(* FindNextReqFromTable *)

Usable(r) == SlaveOf[r] # None

(* The k-th request after r, in the ring of the table. *)
Ring(r, k) == (r + k) % NbrReqs

Nearest(distances) == CHOOSE k \in distances : \A j \in distances : k <= j

(* Mutant: the search begins at the head of the table every time. *)
FindNextFromStart(r, another) ==
    LET usable == {k \in Reqs : Usable(k) /\ (another => SlaveOf[k] # SlaveOf[r])}
    IN  IF usable # {} THEN Nearest(usable) ELSE r

(* The next request of the table; when another slave is wanted, the next   *)
(* one for another slave, if there is one.                                 *)
FindNext(r, another) ==
    LET usable == {k \in 1 .. NbrReqs + 1 : Usable(Ring(r, k))}
        others == {k \in usable : another => SlaveOf[Ring(r, k)] # SlaveOf[r]}
    IN  IF others # {} THEN Ring(r, Nearest(others))
        ELSE IF usable # {} THEN Ring(r, Nearest(usable)) ELSE -1

-----------------------------------------------------------------------------
(* ModbusMasterAsk: chooses a request if none is current, and gives the    *)
(* question a new identifier (Ethernet only).                              *)
Ask ==
    /\ phase = "ask" /\ polling
    /\ current' = IF current = -1 THEN FindNext(-1, FALSE) ELSE current
    /\ current' # -1
    /\ asked' = SlaveOf[current']
    /\ id' = IF serial THEN id ELSE (id + 1) % (IdMax + 1)
    /\ phase' = "send"
    /\ UNCHANGED << serial, polling, errorCnt, sentOk, reply, open, error, network,
                    status, changes, history >>

(* The question is delivered, and replaces the one that is not answered.   *)
Deliver(s, r) == pending' = [pending EXCEPT ![s] = << [req |-> r, id |-> id] >>]

(* VerifyConnection: connects if there is no connection. *)
Connect(s) ==
    /\ s \notin open
    /\ \/ status[s] # "off" /\ open' = open \cup {s} /\ ends' = ends \cup {s}
       \/ status[s] # "up" /\ UNCHANGED << open, ends >>

(* SendSocketModbusMaster: the slave may have lost its end of a connection *)
(* that is open for the master; then the question goes nowhere, or send()  *)
(* fails and the connection is closed.                                     *)
SendSocket(s, r) ==
    \/ /\ Connect(s) \/ (s \in open /\ UNCHANGED << open, ends >>)
       /\ sentOk' = (s \in open')
       /\ IF s \in open' \cap ends' THEN Deliver(s, r) ELSE UNCHANGED pending
    \/ /\ s \in open \ ends
       /\ sentOk' = FALSE
       /\ open' = open \ {s}
       /\ UNCHANGED << ends, pending >>

(* SerialSend, whose result is not looked at. *)
SendSerial(s, r) ==
    /\ IF status[s] # "off" THEN Deliver(s, r) ELSE UNCHANGED pending
    /\ UNCHANGED << sentOk, open, ends >>

(* The request may have been unloaded meanwhile; the frame was prepared    *)
(* before, so the question is still the one asked.                         *)
Send ==
    /\ phase = "send"
    /\ \E r \in Reqs :
          /\ IF current # -1 THEN r = current ELSE SlaveOf[r] = asked
          /\ IF serial THEN SendSerial(asked, r) ELSE SendSocket(asked, r)
    /\ phase' = IF sentOk' THEN "wait" ELSE "treat"
    /\ reply' = << >>
    /\ UNCHANGED << serial, polling, current, errorCnt, id, asked, error, inbox,
                    status, changes, history >>

(* In serial the chars before the address of the slave are skipped. *)
FromAsked(f) == SlaveOf[f.req] = asked

(* WaitRespSocketModbusMaster or SerialReceive: reads all there is.        *)
Receive ==
    /\ phase = "wait"
    /\ inbox[Channel(asked)] # << >>
    /\ LET received == inbox[Channel(asked)]
           mine == {i \in DOMAIN received : FromAsked(received[i])}
       IN  reply' = << received[IF mine = {} THEN 1 ELSE Nearest(mine)] >>
    /\ inbox' = [inbox EXCEPT ![Channel(asked)] = << >>]
    /\ phase' = "treat"
    /\ UNCHANGED << serial, polling, current, errorCnt, id, sentOk, asked, open, error,
                    ends, pending, status, changes, history >>

(* A slave that is up answers in time. *)
TimeOut ==
    /\ phase = "wait"
    /\ inbox[Channel(asked)] = << >>
    /\ status[asked] = "up" => pending[asked] = << >>
    /\ phase' = "treat"
    /\ UNCHANGED << serial, polling, current, errorCnt, id, sentOk, asked, reply, open,
                    error, network, status, changes, history >>

(* The frame is taken as the answer to the current question. Over Ethernet *)
(* its identifier says so. In serial the address, the length and the       *)
(* function code must agree, and the element for a write; the length       *)
(* computed for a write of several registers is never the one of its       *)
(* answer. An exception is never accepted.                                 *)
Accepts(f) ==
    /\ f.ok
    /\ \/ ~serial /\ f.id = id
       \/ /\ serial /\ SlaveOf[f.req] = asked
          /\ \/ Kind[current] = "read" /\ Kind[f.req] = "read"
             \/ Kind[current] = "write" /\ f.req = current

RepOk == reply # << >> /\ Accepts(reply[1])

(* Mutant: a slave is in error at once. *)
AtLimitAtOnce == errorCnt + 1 >= 1

(* One error is enough for a slave that is already in error. *)
AtLimit == errorCnt + 1 >= IF SlaveOf[current] \in error THEN 1 ELSE 3

(* The slave did not answer the question correctly. *)
Faulty ==
    /\ serial => sentOk
    /\ ~\E i \in DOMAIN reply : reply[i].ok /\ reply[i].req = current

(* A question whose answer is never taken on the serial line: it is not    *)
(* waited for while the status of the last one sent over Ethernet stays a  *)
(* failure, and the one to a write of several registers is refused.        *)
Excused == serial /\ (~sentOk \/ Kind[current] = "writeMany")

Count(n) == IF n < 2 THEN n + 1 ELSE 2

(* A correct response: the next request, and the slave is not in error.    *)
Good ==
    /\ current' = FindNext(current, FALSE)
    /\ errorCnt' = 0
    /\ error' = error \ {SlaveOf[current]}
    /\ faults' = [faults EXCEPT ![SlaveOf[current]] = 0]
    /\ excused' = FALSE

(* No response, or a bad one: the same request again, until the limit.     *)
Bad ==
    /\ errorCnt' = IF AtLimit THEN 0 ELSE errorCnt + 1
    /\ current' = IF AtLimit THEN FindNext(current, reply = << >>) ELSE current
    /\ error' = IF AtLimit THEN error \cup {SlaveOf[current]} ELSE error
    /\ faults' = [faults EXCEPT ![SlaveOf[current]] =
                    IF AtLimit \/ ~Faulty THEN 0 ELSE Count(@)]
    /\ excused' = (~AtLimit /\ (excused \/ Excused))

(* Mutant: the connection is kept when nothing was received. *)
KeepConnection ==
    /\ inbox' = [inbox EXCEPT ![Channel(asked)] = << >>]
    /\ UNCHANGED << open, ends, pending >>

(* What the purge of the serial line leaves to come: it takes long enough  *)
(* for the slaves that answer to have answered.                            *)
AfterPurge == [s \in Slaves |-> IF status[s] = "flaky" THEN pending[s] ELSE << >>]

(* After a bad response the serial line is purged, or the socket is read   *)
(* until nothing comes and then closed, as it is when nothing came.        *)
CleanUp ==
    /\ inbox' = [inbox EXCEPT ![Channel(asked)] = << >>]
    /\ open' = IF serial THEN open ELSE open \ {asked}
    /\ ends' = IF serial THEN ends ELSE ends \ {asked}
    /\ pending' = IF serial THEN AfterPurge ELSE [pending EXCEPT ![asked] = << >>]

(* TreatModbusMasterResponse and what follows it in the loop. *)
Treat ==
    /\ phase = "treat"
    /\ \/ current = -1 /\ CleanUp /\ UNCHANGED << current, errorCnt, error, history >>
       \/ current # -1 /\ RepOk /\ Good /\ UNCHANGED << open, network >>
       \/ current # -1 /\ ~RepOk /\ Bad /\ CleanUp
    /\ phase' = "ask" /\ reply' = << >> /\ asked' = None
    /\ UNCHANGED << serial, polling, id, sentOk, status, changes >>

-----------------------------------------------------------------------------
(* The other threads. *)

(* The engine is stopped or run; the loop looks at it between exchanges. *)
Poll ==
    /\ phase = "ask"
    /\ polling' = ~polling
    /\ UNCHANGED << serial, master, error, network, status, changes, history >>

(* InitVars, on a reset, clears the bits of the slaves too. *)
InitVars ==
    /\ error # {}
    /\ error' = {}
    /\ UNCHANGED << serial, polling, master, network, status, changes, history >>

(* InitModbusMasterParams, when a project is loaded. Bound: while a        *)
(* question is sent or waits for its answer.                               *)
InitModbusMasterParams ==
    /\ changes < ChangesMax /\ phase \in {"send", "wait"}
    /\ current' = -1 /\ errorCnt' = 0 /\ id' = 0
    /\ changes' = changes + 1
    /\ excused' = FALSE
    /\ UNCHANGED << serial, polling, sentOk, phase, asked, reply, open, error, network,
                    status, faults >>

(* The window of the configuration chooses Ethernet or serial. Bound:      *)
(* between two exchanges, while no connection is open.                     *)
Configure ==
    /\ changes < ChangesMax /\ phase = "ask" /\ open = {}
    /\ serial' = ~serial
    /\ changes' = changes + 1
    /\ pending' = [s \in Slaves |-> << >>]
    /\ inbox' = [c \in Slaves \cup {Line} |-> << >>]
    /\ UNCHANGED << polling, master, ends, error, status, history >>

(* External: a slave answers; a flaky one may send an exception. *)
Answer(s) ==
    /\ pending[s] # << >>
    /\ Len(inbox[Channel(s)]) < LineMax
    /\ \E ok \in {TRUE, status[s] = "up"} :
          inbox' = [inbox EXCEPT ![Channel(s)] =
            Append(@, [req |-> pending[s][1].req, id |-> pending[s][1].id, ok |-> ok])]
    /\ pending' = [pending EXCEPT ![s] = << >>]
    /\ UNCHANGED << serial, polling, master, ends, error, status, changes, history >>

(* External: a slave fails or is repaired; off, it forgets the connection  *)
(* and the question. Bound: not between the steps that go by at once.      *)
Change(s) ==
    /\ phase \in {"ask", "wait"}
    /\ \E x \in {"up", "flaky", "off"} \ {status[s]} : status' = [status EXCEPT ![s] = x]
    /\ pending' = IF status'[s] = "off" THEN [pending EXCEPT ![s] = << >>] ELSE pending
    /\ ends' = IF status'[s] = "off" THEN ends \ {s} ELSE ends
    /\ UNCHANGED << serial, polling, master, error, inbox, changes, history >>

Loop == Ask \/ Send \/ Receive \/ TimeOut \/ Treat

Next ==
    \/ Loop
    \/ Poll \/ InitVars \/ InitModbusMasterParams \/ Configure
    \/ \E s \in Slaves : Answer(s) \/ Change(s)

Spec == Init /\ [][Next]_vars

(* The thread runs, the timer of its wait runs out whatever the slave does, *)
(* and a slave that is up answers.                                          *)
FairSpec ==
    /\ Spec
    /\ WF_vars(Loop) /\ SF_vars(Receive \/ TimeOut)
    /\ \A s \in Slaves : WF_vars(status[s] = "up" /\ Answer(s))

-----------------------------------------------------------------------------
(* A connection stays in step: between two exchanges nothing is left of    *)
(* the last question on it, neither unanswered nor unread, so that a late  *)
(* answer never meets the next question.                                   *)
ConnectionsInStep ==
    phase = "ask" /\ ~serial =>
        \A s \in Slaves : pending[s] = << >> /\ inbox[s] = << >>

(* The slave has no request the master can never take the answer of.       *)
Understood(s) ==
    serial => \A r \in Reqs : SlaveOf[r] = s => Kind[r] # "writeMany"

(* A slave is put in error at the third failure of its own in a row, with  *)
(* no correct answer between them - whatever the other slaves do, whatever *)
(* is loaded or configured meanwhile - unless one of the failures counted  *)
(* is that of the serial line.                                             *)
ErrorAfterThree ==
    [][\A s \in error' \ error : ~(excused \/ Excused) => faults[s] = 2 /\ Faulty]_vars

(* The conditions under which an exchange can succeed again and again; the *)
(* late answers of a flaky slave can spoil a serial line for all.          *)
Works(s) ==
    /\ status[s] = "up" /\ polling /\ Understood(s)
    /\ serial => sentOk /\ \A t \in Slaves : status[t] # "flaky"

(* No slave that works is forgotten because others are silent: each of its *)
(* requests is asked again and again.                                      *)
Polled ==
    \A r \in Reqs :
        Usable(r) /\ <>[]Works(SlaveOf[r]) => []<>(phase = "send" /\ current = r)

(* %S10.. is documented as an error of communication with the slave: a     *)
(* slave that has answered each question correctly is never put in error.  *)
ErrorMeansFault == [][\A s \in error' \ error : faults[s] > 0 \/ Faulty]_vars
=============================================================================
