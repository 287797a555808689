-------------------------- MODULE MonitorTransfer --------------------------
(* The transfer of a file between the monitoring station (master) and the   *)
(* target (slave): monitor_transfer.c.  A file is a sequence of blocks; the *)
(* master asks, the slave answers, and an empty block ends the file.  Each  *)
(* side keeps a record of its transfer; the operators below are the new     *)
(* values of that record.  The logic task of the target surveys a file      *)
(* under receive, and puts the file system back to read-only.               *)
EXTENDS Integers, Sequences

CONSTANTS
  Files,          \* the numbers a transfer may ask for
  Blocks,         \* Blocks[f]: how many blocks the file f is made of
  Missing,        \* the files the slave has not (or can not open)
  SurveyTicks,    \* ticks of the logic task in 5000 ms
  MaxErrors       \* wrong answers the master accepts in a row

ASSUME TransferAssumption ==
  /\ Blocks \in [Files -> Nat]
  /\ Missing \subseteq Files
  /\ SurveyTicks \in Nat
  /\ MaxErrors \in Nat

VARIABLES
  master,         \* FileTransfer[ 1 ]: the transfer as the master sees it
  slave,          \* FileTransfer[ 0 ]: the transfer as the slave sees it
  transferring,   \* RemoteFileTransfer
  errors,         \* NbrErrorsMaster
  acking,         \* FlagMasterQuestionAckForSlaveReceive
  survey,         \* TimeSecurityAbortTransToSlave, in ticks; -1 asleep
  expired,        \* the logic task saw the survey expired and will close
  writable,       \* the file system of the slave is mounted read-write
  used            \* the last file completed: [by, file, content] or NoFile

transferVars ==
  << master, slave, transferring, errors, acking, survey, expired, writable, used >>

End == << >>                               \* the empty block, end of a file
Content(f) == [i \in 1..Blocks[f] |-> <<f, i>>]
NoFile == [by |-> "none", file |-> 0, content |-> << >>]
Asleep == -1

\* InitMonitorTransferFile, for one of the two transfers
IdleTransfer == [send |-> FALSE, started |-> FALSE, abort |-> FALSE, block |-> -1,
                 file |-> -1, open |-> FALSE, datas |-> End, content |-> << >>]

InitTransfer ==
  /\ master = IdleTransfer /\ slave = IdleTransfer
  /\ transferring = FALSE /\ errors = 0 /\ acking = FALSE
  /\ survey = Asleep /\ expired = FALSE /\ writable = FALSE
  /\ used = NoFile

-----------------------------------------------------------------------------
(* Reading and writing a file.                                              *)

\* DoNextRead: the block after the last one read; the file closes at its end
DoNextRead(t) ==
  LET next == t.block + 1 IN
  IF next < Blocks[t.file]
  THEN [t EXCEPT !.block = next, !.datas = Content(t.file)[next + 1]]
  ELSE [t EXCEPT !.block = next, !.datas = End, !.open = FALSE]

\* StartToReadFileToSend; on failure the number and the datas stay
StartToReadFileToSend(t, there) ==
  IF there THEN DoNextRead([t EXCEPT !.open = TRUE, !.block = -1]) ELSE t

\* StartToWriteFileToReceive: a clean empty file, that is taken to be created
\* (on the target, Missing says nothing of the files to receive)
StartToWriteFileToReceive(t) == [t EXCEPT !.content = << >>, !.block = 0]

\* AddDatasToFileToReceive: -1 says that the file is complete, or the failure
AddDatasToFileToReceive(t, datas, canWrite) ==
  IF datas = End \/ ~canWrite THEN [t EXCEPT !.block = -1]
  ELSE [t EXCEPT !.content = Append(@, datas), !.block = @ + 1]

Added(datas, canWrite) == datas = End \/ canWrite

-----------------------------------------------------------------------------
(* The questions of the master.                                             *)

\* TransferMasterStart, from the menus; the project is saved before it is sent
TransferMasterStart(f, send) ==
  LET fresh == [master EXCEPT !.send = send, !.started = FALSE, !.abort = FALSE,
                              !.file = f] IN
  /\ master' = IF send THEN StartToReadFileToSend(fresh, TRUE)
                       ELSE StartToWriteFileToReceive(fresh)
  /\ errors' = 0
  /\ transferring' = TRUE
  /\ UNCHANGED << slave, acking, survey, expired, writable, used >>

\* MonitorCreateRequestFileTransfer, when the operator did not abort
TransferQuestion ==
  LET action ==
        CASE ~master.started -> IF master.send THEN "SendFile" ELSE "ReceiveFile"
          [] master.started /\ ~master.send -> IF acking THEN "Ack" ELSE "Err"
          [] OTHER -> "none"
  IN [req    |-> "Transfer", action |-> action, file |-> master.file,
      block  |-> CASE master.send -> master.block
                   [] action = "Ack" -> master.block - 1
                   [] OTHER -> -1,
      datas  |-> IF master.send THEN master.datas ELSE End]

\* ... and what it leaves: the right to acknowledge is used once
TransferAsked ==
  /\ acking' = (acking /\ (master.send \/ ~master.started))
  /\ UNCHANGED << master, slave, transferring, errors, survey, expired, writable, used >>

\* ... or the operator aborted: nothing is said to the slave
TransferAborted ==
  /\ transferring /\ master.abort
  /\ transferring' = FALSE
  /\ UNCHANGED << master, slave, errors, acking, survey, expired, writable, used >>

\* TransferMasterAskToAbort, the button beside the bar of a transfer
TransferMasterAskToAbort ==
  /\ transferring /\ ~master.abort
  /\ master' = [master EXCEPT !.abort = TRUE]
  /\ UNCHANGED << slave, transferring, errors, acking, survey, expired, writable, used >>

-----------------------------------------------------------------------------
(* The slave answers: MonitorParseResponseFileTransfer, SlaveMode.          *)

\* what a start asks for: the file is created, or opened and its first block read
Opened(q) ==
  LET fresh == [slave EXCEPT !.open = FALSE, !.started = FALSE, !.file = q.file] IN
  CASE q.action = "SendFile" -> StartToWriteFileToReceive([fresh EXCEPT !.send = TRUE])
    [] q.action = "ReceiveFile" ->
         StartToReadFileToSend([fresh EXCEPT !.send = FALSE], q.file \notin Missing)
    [] OTHER -> slave

Remounted(q) == writable \/ q.action = "SendFile"       \* RemountFileSystemRW

\* a block of the file the master sends
SlaveTakes(q) ==
  LET t == Opened(q)
      wanted == q.block = t.block
      after == IF wanted THEN AddDatasToFileToReceive(t, q.datas, Remounted(q)) ELSE t
      ok == IF wanted THEN Added(q.datas, Remounted(q)) ELSE q.action = "SendFile"
      complete == wanted /\ ok /\ after.block = -1
  IN /\ t.send
     /\ slave' = after
     /\ survey' = IF complete THEN Asleep ELSE 0
     /\ writable' = (Remounted(q) /\ ~complete)         \* RemountFileSystemRO
     /\ used' = IF complete                             \* TransferFileCompletedForSlave
                THEN [by |-> "slave", file |-> t.file, content |-> t.content] ELSE used

TakesAnswer(q) ==
  LET t == Opened(q) IN
  [req |-> "Transfer", block |-> q.block, datas |-> End,
   action |-> IF IF q.block = t.block THEN Added(q.datas, Remounted(q))
                                      ELSE q.action = "SendFile"
              THEN "Ack" ELSE "Error"]

\* an acknowledge of the file the slave sends, or a question to repeat
(* Mutant: any acknowledge asks for the next block, a late one too. *)
NextReadAny(q) ==
  LET t == Opened(q) IN t.started /\ q.action = "Ack"

NextRead(q) ==
  LET t == Opened(q) IN t.started /\ q.action = "Ack" /\ q.block = t.block

SlaveGives(q) ==
  LET t == Opened(q) IN
  /\ ~t.send
  /\ slave' = IF NextRead(q) THEN DoNextRead(t) ELSE [t EXCEPT !.started = TRUE]
  /\ UNCHANGED << survey, writable, used >>

GivesAnswer(q) ==
  LET t == IF NextRead(q) THEN DoNextRead(Opened(q)) ELSE Opened(q) IN
  [req |-> "Transfer", block |-> t.block, datas |-> t.datas, action |-> "none"]

TransferAnswer(q) == IF Opened(q).send THEN TakesAnswer(q) ELSE GivesAnswer(q)

SlaveTransfers(q) ==
  /\ SlaveTakes(q) \/ SlaveGives(q)
  /\ UNCHANGED << master, transferring, errors, acking, expired >>

-----------------------------------------------------------------------------
(* The master reads the answer: MonitorParseResponseFileTransfer.           *)

\* the answer to what the master sent, good: the next block, or the end
SentOk(a) == master.send /\ a.action = "Ack" /\ a.block = master.block

GoOnSending(a) ==
  /\ SentOk(a)
  /\ master' = IF master.open THEN DoNextRead([master EXCEPT !.started = TRUE])
                              ELSE [master EXCEPT !.started = TRUE]
  /\ transferring' = (transferring /\ master.open)
  /\ errors' = 0
  /\ UNCHANGED << acking, used >>

\* a block of the file the slave sends, the one waited for
(* Mutant: whichever block comes is appended. *)
ReceivedAny(a) == ~master.send
ReceivedOk(a) == ~master.send /\ a.block = master.block

GoOnReceiving(a) ==
  /\ ReceivedOk(a)
  /\ master' = AddDatasToFileToReceive([master EXCEPT !.started = TRUE], a.datas, TRUE)
  /\ acking' = TRUE
  /\ errors' = 0
  /\ transferring' = (transferring /\ a.datas # End)
  /\ used' = IF a.datas = End                           \* TransferFileCompletedForMaster
             THEN [by |-> "master", file |-> master.file, content |-> master.content]
             ELSE used

(* Mutant: the master goes on whatever the number of errors. *)
WrongForever(a) ==
  /\ ~SentOk(a) /\ ~ReceivedOk(a)
  /\ errors' = IF errors > MaxErrors THEN errors ELSE errors + 1
  /\ UNCHANGED << transferring, master, acking, used >>

\* anything else is an error, and too many of them stop the transfer
WrongAnswer(a) ==
  /\ ~SentOk(a) /\ ~ReceivedOk(a)
  /\ errors' = IF errors > MaxErrors THEN errors ELSE errors + 1
  /\ transferring' = (transferring /\ errors' <= MaxErrors)
  /\ UNCHANGED << master, acking, used >>

MasterTransfers(a) ==
  /\ GoOnSending(a) \/ GoOnReceiving(a) \/ WrongAnswer(a)
  /\ UNCHANGED << slave, survey, expired, writable >>

-----------------------------------------------------------------------------
(* The logic task of the target: SecurityForAbortedTransferToSlave.  The    *)
(* test and the closing are two steps, a question may come between them.    *)

SecurityTick ==
  /\ survey # Asleep /\ ~expired
  /\ survey' = survey + 1
  /\ expired' = (survey' > SurveyTicks)
  /\ UNCHANGED << master, slave, transferring, errors, acking, writable, used >>

(* Mutant: the file is closed, the file system stays read-write. *)
SecurityClosesOnly ==
  /\ expired
  /\ expired' = FALSE
  /\ survey' = Asleep
  /\ slave' = [slave EXCEPT !.open = FALSE]
  /\ UNCHANGED << writable, master, transferring, errors, acking, used >>

SecurityCloses ==
  /\ expired
  /\ expired' = FALSE
  /\ survey' = Asleep
  /\ slave' = [slave EXCEPT !.open = FALSE]             \* CloseFileTransfer
  /\ writable' = FALSE                                  \* RemountFileSystemRO
  /\ UNCHANGED << master, transferring, errors, acking, used >>

\* the target starts again: InitMonitorTransferFile, read-only file system
RestartTransfer ==
  /\ slave' = IdleTransfer
  /\ survey' = Asleep /\ expired' = FALSE /\ writable' = FALSE
  /\ UNCHANGED << master, transferring, errors, acking, used >>
=============================================================================
