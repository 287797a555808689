------------------------------- MODULE Storage -------------------------------
(* The project in memory and the files it is saved in (files_project.c and *)
(* who calls it: the menus of the operator in the GTK thread, the transfers *)
(* of the monitor thread, the start of the program). A project is saved in *)
(* the little files of a temporary directory, then these are joined in one *)
(* archive, written over the one there was; it is loaded the other way.    *)
(*                                                                         *)
(* Abstracted: an edit gives any of Projects; a load is one step, and so   *)
(* are the loads of the little files; the compression; the dialogs that    *)
(* ask for a confirmation, the operator always going on. The buffer of the *)
(* file being written goes to the disk by FlushLines lines.                *)
EXTENDS ProjectFiles
CONSTANTS
    Projects,    \* what an operator may make of the project
    Chosen,      \* the files that he chooses
    First,       \* the one of them that the preferences start with
    Received,    \* the file a transfer writes
    Sent,        \* the file a transfer sends
    ListMax,     \* NBR_PROJECT_FILES_LIST
    FlushLines,
    SavesMax, EditsMax, TransfersMax,  \* bounds of the run
    Careful      \* no file fails to open or to be written, and the monitor thread
                 \* saves only when nothing is left to confirm, while he does nothing

Names == Chosen \cup {Received, Sent}
NoName == ""
Savers == {"gtk", "monitor"}

VARIABLES
    mem,        \* the project in memory
    name,       \* CurrentProjectFileName
    asks,       \* AskConfirmationToQuit
    editable,   \* the projects that an operator may make: Projects
    disk,       \* the archive under each name; an empty one stands for none
    startup,    \* DefaultProjectFileNameToLoadAtStartup
    tmp,        \* the files of TmpDirectoryProject
    list,       \* pFilesProjectList: NULL, written "", for the entries freed
    thread,     \* where a thread is in SaveProjectFiles, and of which file
    incoming,   \* the project that a transfer receives, and its lines written
    kept,       \* history: the projects whose save in each file ended
    held,       \* history: the project as it was last saved or loaded
    silent,     \* history: it was changed since by an edit that does not raise asks
    saves, edits, transfers

storageVars == <<mem, name, asks, editable, disk, startup, tmp, list, thread, incoming,
                 kept, held, silent, saves, edits, transfers>>
files == <<disk, kept, startup>>

ASSUME StorageAssumption ==
    /\ ListMax \in Nat /\ FlushLines \in Nat \ {0} /\ Careful \in BOOLEAN
    /\ SavesMax \in Nat /\ EditsMax \in Nat /\ TransfersMax \in Nat
    /\ First \in Chosen /\ NoName \notin Names /\ Received # Sent /\ Chosen \cap {Received, Sent} = {}

SECTION_IN_LADDER == 0
ELE_COMPAR == 7
ELE_OUTPUT_OPERATE == 17

Idle == [at |-> "idle", next |-> 0, file |-> NoName]
NoTransfer == [from |-> {}, lines |-> 0]
Unsaved == {}  \* in kept: no save ended, or another one began

-----------------------------------------------------------------------------
(* The archive. *)
StartLine == <<"_FILES_CLASSICLADDER2">>
EndLine == <<"_/FILES_CLASSICLADDER2">>
HeadLine(file) == <<"_FILE-", file>>
FootLine(file) == <<"_/FILE-", file>>

JoinFiles(dir, names) ==
    <<StartLine>>
    \o FlattenSeq([k \in DOMAIN names |->
                     IF names[k] \in DOMAIN dir
                     THEN <<HeadLine(names[k])>> \o dir[names[k]] \o <<FootLine(names[k])>> ELSE <<>>])
    \o <<EndLine>>

(* SplitFiles copies what follows a head up to a foot, whatever is between  *)
(* and without looking at the first line of it; it ends at the end line.   *)
NextAt(archive, k, Is(_)) ==
    CHOOSE j \in k .. Len(archive) + 1 :
        /\ j <= Len(archive) => Is(archive[j])
        /\ \A i \in k .. j - 1 : ~Is(archive[i])

SplitFile(archive, s) ==
    LET at == NextAt(archive, s.at, LAMBDA line : line[1] = "_FILE-" \/ line = EndLine)
        foot == NextAt(archive, at + 2, LAMBDA line : line[1] = "_/FILE-")
    IN IF at < Len(archive)
       THEN [at |-> foot, complete |-> FALSE,
             files |-> (archive[at][2] :> SubSeq(archive, at + 1, foot - 1)) @@ s.files]
       ELSE [s EXCEPT !.at = at, !.complete = at = Len(archive) /\ archive[at] = EndLine]

SplitFiles(archive) ==
    LET heads == SelectSeq(archive, LAMBDA line : line[1] = "_FILE-")
        after[k \in 0 .. Len(heads) + 1] ==
            IF k = 0 THEN [at |-> 2, complete |-> FALSE, files |-> <<>>]
            ELSE SplitFile(archive, after[k - 1])
    IN IF archive = <<>> \/ archive[1] # StartLine THEN [complete |-> FALSE, files |-> <<>>]
       ELSE after[Len(heads) + 1]

(* What the archive of a project is, saved and joined in one go. *)
SavedFiles(p) == FlattenSeq([k \in DOMAIN SaveOrder |-> FilesOf(SaveOrder[k], p)])
ArchiveOf(p) == JoinFiles([f \in ToSet(SavedFiles(p)) |-> Saved(f, p)], SavedFiles(p))

-----------------------------------------------------------------------------
(* The project in memory when the program starts: 0 for each default of    *)
(* InitModbusMasterBeforeReadConf and InitInfosGUI.                        *)
AtStart == InitProjectDatas(KeysAll(SerialKeys \o ComKeys, 0), <<<<0>>, <<0>>, <<0>>, <<0>>>>)

StorageInit ==
    /\ mem = AtStart
    /\ name = NoName /\ asks = FALSE /\ editable = Projects
    /\ disk = [n \in Names |-> <<>>] /\ startup = First
    /\ tmp = <<>> /\ list = <<>> /\ thread = [t \in Savers |-> Idle]
    /\ incoming = NoTransfer /\ kept = [n \in Names |-> Unsaved] /\ held = mem
    /\ silent = FALSE
    /\ saves = 0 /\ edits = 0 /\ transfers = 0

NoSave == \A t \in Savers : thread[t] = Idle
OperatorFree == thread["gtk"] = Idle /\ (Careful => NoSave)

(* The operator edits the project by an operation that marks it: a rung or *)
(* a page applied, the sections manager, the symbols.                      *)
Edit ==
    /\ OperatorFree /\ edits < EditsMax
    /\ edits' = edits + 1
    /\ \E p \in editable : mem' = [p EXCEPT !.infos["PARAM_VERSION"] = mem.infos["PARAM_VERSION"]]
    /\ asks' = TRUE
    /\ UNCHANGED <<name, editable, files, tmp, list, thread, incoming, held, silent, saves, transfers>>

(* He changes it by one that does not: asks stays as it was. *)
Silently(project) ==
    /\ OperatorFree /\ edits < EditsMax /\ project # mem
    /\ edits' = edits + 1
    /\ mem' = project /\ silent' = TRUE
    /\ UNCHANGED <<name, asks, editable, files, tmp, list, thread, incoming, held, saves, transfers>>

(* The rungs of a section, from its first one along their links. *)
RungsOf(section) ==
    LET at[k \in Indexes] == IF k = 0 THEN section.numbers[3]
                             ELSE IF at[k - 1] = section.numbers[4] THEN at[k - 1]
                             ELSE mem.rungs[at[k - 1]].next
    IN {at[k] : k \in Indexes}

(* The expressions of the elements that compare or operate. *)
ExprsOf(rung) ==
    {e[4] : e \in {e \in UNION {ToSet(rung.rows[y]) : y \in 1 .. Height} :
                    e[1] \in {ELE_COMPAR, ELE_OUTPUT_OPERATE}}}

(* The project without the rung r of the section s. *)
WithoutRung(s, r) ==
    LET first == mem.sections[s].numbers[3]
        last == mem.sections[s].numbers[4]
        before == mem.rungs[r].prev
        after == mem.rungs[r].next
        exprs == ExprsOf(mem.rungs[r])
    IN [mem EXCEPT
          !.rungs = [i \in Indexes |-> [@[i] EXCEPT !.used = @ /\ i # r,
                                                   !.next = IF r # first /\ i = before THEN after ELSE @,
                                                   !.prev = IF r # last /\ i = after THEN before ELSE @]],
          !.sections[s].numbers[3] = IF r = first THEN after ELSE @,
          !.sections[s].numbers[4] = IF r = last THEN before ELSE @,
          !.exprs = [i \in Indexes |-> IF i \in exprs THEN Empty ELSE @[i]]]

(* The current rung is deleted, but not the last one of its section. *)
DeleteCurrentRung ==
    \E s \in {s \in Indexes : mem.sections[s].used /\ mem.sections[s].numbers[1] = SECTION_IN_LADDER} :
        /\ mem.sections[s].numbers[3] # mem.sections[s].numbers[4]
        /\ \E r \in RungsOf(mem.sections[s]) : Silently(WithoutRung(s, r))

(* The window of the configuration is applied; the other name of a section *)
(* and the variables to spy, which mark nothing either, are left out.      *)
GetSettings ==
    \E p \in editable :
        Silently([mem EXCEPT !.general = p.general, !.inputs = p.inputs, !.outputs = p.outputs,
                             !.requests = p.requests, !.slaves = p.slaves, !.modbus = p.modbus,
                             !.events = p.events, !.alarms = p.alarms, !.modem = p.modem])

(* DoNewProject: a new project, without a file. *)
NewProject ==
    /\ OperatorFree /\ edits < EditsMax
    /\ edits' = edits + 1
    /\ mem' = InitProjectDatas(mem.modbus, mem.spy)
    /\ name' = NoName /\ asks' = TRUE
    /\ UNCHANGED <<editable, files, tmp, list, thread, incoming, held, silent, saves, transfers>>

(* CleanTmpLadderDirectory, and the first file of SaveAllLadderDatas next. *)
Begin(t, file) ==
    /\ saves < SavesMax /\ saves' = saves + 1
    /\ thread' = [thread EXCEPT ![t] = [at |-> "save", next |-> 1, file |-> file]]
    /\ tmp' = <<>>

(* DoTheSave: the date is set and a version that is a number goes up, when *)
(* there is something to save; Save As chooses the file first.             *)
GtkSave ==
    /\ OperatorFree
    /\ \E n \in Chosen \cup {name} :
        /\ n # NoName /\ name' = n /\ Begin("gtk", n)
        /\ Careful => n # Received \/ incoming = NoTransfer
    /\ mem' = IF ~asks THEN mem
              ELSE [mem EXCEPT !.infos["MODIF_DATE"] = <<Now>>,
                               !.infos["PARAM_VERSION"] = IF @[1] >= 0 THEN <<Number(@[1]) + 1>> ELSE @]
    /\ UNCHANGED <<asks, editable, files, list, incoming, held, silent, edits, transfers>>

(* TransferMasterStart, ConvertFileNumForSlave: the project is saved to be  *)
(* sent to the other side.                                                 *)
MonitorSave ==
    /\ thread["monitor"] = Idle /\ (Careful => NoSave /\ ~asks)
    /\ Begin("monitor", Sent)
    /\ UNCHANGED <<mem, name, asks, editable, files, list, incoming, held, silent, edits, transfers>>

(* AddFileToFilesProjectList, for each of some files. *)
Listed(names) == SubSeq(names, 1, Min({Len(names), ListMax - Len(list)}))

(* One call of SaveAllLadderDatas: a little file, or all the rungs; what   *)
(* cannot be written is left empty, and no one knows. The last one done,   *)
(* there is nothing left to confirm.                                       *)
SaveFile(t) ==
    /\ thread[t].at = "save"
    /\ LET k == thread[t].next
           names == FilesOf(SaveOrder[k], mem)
       IN /\ \E written \in IF Careful THEN {TRUE} ELSE BOOLEAN :
                tmp' = [f \in ToSet(names) |-> IF written THEN Saved(f, mem) ELSE <<>>] @@ tmp
          /\ list' = list \o Listed(names)
          /\ asks' = (asks /\ k < Len(SaveOrder))
          /\ thread' = [thread EXCEPT ![t].next = k + 1,
                                      ![t].at = IF k < Len(SaveOrder) THEN "save" ELSE "open"]
    /\ UNCHANGED <<mem, name, editable, files, incoming, held, silent, saves, edits, transfers>>

(* FreeFilesProjectList: the entries are freed, their number is not reset. *)
Freed == [k \in DOMAIN list |-> NoName]

(* JoinFiles opens the archive, which loses what it had, or cannot. *)
OpenArchive(t) ==
    /\ thread[t].at = "open"
    /\ \E opened \in IF Careful THEN {TRUE} ELSE BOOLEAN :
        /\ disk' = IF opened THEN [disk EXCEPT ![thread[t].file] = <<>>] ELSE disk
        /\ kept' = IF opened THEN [kept EXCEPT ![thread[t].file] = Unsaved] ELSE kept
        /\ thread' = [thread EXCEPT ![t] = IF opened THEN [@ EXCEPT !.at = "join"] ELSE Idle]
        /\ list' = IF opened THEN list ELSE Freed
    /\ UNCHANGED <<mem, name, asks, editable, startup, tmp, incoming, held, silent, saves, edits, transfers>>

(* It writes the files of the list and closes the archive. *)
CloseArchive(t) ==
    /\ thread[t].at = "join"
    /\ disk' = [disk EXCEPT ![thread[t].file] = JoinFiles(tmp, list)]
    /\ kept' = [kept EXCEPT ![thread[t].file] = {mem}]
    /\ held' = IF t = "gtk" THEN mem ELSE held
    /\ silent' = (silent /\ t # "gtk")
    /\ list' = Freed /\ thread' = [thread EXCEPT ![t] = Idle]
    /\ UNCHANGED <<mem, name, asks, editable, startup, tmp, incoming, saves, edits, transfers>>

(* Mutant: the project is loaded even when the archive was cut. *)
LoadProjectFilesAnyway(archive) ==
    LET split == SplitFiles(archive)
    IN [complete |-> split.complete, files |-> split.files,
        mem |-> LoadAllLadderDatas(split.files, mem), asks |-> FALSE]

(* Mutant: a load that fails lowers the flag all the same. *)
LoadProjectFilesLowering(archive) ==
    LET split == SplitFiles(archive)
    IN [complete |-> split.complete, files |-> split.files, asks |-> FALSE,
        mem |-> IF split.complete THEN LoadAllLadderDatas(split.files, mem) ELSE mem]

(* LoadProjectFiles: the directory is cleaned and the archive is split in  *)
(* it; the project is loaded when that succeeded. One without section gets *)
(* one, that is to be saved.                                               *)
LoadProjectFiles(archive) ==
    LET split == SplitFiles(archive)
        loaded == LoadAllLadderDatas(split.files, mem)
    IN IF split.complete
       THEN [complete |-> TRUE, files |-> split.files, mem |-> loaded,
             asks |-> ~\E line \in ToSet(split.files["sections.csv"]) : line[1] = ""]
       ELSE [complete |-> FALSE, files |-> split.files, mem |-> mem, asks |-> asks]

Install(result) ==
    /\ mem' = result.mem /\ asks' = result.asks /\ tmp' = result.files
    /\ held' = IF result.complete THEN result.mem ELSE held
    /\ silent' = (silent /\ ~result.complete)

(* LoadNewLadder: the name is the one chosen, whatever the load gives. *)
GtkLoad ==
    /\ OperatorFree
    /\ \E n \in Chosen : name' = n /\ Install(LoadProjectFiles(disk[n]))
    /\ UNCHANGED <<editable, files, list, thread, incoming, saves, edits, transfers>>

(* A transfer begins: StartToWriteFileToReceive opens the file it writes.  *)
BeginTransfer ==
    /\ incoming = NoTransfer /\ transfers < TransfersMax
    /\ Careful => \A t \in Savers : thread[t].file # Received
    /\ transfers' = transfers + 1
    /\ \E p \in editable : incoming' = [from |-> {p}, lines |-> 0]
    /\ disk' = [disk EXCEPT ![Received] = <<>>] /\ kept' = [kept EXCEPT ![Received] = Unsaved]
    /\ UNCHANGED <<mem, name, asks, editable, startup, tmp, list, thread, held, silent, saves, edits>>

(* Some lines of the archive of the other side are written. *)
ReceivePart ==
    /\ \E p \in incoming.from :
        LET archive == ArchiveOf(p)
            lines == Min({incoming.lines + FlushLines, Len(archive)})
        IN /\ incoming.lines < Len(archive)
           /\ incoming' = [incoming EXCEPT !.lines = lines]
           /\ disk' = [disk EXCEPT ![Received] = SubSeq(archive, 1, lines)]
           /\ kept' = [kept EXCEPT ![Received] = IF lines = Len(archive) THEN {p} ELSE Unsaved]
    /\ UNCHANGED <<mem, name, asks, editable, startup, tmp, list, thread, held, silent, saves, edits, transfers>>

(* A cut in the transfer leaves what was written. *)
AbortTransfer ==
    /\ incoming # NoTransfer
    /\ incoming' = NoTransfer
    /\ UNCHANGED <<mem, name, asks, editable, files, tmp, list, thread, held, silent, saves, edits, transfers>>

WholeReceived ==
    /\ thread["monitor"] = Idle /\ (Careful => NoSave)
    /\ \E p \in incoming.from : incoming.lines = Len(ArchiveOf(p))
    /\ incoming' = NoTransfer

(* TransferFileCompletedForMaster: the project of the target has no file.  *)
LoadFromTarget ==
    /\ WholeReceived
    /\ name' = NoName /\ Install(LoadProjectFiles(disk[Received]))
    /\ UNCHANGED <<editable, files, list, thread, saves, edits, transfers>>

(* TransferFileCompletedForSlave: the project received is the one to start *)
(* with from now on, when it is loaded.                                    *)
LoadFromMaster ==
    /\ WholeReceived
    /\ LET result == LoadProjectFiles(disk[Received])
       IN /\ name' = Received /\ Install(result)
          /\ startup' = IF result.complete THEN Received ELSE startup
    /\ UNCHANGED <<editable, disk, kept, list, thread, saves, edits, transfers>>

(* The process stops at any time, the archive being written losing what is *)
(* not on the disk, and starts again with the project of its preferences.  *)
Restart ==
    /\ \E blocks \in 0 .. Len(JoinFiles(tmp, list)) \div FlushLines :
        /\ NoSave => blocks = 0
        /\ disk' = [n \in Names |-> IF \E t \in Savers : thread[t].at = "join" /\ thread[t].file = n
                                    THEN SubSeq(JoinFiles(tmp, list), 1, blocks * FlushLines) ELSE disk[n]]
    /\ LET result == LoadProjectFiles(disk'[startup])
       IN /\ tmp' = result.files
          /\ mem' = IF result.complete THEN result.mem ELSE AtStart
          /\ asks' = (result.complete /\ result.asks)
    /\ held' = mem' /\ silent' = FALSE /\ name' = startup
    /\ list' = <<>> /\ thread' = [t \in Savers |-> Idle] /\ incoming' = NoTransfer
    /\ UNCHANGED <<editable, startup, kept, saves, edits, transfers>>

SaveSteps(t) == SaveFile(t) \/ OpenArchive(t) \/ CloseArchive(t)

StorageNext ==
    \/ Edit \/ DeleteCurrentRung \/ GetSettings
    \/ NewProject \/ GtkSave \/ MonitorSave \/ GtkLoad
    \/ \E t \in Savers : SaveSteps(t)
    \/ BeginTransfer \/ ReceivePart \/ AbortTransfer \/ LoadFromTarget \/ LoadFromMaster
    \/ Restart

StorageSpec == StorageInit /\ [][StorageNext]_storageVars

-----------------------------------------------------------------------------
(* A file loads exactly when the last save or transfer into it went to its *)
(* end, and gives the project as it was then, whatever was written, cut or *)
(* overwritten before.                                                     *)
LoadsWhole ==
    \A n \in Names :
        LET split == SplitFiles(disk[n])
        IN IF kept[n] = Unsaved THEN ~split.complete
           ELSE split.complete /\ \A p \in kept[n] : Meaning(LoadAllLadderDatas(split.files, mem)) = Meaning(p)

(* The project in memory changes only by an edit of the operator, by the   *)
(* date and version that a save gives it, by the whole of a project that   *)
(* was saved, or for the empty one of a start: a file that fails to load   *)
(* leaves it as it is.                                                     *)
NothingHalfLoaded ==
    [][mem' # mem => \/ edits' # edits
                     \/ mem' = [mem EXCEPT !.infos = mem'.infos]
                     \/ mem' = AtStart
                     \/ \E n \in Names : \E p \in kept'[n] : Meaning(mem') = Meaning(p)]_storageVars

(* When the operator may quit without being asked, the project in memory   *)
(* is the one that was last saved in a file he chose, or loaded: whatever  *)
(* fails, the saves and loads do not lower the flag on work that an edit   *)
(* marked. It says nothing of the edits that mark nothing.                 *)
QuitAsks == thread["gtk"] = Idle /\ ~asks /\ ~silent => mem = held

(* What the question before quitting says, of all the edits of the rungs:  *)
(* false, a rung deleted since the last save is lost without a question.   *)
RungsNotLost == thread["gtk"] = Idle /\ ~asks => mem.rungs = held.rungs
=============================================================================
