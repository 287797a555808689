------------------------------ MODULE Program -------------------------------
(* The rungs, their links, the sections and who uses them: the logic task  *)
(* that refreshes the sections (calc.c), the rung editor (edit.c) that     *)
(* changes the links while the engine runs, and the sections manager       *)
(* (manager.c), refused while it runs. The operator's thread and the logic *)
(* task share RungArray and SectionArray with no lock: a write the other   *)
(* one can see is a step of its own.                                       *)
(*                                                                         *)
(* Abstracted: a rung is its links and the one coil that moves the         *)
(* refresh, a Jump or a Call, whose left side is true or not; a section in *)
(* sequential is a section the ladder engine leaves alone; InfosGene's     *)
(* selected section and SectionNbrSelected of the manager, which are       *)
(* always set together, are one variable.                                  *)
EXTENDS Integers, SequencesExt
CONSTANTS
    NbrRungs, NbrSections, NbrSubRoutines,
    MadMax,       \* 99999, the jumps of one refresh of a section
    SelfCalls,    \* a sub-routine calls itself, or one that calls it back:
                  \* the code bounds nothing then, and its stack overflows
    CoilsMax,     \* the bound of the rungs with a Jump or a Call
    EditsMax,     \* the bound of the edits applied during one scan
    DeletesLast,  \* the last rung of a section is deleted on a running engine
    StrayJumps,   \* a Jump is left to lead to a rung of another section, or
                  \* to a rung deleted whose number is used again
    StaleNumbers  \* a section in sequential takes the place of a sub-routine

ASSUME NumbersAssumption ==
    /\ NbrRungs \in Nat \ {0} /\ NbrSections \in Nat \ {0} /\ NbrSubRoutines \in Nat
    /\ MadMax \in Nat /\ CoilsMax \in Nat /\ EditsMax \in Nat
    /\ SelfCalls \in BOOLEAN /\ DeletesLast \in BOOLEAN
    /\ StrayJumps \in BOOLEAN /\ StaleNumbers \in BOOLEAN

Rungs == 0 .. NbrRungs - 1
Sections == 0 .. NbrSections - 1
SubRoutines == 0 .. NbrSubRoutines - 1
None == -1

VARIABLES
    used, next, prev,  \* of RungArray: Used, NextRung, PrevRung
    coil,      \* of RungArray: the coil of a rung
    sections,  \* SectionArray
    infos,     \* InfosGene: FirstRung, LastRung, CurrentRung, CurrentSection
    edit,      \* EditDatas: the rung under edit, its number and what for
    op,        \* the write the editor is at, or "idle"
    running,   \* LadderState is RUN
    at,        \* where the logic task is: "idle", "rung", "last" or "next"
    stack,     \* the sections under refresh, the called one last
    edits      \* history: the edits applied since this scan began

rungs == << used, next, prev, coil >>
task == << at, stack >>
vars == << rungs, sections, infos, edit, op, running, task, edits >>

NoCoil == [kind |-> "none", to |-> 0]
Jumps == {[kind |-> "jump", to |-> r] : r \in Rungs}
Calls == {[kind |-> "call", to |-> n] : n \in SubRoutines}

NoEdit == [mode |-> "none", num |-> 0, coil |-> NoCoil, next |-> None, prev |-> None]

(* The rungs met from f by following NextRung, up to l or to a dead end. *)
Walk(f, l) ==
    LET met[i \in Rungs] ==
            IF i = 0 THEN f
            ELSE LET before == met[i - 1]
                 IN  IF before \in {l, None} THEN None ELSE next[before]
    IN  [i \in 1 .. Cardinality({j \in Rungs : met[j] # None}) |-> met[i - 1]]

IsLadder(s) == sections[s].used /\ sections[s].ladder

(* A section as the engine sees it. *)
Chain(s) == IF IsLadder(s) THEN Walk(sections[s].first, sections[s].last) ELSE << >>

(* The rungs that Walk meets, as the smallest set with f and, except after *)
(* l, the next rung of each of its rungs.                                  *)
Closed(S, f, l) == (f # None => f \in S) /\ \A r \in S \ {l} : next[r] # None => next[r] \in S
Met(f, l) == {r \in Rungs : \A S \in SUBSET Rungs : Closed(S, f, l) => r \in S}

RungsOf(s) == IF IsLadder(s) THEN Met(sections[s].first, sections[s].last) ELSE {}

(* The section on display, as the editor sees it. *)
Displayed == Met(infos.first, infos.last)

SearchSubRoutineWithItsNumber(n) ==
    LET found == {s \in Sections : sections[s].used /\ sections[s].sub = n}
    IN  IF found = {} THEN None ELSE Min(found)

NewSection == [used |-> FALSE, ladder |-> TRUE, sub |-> None, first |-> 0, last |-> 0]

(* The project a new user finds: one section, "Prog1", with one rung. *)
Init ==
    /\ used = [r \in Rungs |-> r = 0]
    /\ next = [r \in Rungs |-> None] /\ prev = [r \in Rungs |-> None]
    /\ coil = [r \in Rungs |-> NoCoil]
    /\ sections = [s \in Sections |-> [NewSection EXCEPT !.used = (s = 0)]]
    /\ infos = [first |-> 0, last |-> 0, current |-> 0, section |-> 0]
    /\ edit = NoEdit /\ op = "idle"
    /\ running = FALSE
    /\ at = "idle" /\ stack = << >>
    /\ edits = 0

-----------------------------------------------------------------------------
(* The logic task.                                                         *)

Top == stack[Len(stack)]

Refreshed == [Top EXCEPT !.due = @ \ {Top.rung}]

(* due, history: rungs of the section that this refresh must still meet.   *)
Frame(s) == [section |-> s, rung |-> sections[s].first, mad |-> 0, due |-> RungsOf(s)]

(* The main sections in ladder from a place of SectionArray on. *)
Mains(from) == {s \in from .. NbrSections - 1 : IsLadder(s) /\ sections[s].sub = None}

ScanBegin ==
    /\ at = "idle" /\ running /\ Mains(0) # {}
    /\ at' = "rung" /\ stack' = << Frame(Min(Mains(0))) >>
    /\ edits' = IF op = "idle" THEN 0 ELSE 1
    /\ UNCHANGED << rungs, sections, infos, edit, op, running >>

(* A section is done: the refresh goes on after its call, with the next    *)
(* main section, or is over.                                               *)
Done ==
    LET mains == Mains(Head(stack).section + 1)
    IN  IF Len(stack) > 1 THEN at' = "last" /\ stack' = Front(stack)
        ELSE IF mains # {} THEN at' = "rung" /\ stack' = << Frame(Min(mains)) >>
        ELSE at' = "idle" /\ stack' = << >>

(* Mutant: the wrong end is compared. *)
TestFirst ==
    IF Top.rung = sections[Top.section].first
    THEN Done
    ELSE at' = "next" /\ stack' = ReplaceAt(stack, Len(stack), Refreshed)

(* The rung refreshed is met; was it the last one? *)
TestLast ==
    IF Top.rung = sections[Top.section].last
    THEN Done
    ELSE at' = "next" /\ stack' = ReplaceAt(stack, Len(stack), Refreshed)

Refreshing == at = "rung" /\ Top.rung \in Rungs

(* Mutant: jumps are not counted. *)
JumpUncounted ==
    /\ Refreshing /\ coil[Top.rung].kind = "jump"
    /\ LET goto == coil[Top.rung].to
       IN  IF used[goto]
           THEN /\ stack' = ReplaceAt(stack, Len(stack), [Top EXCEPT !.rung = goto, !.due = {}])
                /\ UNCHANGED << at, running >>
           ELSE Done /\ UNCHANGED running
    /\ UNCHANGED << rungs, sections, infos, edit, op, edits >>

(* A Jump whose left side is true: to an unused rung, it ends the section; *)
(* one too many stops the engine. What is left out is not due any more.    *)
Jump ==
    /\ Refreshing /\ coil[Top.rung].kind = "jump"
    /\ LET goto == coil[Top.rung].to
       IN  /\ IF used[goto] /\ Top.mad < MadMax
              THEN /\ stack' = ReplaceAt(stack, Len(stack),
                                  [Top EXCEPT !.rung = goto, !.mad = @ + 1, !.due = {}])
                   /\ UNCHANGED at
              ELSE Done
           /\ running' = (running /\ Top.mad < MadMax)
    /\ UNCHANGED << rungs, sections, infos, edit, op, edits >>

(* A Call whose left side is true: the rung goes on after the sub-routine. *)
(* How deep calls are nested is not tested.                                *)
Call ==
    /\ Refreshing /\ coil[Top.rung].kind = "call"
    /\ LET s == SearchSubRoutineWithItsNumber(coil[Top.rung].to)
       IN  /\ s # None
           /\ stack' = Append(ReplaceAt(stack, Len(stack), Refreshed), Frame(s))
    /\ UNCHANGED << rungs, sections, infos, edit, op, running, at, edits >>

(* Nothing in the rung moves the refresh. *)
RefreshRung ==
    /\ Refreshing
    /\ TestLast
    /\ UNCHANGED << rungs, sections, infos, edit, op, running, edits >>

Return ==
    /\ at = "last"
    /\ TestLast
    /\ UNCHANGED << rungs, sections, infos, edit, op, running, edits >>

FollowNext ==
    /\ at = "next"
    /\ stack' = ReplaceAt(stack, Len(stack), [Top EXCEPT !.rung = next[Top.rung]])
    /\ at' = "rung"
    /\ UNCHANGED << rungs, sections, infos, edit, op, running, edits >>

Refresh == Jump \/ Call \/ RefreshRung \/ Return \/ FollowNext
Scan == ScanBegin \/ Refresh

-----------------------------------------------------------------------------
(* The selection. GTK calls these one after the other, in its own thread.  *)

Idle == op = "idle"
Resting == at = "idle" /\ ~ running
Editing == edit.mode # "none"

(* Given between two scans: a scan under way does not read LadderState, so *)
(* that an order given during it changes nothing before its end.           *)
DoFlipFlopRunStop ==
    /\ Idle /\ at = "idle"
    /\ running' = ~ running
    /\ UNCHANGED << rungs, sections, infos, edit, op, task, edits >>

(* Clicks, the arrows and the search make a rung of the section current.   *)
ChoiceOfTheCurrentRung ==
    /\ Idle /\ IsLadder(infos.section)
    /\ \E r \in Displayed : infos' = [infos EXCEPT !.current = r]
    /\ UNCHANGED << rungs, sections, edit, op, running, task, edits >>

Selected(s, fields) == [first |-> fields.first, last |-> fields.last,
                        current |-> fields.first, section |-> s]

(* Another section is displayed: by the manager's list, not while editing, *)
(* or by the menu, one section before or after, which cancels the edit     *)
(* unless something was drawn (a coil or any other element) and the user   *)
(* refuses.                                                                *)
SetSectionSelected ==
    /\ Idle
    /\ \E s \in Sections :
          /\ sections[s].used
          /\ Editing => s - infos.section \in {-1, 1}
          /\ infos' = Selected(s, sections[s])
    /\ \/ edit' = NoEdit
       \/ UNCHANGED edit
    /\ UNCHANGED << rungs, sections, op, running, task, edits >>

-----------------------------------------------------------------------------
(* The rung editor. With an edit open, the buttons, keys and menus offer   *)
(* no other structural operation.                                          *)

FreeRungs == {r \in Rungs : ~ used[r]}
FindFreeRung == IF FreeRungs = {} THEN None ELSE Min(FreeRungs)

(* AddRung and InsertRung: the number is found now, and used when applied. *)
AddRung ==
    /\ Idle /\ ~ Editing /\ IsLadder(infos.section)
    /\ FindFreeRung # None
    /\ \E mode \in {"add", "insert"} :
          edit' = [NoEdit EXCEPT !.mode = mode, !.num = FindFreeRung]
    /\ UNCHANGED << rungs, sections, infos, op, running, task, edits >>

ModifyCurrentRung ==
    /\ Idle /\ ~ Editing /\ IsLadder(infos.section)
    /\ LET r == infos.current
       IN  edit' = [mode |-> "modify", num |-> r, coil |-> coil[r], next |-> next[r],
                    prev |-> prev[r]]
    /\ UNCHANGED << rungs, sections, infos, op, running, task, edits >>

CancelRungEdited ==
    /\ Idle /\ Editing
    /\ edit' = NoEdit
    /\ UNCHANGED << rungs, sections, infos, op, running, task, edits >>

(* OK on a section in sequential applies its page: the rung is forgotten.  *)
ApplyOnSequential ==
    /\ Idle /\ Editing /\ ~ IsLadder(infos.section)
    /\ edit' = NoEdit
    /\ UNCHANGED << rungs, sections, infos, op, running, task, edits >>

(* The bound of the edits that overlap one scan. *)
Quick == at = "idle" \/ edits < EditsMax
Counted == edits' = IF at = "idle" THEN edits ELSE edits + 1

(* The section the rung under edit is for. *)
Home == IF edit.mode = "modify" THEN {s \in Sections : edit.num \in RungsOf(s)}
                                ELSE {infos.section}

(* What can be drawn: a Jump to a rung of the displayed section, found by  *)
(* its label, a Call of any sub-routine number, or no such coil.           *)
Drawn ==
    {edit.coil, NoCoil} \cup
    IF Cardinality({r \in Rungs \ {edit.num} : coil[r] # NoCoil}) < CoilsMax
    THEN Calls \cup {j \in Jumps : j.to \in Displayed} ELSE {}

(* A Jump still leads to the number of this rung, which is not in use. *)
Awaited(r) == \E q \in Rungs : used[q] /\ coil[q] = [kind |-> "jump", to |-> r]

(* Bound: no Jump leads to a rung of another section, nor is the number of *)
(* a rung used again when a Jump still leads to it.                        *)
NoStray(c) ==
    \/ StrayJumps
    \/ /\ c.kind = "jump" => \A s \in Home : c.to \in RungsOf(s)
       /\ edit.mode # "modify" => ~ Awaited(edit.num)

(* Bound: a sub-routine calls only those of a higher number, so that none  *)
(* calls itself, or one that calls it back; a main section calls any.      *)
Nested(c) ==
    SelfCalls \/ (c.kind = "call" => \A s \in Home : sections[s].sub < c.to)

(* CopyRungToRung, the links included. *)
ApplyRungEdited ==
    /\ Idle /\ Editing /\ IsLadder(infos.section) /\ Quick
    /\ \E c \in Drawn :
          /\ NoStray(c) /\ Nested(c)
          /\ coil' = [coil EXCEPT ![edit.num] = c]
    /\ used' = [used EXCEPT ![edit.num] = TRUE]
    /\ next' = [next EXCEPT ![edit.num] = edit.next]
    /\ prev' = [prev EXCEPT ![edit.num] = edit.prev]
    /\ op' = IF edit.mode = "modify" THEN "first" ELSE "own"
    /\ Counted
    /\ UNCHANGED << sections, infos, edit, running, task >>

(* Mutant: a rung added in the middle is linked in without its own link.   *)
LinkOwnForgotten ==
    /\ op = "own"
    /\ LET n == edit.num  c == infos.current
       IN  IF edit.mode = "add"
           THEN /\ prev' = [prev EXCEPT ![n] = c]
                /\ UNCHANGED next
           ELSE /\ next' = [next EXCEPT ![n] = c]
                /\ prev' = IF c = infos.first THEN prev ELSE [prev EXCEPT ![n] = prev[c]]
    /\ op' = "in"
    /\ UNCHANGED << used, coil, sections, infos, edit, running, task, edits >>

(* The links of the new rung, which no refresh can reach yet, and the link *)
(* back of the one after it.                                               *)
LinkOwn ==
    /\ op = "own"
    /\ LET n == edit.num  c == infos.current
       IN  IF edit.mode = "add"
           THEN IF c = infos.last
                THEN prev' = [prev EXCEPT ![n] = c] /\ UNCHANGED next
                ELSE /\ prev' = [prev EXCEPT ![n] = c, ![next[c]] = n]
                     /\ next' = [next EXCEPT ![n] = next[c]]
           ELSE /\ next' = [next EXCEPT ![n] = c]
                /\ prev' = IF c = infos.first THEN prev ELSE [prev EXCEPT ![n] = prev[c]]
    /\ op' = "in"
    /\ UNCHANGED << used, coil, sections, infos, edit, running, task, edits >>

(* UpdateVScrollBar makes the first rung shown current: any of these. *)
AutoSelect(fields, shown) == \E r \in shown : infos' = [fields EXCEPT !.current = r]

(* The rung before is linked to the new one, or the ends are moved.        *)
LinkIn ==
    /\ op = "in"
    /\ LET n == edit.num  c == infos.current
       IN  \/ /\ edit.mode = "add"
              /\ next' = [next EXCEPT ![c] = n]
              /\ AutoSelect([infos EXCEPT !.last = IF c = @ THEN n ELSE @],
                            Displayed \cup {n})
              /\ UNCHANGED prev
           \/ /\ edit.mode = "insert"
              /\ next' = IF c = infos.first THEN next ELSE [next EXCEPT ![prev[c]] = n]
              /\ prev' = [prev EXCEPT ![c] = n]
              /\ AutoSelect([infos EXCEPT !.first = IF c = @ THEN n ELSE @],
                            Displayed \cup {n})
    /\ op' = "first"
    /\ UNCHANGED << used, coil, sections, edit, running, task, edits >>

(* Not the last rung of a section that is refreshed: see DeletesLast. *)
Allowed(r) == DeletesLast \/ Resting \/ r # infos.last

Forgotten(r) == [i \in DOMAIN stack |-> [stack[i] EXCEPT !.due = @ \ {r}]]

(* DeleteCurrentRung up to Used, as one step: the engine reads Used only   *)
(* where a Jump leads, and finds the rung linked out or not at once. The   *)
(* two writes of SectionArray follow.                                      *)
DeleteCurrentRung ==
    /\ Idle /\ ~ Editing /\ IsLadder(infos.section) /\ Quick
    /\ infos.first # infos.last
    /\ LET r == infos.current  before == prev[r]  after == next[r]
       IN  /\ Allowed(r)
           /\ next' = IF r = infos.first THEN next ELSE [next EXCEPT ![before] = after]
           /\ prev' = IF r = infos.last THEN prev ELSE [prev EXCEPT ![after] = before]
           /\ used' = [used EXCEPT ![r] = FALSE]
           /\ AutoSelect([infos EXCEPT !.first = IF r = @ THEN after ELSE @,
                                       !.last = IF r = @ THEN before ELSE @],
                         Displayed \ {r})
           /\ stack' = Forgotten(r)
    /\ op' = "first"
    /\ Counted
    /\ UNCHANGED << coil, sections, edit, running, at >>

SaveFirst ==
    /\ op = "first"
    /\ sections' = [sections EXCEPT ![infos.section].first = infos.first]
    /\ op' = "last"
    /\ UNCHANGED << rungs, infos, edit, running, task, edits >>

SaveLast ==
    /\ op = "last"
    /\ sections' = [sections EXCEPT ![infos.section].last = infos.last]
    /\ op' = "idle" /\ edit' = NoEdit
    /\ UNCHANGED << rungs, infos, running, task, edits >>

Edit == \/ AddRung \/ ModifyCurrentRung \/ CancelRungEdited
        \/ ApplyOnSequential \/ ApplyRungEdited \/ LinkOwn \/ LinkIn
        \/ DeleteCurrentRung \/ SaveFirst \/ SaveLast

-----------------------------------------------------------------------------
(* The sections manager: its buttons refuse a running engine, and are not  *)
(* sensitive while a rung is under edit. Bound: the scan that was under    *)
(* way when the engine was stopped is over before the operator's next      *)
(* click, so that these operations are one step.                           *)
Manageable == Idle /\ Resting /\ ~ Editing

FreeSections == {s \in Sections : ~ sections[s].used}

(* A section in sequential keeps the SubRoutineNumber its place had.       *)
AddSection ==
    /\ Manageable /\ FreeSections # {}
    /\ \E sub \in SubRoutines \cup {None}, ladder \in BOOLEAN :
       LET s == Min(FreeSections)
           r == FindFreeRung
           fields == [NewSection EXCEPT !.ladder = ladder,
                                        !.sub = IF ladder THEN sub ELSE sections[s].sub]
       IN  /\ ladder \/ sections[s].sub = None \/ StaleNumbers
           /\ sub # None => SearchSubRoutineWithItsNumber(sub) = None
           /\ IF ladder /\ r = None
              THEN /\ sections' = [sections EXCEPT ![s] = fields]
                   /\ UNCHANGED << rungs, infos >>
              ELSE IF ladder
              THEN /\ StrayJumps \/ ~ Awaited(r)
                   /\ sections' = [sections EXCEPT
                         ![s] = [fields EXCEPT !.used = TRUE, !.first = r, !.last = r]]
                   /\ used' = [used EXCEPT ![r] = TRUE]
                   /\ next' = [next EXCEPT ![r] = None]
                   /\ prev' = [prev EXCEPT ![r] = None]
                   /\ coil' = [coil EXCEPT ![r] = NoCoil]
                   /\ infos' = Selected(s, sections'[s])
              ELSE /\ sections' = [sections EXCEPT ![s] = [fields EXCEPT !.used = TRUE]]
                   /\ infos' = Selected(s, sections'[s])
                   /\ UNCHANGED rungs
    /\ UNCHANGED << edit, op, running, task, edits >>

(* Mutant: the last rung of the section stays used. *)
DelSectionKeepsLast ==
    /\ Manageable /\ Cardinality(Sections \ FreeSections) > 1
    /\ LET gone == infos.section
           left == (Sections \ FreeSections) \ {gone}
       IN  /\ sections' = [sections EXCEPT ![gone].used = FALSE]
           /\ used' = IF sections[gone].ladder
                      THEN [r \in Rungs |-> used[r] /\ (r \notin Displayed \/ r = infos.last)]
                      ELSE used
           /\ infos' = Selected(Min(left), sections[Min(left)])
    /\ UNCHANGED << next, prev, coil, edit, op, running, task, edits >>

(* The rungs freed are those between InfosGene's FirstRung and LastRung,   *)
(* and the first section left is selected.                                 *)
DelSection ==
    /\ Manageable /\ Cardinality(Sections \ FreeSections) > 1
    /\ LET gone == infos.section
           left == (Sections \ FreeSections) \ {gone}
       IN  /\ sections' = [sections EXCEPT ![gone].used = FALSE]
           /\ used' = IF sections[gone].ladder
                      THEN [r \in Rungs |-> used[r] /\ r \notin Displayed]
                      ELSE used
           /\ infos' = Selected(Min(left), sections[Min(left)])
    /\ UNCHANGED << next, prev, coil, edit, op, running, task, edits >>

(* GetPrevNextSection: its loop never goes on, only the next place counts. *)
(* Outside the array the byte read there is taken to say: not used.        *)
GetPrevNextSection(d) ==
    IF infos.section + d \in Sections \ FreeSections THEN infos.section + d ELSE None

(* Move up, move down: the section is selected again at its new place.     *)
SwapSections ==
    /\ Manageable
    /\ \E d \in {-1, 1} :
       LET s == infos.section  t == GetPrevNextSection(d)
       IN  /\ t # None
           /\ sections' = [sections EXCEPT ![s] = sections[t], ![t] = sections[s]]
           /\ infos' = Selected(t, sections[s])
    /\ UNCHANGED << rungs, edit, op, running, task, edits >>

Next == Scan \/ DoFlipFlopRunStop \/ ChoiceOfTheCurrentRung \/ SetSectionSelected
        \/ Edit \/ AddSection \/ DelSection \/ SwapSections

Spec == Init /\ [][Next]_vars

(* The logic task is a periodic thread of its own and goes on with a scan  *)
(* whatever the operator does.                                             *)
FairSpec == Spec /\ WF_vars(Refresh)

-----------------------------------------------------------------------------
(* Properties.                                                             *)

(* The refresh never follows a link out of the rungs, whatever the editor  *)
(* is doing to them: calc.c reads RungArray[NumRung] with no test, and the *)
(* comment of ApplyRungEdited (edit.c:979-983) counts on the order of the  *)
(* writes for that.                                                        *)
ScanOnRungs == \A i \in DOMAIN stack : stack[i].rung # None

(* The refresh of a section that no Jump shortens meets every rung that    *)
(* was in the section when it began and still is when it ends, though      *)
(* others are added, inserted and deleted around it.                       *)
NoRungMissed ==
    [][ (RefreshRung \/ Return) /\ at' # "next" => Top.due \subseteq {Top.rung} ]_vars

(* Between two operations of the operator a rung is used if and only if    *)
(* one section in ladder has it, and only one: none is lost, none shared.  *)
RungsOwned ==
    Idle => /\ \A r \in Rungs : used[r] <=> \E s \in Sections : r \in RungsOf(s)
            /\ \A s, t \in Sections : s = t \/ RungsOf(s) \cap RungsOf(t) = {}

(* A scan that begins ends: the count of jumps breaks the circles that its *)
(* Jumps make (calc.c:985), and the editor's writes under it make none of  *)
(* their own. Nothing in the code breaks a circle of calls, as its comment *)
(* says (calc.c:934): SelfCalls leaves them out.                           *)
ScanEnds == []<>(at = "idle")

(* No sub-routine is under refresh twice at a time, as the array of the    *)
(* sub-routines bounds the stack then. False with SelfCalls and two coils. *)
CallsNest == Len(stack) =< NbrSubRoutines + 1
=============================================================================
