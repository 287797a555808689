# ClassicLadder2: TLA+ models and proofs

ClassicLadder2 is a soft PLC written in C: programs in ladder (rungs) and in
sequential (Grafcet/SFC) language are edited in a GTK interface and executed by a
periodic task, which reads inputs and writes outputs on local hardware or over Modbus.
A program can run in the same process as the interface, or on an embedded target that
another ClassicLadder2 supervises through a monitor protocol.

This directory holds the specifications of the parts of it where several threads, or
long sequences of legal operations, make a mistake hard to see and hard to test; the
configurations in which TLC checks them; and the proofs, by TLAPS, of what holds for
every size of the system. `PROJECT.json` is the index: components, runs, the source
lines each definition models, known hazards, theorems. Paths below are relative to the
`src/` directory of the sources.

How to run, from this directory:

    tlc -workers 2 -config MCRunStop.cfg MCRunStop.tla     # any MC*.cfg, with its module
    tlapm ThreadsProofs.tla                                # any *Proofs.tla


## 1. Inventory of the system

### Threads

| Thread | Code | What it does |
|---|---|---|
| inputs task | `classicladder2.c:465-518` | periodic; configures and reads the hardware inputs |
| logic task | `classicladder2.c:520-600` | periodic; configures the outputs, refreshes all sections, writes the outputs |
| GTK main loop | `*_gtk.c` | everything an operator does, one callback at a time |
| Modbus master | `socket_modbus_master.c:329-478` | asks one question at a time to the slaves |
| Modbus slave server | `socket_server.c` | answers questions from the variables |
| monitor master, monitor slave | `monitor_threads.c` | supervision of a target, orders, transfer of files |

They share the project's arrays (`RungArray`, `SectionArray`, `Sequential`, variables)
and the flags in `InfosGene`, mostly with no lock. What should exclude them is a
protocol of flags: an operation that changes the project calls `StopRunIfRunning`,
which sets `LadderState` to STOP and polls `UnderCalculationPleaseWait`, works, then
calls `RunBackIfStopped`.

### Components

| Component | State | Operations | What makes it correct | Hard because of |
|---|---|---|---|---|
| Run/stop of the engine | `LadderState`, `UnderCalculationPleaseWait`, `LadderStoppedToRunBack`, `AskToConfHardInputs/Outputs`, connection | flip-flops, single cycle, reset, load, new, connect, hardware configuration, the two tasks | nobody works on the project during a scan; a stopped engine is run back; every wait ends | interleavings of single reads and writes |
| Rungs, sections and their links | links, coils, `SectionArray`, `InfosGene` selection, `EditDatas` | refresh with Jump and Call; add, insert, modify, delete a rung; add, delete, swap sections; select | the refresh stays on rungs, misses none, ends; no rung is lost or shared | edits on a running engine |
| Evaluation of a rung | dynamic states of the elements | contacts, coils, edges, comparisons, blocks, cell by cell | power goes where the drawing says | links up and down over cells not yet evaluated |
| Counters, timers | value, preset, edges, remainder | evaluation | counts edges, counts time | remainders, periods that do not divide the base |
| Register blocks | indexes, count, common array of values | evaluation, preparation, edit of the mode | FIFO or LIFO store; no write outside | index arithmetic, long sequences |
| Variables, inputs and outputs | arrays, filters, forced states | sample, copy, read, write, force, free, write out | the field reaches the outputs; a forced state wins | five copies of one bit, two tasks |
| Arithmetic expressions | place in the text, error, system bits | verify, compare, assign | usual meaning; what is accepted evaluates; verifying writes nothing | one evaluator for two uses |
| Sequential engine | activity and time of steps, `%X` variables | refresh of pages, preparation, reset, apply of an edited page | one active step per loop; a refresh ends on a fixed point | preparation in parallel with a refresh |
| Editor of rungs | working copies of a rung, of the blocks in use and of the expressions; selection | draw, erase, link, properties, select, copy, move, apply, cancel | blocks whole; a number or expression has one owner; what is erased is dead | long sequences of clicks |
| Editor of sequential pages | working copies of steps, transitions, comments | draw, link, switches, destroy, properties, apply, cancel, reset | lists name steps that are there; one element per cell | lists of numbers, four ways to link |
| Project files | project in memory, little files, archive, flag of unsaved work | save, load, new, send, receive, restart | loads what was saved, whole or not at all; unsaved work is asked about | two threads, one temporary directory, crash while writing |
| Modbus master | request, count of errors, connections, error bits | choose, ask, wait, treat, stop, configure | connections in step; error bits mean errors; no starvation | late, lost, wrong replies |
| Monitor, orders | pending orders of the master | cyclic questions, orders until answered | an order ends when it was executed | lost answers, GTK in parallel |
| Monitor, transfers | one `StrFileTransfer` per side, survey timer | start, block, acknowledge, abort, completion | the file loaded is the file sent; every transfer ends | loss, late replies, timer in another thread |
| Modbus slave server | none of its own | one question, one answer | bounds of addresses; only the variable named is written | boundary arithmetic |
| Log of events | ring of events | add, end, save, forward | ring bounds | nothing fills it in this version |
| Preferences, symbols, drawing, windows, serial ports, tasks, old builds | - | input/output, rendering | - | not state machines of their own |

The full list, with the files of each part and what is left out of it, is in
`PROJECT.json` ("components"); the places where a mistake would be hard to reach with a
test are in "hazards", each at its line, with the properties that would catch it.

How the parts meet. The logic task refreshes the sections in order (`Program`,
`Sequential`), each rung cell by cell (`Scan`), with the blocks and expressions of its
elements (`Registers`, `Expressions`), between a reading of the inputs and a writing of
the outputs (`Scan`). The GTK thread edits copies (`RungEditor`, `SeqEditor`) and puts
them in the project under the engine (`Program`, `Sequential`), around the protocol of
`RunStop`. `Storage` is what saves and loads the project, for the GTK thread and for
the monitor thread, which gets it block by block through `Monitor`.


## 2. The modules

| Module | Models | Implements / proved in |
|---|---|---|
| `RunStop` | the run/stop protocol of all threads | `ThreadsProofs` |
| `Program` | rungs, sections, refresh, apply of the rung editor, sections manager | `RungChains`, through `ProgramChains`; `ProgramProofs` |
| `Scan` | one cycle over one rung: inputs, elements, timers, counters, outputs | meaning of the drawing in `ScanProperties` |
| `Registers` | the register blocks | `BoundedStore`, through `RegistersStore`; `RegistersProofs` |
| `Expressions` | the evaluator of expressions, in the editor and in the scan | meaning in `ExpressionsMeaning` |
| `Sequential` | the sequential engine with its reset and page editor | `SequentialProofs` |
| `RungEditor` | the clicks on the grid of a rung | `RungEditorProofs` |
| `SeqEditor` | the clicks on the sequential pages | `SeqEditorProofs` |
| `ProjectFiles` | what each file keeps of the project and gives back | |
| `Storage` | saves, loads, receptions and restarts with these files | `ThreadsProofs` |
| `ModbusMaster` | the polling of Modbus slaves | `ModbusMasterProofs` |
| `MonitorTransfer` | the transfer of a file, both sides | |
| `Monitor` | monitoring station and target with their link, extends it | `MonitorProofs` |
| `BoundedStore` | abstract: a FIFO or LIFO store of bounded size | |
| `RungChains` | abstract: one sequence of rungs per section | |
| `MC...` | instances for TLC | |

### RunStop

One step is one read or write of a shared variable, because each of them can be
separated from the next by another thread. `pc[t]` is the place of thread `t`, named
after the function (`stopTest`, `stopMark`, `stopSet`, `stopWait` are the four accesses
of `StopRunIfRunning`); `job[t]` is the order it executes. `Order(t, o)` starts an order
where the menus allow it: connected to a target, run/stop orders become requests (the
flip-flop tests the connection again when it runs) and local loads are refused. `service` stands for all the work done between the stop and
the run back. The logic and inputs tasks are actions of their own; the logic task itself
calls `StopRunIfRunning`, through `ConfigHardware`.

`stoppedIt[t]` is a history variable: this thread's own stop found the engine running.

### Registers, BoundedStore, RegistersStore

All registers keep their values in one array of `NbrRegisters * Size` cells. The code
advances an index with `if (++i > Size) i = 0`, so that a FIFO goes through `Size + 1`
cells, the last one belonging to the next register - or to nobody, for the last
register: the model has that one cell after the array. `CalcElemRegister` is one
evaluation with every combination of inputs and the edges remembered from the last one.
`RegistersStore` reads what a register holds in the array (`Held`, the value `Slot`
places after the oldest) and shows that each evaluation is one step of `BoundedStore`, in
which a scan may put a value, take one and clear, in that order. `tainted` (history) is set while a block's
mode was changed with values in it, where no store is promised; the reset clears it.

`IndexesAgree` says by a walk of the code's own step (`Advance`) that the two indexes and the
count tell the same story, whatever the modulus. That the cells of a register are its own
(`CellsKept`) is false, because of the index past the end; `ForeignWrites` says how far the
mistake goes: of a register's cells another one writes only the first, and it is the
register before, no LIFO kept as one.

### Sequential

A chart is given by constants (`Before`, `After`, `Condition`, `TransOf`...), in the
order of the arrays. One transition is evaluated in one step; `PrepareSequential` writes
one step of the chart at a time, because it runs in the operator's thread without a
lock. `Loops` are sets of steps that exchange one activity, defined by
`LoopsAssumption`: every transition that leaves the set by one step enters it by one
step. OR branches are in one loop, each AND branch in its own.

### ModbusMaster

The loop of `SocketModbusMasterLoop` is cut where time passes or another thread can come:
`Ask`, `Send`, `Receive` or `TimeOut`, `Treat`. A frame is the request it asks or
answers, its transaction identifier, and whether it is correct. Over Ethernet each slave
has its connection and inbox; over a serial line all share one. The slaves are external:
up, off or flaky (they may answer late, wrongly or not at all). The numbers of failures in
a row are a history variable, counted per slave, to be compared with the code's single
counter; `excused` (history) remembers that this counter has in it a failure that is no
slave's: a question the serial line did not send, or one whose answer the code never
takes.

### Program, RungChains, ProgramChains

`at` and `stack` are the logic task: the section under refresh, the rung it is on, and
for nested calls one frame each. Every write of the editor that the refresh can see is
an action: `ApplyRungEdited` (contents), `LinkOwn`, `LinkIn`, `SaveFirst`, `SaveLast`.
The unlinking of a rung deleted and its mark of unused are one step, since the refresh looks
at neither between them (`edit.c:918-932`). The sections manager refuses a running engine,
and its operations are one step each. A `Call` puts a frame on `stack` with no test of the depth, as in
the code: the constant `SelfCalls` says whether an operator may draw a sub-routine that
calls itself, or one that calls it back (`calc.c:934`). Nothing ends such a
scan, so `ScanEnds` is about circles of Jumps.
`ProgramChains` maps the links to sequences - from `FirstRung` through `NextRung` to
`LastRung` - and each single write leaves every sequence as it is or does the whole
operation of `RungChains`: half an operation is never visible. TLC shows it on the
instance, and TLAPS proves it for any number of rungs (`ChainsAreImplemented`). A sequence is the
walk of the links; where a property or a proof only needs the set of rungs met, it is
`Met`, the smallest set closed under the links. `due`, in each frame, is what the
section had when its refresh began and has still: `NoRungMissed` says that a refresh no
Jump shortens ends with nothing due.

### Scan, ScanProperties

A state has one rung (`program`, a member of `Programs`: the instance is one run over
many rungs) and the copies of each bit along its way: `field` (the wire), `filter` (the
last samples), `stored` (what the inputs task keeps), `var` (the variable), `set` (the
state it is forced to) and `port` (what is written out). `ReadPhysicalInputs` is a cycle
of the inputs task. The logic task copies the inputs, refreshes the rung and writes the
outputs in separate steps, so that samples and operators come in between; the refresh
itself is one fold of the elements, column by column, over `dyn`, in which
`StateOnLeft` reads the cells of the column before as they stand. `CalcElemFunction` is
the table of functions as it is indexed, with its missing entry.

`ScanProperties` has what a rung means with no word of how it is evaluated: `Powered` is
the connectivity of the drawing, a delay is a number of refreshes (history variables
`was` and `ran`), `Settled` is the outputs as a function of the field.

Not in it: the operator writes between two steps of the logic task, never within a refresh; the
truth of a comparison is a variable (its value is `Expressions`); a counter does not get
to the ends of the integers. Rows below the last one used are not evaluated, as in the
code. Seen while translating: the register's type (21) is past the end of the table and
calls a null function, and a register block is only reached through a counter element;
on the day of the change to winter time a restart between the change and 4:00 changes
again (`vars_system.c`); applying an edited rung puts back the memories of edges of the
time the edit began (`edit.c:976`).

### Expressions, ExpressionsMeaning

An expression is a sequence of tokens; `Evaluate` is the recursive descent, function by
function, over a record that has the code's globals: the place in the text and the error,
and the system bits it writes. A lone `-` with no digit behind, which the code reads as 0, is not
among the tokens. `Type` is the verification of a text an operator types and
`Process` an evaluation in a scan, with words that change in between. `Combined`,
`Function` and `Params` keep the order in which errors, separators and parentheses are
looked at; a loop that never ends is the end "lost", the least integer divided by -1 the
end "trap". `ExpressionsMeaning` writes a tree of operations as text with the usual
priorities, evaluates the tree directly, and compares.

Seen: with a token other than `:=`, `=` or a space after the target, `MakeCalc` loops for
ever (`arithm_eval.c:818-831`), in the interface; MINI, MAXI and AVG without their
parenthesis leave the text; any token is taken as the separator of parameters; a rotation
by several bits puts one bit back; the shifts write `%S8` also when they are verified;
indexed variables have no test of bounds. The globals are shared by both threads; the
model evaluates one call after the other.

### RungEditor

`live` is the rung and the expressions of the engine, `draw` the working copies
(`EditDatas.Rung`, the expressions, the numbers used in the rung), `part` and `ghost` what
is selected and where a click would paste it. One click is one action: a tool drawn
(`DrawElement`, with the test of the place that the code does for it), the eraser, a link,
the properties, a selection, its copy or move, apply and cancel. A big element has one alive block, its top right
one, and `WellFormed` says that every other block of it is there and that no unusable
block is anybody else's.

With `Careful = TRUE` the operator does what the tool bar suggests. With FALSE, TLC finds
each of these: a move frees the expression of an element before it pastes it, so that two
elements may share it (`edit_copy.c:173-192`); saving a new number in the properties does
not update the tables of used numbers (`edit.c:577-598`); a selection that cuts a big
element, or goes out of the rung (a TODO at `edit_copy.c:150`), leaves orphan blocks; a
second click without a move pastes again; pasting over cells with power leaves the power
in free cells. Not reached by a property: a contact changed into a coil
keeps a read-only variable (`edit.c:526`), a coil changed into a Jump keeps the number of
its variable, a move from a rung that is not under edit uses the expressions of the one
that is.

### SeqEditor

`live` is the tables of the engine, `draw` the copy under edit. One click is one action;
`first` is the first element of the tools in two clicks (links, switches).
`PackStepsList` moves to the front what a list has; `ManyTransis` is the nested loop of
`DoManyTransitionsLinked` by what it ends with: each transition found gets the others, and
all get the first step of the last one that has a step.
With `Careful = FALSE` TLC finds: a step number typed in a transition's list takes the first entry
of the table with it, even a free one or one of another page (`edit_sequential.c:91-98`);
the tool that draws a step and a transition looks at one cell and fills two (971-1000);
the numbering of new steps, in one pass, may give a number that is in use (422-451).
Seen: the line of the second element of a switch is tested on the first one (641-660); a
transition destroyed leaves its number in the switches of the others; more than
ten transitions on a line overflow an array; an init step destroyed keeps its mark, and
`PrepareSequential` activates it.

### ProjectFiles, Storage

`ProjectFiles` has for each little file what is written (`Saved`) and the inverse
(`LoadAllLadderDatas`): the entries that are skipped because they look empty, the ones
whose numbers are lost because lines have no index, the resets done or not before a
load, the fields cut at a comma or a character. `Meaning` is the project without
what no file promises. `Storage` is the process around it: `SaveFile` is one call
of the save of all files, `OpenArchive` and `CloseArchive` the join of them in the one
archive (the file is lost at the first and whole at the second), `LoadProjectFiles` the
split and the load, in the menus, after a transfer and at the start. `ReceivePart` writes
the lines of a received project as they come. `Restart` may happen anywhere, with any
prefix of the archive being written on the disk. `kept` and `held` are history
variables: what the last save into each file was of, and what was last saved or loaded.

An operator changes the project in two ways. `Edit` stands for the operations that raise the
flag that asks before quitting (`AskConfirmationToQuit`): a rung or a page applied, the
sections manager, the symbols. `Silently` stands for those that do not:
`DeleteCurrentRung` (`edit.c:898`), with its links, ends of the section and expressions, and
the window of the configuration (`GetSettings`). `silent` (history) remembers one of the latter.
`QuitAsks` is therefore about the work that an edit marked: the saves and
loads, whatever fails in them, do not lower the flag on it. For the rest the code breaks its
promise, and `MCStorageDelete` shows it. Two more silent edits, the
other name of a section and the variables spied, are left out.

With `Careful = FALSE`: the flag that asks before quitting is lowered by the save of the
little files (`files.c:2086`), so an edit while the monitor saves, an archive that cannot
be opened, or a save by the monitor of work the operator did not save, lose it, against
what `classicladder2_gtk.c:1223` promises.

Seen while translating, out of what the properties say: the join overwrites the only copy
in place, and so does a reception; a load that failed leaves the name of the failed file,
which the next Save overwrites (`classicladder2_gtk.c:697`); the counter of the list of
files is never reset, so that after 2000 files a save writes an empty archive
and says it went well (`files_project.c:365-373`: the run bounds the list above what it
saves); timers whose preset is 0 lose base and mode; a comma in the comment of a symbol cuts it, in
the name of a slave or an event it shifts the next fields; the Modbus configuration and the
spied variables are not reset by New or Load; a line of rung of more than
300 characters is read as two; a write that fails while joining is not noticed.
Not modelled: files of older formats (`LoadAllRungs_V1`, projects in a directory), the
conversion of narrower rungs (`files.c:175-220`), the compression, the rest of the dates.

### MonitorTransfer, Monitor

`MonitorTransfer` has one record for each side's `StrFileTransfer` and operators that give
its next value: what a question, an answer, an abort, a completion and the survey of the
logic task do. `Monitor` puts them in the two loops. The master's thread asks one
question (`MasterAsks`: a transfer before the orders, these by priority, then a reading in
turn), reads any answer that comes (`MasterReads`) or gives up (`MasterTimesOut`); the
slave obeys and answers (`SlaveAnswers`). `LinkLoses` takes a question or an answer; an
answer that comes after the time-out stays in the link and is taken for the next
question's, since answers carry no number. The operator connects, gives orders, starts
and aborts transfers; the idle functions of GTK run later (`idle`). `left`, chosen from
`Plans` in each initial state, bounds the run by kind of situation.

`Patient = TRUE`: the operator waits for the link to be quiet before he gives an order of
a kind in flight or starts a transfer. With FALSE, `WholeFile` fails (the late answer of
an earlier transfer is taken for the first block) and so does `OrderExecuted` (an order is
dropped for the answer of an earlier question of its kind, `monitor_protocol.c:649`: what
`OrderExecuted` says under `Patient` is only that an answer of one kind never ends an order
of another), and the survey of
a send that was aborted closes the file of the receive begun after it
(`monitor_transfer.c:333`).

Seen, and not claimed otherwise by a property: a single-cycle order repeated after a lost
answer runs two cycles; the second of two late idle functions connects again; a manual
disconnection does not clear the orders (`monitor_threads.c:429`); the three fields of an
order are written one by one by GTK while the master tests two of them
(`spy_vars_gtk.c:714-716`); an answer in flight at a disconnection writes the target's
values in the local variables; the target saving its preferences during a receive makes
the transfer fail; a file that cannot be opened leaves the datas of the previous one
(`monitor_transfer.c:369-401`; `Missing`, the files the slave does not have, is empty in
the run, and `FilesThere` says in the proofs that no menu asks for one). Not modelled: a slave
that cannot remount its files or open the one it receives (`monitor_transfer.c:642-645`), the datas of
RdRung and RdSeq, manual frames, statistics, the modem.


## 3. Runs

| Run | Instance | Distinct states | What it shows |
|---|---|---|---|
| `runstop` | one operator, both tasks, every order | 235 829 | `NoSelfWait`, `EngineStoppedInService`, `RunBackRemembered`; waits end: `StopReturns` |
| `program` | three rungs, two sections, one sub-routine | 829 770 | `ScanOnRungs`, `NoRungMissed`, `RungsOwned`, `ChainsImplemented`, `ScanEnds` |
| `scan` | 1024 ways to link two columns over three rows, the other elements, forced inputs and outputs, 36 timers | 199 871 | `PowerFlows`, `TimerOnTime`, `FieldReachesOutputs` |
| `registers` | two registers of size 2, two values | 221 504 | `IndexesAgree`, `LifoStoresInside`, `RegistersImplementStores`, `ForeignWrites` |
| `expressions` | all expressions of two operations, functions, comparisons, mistakes; 8 bits | 53 432 | `AcceptedEvaluates`, `UsualMeaning`, `VerifyIsSilent` |
| `sequential` | chart with an AND, an OR and a circle, two pages | 752 583 | `OneStepPerLoop`, `FixedPoint`, `RefreshEnds` |
| `rung_editor` | a grid of 4 by 3, four rungs to start from, two clicks | 90 213 | `WellFormed`, `BlocksOwned`, `FreeCellsDead` |
| `seq_editor` | two pages of 2 by 5, three steps and transitions, two comments, three clicks | 951 548 | `StepsAlive`, `OnePerCell` |
| `storage` | two projects that use each table differently, one file and the two of transfers | 82 690 | `LoadsWhole`, `QuitAsks`, `NothingHalfLoaded` |
| `modbus_master` | two slaves, four requests (one unused), both media | 601 925 | `ConnectionsInStep`, `ErrorAfterThree`, `Polled` |
| `monitor` | orders of every kind, a project both ways, the log; losses, late answers, restarts | 309 796 | `WholeFile`, `ReadsOpenFile`, `OrderExecuted`; `BackToReadOnly`, `TransferEnds` |
| `scan_counter` | a rung with a counter | - | *violated*: `CounterCounts`. The table of functions skips an identifier, so a counter runs the function of the register (finding: `calc.c:901`) |

The runs `runstop` and `sequential` also check the `TypeOK` of their modules; that of
`Registers` is proved, and `IndexesAgree` asks for the same ranges of a regular register.
The invariants of the proofs were checked by TLC on these instances before they were proved.

Each property of a passing run has a mutant: a plausible mistake in one modelled
definition (named `...Forgotten`, `...Uncounted`, `...Anyway`, ..., marked "Mutant" in the
modules) under which TLC finds that property violated.

### Counterexamples kept beside the runs

These configurations, with the property named, end in a counterexample, and each shows a place
where the code does not do what a reader would expect. They are run by hand, with the
module in brackets; the two in italics are a passing run's, to be changed as said.

| Configuration | Property | What happens |
|---|---|---|
| `MCRunStopRace` (`MCRunStop`) | `ServiceExcludesScan` | the logic task tests the state, and only later raises the flag that `StopRunIfRunning` waits on: a scan begins while a page is replaced |
| *`MCRegisters`* (`MCRegisters`) | `CellsKept` in the place of `ForeignWrites` | a FIFO stores in the first cell of the next register |
| `MCSequentialEdit` (`MCSequential`) | `AliveAfterEdit` | the engine is run back before the edited page is prepared: a loop of the chart may end with no active step |
| `MCProgramDelete` (`MCProgram`) | `ScanOnRungs` | the last rung of a section is deleted under the refresh, which goes on to rung -1 |
| *`MCProgram`* (`MCProgram`) | `CallsNest` alone, with `SelfCalls = TRUE` and `CoilsMax = 2` | a sub-routine is refreshed inside itself: one that calls itself recurses without a bound |
| `MCStorageDelete` (`MCStorage`) | `RungsNotLost` | a rung deleted since the project was loaded does not raise the flag that asks before quitting (`edit.c:898`; an applied rung does, 1043), and is lost without the question, which says "If not saved, all modifications will be lost." (`classicladder2_gtk.c:1223`) |
| `MCModbusMasterMany` (`MCModbusMaster`) | `ErrorMeansFault` | over a serial line the length awaited for the answer to a write of several registers is wrong: a slave that answers is put in error |
| `MCScanFlash` (`MCScan`) | `MinuteFlash` | the flash of one minute is computed from the seconds alone (`vars_system.c:88`, `README_Variables.txt:45`): `%S2` is always on |
| `MCMonitorStop` (`MCMonitor`) | `StateAsWanted` | the order to stop is a flip-flop on a state tested before: given to a target that is frozen, it starts it |
| `MCRungErase` (`MCRungEditor`) | `EraseHits` | the eraser looks for a big element two columns too far to the right (`edit.c:1070-1074`) and erases another one |

### Bounds and why they are enough

- **runstop.** No bound but the number of operators. One operator thread and the two
  tasks already interleave every pair of sequences; with two operators the shared
  run-back flag is unreliable and the properties on it are false, which is why
  `EngineStoppedInService` and `RunBackRemembered` are stated for one operator with the
  hardware on the target (`onTarget`): otherwise the tasks themselves are two more
  callers. `NoSelfWait` and the types are proved for any number of them.
- **registers.** Two registers of `Size = 2`, the first of which reaches a cell of the second: with
  the extra cell a FIFO turns through three cells, every relative position of the two
  indexes is reached, and two values in a full block tell their order. The `VIEW` of
  `MCRegisters` makes one state of those that differ only in the outputs and in values that
  no regular register holds, which no evaluation of a regular register depends on.
- **sequential.** `PassesMax = 2` for 50: enough for a circle that never reaches a fixed
  point to be cut. `TimeTop = 1` tells "0" from "not 0". One variable, written by anyone.
- **modbus_master.** `IdMax = 1` makes identifiers wrap at every second question;
  `LineMax = 2` replies waiting; `ChangesMax = 2` changes of configuration, so that one
  may be undone; a fourth entry
  of the table is unused so that the search skips it.
- **program.** `MadMax = 1` for 99999 jumps; `CoilsMax = 1` rung with a Jump or Call,
  so that a Call and a Jump are never in the same program; `EditsMax = 1` edit
  during one scan, itself cut in up to five writes that the scan can fall between.
  The `VIEW` of `MCProgram` makes one state of those that differ only in dead data: links
  of rungs neither used nor under refresh, ends of unused sections, a counter the model
  itself resets.
  Four constants name what the run leaves out. With `SelfCalls` a scan may recurse for
  ever, and needs two coils to do so. With any of the three others `ScanOnRungs` is false: `DeletesLast` (`MCProgramDelete`), `StrayJumps` (a Jump to a rung of another
  section or to a number used again: the refresh walks past the end of its section) and
  `StaleNumbers` (a sequential section in the place of a sub-routine keeps its number and
  is called as if it had rungs).
- **scan.** Three rows and two columns of contacts before the coils have every way a link
  can go up, down, round and across; a fourth column takes the blocks. `FilterLength = 2`
  is the least filter that disagrees with itself. Periods of 2 with bases of 2 to 5 and
  presets of 1 to 3 give every remainder. `Programs` is chosen once, so the states of
  different rungs do not multiply.
- **expressions.** Two operations are enough for each pair of priorities, on the left and
  on the right; a tree of four has two negations in a row. `Width = 8` for 32: values at
  the ends are reached (127, -4 and their products). `Once` keeps one text for a block;
  `MemSize = 4` words, one of which is an index.
- **rung_editor.** `Width = 4` is a comparison and a coil, `Height = 3` the register's
  height; two clicks after one of four rungs drawn by longer sequences: a hazard is a
  click on what one other click left. The eraser's columns need six: `MCRungErase`.
- **seq_editor.** Three clicks: two draw a link, the third is the apply or the
  destruction of one of its ends. Two comments, of two cells each, may overlap. Two pages, so that a step may move and a number be of
  the other page. Lists of two (`Switchs`) for ten: one more than full is reached.
- **storage.** `Size = 3` entries: one project uses all but the first entry of each
  table, the other none of most, so that an entry kept in the wrong place, or one not
  reset by the load of the other project, shows. `SavesMax = 2`, one edit, marked or silent, one
  transfer: a save over another, or under a reception. `FlushLines = 90` cuts an
  archive in two parts. `ListMax = 100` is above what two saves list.
- **monitor.** Two blocks, `MaxTry = MaxErrors = 1` for 3, a survey of one tick for
  5000 ms: each count reaches its end. Two messages in flight so that a late answer and
  a new one are there together. `Plans` gives five cases instead of their product: two
  orders, one order of any kind, two transfers, one transfer while connected, one
  transfer with a restart.

### Fairness and why the code justifies it

- `RunStop!FairSpec`: weak fairness of each thread's own steps. The tasks are periodic
  real-time threads and the others are threads of the system; none is starved. No
  fairness on `Order`: nobody has to give an order.
- `Sequential!FairSpec`, `Program!FairSpec`: weak fairness of the scan only; in `Program`, of one
  that began.
- `ScanProperties!HFairSpec`: weak fairness of the moves of the logic task and of the
  inputs task, both periodic. `FieldReachesOutputs` assumes in its statement that the
  field and the operator come to rest.
- `ModbusMaster!FairSpec`: the thread runs; a slave that is up answers; the wait ends in
  `Receive` or `TimeOut`. This last fairness is strong because the model lets a slave that
  is up answer in time, and so disables `TimeOut` meanwhile: a slave that is up and flaky in
  turn must not hold the wait for ever, since the code's wait has a timer of its own.
  `Polled` assumes in its statement that the slave stays up and the engine in RUN.
- `Monitor!FairSpec`: the master's thread, the slave's thread, the logic task and the idle
  functions of GTK run. Nothing is assumed of the link: it may lose everything.


## 4. Proofs

TLAPS proves, for every value of the constants that satisfies the modules' assumptions:

| Module | Theorem | Statement |
|---|---|---|
| `ThreadsProofs` | `TypeCorrect` | `Spec => []TypeOK`, for any set of operator threads |
| | `LogicNeverWaitsForItself` | `Spec => []NoSelfWait`, same |
| | `EngineStopped` | one operator: `Spec => []EngineStoppedInService` |
| | `StopRemembered` | one operator: `Spec => []RunBackRemembered` |
| | `QuitIsAsked` | `Careful => (StorageSpec => []QuitAsks)`, for all projects, files and bounds; of the work that an edit marks, not of a rung deleted |
| `RegistersProofs` | `TypeCorrect`, `IndexesCorrect`, `LifoInside` | any number, size and values of registers |
| | `ForeignWritesBounded` | `Spec => ForeignWrites` (an action property), same: what the store past the end of a list can reach |
| | `EveryRegisterActsAsAStore` | `Spec => RegistersImplementStores`, any number of registers: each change of a regular register is a use of `BoundedStore` on what it holds then, whatever its neighbours did to the array |
| | `OneRegisterIsAStore` | one register: `Spec => LoneRegisterIsStore`, the step refinement, every step a use of the store or nothing |
| `SequentialProofs` | `TypeCorrect`, `LoopsKept` | every chart that satisfies `ChartAssumption`, every set of loops |
| | `PassesSettle` | `Spec => []FixedPoint`, every chart and any limit of passes |
| `ModbusMasterProofs` | `NoLateAnswer` | `Spec => []ConnectionsInStep`, every table of requests, any number of slaves, both media |
| | `ErrorIsThirdFailure` | `Spec => ErrorAfterThree` (an action property), same |
| `ProgramProofs` | `NoRungLostNorShared` | `Spec => []RungsOwned`, any number of rungs and sections, any number of edits, no further hypothesis |
| | `ChainsAreImplemented` | `Spec => ChainsImplemented /\ Chains!Spec`, same: the refinement of `RungChains`, each write one operation on the sequences or none |
| | `RefreshStaysOnRungs` | `Careful => (Spec => []ScanOnRungs)` |
| | `NoRungIsMissed` | `Careful => (Spec => NoRungMissed)` (an action property) |
| `RungEditorProofs` | `ElementsStayWhole` | `Careful => (Spec => []WellFormed)`, grid, tables and number of clicks of any size |
| | `BlocksStayOwned` | `Careful => (Spec => []BlocksOwned)`, same |
| | `FreeCellsStayDead` | `Careful => (Spec => []FreeCellsDead)`, same |
| `SeqEditorProofs` | `NoElementHidden` | `Careful => (Spec => []OnePerCell)`, any size of pages and tables |
| | `ListsNameSteps` | `Careful => (Spec => []StepsAlive)` |
| `MonitorProofs` | `OrdersInvariance` | `Patient => (Spec => []OrdersInv)`: an answer in flight to a kind of order pending was sent by a slave that obeyed that order, whatever the link loses or delays |
| | `FilesAreWhole` | `Patient /\ FilesThere => (Spec => []WholeFile)`, every file and number of blocks |
| | `NoReadOfAClosedFile` | `Patient /\ FilesThere => (Spec => []ReadsOpenFile)` |

`ThreadsProofs` has the proofs about `RunStop` and, after them, those about `Storage`, whose
definitions bear the name of the module where both have one (`StorageSpec`, `StorageInit`).

The assumptions are those of the modules, which TLC evaluates in each run:
`ThreadsAssumption` (the tasks and the operators are different threads),
`SizesAssumption`, `ValuesAssumption`, `ChartAssumption`, `LoopsAssumption`,
`NumbersAssumption` (of `Sequential` and of `Program`), `TableAssumption`,
`EditorAssumption`, `RungsAssumption` (the rungs the editor begins with are whole
elements with numbers of their own, and no power in a free cell),
`SeqEditorAssumption`, `ChartsAssumption` (the pages the editor begins with
are new or have the form that it gives them), `StorageAssumption`, `ProjectFilesAssumption`,
`TransferAssumption`, `MonitorAssumption`. The hypotheses in the statements are about what
the operator does or begins with:

- `Careful` of `Storage`, `RungEditor` and `SeqEditor`, and `Patient` of `Monitor`, are constants of the
  models. Without them the statements are false; section 2 names the counterexamples TLC
  finds.
- `Careful` of `ProgramProofs` is the bounds of the run `program` on the editor: at most one edit in
  one scan, no deletion of a section's last rung, no stray Jump, no stale number of a
  sub-routine. Each is needed. The last three are the counterexamples of section 3; with
  `EditsMax = 2` TLC finds the rung under refresh deleted and its number taken at once by a
  rung being added, whose link the refresh then follows out of the rungs. It takes an
  operator who deletes and applies within one scan.
- `FilesThere`: the menus ask the slave only for files that it has. Otherwise a failed
  open leaves the number and the datas of an earlier transfer, which the next block read
  may show (`monitor_transfer.c:369-401`).

### The arguments

- **RunStop.** `NoSelfWait` is not inductive: it needs where the flag is up. `IInv` adds
  `underCalc <=> pc[Logic] = "scan"`. For the two theorems with one operator, `SInv` adds
  where each thread can be when the hardware is on the target (the tasks never call
  `StopRunIfRunning`), and what is true between a stop and its run back: from `stopSet`
  on the state is not RUN, and as long as `stoppedIt` the shared flag is set, because
  nobody else touches it. The logic task can still write the state - the freeze at the end
  of a single cycle - but never RUN: that is the conjunct on `want`.
- **Registers.** `IInv` states the agreement of indexes and count (`Agree`) as a sum, and for
  registers of mode UNDEF too, so that an edit of the mode finds it; the walk of
  `IndexesAgree` is then given in closed form; the lemmas `PushKeeps`, `PopKeeps`, `ClearKeeps` say that each part of an
  evaluation keeps it, and are combined in the code's order. For the refinement, `PushPuts`
  and `PopTakes` say what each part does to the content read through `Held` and `Slot` - the
  turn of the indexes over `Size + 1` cells is there - and `CalcIsUse` puts the three parts
  together as one `Use` of the store. Two registers share a cell, so that between its
  changes the content of a register may be changed by its neighbour: this is why, for
  many registers, the theorem is about each change, and the whole refinement is for one.
- **Sequential.** `FiringKeepsLoop`: a transition that fires moves the one activity of
  each loop. `IInv` adds `PreparedSoFar`: while a preparation that no refresh disturbs is
  at step `n`, the steps before `n` are active exactly if initial; when it ends the chart
  is back to one initial step in each loop. `FixedPoint` is about the end of a pass and
  needs what holds inside it, `PassSoFar`: as long as a pass has changed nothing, the
  transitions it went by cannot fire, except on a variable written since.
- **ModbusMaster.** `IInv` has, over the types: `Exchange` (what is asked, awaited or heard
  at each place of the loop), `OneExchange` (over Ethernet only the slave asked
  has anything on its connection, the others are quiet), `Numbered` (over Ethernet, what
  the slave asked has in flight bears the identifier of this question) and `Counted` (the code's one
  counter is at most the failures in a row of the slave asked, unless `excused`). The last
  conjunct was false as first stated, and TLC's counterexamples say what the counter also
  counts: a question left unsent after the medium changed, and a write of several registers
  over a serial line, whose answer is never taken. Both are in `excused`, and the run now
  allows the two changes of configuration that reach them. The search for the next
  request is proved by the least number of a set (`NearestIsLeast`, from the
  well-foundedness of the naturals).
- **Program, the editor.** Chains in arrays of links usually call for an induction on their
  length. `IInv` avoids it: there are a function `own`, the section of each rung, and a
  function `pos`, an order that the links follow, such that in each section the links
  forth and back agree inside it (`Chained`). Each write of the editor is then local: a
  rung is linked in or taken out between two neighbours and `pos` is spread to make room. An
  edit half done is described by `Linking` (a rung used but in no section yet), `Back` (the
  one link back that is written before the link forth), `NewLinked` and `Pending` (how far
  the ends are copied). That `own` is the set of rungs met from the first to the last
  (`OwnersMet`) is by the rung of least `pos` that would contradict it.
- **Program, the sequences.** `ChainsImplemented` speaks of `Walk`, a recursive function
  chosen by its domain. `WalkIs` gives it without induction: a sequence without
  repetition that is linked from the first rung to the last (`Linked`) is a witness, and
  the least place where another walk would differ shows that it is the only one. `CInv`
  says that each section has such a sequence and keeps it through a write: `LinkedIn` and
  `LinkedOut` for a rung put in or taken out after a place. Two facts about links had
  to be added. `DeadEnds`: no link forth leaves the last rung, nor
  the one a section will end with. `EndsDue`: what the two pending copies of the ends will
  do when they are made - the new first rung is already linked to the old one, and the new
  last rung from the old one, or the deleted end is already out of the links. This is when
  the engine sees an edit: one of the middle at `LinkIn` or at the deletion, one of an
  end at `SaveFirst` or `SaveLast`.
- **Program, the refresh.** `SInv` says of each frame of the stack that its rung is in
  the section, or was deleted during this scan and its link still leads into the section;
  and that the rungs still due are ahead of it (`SafeFrames`). Around it: Jumps lead to
  rungs of their section (`JumpsStay`), the first and last rung that a refresh would read
  now are usable at every write of an edit (`FirstsReady`, `LastsReady`), a frame is never
  past the end (`NotPastTheEnd`), sub-routines are in ladder (`SubsInLadder`). This is
  what makes the order of the writes of `ApplyRungEdited` and `DeleteCurrentRung` safe with
  no lock, and what each conjunct of `Careful` is used for.
- **RungEditor.** `Good` says of a drawing that its numbers are its own and exactly those
  marked used (`Sound`), that its big elements are whole (`Formed`) and that power is only
  where an element has an output (`Dead`). `IInv` has it for the rung edited and for the one of
  the project, and has what the operator selected: a part that is whole elements too
  (`PartIs`), or nothing. None of the three can be kept alone: an element drawn in the cells
  of another would free its number, and an output left out of the grid would keep its power. A
  click erases or draws one element, and the lemmas say so at once for every cell
  (`EraseIs`, `DrawnIs`), with no walk over the cells. Only a move and a paste walk: `Cleaned` and
  `Pasted` are recursive functions over the cells of the part, and what they leave after
  `k` cells is shown by the least `k` that would contradict it (`MovingKeeps`, `PastingKeeps`).
  In between a paste has half an element, so `Good` cannot be what each step keeps: `Sound`
  is, cell by cell, and `Formed` and `Dead` are those of the whole part moved to its place
  (`PartKeepsFormed`, by `AreaShifts`). A paste may also run out of numbers half way; that
  it does not when the operator counted them before is `RoomLeft`: each number taken
  leaves one less in the table and one less to take (`TakeOne`).
- **SeqEditor.** `IInv` has both tables well drawn: typed, each element on a line of its
  kind (the search of a click looks only for the kind of the line, so an element elsewhere
  would not be found), and alone in its cell. A click leaves elements where they are or
  removes them (`Fewer`), or puts one in a cell just found empty. For the lists, `LInv`
  adds that those of `live` and `draw` are compact and of steps of the page, and
  that the element a tool in two clicks remembers is still there (`FirstThere`): every way
  to remove it goes by a click of another tool. `PackedIsCompact` says
  that the packing leaves no hole, by the least rank that would be one.
- **Storage.** `QuitAsks` speaks of a GTK thread at rest; while it saves, the flag is
  already down and the project not yet in the archive. The edits that do not raise the flag are
  set apart by `silent`, up to the next save or load. `StorageIInv` adds that one thread
  saves at a time and that the monitor saves only with the flag down: its last `SaveFile`,
  which lowers the flag for both, then hides nothing. `LoadKeeps` covers the three loads
  at once; a load that fails leaves memory and flag alone, one that succeeds holds
  what it loaded.
- **Monitor.** Answers carry no number, so the invariants are about what is in flight. For
  the orders, `AnswersObeyed` (theorem `OrdersInvariance`; the property `OrderExecuted` itself is only
  checked): an answer to a kind of order is only there when the slave
  obeyed the order pending now. For the transfers, `MasterHolds` and `SlaveHolds` say that
  what a side has is the first blocks of the file and what it has to say is the next
  one; `ToldRight` and `HeardRight` say the same of each question and answer in
  flight, `Matched` that they belong to the transfer under way, `Surveyed` that the survey of
  the logic task is on only over an open file. One step of a side is then one block
  more, or the same block again after a loss.

### Only model-checked

Three things are out of the prover's reach.

- Liveness: `StopReturns`, `RefreshEnds`, `Polled`, `ScanEnds`, `FieldReachesOutputs`,
  `BackToReadOnly`, `TransferEnds`. They rest on fairness, hence on ENABLED.
- Induction over data: `LoadsWhole` and `NothingHalfLoaded` of `Storage` (an archive is split
  and filled line after line); `PowerFlows`, `TimerOnTime` and `CounterCounts` of `Scan` (a
  fold over the cells).
- Recursive and bitwise operators: all of `Expressions` and `ExpressionsMeaning`
  (`AcceptedEvaluates`, `UsualMeaning`, `VerifyIsSilent`).

`OrderExecuted` is checked and not claimed as a theorem: under `Patient` it is little more than
the matching of an answer to its own kind.


## 5. What is not modelled, and the plan

Not worth a model: windows, drawing, printing, names and symbols, serial and hardware
calls, logs of frames, old kernel builds, the vendored JSON parser: they keep no state that
threads share in a protocol. The real-time layer (`tasks.c`) enters as "a periodic task
runs again and again". The serial variant of the monitor (`monitor_protocol_adds_serial.c`,
`base64.c`) frames and encodes, without a state. The log of events, and the remote alarms
it would send, are not modelled because the only call that creates events is commented
out (`vars_access.c:311-325`). The Modbus slave server answers each question from the
variables and keeps nothing: it is one more writer of the variables, like the operator of
`Scan`. Reading it for the inventory found a missing `break`
(`protocol_modbus_slave.c:306`) and a bound that lets the first physical input be written.
With *k* sequential sections the time of a step gains *k* periods in one scan
(`calc_sequential.c:190`, against `README_Variables.txt:34`): the code is in `Sequential`,
no property of the run depends on the time.

What each module leaves out of its component is said in section 2 and in the component's
note in `PROJECT.json`.

Next, in this order:

1. Theorems: `NothingHalfLoaded` from what a split archive is, as a fact about sequences;
   `Program` with several edits in one scan that reuse no number, whose frames would have
   to say where the links of each rung deleted lead.
2. Composition: `Program` with the single cycle and hardware requests of `RunStop`, so
   that a disconnection that reinitialises the datas meets a scan
   (`monitor_threads.c:680`); `Storage` with `MonitorTransfer`, whose file it loads.
3. The Modbus slave server as a function from a question to writes; `Expressions` with two threads in
   the evaluator; the summer time of `vars_system.c`.
