----------------------------- MODULE ProjectFiles -----------------------------
(* The files of a project (files.c, files_sequential.c): what each of them *)
(* keeps of the project in memory, and what loading them gives back. A     *)
(* file is a sequence of lines; a line is a sequence: its first word or    *)
(* its key, then its fields, as they stand between the commas.             *)
(*                                                                         *)
(* Abstracted: a word without comma is a negative number up to Blank, the  *)
(* empty word; a text is a sequence of such words, which commas separate;  *)
(* the number of the version, and the formats of older versions; the time  *)
(* of day, always Now.                                                     *)
EXTENDS Integers, SequencesExt
CONSTANTS
    Size,      \* the entries of every table, NBR_RUNGS, NBR_COUNTERS...
    Height,    \* RUNG_HEIGHT
    Width,     \* RUNG_WIDTH
    Switchs    \* NBR_SWITCHS_MAX

Indexes == 0 .. Size - 1
Blank == -100
Now == -101
NewLine == -102     \* the end of a line in a comment of the project,
BackslashN == -103  \* and what stands for it in its file
Word(n) == -110 - n
Empty == <<Blank>>
None == -1

(* atoi: a word is no number. *)
Number(field) == IF field <= Blank THEN 0 ELSE field

ASSUME ProjectFilesAssumption ==
    Size \in Nat \ {0} /\ Height \in Nat \ {0} /\ Width \in Nat \ {0} /\ Switchs \in Nat \ {0}

-----------------------------------------------------------------------------
(* Tables: the lines of the entries that are kept, in their order; and the *)
(* table filled by the lines with one first word. A compacted table loses  *)
(* the numbers of its entries: the lines fill it from its start.           *)
Kept(table, Is(_)) == SelectSeq([k \in 1 .. Size |-> k - 1], LAMBDA i : Is(table[i]))

Lines(table, Is(_), Line(_, _)) ==
    LET kept == Kept(table, Is) IN [k \in DOMAIN kept |-> Line(kept[k], table[kept[k]])]

Filled(table, first, lines, Entry(_, _)) ==
    [i \in Indexes |->
        LET own == SelectSeq(lines, LAMBDA line : line[1] = first /\ line[2] = i)
        IN IF own = <<>> THEN table[i] ELSE Entry(table[i], Last(own))]

FilledInOrder(table, first, lines, Entry(_)) ==
    LET own == SelectSeq(lines, LAMBDA line : line[1] = first) IN
    [i \in Indexes |-> IF i < Len(own) THEN Entry(own[i + 1]) ELSE table[i]]

(* The tables begin with a line of version, so that no file is empty. *)
Version == <<"#VER=">>

(* A file of parameters: a line "KEY=value" for each of its keys. *)
LinesOfKeys(keys, values) == [k \in DOMAIN keys |-> <<keys[k], values[keys[k]]>>]

FilledKeys(values, lines) ==
    [k \in DOMAIN values |-> LET own == SelectSeq(lines, LAMBDA line : line[1] = k)
                             IN IF own = <<>> THEN values[k] ELSE Last(own)[2]]

(* ConvRawLineOfStringsOrNumbers: the texts that a line of fields gives are *)
(* cut at their first comma, and shift the fields that follow them.        *)
Numbers(fields) == [k \in DOMAIN fields |-> Number(fields[k])]
Text(field) == <<field>>

-----------------------------------------------------------------------------
(* Parameters. *)
InfosKeys == <<"PROJECT_NAME", "PROJECT_SITE", "PARAM_VERSION", "PARAM_AUTHOR",
               "PARAM_COMPANY", "CREA_DATE", "MODIF_DATE", "PARAM_COMMENT">>
GeneralKeys ==
    <<"PERIODIC_REFRESH", "PERIODIC_INPUTS_REFRESH", "REAL_INPUTS_OUTPUTS_ONLY_ON_TARGET",
      "AUTO_ADJUST_SUMMER_WINTER_TIME", "SIZE_NBR_RUNGS", "SIZE_NBR_BITS", "SIZE_NBR_WORDS",
      "SIZE_NBR_COUNTERS", "SIZE_NBR_TIMERS_IEC", "SIZE_NBR_REGISTERS", "SIZE_REGISTER_LIST",
      "SIZE_NBR_PHYS_INPUTS", "SIZE_NBR_PHYS_OUTPUTS", "SIZE_NBR_ARITHM_EXPR", "SIZE_NBR_SECTIONS",
      "SIZE_NBR_SYMBOLS", "SIZE_NBR_PHYS_WORDS_INPUTS", "SIZE_NBR_PHYS_WORDS_OUTPUTS">>
SerialKeys == <<"MODBUS_MASTER_SERIAL_PORT", "MODBUS_MASTER_SERIAL_SPEED", "MODBUS_MASTER_SERIAL_DATABITS",
                "MODBUS_MASTER_SERIAL_PARITY", "MODBUS_MASTER_SERIAL_STOPBITS">>
ComKeys == <<"MODBUS_ELEMENT_OFFSET", "MODBUS_MASTER_SERIAL_USE_RTS_TO_SEND", "MODBUS_MASTER_TIME_INTER_FRAME",
             "MODBUS_MASTER_TIME_OUT_RECEIPT", "MODBUS_MASTER_TIME_AFTER_TRANSMIT", "MODBUS_DEBUG_LEVEL",
             "MODBUS_MAP_TYPE_FOR_READ_INPUTS", "MODBUS_MAP_TYPE_FOR_READ_COILS",
             "MODBUS_MAP_TYPE_FOR_WRITE_COILS", "MODBUS_MAP_TYPE_FOR_READ_INPUT_REGS",
             "MODBUS_MAP_TYPE_FOR_READ_HOLD_REGS", "MODBUS_MAP_TYPE_FOR_WRITE_HOLD_REGS">>
ModemKeys == <<"MODEM_USED", "INIT_SEQ", "CONFIG_SEQ", "CALL_SEQ", "PIN_CODE">>
SlotKeys(i) == <<"SLOT_NAME_" \o ToString(i), "ALARM_TYPE_" \o ToString(i),
                 "TELEPHONE_NUMBER_" \o ToString(i), "EMAIL_ADDRESS_" \o ToString(i)>>
AlarmsKeys == <<"GLOBAL_ENABLED">> \o FlattenSeq([k \in 1 .. Size |-> SlotKeys(k - 1)])
              \o <<"CENTER_SERVER_SMS", "SMTP_SERVER_FOR_EMAILS", "SMTP_SERVER_USERNAME",
                   "SMTP_SERVER_PASSWORD", "EMAIL_SENDER_ADDRESS">>

ReplacedStr(text, old, new) == [k \in DOMAIN text |-> IF text[k] = old THEN new ELSE text[k]]

SaveProjectProperties(infos) ==
    LinesOfKeys(InfosKeys, [infos EXCEPT !["PARAM_COMMENT"] = ReplacedStr(@, NewLine, BackslashN)])
LoadProjectProperties(infos, lines) ==
    LET read == FilledKeys(infos, lines)
    IN [read EXCEPT !["PARAM_COMMENT"] = ReplacedStr(@, BackslashN, NewLine)]

-----------------------------------------------------------------------------
(* Tables of one number or text, then of a few: counters, registers,       *)
(* expressions, timers as <<base in ms, preset, mode>>.                     *)
CounterKept(preset) == preset > 0
(* Mutant: without its line of version, the file of no counter is empty. *)
SaveCountersParamsWithoutVersion(counters) ==
    Lines(counters, CounterKept, LAMBDA i, preset : <<"C", i, preset>>)
SaveCountersParams(counters) ==
    <<Version>> \o Lines(counters, CounterKept, LAMBDA i, preset : <<"C", i, preset>>)
LoadCountersParams(counters, lines) == Filled(counters, "C", lines, LAMBDA c, line : line[3])

Undefined == 0  \* REGISTER_MODE_UNDEF
RegisterKept(mode) == mode # Undefined
SaveRegistersParams(registers) == <<Version>> \o Lines(registers, RegisterKept, LAMBDA i, mode : <<"R", i, mode>>)
LoadRegistersParams(registers, lines) == Filled(registers, "R", lines, LAMBDA r, line : line[3])

ExprKept(expr) == expr # Empty
SaveArithmeticExpr(exprs) == <<Version>> \o Lines(exprs, ExprKept, LAMBDA i, expr : <<"", i, expr>>)
LoadArithmeticExpr(exprs, lines) == Filled(exprs, "", lines, LAMBDA e, line : line[3])

Bases == <<60000, 1000, 100>>  \* CorresDatasForBase
ConvBaseInMilliSecsToId(base) == (CHOOSE k \in DOMAIN Bases : Bases[k] = base) - 1
TimerKept(timer) == timer[2] > 0
SaveNewTimersParams(timers) ==
    <<Version>> \o Lines(timers, TimerKept, LAMBDA i, t : <<"TM", i, ConvBaseInMilliSecsToId(t[1]), t[2], t[3]>>)
LoadNewTimersParams(timers, lines) ==
    Filled(timers, "TM", lines, LAMBDA t, line : <<Bases[line[3] + 1], line[4], line[5]>>)

(* Inputs or outputs, as <<first variable, device, sub device, channel,    *)
(* number of channels, inverted, data>>: compacted, as the symbols.        *)
NoDevice == -1  \* DEVICE_TYPE_NONE
ConfKept(conf) == conf[2] # NoDevice
SaveIOConfParams(inputs, outputs) ==
    <<Version>> \o Lines(inputs, ConfKept, LAMBDA i, conf : <<"0">> \o conf)
    \o Lines(outputs, ConfKept, LAMBDA i, conf : <<"1">> \o conf)
LoadIOConfParams(confs, pass, lines) == FilledInOrder(confs, pass, lines, LAMBDA line : Tail(line))

(* Symbols, as <<variable, symbol, comment>>, three texts. *)
SymbolKept(symbol) == symbol[1] # Empty
SaveSymbols(symbols) == <<Version>> \o Lines(symbols, SymbolKept, LAMBDA i, s : <<"">> \o s[1] \o s[2] \o s[3])
LoadSymbols(symbols, lines) ==
    FilledInOrder(symbols, "", lines, LAMBDA line : <<Text(line[2]), Text(line[3]), Text(line[4])>>)

(* Slaves, as <<address, UDP, name>>; requests, as <<slave, type, first    *)
(* element, number of elements, inverted, first variable>>, compacted.     *)
SlaveKept(slave) == slave[1] # Empty
RequestKept(request) == request[1] # None
SaveModbusIOConfParams(slaves, requests) ==
    <<Version>> \o Lines(slaves, SlaveKept, LAMBDA i, s : <<"S", i>> \o s[1] \o <<s[2]>> \o s[3])
    \o Lines(requests, RequestKept, LAMBDA i, request : <<"R">> \o request)
LoadSlaves(slaves, lines) ==
    Filled(slaves, "S", lines, LAMBDA s, line : <<Text(line[3]), Number(line[4]), Text(line[5])>>)
LoadRequests(requests, lines) == FilledInOrder(requests, "R", lines, LAMBDA line : Numbers(Tail(line)))

(* The events to log, as <<first variable, number of variables, level,     *)
(* symbol, text, slots>>.                                                   *)
EventKept(event) == event[1] # None /\ event[2] # 0
SaveConfigEventsLog(events) ==
    <<Version>> \o Lines(events, EventKept, LAMBDA i, e : <<"", i, e[1], e[2], e[3]>> \o e[4] \o e[5] \o <<e[6]>>)
LoadConfigEventsLog(events, lines) ==
    Filled(events, "", lines,
           LAMBDA e, line : Numbers(SubSeq(line, 3, 5)) \o <<Text(line[6]), Text(line[7]), Number(line[8])>>)

(* The variables spied: four lines of numbers. *)
SaveBoolFreeVarsSpyList(spy) == [k \in DOMAIN spy |-> <<"">> \o spy[k]]
LoadBoolFreeVarsSpyList(spy, lines) ==
    [k \in DOMAIN spy |-> IF k \in DOMAIN lines THEN Tail(lines[k]) ELSE spy[k]]

-----------------------------------------------------------------------------
(* Rungs: one file each, that keeps its number. An element is <<type,      *)
(* connected with top, type of variable, its number, type of index, its    *)
(* number>>; a line of elements leaves out the index there is not.         *)
FreeElement == <<0, 0, 0, 0, None, 0>>
NoRung == [used |-> FALSE, label |-> Empty, comment |-> Empty, prev |-> None, next |-> None,
           rows |-> [y \in 1 .. Height |-> [x \in 1 .. Width |-> FreeElement]], nbrLines |-> Height]

SavedElement(e) == IF e[5] # None THEN e ELSE SubSeq(e, 1, 4)
ConvRawLineOfElements(row, line) ==
    [x \in 1 .. Width |-> line[x + 1] \o SubSeq(row[x], Len(line[x + 1]) + 1, 6)]

SaveRung(rung) ==
    <<Version, <<"#LABEL=", rung.label>>, <<"#COMMENT=", rung.comment>>,
      <<"#PREVRUNG=", rung.prev>>, <<"#NEXTRUNG=", rung.next>>, <<"#NBRLINES=", Height>>>>
    \o [y \in 1 .. Height |-> <<"">> \o [x \in 1 .. Width |-> SavedElement(rung.rows[y][x])]]

UpdateNbrLinesUsedInRung(rung) ==
    LET lines == {y \in 1 .. Height : \E x \in 1 .. Width : rung.rows[y][x][1] # FreeElement[1]}
    IN [rung EXCEPT !.nbrLines = IF lines = {} THEN @ ELSE CHOOSE y \in lines : \A z \in lines : z <= y]

LoadRung(rung, lines) ==
    LET own(first) == SelectSeq(lines, LAMBDA line : line[1] = first)
        last(first, old) == IF own(first) = <<>> THEN old ELSE Last(own(first))[2]
        rows == own("")
    IN UpdateNbrLinesUsedInRung(
           [used |-> TRUE, label |-> last("#LABEL=", rung.label), comment |-> last("#COMMENT=", rung.comment),
            prev |-> last("#PREVRUNG=", rung.prev), next |-> last("#NEXTRUNG=", rung.next),
            rows |-> [y \in 1 .. Height |-> IF y <= Len(rows) THEN ConvRawLineOfElements(rung.rows[y], rows[y])
                                            ELSE rung.rows[y]],
            nbrLines |-> rung.nbrLines])

(* Sections: the lines of their names, then those of their numbers. *)
NoSection == [used |-> FALSE, name |-> Empty, numbers |-> <<0, None, 0, 0, 0>>]
SectionKept(section) == section.used
SaveSectionsParams(sections) ==
    <<Version>> \o Lines(sections, SectionKept, LAMBDA i, s : <<"#NAME", i, s.name>>)
    \o Lines(sections, SectionKept, LAMBDA i, s : <<"", i>> \o s.numbers)
LoadSectionsParams(sections, lines) ==
    Filled(Filled(sections, "#NAME", lines, LAMBDA s, line : [s EXCEPT !.name = line[3]]),
           "", lines, LAMBDA s, line : [s EXCEPT !.used = TRUE, !.numbers = SubSeq(line, 3, 7)])

(* Sequential: the comments of the pages, the steps as <<init, number,     *)
(* page, x, y>>, the transitions and their conditions, the comments.       *)
NoTransi == [links |-> [k \in 1 .. 4 * Switchs |-> None], place |-> <<None, 0, 0>>, var |-> <<0, 0>>]
NoComment == [place |-> <<None, 0, 0>>, text |-> Empty]
PageKept(comment) == comment # Empty
StepKept(step) == step[3] # None
Placed(element) == element.place[1] # None
SaveSequential(p) ==
    <<Version>> \o Lines(p.pages, PageKept, LAMBDA i, comment : <<"P", i, comment>>)
    \o Lines(p.steps, StepKept, LAMBDA i, step : <<"S", i>> \o step)
    \o Lines(p.transis, Placed, LAMBDA i, t : <<"T", i>> \o t.links \o t.place)
    \o Lines(p.transis, Placed, LAMBDA i, t : <<"C", i, t.var>>)
    \o Lines(p.comments, Placed, LAMBDA i, c : <<"N", i>> \o c.place \o <<c.text>>)
LoadSteps(steps, lines) == Filled(steps, "S", lines, LAMBDA s, line : SubSeq(line, 3, 7))
LoadTransis(transis, lines) ==
    Filled(Filled(transis, "T", lines,
                  LAMBDA t, line : [t EXCEPT !.links = SubSeq(line, 3, 2 + 4 * Switchs),
                                             !.place = SubSeq(line, 3 + 4 * Switchs, 5 + 4 * Switchs)]),
           "C", lines, LAMBDA t, line : [t EXCEPT !.var = line[3]])
LoadComments(comments, lines) ==
    Filled(comments, "N", lines, LAMBDA c, line : [place |-> SubSeq(line, 3, 5),
                                                   text |-> IF line[6] = Empty THEN c.text ELSE line[6]])
LoadSequential(p, lines) ==
    [p EXCEPT !.pages = Filled(@, "P", lines, LAMBDA c, line : line[3]), !.steps = LoadSteps(@, lines),
              !.transis = LoadTransis(@, lines), !.comments = LoadComments(@, lines)]

-----------------------------------------------------------------------------
(* The project in memory: what a new one is, the modbus parameters and the *)
(* variables spied being left as they were; all its files; all it loads.   *)
All(entry) == [i \in Indexes |-> entry]
KeysAll(keys, value) == [k \in ToSet(keys) |-> value]
DefaultName == <<Word(0)>>  \* Prog1
NewSection(rung) == [used |-> TRUE, name |-> DefaultName, numbers |-> <<0, None, rung, rung, 0>>]
InitRungs == [All(NoRung) EXCEPT ![0].used = TRUE]
InitSections == [All(NoSection) EXCEPT ![0] = NewSection(0)]
InitProjectProperties == [KeysAll(InfosKeys, Empty) EXCEPT !["PARAM_VERSION"] = <<0>>,
                                                           !["CREA_DATE"] = <<Now>>, !["MODIF_DATE"] = <<Now>>]
InitGeneralParamsMirror == KeysAll(GeneralKeys, 0)  \* 0 stands for the default of each
InitModem == [KeysAll(ModemKeys, Empty) EXCEPT !["MODEM_USED"] = 0, !["INIT_SEQ"] = <<Word(1)>>,
                                               !["CONFIG_SEQ"] = <<Word(2)>>, !["CALL_SEQ"] = <<Word(3)>>]
InitRemoteAlarmsConfig ==
    [k \in ToSet(AlarmsKeys) |->
        IF k = "GLOBAL_ENABLED" \/ \E i \in Indexes : k = SlotKeys(i)[2] THEN 0 ELSE Empty]
NoConf == <<None, NoDevice, 0, 0, 1, 0, 0>>

InitProjectDatas(modbus, spy) ==
    [infos |-> InitProjectProperties, general |-> InitGeneralParamsMirror, modbus |-> modbus, spy |-> spy,
     modem |-> InitModem, alarms |-> InitRemoteAlarmsConfig,
     counters |-> All(0), registers |-> All(Undefined), exprs |-> All(Empty), timers |-> All(<<1000, 0, 0>>),
     rungs |-> InitRungs, sections |-> InitSections,
     pages |-> All(Empty), steps |-> All(<<0, 0, None, 0, 0>>), transis |-> All(NoTransi),
     comments |-> All(NoComment),
     inputs |-> All(NoConf), outputs |-> All(NoConf), symbols |-> All(<<Empty, Empty, Empty>>),
     slaves |-> All(<<Empty, 0, Empty>>), requests |-> All(<<None, 0, 1, 1, 0, 0>>),
     events |-> All(<<None, 0, 0, Empty, Empty, 0>>)]

DeleteTheDefaultSection(p) == [p EXCEPT !.rungs[0].used = FALSE, !.sections[0].used = FALSE]

(* AddSection, when the project loaded has none. *)
AddSection(p) ==
    LET s == CHOOSE i \in Indexes : ~p.sections[i].used /\ \A j \in 0 .. i - 1 : p.sections[j].used
        free == {i \in Indexes : ~p.rungs[i].used}
    IN IF free = {} THEN p
       ELSE LET r == CHOOSE i \in free : \A j \in free : i <= j
            IN [p EXCEPT !.sections[s] = NewSection(r), !.rungs[r] = [NoRung EXCEPT !.used = TRUE]]

RungFile(i) == "rung_" \o ToString(i) \o ".csv"
SaveOrder ==
    <<"project_infos.txt", "general.txt", "counters.csv", "timers_iec.csv", "registers.csv",
      "arithmetic_expressions.csv", "rungs", "sections.csv", "sequential.csv", "symbols.csv", "ioconf.csv",
      "com_params.txt", "modbusioconf.csv", "config_events.csv", "modem_config.txt", "remote_alarms.txt",
      "spy_vars.csv">>

Saved(file, p) ==
    CASE file = "project_infos.txt" -> SaveProjectProperties(p.infos)
      [] file = "general.txt" -> LinesOfKeys(GeneralKeys, p.general) \o LinesOfKeys(SerialKeys, p.modbus)
      [] file = "counters.csv" -> SaveCountersParams(p.counters)
      [] file = "timers_iec.csv" -> SaveNewTimersParams(p.timers)
      [] file = "registers.csv" -> SaveRegistersParams(p.registers)
      [] file = "arithmetic_expressions.csv" -> SaveArithmeticExpr(p.exprs)
      [] file = "sections.csv" -> SaveSectionsParams(p.sections)
      [] file = "sequential.csv" -> SaveSequential(p)
      [] file = "symbols.csv" -> SaveSymbols(p.symbols)
      [] file = "ioconf.csv" -> SaveIOConfParams(p.inputs, p.outputs)
      [] file = "com_params.txt" -> LinesOfKeys(ComKeys, p.modbus)
      [] file = "modbusioconf.csv" -> SaveModbusIOConfParams(p.slaves, p.requests)
      [] file = "config_events.csv" -> SaveConfigEventsLog(p.events)
      [] file = "modem_config.txt" -> LinesOfKeys(ModemKeys, p.modem)
      [] file = "remote_alarms.txt" -> LinesOfKeys(AlarmsKeys, p.alarms)
      [] file = "spy_vars.csv" -> SaveBoolFreeVarsSpyList(p.spy)
      [] OTHER -> SaveRung(p.rungs[CHOOSE i \in Indexes : file = RungFile(i)])

(* The files that a step of the save adds: SaveAllRungs writes several. *)
FilesOf(file, p) ==
    IF file # "rungs" THEN <<file>>
    ELSE LET used == Kept(p.rungs, LAMBDA r : r.used) IN [k \in DOMAIN used |-> RungFile(used[k])]

LoadAllRungs(rungs, files) ==
    [i \in Indexes |-> IF RungFile(i) \in DOMAIN files THEN LoadRung(rungs[i], files[RungFile(i)]) ELSE rungs[i]]

(* LoadProjectFiles once the archive is split, and LoadAllLadderDatas: the *)
(* project that the files of the directory give, p being the one before.   *)
LoadAllLadderDatas(files, p) ==
    LET of(file) == IF file \in DOMAIN files THEN files[file] ELSE <<>>
        new == DeleteTheDefaultSection(InitProjectDatas(p.modbus, p.spy))
        serial == FilledKeys(p.modbus, of("general.txt"))
        read == LoadSequential(
            [new EXCEPT
              !.infos = LoadProjectProperties(@, of("project_infos.txt")),
              !.general = FilledKeys(@, of("general.txt")),
              !.modbus = FilledKeys(serial, of("com_params.txt")),
              !.counters = LoadCountersParams(@, of("counters.csv")),
              !.timers = LoadNewTimersParams(@, of("timers_iec.csv")),
              !.registers = LoadRegistersParams(@, of("registers.csv")),
              !.exprs = LoadArithmeticExpr(@, of("arithmetic_expressions.csv")),
              !.sections = LoadSectionsParams(@, of("sections.csv")),
              !.rungs = LoadAllRungs(@, files),
              !.inputs = LoadIOConfParams(@, "0", of("ioconf.csv")),
              !.outputs = LoadIOConfParams(@, "1", of("ioconf.csv")),
              !.slaves = LoadSlaves(@, of("modbusioconf.csv")),
              !.requests = LoadRequests(@, of("modbusioconf.csv")),
              !.symbols = LoadSymbols(@, of("symbols.csv")),
              !.events = LoadConfigEventsLog(@, of("config_events.csv")),
              !.modem = FilledKeys(@, of("modem_config.txt")),
              !.alarms = FilledKeys(@, of("remote_alarms.txt")),
              !.spy = LoadBoolFreeVarsSpyList(@, of("spy_vars.csv"))], of("sequential.csv"))
    IN IF \E i \in Indexes : read.sections[i].used THEN read ELSE AddSection(read)

(* What a project says: the entries in use of its tables, the numbers of   *)
(* those whose number others refer to.                                      *)
Used(table, Is(_)) == [i \in ToSet(Kept(table, Is)) |-> table[i]]
InUse(table, Is(_)) == LET kept == Kept(table, Is) IN [k \in DOMAIN kept |-> table[kept[k]]]
Meaning(p) ==
    [p EXCEPT !.counters = Used(@, CounterKept), !.registers = Used(@, RegisterKept),
              !.exprs = Used(@, ExprKept), !.timers = Used(@, TimerKept),
              !.rungs = Used(@, LAMBDA r : r.used), !.sections = Used(@, SectionKept),
              !.steps = Used(@, StepKept), !.transis = Used(@, Placed), !.comments = Used(@, Placed),
              !.inputs = InUse(@, ConfKept), !.outputs = InUse(@, ConfKept), !.symbols = InUse(@, SymbolKept),
              !.slaves = Used(@, SlaveKept), !.requests = InUse(@, RequestKept), !.events = Used(@, EventKept)]
=============================================================================
