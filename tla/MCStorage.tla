------------------------------ MODULE MCStorage ------------------------------
(* Projects for TLC: one whose tables are in use but for their first       *)
(* entry, with a section of all its rungs, that use all its expressions,   *)
(* and a sequential one; one with every other table empty, one section and *)
(* its rung.                                                               *)
EXTENDS Storage

SECTION_IN_SEQUENTIAL == 1

Values(keys, first) == [k \in ToSet(keys) |-> first + (CHOOSE i \in DOMAIN keys : keys[i] = k)]
Texts(keys, first) == [k \in ToSet(keys) |-> <<Word(first + (CHOOSE i \in DOMAIN keys : keys[i] = k))>>]
Mixed(i, entry, none) == [k \in Indexes |-> IF k < i THEN none ELSE entry]
Sentence == <<Word(7), Blank, Word(8)>>  \* with commas

Element(n) == <<ELE_COMPAR, 1, 2, n, None, 0>>
Indexed(n) == <<n, 0, 2, n, 3, n>>
Rung(i) ==
    [used |-> TRUE, label |-> Sentence, comment |-> <<Word(9)>>, prev |-> i - 1,
     next |-> IF i < Size - 1 THEN i + 1 ELSE None,
     rows |-> [y \in 1 .. Height |-> IF y = Height THEN NoRung.rows[1]
                                     ELSE [x \in 1 .. Width |-> IF x = 1 THEN Element(i) ELSE Indexed(x)]],
     nbrLines |-> IF Height > 1 THEN Height - 1 ELSE Height]

(* The project whose tables are in use from entry i on. *)
From(i) ==
    [infos |-> [Texts(InfosKeys, 10) EXCEPT !["PARAM_VERSION"] = <<0>>,
                                             !["PARAM_COMMENT"] = <<Word(1), NewLine, Word(2)>>],
     general |-> Values(GeneralKeys, i), modbus |-> Values(SerialKeys \o ComKeys, i),
     spy |-> [k \in 1 .. 4 |-> <<k, i>>], modem |-> Texts(ModemKeys, 20), alarms |-> Texts(AlarmsKeys, 30),
     counters |-> Mixed(i, 5, 0), registers |-> Mixed(i, 2, Undefined), exprs |-> Mixed(i, Sentence, Empty),
     timers |-> Mixed(i, <<60000, 1, 2>>, <<1000, 0, 0>>),
     rungs |-> [k \in Indexes |-> IF k < i THEN NoRung ELSE Rung(k)],
     sections |-> [k \in Indexes |-> IF k < i THEN InitSections[k]
                                     ELSE [used |-> TRUE, name |-> Sentence,
                                              numbers |-> IF k = i THEN <<SECTION_IN_LADDER, None, i, Size - 1, 0>>
                                                          ELSE <<SECTION_IN_SEQUENTIAL, None, 0, 0, 1>>]],
     pages |-> Mixed(i, Sentence, Empty), steps |-> Mixed(i, <<1, 3, 0, 4, 2>>, <<0, 0, None, 0, 0>>),
     transis |-> Mixed(i, [links |-> [k \in 1 .. 4 * Switchs |-> k], place |-> <<0, 1, 2>>, var |-> <<50, 3>>],
                       NoTransi),
     comments |-> Mixed(i, [place |-> <<1, 2, 3>>, text |-> Sentence], NoComment),
     inputs |-> Mixed(i, <<1, 5, 2, 3, 4, 1, 7>>, NoConf), outputs |-> Mixed(i, <<None, 6, 1, 1, 1, 0, 0>>, NoConf),
     symbols |-> Mixed(i, <<<<Word(1)>>, <<Word(2)>>, Empty>>, <<Empty, Empty, Empty>>),
     slaves |-> Mixed(i, <<<<Word(3)>>, 1, <<Word(4)>>>>, <<Empty, 0, Empty>>),
     requests |-> Mixed(i, <<0, 2, 1, 3, 1, 4>>, <<None, 0, 1, 1, 0, 0>>),
     events |-> Mixed(i, <<0, 2, 1, Empty, <<Word(5)>>, 3>>, <<None, 0, 0, Empty, Empty, 0>>)]

MCProjects ==
    {From(1), [From(Size) EXCEPT !.sections = InitSections, !.rungs = InitRungs, !.timers = From(1).timers,
                                 !.exprs = From(0).exprs, !.steps = From(2).steps, !.requests = From(1).requests]}
=============================================================================
