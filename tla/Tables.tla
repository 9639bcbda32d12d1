------------------------------- MODULE Tables -------------------------------
(***************************************************************************)
(* Tables and the executors that make and transform them.  A table counts  *)
(* its rows and has its columns in the order of the Map they are kept in.  *)
(* An executor answers as in Sheets; with its result and the memory goes   *)
(* what it leaves in the context: nodes on the stack, variables and the    *)
(* keyword's value.                                                        *)
(***************************************************************************)
EXTENDS Sheets, Constraints

EmptyTable == [numberOfRows |-> 0, columns |-> <<>>]

Column(name, type, values) == [name |-> name, type |-> type, values |-> values]

ColumnNames(table) == {table.columns[i].name : i \in DOMAIN table.columns}

ColumnOf(table, name) == CHOOSE c \in ToSet(table.columns) : c.name = name

(* A column of the same name is replaced where it is. *)
AddColumn(table, column) ==
    IF Len(column.values) # table.numberOfRows THEN Thrown
    ELSE IF column.name \in ColumnNames(table)
    THEN Ok([table EXCEPT !.columns =
                [i \in DOMAIN @ |-> IF @[i].name = column.name THEN column ELSE @[i]]])
    ELSE Ok([table EXCEPT !.columns = Append(@, column)])

(* Mutant: the row is not counted. *)
AddRowUncounted(table, row) ==
    Ok([table EXCEPT !.columns =
           [i \in DOMAIN @ |-> [@[i] EXCEPT !.values = Append(@, row[table.columns[i].name])]]])

(* row is a function from names of columns. *)
AddRow(table, row) ==
    IF Cardinality(DOMAIN row) # Len(table.columns) THEN Thrown
    ELSE IF DOMAIN row = {} THEN Ok(table)
    ELSE IF \/ ~(DOMAIN row \subseteq ColumnNames(table))
            \/ \E c \in ToSet(table.columns) : ~IsRepresentation(c.type, row[c.name])
    THEN Thrown
    ELSE Ok([numberOfRows |-> table.numberOfRows + 1,
             columns |-> [i \in DOMAIN table.columns |->
                             [table.columns[i] EXCEPT
                                !.values = Append(@, row[table.columns[i].name])]]])

DropRow(table, row) ==
    IF row >= table.numberOfRows THEN Thrown
    ELSE Ok([numberOfRows |-> table.numberOfRows - 1,
             columns |-> [i \in DOMAIN table.columns |->
                             [table.columns[i] EXCEPT !.values = Splice(@, row)]]])

DropRows(table, rows) == RunAll(table, SortSeq(rows, >), DropRow)

GetRow(table, row) ==
    IF row >= table.numberOfRows THEN Thrown
    ELSE Ok([name \in ColumnNames(table) |-> ColumnOf(table, name).values[row + 1]])

(* toRows of the CSVFileLoader: as many rows as the first column has.      *)
LoadedRows(table) ==
    LET columns == table.columns
    IN  IF columns = <<>> THEN Ok(<<>>)
        ELSE IF \E i \in DOMAIN columns : Len(columns[i].values) < Len(columns[1].values)
        THEN Thrown
        ELSE Ok([r \in DOMAIN columns[1].values |->
                    [i \in DOMAIN columns |-> columns[i].values[r]]])

-----------------------------------------------------------------------------
(* TableInterpreter: definitions are the columns that are asked for.       *)

Answer(result, context) == [result |-> result, context |-> context]

AnswerOf(left, context) == [result |-> left.result, memory |-> left.memory, context |-> context]

(* The first column of that name; definitions without one are left out.    *)
EntriesFromHeader(definitions, headerRow) ==
    LET named == SelectSeq(definitions, LAMBDA d : d.name \in ToSet(headerRow))
    IN  [i \in DOMAIN named |->
            [index |-> SelectInSeq(headerRow, LAMBDA name : name = named[i].name),
             name |-> named[i].name, type |-> named[i].type]]

EntriesWithoutHeader(definitions) ==
    [i \in DOMAIN definitions |->
        [index |-> i, name |-> definitions[i].name, type |-> definitions[i].type]]

Parsed(row, entry) ==
    LET cell == IF entry.index \in DOMAIN row THEN row[entry.index] ELSE Missing
    IN  IF cell = Missing THEN Undefined ELSE ParseValue(cell, entry.type)

CellVerdict(row, entry, variables) ==
    LET value == Parsed(row, entry)
    IN  IF value = Raised THEN Judged(Raised, <<>>)
        ELSE IF value = Undefined THEN Judged(FALSE, <<>>)
        ELSE Validity(entry.type, value, variables)

(* The context when a constraint has raised for a value; or no constraint, *)
(* as the supertypes have a cycle: then there is nothing left.             *)
Interrupted(context, left, value) ==
    IF left = <<>> THEN context ELSE [context EXCEPT !.stack = @ \o left, !.value = value]

(* constructAndValidateTableRow with addRow: a row is added if all of its  *)
(* cells are valid, also behind the first that is not.                     *)
InterpretRow(answer, row, entries) ==
    LET verdicts == [i \in DOMAIN entries |->
                        CellVerdict(row, entries[i], answer.context.variables)]
        raised == {i \in DOMAIN entries : verdicts[i].verdict = Raised}
        first == CHOOSE i \in raised : \A j \in raised : i <= j
    IN  IF answer.result.tag # "ok" THEN answer
        ELSE IF raised # {}
        THEN Answer(Thrown, Interrupted(answer.context, verdicts[first].left,
                                        Parsed(row, entries[first])))
        ELSE IF \E i \in DOMAIN entries : verdicts[i].verdict = FALSE THEN answer
        ELSE Answer(AddRow(answer.result.value,
                           [name \in {e.name : e \in ToSet(entries)} |->
                               Parsed(row, CHOOSE e \in ToSet(entries) : e.name = name)]),
                    answer.context)

InterpretRows(sheet, header, entries, context) ==
    LET rows == SelectSeq(SubSeq(sheet.data, IF header THEN 2 ELSE 1, Len(sheet.data)),
                          LAMBDA row : row # Hole)
        columns == [i \in DOMAIN entries |-> Column(entries[i].name, entries[i].type, <<>>)]
    IN  FoldLeft(LAMBDA answer, row : InterpretRow(answer, row, entries),
                 Answer(Ok([EmptyTable EXCEPT !.columns = columns]), context), rows)

HasHeaderRow(sheet) == sheet.data # <<>> /\ sheet.data[1] # Hole

(* A header row that is not there is looked into for the first definition. *)
TableOf(sheet, header, definitions, context) ==
    IF header
    THEN IF sheet.numberOfRows < 1 THEN Answer(Err, context)
         ELSE IF definitions = <<>> THEN InterpretRows(sheet, header, <<>>, context)
         ELSE IF ~HasHeaderRow(sheet) THEN Answer(Thrown, context)
         ELSE InterpretRows(sheet, header, EntriesFromHeader(definitions, sheet.data[1]), context)
    ELSE IF sheet.numberOfColumns < Len(definitions) THEN Answer(Err, context)
    ELSE InterpretRows(sheet, header, EntriesWithoutHeader(definitions), context)

TableInterpreter(memory, at, header, definitions, context) ==
    LET answer == TableOf(memory[at], header, definitions, context)
    IN  AnswerOf(Allocate(memory, answer.result), answer.context)

-----------------------------------------------------------------------------
(* TableTransformer: transform has input ports (names and types), and its  *)
(* output port has a type and is assigned an expression.                   *)

PortNames(transform) == {transform.ports[k].name : k \in DOMAIN transform.ports}

AddVariables(transform, columns, row, variables) ==
    [name \in DOMAIN variables \cup PortNames(transform) |->
        IF name \in PortNames(transform)
        THEN columns[CHOOSE k \in DOMAIN columns : transform.ports[k].name = name].values[row]
        ELSE variables[name]]

(* Mutant: the variables stay. *)
RemoveNothing(transform, variables) == variables

RemoveVariables(transform, variables) ==
    [name \in DOMAIN variables \ PortNames(transform) |-> variables[name]]

CollectValue(state, row, value, verdict) ==
    IF value = Undefined \/ verdict = FALSE THEN [state EXCEPT !.dropped = Append(@, row - 1)]
    ELSE [state EXCEPT !.values = Append(@, value)]

(* One turn of the loop over the rows.  An exception of the evaluation is  *)
(* caught and drops the row, one of a constraint is not.                   *)
TransformRow(state, transform, columns, row) ==
    LET bound == AddVariables(transform, columns, row, state.context.variables)
        evaluated == Evaluate(transform.expression, [variables |-> bound, value |-> state.context.value], "lazy")
        value == IF evaluated = Raised THEN Undefined ELSE evaluated
        judged == IF value = Undefined THEN Judged(FALSE, <<>>) ELSE Validity(transform.type, value, bound)
    IN  IF state.failed THEN state
        ELSE IF judged.verdict = Raised
        THEN [state EXCEPT !.failed = TRUE,
                           !.context = Interrupted([@ EXCEPT !.variables = bound], judged.left, value)]
        ELSE [CollectValue(state, row, value, judged.verdict)
                EXCEPT !.context.variables = RemoveVariables(transform, bound)]

ExecuteTransform(transform, columns, numberOfRows, context) ==
    FoldLeft(LAMBDA state, row : TransformRow(state, transform, columns, row),
             [values |-> <<>>, dropped |-> <<>>, failed |-> FALSE,
              context |-> [context EXCEPT !.stack = Append(@, transform.name)]],
             [row \in 1..numberOfRows |-> row])

Left(context) == [context EXCEPT !.stack = Front(@)]

(* createOutputTable; the clone of a table is the last of the memory. *)
OutputTable(memory, at, state, transform, output) ==
    LET cloned == Append(memory, memory[at])
        kept == DropRows(memory[at], state.dropped)
    IN  Change(cloned, Len(cloned),
               IF kept.tag # "ok" THEN kept
               ELSE AddColumn(kept.value, Column(output, transform.type, state.values)))

TableTransformer(memory, at, inputs, output, transform, context) ==
    LET table == memory[at]
        columns == [k \in DOMAIN inputs |-> ColumnOf(table, inputs[k])]
        state == ExecuteTransform(transform, columns, table.numberOfRows, context)
        Refused(result) == AnswerOf(Leaves(result, memory), context)
    IN  IF ~(ToSet(inputs) \subseteq ColumnNames(table)) THEN Refused(Err)
        ELSE IF \E k \in DOMAIN inputs : ~IsConvertibleTo(columns[k].type, transform.ports[k].type)
        THEN Refused(Err)
        ELSE IF state.failed THEN AnswerOf(Leaves(Thrown, memory), state.context)
        ELSE AnswerOf(OutputTable(memory, at, state, transform, output), Left(state.context))
=============================================================================
