------------------------------- MODULE MCTables -------------------------------
(***************************************************************************)
(* Small files, every chain of blocks on them, and what the results are.   *)
(***************************************************************************)
EXTENDS TabularBlocks

(* The texts are abstract; of numbers there are 0, 1 and 2. *)
MCNumeral == ("0" :> 0) @@ ("1" :> 10) @@ ("2" :> 20)
NoTexts == [text \in {} |-> 0]
NoPairs == {}

Small == Atomic("Small")

(* 1 / value >= 0.7 has no value for 0 and holds for 1, but not for 2. *)
MCModel ==
    [valueTypes |-> [Small |-> [super |-> Decimal, constraints |-> <<"Inverse">>]],
     constraints |->
        [Inverse |-> [kind |-> "expression", on |-> Decimal,
                      expression |-> Binary(">=", Binary("/", Literal(NumberValue(10)),
                                                         ValueKeyword(FALSE)),
                                            Literal(NumberValue(7)))]]]

Row(cells) == [tag |-> "row", row |-> cells]

MCFiles ==
    {[csv |-> <<Row(h)>> \o rows] :
        h \in {<<"a", "b">>, <<"b", "a">>},
        rows \in {<<>>, <<Row(<<"2", "0">>), Row(<<"1", "2">>)>>,
                  <<Row(<<"x", "1">>), Row(<<"1", "1">>), Row(<<"1", "2">>)>>}}
    \cup {[csv |-> <<Row(<<"1", "1">>), Row(<<"2">>), Row(<<>>)>>], [csv |-> <<>>],
          [csv |-> <<Row(<<"a">>), [tag |-> "error"]>>], [csv |-> <<[tag |-> "nothing"]>>]}
    \cup {[xlsx |-> <<[name |-> "s", rows |-> <<<<"a", "b">>, Hole, <<"1", "2">>>>],
                      [name |-> other, rows |-> <<Hole>>]>>] : other \in {"s", "t"}}

MCSheetNames == {"s", "t", "u"}

Cell(c, r) == [column |-> c, row |-> r]
RowLiteral(r) == [kind |-> "row", from |-> [row |-> r]]
ColumnLiteral(c) == [kind |-> "column", from |-> [column |-> c]]
RangeLiteral(from, to) == [kind |-> "range", from |-> from, to |-> to]

MCRowLists ==
    {<<RowLiteral(2)>>, <<RowLiteral(3), RowLiteral(2)>>, <<RowLiteral(2), RowLiteral(3), RowLiteral(2)>>,
     <<RowLiteral(2), RowLiteral(2), RowLiteral(2)>>, <<RowLiteral(Star)>>,
     <<RangeLiteral(Cell(1, 1), Cell(Star, 1)), RowLiteral(4)>>, <<RowLiteral(0)>>,
     <<RangeLiteral(Cell(1, 1), Cell(2, 1))>>}
MCColumnLists ==
    {<<ColumnLiteral(1)>>, <<ColumnLiteral(1), ColumnLiteral(2), ColumnLiteral(1)>>,
     <<RangeLiteral(Cell(Star, 1), Cell(Star, Star))>>, <<ColumnLiteral(3)>>}
MCWrites ==
    {[literal |-> [kind |-> "cell", from |-> Cell(2, 3)], values |-> <<"1">>],
     [literal |-> ColumnLiteral(1), values |-> <<"a", "1">>],
     [literal |-> RangeLiteral(Cell(1, 2), Cell(Star, 2)), values |-> <<"2", "1", "x">>],
     [literal |-> RangeLiteral(Cell(1, 1), Cell(2, 2)), values |-> <<"1">>]}
MCSelections ==
    {RangeLiteral(Cell(1, 1), Cell(2, 2)), RangeLiteral(Cell(2, 1), Cell(Star, Star)),
     RangeLiteral(Cell(1, 2), Cell(1, 3)), RangeLiteral(Cell(2, 2), Cell(1, 1))}

Define(a, ta, b, tb) == <<[name |-> a, type |-> ta], [name |-> b, type |-> tb]>>
MCDefinitions == {Define("a", Integer, "b", Decimal), Define("b", Small, "c", Text), <<>>}

(* The value of the port for a constrained type; and a quotient as an      *)
(* integer.  The port q has the name of a property of a composite block    *)
(* around the pipeline.                                                    *)
ToSmall(name, port) ==
    [name |-> name, ports |-> <<[name |-> port, type |-> Decimal]>>, type |-> Small,
     expression |-> Port(port, Decimal)]
Transform1 == ToSmall("T1", "p")
Transform3 == ToSmall("T3", "q")
Transform2 ==
    [name |-> "T2", type |-> Integer,
     ports |-> <<[name |-> "p", type |-> Decimal], [name |-> "q", type |-> Integer]>>,
     expression |-> Unary("floor", Binary("/", Port("q", Integer),
                                          Binary("-", Port("p", Decimal), Literal(NumberValue(10)))))]
MCTransforms ==
    {[inputs |-> <<"b">>, output |-> "b", transform |-> Transform1],
     [inputs |-> <<"a">>, output |-> "c", transform |-> Transform3],
     [inputs |-> <<"b", "a">>, output |-> "c", transform |-> Transform2]}

MCOuterVariables == [outer |-> NumberValue(10), q |-> NumberValue(20)]

MCInit == model = MCModel /\ Init
Spec == MCInit /\ [][Next]_vars

-----------------------------------------------------------------------------
From == memory[last.from]
Result == memory[last.value]
Did(block) == last.block = block /\ last.tag = "ok"

(* All rows are there and have the length that is counted. *)
IsRegular(sheet) ==
    /\ Len(sheet.data) = sheet.numberOfRows
    /\ \A i \in DOMAIN sheet.data :
           sheet.data[i] # Hole /\ Len(sheet.data[i]) = sheet.numberOfColumns

Without(list, indexes) ==
    LET kept == SelectSeq([i \in DOMAIN list |-> i], LAMBDA i : i - 1 \notin indexes)
    IN  [k \in DOMAIN kept |-> list[kept[k]]]

(* The indexes of a list of ranges, and whether one is repeated twice. *)
RowIndexes(sheet) ==
    [k \in DOMAIN last.properties |-> Resolved(last.properties[k], sheet).from.rowIndex]
ColumnIndexes(sheet) ==
    [k \in DOMAIN last.properties |-> Resolved(last.properties[k], sheet).from.columnIndex]
RepeatedOnce(indexes) == Len(indexes) - Cardinality(ToSet(indexes)) <= 1
FromZero(indexes) == \A k \in DOMAIN indexes : indexes[k] >= 0

(* "Invariant: the shape of the table is always a rectangle."  Loaders and *)
(* transforms read all columns by the same row.                            *)
TablesAreRectangular ==
    \A i \in TablesMade : \A c \in ToSet(memory[i].columns) : Len(c.values) = memory[i].numberOfRows

(* What a table holds is valid for its columns' types, whatever block put  *)
(* it there: databases and transforms rely on it.                          *)
ValuesAreValid ==
    \A i \in TablesMade : \A c \in ToSet(memory[i].columns) : \A k \in DOMAIN c.values :
        IsValid(c.type, c.values[k], OuterVariables)

(* Blocks with the same input share the object, and those that pick a      *)
(* sheet share it with the workbook: no block changes an object that was   *)
(* there before it.                                                        *)
InputsAreNotChanged ==
    [][\A i \in DOMAIN memory : memory'[i] = memory[i]]_vars

(* The counters of a sheet, by which ranges are resolved and checked, are  *)
(* those of its cells after any blocks, if the rows are equally long.      *)
CountersStayRight ==
    /\ last.from \in SheetsMade /\ last.tag = "ok"
    /\ Is("data", Result) /\ IsRegular(From)
    /\ Did("RowDeleter") => FromZero(RowIndexes(From))
    => IsRegular(Result)

(* The rows and columns that are named are deleted and no others, if not   *)
(* more than one is named twice.                                           *)
DeletesWhatIsNamed ==
    /\ Did("RowDeleter") /\ RepeatedOnce(RowIndexes(From)) /\ FromZero(RowIndexes(From)) =>
           Result.data = Without(From.data, ToSet(RowIndexes(From)))
    /\ Did("ColumnDeleter") /\ IsRegular(From) /\ RepeatedOnce(ColumnIndexes(From)) =>
           Result.data = [i \in DOMAIN From.data |->
                             Without(From.data[i], ToSet(ColumnIndexes(From)))]

(* The cells of the range have the values in their order, the others are   *)
(* as they were.                                                           *)
WritesTheRange ==
    Did("CellWriter") /\ IsRegular(From) =>
        LET range == Resolved(last.properties.range, From)
            Inside(r, c) ==
                /\ range.from.rowIndex < r /\ r <= range.to.rowIndex + 1
                /\ range.from.columnIndex < c /\ c <= range.to.columnIndex + 1
            Position(r, c) == r - range.from.rowIndex + c - range.from.columnIndex - 1
        IN  \A r \in DOMAIN From.data : \A c \in DOMAIN From.data[r] :
                Result.data[r][c] =
                    IF Inside(r, c) /\ Position(r, c) \in DOMAIN last.properties.values
                    THEN last.properties.values[Position(r, c)]
                    ELSE From.data[r][c]

(* Exactly the cells of the range are selected.                            *)
SelectsTheRange ==
    Did("CellRangeSelector") /\ IsRegular(From) =>
        LET range == Resolved(last.properties, From)
        IN  Result.data =
                [r \in 1..(range.to.rowIndex - range.from.rowIndex + 1) |->
                    [c \in 1..(range.to.columnIndex - range.from.columnIndex + 1) |->
                        From.data[range.from.rowIndex + r][range.from.columnIndex + c]]]

(* A table has the rows whose cells are all valid, in their order, with    *)
(* every column taken from below its name.                                 *)
InterpretsTheValidRows ==
    Did("TableInterpreter") =>
        LET header == last.properties.header
            defined == last.properties.definitions
            Named(d) == \E c \in DOMAIN From.data[1] : From.data[1][c] = d.name
            columns == IF header THEN SelectSeq(defined, Named) ELSE defined
            At(k) == IF ~header THEN k
                     ELSE CHOOSE c \in DOMAIN From.data[1] :
                              /\ From.data[1][c] = columns[k].name
                              /\ \A d \in 1..c - 1 : From.data[1][d] # columns[k].name
            Value(row, k) == IF At(k) \in DOMAIN row /\ row[At(k)] # Missing
                             THEN ParseValue(row[At(k)], columns[k].type) ELSE Undefined
            valid == SelectSeq(SubSeq(From.data, IF header THEN 2 ELSE 1, Len(From.data)),
                               LAMBDA row : /\ row # Hole
                                            /\ \A k \in DOMAIN columns :
                                                IsValid(columns[k].type, Value(row, k), OuterVariables))
        IN  Result.columns = [k \in DOMAIN columns |->
                Column(columns[k].name, columns[k].type, [r \in DOMAIN valid |-> Value(valid[r], k)])]

(* A transform computes the output column row by row from the input        *)
(* columns, and a row goes as a whole when it has no valid value.          *)
TransformsRowByRow ==
    Did("TableTransformer") =>
        LET t == last.properties.transform
            rows == [r \in 1..From.numberOfRows |-> GetRow(From, r - 1).value]
            Inputs(row) == [name \in PortNames(t) |->
                               row[last.properties.inputs[CHOOSE k \in DOMAIN t.ports : t.ports[k].name = name]]]
            Value(row) == Evaluate(t.expression, [variables |-> Inputs(row), value |-> Undefined], "lazy")
            kept == SelectSeq(rows, LAMBDA row : IsValue(Value(row)) /\ IsValid(t.type, Value(row), <<>>))
        IN  /\ Result.numberOfRows = Len(kept)
            /\ \A r \in DOMAIN kept : \A c \in ToSet(Result.columns) :
                   c.values[r] = IF c.name = last.properties.output THEN Value(kept[r]) ELSE kept[r][c.name]

(* The name of a column, as diagnostics show it and models write it, is a  *)
(* name of letters only, stands for that column, and for no other.         *)
ColumnNamesAreReadBack ==
    memory = <<>> =>
        \A index \in 0..800 :
            /\ ToSet(ColumnIndexAsCharacters(index)) \subseteq 1..Letters
            /\ ColumnCharactersAsIndex(ColumnIndexAsCharacters(index)) = index

Unbound(variables, names) == [n \in DOMAIN variables \ names |-> variables[n]]

(* The names a transform has bound to the values of a row.                 *)
BoundNames ==
    IF last.block = "TableTransformer" /\ last.tag # "err" /\ From.numberOfRows > 0
    THEN PortNames(last.properties.transform) ELSE {}

(* A block leaves the context as it was, but for the variables that have   *)
(* the names of a transform's ports: whatever they were before, properties *)
(* of a composite block around it included, removeVariablesFromContext has *)
(* deleted them.  Only a constraint without a verdict leaves its traces,   *)
(* which are its node, the value and the last row's variables.             *)
ContextIsRestored ==
    [][\/ context' = [context EXCEPT !.variables = Unbound(@, BoundNames')]
       \/ /\ last'.tag = "thrown"
          /\ last'.block \in {"TableInterpreter", "TableTransformer"}
          /\ Last(context'.stack) = "Inverse"
          /\ context'.value # Undefined
          /\ Unbound(context'.variables, BoundNames') = Unbound(context.variables, BoundNames')
      ]_vars


(* The CSVFileLoader writes the rows of the table.                         *)
LoadsTheTable ==
    \A i \in TablesMade :
        /\ LoadedRows(memory[i]).tag = "ok"
        /\ memory[i].columns # <<>> =>
            /\ Len(LoadedRows(memory[i]).value) = memory[i].numberOfRows
            /\ \A r \in 1..memory[i].numberOfRows : \A k \in DOMAIN memory[i].columns :
                   LoadedRows(memory[i]).value[r][k] =
                       GetRow(memory[i], r - 1).value[memory[i].columns[k].name]

(* Whatever blocks made it: a table is a rectangle of valid values, and a  *)
(* sheet counts its rows and columns right.                                *)
ObjectsAreWellFormed == TablesAreRectangular /\ ValuesAreValid /\ CountersStayRight

(* What comes out of a block is what its properties say of what came in.   *)
BlocksDoWhatTheySay ==
    /\ DeletesWhatIsNamed /\ WritesTheRange /\ SelectsTheRange
    /\ InterpretsTheValidRows /\ TransformsRowByRow /\ LoadsTheTable
    /\ ColumnNamesAreReadBack
=============================================================================
