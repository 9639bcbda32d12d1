------------------------------- MODULE Sheets -------------------------------
(***************************************************************************)
(* Sheets and the block executors that work on them.  A sheet has its rows *)
(* and two counters, which its operations keep.  Rows may differ in length *)
(* (CSV) or be missing (XLSX): a hole in a JavaScript array has an index,  *)
(* but forEach and reduce pass over it.  An operation answers with what it *)
(* makes of a sheet, with an error, or by throwing.                        *)
(*                                                                         *)
(* Blocks share the objects they are given: memory is the list of all of   *)
(* them, and an executor is given a reference, a position in it.  It       *)
(* answers with the reference of its result and the memory as it leaves it.*)
(***************************************************************************)
EXTENDS CellRanges, FiniteSets, SequencesExt

CONSTANTS
    Hole,       \* a row that is not there
    Missing     \* a cell that is not there

Ok(value) == [tag |-> "ok", value |-> value]
Err == [tag |-> "err"]
Thrown == [tag |-> "thrown"]

Longest(lengths) == IF lengths = {} THEN 0 ELSE CHOOSE n \in lengths : \A m \in lengths : m <= n

Rows(data) == {data[i] : i \in DOMAIN data} \ {Hole}

Sheet(data) ==
    [data |-> data, numberOfRows |-> Len(data),
     numberOfColumns |-> Longest({Len(row) : row \in Rows(data)})]

Bounds(sheet) ==
    [lastColumnIndex |-> sheet.numberOfColumns - 1, lastRowIndex |-> sheet.numberOfRows - 1]

InSheet(range, sheet) == IsInBounds(range, Bounds(sheet))

Resolved(range, sheet) == ResolveRelativeIndexes(range, Bounds(sheet))

(* Array.splice(index, 1): a negative index counts from the end. *)
Splice(list, index) ==
    LET fromEnd == Len(list) + index
        at == IF index >= 0 THEN index ELSE IF fromEnd > 0 THEN fromEnd ELSE 0
    IN  IF at < Len(list) THEN RemoveAt(list, at + 1) ELSE list

(* Applies an operation to every row that is there. *)
ForRows(data, Op(_)) == [i \in DOMAIN data |-> IF data[i] = Hole THEN Hole ELSE Op(data[i])]

DeleteRow(sheet, row) ==
    IF ~InSheet(row, sheet) THEN Thrown
    ELSE Ok([sheet EXCEPT !.data = Splice(@, Resolved(row, sheet).from.rowIndex),
                          !.numberOfRows = @ - 1])

DeleteColumn(sheet, column) ==
    IF ~InSheet(column, sheet) THEN Thrown
    ELSE LET index == Resolved(column, sheet).from.columnIndex
         IN  Ok([sheet EXCEPT !.data = ForRows(@, LAMBDA row : Splice(row, index)),
                              !.numberOfColumns = @ - 1])

(* An assignment to row[index]: a shorter row grows, with holes. *)
Assign(row, index, content) ==
    [i \in 1..Longest({Len(row), index + 1}) |->
        IF i = index + 1 THEN content ELSE IF i <= Len(row) THEN row[i] ELSE Missing]

(* A row that does not exist makes the assignment throw. *)
WriteCell(sheet, cell, content) ==
    LET row == cell.rowIndex + 1
    IN  IF \/ ~IsCellInBounds(cell, Bounds(sheet))
           \/ row \notin DOMAIN sheet.data
           \/ sheet.data[row] = Hole
        THEN Thrown
        ELSE Ok([sheet EXCEPT !.data[row] = Assign(@, cell.columnIndex, content)])

(* row.slice(from, to + 1); never with a negative index but for column 0. *)
Slice(row, from, to) == SubSeq(row, from + 1, IF to < Len(row) THEN to + 1 ELSE Len(row))

SelectRange(sheet, relative) ==
    IF ~InSheet(relative, sheet) THEN Thrown
    ELSE LET range == Resolved(relative, sheet)
             chosen == SelectSeq([i \in DOMAIN sheet.data |-> [at |-> i - 1, row |-> sheet.data[i]]],
                                 LAMBDA r : /\ r.row # Hole
                                            /\ range.from.rowIndex <= r.at
                                            /\ r.at <= range.to.rowIndex)
         IN  Ok([data |-> [i \in DOMAIN chosen |->
                             Slice(chosen[i].row, range.from.columnIndex, range.to.columnIndex)],
                 numberOfColumns |-> range.to.columnIndex - range.from.columnIndex + 1,
                 numberOfRows |-> range.to.rowIndex - range.from.rowIndex + 1])

(* Row by row, as the outer loop is over the rows. *)
EnumerateCellIndexes(sheet, relative) ==
    LET range == Resolved(relative, sheet)
        width == range.to.columnIndex - range.from.columnIndex + 1
        height == range.to.rowIndex - range.from.rowIndex + 1
    IN  IF width <= 0 \/ height <= 0 THEN <<>>
        ELSE [i \in 1..(width * height) |->
                CellIndex(range.from.columnIndex + ((i - 1) % width),
                          range.from.rowIndex + ((i - 1) \div width))]

-----------------------------------------------------------------------------
(* References.  What an executor leaves behind.                            *)

Leaves(result, memory) == [result |-> result, memory |-> memory]

(* The object is a new one. *)
Allocate(memory, result) ==
    IF result.tag = "ok" THEN Leaves(Ok(Len(memory) + 1), Append(memory, result.value))
    ELSE Leaves(result, memory)

(* The object of a reference becomes what the operation makes of it. *)
Change(memory, at, result) ==
    IF result.tag = "ok" THEN Leaves(Ok(at), [memory EXCEPT ![at] = result.value])
    ELSE Leaves(result, memory)

-----------------------------------------------------------------------------
(* Workbooks: references to sheets, by their names.                        *)

EmptyWorkbook == [sheets |-> [name \in {} |-> 0]]

(* The answer's value is the workbook, which is not in the memory yet. *)
AddSheet(memory, workbook, name, data) ==
    IF name \in DOMAIN workbook.sheets THEN Leaves(Thrown, memory)
    ELSE Leaves(Ok([sheets |-> [n \in DOMAIN workbook.sheets \cup {name} |->
                                   IF n = name THEN Len(memory) + 1 ELSE workbook.sheets[n]]]),
                Append(memory, Sheet(data)))

(* Names of new sheets are numbered from the number of sheets on. *)
UniqueDefaultName(workbook) ==
    LET names == DOMAIN workbook.sheets
    IN  CHOOSE n \in Cardinality(names) + 1 .. 2 * Cardinality(names) + 1 :
            /\ n \notin names
            /\ \A m \in Cardinality(names) + 1 .. n - 1 : m \in names

-----------------------------------------------------------------------------
(* Executors.  Their properties have passed the validation.                *)

(* Runs an operation over a list of arguments until one throws. *)
RunAll(sheet, list, Op(_, _)) ==
    FoldLeft(LAMBDA result, x : IF result.tag = "ok" THEN Op(result.value, x) ELSE result,
             Ok(sheet), list)

(* removeDuplicateRows, on indexes sorted in ascending order: the current  *)
(* one is compared with the kept one at its own position less one.         *)
RemoveDuplicates(indexes) ==
    LET kept[n \in 0..Len(indexes)] ==
            IF n = 0 THEN <<>>
            ELSE IF (n - 1) \in DOMAIN kept[n - 1] /\ kept[n - 1][n - 1] = indexes[n]
            THEN kept[n - 1]
            ELSE Append(kept[n - 1], indexes[n])
    IN  kept[Len(indexes)]

Sorted(indexes) == SortSeq(indexes, <)

RowsToDelete(indexes) == Reverse(RemoveDuplicates(Sorted(indexes)))

RowAt(index, sheet) ==
    Wrapper("row", CellIndex(0, index), CellIndex(sheet.numberOfColumns - 1, index))
ColumnAt(index, sheet) ==
    Wrapper("column", CellIndex(index, 0), CellIndex(index, sheet.numberOfRows - 1))

(* Executors check their ranges on the input and work on a clone, which is *)
(* counted anew and the last object of the memory.                         *)
Clone(memory, at) == Append(memory, Sheet(memory[at].data))

OnClone(memory, at, Op(_)) ==
    LET cloned == Clone(memory, at)
    IN  Change(cloned, Len(cloned), Op(cloned[Len(cloned)]))

(* Mutant: the rows are deleted from the first to the last. *)
RowDeleterAscending(memory, at, ranges) ==
    LET sheet == memory[at]
        rows == [i \in DOMAIN ranges |-> Resolved(ranges[i], sheet)]
        indexes == [i \in DOMAIN rows |-> rows[i].from.rowIndex]
        DeleteRows(clone) == RunAll(clone, RemoveDuplicates(Sorted(indexes)),
                                    LAMBDA s, index : DeleteRow(s, RowAt(index, sheet)))
    IN  IF \E i \in DOMAIN rows : ~InSheet(rows[i], sheet) THEN Leaves(Err, memory)
        ELSE OnClone(memory, at, DeleteRows)

RowDeleter(memory, at, ranges) ==
    LET sheet == memory[at]
        rows == [i \in DOMAIN ranges |-> Resolved(ranges[i], sheet)]
        indexes == [i \in DOMAIN rows |-> rows[i].from.rowIndex]
        DeleteRows(clone) == RunAll(clone, RowsToDelete(indexes),
                                    LAMBDA s, index : DeleteRow(s, RowAt(index, sheet)))
    IN  IF \E i \in DOMAIN rows : ~InSheet(rows[i], sheet) THEN Leaves(Err, memory)
        ELSE OnClone(memory, at, DeleteRows)

ColumnDeleter(memory, at, ranges) ==
    LET sheet == memory[at]
        columns == [i \in DOMAIN ranges |-> Resolved(ranges[i], sheet)]
        indexes == [i \in DOMAIN columns |-> columns[i].from.columnIndex]
        DeleteColumns(clone) == RunAll(clone, RowsToDelete(indexes),
                                       LAMBDA s, index : DeleteColumn(s, ColumnAt(index, sheet)))
    IN  IF \E i \in DOMAIN columns : ~InSheet(columns[i], sheet) THEN Leaves(Err, memory)
        ELSE OnClone(memory, at, DeleteColumns)

(* As many cells are written as there are values for. *)
CellWriter(memory, at, range, values) ==
    LET cells == EnumerateCellIndexes(memory[at], range)
        writes == [i \in 1..(IF Len(values) < Len(cells) THEN Len(values) ELSE Len(cells)) |->
                      [cell |-> cells[i], content |-> values[i]]]
        WriteCells(clone) == RunAll(clone, writes, LAMBDA s, w : WriteCell(s, w.cell, w.content))
    IN  IF ~InSheet(Resolved(range, memory[at]), memory[at]) THEN Leaves(Err, memory)
        ELSE OnClone(memory, at, WriteCells)

(* Mutant: the input is not cloned before it is worked on. *)
CellRangeSelectorInPlace(memory, at, range) ==
    LET absolute == Resolved(range, memory[at])
    IN  IF ~InSheet(absolute, memory[at]) THEN Leaves(Err, memory)
        ELSE Change(memory, at, SelectRange(memory[at], absolute))

CellRangeSelector(memory, at, range) ==
    LET absolute == Resolved(range, memory[at])
        SelectAbsolute(clone) == SelectRange(clone, absolute)
    IN  IF ~InSheet(absolute, memory[at]) THEN Leaves(Err, memory)
        ELSE OnClone(memory, at, SelectAbsolute)

(* The sheet is the workbook's own: it is shared with whoever picks it.    *)
SheetPicker(memory, at, name) ==
    LET sheets == memory[at].sheets
    IN  Leaves(IF name \in DOMAIN sheets THEN Ok(sheets[name]) ELSE Err, memory)

(* Each line of the text is parsed on its own: to a row, with an error, or *)
(* without giving a row, which the constructor of Sheet cannot take.       *)
CSVInterpreter(memory, lines) ==
    Allocate(memory,
             IF \E i \in DOMAIN lines : lines[i].tag = "error" THEN Err
             ELSE IF \E i \in DOMAIN lines : lines[i].tag = "nothing" THEN Thrown
             ELSE Ok(Sheet([i \in DOMAIN lines |-> lines[i].row])))

(* A row of the file that has no value is passed over: it becomes a hole.  *)
XLSXInterpreter(memory, file) ==
    LET read == FoldLeft(LAMBDA answer, s :
                            IF answer.result.tag # "ok" THEN answer
                            ELSE AddSheet(answer.memory, answer.result.value, s.name, s.rows),
                         Leaves(Ok(EmptyWorkbook), memory), file)
    IN  Allocate(read.memory, read.result)

-----------------------------------------------------------------------------
(* What the validation accepts of the properties of these executors. *)

RowDeleterAccepted(literals) ==
    \A i \in DOMAIN literals : LET range == Wrap(literals[i])
                               IN  RangeLimitsOk(range) /\ IsRowWrapper(range)

ColumnDeleterAccepted(literals) ==
    \A i \in DOMAIN literals : LET range == Wrap(literals[i])
                               IN  RangeLimitsOk(range) /\ IsColumnWrapper(range)

CellWriterAccepted(literal) ==
    RangeLimitsOk(Wrap(literal)) /\ IsOneDimensional(Wrap(literal))
=============================================================================
