----------------------------- MODULE CellRanges -----------------------------
(***************************************************************************)
(* Cell ranges: the literals a model can contain, the indexes a wrapper of *)
(* a literal holds, and their bounds.  An index counts from zero; the *    *)
(* of a literal becomes LastIndex and is resolved against a sheet.         *)
(***************************************************************************)
EXTENDS Integers, Sequences

CONSTANTS
    LastIndex,  \* Number.MAX_SAFE_INTEGER, which no sheet reaches
    Star        \* the id * of a row or column

ASSUME LastIndexAssumption == LastIndex \in Nat /\ LastIndex > 100

(* Ids as they are written: rows from 0 (an INTEGER), columns A = 1, ...   *)
ParseId(id) == IF id = Star THEN LastIndex ELSE id - 1

CellIndex(column, row) == [columnIndex |-> column, rowIndex |-> row]

ParseCellReference(cell) == CellIndex(ParseId(cell.column), ParseId(cell.row))

Wrapper(kind, from, to) == [kind |-> kind, from |-> from, to |-> to]

(* The constructor of CellRangeWrapper. *)
Wrap(literal) ==
    CASE literal.kind = "cell" ->
            LET index == ParseCellReference(literal.from) IN Wrapper("cell", index, index)
      [] literal.kind = "column" ->
            LET column == ParseId(literal.from.column)
            IN  Wrapper("column", CellIndex(column, 0), CellIndex(column, LastIndex))
      [] literal.kind = "row" ->
            LET row == ParseId(literal.from.row)
            IN  Wrapper("row", CellIndex(0, row), CellIndex(LastIndex, row))
      [] literal.kind = "range" ->
            Wrapper("range", ParseCellReference(literal.from), ParseCellReference(literal.to))

IsOneDimensional(range) ==
    \/ range.from.columnIndex = range.to.columnIndex
    \/ range.from.rowIndex = range.to.rowIndex

IsColumnWrapper(range) ==
    \/ range.kind = "column"
    \/ /\ range.kind = "range"
       /\ range.from.columnIndex = range.to.columnIndex
       /\ range.from.rowIndex = 0
       /\ range.to.rowIndex = LastIndex

IsRowWrapper(range) ==
    \/ range.kind = "row"
    \/ /\ range.kind = "range"
       /\ range.from.rowIndex = range.to.rowIndex
       /\ range.from.columnIndex = 0
       /\ range.to.columnIndex = LastIndex

ResolveIndex(index, last) == IF index = LastIndex THEN last ELSE index

ResolveCell(cell, bounds) ==
    CellIndex(ResolveIndex(cell.columnIndex, bounds.lastColumnIndex),
              ResolveIndex(cell.rowIndex, bounds.lastRowIndex))

ResolveRelativeIndexes(range, bounds) ==
    [range EXCEPT !.from = ResolveCell(@, bounds), !.to = ResolveCell(@, bounds)]


IsIndexInBounds(index, max) == max >= 0 /\ (index = LastIndex \/ index <= max)

IsCellInBounds(cell, bounds) ==
    /\ IsIndexInBounds(cell.columnIndex, bounds.lastColumnIndex)
    /\ IsIndexInBounds(cell.rowIndex, bounds.lastRowIndex)

IsInBounds(range, bounds) ==
    IsCellInBounds(range.from, bounds) /\ IsCellInBounds(range.to, bounds)

(* validateRangeLiteral, which is called for literals of that kind only. *)
RangeLimitsOk(range) ==
    range.kind = "range" =>
        /\ range.from.columnIndex <= range.to.columnIndex
        /\ range.from.rowIndex <= range.to.rowIndex

-----------------------------------------------------------------------------
(* Names of columns: digits 1 to 26 without a zero, the most significant   *)
(* first.                                                                  *)

Letters == 26

ColumnIndexAsCharacters(columnIndex) ==
    LET chars[value \in Nat] ==
            LET remainder == value % Letters
                quotient  == value \div Letters
            IN  IF value = 0 THEN <<>>
                ELSE IF remainder # 0 THEN Append(chars[quotient], remainder)
                ELSE Append(chars[quotient - 1], Letters)
    IN  chars[columnIndex + 1]

ColumnCharactersAsIndex(characters) ==
    LET value[n \in 0..Len(characters)] ==
            IF n = 0 THEN 0 ELSE value[n - 1] * Letters + characters[n]
    IN  value[Len(characters)] - 1
=============================================================================
