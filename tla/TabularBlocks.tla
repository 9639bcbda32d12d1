---------------------------- MODULE TabularBlocks ----------------------------
(***************************************************************************)
(* A pipeline of tabular blocks: each takes the workbook, sheet or table   *)
(* of a block before it, which other blocks may take as well, and gives    *)
(* one of its own, or a sheet of a workbook.  What is handed on is a       *)
(* reference to an object in the memory.  The pipeline ends with the first *)
(* block that fails.                                                       *)
(***************************************************************************)
EXTENDS Tables

CONSTANTS
    Files,          \* the files: [csv |-> lines] or [xlsx |-> sheets]
    SheetNames,     \* properties of the blocks: names of sheets,
    RowLists,       \*   lists of literals of rows,
    ColumnLists,    \*   and of columns,
    Writes,         \*   ranges with the values to write,
    Selections,     \*   ranges to select,
    Definitions,    \*   lists of columns of a table,
    Transforms,     \*   transforms with the names of input and output columns
    OuterVariables, \* the variables of composite blocks around the pipeline
    MaxObjects      \* bound: sheets and tables that are given in a run

VARIABLES
    memory,         \* the workbooks, sheets and tables
    given,          \* the references blocks have given to those after them
    context,        \* stack and variables, and the value of the keyword
    last            \* history: the last block, its input, output and properties

vars == <<model, memory, given, context, last>>

NoBlock == [block |-> "none", from |-> 0, value |-> 0, tag |-> "ok"]

InitialContext == [stack |-> <<>>, variables |-> OuterVariables, value |-> Undefined]

Init ==
    /\ memory = <<>>
    /\ given = {}
    /\ context = InitialContext
    /\ last = NoBlock

Given(kind) == {i \in given : Is(kind, memory[i])}

WorkbooksMade == Given("sheets")
SheetsMade == Given("data")
TablesMade == Given("columns")

(* A block gives its answer. *)
Finish(block, from, properties, answer) ==
    /\ last.tag = "ok"
    /\ Cardinality(given \ WorkbooksMade) < MaxObjects
    /\ memory' = answer.memory
    /\ context' = answer.context
    /\ LET value == IF answer.result.tag = "ok" THEN answer.result.value ELSE 0
       IN  /\ given' = given \cup ({value} \ {0})
           /\ last' = [block |-> block, from |-> from, value |-> value,
                       properties |-> properties, tag |-> answer.result.tag]
    /\ UNCHANGED model

FinishSheet(block, from, properties, left) ==
    Finish(block, from, properties, AnswerOf(left, context))

InterpretCSV ==
    \E file \in Files :
        /\ Is("csv", file)
        /\ given = {}
        /\ FinishSheet("CSVInterpreter", 0, file, CSVInterpreter(memory, file.csv))

InterpretXLSX ==
    \E file \in Files :
        /\ Is("xlsx", file)
        /\ given = {}
        /\ FinishSheet("XLSXInterpreter", 0, file, XLSXInterpreter(memory, file.xlsx))

PickSheet ==
    \E i \in WorkbooksMade, name \in SheetNames :
        FinishSheet("SheetPicker", i, name, SheetPicker(memory, i, name))

DeleteRows ==
    \E i \in SheetsMade, literals \in RowLists :
        /\ RowDeleterAccepted(literals)
        /\ FinishSheet("RowDeleter", i, [k \in DOMAIN literals |-> Wrap(literals[k])],
                       RowDeleter(memory, i, [k \in DOMAIN literals |-> Wrap(literals[k])]))

DeleteColumns ==
    \E i \in SheetsMade, literals \in ColumnLists :
        /\ ColumnDeleterAccepted(literals)
        /\ FinishSheet("ColumnDeleter", i, [k \in DOMAIN literals |-> Wrap(literals[k])],
                       ColumnDeleter(memory, i, [k \in DOMAIN literals |-> Wrap(literals[k])]))

WriteCells ==
    \E i \in SheetsMade, write \in Writes :
        /\ CellWriterAccepted(write.literal)
        /\ FinishSheet("CellWriter", i, [range |-> Wrap(write.literal), values |-> write.values],
                       CellWriter(memory, i, Wrap(write.literal), write.values))

SelectCells ==
    \E i \in SheetsMade, literal \in Selections :
        /\ RangeLimitsOk(Wrap(literal))
        /\ FinishSheet("CellRangeSelector", i, Wrap(literal),
                       CellRangeSelector(memory, i, Wrap(literal)))

InterpretTable ==
    \E i \in SheetsMade, definitions \in Definitions, header \in BOOLEAN :
        Finish("TableInterpreter", i, [definitions |-> definitions, header |-> header],
               TableInterpreter(memory, i, header, definitions, context))

TransformTable ==
    \E i \in TablesMade, t \in Transforms :
        Finish("TableTransformer", i, t,
               TableTransformer(memory, i, t.inputs, t.output, t.transform, context))

Next ==
    \/ InterpretCSV \/ InterpretXLSX \/ PickSheet
    \/ DeleteRows \/ DeleteColumns \/ WriteCells \/ SelectCells
    \/ InterpretTable \/ TransformTable
=============================================================================
