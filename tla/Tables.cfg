CONSTANTS
    Undefined = Undefined
    Raised = Raised
    Hole = Hole
    Missing = Missing
    Star = 1000
    LastIndex = 1001
    Numeral <- MCNumeral
    Truth <- NoTexts
    Leading <- NoTexts
    Matching <- NoPairs
    Cased <- NoTexts
    Replacing <- NoTexts
    Files <- MCFiles
    SheetNames <- MCSheetNames
    RowLists <- MCRowLists
    ColumnLists <- MCColumnLists
    Writes <- MCWrites
    Selections <- MCSelections
    Definitions <- MCDefinitions
    Transforms <- MCTransforms
    OuterVariables <- MCOuterVariables
    MaxObjects = 4
SPECIFICATION Spec
CHECK_DEADLOCK FALSE
INVARIANTS
    ObjectsAreWellFormed
    BlocksDoWhatTheySay
    
PROPERTIES
    InputsAreNotChanged
    ContextIsRestored
