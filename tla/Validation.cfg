CONSTANTS
    Undefined = Undefined
    Raised = Raised
    Hole = Hole
    Missing = Missing
    Star = 1000
    LastIndex = 1001
    Numeral <- MCNumeral
    Truth <- NoTexts
    Leading <- NoTexts
    Matching <- NoPairs
    Cased <- NoTexts
    Replacing <- NoTexts
    ObjectTypes <- MCObjectTypes
    CompositeTypes <- MCCompositeTypes
    InputPorts <- MCInputPorts
SPECIFICATION Spec
CHECK_DEADLOCK FALSE
INVARIANTS
    ErrorsAreNotHidden
    ValuesAreChecked
    ConstraintsApply
    TransformsAreSound
