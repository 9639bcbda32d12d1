CONSTANTS
    Undefined = Undefined
    Raised = Raised
    Numeral <- MCNumeral
    Truth <- MCTruth
    Leading <- MCLeading
    Matching <- MCMatching
    Cased <- MCCased
    Replacing <- MCReplacing
SPECIFICATION Spec
CHECK_DEADLOCK FALSE
INVARIANTS
    AcceptedExpressionsAreSound
    StrategiesAgree
    ConversionsAreSafe
    OnlyCollectionsCannotBeSimplified
