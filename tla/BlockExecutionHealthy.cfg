CONSTANTS
    p1 = p1  p2 = p2  p3 = p3
    c1 = c1  c2 = c2
    d1 = d1  d2 = d2
    C = C  D = D
    x = x  y = y
    Blocks = {p1, p2, p3, c1, c2, d1, d2}
    CompositeTypes = {C, D}
    Names = {x, y}
    PIPELINE = PIPELINE
    BUILTIN = BUILTIN
    LITERAL = LITERAL
    ABSENT = ABSENT
    NONE = NONE
    NULL = NULL
    Programs <- DistinctNamePrograms
    MayFail = {p1, p2, p3}
    MayEmitNull = {}
    MayLackExecutor = {}
SPECIFICATION Spec
CHECK_DEADLOCK FALSE
INVARIANTS
    RunsUndisturbed
    InputComesFromPredecessor
PROPERTIES
    ImplementsPipelineRun
