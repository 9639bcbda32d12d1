CONSTANTS
    p1 = p1  p2 = p2  p3 = p3
    c1 = c1  c2 = c2
    d1 = d1  d2 = d2
    C = C  D = D
    x = x  y = y
    Blocks = {p1, p2, p3, c1, c2, d1, d2}
    CompositeTypes = {C, D}
    Names = {x, y}
    PIPELINE = PIPELINE
    BUILTIN = BUILTIN
    LITERAL = LITERAL
    ABSENT = ABSENT
    NONE = NONE
    NULL = NULL
    Programs <- AllPrograms
    MayFail = {p1, p2, p3, c1, c2, d1, d2}
    MayEmitNull = {p1, c1, d2}
    MayLackExecutor = {p2, c1, d2}
SPECIFICATION Spec
CHECK_DEADLOCK FALSE
INVARIANTS
    NoErrorIsLost
    ContextIsKept
PROPERTIES
    Termination
