CONSTANTS
    a = a  b = b
    f = f  g = g
    p = p  q = q
    Calls = {a, b}
    Folders = {f, g}
    Pipelines = {p, q}
SPECIFICATION Spec
CHECK_DEADLOCK FALSE
INVARIANTS
    FoldersAddedInTimeAreLoaded
    ExitCodeIsOfAllPipelines
PROPERTY CallsAreAnswered
