CONSTANTS
    MaxRetries = 2
    Backoffs = {2}
    MaxTimeout = 2147483
    Codes = {200, 300, 301, 404}
    UNDEFINED = UNDEFINED
    MaxChunks = 2
SPECIFICATION Spec
CHECK_DEADLOCK FALSE
INVARIANTS
    ResultIsRight
PROPERTIES
    ResultIsFinal
    Termination
