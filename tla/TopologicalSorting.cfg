CONSTANTS
    b1 = b1
    b2 = b2
    b3 = b3
    b4 = b4
    Blocks = {b1, b2, b3, b4}
    MaxPipes = 4
    Pipelines <- MCPipelines
SPECIFICATION Spec
CHECK_DEADLOCK FALSE
INVARIANTS
    ParentsFirst
    NoBlockTwice
    FailsExactlyOnCycles
PROPERTIES
    Termination
