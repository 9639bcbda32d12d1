SPECIFICATION FairSpec
CONSTANTS
    R = R
    A = A
    B = B
    C = C
    NotJayvee = NotJayvee
    Missing = Missing
    None = None
    Files <- MCFiles
    Readable <- MCReadable
    JayveeFiles <- MCJayveeFiles
    Workspaces <- MCWorkspaces
    MaxNesting = 6
    MaxEdits = 1
CHECK_DEADLOCK FALSE
INVARIANTS
    LoadingIsComplete
    CycleReportsAreKnown
    ElementsAgree
    StaleOnlyByReexport
PROPERTIES
    LoadingEnds
