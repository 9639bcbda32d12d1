CONSTANTS
    Null = Null
    Directory = Directory
    EndOfText = 1000
    MaxBlocks = 2
    Archives <- MCArchives
    Picks <- MCPicks
    GivenPaths <- MCGivenPaths
    StoredFiles <- MCStoredFiles
    LocalPaths <- MCLocalPaths
    Disk <- MCDisk
    LineLists <- MCLineLists
    LineRanges <- MCLineRanges
SPECIFICATION BlocksSpec
CHECK_DEADLOCK FALSE
INVARIANTS
    ArchivesAreReadWhole
    FileBlocksDoWhatTheySay
PROPERTIES
    ImplementsStore
