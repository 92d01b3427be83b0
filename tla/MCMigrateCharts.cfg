SPECIFICATION FairSpec
CONSTANTS
    References <- MCReferences
    Captures <- MCCaptures
    Suffixed <- MCSuffixed
    Directives <- MCDirectives
    Paths <- MCPaths
    MaxTodos = 2
    Walk <- MCWalk
    Charts <- MCCharts
    OwnValues <- MCOwnValues
    Annotating <- MCAnnotating
    MaxEdits = 1
    MaxFaults = 1
INVARIANTS
    TypeOK
    LostOnlyWithItsConfig
    ValuesMatch
    CleanReport
PROPERTIES
    BackupPrecedes
    Converges
