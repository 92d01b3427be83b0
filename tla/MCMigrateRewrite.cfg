SPECIFICATION Spec
CONSTANTS
    References <- MCReferences
    Captures <- MCCaptures
    Suffixed <- MCSuffixed
    Directives <- MCDirectives
    Paths <- MCPaths
    MaxTodos = 2
    Walk <- MCWalk
    Charts <- MCCharts
    OwnValues <- MCOwnValues
    Annotating = {}
    MaxEdits = 0
    MaxFaults = 0
INVARIANT RewriteBecomesNative
