CONSTANTS
    yaml = yaml
    bare = bare
    apisix = apisix
    gateway = gateway
    Texts <- MCTexts
    Example = yaml
    Annotated = {yaml}
    Bare = {bare}
    Blank = blank
    Options <- MCOptions
    Default = apisix
    None = none
    MaxCalls = 2
    Docs <- MCDocs
    Missing <- MCMissing
    Illustrated <- MCIllustrated
    Found <- MCFound
    Catalog = catalog
    Away = away
    MaxLoads = 3
    MaxLists = 3
    MaxTimers = 6
    Files <- MCFiles
    Markdown <- MCMarkdown
    Guides <- MCMarkdown
    Matching <- MCMarkdown
    Nothing = nothing
    MaxUploads = 3
    MaxSaves = 2
    MaxDeletes = 1
    NoTheme = notheme
    MaxLogins = 1
    NoHash = nohash
    Urls <- MCUrls
    Sections <- MCSections
    Links <- MCLinks
    MaxGestures = 4
SPECIFICATION Spec
CHECK_DEADLOCK FALSE
INVARIANTS TypeOK SpinnersMeanCalls OneAnswerShown OneCheckAtATime DocsShowRoute DiagramsDrawn SelectionListed ListedReachedServer OneSaveAtATime NavigationLands PageFollowsAddress
PROPERTIES ArrivalListed SpinnersStop
