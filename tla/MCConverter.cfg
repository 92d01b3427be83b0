SPECIFICATION Spec
CONSTANTS
    Number <- MCNumber
    Seconds <- MCSeconds
    HeaderVar <- MCHeaderVar
    HashKey <- MCHashKey
    BodySize <- MCBodySize
    Snippet <- MCSnippet
    RegexPaths <- MCRegexPaths
    Cut <- MCCut
    DefaultNamespace = "default"
    Lists <- MCLists
INVARIANTS
    TypeOK
    NothingSilentlyLost
    NoFalseAlarm
    AffinityWorks
    LinksResolve
    ConvertsOnce
CHECK_DEADLOCK FALSE
