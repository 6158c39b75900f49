\* Two files, three analyses.
CONSTANTS
    a = a
    b = b
    leaf = leaf
    usesA = usesA
    broken = broken
    Paths <- MCPaths
    TextsOf <- MCTextsOf
    Parses <- MCParses
    Refs <- MCRefs
    Uris <- MCPaths
    UriPath <- MCUriPath
    CanonicalUri <- MCUriPath
    RootSets <- MCRootSets
    IndexDirOf <- MCIndexDir
    NoText = NoText
    MaxSnapshots = 3
    MaxToolRuns = 1
SPECIFICATION Spec
INVARIANTS
    ShownIsLatest
    OpenShowsItsText
    JobMatchesSnapshot
    WaitsInVainOnce
PROPERTIES
    CacheIsCurrent
CHECK_DEADLOCK FALSE
