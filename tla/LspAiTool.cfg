\* Two analyses, one of them made for an AI tool.
CONSTANTS
    a = a
    b = b
    leaf = leaf
    usesA = usesA
    broken = broken
    Paths <- MCPaths
    TextsOf <- MCTextsOf
    Parses <- MCParses
    Refs <- MCRefs
    Uris <- MCPaths
    UriPath <- MCUriPath
    CanonicalUri <- MCUriPath
    RootSets <- MCRootSets
    IndexDirOf <- MCIndexDir
    NoText = NoText
    MaxSnapshots = 2
    MaxToolRuns = 1
SPECIFICATION Spec
INVARIANTS
    ToolsLeaveShownText
CHECK_DEADLOCK FALSE
