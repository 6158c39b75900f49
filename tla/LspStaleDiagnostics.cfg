\* Two analyses: diagnostics of a file that is gone.
CONSTANTS
    a = a
    b = b
    leaf = leaf
    usesA = usesA
    broken = broken
    Paths <- MCPaths
    TextsOf <- MCTextsOf
    Parses <- MCParses
    Refs <- MCRefs
    Uris <- MCPaths
    UriPath <- MCUriPath
    CanonicalUri <- MCUriPath
    RootSets <- MCRootSets
    IndexDirOf <- MCIndexDir
    NoText = NoText
    MaxSnapshots = 2
    MaxToolRuns = 1
SPECIFICATION Spec
PROPERTIES
    OnlyPresentFilesReported
CHECK_DEADLOCK FALSE
