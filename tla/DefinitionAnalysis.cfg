CONSTANTS
    Modules <- AllModules
    MaxAnalysisDepth = 2
    MaxVerifyDepth = 3
    AllowUnregulated = FALSE
SPECIFICATION Spec
INVARIANTS
    VerdictIsJust
    ReferencesFinishFirst
    BlameIsDeserved
