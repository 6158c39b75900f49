CONSTANTS
    Modules <- Chains
    MaxAnalysisDepth = 128
    MaxVerifyDepth = 64
    AllowUnregulated = FALSE
SPECIFICATION Spec
INVARIANTS
    AcceptedIsLowered
