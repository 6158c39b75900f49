CONSTANTS
    Types <- Catalogue
    HeaderBits = 16
    Objects <- MCObjects
    Readers <- MCReaders
    Capacities <- MCCapacities
    Garbage <- MCGarbage

SPECIFICATION Spec

INVARIANTS
    KnowledgeIsSound
    OnlyTheFirstCheckRefuses
    LengthIsAnalysed
    CutReadsAsZeros
    WrittenIffValid
    ReadsAsWritten
    GettersAgree
    ImageIsTheStructure
PROPERTIES
    StaysInside
