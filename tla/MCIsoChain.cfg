\* The process exits after its last step, so a final state has no successor.
CONSTANTS
    Sector <- MCSector
    IsoMinSize <- MCIsoMinSize
    MaxBl <- MCMaxBl
    MaxK <- MCMaxK
    ToolsMayHang = FALSE
    NotRaw = NotRaw
SPECIFICATION FairSpec
INVARIANTS
    SuccessArtifact
    FallbackOrder
    StagingScoped
PROPERTIES
    ImplementsChain
    ImplementsRawWriter
    Termination
CHECK_DEADLOCK FALSE
