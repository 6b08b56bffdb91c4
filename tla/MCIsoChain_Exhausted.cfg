\* The process exits after its last step, so a final state has no successor.
CONSTANTS
    Sector <- MCSector
    IsoMinSize <- MCIsoMinSize
    MaxBl <- MCMaxBl
    MaxK <- MCMaxK
    ToolsMayHang = FALSE
    NotRaw = NotRaw
SPECIFICATION FairSpec
INVARIANT ExhaustedLeavesNoFile
CHECK_DEADLOCK FALSE
