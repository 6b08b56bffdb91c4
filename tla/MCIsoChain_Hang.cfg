\* The process exits after its last step, so a final state has no successor.
CONSTANTS
    Sector <- MCSector
    IsoMinSize <- MCIsoMinSize
    MaxBl <- MCMaxBl
    MaxK <- MCMaxK
    ToolsMayHang = TRUE
    NotRaw = NotRaw
SPECIFICATION FairSpec
PROPERTY Termination
CHECK_DEADLOCK FALSE
