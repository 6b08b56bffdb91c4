\* The test and the build both end, so a final state has no successor.
CONSTANTS
    Align <- MCAlign
    MinSize <- MCMinSize
    MaxBl <- MCMaxBl
    MaxK <- MCMaxK
    NoFile = NoFile
    StaleFile = StaleFile
SPECIFICATION TestSpec
INVARIANT ImageCheckTrustsSuccess
CHECK_DEADLOCK FALSE
