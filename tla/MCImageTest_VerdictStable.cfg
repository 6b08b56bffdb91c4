\* The test and the build both end, so a final state has no successor.
CONSTANTS
    Align <- MCAlign
    MinSize <- MCMinSize
    MaxBl <- MCMaxBl
    MaxK <- MCMaxK
    NoFile = NoFile
    StaleFile = StaleFile
SPECIFICATION TestSpec
PROPERTY VerdictStable
CHECK_DEADLOCK FALSE
