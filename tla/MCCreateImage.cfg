\* The process exits after its last step, so a final state has no successor.
CONSTANTS
    Align <- MCAlign
    MinSize <- MCMinSize
    MaxBl <- MCMaxBl
    MaxK <- MCMaxK
    NoFile = NoFile
    StaleFile = StaleFile
SPECIFICATION Spec
INVARIANTS
    ImageCorrect
    WriteProgress
PROPERTY
    ImplementsWriter
CHECK_DEADLOCK FALSE
