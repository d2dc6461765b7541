SPECIFICATION Spec
CONSTANTS
    Names = {"i", "j", "a", "l", "m"}
    NoName = "-"
    Lines <- LabelLines
    MaxLines = 4
    MaxErrors = 1
    MaxCode = 12
    MaxPerLine = 4
    MaxFwDecl = 4
INVARIANTS
    JumpsReachLabels
    VariablesApart
CHECK_DEADLOCK FALSE
