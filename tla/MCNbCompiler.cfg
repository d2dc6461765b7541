SPECIFICATION Spec
CONSTANTS
    Names = {"i", "j"}
    NoName = "-"
    Lines <- BlockLines
    MaxLines = 5
    MaxErrors = 2
    MaxCode = 60
    MaxPerLine = 10
    MaxFwDecl = 8
INVARIANTS
    TypeOK
    JumpsSpanParts
PROPERTY CompileEnds
CHECK_DEADLOCK FALSE
