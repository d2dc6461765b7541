\* Texts of up to seven lexemes out of one of four alphabets.
SPECIFICATION Spec
CONSTANTS
    Letters <- MCLetters
    Digits <- MCDigits
    Number <- MCNumber
    Symbols <- MCSymbols
    Alphabets <- MCAlphabets
    MaxLexemes = 7
    Functions <- MCFunctions
    XFuncs <- MCXFuncs
    Value <- MCValue
    Apply <- MCApply
INVARIANTS
    MeaningKept
    MeaningfulAccepted
CHECK_DEADLOCK FALSE
