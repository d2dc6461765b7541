\* Sums of texts that are made, seven lexemes long.
SPECIFICATION Spec
CONSTANTS
    Letters <- MCLetters
    Digits <- MCDigits
    Number <- MCNumber
    Symbols <- MCSymbols
    Alphabets <- MCTexts
    MaxLexemes = 7
    Functions <- MCFunctions
    XFuncs <- MCXFuncs
    Value <- MCValue
    Apply <- MCApply
INVARIANTS
    TemporariesLast
CHECK_DEADLOCK FALSE
