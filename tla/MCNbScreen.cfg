\* The screen of one handle: two lines of two places.
SPECIFICATION Spec
CONSTANTS
    Handle = {h1}
    Machine = {m1}
    Null = Null
    Memory = {v}
    c = c
    Lines = 2
    LineLen = 3
    TabStop = 2
    Printable = {c, Space}
    Space = Space
    Texts <- MCTexts
    Ready <- MCReady
    Budgets = {3}
    Numbers = {0, 1, 3}
    Packers = {}
INVARIANTS
    TypeOK
PROPERTIES
    ImplementsTerminal
CHECK_DEADLOCK FALSE
