\* The binding: two handles, two machines, a screen of one place.
SPECIFICATION Spec
CONSTANTS
    Handle = {h1, h2}
    Machine = {m1, m2}
    Null = Null
    Memory = {v}
    c = Space
    Lines = 1
    LineLen = 2
    TabStop = 1
    Printable = {Space}
    Space = Space
    Texts <- MCText
    Ready <- MCText1
    Budgets = {0, 3}
    Numbers = {0}
    Packers = {h1, h2}
INVARIANTS
    MachinesApart
    CpuIsCallers
PROPERTIES
    OutputIsCallers
    RunReturns
CHECK_DEADLOCK FALSE
