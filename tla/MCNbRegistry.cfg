\* Two machines, programs of three lines.
SPECIFICATION Spec
CONSTANTS
    m1 = m1
    m2 = m2
    Machines = {m1, m2}
    Keywords <- MCKeywords
    XNames = {"F", "g"}
    Programs <- MCPrograms
    Words <- MCWords
    Key <- MCKey
    TextNames = {"b$"}
    MaxSym = 6
    MaxXFuncs = 2
    RegisterLate = FALSE
INVARIANTS
    TypeOK
    LanguageStays
    NumbersIndependent
    CallsReachFunctions
    HostFindsNames
SYMMETRY Interchangeable
