SPECIFICATION Spec
CONSTANTS
    StackSize = 16
    ParamSize = 4
    MaxForLoops = 4
    Half = 64
    Places <- MCPlaces
    Pars <- MCPars
    Room <- MCRoom
    Var <- MCVar
    Opaque <- MCOpaque
    Programs <- MCPrograms
    Budgets <- MCBudgets
    MaxInterrupts = 1
    ResetAfter <- MCResetAfter
INVARIANTS
    TypeOK
    LoopsCounted
    BalancedAtEnd
    Framed
    RoomLeft
PROPERTIES
    ImplementsTypedStack
    ProgramEnds
