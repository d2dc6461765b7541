SPECIFICATION Spec
CONSTANTS
    StackSize = 8
    ParamSize = 2
    MaxForLoops = 2
    Half = 64
    Places <- MCPlaces
    Pars <- MCPars
    Room <- MCRoom
    Var <- MCVar
    Opaque <- MCOpaque
    Programs <- Limits
    Budgets <- MCBudgets
    MaxInterrupts = 0
    ResetAfter <- OnlyEnd
INVARIANT NestingBounded
CHECK_DEADLOCK FALSE
