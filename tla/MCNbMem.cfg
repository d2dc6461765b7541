SPECIFICATION Spec
CONSTANTS
    NumBlocks = 4
    MaxBlockSize = 22
    Requests <- MCRequests
    UserBytes <- MCUserBytes
INVARIANTS
    TypeOK
    RunsMatchTags
    UnownedIsFree
    HintAtBoundary
    SizeCoversRequest
    ScanInStep
    NoRunPassedOver
    FreeCountExact
PROPERTIES
    AllocReturns
    ImplementsHeap
