SPECIFICATION Spec
CONSTANTS
    NumBlocks = 4
    MaxBlockSize = 22
    Requests <- MCRequests
    UserBytes <- MCUserBytes
INVARIANT OutOfMemoryMeansFull
