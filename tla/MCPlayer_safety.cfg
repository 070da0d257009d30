SPECIFICATION Spec
CONSTANTS
    Transfers = {"cells", "direct", "shm"}
    Noisy = FALSE
    Pieces = 2
    Pipe = 1
    NameCount = 4
    Kept = 2
    MaxFrames = 4
    MaxUnread = 2
INVARIANT NoObjectLeft
PROPERTY OncePerFrame
PROPERTY FailureReported
PROPERTY DropReturns
