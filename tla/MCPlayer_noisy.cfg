SPECIFICATION Spec
CONSTANTS
    Transfers = {"cells", "direct", "shm"}
    Noisy = TRUE
    Pieces = 2
    Pipe = 1
    NameCount = 4
    Kept = 2
    MaxFrames = 1
    MaxUnread = 2
PROPERTY DropReturns
