SPECIFICATION Spec
CONSTANTS
    TransferOnly = TRUE
    Settings <- MCSettings
    Values <- MCValues
    Compared <- MCCompared
    Changes <- MCChanges
    Unfit <- MCUnfit
    Files = {a, b}
    NoFile = NoFile
    Chunks = 1
    MaxSkipped = 1
    Tracks = {1, 2, 3}
    MaxOut = 1
    MaxIn = 2
INVARIANT UploadWhole
