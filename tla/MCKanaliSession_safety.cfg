SPECIFICATION Spec
CONSTANTS
    TransferOnly = FALSE
    Settings <- MCSettings
    Values <- MCValues
    Compared <- MCCompared
    Changes <- MCChanges
    Unfit <- MCUnfit
    Files = {a, b}
    NoFile = NoFile
    Chunks = 2
    MaxSkipped = 1
    Tracks = {1, 2, 3}
    MaxOut = 1
    MaxIn = 2
INVARIANT TypeOK
INVARIANT AnswersItsRequest
INVARIANT ApplyConfirmed
INVARIANT UploadWhole
PROPERTY OnlyTheChange
SYMMETRY MCSymmetry
