SPECIFICATION Spec
CONSTANTS
    a = a
    b = b
    p = p
    None = None
    Names = {a, b}
    Sizes = {1, 2}
    Paths = {p}
    RemoteName <- MCRemoteName
    Transforms = {"fit", "fill"}
    Default = "fit"
    Invalid = {}
    Fits <- MCFits
    Stored <- MCStored
    Presets = 1
    PreviewCache = 1
    MaxRequests = 2
    MaxEvents = 3
    MaxTransfers = 1
    Users <- MCReplacer
CHECK_DEADLOCK FALSE
INVARIANT PictureIsOfTheFile
