\* Two commands at once.
SPECIFICATION Spec
CONSTANTS
    Places = {p, q}
    p = p
    q = q
    None = none
    NoFile = nofile
    Torn = torn
    Actors = {one, two}
    Kinds = {"brightness", "rotate", "fan"}
    Media = {"a", "b"}
    Looks = {"plain", "other"}
    Labelled = {"other"}
    Levels = {"75", "40"}
    Degrees = {"90"}
    Speeds = {"50"}
    DefaultBrightness = "75"
    Buses <- OneBus
    Aims <- NoAims
    MaxJobs = 3
PROPERTIES
    OthersKept
CHECK_DEADLOCK FALSE
