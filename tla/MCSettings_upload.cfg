\* A file is uploaded with --show while a preset is on.
SPECIFICATION Spec
CONSTANTS
    Places = {p, q}
    p = p
    q = q
    None = none
    NoFile = nofile
    Torn = torn
    Actors = {one}
    Kinds = {"preset", "upload"}
    Media = {"a", "b"}
    Looks = {"plain", "other"}
    Labelled = {"other"}
    Levels = {"75", "40"}
    Degrees = {"90"}
    Speeds = {"50"}
    DefaultBrightness = "75"
    Buses <- OneBus
    Aims <- NoAims
    MaxJobs = 2
PROPERTIES
    ShowsWhatItSays
CHECK_DEADLOCK FALSE
