\* The brightness of a KANALI display that shows labels is changed.
SPECIFICATION Spec
CONSTANTS
    Places = {p, q}
    p = p
    q = q
    None = none
    NoFile = nofile
    Torn = torn
    Actors = {one}
    Kinds = {"show", "look", "brightness"}
    Media = {"a"}
    Looks = {"plain", "other"}
    Labelled = {"other"}
    Levels = {"75", "40"}
    Degrees = {"90"}
    Speeds = {"50"}
    DefaultBrightness = "75"
    Buses <- KanaliBus
    Aims <- NoAims
    MaxJobs = 3
PROPERTIES
    LookKept
CHECK_DEADLOCK FALSE
