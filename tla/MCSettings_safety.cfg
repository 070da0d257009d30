\* One job at a time, of every kind, that may fail or die anywhere.
SPECIFICATION Spec
CONSTANTS
    Places = {p, q}
    p = p
    q = q
    None = none
    NoFile = nofile
    Torn = torn
    Actors = {one}
    Kinds = {"show", "preset", "look", "metrics", "upload", "replace", "brightness",
        "rotate", "several", "fan", "push", "restore", "ui show", "ui brightness",
        "ui overlay", "ui layout"}
    Media = {"a"}
    Looks = {"plain", "other"}
    Labelled = {"other"}
    Levels = {"75", "40"}
    Degrees = {"90"}
    Speeds = {"50"}
    DefaultBrightness = "75"
    Buses <- MCBuses
    Aims <- MCAims
    MaxJobs = 3
INVARIANTS
    FileReadable
    FileTells
PROPERTIES
    OthersKept
    ActsOnNamed
CHECK_DEADLOCK FALSE
