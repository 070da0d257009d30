SPECIFICATION Safety
CONSTANTS
    Calls = {c1, c2}
    NoCall = nocall
    Screens = {both, overlay}
    NoScreen = noscreen
    MediaScreens = {both}
    OverlayScreens = {both, overlay}
    Products = {"legacy"}
    Moods = {"well"}
    Kinds = {"apply", "set"}
    SilentLimit = 2
INVARIANTS
    SavedIsReported
