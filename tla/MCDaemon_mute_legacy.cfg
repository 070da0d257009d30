SPECIFICATION Spec
CONSTANTS
    Calls = {c1}
    NoCall = nocall
    Screens = {both}
    NoScreen = noscreen
    MediaScreens = {both}
    OverlayScreens = {both}
    Products = {"legacy"}
    Moods = {"well", "mute"}
    Kinds = {"status"}
    SilentLimit = 2
PROPERTIES
    MuteLegacyDropped
