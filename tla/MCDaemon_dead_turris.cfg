SPECIFICATION Spec
CONSTANTS
    Calls = {c1}
    NoCall = nocall
    Screens = {both}
    NoScreen = noscreen
    MediaScreens = {both}
    OverlayScreens = {both}
    Products = {"turris"}
    Moods = {"well"}
    Kinds = {"status"}
    SilentLimit = 2
PROPERTIES
    DeadLinkDropped
