\* Two clients whose requests interleave and are given up.
SPECIFICATION Safety
CONSTANTS
    Calls = {c1, c2}
    NoCall = nocall
    Screens = {both}
    NoScreen = noscreen
    MediaScreens = {both}
    OverlayScreens = {both}
    Products = {"legacy", "panorama"}
    Moods = {"well", "mute"}
    Kinds = {"status", "apply"}
    SilentLimit = 2
INVARIANTS
    RequestsAccounted
PROPERTIES
    ServesClients
