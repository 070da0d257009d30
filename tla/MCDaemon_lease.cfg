SPECIFICATION Safety
CONSTANTS
    Calls = {c1}
    NoCall = nocall
    Screens = {both}
    NoScreen = noscreen
    MediaScreens = {both}
    OverlayScreens = {both}
    Products = {"panorama"}
    Moods = {"well", "flaky"}
    Kinds = {"status"}
    SilentLimit = 3
INVARIANTS
    LeaseIsReported
