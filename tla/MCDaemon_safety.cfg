\* One client, every product, every request.
SPECIFICATION Safety
CONSTANTS
    Calls = {c1}
    NoCall = nocall
    Screens = {both, overlay}
    NoScreen = noscreen
    MediaScreens = {both}
    OverlayScreens = {both, overlay}
    Products = {"legacy", "panorama", "turris"}
    Moods = {"well", "flaky", "mute"}
    Kinds = {"status", "command", "set", "reboot", "apply"}
    SilentLimit = 3
INVARIANTS
    TypeOK
    StatusTellsTheLink
    SavedIsReported
PROPERTIES
    LinkLostForCause
