\* What must eventually happen, with one client.
SPECIFICATION Spec
CONSTANTS
    Calls = {c1}
    NoCall = nocall
    Screens = {both}
    NoScreen = noscreen
    MediaScreens = {both}
    OverlayScreens = {both}
    Products = {"legacy", "panorama"}
    Moods = {"well", "mute"}
    Kinds = {"command", "reboot"}
    SilentLimit = 2
PROPERTIES
    EveryRequestServed
    DeadLinkDropped
    Reconnects
    WakeRestores
