CONSTANTS
    Servers = {s1, s2}
    NoServer = NoServer
    MaxQueue = 1
    LogsMayFail = TRUE
SPECIFICATION Spec
INVARIANTS TypeOK HintOrError DisconnectedForgetsVersion
PROPERTIES HintEnds CurrentListShown VersionKnownAgain
