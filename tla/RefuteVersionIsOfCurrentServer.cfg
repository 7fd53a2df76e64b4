CONSTANTS
    Servers = {s1, s2}
    NoServer = NoServer
    MaxQueue = 1
    LogsMayFail = FALSE
SPECIFICATION Spec
INVARIANT VersionIsOfCurrentServer
