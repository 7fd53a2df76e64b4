CONSTANTS
    PwCreds = {p1}
    KeyCreds = {k1}
    NoCreds = NoCreds
    NoEntry = NoEntry
    Corrupt = Corrupt
    Prefs = {DefaultPrefs}
    DefaultPrefs = DefaultPrefs
    Reach = {"ready", "starting", "locked"}
    MaxRetries = 2
    GraceRetries = 1
SPECIFICATION Spec
INVARIANT MarkerClearedByFallback
