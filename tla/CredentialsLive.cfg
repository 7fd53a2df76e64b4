CONSTANTS
    PwCreds = {p1}
    KeyCreds = {}
    NoCreds = NoCreds
    NoEntry = NoEntry
    Corrupt = Corrupt
    Prefs = {DefaultPrefs}
    DefaultPrefs = DefaultPrefs
    Reach = {"ready", "wedged"}
    MaxRetries = 3
    GraceRetries = 2
SPECIFICATION Spec
PROPERTIES RetryEnds ReadyKeychainIsLoaded
