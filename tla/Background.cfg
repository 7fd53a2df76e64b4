CONSTANTS
    Callers = {c1, c2}
    Sessions = {s1, s2, s3, s4}
    NoSession = NoSession
    NoCaller = NoCaller
    Watchers = {g1, g2}
    NoWatcher = NoWatcher
    MaxVersion = 2
    MaxDialogs = 2
    Procs = {p1, p2}
    NoProc = NoProc
    Ports = {a1, a2}
    Tokens = {t1, t2, t3}
    NoFile = NoFile
    Partial = Partial
    Capacity = 1
SPECIFICATION Spec
INVARIANTS
    BackgroundTypeOK
    LoginIsSingleFlight
    OneGeneration
    AnnouncedOnce
    RunningIsReachable
PROPERTIES
    SelfHeals
    ChecksComeBack
    DeliveredIsShown
