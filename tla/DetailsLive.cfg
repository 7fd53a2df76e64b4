CONSTANTS
    Torrents = {h1}
    NoTorrent = NoTorrent
    Tabs = {general, peers}
    General = general
    Generations = 2
    Modes = {"bottom", "off"}
SPECIFICATION Spec
PROPERTIES FailureWaitsForUser PaneFollowsSelection LoadingEnds
