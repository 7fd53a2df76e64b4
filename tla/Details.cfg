CONSTANTS
    Torrents = {h1, h2}
    NoTorrent = NoTorrent
    Tabs = {general, peers}
    General = general
    Generations = 2
    Modes = {"bottom", "overlay"}
SPECIFICATION Spec
SYMMETRY TorrentSymmetry
INVARIANTS TypeOK LoadingMeansInFlight DataIsOfFocusedTorrent
