CONSTANTS
    Texts = {blank, x, y}
    Blank = blank
    Matching = {blank, x}
    MaxEdits = 3
    Torrents = {t1, t2, t3}
    NoTorrent = NoTorrent
    ByName = {t1, t2}
    ByLocation = {t2, t3}
    Labels = {l1, l2}
    Delayed = {l1}
    NoLabel = NoLabel
    MaxLate = 2
    Paths <- MCPaths
    Size <- MCSize
    Whole = 2
    Filters = {"", "e"}
SPECIFICATION Spec
INVARIANTS
    InterfaceTypeOK
    StaleFetchIsCancelled
    SelectionIsVisible
    TooltipFollowsPointer
    FolderAgreesWithFiles
PROPERTIES
    LastTextIsAnswered
    FilterSettles
    HoverEnds
    FilterFindsFiles
