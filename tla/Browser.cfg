SPECIFICATION MCSpec
CONSTANTS
    Names = {"devices", "admin"}
    Tabs <- MCTabs
    Rows <- MCRows
    Cols = {"device", "seen"}
    DefaultOff = {"seen"}
    Renders <- MCRenders
    Queries <- MCQueries
    Live = {"devices"}
    Bulk = {"admin"}
    None = None
    t1 = t1
    t2 = t2
    t3 = t3
    Versions <- MCVersions
    Assets <- MCAssets
    Offline = "offline"
    SHELL <- MCShells
    Requests = {r1, r2}
    MaxPuts = 2
    MaxContent = 2
SYMMETRY MCSymmetry
INVARIANTS
    SelectionIsShown
    ViewFollowsChoice
    AnsweredFromOwnShell
    StaleNeedsRace
