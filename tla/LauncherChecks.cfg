SPECIFICATION FairSpec
CONSTANTS
    g1 = g1
    g2 = g2
    v1 = v1
    v2 = v2
    Games <- MCOneGame
    Versions <- MCVersions
    Env <- MCHostile
    MaxPlay = 1
    MaxClicks = 2
    None = None
INVARIANTS
    TypeOK
    EachClickOnce
PROPERTIES
    CheckEnds
    PlayerDataKept
    OnlyDownloadsAdd
    FoldersStayListed
