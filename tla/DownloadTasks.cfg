SPECIFICATION Spec
CONSTANTS
    g1 = g1
    g2 = g2
    v1 = v1
    v2 = v2
    Games <- MCGames
    Versions <- MCVersions
    Size <- MCUneven
    Hashed <- MCVersions
    Env <- MCCalm
    MaxPart = 2
    MaxPosted = 2
    MaxBoxes = 2
    Junk = Junk
    None = None
INVARIANTS
    ActiveRowsAreOwned
    RecordedIsInstalled
    OnlyWholePackagesInstalled
PROPERTIES
    ImplementsQueue
    DownloadedBytesAreKept
SYMMETRY MCSymmetry
