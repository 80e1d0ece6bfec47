SPECIFICATION FairSpec
CONSTANTS
    g1 = g1
    g2 = g2
    v1 = v1
    v2 = v2
    Games <- MCGames
    Versions <- MCOneVersion
    Size <- MCTwoChunks
    Hashed <- MCOneVersion
    Env <- MCRestarts
    MaxPart = 2
    MaxPosted = 2
    MaxBoxes = 2
    Junk = Junk
    None = None
INVARIANTS
    PartIsPrefix
PROPERTIES
    QueueAdvances
