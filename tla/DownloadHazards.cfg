SPECIFICATION Spec
CONSTANTS
    g1 = g1
    g2 = g2
    v1 = v1
    v2 = v2
    Games <- MCGames
    Versions <- MCOneVersion
    Size <- MCOneChunk
    Hashed <- MCNone
    Env <- MCHazards
    MaxPart = 1
    MaxPosted = 2
    MaxBoxes = 2
    Junk = Junk
    None = None
INVARIANTS
    TypeOK
    NoLostWakeup
    CurrentHasDriver
    OutputFollowsReply
    NoDuplicateTask
SYMMETRY MCSymmetry
