SPECIFICATION Spec
CONSTANTS
    g1 = g1
    g2 = g2
    v1 = v1
    v2 = v2
    Games <- MCTwoGames
    Versions <- MCVersions
    Env <- MCQuiet
    MaxPlay = 1
    MaxClicks = 1
    None = None
INVARIANTS
    UpdatesOwnGame
