SPECIFICATION Spec
CONSTANTS
    Frames <- MCFrames
    Greetings = {}
    MaxPending = 2
    Games = {g1, g2}
    Contents = {c1, c2}
    Icons = {i1}
    None = None
    MaxIssued = 3
INVARIANTS
    ListCatchesUp
    StoreCatchesUp
    DeletesWhatWasAsked
SYMMETRY MCSymmetry
