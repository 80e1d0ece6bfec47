SPECIFICATION Spec
CONSTANTS
    Frames <- MCFrames
    Greetings = {}
    MaxPending = 2
    Games = {g1, g2}
    None = None
    Lists <- MCLists
    MaxOpened = 2
    MaxReviews = 1
INVARIANTS
    MismatchIsAwaited
    SettlesOnOpened
    SeesOwnReview
SYMMETRY MCSymmetry
