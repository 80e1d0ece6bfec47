SPECIFICATION Spec
CONSTANTS
    w1 = w1
    w2 = w2
    v1 = v1
    v2 = v2
    Workers <- MCTwoWorkers
    Versions <- MCVersions
    Faults <- MCAllButRestore
    None = None
INVARIANTS
    TypeOK
    TargetWhole
PROPERTIES
    NeverLost
SYMMETRY MCSymmetry
