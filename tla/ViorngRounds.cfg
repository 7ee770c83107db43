CONSTANTS
    h1 = h1
    h2 = h2
    h3 = h3
    Heads <- MCHeads
    Lens = {0, 1, 2}
SPECIFICATION FairSpec
INVARIANTS
    AbsorbsTheAnswer
    NoStaleLength
PROPERTY RoundsEnd
