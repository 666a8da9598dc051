CONSTANTS
    CacheSize = 3
    Pages = {p, q}
    MaxPages = 4
    MaxHeld = 2
SYMMETRY Alike
VIEW AllButCall
SPECIFICATION Spec
INVARIANTS
    FramesAreFound
    PointersStayGood
    NoPageIsLost
PROPERTIES
    RefinesPageArray
