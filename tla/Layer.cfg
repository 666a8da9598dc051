CONSTANTS
    CachedBlocks = 2
    ValsPerBlock = 2
    MaxPushes = 22
SPECIFICATION Spec
INVARIANTS
    BackIsNewestOrFull
PROPERTIES
    RefinesFifo
