CONSTANTS
    Values = {v1, v2, v3}
    UseLargeBlocks = FALSE
    ElementsPerBlock = 2
    ElementSize = 2
SPECIFICATION VectorSpec
PROPERTIES
    PushAppends
