CONSTANTS
    Bytes <- MCBytes
    Layouts <- MCLayouts
    Footprints <- MCFootprints
    Vals = {v1, v2}
    RobDepth = 3
    SqDepth = 2
    CsbDepth = 1
    PartialFlush = FALSE
    Overtaken = TRUE
SPECIFICATION Spec
INVARIANT ForwardsYoungest
