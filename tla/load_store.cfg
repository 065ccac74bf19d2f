CONSTANTS
    Bytes <- MCBytes
    Layouts <- MCLayouts
    Footprints <- MCFootprints
    Vals = {v1, v2}
    RobDepth = 3
    SqDepth = 2
    CsbDepth = 1
    PartialFlush = TRUE
    Overtaken = FALSE
SPECIFICATION Spec
INVARIANTS TypeOK ForwardsYoungest
PROPERTY IsMemory
SYMMETRY MCSymmetry
VIEW MCView
