\* Partial recovery, with as many checkpoint slots as the branches it takes.
CONSTANTS
    NumPregs = 5
    NumArch = 2
    NumCheckpoints = 4
    PipeWidth = 2
    RobDepth = 3
    ProtectZero = TRUE
    MaxRecoveries = 2
    Insns <- MCBranchInsns
SPECIFICATION Spec
VIEW MCView
INVARIANTS MapIsProgramOrder NoDoubleAllocation CheckpointsOwned CheckpointImages
