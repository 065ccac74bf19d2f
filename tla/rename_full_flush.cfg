\* The default parameters of the core: no partial recovery, every redirect is
\* a full flush from commit.
CONSTANTS
    NumPregs = 6
    NumArch = 3
    NumCheckpoints = 2
    PipeWidth = 2
    RobDepth = 3
    ProtectZero = TRUE
    MaxRecoveries = 0
    Insns <- MCIntInsns
SPECIFICATION Spec
VIEW MCView
INVARIANTS TypeOK SourcesNameProducers NoLostRegister
           CheckpointsOwned NoLostCheckpoint
