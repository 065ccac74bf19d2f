\* Stores, loads, branches, returns and instructions that enter with an
\* exception.  Selective allows the partial flushes of
\* SELECTIVE_BRANCH_RECOVERY beside the full ones.
CONSTANTS
    RobDepth = 3
    PipeWidth = 2
    Ports = 2
    Kinds = {"store", "load", "branch", "ret", "bad"}
    Selective = TRUE
SPECIFICATION Spec
INVARIANTS TypeOK RingConsistent
PROPERTIES IsQueue StaleLoadsNeverRetire SurvivorsPreserved
