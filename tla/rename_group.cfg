\* Cuts, holds and stalls, with an early redirect and its quarantine.
CONSTANTS
    PipeWidth = 3
    ThrottleWidth = 2
    Kinds <- MCKinds
    EarlyRedirect = TRUE
    MaxFetched = 6
SPECIFICATION FairSpec
INVARIANTS TypeOK InOrderOnce
PROPERTY PendingLeaves
