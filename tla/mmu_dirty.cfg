\* First uses and first stores, a data TLB that holds every page.
CONSTANTS
    Pages = {p1, p2}
    Canonical = {p1, p2}
    Contents <- MCFresh
    Ways = 2
    TopLevel = 0
    Window = 2
    PartialFlush = FALSE
    MaxWrites = 0
SPECIFICATION FairSpec
INVARIANT DirtyIsRecorded
PROPERTY RequestsAnswered
