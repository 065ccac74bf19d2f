\* Software changes its tables and keeps the accessed and dirty bits set.
CONSTANTS
    Pages = {p1, p2}
    Canonical = {p1}
    Contents <- MCManaged
    Ways = 1
    TopLevel = 1
    Window = 2
    PartialFlush = TRUE
    MaxWrites = 1
SPECIFICATION Spec
INVARIANTS TypeOK TranslationsFollowFences
PROPERTY FaultsReachTheirOwner
