\* Software changes its tables while the hardware writes accessed and dirty bits.
CONSTANTS
    Pages = {p1}
    Canonical = {p1}
    Contents <- MCFresh
    Ways = 1
    TopLevel = 0
    Window = 1
    PartialFlush = FALSE
    MaxWrites = 1
SPECIFICATION Spec
INVARIANT TranslationsFollowFences
