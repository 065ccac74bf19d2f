\* Serializing instructions, the store drain, interrupts, the two-slot
\* writeback bypass, what enters finished and what traps at its execution;
\* nothing blocks the head for ever.
CONSTANTS
    RobDepth = 3
    PipeWidth = 2
    Ports = 2
    Kinds = {"alu", "store", "csr", "fence", "zero", "bad"}
    Selective = FALSE
SPECIFICATION FairSpec
PROPERTIES IsQueue HeadLeaves
