---------------------------- MODULE MCRenameGroup ----------------------------
\* Instances of RenameGroup for TLC.
EXTENDS RenameGroup

\* A branch and a load that write registers, and one that needs nothing.
MCKinds == {{"int", "ckpt"}, {"int", "lq"}, {}}
=============================================================================
