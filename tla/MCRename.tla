------------------------------ MODULE MCRename ------------------------------
\* Instances of Rename for TLC.
EXTENDS Rename

I(rd, rs, zero, br) == [rd |-> rd, rs |-> rs, zero |-> zero, br |-> br]

\* Integer class: writers of x1 and x2, a zero idiom, a store, a branch.
MCIntInsns ==
    {I(1, 2, FALSE, FALSE), I(2, 1, FALSE, FALSE), I(1, 0, TRUE, FALSE),
     I(NoReg, 1, FALSE, TRUE)}

\* A fused compare-and-branch also writes a register.
MCBranchInsns ==
    {I(1, 1, FALSE, FALSE),
     I(NoReg, 1, FALSE, TRUE), I(1, 1, FALSE, TRUE)}
\* What a checkpoint slot still holds after its branch is gone is overwritten
\* before it is read again: states that differ only in it are one state.
Held(f) == [s \in Released(rob) \union occupied |-> f[s]]
MCView == <<freeBitmap, committedMap, Held(ckptBitmap), Held(ckptCommitted), rat,
            committedRat, Held(ckptTable), occupied, Held(slotSeq), nextSeq, rob,
            recoveries>>
=============================================================================
