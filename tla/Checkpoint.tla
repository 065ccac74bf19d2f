----------------------------- MODULE Checkpoint -----------------------------
(***************************************************************************)
(* rename/checkpoint.sv: which checkpoint slots are in use, and the age of *)
(* each, a sequence number one bit wider than a slot number that a restore *)
(* compares to tell the older checkpoints, which it keeps, from the        *)
(* younger ones.  The images themselves are kept by Rat and FreeList.      *)
(***************************************************************************)
EXTENDS RegMap

VARIABLES occupied, slotSeq, nextSeq

ckptVars == <<occupied, slotSeq, nextSeq>>

SeqModulus == 2 * NumCheckpoints      \* CKPT_SEQ_BITS = CHECKPOINT_BITS + 1

CkptInit ==
    /\ occupied = {}
    /\ slotSeq = [s \in Slots |-> 0]
    /\ nextSeq = 0

\* Slots a save may take: it sees the releases of the same cycle.
FreeSlots(released) == Slots \ (occupied \ released)

SaveAvail(released) == FreeSlots(released) # {}
SaveId(released) ==
    CHOOSE s \in FreeSlots(released) : \A t \in FreeSlots(released) : s <= t

\* Fault model: the release wins over a save to the same slot.
CkptCycleReleaseLast(released, save) ==
    /\ occupied' = (occupied \union save) \ released
    /\ slotSeq' = [s \in Slots |-> IF s \in save THEN nextSeq ELSE slotSeq[s]]
    /\ nextSeq' = IF save = {} THEN nextSeq ELSE (nextSeq + 1) % SeqModulus

\* save is {SaveId(released)} or {}.
CkptCycle(released, save) ==
    /\ occupied' = (occupied \ released) \union save
    /\ slotSeq' = [s \in Slots |-> IF s \in save THEN nextSeq ELSE slotSeq[s]]
    /\ nextSeq' = IF save = {} THEN nextSeq ELSE (nextSeq + 1) % SeqModulus

\* Fault model: a flush forgets the sequence number, not the slots.
CkptFlushKeepsSlots ==
    /\ nextSeq' = 0
    /\ UNCHANGED <<occupied, slotSeq>>

CkptFlush ==
    /\ occupied' = {}
    /\ nextSeq' = 0
    /\ UNCHANGED slotSeq

RestoreDelta(id, s) == (slotSeq[id] - slotSeq[s] + SeqModulus) % SeqModulus

\* Fault model: the age comparison ignores the wrap of the sequence numbers.
KeepMaskUnwrapped(released, id) ==
    {s \in occupied \ released : slotSeq[s] < slotSeq[id]}

KeepMask(released, id) ==
    {s \in occupied \ released : RestoreDelta(id, s) \in 1..(NumCheckpoints - 1)}

\* A restore discards the branch and the younger slots; it moves neither
\* the sequence numbers nor their counter.
CkptRestore(released, id) ==
    /\ occupied' = KeepMask(released, id)
    /\ UNCHANGED <<slotSeq, nextSeq>>
=============================================================================
