------------------------------ MODULE FreeList ------------------------------
(***************************************************************************)
(* rename/free_list.sv: the free bitmap of one physical register class,    *)
(* its private copy of the committed map, and the two bitmaps it saves per *)
(* checkpoint.  Three kinds of clock cycle: an ordinary one, a full flush, *)
(* a checkpoint restore.  w is the group of instructions committing in the *)
(* cycle; every kind of cycle applies it to the committed map.             *)
(***************************************************************************)
EXTENDS RegMap

VARIABLES freeBitmap,     \* the set of registers whose bit is 1
          committedMap,   \* committed_map
          ckptBitmap,     \* ckpt_bitmap, per checkpoint slot
          ckptCommitted   \* ckpt_committed_bitmap, per checkpoint slot

flVars == <<freeBitmap, committedMap, ckptBitmap, ckptCommitted>>

InitBitmap == NumArch..(NumPregs - 1)

FLInit ==
    /\ freeBitmap = InitBitmap
    /\ committedMap = [a \in Arch |-> a]
    /\ ckptBitmap = [s \in Slots |-> InitBitmap]
    /\ ckptCommitted = [s \in Slots |-> InitBitmap]

CommittedBitmap(map) == Pregs \ (Hardwired \union Image(map))

CommittedBitmapNext(w) == CommittedBitmap(Overlay(committedMap, w))

(***************************************************************************)
(* The bitmap a checkpoint saves.  The loop of ckpt_save_bitmap_next sets  *)
(* the i-th RELEASED register and then clears the destination of the i-th  *)
(* commit SLOT, so where a register is both, the later index decides.  The *)
(* released registers are compacted over the slots that write; the slots   *)
(* are not.                                                                *)
(***************************************************************************)
ReleaseIndex(w, i) == Cardinality({j \in 1..i : w[j].wr})

\* Fault model: the registers the older slots of the group take are saved as free.
CkptSaveBitmapWithTaken(taken, w) ==
    (freeBitmap \union Olds(w)) \ (Hardwired \union Dests(w))

CkptSaveBitmap(taken, w) ==
    LET writes == {i \in DOMAIN w : w[i].wr}
        set(p) == {ReleaseIndex(w, i) : i \in {j \in writes : w[j].old = p}}
        clr(p) == {i \in writes : w[i].pdst = p}
    IN  {p \in Pregs \ Hardwired :
            IF set(p) = {} THEN p \in freeBitmap \ taken /\ clr(p) = {}
            ELSE \A i \in clr(p) : \E r \in set(p) : r > i}

\* Fault model: the release does not mask the hardwired register.
FLCycleUnmasked(consumed, w, save, before) ==
    /\ freeBitmap' = (freeBitmap \ consumed) \union Olds(w)
    /\ committedMap' = Overlay(committedMap, w)
    /\ ckptBitmap' = [s \in Slots |->
            IF s \in save THEN CkptSaveBitmap(before, w) ELSE ckptBitmap[s]]
    /\ ckptCommitted' = [s \in Slots |->
            IF s \in save THEN CommittedBitmapNext(w) ELSE ckptCommitted[s]]

\* An ordinary cycle: the consumed prefix of the grant is retired, the old
\* destinations of the committing group come back, a checkpoint is saved.
\* consumed, before: registers taken by all slots / by the slots before the
\* checkpointed branch; save: the slot saved to, or {}.
FLCycle(consumed, w, save, before) ==
    /\ freeBitmap' = (freeBitmap \ consumed) \union (Olds(w) \ Hardwired)
    /\ committedMap' = Overlay(committedMap, w)
    /\ ckptBitmap' = [s \in Slots |->
            IF s \in save THEN CkptSaveBitmap(before, w) ELSE ckptBitmap[s]]
    /\ ckptCommitted' = [s \in Slots |->
            IF s \in save THEN CommittedBitmapNext(w) ELSE ckptCommitted[s]]

\* A full flush: the committed bitmap, same-cycle commits included.
FLFlush(w) ==
    /\ freeBitmap' = CommittedBitmapNext(w)
    /\ committedMap' = Overlay(committedMap, w)
    /\ UNCHANGED <<ckptBitmap, ckptCommitted>>

\* A partial recovery: what was free at the branch, and what became free in
\* the committed state since.
FLRestore(w, id) ==
    /\ freeBitmap' = ckptBitmap[id]
                        \union (CommittedBitmapNext(w) \ ckptCommitted[id])
    /\ committedMap' = Overlay(committedMap, w)
    /\ UNCHANGED <<ckptBitmap, ckptCommitted>>
=============================================================================
