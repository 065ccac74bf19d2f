--------------------------------- MODULE Rat ---------------------------------
(***************************************************************************)
(* rename/rat.sv: the speculative map, the committed map, and the copy of  *)
(* the speculative map each checkpoint keeps.  ren is the group being      *)
(* renamed in the cycle, com the group committing.                         *)
(***************************************************************************)
EXTENDS RegMap

VARIABLES rat,          \* rat_table
          committedRat, \* committed_rat
          ckptTable     \* ckpt_table, per checkpoint slot

ratVars == <<rat, committedRat, ckptTable>>

RatInit ==
    /\ rat = [a \in Arch |-> a]
    /\ committedRat = [a \in Arch |-> a]
    /\ ckptTable = [s \in Slots |-> [a \in Arch |-> a]]

\* Fault model: no bypass from the earlier slots.
RatReadTable(ren, i, a) == rat[a]

\* What slot i of the group reads for architectural register a: the table,
\* with the writes of the earlier slots bypassed (old_phys reads rd's).
RatRead(ren, i, a) == Overlay(rat, Prefix(ren, i - 1))[a]

\* Fault model: the image misses the slots before the branch.
RatCycleSavesTable(ren, com, save, branch) ==
    /\ rat' = Overlay(rat, ren)
    /\ committedRat' = Overlay(committedRat, com)
    /\ ckptTable' = [s \in Slots |-> IF s \in save THEN rat ELSE ckptTable[s]]

\* save: the checkpoint slot written, or {}; branch: the slot of the group
\* that owns it, whose own write is not in the image.
RatCycle(ren, com, save, branch) ==
    /\ rat' = Overlay(rat, ren)
    /\ committedRat' = Overlay(committedRat, com)
    /\ ckptTable' = [s \in Slots |->
            IF s \in save THEN Overlay(rat, Prefix(ren, branch - 1))
                          ELSE ckptTable[s]]

RatFlush(com) ==
    /\ rat' = Overlay(committedRat, com)
    /\ committedRat' = Overlay(committedRat, com)
    /\ UNCHANGED ckptTable

\* Fault model: a restore goes back to the committed map.
RatRestoreCommitted(com, id) ==
    /\ rat' = Overlay(committedRat, com)
    /\ committedRat' = Overlay(committedRat, com)
    /\ UNCHANGED ckptTable

RatRestore(com, id) ==
    /\ rat' = ckptTable[id]
    /\ committedRat' = Overlay(committedRat, com)
    /\ UNCHANGED ckptTable
=============================================================================
