------------------------------- MODULE Rename -------------------------------
(***************************************************************************)
(* The register renaming loop of the core: rename.sv with its free list,   *)
(* register map and checkpoint manager, closed by the commit side that     *)
(* feeds it (the reorder buffer with the rename buffer beside it in        *)
(* rv64gc_core_top.sv, and commit.sv).                                     *)
(*                                                                         *)
(* A step is one clock cycle.  The reorder buffer is the sequence of the   *)
(* instructions in flight, oldest first; when an instruction completes is  *)
(* left open, so in any cycle any prefix of at most PipeWidth entries may  *)
(* commit while any group of at most PipeWidth instructions is renamed.    *)
(* Module Rob models the circular buffer itself, RenameGroup how a decode  *)
(* packet is cut into the prefix that advances and the part that is held.  *)
(***************************************************************************)
EXTENDS FreeList, Rat, Checkpoint

CONSTANTS Insns,          \* the instructions decode may deliver
          MaxRecoveries   \* bound on partial recoveries; 0: the feature is off

NoReg == -1

InsnShape == [rd : Arch \union {NoReg}, rs : Arch, zero : BOOLEAN, br : BOOLEAN]

ASSUME RenameAssumption ==
    /\ Insns \subseteq InsnShape
    /\ \A d \in Insns : d.zero => ProtectZero /\ d.rd # NoReg /\ ~d.br
    /\ MaxRecoveries \in Nat

VARIABLES rob,        \* the instructions in flight, oldest first
          recoveries  \* partial recoveries so far (bounds the model)

vars == <<flVars, ratVars, ckptVars, rob, recoveries>>

Writes(d) == d.rd # NoReg /\ d.rd \notin Hardwired
NeedsPreg(d) == Writes(d) /\ ~d.zero

NeedCount(g, n) == Cardinality({j \in 1..n : NeedsPreg(g[j])})

Branches(g) == {i \in DOMAIN g : g[i].br}

Groups == UNION {[1..n -> Insns] : n \in 0..PipeWidth}

(***************************************************************************)
(* The group as it enters the reorder buffer, given the registers the free *)
(* list presents and the checkpoint slot for its branch.  Destinations do  *)
(* not depend on the map; sources and old destinations are read from it    *)
(* with the earlier slots of the group bypassed.                           *)
(***************************************************************************)
WithDests(g, found, id) ==
    [i \in DOMAIN g |->
        [wr |-> Writes(g[i]), rd |-> IF g[i].rd = NoReg THEN 0 ELSE g[i].rd,
         pdst |-> IF NeedsPreg(g[i]) THEN found[NeedCount(g, i)] ELSE 0,
         old |-> 0, rs |-> g[i].rs, src |-> 0,
         br |-> g[i].br, chk |-> g[i].br, cid |-> IF g[i].br THEN id ELSE 0]]

RenamedGroup(g, found, id) ==
    LET w == WithDests(g, found, id)
    IN  [i \in DOMAIN g |->
            [w[i] EXCEPT !.src = RatRead(w, i, w[i].rs),
                         !.old = IF w[i].wr THEN RatRead(w, i, w[i].rd) ELSE 0]]

Released(w) == {w[i].cid : i \in {j \in DOMAIN w : w[j].chk}}

Init ==
    /\ FLInit /\ RatInit /\ CkptInit
    /\ rob = <<>>
    /\ recoveries = 0

\* What rename lets through of a decode group while w commits: room for a
\* whole group in the buffer (rob_alloc_ready does not see this cycle's
\* commits), a register for each destination, one branch with a checkpoint.
CanRename(g, w) ==
    /\ g # <<>> => RobDepth - Len(rob) >= PipeWidth
    /\ NeedCount(g, Len(g)) <= Cardinality(freeBitmap)
    /\ Cardinality(Branches(g)) <= 1
    /\ Branches(g) # {} => SaveAvail(Released(w))

\* An ordinary cycle: the c oldest instructions commit, g is renamed.
Cycle(c, g) ==
    LET w    == Prefix(rob, c)
        rel  == Released(w)
        save == IF Branches(g) = {} THEN {} ELSE {SaveId(rel)}
        id   == IF save = {} THEN 0 ELSE SaveId(rel)
        b    == IF save = {} THEN 1 ELSE Latest(Branches(g))
    IN  /\ CanRename(g, w)
        /\ \E found \in LowestFirst(freeBitmap, NeedCount(g, Len(g))) :
              LET ren == RenamedGroup(g, found, id)
                  used(n) == {found[k] : k \in 1..NeedCount(g, n)}
              IN  /\ FLCycle(used(Len(g)), w, save, used(b - 1))
                  /\ RatCycle(ren, w, save, b)
                  /\ CkptCycle(rel, save)
                  /\ rob' = SubSeq(rob, c + 1, Len(rob)) \o ren
        /\ UNCHANGED recoveries

\* A full flush from commit (exception, replay, misprediction, return,
\* fence, interrupt): the c oldest retire in the same cycle, all else goes.
Flush(c) ==
    LET w == Prefix(rob, c)
    IN  /\ rob # <<>>
        /\ FLFlush(w) /\ RatFlush(w) /\ CkptFlush
        /\ rob' = <<>>
        /\ UNCHANGED recoveries

\* A partial recovery at execute: the branch in entry k mispredicted.  It
\* stays, without its checkpoint; what is younger goes; c older entries may
\* commit in the same cycle.  A branch that writes a register waits for the
\* full flush at its commit.
Recover(c, k) ==
    LET w == Prefix(rob, c)
    IN  /\ recoveries < MaxRecoveries
        /\ c < k
        /\ rob[k].br /\ rob[k].chk /\ ~rob[k].wr
        /\ FLRestore(w, rob[k].cid)
        /\ RatRestore(w, rob[k].cid)
        /\ CkptRestore(Released(w), rob[k].cid)
        /\ rob' = [SubSeq(rob, c + 1, k) EXCEPT ![k - c].chk = FALSE]
        /\ recoveries' = recoveries + 1

CommitCounts == 0..(IF Len(rob) < PipeWidth THEN Len(rob) ELSE PipeWidth)

Next ==
    \/ \E c \in CommitCounts, g \in Groups : Cycle(c, g)
    \/ \E c \in CommitCounts : Flush(c)
    \/ \E c \in CommitCounts, k \in DOMAIN rob : Recover(c, k)

Spec == Init /\ [][Next]_vars

-----------------------------------------------------------------------------
TypeOK ==
    /\ freeBitmap \subseteq Pregs \ Hardwired
    /\ committedMap \in [Arch -> Pregs] /\ committedRat \in [Arch -> Pregs]
    /\ rat \in [Arch -> Pregs]
    /\ ckptBitmap \in [Slots -> SUBSET (Pregs \ Hardwired)]
    /\ ckptCommitted \in [Slots -> SUBSET Pregs]
    /\ ckptTable \in [Slots -> [Arch -> Pregs]]
    /\ occupied \subseteq Slots
    /\ slotSeq \in [Slots -> 0..(SeqModulus - 1)]
    /\ nextSeq \in 0..(SeqModulus - 1)
    /\ rob \in Seq(Entry) /\ Len(rob) <= RobDepth
    /\ recoveries \in 0..MaxRecoveries

\* Registers some map or some instruction in flight still holds.
Live == Hardwired \union Image(committedRat) \union Dests(rob)

\* The speculative map is the committed map overlaid with the writes in
\* flight in program order, after any mix of renaming, commits, flushes and
\* recoveries (rat.sv: the table and its bypasses).
MapIsProgramOrder == rat = Overlay(committedRat, rob)

\* free_list.sv and rat.sv each keep a committed map of their own; they agree.
CommittedMapsAgree == committedMap = committedRat

\* A register on the free list is held by no map and by no instruction in
\* flight, and no two hold the same one: none is handed out twice.
NoDoubleAllocation ==
    /\ freeBitmap \cap Live = {}
    /\ \A a, b \in Arch :
          a # b /\ committedRat[a] \notin Hardwired
              => committedRat[a] # committedRat[b]
    /\ \A i, j \in DOMAIN rob :
          i # j /\ rob[i].wr /\ rob[j].wr /\ rob[i].pdst \notin Hardwired
              => rob[i].pdst # rob[j].pdst
    /\ \A i \in DOMAIN rob :
          rob[i].wr /\ rob[i].pdst \notin Hardwired
              => rob[i].pdst \notin Image(committedRat)

\* Conservation: a register nobody holds is on the free list.
NoLostRegister == Pregs \ Live \subseteq freeBitmap

\* Each instruction in flight reads the register of the youngest older
\* instruction that writes its source, or the committed one, and will
\* release the register its destination was mapped to before it.
SourcesNameProducers ==
    \A i \in DOMAIN rob :
        LET map == Overlay(committedRat, Prefix(rob, i - 1))
        IN  /\ rob[i].src = map[rob[i].rs]
            /\ rob[i].wr => rob[i].old = map[rob[i].rd]

\* The recovery contract: every branch in flight that will release or
\* restore a checkpoint owns an occupied slot and shares it with no other,
\* so no release and no restore is invalid, duplicate, or of another's slot.
CheckpointsOwned ==
    /\ \A i \in DOMAIN rob : rob[i].chk => rob[i].cid \in occupied
    /\ \A i, j \in DOMAIN rob :
          i # j /\ rob[i].chk /\ rob[j].chk => rob[i].cid # rob[j].cid

\* A slot is occupied only on behalf of a branch in flight.
NoLostCheckpoint == occupied \subseteq Released(rob)

\* The image a branch in flight would restore is the map in program order
\* just before it, whatever has committed since.
CheckpointImages ==
    \A i \in DOMAIN rob :
        rob[i].chk => ckptTable[rob[i].cid] = Overlay(committedRat, Prefix(rob, i - 1))

\* How many checkpoints were saved since the one in slot s, itself included.
Age(s) == (nextSeq - slotSeq[s] + SeqModulus) % SeqModulus

\* A branch in flight with a checkpoint is among the last NumCheckpoints that
\* took one: what a restore asks of the slots that it keeps (checkpoint.sv:
\* restore_seq_delta is compared with NUM_CHECKPOINTS).
AgesTell == \A i \in DOMAIN rob : rob[i].chk => Age(rob[i].cid) \in 1..NumCheckpoints
=============================================================================
