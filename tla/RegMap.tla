------------------------------- MODULE RegMap -------------------------------
(***************************************************************************)
(* What the rename modules share: the sizes of the machine (rv64gc_pkg.sv) *)
(* and the overlay of a group of register writes on a register map, which  *)
(* rat.sv, free_list.sv and the commit path all compute with the same      *)
(* "scan the slots in order, the latest enabled slot wins" loop.           *)
(*                                                                         *)
(* One instance stands for one register class: the integer rat/free_list   *)
(* pair has ProtectZero = TRUE, the floating-point pair FALSE.             *)
(***************************************************************************)
EXTENDS Integers, Sequences, FiniteSets

CONSTANTS NumPregs,        \* PRF_DEPTH of the class
          NumArch,         \* ARCH_REGS
          NumCheckpoints,  \* NUM_CHECKPOINTS
          PipeWidth,       \* PIPE_WIDTH
          RobDepth,        \* ROB_DEPTH
          ProtectZero      \* PROTECT_ZERO: p0 is hardwired and never allocated

ASSUME RegMapAssumption ==
    /\ NumArch \in Nat \ {0} /\ NumPregs \in Nat /\ NumPregs > NumArch
    /\ NumCheckpoints \in Nat \ {0}
    /\ PipeWidth \in Nat \ {0}
    /\ RobDepth \in Nat /\ RobDepth >= PipeWidth
    /\ ProtectZero \in BOOLEAN

Pregs == 0..(NumPregs - 1)
Arch  == 0..(NumArch - 1)
Slots == 0..(NumCheckpoints - 1)

\* The register no list ever holds: p0 where PROTECT_ZERO, none otherwise.
Hardwired == IF ProtectZero THEN {0} ELSE {}

\* What the commit unit and the reorder buffer know of a renamed instruction:
\* wr says that its write enable reaches the map (rd valid and not x0).
Entry == [wr : BOOLEAN, rd : Arch, pdst : Pregs, old : Pregs,
          rs : Arch, src : Pregs, br : BOOLEAN, chk : BOOLEAN, cid : Slots]

Prefix(w, n) == SubSeq(w, 1, n)
Writers(w, a) == {i \in DOMAIN w : w[i].wr /\ w[i].rd = a}
Latest(S) == CHOOSE i \in S : \A j \in S : j <= i

\* The map after the writes of w, slot by slot.
Overlay(map, w) ==
    [a \in Arch |-> IF Writers(w, a) = {} THEN map[a]
                                          ELSE w[Latest(Writers(w, a))].pdst]

Image(map) == {map[a] : a \in Arch}
Dests(w) == {w[i].pdst : i \in {j \in DOMAIN w : w[j].wr}}

\* Fault model: a register written twice in a group is released once.
OldsOfLastWriters(w) ==
    {w[i].old : i \in {j \in DOMAIN w : w[j].wr /\ j = Latest(Writers(w, w[j].rd))}}

Olds(w) == {w[i].old  : i \in {j \in DOMAIN w : w[j].wr}}

\* The k lowest members of S in increasing order (the cascaded priority
\* encoder): a set with one member when S has k members, empty otherwise.
LowestFirst(S, k) ==
    {f \in [1..k -> S] :
        /\ \A i, j \in 1..k : i < j => f[i] < f[j]
        /\ \A q \in S : (\A i \in 1..k : f[i] # q) => \A i \in 1..k : f[i] < q}
=============================================================================
