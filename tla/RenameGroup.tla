----------------------------- MODULE RenameGroup -----------------------------
(***************************************************************************)
(* The entrance of rename: the decode register (decode.sv), the holding    *)
(* register of rename.sv, and the cut that the resources of the cycle make *)
(* in a group.  A step is one clock cycle.  The front end delivers packets *)
(* of instructions, numbered from the last redirect; rename takes them one *)
(* packet at a time, renames the prefix that the resources allow and holds *)
(* the rest.                                                               *)
(*                                                                         *)
(* With EarlyRedirect a branch that mispredicts at execute redirects the   *)
(* front end only, and rename accepts nothing (the quarantine) until the   *)
(* flush of the branch's commit.                                           *)
(***************************************************************************)
EXTENDS Integers, Sequences, FiniteSets

CONSTANTS PipeWidth,      \* PIPE_WIDTH
          ThrottleWidth,  \* BACKEND_THROTTLE_WIDTH
          Kinds,          \* what instructions need: sets of resources
          EarlyRedirect,  \* BRU_EARLY_REDIRECT of either branch unit
          MaxFetched      \* bound on the packets between two redirects

\* Physical registers of a class, queues, checkpoints: those that Kinds names.
Resource == UNION Kinds

ASSUME RenameGroupAssumption ==
    /\ PipeWidth \in Nat \ {0}
    /\ ThrottleWidth \in 1..PipeWidth
    /\ Kinds \subseteq SUBSET {"int", "fp", "lq", "sq", "ckpt"}
    /\ EarlyRedirect \in BOOLEAN
    /\ MaxFetched \in Nat

VARIABLES dec,         \* the decode register: dec_insn_flat_r, dec_count_r
          hold,        \* hold_insn_flat, hold_valid
          quarantine,  \* bru_redirect_quarantine_r
          fetched,     \* instructions delivered since the last redirect
          renamed      \* instructions renamed since the last full flush

vars == <<dec, hold, quarantine, fetched, renamed>>

\* pos: the place in the stream since the last redirect; ahead: fetched after
\* an early redirect that no flush has confirmed.
Insn == [pos : 1..MaxFetched, needs : Kinds, ahead : BOOLEAN]

Init ==
    /\ dec = <<>> /\ hold = <<>>
    /\ quarantine = FALSE
    /\ fetched = 0 /\ renamed = 0

\* Fault model: the held instructions and a fresh packet share the group.
WorkMerged ==
    LET all == hold \o (IF quarantine THEN <<>> ELSE dec)
    IN  IF Len(all) <= PipeWidth THEN all ELSE SubSeq(all, 1, PipeWidth)

\* Fault model: they share it without a limit on its slots.
WorkUnlimited == hold \o (IF quarantine THEN <<>> ELSE dec)

\* The holding register owns rename while it is occupied; under quarantine
\* the packet of the decode register is replaced by an empty one.
Work ==
    IF hold # <<>> THEN hold
    ELSE IF quarantine THEN <<>>
    ELSE dec

Users(w, n, r) == {j \in 1..n : r \in w[j].needs}

\* avail[r]: how many instructions of the group may use resource r, which for
\* a queue is all or none and for the checkpoint is one at most.
Avail ==
    {a \in [Resource -> 0..PipeWidth] :
        /\ \A r \in Resource \cap {"lq", "sq"} : a[r] \in {0, PipeWidth}
        /\ \A r \in Resource \cap {"ckpt"} : a[r] <= 1}

\* width: no slot without a reorder buffer and a dispatch queue that accept,
\* and the first slots only while the back end throttles.
Widths == {0, ThrottleWidth, PipeWidth}

\* The n oldest slots have all they need, the older ones served first.
Fits(w, n, avail, width) ==
    /\ n <= width
    /\ \A i \in 1..n : \A r \in w[i].needs : Cardinality(Users(w, i, r)) <= avail[r]

\* Fault model: a group advances as a whole or not at all.
AdvancesWhole(w, avail, width) ==
    IF Fits(w, Len(w), avail, width) THEN Len(w) ELSE 0

\* slot_can_advance is true of a prefix of the group, the longest that fits.
Advances(w, avail, width) ==
    CHOOSE n \in 0..Len(w) :
        /\ Fits(w, n, avail, width)
        /\ \A m \in 0..Len(w) : Fits(w, m, avail, width) => m <= n

\* How many instructions of the group a cycle may rename.
Cuts == {Advances(Work, avail, width) : avail \in Avail, width \in Widths}

Rest(w, n) == SubSeq(w, n + 1, Len(w))

\* What decode sees: wait while the register is occupied or nothing advanced.
Stalls(w, n) == hold # <<>> \/ (w # <<>> /\ n = 0)

Packets == UNION {[1..n -> Kinds] : n \in 0..PipeWidth}

\* The packet as instructions of the stream.
Numbered(p) ==
    [i \in DOMAIN p |-> [pos |-> fetched + i, needs |-> p[i], ahead |-> quarantine]]

\* What rename does with the group, flushes aside: n of it advance.
Advance(w, n) ==
    /\ hold' = IF hold # <<>> \/ n > 0 THEN Rest(w, n) ELSE <<>>
    /\ renamed' = renamed + n

Cycle(n, p) ==
    /\ Advance(Work, n)
    /\ IF Stalls(Work, n) THEN UNCHANGED <<dec, fetched>>
       ELSE /\ fetched + Len(p) <= MaxFetched
            /\ dec' = Numbered(p)
            /\ fetched' = fetched + Len(p)
    /\ UNCHANGED quarantine

\* A branch in flight mispredicts at execute: the front end and the decode
\* register restart at its target, the holding register is left alone.
Redirect(n) ==
    /\ EarlyRedirect /\ ~quarantine /\ renamed > 0
    /\ Advance(Work, n)
    /\ dec' = <<>> /\ fetched' = 0
    /\ quarantine' = TRUE

\* A flush from commit, or a partial recovery: everything is fetched again.
Flush ==
    /\ renamed > 0
    /\ dec' = <<>> /\ hold' = <<>>
    /\ quarantine' = FALSE
    /\ fetched' = 0 /\ renamed' = 0

Next ==
    \/ \E n \in Cuts, p \in Packets : Cycle(n, p)
    \/ \E n \in Cuts : Redirect(n)
    \/ Flush

Spec == Init /\ [][Next]_vars

\* The back end drains: again and again a cycle has what the oldest slot
\* needs, and the front end is not obliged to deliver anything in it.
Served == \E n \in Cuts : (Work # <<>> => n > 0) /\ Cycle(n, <<>>)

FairSpec == Spec /\ WF_vars(Served)

-----------------------------------------------------------------------------
TypeOK ==
    /\ dec \in Seq(Insn) /\ Len(dec) <= PipeWidth
    /\ hold \in Seq(Insn) /\ Len(hold) <= PipeWidth
    /\ quarantine \in BOOLEAN
    /\ fetched \in 0..MaxFetched /\ renamed \in Nat

\* The instructions on their way to rename.
Pending == hold \o (IF quarantine THEN <<>> ELSE dec)

\* Each instruction the front end delivered is renamed once and in its place:
\* what is pending continues what was renamed, up to what was delivered,
\* through any sequence of cuts, holds, stalls and quarantines, and nothing
\* fetched under a quarantine is among it.
InOrderOnce ==
    /\ \A i \in DOMAIN Pending : Pending[i].pos = renamed + i /\ ~Pending[i].ahead
    /\ ~quarantine => renamed + Len(Pending) = fetched

\* A pending instruction is renamed or flushed, whatever it is grouped with.
PendingLeaves ==
    \A i \in 1..MaxFetched :
        (\E k \in DOMAIN Pending : Pending[k].pos = i)
            ~> (\A k \in DOMAIN Pending : Pending[k].pos # i)
=============================================================================
