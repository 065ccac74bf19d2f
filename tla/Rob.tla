--------------------------------- MODULE Rob ---------------------------------
(***************************************************************************)
(* The reorder buffer (backend/rob.sv) with the commit scan (commit.sv),   *)
(* the writeback registers in front of it and the two flushes that reach   *)
(* it (rv64gc_core_top.sv).                                                *)
(*                                                                         *)
(* A step is one clock cycle: the scan reads the head window, the results  *)
(* registered in the last cycle are written, new results are registered,   *)
(* instructions are allocated, and a full flush (from commit) or a partial *)
(* one (from a branch that mispredicted, where the configuration has it)   *)
(* may take the cycle.  The execution units, the load queue, the interrupt *)
(* lines and the store drain are the environment.                          *)
(***************************************************************************)
EXTENDS Integers, FiniteSets, FiniteSetsExt

CONSTANTS RobDepth,     \* ROB_DEPTH
          PipeWidth,    \* PIPE_WIDTH
          Ports,        \* results registered in a cycle, at most
          Kinds,        \* the kinds of instructions of the instance
          Selective     \* SELECTIVE_BRANCH_RECOVERY: partial flushes

\* "ret" is a return from a trap or a write, allowed, of SATP or a status
\* register, "fence" any of the fences, "csr" another CSR access or WFI.  An
\* instruction that renaming eliminated, "zero", and one that the front end
\* gave an exception, "bad" (illegal, ECALL, EBREAK, a fetch that faulted,
\* floating point turned off), are never dispatched: they enter with nothing
\* to do, and no other flag of theirs is asked for before the exception is.
AllKinds == {"alu", "load", "store", "branch", "csr", "fence", "ret",
             "zero", "bad"}

ASSUME RobAssumption ==
    /\ PipeWidth \in Nat /\ PipeWidth >= 2
    /\ RobDepth \in Nat /\ RobDepth > PipeWidth
    /\ Ports \in Nat /\ Ports >= 2
    /\ Kinds \subseteq AllKinds /\ Kinds # {}
    /\ Selective \in BOOLEAN

Index == 0..(RobDepth - 1)

Entry == [valid : BOOLEAN, ready : BOOLEAN, kind : AllKinds,
          addr : BOOLEAN, data : BOOLEAN,    \* store_addr_done, store_data_done
          exc : {"none", "trap", "replay"},  \* has_exc and exc_code
          misp : BOOLEAN]                    \* branch_mispredict

\* A result in a writeback register: a store reports address and data apart.
Result == [idx : Index, part : {"result", "addr", "data"},
           exc : {"none", "trap"}, misp : BOOLEAN]

VARIABLES head, tail, count,  \* head_r, tail_r, count_r
          slot,               \* the entry arrays
          wbr,                \* cdb_*_r, load_wb_*_r, lsu_sta_wb_*_r, lsu_std_wb_*_r
          viol,               \* lsu_ordering_violation: {} or the load's index
          headroom,           \* recovery_headroom_ok
          refill,             \* the cycle after a flush: nothing to allocate yet
          retired,            \* commit_count of the cycle just ended
          stale               \* history: loads an older store has contradicted

vars == <<head, tail, count, slot, wbr, viol, headroom, refill, retired, stale>>

\* alloc_ready_now, alloc_has_exception.
Fresh(k) ==
    [valid |-> TRUE, ready |-> k \in {"zero", "bad"}, kind |-> k, addr |-> FALSE,
     data |-> FALSE, exc |-> IF k = "bad" THEN "trap" ELSE "none", misp |-> FALSE]

\* An entry that was flushed or committed.  What a commit leaves in the other
\* fields is written again by the allocation before anything reads it.
Blank == [Fresh("alu") EXCEPT !.valid = FALSE]

Init ==
    /\ head = 0 /\ tail = 0 /\ count = 0
    /\ slot = [i \in Index |-> Blank]
    /\ wbr = {} /\ viol = {}
    /\ headroom = FALSE /\ refill = FALSE
    /\ retired = 0 /\ stale = {}

\* Fault model: an index that does not wrap at ROB_DEPTH.
AtUnwrapped(base, i) == base + i

At(base, i) == (base + i) % RobDepth
Age(i) == (i - head + RobDepth) % RobDepth
InFlight == {At(head, i) : i \in 0..(count - 1)}

-----------------------------------------------------------------------------
\* The head window, slots 0 .. PipeWidth - 1, as the commit unit reads it.

Serializing(k) == k \in {"csr", "fence", "ret"}

HeadValid(i) == slot[At(head, i)].valid /\ count > i

\* A result still in its register lets the two oldest slots retire in the
\* same cycle, where no other field of the entry depends on it.
Bypass(i) ==
    LET e == slot[At(head, i)]
    IN  /\ i < 2 /\ e.valid /\ ~e.ready /\ e.exc = "none"
        /\ e.kind \in {"alu", "load"}
        /\ At(head, i) \notin viol
        /\ \E r \in wbr : r.idx = At(head, i) /\ r.exc = "none"

HeadReady(i) == slot[At(head, i)].ready \/ Bypass(i)

Waits(i, drained) == slot[At(head, i)].kind = "fence" /\ ~drained
Replays(i) == slot[At(head, i)].exc = "replay"
Traps(i) == slot[At(head, i)].exc = "trap"

\* The scan stops before slot i, or with it.
Blocks(i, drained) ==
    \/ ~HeadValid(i) \/ ~HeadReady(i) \/ Waits(i, drained) \/ Replays(i)
    \/ i > 0 /\ Serializing(slot[At(head, i)].kind) /\ ~Traps(i)

Mispredicts(i) == slot[At(head, i)].kind = "branch" /\ slot[At(head, i)].misp

\* Fault model: the scan goes on past a mispredicted branch.
EndsNotAtBranch(i) == Traps(i) \/ Serializing(slot[At(head, i)].kind)

Ends(i) == Traps(i) \/ Serializing(slot[At(head, i)].kind) \/ Mispredicts(i)

ScanCount(drained) ==
    CHOOSE n \in 0..PipeWidth :
        /\ \A i \in 0..(n - 1) : ~Blocks(i, drained) /\ (i < n - 1 => ~Ends(i))
        /\ n < PipeWidth =>
              Blocks(n, drained) \/ (n > 0 /\ Ends(n - 1))

FoundReplay(n, drained) ==
    /\ n < PipeWidth /\ (n > 0 => ~Ends(n - 1))
    /\ HeadValid(n) /\ HeadReady(n) /\ ~Waits(n, drained) /\ Replays(n)

\* Of the last retired slot: an exception, a misprediction, a return, a
\* fence redirect the fetch unit and flush everything.
Redirects(i) ==
    Traps(i) \/ Mispredicts(i) \/ slot[At(head, i)].kind \in {"ret", "fence"}

TakesInterrupt(n, drained, irq) ==
    /\ irq /\ HeadValid(0)
    /\ ~FoundReplay(n, drained)
    /\ n > 0 => ~Redirects(n - 1) /\ ~Serializing(slot[head].kind)

\* Fault model: the group commits under the interrupt.
CommitCountUnderInterrupt(drained, irq) == ScanCount(drained)

\* commit_count: an interrupt that is taken lets nothing commit.
CommitCount(drained, irq) ==
    LET n == ScanCount(drained)
    IN  IF TakesInterrupt(n, drained, irq) THEN 0 ELSE n

CommitFlush(drained, irq) ==
    LET n == ScanCount(drained)
    IN  \/ FoundReplay(n, drained)
        \/ n > 0 /\ Redirects(n - 1)
        \/ TakesInterrupt(n, drained, irq)

-----------------------------------------------------------------------------
\* What the registered results do to an entry.

\* Fault model: a half waits for the other to be in the entry already.
WriteBackHalves(e, parts, exc, misp, violates) ==
    [e EXCEPT
        !.ready = \/ e.ready \/ violates \/ "result" \in parts
                  \/ "addr" \in parts /\ e.data
                  \/ "data" \in parts /\ e.addr,
        !.addr = e.addr \/ "addr" \in parts,
        !.data = e.data \/ "data" \in parts,
        !.exc = IF violates THEN "replay" ELSE IF exc THEN "trap" ELSE e.exc,
        !.misp = e.misp \/ misp]

\* store_addr_done and store_data_done, and the ready bit: a store is ready
\* when its second half is written, or when both come in one cycle.
WriteBack(e, parts, exc, misp, violates) ==
    [e EXCEPT
        !.ready = \/ e.ready \/ violates \/ "result" \in parts
                  \/ "addr" \in parts /\ (e.data \/ "data" \in parts)
                  \/ "data" \in parts /\ (e.addr \/ "addr" \in parts),
        !.addr = e.addr \/ "addr" \in parts,
        !.data = e.data \/ "data" \in parts,
        !.exc = IF violates THEN "replay" ELSE IF exc THEN "trap" ELSE e.exc,
        !.misp = e.misp \/ misp]

\* Entry i, found as e, after the writes of the cycle; faults is the sideband
\* exception of a translation that failed, which is not registered.
Written(i, e, faults) ==
    LET mine == {r \in wbr : r.idx = i}
        hit  == i \in faults
    IN  WriteBack(IF hit THEN [e EXCEPT !.ready = TRUE, !.exc = "trap"] ELSE e,
                  {r.part : r \in mine}, \E r \in mine : r.exc = "trap",
                  \E r \in mine : r.misp, i \in viol)

-----------------------------------------------------------------------------
\* The environment: what the execution units may report in a cycle.

Reported(i) == {r.part : r \in {x \in wbr : x.idx = i}}
                  \union (IF slot[i].addr THEN {"addr"} ELSE {})
                  \union (IF slot[i].data THEN {"data"} ELSE {})
                  \union (IF slot[i].ready /\ slot[i].kind # "store"
                             THEN {"result"} ELSE {})

Parts(k) == IF k = "store" THEN {"addr", "data"} ELSE {"result"}

Outstanding(i) == IF slot[i].exc = "trap" THEN {}
                  ELSE Parts(slot[i].kind) \ Reported(i)

\* The results that may carry an exception: of a misaligned load, a CSR access
\* without the right, a floating-point operation the unit does not have.
MayTrap == {"load", "csr", "alu"}

Possible ==
    {r \in Result :
        /\ r.idx \in InFlight /\ r.part \in Outstanding(r.idx)
        /\ r.exc = "trap" => slot[r.idx].kind \in MayTrap
        /\ r.misp => slot[r.idx].kind = "branch"}

\* One address and one data report a cycle, one result for each entry.
Reports ==
    {R \in UNION {kSubset(n, Possible) : n \in 0..Ports} :
        /\ \A q, r \in R : q.idx = r.idx /\ q.part = r.part => q = r
        /\ \A q, r \in R : q.part = r.part /\ q.part # "result" => q = r}

\* The younger loads that read memory before the store whose address is now
\* known, and the one the load queue reports: the oldest.
Contradicted(R) ==
    LET stores == {r.idx : r \in {x \in R : x.part = "addr"}}
    IN  {l \in InFlight : slot[l].kind = "load" /\ slot[l].exc # "replay"
                            /\ \E s \in stores : Age(l) > Age(s)}

\* Fault model: the load queue reports the youngest.
Youngest(V) == {l \in V : \A m \in V : Age(m) <= Age(l)}

Oldest(V) == {l \in V : \A m \in V : Age(l) <= Age(m)}

\* The sideband exception: a translation failed, for a load or an address.
Faults == {{}} \union {{i} : i \in {j \in InFlight :
                /\ slot[j].kind \in {"load", "store"}
                /\ Outstanding(j) \intersect {"addr", "result"} # {}}}

-----------------------------------------------------------------------------
AllocReady == RobDepth - count >= PipeWidth

Allocations ==
    UNION {[0..(n - 1) -> Kinds] :
              n \in IF AllocReady /\ ~refill THEN 0..PipeWidth ELSE {0}}

Committed(c) == {At(head, k) : k \in 0..(c - 1)}

\* The slots of an ordinary cycle, in the order of rob.sv: allocation, then
\* the writes, then the commit, which clears what it takes.
NextSlots(new, c, faults) ==
    LET alloc == [i \in Index |->
                    IF \E k \in DOMAIN new : i = At(tail, k)
                    THEN Fresh(new[CHOOSE k \in DOMAIN new : i = At(tail, k)])
                    ELSE slot[i]]
    IN  [i \in Index |-> IF i \in Committed(c) THEN Blank
                         ELSE Written(i, alloc[i], faults)]

\* R, V, faults: what execution reports in the cycle.
Execution(R, V, faults) ==
    /\ V \subseteq Contradicted(R)
    /\ \A i \in faults : \A r \in R : r.idx # i

Cycle(new, R, V, faults, drained) ==
    LET n == Cardinality(DOMAIN new)
        c == CommitCount(drained, FALSE)
    IN  /\ wbr' = R
        /\ tail' = At(tail, n)
        /\ ~CommitFlush(drained, FALSE)
        /\ Execution(R, V, faults)
        /\ viol' = Oldest(V)
        /\ head' = At(head, c)
        /\ count' = count + n - c
        /\ slot' = NextSlots(new, c, faults)
        /\ headroom' \in IF AllocReady THEN BOOLEAN ELSE {FALSE}
        /\ refill' = FALSE
        /\ retired' = c
        /\ stale' = (stale \union V) \ Committed(c)

FullFlush(drained, irq) ==
    /\ CommitFlush(drained, irq)
    /\ head' = 0 /\ tail' = 0 /\ count' = 0
    /\ slot' = [i \in Index |-> Blank]
    /\ wbr' = {} /\ viol' = {}
    /\ headroom' = FALSE /\ refill' = TRUE
    /\ retired' = CommitCount(drained, irq)
    /\ stale' = {}

\* Fault model: the range does not wrap.
ClearedUnwrapped(t) == {i \in Index : t <= i /\ i < tail}

\* rename_buf_partial_clear and rob_in_range: from the new tail to the old.
Cleared(t) ==
    IF t = tail THEN {}
    ELSE IF t < tail THEN t..(tail - 1)
    ELSE {i \in Index : i >= t \/ i < tail}

\* Fault model: a recovery does not ask for headroom (this is what the
\* configuration EXEC_PARTIAL_BRANCH_RECOVERY does).
CanRecoverWhenFull(b) == Selective /\ \E r \in wbr : r.idx = b /\ r.misp

\* A branch whose misprediction is in a writeback register recovers at once:
\* what is younger goes, it stays with its misprediction cleared.
CanRecover(b) == Selective /\ headroom /\ \E r \in wbr : r.idx = b /\ r.misp

\* The entries between the head and the new tail, counted modulo RobDepth.
RawCount(t, h) == IF t >= h THEN t - h ELSE RobDepth - h + t

PartialFlush(b, R, V, faults, drained) ==
    LET t == At(b, 1)
        gone == Cleared(t)
        c == CommitCount(drained, FALSE)
        h == At(head, c)
        fits == RawCount(t, h) <= count - c
    IN  /\ CanRecover(b) /\ ~CommitFlush(drained, FALSE)
        /\ Execution(R, V, faults) /\ faults \cap gone = {}
        /\ slot' = [i \in Index |->
                IF i \in Committed(c) \union gone THEN Blank
                ELSE IF i = b THEN [Written(i, slot[i], faults) EXCEPT !.misp = FALSE]
                ELSE Written(i, slot[i], faults)]
        /\ tail' = t
        /\ count' = IF fits THEN RawCount(t, h) ELSE 0
        /\ head' = IF fits THEN h ELSE t
        /\ wbr' = {r \in R : r.idx \notin gone}
        /\ viol' = Oldest(V)
        /\ headroom' = FALSE /\ refill' = TRUE
        /\ retired' = c
        /\ stale' = (stale \union V) \ (Committed(c) \union gone)

\* Whether the committed stores have drained: only a fence asks.
Drains == IF "fence" \in Kinds THEN BOOLEAN ELSE {TRUE}

Next ==
    \/ \E drained \in Drains :
          \E new \in Allocations, R \in Reports, faults \in Faults :
             \E V \in SUBSET Contradicted(R) : Cycle(new, R, V, faults, drained)
    \/ \E drained \in Drains, irq \in BOOLEAN : FullFlush(drained, irq)
    \/ \E drained \in Drains, b \in InFlight :
          \E R \in Reports, faults \in Faults :
             \E V \in SUBSET Contradicted(R) :
                PartialFlush(b, R, V, faults, drained)

Spec == Init /\ [][Next]_vars

-----------------------------------------------------------------------------
TypeOK ==
    /\ head \in Index /\ tail \in Index /\ count \in 0..RobDepth
    /\ slot \in [Index -> Entry]
    /\ wbr \subseteq Result /\ viol \subseteq Index /\ stale \subseteq Index
    /\ headroom \in BOOLEAN /\ refill \in BOOLEAN /\ retired \in 0..PipeWidth

\* The ring, the counter and the valid bits tell one story.
RingConsistent ==
    /\ tail = At(head, count)
    /\ \A i \in Index : slot[i].valid <=> i \in InFlight

\* The queue the ring stands for.  A result that sits in a writeback register
\* has been reported; a misprediction there is known.
Insn(i) ==
    [kind |-> slot[i].kind,
     work |-> IF slot[i].ready THEN {} ELSE Parts(slot[i].kind) \ Reported(i),
     exc |-> IF slot[i].exc = "none" /\ \E r \in wbr : r.idx = i /\ r.exc = "trap"
             THEN "trap" ELSE slot[i].exc,
     misp |-> slot[i].misp \/ \E r \in wbr : r.idx = i /\ r.misp]

Queue == [k \in 1..count |-> Insn(At(head, k - 1))]

Abs == INSTANCE AbsRob WITH q <- Queue

\* The reorder buffer behaves as a queue in program order: nothing retires
\* out of order, unfinished, twice or never, and a partial flush keeps every
\* instruction not younger than the branch.
IsQueue == Abs!Spec

\* A load that read memory before an older store to the same bytes had its
\* address never retires with what it read: by the time the store can retire,
\* the load is marked for replay, its own late writeback included.
StaleLoadsNeverRetire ==
    [][\A k \in 0..(retired' - 1) :
          At(head, k) \in stale => slot[At(head, k)].exc = "trap"]_vars

\* What is not younger than a branch that recovers is still there after it.
SurvivorsPreserved ==
    [][\A b \in Index :
          CanRecover(b) /\ refill' /\ slot'[b].valid =>
              \A i \in InFlight : Age(i) \in retired'..Age(b) => i \in InFlight']_vars

\* Execution ends for the oldest instruction, the stores drain, and the
\* front end does not hold the clock: infinitely often a cycle in which all
\* that the head still owes is reported, or was.
HeadServed ==
    /\ wbr' \in Reports
    /\ count > 0 => \A p \in Outstanding(head) :
                      \E r \in wbr' : r.idx = head /\ r.part = p
    /\ \E new \in Allocations, V \in SUBSET Contradicted(wbr'), faults \in Faults :
          Cycle(new, wbr', V, faults, TRUE)

FairSpec == Spec /\ WF_vars(HeadServed \/ FullFlush(TRUE, FALSE))

\* Whatever is at the head retires or is flushed.
HeadLeaves == count > 0 ~> (retired > 0 \/ count = 0)
=============================================================================
