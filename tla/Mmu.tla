-------------------------------- MODULE Mmu --------------------------------
(***************************************************************************)
(* Address translation: the data and instruction TLBs (mmu/dtlb.sv,        *)
(* mmu/itlb.sv), the page table walker they share (mmu/ptw.sv), and what   *)
(* rv64gc_core_top.sv and lsu.sv put around them: the port of the data     *)
(* TLB, the owner of a walk, the faults that reach the reorder buffer, the *)
(* invalidation by SFENCE.VMA and by writes of satp.                       *)
(*                                                                         *)
(* A step is one clock cycle.  Memory holds a leaf entry for each page; a  *)
(* walk reads a pointer or the leaf at each level.  The version of an      *)
(* entry's content counts the writes of software; the hardware writes back *)
(* the whole entry it has read, with its accessed and dirty bits set.      *)
(***************************************************************************)
EXTENDS Integers, Sequences, FiniteSets, FiniteSetsExt

CONSTANTS Pages,       \* pages, each with its leaf entry in memory
          Canonical,   \* those whose address is canonical
          Contents,    \* what software writes into an entry, as PTE but ver
          Ways,        \* DEPTH of the data TLB; the other has one entry
          TopLevel,    \* the level a walk starts at
          Window,      \* instructions that translate, in program order
          PartialFlush,  \* whether some flushes keep older instructions
          MaxWrites    \* bound on the writes of software

Kind == {"bad", "ro", "rw"}      \* faults in a walk; readable; writable too

ASSUME MmuAssumption ==
    /\ Pages # {} /\ IsFiniteSet(Pages) /\ Canonical \subseteq Pages
    /\ Contents \subseteq [kind : Kind, a : BOOLEAN, d : BOOLEAN] /\ Contents # {}
    /\ Ways \in Nat \ {0} /\ TopLevel \in Nat /\ Window \in Nat \ {0}
    /\ PartialFlush \in BOOLEAN /\ MaxWrites \in Nat

Idx == 0..(Window - 1)
Version == 0..MaxWrites
PTE == [ver : Version, kind : Kind, a : BOOLEAN, d : BOOLEAN]
Entry == [valid : BOOLEAN, page : Pages, ver : Version, kind : Kind, d : BOOLEAN]
Request == [idx : Idx, page : Pages, store : BOOLEAN]
Write == [page : Pages, pte : PTE]

VARIABLES mem,          \* the leaf entries in memory
          writes,       \* history: writes of software to each entry
          fenced,       \* history: those a fence has ordered
          dtlb, dNext,  \* data TLB, rr_ptr_r
          itlb,         \* instruction TLB
          want,         \* loads and stores that look for a translation
          done,         \* those of the window that have an answer
          state, walk, pte,  \* state_r, walk_*_r, pte_r
          wb,           \* ad_wb_*_r: {} or the write and whether a fill follows
          pend,         \* dirty_wb_*_r: {} or the write that waits
          stale,        \* stale_resp_pending_r
          bus,          \* reads of the walker the L2 has accepted
          late,         \* a write the data cache had latched when a flush came
          owner,        \* ptw_data_owner_*_r
          exc           \* output: the fault reported in the cycle just ended

vars == <<mem, writes, fenced, dtlb, dNext, itlb, want, done, state, walk, pte,
          wb, pend, stale, bus, late, owner, exc>>

AnyPage == CHOOSE p \in Pages : TRUE
Invalid == [valid |-> FALSE, page |-> AnyPage, ver |-> 0, kind |-> "bad", d |-> FALSE]
NoWalk == [page |-> AnyPage, store |-> FALSE, fetch |-> FALSE, idx |-> 0, level |-> 0]
NoPte == [ver |-> 0, kind |-> "bad", a |-> FALSE, d |-> FALSE]

Content(c, v) == [ver |-> v, kind |-> c.kind, a |-> c.a, d |-> c.d]

Init ==
    /\ mem \in [Pages -> {Content(c, 0) : c \in Contents}]
    /\ writes = [p \in Pages |-> 0] /\ fenced = [p \in Pages |-> 0]
    /\ dtlb = [k \in 0..(Ways - 1) |-> Invalid] /\ dNext = 0
    /\ itlb = Invalid
    /\ want = {} /\ done = {}
    /\ state = "idle" /\ walk = NoWalk /\ pte = NoPte
    /\ wb = {} /\ pend = {} /\ stale = FALSE /\ bus = <<>> /\ late = {}
    /\ owner = {} /\ exc = {}

-----------------------------------------------------------------------------
\* What takes the cycle away: nothing, a full flush, a fence (SFENCE.VMA or a
\* write of satp, with its full flush), or a flush of entries cut and younger.
Events == {[name |-> n, cut |-> 0] : n \in {"none", "flush", "fence"}}
          \union (IF PartialFlush THEN {[name |-> "partial", cut |-> c] : c \in Idx}
                  ELSE {})

Quiet(ev) == ev.name = "none"

\* Entry i of the reorder buffer goes: full_flush, rename_buf_partial_clear.
Flushes(ev, i) == ~Quiet(ev) /\ i >= ev.cut

\* Fault model: a flush kills no report, only a fence does.
KillsAtFence(ev, i) == ev.name = "fence"

\* ptw_data_owner_killed_c, ptw_data_fault_killed.
Kills(ev, i) == Flushes(ev, i)

\* The lookup of the data TLB: the oldest request, in a cycle with no flush.
Lookup(ev) == IF Quiet(ev) THEN {r \in want : \A q \in want : r.idx <= q.idx} ELSE {}

Match(r) == {k \in DOMAIN dtlb : dtlb[k].valid /\ dtlb[k].page = r.page}
Found(r) == dtlb[Min(Match(r))]
Denied(r) == Match(r) # {} /\ r.store /\ Found(r).kind # "rw"
NeedsUpgrade(r) == Match(r) # {} /\ r.store /\ ~Found(r).d /\ ~Denied(r)

\* Fault model: the walker is not asked whether it can take the dirty write.
UpgradesAtOnce(r) == NeedsUpgrade(r)

\* dirty_upgrade_now: the walker keeps one dirty write.
Upgrades(r) == NeedsUpgrade(r) /\ pend = {}

Hits(r) == Match(r) # {} /\ ~Denied(r) /\ (NeedsUpgrade(r) => Upgrades(r))
Misses(r) == ~Hits(r) /\ ~Denied(r)

-----------------------------------------------------------------------------
\* The TLBs.

FillEntry == [valid |-> TRUE, page |-> walk.page, ver |-> pte.ver,
              kind |-> pte.kind, d |-> pte.d]
Fills(fetch) == state = "fill" /\ walk.fetch = fetch

\* Fault model: a fill is not held back by an invalidation.
FilledDespiteFence(tlb, k, fill, ev) ==
    LET left == IF ev.name = "fence" THEN [j \in DOMAIN tlb |-> Invalid] ELSE tlb
    IN  IF fill THEN [left EXCEPT ![k] = FillEntry] ELSE left

\* inv_all_i wins over a fill of the same cycle.
Filled(tlb, k, fill, ev) ==
    IF ev.name = "fence" THEN [j \in DOMAIN tlb |-> Invalid]
    ELSE IF fill THEN [tlb EXCEPT ![k] = FillEntry]
    ELSE tlb

\* The dirty bit is set in the way that matched, after the fill of the cycle.
DtlbNext(ev) ==
    LET next == Filled(dtlb, dNext, Fills(FALSE), ev)
        up   == {Min(Match(r)) : r \in {q \in Lookup(ev) : Upgrades(q)}}
    IN  /\ dtlb' = [k \in DOMAIN next |->
                       IF k \in up THEN [next[k] EXCEPT !.d = TRUE] ELSE next[k]]
        /\ dNext' = IF Fills(FALSE) /\ ev.name # "fence"
                    THEN (dNext + 1) % Ways ELSE dNext

ItlbNext(ev) == itlb' = Filled([k \in {0} |-> itlb], 0, Fills(TRUE), ev)[0]

DirtyWrite(r) ==
    [page |-> r.page, pte |-> [ver |-> Found(r).ver, kind |-> Found(r).kind,
                               a |-> TRUE, d |-> TRUE]]

-----------------------------------------------------------------------------
\* The walker.  A request of the data TLB goes before one of the fetch unit.

Misser(ev) == {r \in Lookup(ev) : Misses(r)}

Accepts(ev) == state = "idle" /\ Quiet(ev) /\ ~stale /\ pend = {}

Walks(ev, fetch) ==
    IF Misser(ev) # {}
    THEN {[page |-> r.page, store |-> r.store, fetch |-> FALSE, idx |-> r.idx,
           level |-> TopLevel] : r \in Misser(ev)}
    ELSE {[page |-> p, store |-> FALSE, fetch |-> TRUE, idx |-> 0,
           level |-> TopLevel] : p \in fetch}

\* Fault model: a walk starts before the answer to a killed one has come.
StartDespiteStale(ev, fetch) ==
    /\ state = "idle" /\ walk' \in Walks(ev, fetch) /\ state' = "req"
    /\ UNCHANGED <<pte, wb>>

Start(ev, fetch) ==
    /\ state = "idle"
    /\ UNCHANGED pte
    /\ IF stale \/ (pend = {} /\ Walks(ev, fetch) = {})
       THEN UNCHANGED <<state, walk, wb>>
       ELSE IF pend # {}
       THEN /\ wb' = {[write |-> w, fill |-> FALSE] : w \in pend}
            /\ state' = "writeback"
            /\ UNCHANGED walk
       ELSE /\ walk' \in Walks(ev, fetch)
            /\ state' = IF walk'.page \in Canonical THEN "req" ELSE "fault"
            /\ UNCHANGED wb

Ask(acc) ==
    /\ state = "req"
    /\ state' = IF acc THEN "wait" ELSE "req"
    /\ UNCHANGED <<walk, pte, wb>>

\* pte_fill_c
WithAD(p) == [p EXCEPT !.a = TRUE, !.d = @ \/ walk.store]

\* A response: a pointer to the next level, or an entry that ends the walk.
Answer(rsp) ==
    /\ state = "wait"
    /\ \/ /\ ~rsp
          /\ UNCHANGED <<state, walk, pte, wb>>
       \/ /\ rsp /\ walk.level > 0
          /\ state' = "req"
          /\ walk' = [walk EXCEPT !.level = @ - 1]
          /\ UNCHANGED <<pte, wb>>
       \/ /\ rsp
          /\ \E p \in Head(bus).seen :
                /\ pte' = WithAD(p)
                /\ state' = IF p.kind = "bad" THEN "fault"
                            ELSE IF WithAD(p) # p THEN "writeback" ELSE "fill"
                /\ wb' = IF state' = "writeback"
                         THEN {[write |-> [page |-> walk.page, pte |-> WithAD(p)],
                                fill |-> TRUE]}
                         ELSE wb
          /\ UNCHANGED walk

Store(ack) ==
    /\ state = "writeback"
    /\ IF ack
       THEN /\ state' = IF \E w \in wb : w.fill THEN "fill" ELSE "idle"
            /\ wb' = {}
       ELSE UNCHANGED <<state, wb>>
    /\ UNCHANGED <<walk, pte>>

End ==
    /\ state \in {"fill", "fault"}
    /\ state' = "idle" /\ walk' = NoWalk /\ pte' = NoPte
    /\ UNCHANGED wb

Kill == state' = "idle" /\ walk' = NoWalk /\ pte' = NoPte /\ wb' = {}

Walker(ev, fetch, acc, rsp, ack) ==
    IF Quiet(ev)
    THEN Start(ev, fetch) \/ Ask(acc) \/ Answer(rsp) \/ Store(ack) \/ End
    ELSE Kill

\* Fault model: a response in the cycle of the flush is expected once more.
StaleNextLate(ev, acc, rsp) ==
    IF ~Quiet(ev) /\ (state = "wait" \/ acc) THEN TRUE
    ELSE stale /\ ~rsp

\* A killed read must still be answered before the next is asked.
StaleNext(ev, acc, rsp) ==
    IF ~Quiet(ev) /\ (state = "wait" \/ acc) /\ ~rsp THEN TRUE
    ELSE stale /\ ~rsp

\* dirty_wb_pending_r: set by an upgrade; a flush in the cycle of the
\* acknowledgement leaves it set.
PendNext(ev, ack) ==
    IF pend = {} THEN {DirtyWrite(r) : r \in {q \in Lookup(ev) : Upgrades(q)}}
    ELSE IF ack /\ Quiet(ev) /\ \E w \in wb : ~w.fill THEN {}
    ELSE pend

-----------------------------------------------------------------------------
\* Faults.

WalkFaults(ev) ==
    IF state = "fault" /\ ~walk.fetch /\ owner = {walk.idx} /\ ~Kills(ev, walk.idx)
    THEN {[idx |-> walk.idx, page |-> walk.page, store |-> walk.store]} ELSE {}

\* rob_sideband_exc: the walker's fault first; the other is met again.
Reported(ev) ==
    IF WalkFaults(ev) # {} THEN WalkFaults(ev)
    ELSE {r \in Lookup(ev) : Denied(r)}

OwnerNext(ev) ==
    IF ev.name \in {"flush", "fence"} \/ (\E i \in owner : Kills(ev, i)) THEN {}
    ELSE IF WalkFaults(ev) # {} \/ Fills(FALSE) THEN {}
    ELSE IF Accepts(ev) /\ Misser(ev) # {} THEN {r.idx : r \in Misser(ev)}
    ELSE owner

-----------------------------------------------------------------------------
\* The loads and stores: an instruction looks its address up until it hits,
\* faults or is flushed.  The window moves on when all of it has an answer.

Finished == IF done = Idx THEN {} ELSE done

Arrivals(ev) ==
    {{}} \union (IF Quiet(ev)
                 THEN {{r} : r \in {q \in Request :
                          q.idx \notin Finished \union {w.idx : w \in want}}}
                 ELSE {})

Answered(ev) == {r \in Lookup(ev) : Hits(r)} \union (Reported(ev) \cap want)

Instructions(ev, new) ==
    LET answered == Finished \union {r.idx : r \in Answered(ev)}
    IN  /\ want' = {r \in want \ Answered(ev) : ~Flushes(ev, r.idx)} \union new
        /\ done' = {i \in answered : ~Flushes(ev, i)}

\* The write port of the data cache: the walker's write that is acknowledged,
\* the one that was latched when a flush came, or a store of software.
Memory(ev, ack, sw) ==
    LET hw == (IF ack THEN {w.write : w \in wb} ELSE {}) \union late
    IN  /\ mem' = [p \in Pages |->
                     IF \E w \in hw : w.page = p
                     THEN (CHOOSE w \in hw : w.page = p).pte
                     ELSE IF \E s \in sw : s.page = p
                     THEN (CHOOSE s \in sw : s.page = p).pte
                     ELSE mem[p]]
        /\ writes' = [p \in Pages |-> writes[p] + Cardinality({s \in sw : s.page = p})]
        /\ late' \in IF ~Quiet(ev) /\ state = "writeback" /\ ~ack
                     THEN {{}, {w.write : w \in wb}} ELSE {{}}

SoftwareWrites(ev) ==
    {{}} \union
    (IF ev.name # "fence" /\ state # "writeback" /\ late = {}
     THEN {{[page |-> p, pte |-> Content(c, writes[p] + 1)]} :
              p \in {q \in Pages : writes[q] < MaxWrites}, c \in Contents}
     ELSE {})

\* The L2 takes a read and answers it, with any content the entry had between.
Reads(acc, rsp) ==
    LET rest == IF rsp THEN Tail(bus) ELSE bus
        all  == IF acc THEN Append(rest, [page |-> walk.page, seen |-> {}]) ELSE rest
    IN  bus' = [i \in DOMAIN all |->
                   [all[i] EXCEPT !.seen = @ \union {mem[all[i].page],
                                                     mem'[all[i].page]}]]

Step(ev, fetch, acc, rsp, ack, sw, new) ==
    /\ acc => state = "req"
    /\ rsp => bus # <<>>
    /\ ack => state = "writeback"
    /\ Walker(ev, fetch, acc, rsp, ack)
    /\ DtlbNext(ev) /\ ItlbNext(ev)
    /\ stale' = StaleNext(ev, acc, rsp)
    /\ pend' = PendNext(ev, ack)
    /\ owner' = OwnerNext(ev)
    /\ exc' = Reported(ev)
    /\ Instructions(ev, new)
    /\ Memory(ev, ack, sw)
    /\ Reads(acc, rsp)
    /\ fenced' = IF ev.name = "fence" THEN writes ELSE fenced

Fetches == {{}} \union (IF itlb.valid THEN {{p} : p \in Pages \ {itlb.page}}
                        ELSE {{p} : p \in Pages})

Next ==
    \E ev \in Events, fetch \in Fetches, acc, rsp, ack \in BOOLEAN :
       \E sw \in SoftwareWrites(ev), new \in Arrivals(ev) :
          Step(ev, fetch, acc, rsp, ack, sw, new)

Spec == Init /\ [][Next]_vars

\* The L2 and the data cache answer: again and again a cycle in which what
\* they are asked is done.
Served ==
    \E fetch \in Fetches, new \in Arrivals([name |-> "none", cut |-> 0]) :
        Step([name |-> "none", cut |-> 0], fetch, state = "req", bus # <<>>,
             state = "writeback", {}, new)

FairSpec == Spec /\ WF_vars(Served)

-----------------------------------------------------------------------------
TypeOK ==
    /\ mem \in [Pages -> PTE]
    /\ writes \in [Pages -> Version] /\ fenced \in [Pages -> Version]
    /\ dtlb \in [0..(Ways - 1) -> Entry] /\ dNext \in 0..(Ways - 1)
    /\ itlb \in Entry
    /\ want \subseteq Request /\ done \subseteq Idx
    /\ state \in {"idle", "req", "wait", "writeback", "fill", "fault"}
    /\ walk \in [page : Pages, store : BOOLEAN, fetch : BOOLEAN, idx : Idx,
                 level : 0..TopLevel]
    /\ pte \in PTE
    /\ wb \subseteq [write : Write, fill : BOOLEAN] /\ pend \subseteq Write
    /\ stale \in BOOLEAN /\ late \subseteq Write
    /\ bus \in Seq([page : Pages, seen : SUBSET PTE]) /\ Len(bus) <= 1
    /\ owner \subseteq Idx /\ exc \subseteq Request

\* What a fence orders: no translation that was read from an entry before
\* software changed it is used once a fence has come after the change.
TranslationsFollowFences ==
    \A e \in {dtlb[k] : k \in DOMAIN dtlb} \union {itlb} :
        e.valid => e.ver >= fenced[e.page]

\* A page the data TLB takes for dirty is dirty in memory, or the write that
\* says so is on its way, or software has changed the entry since.
DirtyIsRecorded ==
    \A e \in {dtlb[k] : k \in DOMAIN dtlb} :
        e.valid /\ e.d =>
            \/ mem[e.page].d \/ writes[e.page] > e.ver
            \/ \E w \in pend \union late : w.page = e.page /\ w.pte.d

\* A fault is reported to the load or store that asked, and only while that
\* instruction is in the reorder buffer and stays in it.
FaultsReachTheirOwner ==
    [][\A r \in exc' : r \in want /\ r.idx \in done']_vars

\* A load or store that looks for a translation gets it, faults, or is flushed.
RequestsAnswered ==
    \A i \in Idx : (\E r \in want : r.idx = i) ~> (\A r \in want : r.idx # i)
=============================================================================
