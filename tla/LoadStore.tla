----------------------------- MODULE LoadStore -----------------------------
(***************************************************************************)
(* Loads and stores between dispatch and the data cache: the load queue    *)
(* (lsu/load_queue.sv), the store queue (lsu/store_queue.sv), the committed *)
(* store buffer (lsu/committed_store_buffer.sv) and the ordering and        *)
(* forwarding decisions of lsu/lsu.sv.                                      *)
(*                                                                         *)
(* The address half and the data half of a store issue on their own, in    *)
(* any order.  Two loads may issue in a cycle; each looks for its bytes in  *)
(* the store that issues in the same cycle, in the store queue, in the      *)
(* committed store buffer and in the cache, or is held back.  Issue is the  *)
(* part of a clock cycle in which those decisions meet; what else happens   *)
(* in a cycle reads and writes other state and is an action of its own.     *)
(* Only memory accesses have a place in the reorder buffer here.            *)
(***************************************************************************)
EXTENDS Integers, Sequences, FiniteSets, FiniteSetsExt

CONSTANTS Bytes,       \* byte addresses
          Layouts,     \* where the double words lie: the one of each byte
          Footprints,  \* the bytes an access may touch
          Vals,        \* what a store writes into each of its bytes
          RobDepth,    \* accesses in flight; they number modulo RobDepth
          SqDepth, CsbDepth,
          PartialFlush,  \* whether some flushes keep older instructions
          Overtaken    \* whether both halves of a store may issue in one cycle
                       \* when a younger store to the same bytes has its address

ASSUME LoadStoreAssumption ==
    /\ IsFiniteSet(Bytes) /\ Bytes \subseteq Int /\ \A d \in Layouts : DOMAIN d = Bytes
    /\ Footprints \subseteq SUBSET Bytes /\ {} \notin Footprints
    /\ Vals # {}
    /\ RobDepth \in Nat \ {0} /\ SqDepth \in Nat \ {0} /\ CsbDepth \in Nat \ {0}
    /\ PartialFlush \in BOOLEAN /\ Overtaken \in BOOLEAN

Tag == 0..(RobDepth - 1)     \* rob_idx
Buffered == [fp : Footprints, val : Vals]

VARIABLES dword, \* the layout
          head,  \* rob_head
          rob,   \* the accesses in flight, oldest first, with their data
          lq,    \* load queue, oldest first
          sq,    \* store queue, oldest first
          csb,   \* committed store buffer, oldest first
          cache  \* memory as the data cache shows it

vars == <<dword, head, rob, lq, sq, csb, cache>>

Init ==
    /\ dword \in Layouts
    /\ head = 0 /\ rob = <<>> /\ lq = <<>> /\ sq = <<>> /\ csb = <<>>
    /\ cache \in {[b \in Bytes |-> v] : v \in Vals}

-----------------------------------------------------------------------------
\* rob_age_from_head.
Age(tag) == (tag - head) % RobDepth

\* The place of an access in the reorder buffer.
Place(e) == Age(e.tag) + 1

\* Fault model: the number of a committed store still tells its age.
OlderByNumber(s, l) == Age(s.tag) < Age(l.tag)

\* A committed store has left the reorder buffer: its number is stale.
Older(s, l) == s.committed \/ Age(s.tag) < Age(l.tag)

Overlap(fp, g) == fp \cap g # {}
Crosses(fp) == \E b, c \in fp : dword[b] # dword[c]

\* Accesses that overlap where one crosses a double word are not forwarded.
CrossBlock(fp, g) == Overlap(fp, g) /\ (Crosses(fp) \/ Crosses(g))

\* The search of the entries K of a list of stores, oldest first: the youngest
\* wins each byte.
Writers(stores, K, b) == {i \in K : b \in stores[i].fp}
Covered(stores, K, fp) == {b \in fp : Writers(stores, K, b) # {}}
Hit(stores, K, fp) ==
    /\ Covered(stores, K, fp) = fp
    /\ \A i \in K : ~CrossBlock(stores[i].fp, fp)
Partial(stores, K, fp) == Covered(stores, K, fp) # {} /\ ~Hit(stores, K, fp)
Forward(stores, K, fp) == [b \in fp |-> stores[Max(Writers(stores, K, b))].val]

-----------------------------------------------------------------------------
\* The store queue as the loads of a cycle see it: with the address half A
\* and the data half D that issue in that cycle.
Filled(A, D) ==
    [i \in DOMAIN sq |-> [sq[i] EXCEPT !.addr = @ \/ i \in A, !.data = @ \/ i \in D]]

Ready(s) == s.addr /\ s.data

ReadyStores(q, l) == {i \in DOMAIN q : Older(q[i], l) /\ Ready(q[i])}

\* fwd_wait: a byte of the load may come from a store whose address or data
\* is missing, and no younger store that is ready covers it.
Uncovered(q, l, i) ==
    l.fp \ UNION {q[j].fp : j \in {k \in DOMAIN q :
                                      k > i /\ Older(q[k], l) /\ Ready(q[k])}}

SqWait(q, l) ==
    \E i \in DOMAIN q :
        /\ Older(q[i], l) /\ ~Ready(q[i])
        /\ Overlap(Uncovered(q, l, i), IF q[i].addr THEN q[i].fp ELSE l.fp)

SqCrossBlock(q, l) ==
    \E i \in DOMAIN q : Older(q[i], l) /\ q[i].addr /\ CrossBlock(q[i].fp, l.fp)

SqHit(q, l) == Hit(q, ReadyStores(q, l), l.fp) /\ ~SqCrossBlock(q, l)
SqPartial(q, l) ==
    \/ SqCrossBlock(q, l)
    \/ Covered(q, ReadyStores(q, l), l.fp) # {} /\ ~SqHit(q, l)

\* Fault model: the store queue does not look whether there is room.
DrainsRegardless == sq # <<>> /\ Head(sq).committed /\ Ready(Head(sq))

\* drain_valid and enq_ready: the head of the store queue moves this cycle.
Drains == /\ sq # <<>> /\ Head(sq).committed /\ Ready(Head(sq))
          /\ Len(csb) < CsbDepth

\* The committed stores a load sees, with the one that moves as the youngest.
Moved == IF Drains THEN <<[fp |-> Head(sq).fp, val |-> Head(sq).val]>> ELSE <<>>
CsbView == csb \o Moved
AfterDrain(q) == IF Drains THEN Tail(q) ELSE q

-----------------------------------------------------------------------------
\* same_cycle_fwd_hit: both halves of one older store issue with the load.
SameCycleHit(A, D, l) ==
    \E i \in A \cap D : /\ Age(sq[i].tag) < Age(l.tag)
                        /\ l.fp \subseteq sq[i].fp
                        /\ ~Crosses(sq[i].fp)

StaOverlap(A, l) ==
    \E i \in A : Age(sq[i].tag) < Age(l.tag) /\ Overlap(sq[i].fp, l.fp)

SameCycleWait(port, A, D, l) ==
    StaOverlap(A, l) /\ ~(port = 0 /\ SameCycleHit(A, D, l))

\* store_iq_older_than_load: an older address half waits in its issue queue
\* and does not issue now.
StoreIqOlder(A, l) ==
    \E i \in DOMAIN sq \ A : ~sq[i].addr /\ Age(sq[i].tag) < Age(l.tag)

\* load_issue_suppress.
Suppressed(port, A, D, q, l) ==
    \/ StoreIqOlder(A, l)
    \/ SqWait(q, l) \/ SqPartial(q, l)
    \/ Partial(Moved, DOMAIN Moved, l.fp) \/ Partial(CsbView, DOMAIN CsbView, l.fp)
    \/ SameCycleWait(port, A, D, l)

\* The data of a load that issues: forwarded in the order of lsu.sv, or none
\* yet, when the load goes to the cache.
ForwardedData(port, A, D, q, l) ==
    IF port = 0 /\ SameCycleHit(A, D, l)
    THEN [b \in l.fp |-> sq[CHOOSE i \in A : TRUE].val]
    ELSE IF SqHit(q, l) THEN Forward(q, ReadyStores(q, l), l.fp)
    ELSE IF Hit(CsbView, DOMAIN CsbView, l.fp)
    THEN Forward(CsbView, DOMAIN CsbView, l.fp)
    ELSE <<>>

\* The bytes of an access in the double word it begins in.
Lane(fp) == {b \in fp : dword[b] = dword[Min(fp)]}

\* ordering_violation: the younger loads that have issued and share bytes
\* with a store whose address comes now.
Violations(A) ==
    {k \in DOMAIN lq : /\ lq[k].executed
                       /\ \E i \in A : /\ Age(lq[k].tag) > Age(sq[i].tag)
                                       /\ Overlap(Lane(lq[k].fp), Lane(sq[i].fp))}

Oldest(K) == {k \in K : \A m \in K : k <= m}

-----------------------------------------------------------------------------
\* Dispatch of one access; a load enters the load queue, a store the store
\* queue, at their ends.
NextTag == (head + Len(rob)) % RobDepth

DispatchLoad(fp) ==
    /\ Len(rob) < RobDepth
    /\ rob' = Append(rob, [kind |-> "load", fp |-> fp, data |-> <<>>])
    /\ lq' = Append(lq, [tag |-> NextTag, fp |-> fp, executed |-> FALSE,
                         replay |-> FALSE])
    /\ UNCHANGED <<dword, head, sq, csb, cache>>

DispatchStore(fp, v) ==
    /\ Len(rob) < RobDepth /\ Len(sq) < SqDepth
    /\ rob' = Append(rob, [kind |-> "store", fp |-> fp, data |-> [b \in fp |-> v]])
    /\ sq' = Append(sq, [tag |-> NextTag, fp |-> fp, val |-> v, addr |-> FALSE,
                         data |-> FALSE, committed |-> FALSE])
    /\ UNCHANGED <<dword, head, lq, csb, cache>>

\* At most one address half and one data half issue in a cycle.
AddrIssues == {{}} \union {{i} : i \in {j \in DOMAIN sq : ~sq[j].addr}}
DataIssues == {{}} \union {{i} : i \in {j \in DOMAIN sq : ~sq[j].data}}

\* A younger store to bytes of store i has its address already.
IsOvertaken(i) ==
    \E j \in DOMAIN sq : j > i /\ sq[j].addr /\ Overlap(sq[j].fp, sq[i].fp)

\* The loads the load issue queue offers: the oldest ready one on port 0.
Waiting == {k \in DOMAIN lq : ~lq[k].executed}
Offers == {<<>>} \union {<<k>> : k \in Waiting}
             \union {o \in Waiting \X Waiting : o[1] < o[2]}

\* The last load of an offer is taken: refused, the offer is a shorter one.
Issue(A, D, offer) ==
    LET q == Filled(A, D)
        accepted == {p \in DOMAIN offer : ~Suppressed(p - 1, A, D, q, lq[offer[p]])}
        fires == {offer[p] : p \in accepted}
        late == Oldest(Violations(A))
    IN  /\ offer # <<>> => Len(offer) \in accepted
        /\ ~Overtaken => \A i \in A \cap D : ~IsOvertaken(i)
        /\ lq' = [k \in DOMAIN lq |->
                    [lq[k] EXCEPT !.executed = @ \/ k \in fires,
                                  !.replay = @ \/ k \in late]]
        /\ rob' = [r \in DOMAIN rob |->
                    IF \E p \in accepted : Place(lq[offer[p]]) = r
                    THEN LET p == CHOOSE p \in accepted : Place(lq[offer[p]]) = r
                         IN  [rob[r] EXCEPT !.data =
                                ForwardedData(p - 1, A, D, q, lq[offer[p]])]
                    ELSE rob[r]]
        /\ sq' = AfterDrain(q)
        /\ csb' = CsbView
        /\ UNCHANGED <<dword, head, cache>>

\* The cache answers a load it was left.
Respond(k) ==
    /\ lq[k].executed /\ rob[Place(lq[k])].data = <<>>
    /\ rob' = [rob EXCEPT ![Place(lq[k])].data = [b \in lq[k].fp |-> cache[b]]]
    /\ UNCHANGED <<dword, head, lq, sq, csb, cache>>

\* The cache takes the oldest committed store.
Ack ==
    /\ csb # <<>>
    /\ cache' = [b \in Bytes |-> IF b \in Head(csb).fp THEN Head(csb).val ELSE cache[b]]
    /\ csb' = Tail(csb)
    /\ UNCHANGED <<dword, head, rob, lq, sq>>

-----------------------------------------------------------------------------
\* commit_ptr_r: the first store that has not committed.
CommitPtr == Min({i \in DOMAIN sq : ~sq[i].committed} \union {Len(sq) + 1})

Retirable ==
    /\ rob # <<>>
    /\ IF Head(rob).kind = "load" THEN Head(rob).data # <<>> /\ ~Head(lq).replay
                                  ELSE Ready(sq[CommitPtr])

\* Fault model: a commit marks the head of the queue, committed or not.
NewlyCommittedAtHead(c) == IF c = 1 /\ Head(rob).kind = "store" THEN {1} ELSE {}

\* The stores that commit when c accesses retire.
NewlyCommitted(c) == IF c = 1 /\ Head(rob).kind = "store" THEN {CommitPtr} ELSE {}

Marked(q, c) ==
    [i \in DOMAIN q |-> [q[i] EXCEPT !.committed = @ \/ i \in NewlyCommitted(c)]]

LoadsLeft(c) == IF c = 1 /\ Head(rob).kind = "load" THEN Tail(lq) ELSE lq

Commit ==
    /\ Retirable
    /\ head' = (head + 1) % RobDepth
    /\ rob' = Tail(rob)
    /\ lq' = LoadsLeft(1)
    /\ sq' = Marked(sq, 1)
    /\ UNCHANGED <<dword, csb, cache>>

\* The tail after a flush: as many entries stay, from the oldest on, as the
\* keep bits K count.
Kept(q, K) == SubSeq(q, 1, Cardinality(K))

\* flush_full: everything goes but the stores that have committed, this
\* cycle's included; the halves that issue now are lost.
FullFlush(c) ==
    LET stores == AfterDrain(Marked(sq, c))
    IN  /\ c = 1 => Retirable
        /\ head' = 0 /\ rob' = <<>> /\ lq' = <<>>
        /\ sq' = Kept(stores, {i \in DOMAIN stores : stores[i].committed})
        /\ csb' = CsbView
        /\ UNCHANGED <<dword, cache>>

\* Entries as young as age cut go, at least one; the halves that issue now
\* reach the others, and are lost with the rest; loads do not issue.
PartialFlushAt(cut, c, A, D) ==
    LET loads == LoadsLeft(c)
        stores == AfterDrain(Marked(Filled(A, D), c))
    IN  /\ PartialFlush
        /\ c = 1 => Retirable
        /\ cut \in c..(Len(rob) - 1)
        /\ \A i \in A \union D : sq[i].committed \/ Age(sq[i].tag) < cut
        /\ head' = (head + c) % RobDepth
        /\ rob' = SubSeq(rob, c + 1, cut)
        /\ lq' = Kept(loads, {k \in DOMAIN loads : Age(loads[k].tag) < cut})
        /\ sq' = Kept(stores, {i \in DOMAIN stores : stores[i].committed
                                                   \/ Age(stores[i].tag) < cut})
        /\ csb' = CsbView
        /\ UNCHANGED <<dword, cache>>

Dispatch == \/ \E fp \in Footprints : DispatchLoad(fp)
            \/ \E fp \in Footprints, v \in Vals : DispatchStore(fp, v)

Next ==
    \/ Dispatch
    \/ \E A \in AddrIssues, D \in DataIssues, offer \in Offers : Issue(A, D, offer)
    \/ \E k \in DOMAIN lq : Respond(k)
    \/ Ack
    \/ Commit
    \/ \E c \in {0, 1} : FullFlush(c)
    \/ \E cut \in 0..RobDepth, c \in {0, 1}, A \in AddrIssues, D \in DataIssues :
          PartialFlushAt(cut, c, A, D)

Spec == Init /\ [][Next]_vars

-----------------------------------------------------------------------------
Access == [kind : {"load", "store"}, fp : Footprints,
           data : UNION {[fp -> Vals] : fp \in Footprints \union {{}}}]
LoadEntry == [tag : Tag, fp : Footprints, executed : BOOLEAN, replay : BOOLEAN]
StoreEntry == [tag : Tag, fp : Footprints, val : Vals,
               addr : BOOLEAN, data : BOOLEAN, committed : BOOLEAN]

TypeOK ==
    /\ dword \in Layouts /\ head \in Tag
    /\ rob \in Seq(Access) /\ Len(rob) <= RobDepth
    /\ lq \in Seq(LoadEntry) /\ sq \in Seq(StoreEntry) /\ csb \in Seq(Buffered)
    /\ Len(sq) <= SqDepth /\ Len(csb) <= CsbDepth
    /\ cache \in [Bytes -> Vals]

\* What byte b is when of the store queue only the stores K count: what the
\* youngest that writes it wrote, the committed stores and memory behind them.
Latest(K, b) ==
    LET queued   == Writers(sq, K, b)
        buffered == Writers(csb, DOMAIN csb, b)
    IN  IF queued # {} THEN sq[Max(queued)].val
        ELSE IF buffered # {} THEN csb[Max(buffered)].val
        ELSE cache[b]

\* The stores older than load l in program order, whether or not their
\* address is known.
Before(l) == {i \in DOMAIN sq : Older(sq[i], l)}

\* A load that has its data has, of each byte, what the youngest older store
\* wrote ("youngest wins"), from wherever it came and whatever was flushed
\* or drained since.
ForwardsYoungest ==
    \A k \in DOMAIN lq :
        LET data == rob[Place(lq[k])].data
        IN  data # <<>> => \A b \in lq[k].fp : data[b] = Latest(Before(lq[k]), b)

\* Memory as retired stores left it.
Memory == [b \in Bytes |-> Latest({i \in DOMAIN sq : sq[i].committed}, b)]

\* Loads and stores apply to one memory in program order: no store that has
\* committed is lost, applied twice or out of order, whatever is flushed.
Abstract == INSTANCE AbsMemory WITH q <- rob, mem <- Memory
IsMemory == Abstract!Spec
=============================================================================
