----------------------------- MODULE Mmu_proofs -----------------------------
(***************************************************************************)
(* Theorems about address translation, for any pages, contents, ways and   *)
(* levels.                                                                 *)
(***************************************************************************)
EXTENDS Mmu, Extremes_proofs, SequenceTheorems, FiniteSetTheorems

\* The walker has at most one read that is not answered: that of a walk that
\* waits, or that of a walk that was killed.
OneRead ==
    /\ stale => state = "idle"
    /\ Len(bus) = IF state = "wait" \/ stale THEN 1 ELSE 0
    /\ state = "wait" => bus[1].page = walk.page

\* What the walker writes is the entry of its walk or the dirty write that
\* waits; a write it had to leave is seen while it is idle.
WritesFit ==
    /\ state = "writeback" <=> wb # {}
    /\ \/ wb = {}
       \/ wb = {[write |-> w, fill |-> FALSE] : w \in pend}
       \/ wb = {[write |-> [page |-> walk.page, pte |-> pte], fill |-> TRUE]}
    /\ late # {} => state = "idle"
    /\ \A w \in pend : w.pte.d

WalkInv == TypeOK /\ OneRead /\ WritesFit

-----------------------------------------------------------------------------
\* The first way that matches is one that matches.
LEMMA MinIs ==
  ASSUME NEW n \in Nat, NEW S \in SUBSET (0..n), S # {}
  PROVE Min(S) \in S
<1> DEFINE T == {k \in 1..(n + 1) : k - 1 \in S}
<1>1. \A j \in S : j \in 0..n /\ j + 1 \in T
  OBVIOUS
<1>2. T \in SUBSET (1..(n + 1)) /\ T # {} /\ n + 1 \in Nat
  <2>1. PICK j \in S : TRUE
    OBVIOUS
  <2>2. j + 1 \in T
    BY <1>1
  <2>3. T \in SUBSET (1..(n + 1)) /\ n + 1 \in Nat
    OBVIOUS
  <2> HIDE DEF T
  <2> QED BY <2>2, <2>3
<1>3. PICK k \in T : \A j \in T : k <= j
  <2> HIDE DEF T
  <2> QED BY <1>2, MinExists
<1>4. k - 1 \in S /\ k \in Int
  OBVIOUS
<1>5. \A j \in S : k - 1 =< j
  <2> TAKE j \in S
  <2>1. k <= j + 1 /\ j \in 0..n
    BY <1>1, <1>3
  <2> QED BY <2>1, <1>4
<1>6. \E x \in S : \A y \in S : x =< y
  BY <1>4, <1>5
<1> HIDE DEF T
<1> QED BY <1>6 DEF Min

\* What the lookup finds is a valid entry for the page.
LEMMA FoundIs ==
  ASSUME dtlb \in [0..(Ways - 1) -> Entry], NEW r, Match(r) # {}
  PROVE /\ Min(Match(r)) \in 0..(Ways - 1)
        /\ Found(r) = dtlb[Min(Match(r))]
        /\ Found(r) \in Entry /\ Found(r).valid /\ Found(r).page = r.page
<1>1. Ways - 1 \in Nat /\ Match(r) \in SUBSET (0..(Ways - 1))
  BY MmuAssumption DEF Match
<1>2. Min(Match(r)) \in Match(r)
  BY <1>1, MinIs
<1> QED BY <1>1, <1>2 DEF Match, Found

-----------------------------------------------------------------------------
\* What a TLB is filled with, or has after an invalidation.
LEMMA EntriesFit ==
  ASSUME TypeOK
  PROVE /\ Invalid \in Entry /\ FillEntry \in Entry
        /\ ~Invalid.valid /\ FillEntry.valid /\ FillEntry.page = walk.page
        /\ FillEntry.ver = pte.ver /\ FillEntry.d = pte.d
<1>1. AnyPage \in Pages
  BY MmuAssumption DEF AnyPage
<1> QED BY <1>1, MmuAssumption DEF Invalid, FillEntry, Entry, TypeOK, PTE, Version, Kind

\* The reads of the L2 after a cycle.
LEMMA BusIs ==
  ASSUME TypeOK, OneRead, mem' \in [Pages -> PTE],
         NEW acc \in BOOLEAN, NEW rsp \in BOOLEAN,
         acc => state = "req", rsp => bus # <<>>, Reads(acc, rsp)
  PROVE /\ bus' \in Seq([page : Pages, seen : SUBSET PTE])
        /\ acc => /\ ~rsp /\ Len(bus') = 1
                  /\ bus'[1].page = walk.page
                  /\ bus'[1].seen = {mem[walk.page], mem'[walk.page]}
        /\ rsp => /\ bus' = <<>>
                  /\ state = "wait" => Head(bus) = bus[1]
        /\ ~acc /\ ~rsp =>
              /\ Len(bus') = Len(bus)
              /\ Len(bus) = 1 =>
                    /\ bus'[1].page = bus[1].page
                    /\ bus'[1].seen = bus[1].seen \union {mem[bus[1].page], mem'[bus[1].page]}
<1> DEFINE R == [page : Pages, seen : SUBSET PTE]
           rest == IF rsp THEN Tail(bus) ELSE bus
           new == [page |-> walk.page, seen |-> {}]
           all == IF acc THEN Append(rest, new) ELSE rest
<1>1. /\ bus \in Seq(R) /\ Len(bus) <= 1 /\ walk.page \in Pages
      /\ mem \in [Pages -> PTE] /\ new \in R
  BY DEF TypeOK
<1>2. bus' = [i \in DOMAIN all |->
                 [all[i] EXCEPT !.seen = @ \union {mem[all[i].page], mem'[all[i].page]}]]
  BY DEF Reads
<1> HIDE DEF R, new, all
<1>13. Len(bus) \in {0, 1}
  <2>1. Len(bus) \in Nat
    BY <1>1, LenProperties
  <2>2. \A n \in Nat : n <= 1 => n \in {0, 1}
    OBVIOUS
  <2> QED BY <1>1, <2>1, <2>2
<1>3. rsp => Len(bus) = 1 /\ rest = <<>>
  <2> SUFFICES ASSUME rsp PROVE Len(bus) = 1 /\ rest = <<>>
    OBVIOUS
  <2>1. Len(bus) = 1
    BY <1>1, <1>13, EmptySeq
  <2>2. Tail(bus) = <<>>
    <3>1. Tail(bus) = SubSeq(bus, 2, Len(bus))
      BY <1>1, TailIsSubSeq
    <3>2. SubSeq(bus, 2, 1) = <<>>
      BY SubSeqEmpty
    <3> QED BY <2>1, <3>1, <3>2
  <2> QED BY <2>1, <2>2
<1>4. acc => ~rsp /\ Len(bus) = 0
  BY <1>1, <1>3 DEF OneRead
<1>5. all \in Seq(R) /\ (acc => Len(all) = 1 /\ all[1] = new)
  <2>1. rest \in Seq(R)
    BY <1>1, <1>3, EmptySeq
  <2>2. acc => Len(rest) = 0
    BY <1>4
  <2> QED BY <1>1, <2>1, <2>2 DEF all
<1>6. /\ Len(all) \in Nat /\ DOMAIN all = 1..Len(all)
      /\ \A i \in 1..Len(all) : all[i] \in R
  BY <1>5, LenProperties, ElementOfSeq
<1>7. ASSUME NEW i \in 1..Len(all)
      PROVE /\ bus'[i] \in R
            /\ bus'[i].page = all[i].page
            /\ bus'[i].seen = all[i].seen \union {mem[all[i].page], mem'[all[i].page]}
  <2>1. all[i] \in R /\ bus'[i] = [all[i] EXCEPT !.seen = @ \union {mem[all[i].page], mem'[all[i].page]}]
    BY <1>2, <1>6
  <2>2. mem[all[i].page] \in PTE /\ mem'[all[i].page] \in PTE
    BY <1>1, <2>1 DEF R
  <2> QED BY <2>1, <2>2 DEF R
<1>8. bus' \in Seq(R) /\ Len(bus') = Len(all)
  <2>1. bus' \in [1..Len(all) -> R]
    BY <1>2, <1>6, <1>7
  <2> QED BY <1>6, <2>1, SeqDef, LenProperties
<1>9. ASSUME rsp PROVE bus' = <<>>
  <2>1. Len(all) = 0
    BY <1>3, <1>4, <1>9, EmptySeq DEF all
  <2> QED BY <1>8, <2>1, EmptySeq
<1>10. state = "wait" /\ rsp => Head(bus) = bus[1]
  BY <1>1, <1>3
<1>11. ASSUME acc
       PROVE /\ ~rsp /\ Len(bus') = 1 /\ bus'[1].page = walk.page
             /\ bus'[1].seen = {mem[walk.page], mem'[walk.page]}
  <2>1. all[1].page = walk.page /\ all[1].seen = {} /\ 1 \in 1..Len(all)
    BY <1>5, <1>11 DEF new
  <2> QED BY <1>4, <1>5, <1>7, <1>8, <1>11, <2>1
<1>12. ASSUME ~acc, ~rsp
       PROVE /\ Len(bus') = Len(bus)
             /\ Len(bus) = 1 =>
                    /\ bus'[1].page = bus[1].page
                    /\ bus'[1].seen = bus[1].seen \union {mem[bus[1].page], mem'[bus[1].page]}
  <2>1. all = bus
    BY <1>12 DEF all
  <2> QED BY <1>7, <1>8, <2>1
<1> QED BY <1>8, <1>9, <1>10, <1>11, <1>12 DEF R

\* The writes that reach memory from the hardware in a cycle.
Landing(ack) == (IF ack THEN {w.write : w \in wb} ELSE {}) \union late

\* Memory and the count of software's writes after a cycle: an entry is left
\* alone, or it has a write of the hardware, or one of software.
LEMMA MemIs ==
  ASSUME TypeOK, WritesFit, NEW ev \in Events, NEW ack \in BOOLEAN,
         NEW sw \in SoftwareWrites(ev), ack => state = "writeback", Memory(ev, ack, sw)
  PROVE /\ mem' \in [Pages -> PTE] /\ writes' \in [Pages -> Version]
        /\ late' \subseteq {w.write : w \in wb}
        /\ Quiet(ev) \/ ack => late' = {}
        /\ Landing(ack) \subseteq Write
        /\ ev.name = "fence" => writes' = writes
        /\ \A p \in Pages :
             \/ /\ mem'[p] = mem[p] /\ writes'[p] = writes[p]
                /\ \A w \in Landing(ack) : w.page # p
             \/ /\ writes'[p] = writes[p]
                /\ \E w \in Landing(ack) : w.page = p /\ mem'[p] = w.pte
             \/ /\ writes'[p] = writes[p] + 1 /\ Landing(ack) = {}
                /\ \E c \in Contents : mem'[p] = Content(c, writes'[p])
<1> DEFINE hw == Landing(ack)
           HasHw(p) == \E w \in hw : w.page = p
           ByHw(p) == (CHOOSE w \in hw : w.page = p).pte
           HasSw(p) == \E s \in sw : s.page = p
           BySw(p) == (CHOOSE s \in sw : s.page = p).pte
<1>1. /\ mem' = [p \in Pages |-> IF HasHw(p) THEN ByHw(p)
                                ELSE IF HasSw(p) THEN BySw(p) ELSE mem[p]]
      /\ writes' = [p \in Pages |-> writes[p] + Cardinality({s \in sw : s.page = p})]
  BY DEF Memory, Landing
<1>2. hw \subseteq Write
  BY DEF Landing, TypeOK
<1>3. \/ sw = {}
      \/ /\ ev.name # "fence" /\ hw = {}
         /\ \E q \in Pages, c \in Contents :
               /\ writes[q] < MaxWrites
               /\ sw = {[page |-> q, pte |-> Content(c, writes[q] + 1)]}
  BY DEF SoftwareWrites, Landing
<1>4. ASSUME NEW p \in Pages
      PROVE /\ mem'[p] \in PTE /\ writes'[p] \in Version
            /\ \/ /\ mem'[p] = mem[p] /\ writes'[p] = writes[p]
                  /\ \A w \in Landing(ack) : w.page # p
               \/ /\ writes'[p] = writes[p]
                  /\ \E w \in Landing(ack) : w.page = p /\ mem'[p] = w.pte
               \/ /\ writes'[p] = writes[p] + 1 /\ Landing(ack) = {}
                  /\ \E c \in Contents : mem'[p] = Content(c, writes'[p])
  <2>0. mem[p] \in PTE /\ writes[p] \in Version
    BY DEF TypeOK
  <2>1. CASE sw = {}
    <3>1. {s \in sw : s.page = p} = {} /\ ~HasSw(p)
      BY <2>1
    <3>2. writes'[p] = writes[p] /\ writes'[p] \in Version
      BY <1>1, <2>0, <3>1, FS_EmptySet DEF Version
    <3>3. CASE HasHw(p)
      <4> DEFINE w == CHOOSE w \in hw : w.page = p
      <4>1. w \in hw /\ w.page = p
        BY <3>3
      <4>2. mem'[p] = w.pte
        BY <1>1, <3>3
      <4> HIDE DEF w
      <4>3. w.pte \in PTE
        BY <1>2, <4>1 DEF Write
      <4> QED BY <3>2, <4>1, <4>2, <4>3
    <3>4. CASE ~HasHw(p)
      BY <1>1, <2>0, <3>1, <3>2, <3>4
    <3> QED BY <3>3, <3>4
  <2>2. CASE sw # {}
    <3>1. PICK q \in Pages, c \in Contents :
             /\ hw = {} /\ writes[q] < MaxWrites
             /\ sw = {[page |-> q, pte |-> Content(c, writes[q] + 1)]}
      BY <1>3, <2>2
    <3>2. CASE p = q
      <4> DEFINE s == [page |-> p, pte |-> Content(c, writes[p] + 1)]
      <4>1. sw = {s} /\ {x \in sw : x.page = p} = {s}
        BY <3>1, <3>2
      <4>2. writes'[p] = writes[p] + 1
        BY <1>1, <4>1, FS_Singleton
      <4>3. HasSw(p) /\ ~HasHw(p) /\ BySw(p) = Content(c, writes[p] + 1)
        <5>1. s.page = p /\ s.pte = Content(c, writes[p] + 1)
          OBVIOUS
        <5> HIDE DEF s
        <5>2. HasSw(p) /\ (CHOOSE x \in sw : x.page = p) = s
          BY <4>1, <5>1
        <5> QED BY <3>1, <5>1, <5>2
      <4>4. mem'[p] = Content(c, writes[p] + 1)
        BY <1>1, <4>3
      <4>5. writes[p] + 1 \in Version
        BY <2>0, <3>1, <3>2, MmuAssumption DEF Version
      <4>6. Content(c, writes[p] + 1) \in PTE
        BY <4>5, MmuAssumption DEF Content, PTE
      <4> QED BY <3>1, <4>2, <4>4, <4>5, <4>6
    <3>3. CASE p # q
      <4>1. {x \in sw : x.page = p} = {} /\ ~HasSw(p) /\ ~HasHw(p)
        BY <3>1, <3>3
      <4>2. writes'[p] = writes[p] /\ mem'[p] = mem[p]
        BY <1>1, <2>0, <4>1, FS_EmptySet DEF Version
      <4> QED BY <2>0, <3>1, <4>2
    <3> QED BY <3>2, <3>3
  <2> QED BY <2>1, <2>2
<1>5. mem' \in [Pages -> PTE] /\ writes' \in [Pages -> Version]
  BY <1>1, <1>4
<1>6. ev.name = "fence" => writes' = writes
  <2> SUFFICES ASSUME ev.name = "fence" PROVE writes' = writes
    OBVIOUS
  <2>1. sw = {}
    BY <1>3
  <2>2. \A p \in Pages : writes[p] \in Nat /\ {s \in sw : s.page = p} = {}
    BY <2>1, MmuAssumption DEF TypeOK, Version
  <2>3. \A p \in Pages : writes'[p] = writes[p]
    BY <1>1, <2>2, FS_EmptySet
  <2> QED BY <1>5, <2>3 DEF TypeOK
<1>7. late' \subseteq {w.write : w \in wb} /\ (Quiet(ev) \/ ack => late' = {})
  BY DEF Memory
<1> QED BY <1>2, <1>4, <1>5, <1>6, <1>7

\* The parameters of a cycle.
Inputs(ev, fetch, acc, rsp, ack, sw, new) ==
    /\ ev \in Events /\ fetch \in Fetches
    /\ acc \in BOOLEAN /\ rsp \in BOOLEAN /\ ack \in BOOLEAN
    /\ sw \in SoftwareWrites(ev) /\ new \in Arrivals(ev)

\* The oldest request, in a cycle with no flush.
LEMMA LookupIs ==
  ASSUME want \subseteq Request, NEW ev, NEW r \in Lookup(ev)
  PROVE r \in want /\ r \in Request /\ Quiet(ev)
BY DEF Lookup

\* The dirty write that waits: one is made when none waits, and one goes when
\* the walker has written it.
LEMMA PendIs ==
  ASSUME TypeOK, WritesFit, NEW ev, NEW ack \in BOOLEAN, pend' = PendNext(ev, ack)
  PROVE /\ pend' \subseteq Write
        /\ \A w \in pend' : w.pte.d
        /\ pend # {} => \/ pend' = pend
                       \/ /\ pend' = {} /\ ack /\ Quiet(ev)
                          /\ wb = {[write |-> w, fill |-> FALSE] : w \in pend}
        /\ pend = {} => \A w \in pend' :
              \E k \in DOMAIN dtlb : /\ dtlb[k].valid /\ dtlb[k].page = w.page
                                    /\ dtlb[k].ver = w.pte.ver /\ ~dtlb[k].d
        /\ \A r \in Lookup(ev) : Upgrades(r) => \E w \in pend' : w.page = r.page
<1>1. ASSUME NEW r \in Lookup(ev), Upgrades(r)
      PROVE /\ pend = {} /\ r \in Request
            /\ Min(Match(r)) \in DOMAIN dtlb
            /\ Found(r) = dtlb[Min(Match(r))]
            /\ Found(r) \in Entry /\ Found(r).valid /\ Found(r).page = r.page
            /\ ~Found(r).d
  <2>1. Match(r) # {} /\ pend = {} /\ ~Found(r).d
    BY <1>1 DEF Upgrades, NeedsUpgrade
  <2> QED BY <2>1, FoundIs, LookupIs DEF TypeOK
<1>2. ASSUME NEW r \in Lookup(ev), Upgrades(r)
      PROVE /\ DirtyWrite(r) \in Write /\ DirtyWrite(r).page = r.page
            /\ DirtyWrite(r).pte.d /\ DirtyWrite(r).pte.ver = Found(r).ver
  BY <1>1, <1>2 DEF DirtyWrite, Write, PTE, Entry, Request
<1>3. CASE pend = {}
  <2>1. pend' = {DirtyWrite(r) : r \in {q \in Lookup(ev) : Upgrades(q)}}
    BY <1>3 DEF PendNext
  <2> QED BY <1>1, <1>2, <1>3, <2>1
<1>4. CASE pend # {}
  <2>1. \A r \in Lookup(ev) : ~Upgrades(r)
    BY <1>1, <1>4
  <2>2. pend' = pend \/ (pend' = {} /\ ack /\ Quiet(ev) /\ \E w \in wb : ~w.fill)
    BY <1>4 DEF PendNext
  <2>3. (\E w \in wb : ~w.fill) => wb = {[write |-> w, fill |-> FALSE] : w \in pend}
    BY DEF WritesFit
  <2> QED BY <1>4, <2>1, <2>2, <2>3 DEF TypeOK, WritesFit
<1> QED BY <1>3, <1>4

\* A fill and the upgrade of the entry it replaces, in one cycle.
ReplacesUpgraded ==
    /\ Fills(FALSE) /\ pend = {}
    /\ \E w \in pend' : dtlb[dNext].valid /\ dtlb[dNext].page = w.page

\* The entries of the data TLB after a cycle: one is what it was or what the
\* walker has filled, and is dirty if it was or a dirty write waits.
LEMMA DtlbIs ==
  ASSUME TypeOK, WritesFit, NEW ev, NEW ack \in BOOLEAN, pend' = PendNext(ev, ack), DtlbNext(ev)
  PROVE /\ dtlb' \in [0..(Ways - 1) -> Entry] /\ dNext' \in 0..(Ways - 1)
        /\ \A k \in DOMAIN dtlb' : dtlb'[k].valid =>
             /\ ev.name # "fence"
             /\ \/ /\ ~(Fills(FALSE) /\ k = dNext)
                   /\ dtlb[k].valid /\ dtlb'[k].page = dtlb[k].page
                   /\ dtlb'[k].ver = dtlb[k].ver
                   /\ dtlb'[k].d => \/ dtlb[k].d
                                    \/ \E w \in pend' : w.page = dtlb[k].page
                \/ /\ Fills(FALSE) /\ k = dNext
                   /\ dtlb'[k].page = walk.page /\ dtlb'[k].ver = pte.ver
                   /\ dtlb'[k].d => pte.d \/ ReplacesUpgraded
        /\ ev.name # "fence" => \A k \in DOMAIN dtlb : dtlb[k].valid => dtlb'[k].valid
        /\ dNext' = IF Fills(FALSE) /\ ev.name # "fence"
                    THEN (IF dNext = Ways - 1 THEN 0 ELSE dNext + 1) ELSE dNext
<1> DEFINE fill == Fills(FALSE)
           next == Filled(dtlb, dNext, fill, ev)
           up == {Min(Match(r)) : r \in {q \in Lookup(ev) : Upgrades(q)}}
<1>1. /\ dtlb \in [0..(Ways - 1) -> Entry] /\ dNext \in 0..(Ways - 1)
      /\ Ways \in Nat \ {0}
  BY MmuAssumption DEF TypeOK
<1>2. /\ dtlb' = [k \in DOMAIN next |-> IF k \in up THEN [next[k] EXCEPT !.d = TRUE] ELSE next[k]]
      /\ dNext' = IF fill /\ ev.name # "fence" THEN (dNext + 1) % Ways ELSE dNext
  BY DEF DtlbNext
<1>12. /\ Invalid \in Entry /\ FillEntry \in Entry
       /\ ~Invalid.valid /\ FillEntry.valid /\ FillEntry.page = walk.page
       /\ FillEntry.ver = pte.ver /\ FillEntry.d = pte.d
  BY EntriesFit
<1>4. /\ next \in [0..(Ways - 1) -> Entry]
      /\ \A k \in 0..(Ways - 1) :
           next[k] = IF ev.name = "fence" THEN Invalid
                     ELSE IF fill /\ k = dNext THEN FillEntry ELSE dtlb[k]
  BY <1>1, <1>12 DEF Filled
<1>5. ASSUME NEW k \in up
      PROVE /\ pend = {} /\ k \in 0..(Ways - 1) /\ dtlb[k].valid
            /\ \E w \in pend' : w.page = dtlb[k].page
  <2>1. PICK r \in Lookup(ev) : Upgrades(r) /\ k = Min(Match(r))
    OBVIOUS
  <2>2. Match(r) # {} /\ pend = {}
    BY <2>1 DEF Upgrades, NeedsUpgrade
  <2>3. k \in 0..(Ways - 1) /\ dtlb[k].valid /\ dtlb[k].page = r.page
    BY <1>1, <2>1, <2>2, FoundIs
  <2> QED BY <2>1, <2>2, <2>3, PendIs
<1> HIDE DEF next, up, fill
<1>6. ASSUME NEW k \in 0..(Ways - 1)
      PROVE /\ dtlb'[k] = IF k \in up THEN [next[k] EXCEPT !.d = TRUE] ELSE next[k]
            /\ dtlb'[k] \in Entry
            /\ dtlb'[k].valid = next[k].valid /\ dtlb'[k].page = next[k].page
            /\ dtlb'[k].ver = next[k].ver
            /\ dtlb'[k].d => next[k].d \/ k \in up
  <2>1. next[k] \in Entry
    BY <1>4
  <2>2. dtlb'[k] = IF k \in up THEN [next[k] EXCEPT !.d = TRUE] ELSE next[k]
    BY <1>2, <1>4
  <2> QED BY <2>1, <2>2 DEF Entry
<1>7. dtlb' \in [0..(Ways - 1) -> Entry] /\ DOMAIN dtlb' = 0..(Ways - 1)
  BY <1>2, <1>4, <1>6
<1>8. dNext' = IF fill /\ ev.name # "fence"
               THEN (IF dNext = Ways - 1 THEN 0 ELSE dNext + 1) ELSE dNext
  BY <1>1, <1>2
<1>9. ASSUME NEW k \in 0..(Ways - 1), dtlb'[k].valid
      PROVE /\ ev.name # "fence"
            /\ \/ /\ ~(fill /\ k = dNext)
                  /\ dtlb[k].valid /\ dtlb'[k].page = dtlb[k].page
                  /\ dtlb'[k].ver = dtlb[k].ver
                  /\ dtlb'[k].d => \/ dtlb[k].d
                                   \/ \E w \in pend' : w.page = dtlb[k].page
               \/ /\ fill /\ k = dNext
                  /\ dtlb'[k].page = walk.page /\ dtlb'[k].ver = pte.ver
                  /\ dtlb'[k].d => pte.d \/ ReplacesUpgraded
  <2>1. ev.name # "fence"
    BY <1>4, <1>6, <1>9, <1>12
  <2>2. CASE fill /\ k = dNext
    <3>1. next[k] = FillEntry
      BY <1>4, <2>1, <2>2
    <3>2. k \in up => ReplacesUpgraded
      BY <1>5, <2>2 DEF ReplacesUpgraded, fill
    <3> QED BY <1>6, <1>12, <2>1, <2>2, <3>1, <3>2
  <2>3. CASE ~(fill /\ k = dNext)
    <3>1. next[k] = dtlb[k]
      BY <1>4, <2>1, <2>3
    <3> QED BY <1>5, <1>6, <1>9, <2>1, <2>3, <3>1
  <2> QED BY <2>2, <2>3
<1>10. ASSUME ev.name # "fence", NEW k \in 0..(Ways - 1), dtlb[k].valid PROVE dtlb'[k].valid
  BY <1>4, <1>6, <1>10, <1>12
<1>11. dNext' \in 0..(Ways - 1)
  <2>1. dNext' = dNext \/ dNext' = IF dNext = Ways - 1 THEN 0 ELSE dNext + 1
    BY <1>8
  <2> QED BY <1>1, <2>1
<1> QED BY <1>1, <1>7, <1>8, <1>9, <1>10, <1>11 DEF fill

-----------------------------------------------------------------------------
\* The instruction TLB after a cycle.
LEMMA ItlbIs ==
  ASSUME NEW ev, ItlbNext(ev)
  PROVE itlb' = IF ev.name = "fence" THEN Invalid ELSE IF Fills(TRUE) THEN FillEntry ELSE itlb
BY DEF ItlbNext, Filled

\* Types are kept by every cycle.
LEMMA TypeStep ==
  ASSUME WalkInv, NEW ev, NEW fetch, NEW acc, NEW rsp, NEW ack, NEW sw, NEW new,
         Inputs(ev, fetch, acc, rsp, ack, sw, new), Step(ev, fetch, acc, rsp, ack, sw, new)
  PROVE TypeOK'
<1>1. /\ acc \in BOOLEAN /\ rsp \in BOOLEAN /\ ack \in BOOLEAN /\ ev \in Events
      /\ acc => state = "req"
      /\ rsp => bus # <<>>
      /\ ack => state = "writeback"
      /\ sw \in SoftwareWrites(ev) /\ new \in Arrivals(ev) /\ fetch \in Fetches
      /\ TypeOK /\ OneRead /\ WritesFit
  BY DEF Inputs, Step, WalkInv
<1>2. /\ mem' \in [Pages -> PTE] /\ writes' \in [Pages -> Version] /\ late' \subseteq Write
  <2>1. late' \subseteq {w.write : w \in wb}
    BY <1>1, MemIs DEF Step
  <2>2. wb \subseteq [write : Write, fill : BOOLEAN]
    BY <1>1 DEF TypeOK
  <2>3. late' \subseteq Write
    BY <2>1, <2>2
  <2> QED BY <1>1, <2>3, MemIs DEF Step
<1>3. /\ dtlb' \in [0..(Ways - 1) -> Entry] /\ dNext' \in 0..(Ways - 1)
      /\ pend' \subseteq Write
  BY <1>1, DtlbIs, PendIs DEF Step
<1>4. fenced' \in [Pages -> Version] /\ stale' \in BOOLEAN
  <2>1. fenced' \in [Pages -> Version]
    BY <1>1 DEF Step, TypeOK
  <2>2. stale' \in BOOLEAN
    BY <1>1 DEF Step, TypeOK, StaleNext
  <2> QED BY <2>1, <2>2
<1>5. itlb' \in Entry
  <2>1. itlb \in Entry
    BY <1>1 DEF TypeOK
  <2> QED BY <1>1, <2>1, ItlbIs, EntriesFit DEF Step
<1>6. /\ want \subseteq Request /\ exc' \subseteq Request /\ Lookup(ev) \subseteq Request
  <2>1. want \subseteq Request
    BY <1>1 DEF TypeOK
  <2>2. Lookup(ev) \subseteq Request
    BY <2>1, LookupIs
  <2>3. WalkFaults(ev) \subseteq Request
    BY <1>1 DEF WalkFaults, TypeOK, Request
  <2> QED BY <2>1, <2>2, <2>3 DEF Step, Reported
<1>7. want' \subseteq Request /\ done' \subseteq Idx
  <2>1. new \subseteq Request
    BY <1>1 DEF Arrivals
  <2>2. want' \subseteq want \union new
    BY DEF Step, Instructions
  <2>3. Answered(ev) \subseteq Request
    BY <1>6 DEF Answered
  <2>4. \A r \in Answered(ev) : r.idx \in Idx
    BY <2>3 DEF Request
  <2>5. Finished \subseteq Idx
    BY <1>1 DEF Finished, TypeOK
  <2>6. done' \subseteq Finished \union {r.idx : r \in Answered(ev)}
    BY DEF Step, Instructions
  <2> QED BY <1>6, <2>1, <2>2, <2>4, <2>5, <2>6
<1>8. owner' \subseteq Idx
  <2>1. {r.idx : r \in Misser(ev)} \subseteq Idx
    BY <1>6 DEF Misser, Request
  <2> QED BY <1>1, <2>1 DEF Step, OwnerNext, TypeOK
<1>9. bus' \in Seq([page : Pages, seen : SUBSET PTE]) /\ Len(bus') <= 1
  <2>1. /\ bus' \in Seq([page : Pages, seen : SUBSET PTE])
        /\ acc => Len(bus') = 1
        /\ rsp => bus' = <<>>
        /\ ~acc /\ ~rsp => Len(bus') = Len(bus)
    BY <1>1, <1>2, BusIs DEF Step
  <2>2. Len(bus) <= 1 /\ Len(<<>>) = 0
    BY <1>1, EmptySeq DEF TypeOK
  <2>3. Len(bus') = 1 \/ Len(bus') = 0 \/ Len(bus') = Len(bus)
    BY <2>1, <2>2, Zenon
  <2>4. Len(bus') <= 1
    BY <2>2, <2>3
  <2> QED BY <2>1, <2>4
<1>10. /\ walk' \in [page : Pages, store : BOOLEAN, fetch : BOOLEAN, idx : Idx, level : 0..TopLevel]
       /\ pte' \in PTE /\ wb' \subseteq [write : Write, fill : BOOLEAN]
       /\ state' \in {"idle", "req", "wait", "writeback", "fill", "fault"}
  <2> DEFINE W == [page : Pages, store : BOOLEAN, fetch : BOOLEAN, idx : Idx, level : 0..TopLevel]
             S == {"idle", "req", "wait", "writeback", "fill", "fault"}
             B == [write : Write, fill : BOOLEAN]
  <2>1. /\ walk \in W /\ pte \in PTE /\ wb \subseteq B /\ pend \subseteq Write /\ state \in S
    BY <1>1 DEF TypeOK
  <2>2. NoWalk \in W /\ NoPte \in PTE
    BY MmuAssumption DEF NoWalk, NoPte, AnyPage, Idx, PTE, Version, Kind
  <2>3. CASE ~Quiet(ev)
    BY <2>2, <2>3 DEF Step, Walker, Kill
  <2>4. ASSUME Start(ev, fetch) PROVE walk' \in W /\ pte' \in PTE /\ wb' \subseteq B /\ state' \in S
    <3>1. CASE UNCHANGED <<state, walk, wb, pte>>
      BY <2>1, <3>1
    <3>2. CASE /\ wb' = {[write |-> w, fill |-> FALSE] : w \in pend}
               /\ state' = "writeback" /\ UNCHANGED <<walk, pte>>
      <4>1. \A w \in pend : [write |-> w, fill |-> FALSE] \in B
        BY <2>1
      <4> HIDE DEF B, W
      <4> QED BY <2>1, <3>2, <4>1
    <3>3. CASE walk' \in Walks(ev, fetch) /\ UNCHANGED <<wb, pte>>
      <4>1. Walks(ev, fetch) \subseteq W
        <5>1. Misser(ev) \subseteq Request
          BY <1>6 DEF Misser
        <5>2. \A r \in Misser(ev) : [page |-> r.page, store |-> r.store, fetch |-> FALSE,
                                     idx |-> r.idx, level |-> TopLevel] \in W
          BY <5>1, MmuAssumption DEF Request
        <5>3. fetch \subseteq Pages
          BY <1>1 DEF Fetches
        <5>4. \A p \in fetch : [page |-> p, store |-> FALSE, fetch |-> TRUE,
                                idx |-> 0, level |-> TopLevel] \in W
          BY <5>3, MmuAssumption DEF Idx
        <5> HIDE DEF W
        <5> QED BY <5>2, <5>4 DEF Walks
      <4> HIDE DEF W
      <4> QED BY <2>1, <2>4, <3>3, <4>1 DEF Start
    <3> QED BY <2>4, <3>1, <3>2, <3>3 DEF Start
  <2>5. ASSUME Ask(acc) PROVE walk' \in W /\ pte' \in PTE /\ wb' \subseteq B /\ state' \in S
    BY <2>1, <2>5 DEF Ask
  <2>6. ASSUME Answer(rsp) PROVE walk' \in W /\ pte' \in PTE /\ wb' \subseteq B /\ state' \in S
    <3>1. CASE UNCHANGED <<state, walk, pte, wb>>
      BY <2>1, <3>1
    <3>2. CASE /\ walk.level > 0 /\ state' = "req" /\ walk' = [walk EXCEPT !.level = @ - 1]
               /\ UNCHANGED <<pte, wb>>
      BY <2>1, <3>2, MmuAssumption
    <3>3. CASE /\ rsp /\ state = "wait" /\ UNCHANGED walk
               /\ \E p \in Head(bus).seen :
                     /\ pte' = WithAD(p)
                     /\ state' = IF p.kind = "bad" THEN "fault"
                                 ELSE IF WithAD(p) # p THEN "writeback" ELSE "fill"
                     /\ wb' = IF state' = "writeback"
                              THEN {[write |-> [page |-> walk.page, pte |-> WithAD(p)],
                                     fill |-> TRUE]}
                              ELSE wb
      <4>1. Head(bus) \in [page : Pages, seen : SUBSET PTE]
        <5>1. bus \in Seq([page : Pages, seen : SUBSET PTE]) /\ bus # <<>>
          <6>1. bus \in Seq([page : Pages, seen : SUBSET PTE])
            BY <1>1 DEF TypeOK
          <6>2. rsp
            BY <3>3
          <6>3. bus # <<>>
            BY <1>1, <6>2, Zenon
          <6> QED BY <6>1, <6>3
        <5> QED BY <5>1, HeadTailProperties
      <4>2. PICK p \in PTE :
                     /\ pte' = WithAD(p)
                     /\ state' = IF p.kind = "bad" THEN "fault"
                                 ELSE IF WithAD(p) # p THEN "writeback" ELSE "fill"
                     /\ wb' = IF state' = "writeback"
                              THEN {[write |-> [page |-> walk.page, pte |-> WithAD(p)],
                                     fill |-> TRUE]}
                              ELSE wb
        BY <3>3, <4>1
      <4>3. WithAD(p) \in PTE
        BY <2>1, <4>2 DEF WithAD, PTE
      <4>4. [write |-> [page |-> walk.page, pte |-> WithAD(p)], fill |-> TRUE] \in B
        BY <2>1, <4>3 DEF Write
      <4> HIDE DEF B
      <4> QED BY <2>1, <3>3, <4>2, <4>3, <4>4
    <3> QED BY <2>6, <3>1, <3>2, <3>3 DEF Answer
  <2>7. ASSUME Store(ack) PROVE walk' \in W /\ pte' \in PTE /\ wb' \subseteq B /\ state' \in S
    BY <2>1, <2>7 DEF Store
  <2>8. ASSUME End PROVE walk' \in W /\ pte' \in PTE /\ wb' \subseteq B /\ state' \in S
    BY <2>1, <2>2, <2>8 DEF End
  <2> HIDE DEF W, B, S
  <2>9. ASSUME Quiet(ev) PROVE walk' \in W /\ pte' \in PTE /\ wb' \subseteq B /\ state' \in S
    BY <2>4, <2>5, <2>6, <2>7, <2>8, <2>9 DEF Step, Walker
  <2> QED BY <2>3, <2>9 DEF W, B, S
<1> QED BY <1>2, <1>3, <1>4, <1>5, <1>6, <1>7, <1>8, <1>9, <1>10 DEF TypeOK

\* A walk that waits has its read, a killed one blocks the next.
LEMMA OneReadStep ==
  ASSUME WalkInv, NEW ev, NEW fetch, NEW acc, NEW rsp, NEW ack, NEW sw, NEW new,
         Inputs(ev, fetch, acc, rsp, ack, sw, new), Step(ev, fetch, acc, rsp, ack, sw, new)
  PROVE /\ OneRead'
        /\ state' = "wait" =>
             \/ /\ state = "wait" /\ ~rsp /\ ~acc /\ walk' = walk
                /\ bus[1].page = walk.page
                /\ bus'[1].seen = bus[1].seen \union {mem[walk.page], mem'[walk.page]}
             \/ /\ state = "req" /\ walk' = walk
                /\ bus'[1].seen = {mem[walk.page], mem'[walk.page]}
        /\ state = "wait" => bus[1].page = walk.page /\ (rsp => Head(bus) = bus[1])
<1>1. /\ acc \in BOOLEAN /\ rsp \in BOOLEAN
      /\ acc => state = "req"
      /\ rsp => bus # <<>>
      /\ TypeOK /\ OneRead /\ WritesFit
  BY DEF Inputs, Step, WalkInv
<1>2. mem' \in [Pages -> PTE]
  BY TypeStep DEF TypeOK
<1>3. /\ acc => /\ ~rsp /\ Len(bus') = 1
                /\ bus'[1].page = walk.page
                /\ bus'[1].seen = {mem[walk.page], mem'[walk.page]}
      /\ rsp => /\ bus' = <<>>
                /\ state = "wait" => Head(bus) = bus[1]
      /\ ~acc /\ ~rsp =>
            /\ Len(bus') = Len(bus)
            /\ Len(bus) = 1 =>
                  /\ bus'[1].page = bus[1].page
                  /\ bus'[1].seen = bus[1].seen \union {mem[bus[1].page], mem'[bus[1].page]}
  BY <1>1, <1>2, BusIs DEF Step
<1>4. /\ stale => state = "idle"
      /\ Len(bus) = IF state = "wait" \/ stale THEN 1 ELSE 0
      /\ state = "wait" => bus[1].page = walk.page
  BY <1>1 DEF OneRead
<1>5. /\ stale \in BOOLEAN
      /\ stale' = IF ~Quiet(ev) /\ (state = "wait" \/ acc) /\ ~rsp THEN TRUE ELSE stale /\ ~rsp
  BY <1>1 DEF Step, StaleNext, TypeOK
<1>6. \/ ~Quiet(ev) /\ state' = "idle"
      \/ Quiet(ev) /\ state = "idle" /\ state' = state
      \/ Quiet(ev) /\ state = "idle" /\ ~stale /\ state' \in {"writeback", "req", "fault"}
      \/ Quiet(ev) /\ state = "req" /\ walk' = walk /\ state' = IF acc THEN "wait" ELSE "req"
      \/ Quiet(ev) /\ state = "wait" /\ ~rsp /\ walk' = walk /\ state' = state
      \/ Quiet(ev) /\ state = "wait" /\ rsp /\ state' \in {"req", "fault", "writeback", "fill"}
      \/ Quiet(ev) /\ state \in {"writeback", "fill", "fault"}
            /\ state' \in {"idle", "fill", "writeback"}
  <2>1. CASE ~Quiet(ev)
    BY <2>1 DEF Step, Walker, Kill
  <2>2. CASE Quiet(ev) /\ Start(ev, fetch)
    BY <1>5, <2>2 DEF Start
  <2>3. CASE Quiet(ev) /\ Ask(acc)
    BY <2>3 DEF Ask
  <2>4. CASE Quiet(ev) /\ Answer(rsp)
    BY <2>4 DEF Answer
  <2>5. CASE Quiet(ev) /\ (Store(ack) \/ End)
    BY <2>5 DEF Store, End
  <2> QED BY <2>1, <2>2, <2>3, <2>4, <2>5 DEF Step, Walker
<1> DEFINE n == Len(bus)
           m == Len(bus')
           page1 == bus'[1].page
<1>7. /\ acc => ~rsp /\ m = 1 /\ page1 = walk.page
      /\ rsp => m = 0
      /\ ~acc /\ ~rsp => m = n /\ (n = 1 => page1 = bus[1].page)
  BY <1>3, EmptySeq, Zenon
<1>10. stale => ~acc
  BY <1>1, <1>4
<1>11. /\ n = IF state = "wait" \/ stale THEN 1 ELSE 0
       /\ state = "wait" => bus[1].page = walk.page
       /\ rsp => n # 0
  <2>1. Len(bus) = 0 => bus = <<>>
    BY <1>1, EmptySeq DEF TypeOK
  <2> QED BY <1>1, <1>4, <2>1, Zenon
<1> HIDE DEF n, m, page1
<1>8. /\ stale' => state' = "idle"
      /\ m = IF state' = "wait" \/ stale' THEN 1 ELSE 0
      /\ state' = "wait" => page1 = walk'.page
  <2>1. acc \/ rsp \/ (~acc /\ ~rsp)
    OBVIOUS
  <2>2. CASE ~Quiet(ev)
    BY <1>1, <1>4, <1>5, <1>6, <1>7, <1>10, <1>11, <2>2
  <2>3. CASE Quiet(ev)
    BY <1>1, <1>4, <1>5, <1>6, <1>7, <1>10, <1>11, <2>3
  <2> QED BY <2>2, <2>3
<1>9. OneRead'
  BY <1>8 DEF OneRead, n, m, page1
<1>12. ASSUME state' = "wait"
       PROVE \/ /\ state = "wait" /\ ~rsp /\ ~acc /\ walk' = walk /\ n = 1
             \/ /\ state = "req" /\ walk' = walk /\ acc
  BY <1>1, <1>6, <1>11, <1>12
<1>13. n = 1 <=> Len(bus) = 1
  BY DEF n
<1> QED BY <1>3, <1>4, <1>9, <1>12, <1>13, Zenon

\* What the walker does in a cycle, with the writes it may be making.
LEMMA WalkerIs ==
  ASSUME WalkInv, NEW ev, NEW fetch, NEW acc, NEW rsp, NEW ack, NEW sw, NEW new,
         Inputs(ev, fetch, acc, rsp, ack, sw, new), Step(ev, fetch, acc, rsp, ack, sw, new)
  PROVE \/ /\ ~Quiet(ev) /\ state' = "idle" /\ wb' = {}
        \/ /\ Quiet(ev) /\ state = "idle" /\ UNCHANGED <<state, walk, pte, wb>>
        \/ /\ Quiet(ev) /\ state = "idle" /\ pend # {} /\ state' = "writeback"
           /\ wb' = {[write |-> w, fill |-> FALSE] : w \in pend}
           /\ UNCHANGED <<walk, pte>>
        \/ /\ Quiet(ev) /\ state = "idle" /\ pend = {} /\ ~stale
           /\ state' \in {"req", "fault"} /\ UNCHANGED <<wb, pte>>
           /\ walk' \in Walks(ev, fetch)
        \/ /\ Quiet(ev) /\ state = "req" /\ state' \in {"req", "wait"}
           /\ UNCHANGED <<walk, pte, wb>>
        \/ /\ Quiet(ev) /\ state = "wait" /\ ~rsp /\ UNCHANGED <<state, walk, pte, wb>>
        \/ /\ Quiet(ev) /\ state = "wait" /\ state' = "req"
           /\ walk' = [walk EXCEPT !.level = @ - 1] /\ UNCHANGED <<pte, wb>>
        \/ /\ Quiet(ev) /\ state = "wait" /\ walk' = walk
           /\ \E p \in bus[1].seen :
                 /\ pte' = WithAD(p)
                 /\ \/ state' = "fault" /\ UNCHANGED wb
                    \/ state' = "fill" /\ WithAD(p) = p /\ p.kind # "bad" /\ UNCHANGED wb
                    \/ /\ state' = "writeback" /\ WithAD(p) # p /\ p.kind # "bad"
                       /\ wb' = {[write |-> [page |-> walk.page, pte |-> pte'], fill |-> TRUE]}
        \/ /\ Quiet(ev) /\ state = "writeback" /\ ~ack /\ UNCHANGED <<state, walk, pte, wb>>
        \/ /\ Quiet(ev) /\ state = "writeback" /\ ack /\ wb' = {} /\ UNCHANGED <<walk, pte>>
           /\ \/ /\ state' = "idle"
                 /\ wb = {[write |-> w, fill |-> FALSE] : w \in pend}
              \/ /\ state' = "fill"
                 /\ wb = {[write |-> [page |-> walk.page, pte |-> pte], fill |-> TRUE]}
        \/ /\ Quiet(ev) /\ state \in {"fill", "fault"} /\ state' = "idle" /\ UNCHANGED wb
<1>1. /\ WritesFit /\ OneRead /\ ack \in BOOLEAN /\ rsp \in BOOLEAN
      /\ stale \in BOOLEAN
  BY DEF WalkInv, Inputs, TypeOK
<1>2. CASE ~Quiet(ev)
  BY <1>2 DEF Step, Walker, Kill
<1>3. CASE Quiet(ev) /\ Start(ev, fetch)
  <2>1. state = "idle" /\ UNCHANGED pte
    BY <1>3 DEF Start
  <2>2. CASE stale \/ (pend = {} /\ Walks(ev, fetch) = {})
    BY <1>3, <2>1, <2>2 DEF Start
  <2>3. CASE ~stale /\ pend # {}
    BY <1>3, <2>1, <2>3 DEF Start
  <2>4. CASE ~stale /\ pend = {} /\ Walks(ev, fetch) # {}
    BY <1>3, <2>1, <2>4 DEF Start
  <2> QED BY <1>1, <2>2, <2>3, <2>4
<1>4. CASE Quiet(ev) /\ Ask(acc)
  BY <1>4 DEF Ask
<1>5. CASE Quiet(ev) /\ Answer(rsp)
  <2>1. state = "wait" /\ (rsp => Head(bus) = bus[1])
    BY <1>5, OneReadStep DEF Answer
  <2>2. CASE ~rsp /\ UNCHANGED <<state, walk, pte, wb>>
    BY <1>5, <2>1, <2>2
  <2>3. CASE /\ state' = "req" /\ walk' = [walk EXCEPT !.level = @ - 1] /\ UNCHANGED <<pte, wb>>
    BY <1>5, <2>1, <2>3
  <2>4. CASE /\ rsp /\ UNCHANGED walk
             /\ \E p \in Head(bus).seen :
                   /\ pte' = WithAD(p)
                   /\ state' = IF p.kind = "bad" THEN "fault"
                               ELSE IF WithAD(p) # p THEN "writeback" ELSE "fill"
                   /\ wb' = IF state' = "writeback"
                            THEN {[write |-> [page |-> walk.page, pte |-> WithAD(p)], fill |-> TRUE]}
                            ELSE wb
    <3>1. PICK p \in bus[1].seen :
                   /\ pte' = WithAD(p)
                   /\ state' = IF p.kind = "bad" THEN "fault"
                               ELSE IF WithAD(p) # p THEN "writeback" ELSE "fill"
                   /\ wb' = IF state' = "writeback"
                            THEN {[write |-> [page |-> walk.page, pte |-> WithAD(p)], fill |-> TRUE]}
                            ELSE wb
      BY <2>1, <2>4
    <3>2. \/ state' = "fault" /\ UNCHANGED wb
          \/ state' = "fill" /\ WithAD(p) = p /\ p.kind # "bad" /\ UNCHANGED wb
          \/ /\ state' = "writeback" /\ WithAD(p) # p /\ p.kind # "bad"
             /\ wb' = {[write |-> [page |-> walk.page, pte |-> pte'], fill |-> TRUE]}
      BY <3>1
    <3> QED BY <1>5, <2>1, <2>4, <3>1, <3>2
  <2> QED BY <1>5, <2>2, <2>3, <2>4 DEF Answer
<1>6. CASE Quiet(ev) /\ Store(ack)
  <2>1. state = "writeback" /\ UNCHANGED <<walk, pte>> /\ wb # {}
    BY <1>1, <1>6 DEF Store, WritesFit
  <2>2. CASE ack
    <3>1. wb' = {} /\ state' = IF \E w \in wb : w.fill THEN "fill" ELSE "idle"
      BY <1>6, <2>2 DEF Store
    <3>2. \/ wb = {[write |-> w, fill |-> FALSE] : w \in pend}
          \/ wb = {[write |-> [page |-> walk.page, pte |-> pte], fill |-> TRUE]}
      BY <1>1, <2>1 DEF WritesFit
    <3>3. CASE wb = {[write |-> w, fill |-> FALSE] : w \in pend}
      <4>1. ~\E w \in wb : w.fill
        BY <3>3
      <4> QED BY <1>6, <2>1, <2>2, <3>1, <3>3, <4>1
    <3>4. CASE wb = {[write |-> [page |-> walk.page, pte |-> pte], fill |-> TRUE]}
      <4>1. \E w \in wb : w.fill
        BY <3>4
      <4> QED BY <1>6, <2>1, <2>2, <3>1, <3>4, <4>1
    <3> QED BY <3>2, <3>3, <3>4
  <2>3. CASE ~ack
    BY <1>6, <2>1, <2>3 DEF Store
  <2> QED BY <2>2, <2>3
<1>7. CASE Quiet(ev) /\ End
  BY <1>7 DEF End
<1> QED BY <1>2, <1>3, <1>4, <1>5, <1>6, <1>7 DEF Step, Walker

\* The walker's writes stay those of its walk, or the dirty write that waits.
LEMMA WritesStep ==
  ASSUME WalkInv, NEW ev, NEW fetch, NEW acc, NEW rsp, NEW ack, NEW sw, NEW new,
         Inputs(ev, fetch, acc, rsp, ack, sw, new), Step(ev, fetch, acc, rsp, ack, sw, new)
  PROVE WritesFit'
<1>1. /\ WritesFit /\ TypeOK /\ ack \in BOOLEAN /\ ev \in Events
      /\ sw \in SoftwareWrites(ev) /\ Memory(ev, ack, sw)
      /\ pend' = PendNext(ev, ack)
      /\ ack => state = "writeback"
  BY DEF WalkInv, Inputs, Step
<1>2. \A w \in pend' : w.pte.d
  BY <1>1, PendIs
<1>3. late' # {} => state' = "idle"
  <2>1. Quiet(ev) => late' = {}
    BY <1>1, MemIs
  <2> QED BY <2>1, WalkerIs
<1>4. pend # {} => pend' = pend \/ ack
  BY <1>1, PendIs
<1>5. /\ state' = "writeback" <=> wb' # {}
      /\ \/ wb' = {}
         \/ wb' = {[write |-> w, fill |-> FALSE] : w \in pend'}
         \/ wb' = {[write |-> [page |-> walk'.page, pte |-> pte'], fill |-> TRUE]}
  <2>1. \/ wb = {}
        \/ wb = {[write |-> w, fill |-> FALSE] : w \in pend}
        \/ wb = {[write |-> [page |-> walk.page, pte |-> pte], fill |-> TRUE]}
    BY <1>1 DEF WritesFit
  <2>2. state = "writeback" <=> wb # {}
    BY <1>1 DEF WritesFit
  <2>3. CASE ~Quiet(ev)
    BY <2>3, WalkerIs
  <2>4. CASE Quiet(ev) /\ state = "idle"
    <3>1. pend # {} => pend' = pend
      BY <1>1, <1>4, <2>4
    <3>2. {[write |-> w, fill |-> FALSE] : w \in pend} # {} <=> pend # {}
      OBVIOUS
    <3> QED BY <2>2, <2>4, <3>1, <3>2, WalkerIs
  <2>5. CASE Quiet(ev) /\ state = "req"
    BY <2>2, <2>5, WalkerIs
  <2>6. CASE Quiet(ev) /\ state = "wait"
    BY <2>2, <2>6, WalkerIs
  <2>7. CASE Quiet(ev) /\ state = "writeback"
    <3>1. CASE ~ack
      <4>1. wb' = wb /\ walk' = walk /\ pte' = pte /\ state' = state
        BY <2>7, <3>1, WalkerIs
      <4>2. wb = {[write |-> w, fill |-> FALSE] : w \in pend} => pend # {}
        BY <2>2, <2>7
      <4> QED BY <1>4, <2>1, <2>2, <3>1, <4>1, <4>2
    <3>2. CASE ack
      BY <2>7, <3>2, WalkerIs
    <3> QED BY <3>1, <3>2
  <2>8. CASE Quiet(ev) /\ state \in {"fill", "fault"}
    BY <2>2, <2>8, WalkerIs
  <2> QED BY <1>1, <2>3, <2>4, <2>5, <2>6, <2>7, <2>8 DEF TypeOK
<1> QED BY <1>2, <1>3, <1>5 DEF WritesFit

\* Initially nothing is cached, read, written or asked.
LEMMA WalkInit == Init => WalkInv
<1> SUFFICES ASSUME Init PROVE WalkInv
  OBVIOUS
<1>1. TypeOK
  <2>1. AnyPage \in Pages
    BY MmuAssumption DEF AnyPage
  <2>2. Invalid \in Entry /\ NoPte \in PTE
    BY <2>1, MmuAssumption DEF Invalid, Entry, NoPte, PTE, Version, Kind
  <2>3. \A c \in Contents : Content(c, 0) \in PTE
    BY MmuAssumption DEF Content, PTE, Version
  <2>4. mem \in [Pages -> PTE] /\ writes \in [Pages -> Version] /\ fenced \in [Pages -> Version]
    BY <2>3, MmuAssumption DEF Init, Version
  <2>5. dtlb \in [0..(Ways - 1) -> Entry] /\ dNext \in 0..(Ways - 1) /\ itlb \in Entry
    BY <2>2, MmuAssumption DEF Init
  <2>6. walk \in [page : Pages, store : BOOLEAN, fetch : BOOLEAN, idx : Idx, level : 0..TopLevel]
    BY <2>1, MmuAssumption DEF Init, NoWalk, Idx
  <2>7. bus \in Seq([page : Pages, seen : SUBSET PTE]) /\ Len(bus) <= 1
    BY EmptySeq DEF Init
  <2> QED BY <2>2, <2>4, <2>5, <2>6, <2>7 DEF Init, TypeOK
<1>2. OneRead
  BY EmptySeq DEF Init, OneRead
<1>3. WritesFit
  BY DEF Init, WritesFit
<1> QED BY <1>1, <1>2, <1>3 DEF WalkInv

\* A step that changes nothing keeps what holds of the state.
LEMMA WalkInvariant == Spec => []WalkInv
<1>1. WalkInv /\ [Next]_vars => WalkInv'
  <2> SUFFICES ASSUME WalkInv, [Next]_vars PROVE WalkInv'
    OBVIOUS
  <2>1. CASE Next
    <3>1. PICK ev \in Events, fetch \in Fetches, acc \in BOOLEAN, rsp \in BOOLEAN, ack \in BOOLEAN :
             \E sw \in SoftwareWrites(ev), new \in Arrivals(ev) :
                Step(ev, fetch, acc, rsp, ack, sw, new)
      BY <2>1 DEF Next
    <3>2. PICK sw \in SoftwareWrites(ev), new \in Arrivals(ev) :
             Step(ev, fetch, acc, rsp, ack, sw, new)
      BY <3>1
    <3>3. Inputs(ev, fetch, acc, rsp, ack, sw, new)
      BY DEF Inputs
    <3> QED BY <3>2, <3>3, TypeStep, OneReadStep, WritesStep DEF WalkInv
  <2>2. CASE UNCHANGED vars
    BY <2>2 DEF vars, WalkInv, TypeOK, OneRead, WritesFit
  <2> QED BY <2>1, <2>2
<1> QED BY <1>1, WalkInit, PTL DEF Spec

\* Every register of the TLBs and the walker keeps its type: the walker never
\* has two reads in flight, and the counters of ways stay within the TLB.
THEOREM MmuTypeCorrect == Spec => []TypeOK
<1>1. WalkInv => TypeOK
  BY DEF WalkInv
<1> QED BY <1>1, WalkInvariant, PTL

-----------------------------------------------------------------------------
\* A walk is under way, and not the write of a dirty bit on its own.
Walking == state \in {"req", "wait", "fill", "fault"} \/ \E w \in wb : w.fill

\* A walk for the data TLB belongs to a request that still waits and that no
\* entry answers.
WalkOwned ==
    Walking /\ ~walk.fetch =>
       /\ owner = {walk.idx}
       /\ [idx |-> walk.idx, page |-> walk.page, store |-> walk.store] \in want
       /\ \A k \in DOMAIN dtlb : dtlb[k].valid => dtlb[k].page # walk.page

\* A request that no entry answers goes on waiting, unless the walker reports
\* its fault.
LEMMA MissStays ==
  ASSUME WalkInv, NEW ev, NEW fetch, NEW acc, NEW rsp, NEW ack, NEW sw, NEW new,
         Inputs(ev, fetch, acc, rsp, ack, sw, new), Step(ev, fetch, acc, rsp, ack, sw, new),
         Quiet(ev), state \notin {"fill", "fault"}, NEW r \in want, Match(r) = {}
  PROVE /\ r \in want'
        /\ \A k \in DOMAIN dtlb' : dtlb'[k].valid => dtlb'[k].page # r.page
<1>1. r \notin Answered(ev)
  <2>1. ~Hits(r) /\ ~Denied(r)
    BY DEF Hits, Denied
  <2>2. WalkFaults(ev) = {}
    BY DEF WalkFaults
  <2> QED BY <2>1, <2>2 DEF Answered, Reported
<1>2. ~Flushes(ev, r.idx)
  BY DEF Flushes
<1>3. r \in want'
  BY <1>1, <1>2 DEF Step, Instructions
<1>4. ~Fills(FALSE)
  BY DEF Fills
<1>5. \A k \in DOMAIN dtlb : ~(dtlb[k].valid /\ dtlb[k].page = r.page)
  BY DEF Match
<1>6. TypeOK /\ WritesFit /\ DOMAIN dtlb = 0..(Ways - 1) /\ ack \in BOOLEAN
  BY DEF WalkInv, TypeOK, Inputs
<1>7. \A k \in DOMAIN dtlb' : dtlb'[k].valid =>
         k \in DOMAIN dtlb /\ dtlb[k].valid /\ dtlb'[k].page = dtlb[k].page
  <2>1. dtlb' \in [0..(Ways - 1) -> Entry]
    BY <1>6, DtlbIs DEF Step
  <2> QED BY <1>4, <1>6, <2>1, DtlbIs DEF Step
<1> QED BY <1>3, <1>5, <1>7

\* Every walk of the data TLB is that of a request, from its start to its end.
LEMMA OwnedStep ==
  ASSUME WalkInv, WalkOwned, NEW ev, NEW fetch, NEW acc, NEW rsp, NEW ack, NEW sw, NEW new,
         Inputs(ev, fetch, acc, rsp, ack, sw, new), Step(ev, fetch, acc, rsp, ack, sw, new)
  PROVE WalkOwned'
<1> SUFFICES ASSUME Walking', ~walk'.fetch
             PROVE /\ owner' = {walk'.idx}
                   /\ [idx |-> walk'.idx, page |-> walk'.page, store |-> walk'.store] \in want'
                   /\ \A k \in DOMAIN dtlb' : dtlb'[k].valid => dtlb'[k].page # walk'.page
  BY DEF WalkOwned
<1>1. TypeOK /\ WritesFit /\ want \subseteq Request
  BY DEF WalkInv, TypeOK
<1>2. Quiet(ev) /\ state \notin {"fill", "fault"}
  <2>1. state = "writeback" <=> wb # {}
    BY <1>1 DEF WritesFit
  <2> QED BY <2>1, WalkerIs DEF Walking
<1>3. /\ WalkFaults(ev) = {} /\ ~Fills(FALSE) /\ ~(ev.name \in {"flush", "fence"})
      /\ \A i \in owner : ~Kills(ev, i)
  BY <1>2 DEF WalkFaults, Fills, Quiet, Kills, Flushes
<1>4. owner' = IF Accepts(ev) /\ Misser(ev) # {} THEN {r.idx : r \in Misser(ev)} ELSE owner
  BY <1>3 DEF Step, OwnerNext
<1>5. CASE state # "idle"
  <2>1. /\ Walking /\ walk'.fetch = walk.fetch /\ walk'.page = walk.page
        /\ walk'.idx = walk.idx /\ walk'.store = walk.store
    <3>1. walk \in [page : Pages, store : BOOLEAN, fetch : BOOLEAN, idx : Idx, level : 0..TopLevel]
      BY <1>1 DEF TypeOK
    <3>2. walk' = walk \/ walk' = [walk EXCEPT !.level = @ - 1]
      BY <1>2, <1>5, WalkerIs DEF Walking
    <3>3. Walking
      <4>1. CASE state \in {"req", "wait"}
        BY <4>1 DEF Walking
      <4>2. CASE state = "writeback" /\ ~ack
        <5>1. wb' = wb /\ state' = state
          BY <1>2, <4>2, WalkerIs
        <5> QED BY <4>2, <5>1 DEF Walking
      <4>3. CASE state = "writeback" /\ ack
        <5>1. wb' = {}
          BY <1>2, <4>3, WalkerIs
        <5>2. state' # "idle"
          BY <5>1 DEF Walking
        <5>3. wb = {[write |-> [page |-> walk.page, pte |-> pte], fill |-> TRUE]}
          BY <1>2, <4>3, <5>2, WalkerIs
        <5>4. [write |-> [page |-> walk.page, pte |-> pte], fill |-> TRUE] \in wb
          BY <5>3
        <5> QED BY <5>4 DEF Walking
      <4>4. state \in {"req", "wait", "writeback"}
        BY <1>1, <1>2, <1>5 DEF TypeOK
      <4> QED BY <4>1, <4>2, <4>3, <4>4
    <3> QED BY <3>1, <3>2, <3>3
  <2> DEFINE r == [idx |-> walk.idx, page |-> walk.page, store |-> walk.store]
  <2>2. /\ owner = {walk.idx} /\ r \in want
        /\ \A k \in DOMAIN dtlb : dtlb[k].valid => dtlb[k].page # r.page
    BY <2>1 DEF WalkOwned
  <2>3. Match(r) = {} /\ r.page = walk.page
    BY <2>2 DEF Match
  <2>4. owner' = owner
    BY <1>4, <1>5 DEF Accepts
  <2>5. r \in want' /\ \A k \in DOMAIN dtlb' : dtlb'[k].valid => dtlb'[k].page # r.page
    BY <1>2, <2>2, <2>3, MissStays
  <2> QED BY <2>1, <2>2, <2>3, <2>4, <2>5
<1>6. CASE state = "idle"
  <2>1. wb = {}
    BY <1>1, <1>6 DEF WritesFit
  <2>2. pend = {} /\ ~stale /\ walk' \in Walks(ev, fetch)
    <3>1. ~Walking' \/ (pend = {} /\ ~stale /\ walk' \in Walks(ev, fetch))
      BY <1>6, <2>1, WalkerIs DEF Walking
    <3> QED BY <3>1
  <2>3. PICK r \in Misser(ev) :
           walk' = [page |-> r.page, store |-> r.store, fetch |-> FALSE, idx |-> r.idx,
                    level |-> TopLevel]
    BY <2>2 DEF Walks
  <2>4. r \in Lookup(ev) /\ Misses(r) /\ r \in want /\ r \in Request
    BY <1>1, LookupIs DEF Misser
  <2>5. Match(r) = {}
    BY <2>2, <2>4 DEF Misses, Hits, Upgrades
  <2>6. \A q \in Misser(ev) : q.idx = r.idx
    <3> TAKE q \in Misser(ev)
    <3>1. q \in Lookup(ev) /\ q \in want /\ q \in Request
      BY <1>1, LookupIs DEF Misser
    <3>2. q.idx <= r.idx /\ r.idx <= q.idx
      BY <2>4, <3>1 DEF Lookup
    <3>3. q.idx \in Int /\ r.idx \in Int
      BY <2>4, <3>1, MmuAssumption DEF Request, Idx
    <3> QED BY <3>2, <3>3
  <2>7. Accepts(ev)
    BY <1>2, <1>6, <2>2 DEF Accepts
  <2>8. owner' = {r.idx}
    BY <1>4, <2>3, <2>6, <2>7
  <2>9. r \in want' /\ \A k \in DOMAIN dtlb' : dtlb'[k].valid => dtlb'[k].page # r.page
    BY <1>2, <2>4, <2>5, MissStays
  <2>10. [idx |-> r.idx, page |-> r.page, store |-> r.store] = r
    BY <2>4 DEF Request
  <2> QED BY <2>3, <2>8, <2>9, <2>10
<1> QED BY <1>5, <1>6

\* And that holds in every behaviour.
LEMMA OwnedInvariant == Spec => [](WalkInv /\ WalkOwned)
<1>1. Init => WalkOwned
  BY DEF Init, WalkOwned, Walking
<1>2. WalkInv /\ WalkOwned /\ [Next]_vars => WalkOwned'
  <2> SUFFICES ASSUME WalkInv, WalkOwned, [Next]_vars PROVE WalkOwned'
    OBVIOUS
  <2>1. CASE Next
    <3>1. PICK ev \in Events, fetch \in Fetches, acc \in BOOLEAN, rsp \in BOOLEAN, ack \in BOOLEAN :
             \E sw \in SoftwareWrites(ev), new \in Arrivals(ev) :
                Step(ev, fetch, acc, rsp, ack, sw, new)
      BY <2>1 DEF Next
    <3>2. PICK sw \in SoftwareWrites(ev), new \in Arrivals(ev) :
             Step(ev, fetch, acc, rsp, ack, sw, new)
      BY <3>1
    <3>3. Inputs(ev, fetch, acc, rsp, ack, sw, new)
      BY DEF Inputs
    <3> QED BY <3>2, <3>3, OwnedStep
  <2>2. CASE UNCHANGED vars
    BY <2>2 DEF vars, WalkOwned, Walking
  <2> QED BY <2>1, <2>2
<1> QED BY <1>1, <1>2, WalkInvariant, PTL DEF Spec

\* However flushes, fences, fetches and loads and stores that come later cross
\* a walk, its fault is reported to the instruction that asked, which stays.
THEOREM FaultsAlwaysReachTheirOwner == Spec => FaultsReachTheirOwner
<1>1. WalkInv /\ WalkOwned /\ [Next]_vars => [\A r \in exc' : r \in want /\ r.idx \in done']_vars
  <2> SUFFICES ASSUME WalkInv, WalkOwned, Next, NEW r \in exc'
               PROVE r \in want /\ r.idx \in done'
    OBVIOUS
  <2>1. PICK ev \in Events, fetch \in Fetches, acc \in BOOLEAN, rsp \in BOOLEAN, ack \in BOOLEAN :
           \E sw \in SoftwareWrites(ev), new \in Arrivals(ev) :
              Step(ev, fetch, acc, rsp, ack, sw, new)
    BY DEF Next
  <2>2. PICK sw \in SoftwareWrites(ev), new \in Arrivals(ev) :
           Step(ev, fetch, acc, rsp, ack, sw, new)
    BY <2>1
  <2>3. want \subseteq Request
    BY DEF WalkInv, TypeOK
  <2>4. r \in Reported(ev)
    BY <2>2 DEF Step
  <2>5. r \in want /\ ~Flushes(ev, r.idx)
    <3>1. CASE r \in WalkFaults(ev)
      <4>1. /\ state = "fault" /\ ~walk.fetch /\ ~Kills(ev, walk.idx)
            /\ r = [idx |-> walk.idx, page |-> walk.page, store |-> walk.store]
        BY <3>1 DEF WalkFaults
      <4> QED BY <4>1 DEF WalkOwned, Walking, Kills
    <3>2. CASE r \notin WalkFaults(ev)
      <4>1. r \in Lookup(ev)
        BY <2>4, <3>2 DEF Reported
      <4> QED BY <2>3, <4>1, LookupIs DEF Flushes
    <3> QED BY <3>1, <3>2
  <2>6. r \in Answered(ev)
    BY <2>4, <2>5 DEF Answered
  <2> QED BY <2>2, <2>5, <2>6 DEF Step, Instructions
<1> QED BY <1>1, OwnedInvariant, PTL DEF Spec, FaultsReachTheirOwner

-----------------------------------------------------------------------------
\* Software keeps the accessed and dirty bits set in what it maps.
Managed == \A c \in Contents : c.kind # "bad" => c.a /\ c.d

Settled(x) == x.kind # "bad" => x.a /\ x.d

\* The walker has nothing to write, so memory holds what software last wrote;
\* a walk has read what is no older than the last fence, and so is an entry.
FenceInv ==
    /\ wb = {} /\ pend = {} /\ late = {}
    /\ \A p \in Pages :
          mem[p].ver = writes[p] /\ fenced[p] <= writes[p] /\ Settled(mem[p])
    /\ state = "wait" =>
          \A x \in bus[1].seen : fenced[walk.page] <= x.ver /\ Settled(x)
    /\ state = "fill" => fenced[walk.page] <= pte.ver /\ pte.d
    /\ \A k \in DOMAIN dtlb :
          dtlb[k].valid => dtlb[k].d /\ fenced[dtlb[k].page] <= dtlb[k].ver
    /\ itlb.valid => fenced[itlb.page] <= itlb.ver

\* An entry that has both bits is not changed by a walk.
LEMMA SettledStays ==
  ASSUME NEW p \in PTE, Settled(p), p.kind # "bad"
  PROVE WithAD(p) = p
BY DEF Settled, WithAD, PTE

\* What a read may have seen is an entry.
LEMMA SeenIs ==
  ASSUME TypeOK, OneRead, state = "wait", NEW x \in bus[1].seen
  PROVE x \in PTE
<1>1. bus \in Seq([page : Pages, seen : SUBSET PTE]) /\ Len(bus) = 1
  BY DEF TypeOK, OneRead
<1>2. bus[1] \in [page : Pages, seen : SUBSET PTE]
  <2>1. 1 \in 1..Len(bus)
    BY <1>1
  <2> QED BY <1>1, <2>1, ElementOfSeq, Zenon
<1> QED BY <1>2

\* A fence and the walk or the fill of its cycle.
LEMMA FenceStep ==
  ASSUME Managed, WalkInv, FenceInv,
         NEW ev, NEW fetch, NEW acc, NEW rsp, NEW ack, NEW sw, NEW new,
         Inputs(ev, fetch, acc, rsp, ack, sw, new), Step(ev, fetch, acc, rsp, ack, sw, new)
  PROVE FenceInv'
<1>1. /\ TypeOK /\ OneRead /\ WritesFit /\ ev \in Events /\ ack \in BOOLEAN
      /\ sw \in SoftwareWrites(ev) /\ Memory(ev, ack, sw)
      /\ pend' = PendNext(ev, ack) /\ DtlbNext(ev) /\ ItlbNext(ev)
      /\ ack => state = "writeback"
      /\ fenced' = IF ev.name = "fence" THEN writes ELSE fenced
  BY DEF WalkInv, Inputs, Step
<1>2. wb = {} /\ pend = {} /\ late = {} /\ state # "writeback" /\ Landing(ack) = {}
  BY <1>1 DEF FenceInv, WritesFit, Landing
<1>3. late' = {}
  BY <1>1, <1>2, MemIs
<1>4. pend' = {}
  <2>1. DOMAIN dtlb = 0..(Ways - 1)
    BY <1>1 DEF TypeOK
  <2>2. \A w \in pend' : \E k \in DOMAIN dtlb : dtlb[k].valid /\ ~dtlb[k].d
    BY <1>1, <1>2, PendIs
  <2> QED BY <2>2 DEF FenceInv
<1>5. ASSUME NEW p \in Pages
      PROVE /\ mem'[p].ver = writes'[p] /\ fenced'[p] <= writes'[p] /\ Settled(mem'[p])
            /\ mem[p].ver = writes[p] /\ Settled(mem[p])
            /\ fenced[p] <= writes[p] /\ writes[p] <= writes'[p]
            /\ ev.name = "fence" => writes'[p] = writes[p]
            /\ {writes[p], writes'[p], fenced[p]} \subseteq Nat
  <2>1. mem[p].ver = writes[p] /\ fenced[p] <= writes[p] /\ Settled(mem[p])
    BY DEF FenceInv
  <2>2. writes[p] \in Nat /\ fenced[p] \in Nat
    BY <1>1, MmuAssumption DEF TypeOK, Version
  <2>3. fenced'[p] = IF ev.name = "fence" THEN writes[p] ELSE fenced[p]
    BY <1>1
  <2>4. ev.name = "fence" => writes'[p] = writes[p]
    BY <1>1, MemIs
  <2>5. CASE mem'[p] = mem[p] /\ writes'[p] = writes[p]
    BY <2>1, <2>2, <2>3, <2>5
  <2>6. CASE writes'[p] = writes[p] + 1 /\ \E c \in Contents : mem'[p] = Content(c, writes'[p])
    <3>1. PICK c \in Contents : mem'[p] = Content(c, writes'[p])
      BY <2>6
    <3>2. mem'[p].ver = writes'[p] /\ mem'[p].kind = c.kind /\ mem'[p].a = c.a /\ mem'[p].d = c.d
      BY <3>1 DEF Content
    <3>3. Settled(mem'[p])
      BY <3>2 DEF Settled, Managed
    <3> HIDE DEF Settled
    <3> QED BY <2>1, <2>2, <2>3, <2>4, <2>6, <3>2, <3>3
  <2>7. \/ mem'[p] = mem[p] /\ writes'[p] = writes[p]
        \/ writes'[p] = writes[p] + 1 /\ \E c \in Contents : mem'[p] = Content(c, writes'[p])
    BY <1>1, <1>2, MemIs
  <2> QED BY <2>5, <2>6, <2>7
<1>6. ev.name # "fence" => fenced' = fenced
  BY <1>1
<1>7. walk \in [page : Pages, store : BOOLEAN, fetch : BOOLEAN, idx : Idx, level : 0..TopLevel]
  BY <1>1 DEF TypeOK
<1>8. ASSUME state' = "wait", NEW x \in bus'[1].seen
      PROVE fenced'[walk'.page] <= x.ver /\ Settled(x)
  <2>1. Quiet(ev) /\ walk' = walk /\ walk.page \in Pages
    BY <1>7, <1>8, OneReadStep, WalkerIs
  <2>2. fenced' = fenced
    BY <1>6, <2>1 DEF Quiet
  <2>3. x = mem[walk.page] \/ x = mem'[walk.page] \/ (state = "wait" /\ x \in bus[1].seen)
    BY <1>8, OneReadStep
  <2>4. CASE state = "wait" /\ x \in bus[1].seen
    BY <2>1, <2>2, <2>4 DEF FenceInv
  <2>5. CASE x = mem[walk.page] \/ x = mem'[walk.page]
    BY <1>5, <2>1, <2>2, <2>5
  <2> QED BY <2>3, <2>4, <2>5
<1>9. wb' = {} /\ (state' = "fill" => fenced'[walk'.page] <= pte'.ver /\ pte'.d)
  <2>1. CASE state = "wait" /\ Quiet(ev) /\ walk' = walk /\
             \E p \in bus[1].seen :
                 /\ pte' = WithAD(p)
                 /\ \/ state' = "fault" /\ UNCHANGED wb
                    \/ state' = "fill" /\ WithAD(p) = p /\ p.kind # "bad" /\ UNCHANGED wb
                    \/ /\ state' = "writeback" /\ WithAD(p) # p /\ p.kind # "bad"
                       /\ wb' = {[write |-> [page |-> walk.page, pte |-> pte'], fill |-> TRUE]}
    <3>1. PICK p \in bus[1].seen :
                 /\ pte' = WithAD(p)
                 /\ \/ state' = "fault" /\ UNCHANGED wb
                    \/ state' = "fill" /\ WithAD(p) = p /\ p.kind # "bad" /\ UNCHANGED wb
                    \/ /\ state' = "writeback" /\ WithAD(p) # p /\ p.kind # "bad"
                       /\ wb' = {[write |-> [page |-> walk.page, pte |-> pte'], fill |-> TRUE]}
      BY <2>1
    <3>2. fenced[walk.page] <= p.ver /\ Settled(p) /\ p \in PTE
      BY <1>1, <2>1, SeenIs DEF FenceInv
    <3>3. p.kind # "bad" => WithAD(p) = p /\ p.d
      BY <3>2, SettledStays DEF Settled
    <3>4. fenced' = fenced
      BY <1>6, <2>1 DEF Quiet
    <3> QED BY <1>2, <2>1, <3>1, <3>2, <3>3, <3>4
  <2>2. CASE wb' = {} /\ state' # "fill"
    BY <2>2
  <2>3. \/ state = "wait" /\ Quiet(ev) /\ walk' = walk /\
             \E p \in bus[1].seen :
                 /\ pte' = WithAD(p)
                 /\ \/ state' = "fault" /\ UNCHANGED wb
                    \/ state' = "fill" /\ WithAD(p) = p /\ p.kind # "bad" /\ UNCHANGED wb
                    \/ /\ state' = "writeback" /\ WithAD(p) # p /\ p.kind # "bad"
                       /\ wb' = {[write |-> [page |-> walk.page, pte |-> pte'], fill |-> TRUE]}
        \/ wb' = {} /\ state' # "fill"
    BY <1>2, WalkerIs
  <2> QED BY <2>1, <2>2, <2>3
<1>10. ASSUME Fills(FALSE) \/ Fills(TRUE) PROVE fenced[walk.page] <= pte.ver /\ pte.d
  BY <1>10 DEF Fills, FenceInv
<1>11. ASSUME NEW k \in DOMAIN dtlb', dtlb'[k].valid
       PROVE dtlb'[k].d /\ fenced'[dtlb'[k].page] <= dtlb'[k].ver
  <2>1. k \in 0..(Ways - 1) /\ dtlb \in [0..(Ways - 1) -> Entry]
    BY <1>1, DtlbIs DEF TypeOK
  <2>2. ev.name # "fence" /\ fenced' = fenced
    BY <1>1, <1>6, <1>11, DtlbIs
  <2>3. CASE dtlb[k].valid /\ dtlb'[k] = dtlb[k]
    BY <2>1, <2>2, <2>3 DEF FenceInv
  <2>4. CASE Fills(FALSE) /\ dtlb'[k] = FillEntry
    BY <1>1, <1>10, <2>2, <2>4, EntriesFit
  <2>5. (dtlb[k].valid /\ dtlb'[k] = dtlb[k]) \/ (Fills(FALSE) /\ dtlb'[k] = FillEntry)
    <3> DEFINE next == Filled(dtlb, dNext, Fills(FALSE), ev)
               up == {Min(Match(r)) : r \in {q \in Lookup(ev) : Upgrades(q)}}
    <3>1. up = {}
      <4>1. \A r \in Lookup(ev) : ~Upgrades(r)
        BY <1>1, <1>4, PendIs
      <4> QED BY <4>1
    <3>2. dtlb' = [i \in DOMAIN next |-> IF i \in up THEN [next[i] EXCEPT !.d = TRUE] ELSE next[i]]
      BY <1>1 DEF DtlbNext
    <3>3. next = IF Fills(FALSE) THEN [dtlb EXCEPT ![dNext] = FillEntry] ELSE dtlb
      BY <2>2 DEF Filled
    <3> HIDE DEF up, next
    <3>4. DOMAIN next = 0..(Ways - 1)
      BY <2>1, <3>3
    <3>5. dtlb'[k] = next[k]
      BY <2>1, <3>1, <3>2, <3>4
    <3>6. next[k] = dtlb[k] \/ (Fills(FALSE) /\ next[k] = FillEntry)
      BY <2>1, <3>3
    <3> QED BY <1>11, <3>5, <3>6
  <2> QED BY <2>3, <2>4, <2>5
<1>12. itlb'.valid => fenced'[itlb'.page] <= itlb'.ver
  <2>1. itlb' = IF ev.name = "fence" THEN Invalid ELSE IF Fills(TRUE) THEN FillEntry ELSE itlb
    BY <1>1, ItlbIs
  <2>2. CASE ev.name = "fence"
    BY <1>1, <2>1, <2>2, EntriesFit
  <2>3. CASE ev.name # "fence" /\ Fills(TRUE)
    BY <1>1, <1>6, <1>10, <2>1, <2>3, EntriesFit
  <2>4. CASE ev.name # "fence" /\ ~Fills(TRUE)
    BY <1>6, <2>1, <2>4 DEF FenceInv
  <2> QED BY <2>2, <2>3, <2>4
<1> QED BY <1>3, <1>4, <1>5, <1>8, <1>9, <1>11, <1>12 DEF FenceInv

\* While software keeps the accessed and dirty bits of what it maps set, no
\* translation read from an entry before software changed it is used once a
\* fence has come after the change, whatever walk the fence has met.
THEOREM FencesOrderTranslations ==
  ASSUME Managed PROVE Spec => []TranslationsFollowFences
<1>1. Init => FenceInv
  <2> SUFFICES ASSUME Init PROVE FenceInv
    OBVIOUS
  <2>1. ASSUME NEW p \in Pages
        PROVE mem[p].ver = writes[p] /\ fenced[p] <= writes[p] /\ Settled(mem[p])
    <3>1. PICK c \in Contents : mem[p] = Content(c, 0)
      BY DEF Init
    <3>2. writes[p] = 0 /\ fenced[p] = 0
      BY DEF Init
    <3> QED BY <3>1, <3>2 DEF Content, Settled, Managed
  <2>2. ~Invalid.valid
    BY DEF Invalid
  <2> QED BY <2>1, <2>2 DEF Init, FenceInv
<1>2. WalkInv /\ FenceInv /\ [Next]_vars => FenceInv'
  <2> SUFFICES ASSUME WalkInv, FenceInv, [Next]_vars PROVE FenceInv'
    OBVIOUS
  <2>1. CASE Next
    <3>1. PICK ev \in Events, fetch \in Fetches, acc \in BOOLEAN, rsp \in BOOLEAN, ack \in BOOLEAN :
             \E sw \in SoftwareWrites(ev), new \in Arrivals(ev) :
                Step(ev, fetch, acc, rsp, ack, sw, new)
      BY <2>1 DEF Next
    <3>2. PICK sw \in SoftwareWrites(ev), new \in Arrivals(ev) :
             Step(ev, fetch, acc, rsp, ack, sw, new)
      BY <3>1
    <3>3. Inputs(ev, fetch, acc, rsp, ack, sw, new)
      BY DEF Inputs
    <3> QED BY <3>2, <3>3, FenceStep
  <2>2. CASE UNCHANGED vars
    BY <2>2 DEF vars, FenceInv
  <2> QED BY <2>1, <2>2
<1>3. WalkInv /\ FenceInv => TranslationsFollowFences
  <2> SUFFICES ASSUME WalkInv, FenceInv, NEW e \in {dtlb[k] : k \in DOMAIN dtlb} \union {itlb}, e.valid
               PROVE e.ver >= fenced[e.page]
    BY DEF TranslationsFollowFences
  <2>1. e \in Entry /\ fenced \in [Pages -> Version]
    BY DEF WalkInv, TypeOK
  <2>2. e.ver \in Nat /\ fenced[e.page] \in Nat
    BY <2>1, MmuAssumption DEF Entry, Version
  <2>3. fenced[e.page] <= e.ver
    BY DEF FenceInv
  <2> QED BY <2>2, <2>3
<1> QED BY <1>1, <1>2, <1>3, WalkInvariant, PTL DEF Spec

-----------------------------------------------------------------------------
\* No version that is cached, read or about to be written is from the future.
VersionsFit ==
    /\ \A p \in Pages : mem[p].ver <= writes[p]
    /\ \A k \in DOMAIN dtlb : dtlb[k].valid => dtlb[k].ver <= writes[dtlb[k].page]
    /\ state = "wait" => \A x \in bus[1].seen : x.ver <= writes[walk.page]
    /\ state = "fill" \/ (\E w \in wb : w.fill) => pte.ver <= writes[walk.page]
    /\ \A w \in pend \union late : w.pte.ver <= writes[w.page]

\* Software has changed the entry of page p since version v, or a write of its
\* dirty bit waits.
Accounted(p, v) == writes[p] > v \/ \E w \in pend : w.page = p

\* What a read has seen dirty, and what the walker then has of it, is dirty in
\* memory.
WalkRecords ==
    /\ state = "wait" => \A x \in bus[1].seen :
          x.d => mem[walk.page].d \/ Accounted(walk.page, x.ver)
    /\ state = "fill" /\ pte.d => mem[walk.page].d \/ Accounted(walk.page, pte.ver)

\* Nothing that the walker has read or may still write takes the dirty bit of
\* a page cached as dirty away.
NothingClears ==
    \A k \in DOMAIN dtlb : dtlb[k].valid /\ dtlb[k].d =>
       LET p == dtlb[k].page
           v == dtlb[k].ver
       IN  /\ state = "wait" /\ walk.page = p => \A x \in bus[1].seen : x.d \/ Accounted(p, v)
           /\ \A w \in wb : w.write.page = p => w.write.pte.d \/ Accounted(p, v)
           /\ \A w \in late : w.page = p => w.pte.d \/ Accounted(p, v)
           /\ \/ mem[p].d \/ Accounted(p, v)
              \/ \E w \in late : w.page = p /\ w.pte.d

DirtyInv == VersionsFit /\ WalkRecords /\ NothingClears

\* Memory and the writes of software to one entry, after a cycle.
LEMMA PageIs ==
  ASSUME WalkInv, VersionsFit, NEW ev, NEW fetch, NEW acc, NEW rsp, NEW ack, NEW sw, NEW new,
         Inputs(ev, fetch, acc, rsp, ack, sw, new), Step(ev, fetch, acc, rsp, ack, sw, new),
         NEW p \in Pages
  PROVE /\ mem[p] \in PTE /\ mem'[p] \in PTE
        /\ writes[p] \in Nat /\ writes'[p] \in Nat /\ writes[p] <= writes'[p]
        /\ mem'[p].ver <= writes'[p] /\ mem[p].ver <= writes[p]
        /\ \/ /\ mem'[p] = mem[p] /\ writes'[p] = writes[p]
              /\ \A w \in Landing(ack) : w.page # p
           \/ /\ writes'[p] = writes[p]
              /\ \E w \in Landing(ack) : w.page = p /\ mem'[p] = w.pte
           \/ writes'[p] = writes[p] + 1 /\ Landing(ack) = {}
<1>1. /\ TypeOK /\ WritesFit /\ ev \in Events /\ ack \in BOOLEAN
      /\ sw \in SoftwareWrites(ev) /\ Memory(ev, ack, sw)
      /\ ack => state = "writeback"
  BY DEF WalkInv, Inputs, Step
<1>2. /\ mem' \in [Pages -> PTE] /\ writes' \in [Pages -> Version]
      /\ \/ /\ mem'[p] = mem[p] /\ writes'[p] = writes[p]
            /\ \A w \in Landing(ack) : w.page # p
         \/ /\ writes'[p] = writes[p]
            /\ \E w \in Landing(ack) : w.page = p /\ mem'[p] = w.pte
         \/ /\ writes'[p] = writes[p] + 1 /\ Landing(ack) = {}
            /\ \E c \in Contents : mem'[p] = Content(c, writes'[p])
  BY <1>1, MemIs
<1>3. mem[p] \in PTE /\ mem'[p] \in PTE /\ writes[p] \in Nat /\ writes'[p] \in Nat
  BY <1>1, <1>2, MmuAssumption DEF TypeOK, Version
<1>4. mem[p].ver <= writes[p] /\ writes[p] <= writes'[p]
  BY <1>2, <1>3 DEF VersionsFit
<1>5. ASSUME NEW w \in Landing(ack), w.page = p PROVE w.pte.ver <= writes[p]
  <2>1. CASE w \in late \/ w \in pend
    BY <1>5, <2>1 DEF VersionsFit
  <2>2. CASE w \notin late /\ w \notin pend
    <3>1. w \in {x.write : x \in wb}
      BY <2>2 DEF Landing
    <3>2. wb = {[write |-> [page |-> walk.page, pte |-> pte], fill |-> TRUE]}
      <4>1. wb # {} /\ wb # {[write |-> x, fill |-> FALSE] : x \in pend}
        BY <2>2, <3>1
      <4> QED BY <1>1, <4>1 DEF WritesFit
    <3>3. w = [page |-> walk.page, pte |-> pte] /\ \E x \in wb : x.fill
      BY <3>1, <3>2
    <3> QED BY <1>5, <3>3 DEF VersionsFit
  <2> QED BY <2>1, <2>2
<1>6. mem'[p].ver <= writes'[p]
  <2>1. CASE \E c \in Contents : mem'[p] = Content(c, writes'[p])
    BY <1>3, <2>1 DEF Content
  <2>2. CASE mem'[p] = mem[p] /\ writes'[p] = writes[p]
    BY <1>4, <2>2
  <2>3. CASE writes'[p] = writes[p] /\ \E w \in Landing(ack) : w.page = p /\ mem'[p] = w.pte
    BY <1>5, <2>3
  <2> QED BY <1>2, <2>1, <2>2, <2>3
<1> QED BY <1>2, <1>3, <1>4, <1>6

\* Versions stay behind the count of software's writes.
LEMMA VersionsStep ==
  ASSUME WalkInv, VersionsFit, NEW ev, NEW fetch, NEW acc, NEW rsp, NEW ack, NEW sw, NEW new,
         Inputs(ev, fetch, acc, rsp, ack, sw, new), Step(ev, fetch, acc, rsp, ack, sw, new)
  PROVE VersionsFit'
<1>1. /\ TypeOK /\ OneRead /\ WritesFit /\ ev \in Events /\ ack \in BOOLEAN
      /\ sw \in SoftwareWrites(ev) /\ Memory(ev, ack, sw)
      /\ pend' = PendNext(ev, ack) /\ DtlbNext(ev)
      /\ ack => state = "writeback"
  BY DEF WalkInv, Inputs, Step
<1>2. \A p \in Pages, v \in Nat : v <= writes[p] => v <= writes'[p]
  <2> TAKE p \in Pages, v \in Nat
  <2> QED BY PageIs
<1>3. \A p \in Pages : mem'[p].ver <= writes'[p]
  BY PageIs
<1>4. /\ walk \in [page : Pages, store : BOOLEAN, fetch : BOOLEAN, idx : Idx, level : 0..TopLevel]
      /\ dtlb \in [0..(Ways - 1) -> Entry] /\ pte \in PTE /\ pend \subseteq Write
      /\ late \subseteq Write /\ wb \subseteq [write : Write, fill : BOOLEAN]
  BY <1>1 DEF TypeOK
<1>5. \A x \in PTE : x.ver \in Nat
  BY MmuAssumption DEF PTE, Version
<1>6. ASSUME NEW k \in DOMAIN dtlb', dtlb'[k].valid PROVE dtlb'[k].ver <= writes'[dtlb'[k].page]
  <2>1. k \in 0..(Ways - 1)
    BY <1>1, DtlbIs
  <2>2. CASE dtlb[k].valid /\ dtlb'[k].page = dtlb[k].page /\ dtlb'[k].ver = dtlb[k].ver
    <3>1. dtlb[k].ver \in Nat /\ dtlb[k].page \in Pages
      BY <1>4, <2>1, MmuAssumption DEF Entry, Version
    <3>2. dtlb[k].ver <= writes[dtlb[k].page]
      BY <1>4, <2>1, <2>2 DEF VersionsFit
    <3> QED BY <1>2, <2>2, <3>1, <3>2
  <2>3. CASE Fills(FALSE) /\ dtlb'[k].page = walk.page /\ dtlb'[k].ver = pte.ver
    <3>1. pte.ver <= writes[walk.page] /\ pte.ver \in Nat /\ walk.page \in Pages
      BY <1>4, <1>5, <2>3 DEF VersionsFit, Fills
    <3> QED BY <1>2, <2>3, <3>1
  <2> QED BY <1>1, <1>6, <2>2, <2>3, DtlbIs
<1>7. ASSUME state' = "wait", NEW x \in bus'[1].seen PROVE x.ver <= writes'[walk'.page]
  <2>1. walk' = walk /\ walk.page \in Pages
    BY <1>4, <1>7, OneReadStep
  <2>2. x = mem[walk.page] \/ x = mem'[walk.page] \/ (state = "wait" /\ x \in bus[1].seen)
    BY <1>7, OneReadStep
  <2>3. CASE state = "wait" /\ x \in bus[1].seen
    <3>1. x \in PTE /\ x.ver <= writes[walk.page]
      BY <1>1, <2>3, SeenIs DEF VersionsFit
    <3> QED BY <1>2, <1>5, <2>1, <3>1
  <2>4. CASE x = mem'[walk.page]
    BY <1>3, <2>1, <2>4
  <2>5. CASE x = mem[walk.page]
    <3>1. x \in PTE /\ x.ver <= writes[walk.page]
      BY <2>1, <2>5, PageIs
    <3> QED BY <1>2, <1>5, <2>1, <3>1
  <2> QED BY <2>2, <2>3, <2>4, <2>5
<1>8. ASSUME state' = "fill" \/ (\E w \in wb' : w.fill) PROVE pte'.ver <= writes'[walk'.page]
  <2>1. CASE \/ state = "fill"
             \/ \E w \in wb : w.fill
    <3>1. pte' = pte /\ walk' = walk
      <4>1. state = "writeback"
        <5>1. state = "writeback" <=> wb # {}
          BY <1>1 DEF WritesFit
        <5>2. state = "fill" => FALSE
          BY <1>8, <5>1, WalkerIs
        <5> QED BY <2>1, <5>1, <5>2
      <4>2. Quiet(ev)
        BY <1>8, WalkerIs
      <4> QED BY <4>1, <4>2, WalkerIs
    <3>2. pte.ver <= writes[walk.page] /\ pte.ver \in Nat /\ walk.page \in Pages
      BY <1>4, <1>5, <2>1 DEF VersionsFit
    <3> QED BY <1>2, <3>1, <3>2
  <2>2. CASE state # "fill" /\ ~\E w \in wb : w.fill
    <3>1. state = "wait" /\ walk' = walk /\ \E p \in bus[1].seen : pte' = WithAD(p)
      <4>1. CASE state = "writeback"
        <5>1. \/ wb' = wb /\ state' = state
              \/ wb' = {} /\ state' = "idle"
              \/ wb = {[write |-> [page |-> walk.page, pte |-> pte], fill |-> TRUE]}
          BY <4>1, WalkerIs
        <5>2. [write |-> [page |-> walk.page, pte |-> pte], fill |-> TRUE].fill
          OBVIOUS
        <5>3. wb # {[write |-> [page |-> walk.page, pte |-> pte], fill |-> TRUE]}
          BY <2>2, <5>2
        <5> QED BY <1>8, <2>2, <4>1, <5>1, <5>3
      <4>2. CASE state # "writeback"
        <5>1. wb = {}
          BY <1>1, <4>2 DEF WritesFit
        <5>2. \A w \in {[write |-> x, fill |-> FALSE] : x \in pend} : ~w.fill
          OBVIOUS
        <5> QED BY <1>8, <2>2, <4>2, <5>1, <5>2, WalkerIs
      <4> QED BY <4>1, <4>2
    <3>2. PICK p \in bus[1].seen : pte' = WithAD(p)
      BY <3>1
    <3>3. p \in PTE /\ p.ver <= writes[walk.page]
      BY <1>1, <3>1, SeenIs DEF VersionsFit
    <3>4. pte'.ver = p.ver
      BY <3>2, <3>3 DEF WithAD, PTE
    <3> QED BY <1>2, <1>4, <1>5, <3>1, <3>3, <3>4
  <2> QED BY <2>1, <2>2
<1>9. ASSUME NEW w \in pend' \union late' PROVE w.pte.ver <= writes'[w.page]
  <2>1. CASE w \in pend' /\ pend = {}
    <3>1. PICK k \in DOMAIN dtlb : dtlb[k].valid /\ dtlb[k].page = w.page /\ dtlb[k].ver = w.pte.ver
      BY <1>1, <2>1, PendIs
    <3>2. dtlb[k].ver \in Nat /\ dtlb[k].page \in Pages /\ dtlb[k].ver <= writes[dtlb[k].page]
      BY <1>4, <3>1, MmuAssumption DEF Entry, Version, VersionsFit
    <3> QED BY <1>2, <3>1, <3>2
  <2>2. CASE w \in pend
    <3>1. w.pte.ver <= writes[w.page] /\ w.pte \in PTE /\ w.page \in Pages
      BY <1>4, <2>2 DEF VersionsFit, Write
    <3> QED BY <1>2, <1>5, <3>1
  <2>3. CASE w \in late' /\ w \notin pend
    <3>1. w \in {x.write : x \in wb}
      BY <1>1, <2>3, MemIs
    <3>2. wb = {[write |-> [page |-> walk.page, pte |-> pte], fill |-> TRUE]}
      <4>1. wb # {} /\ wb # {[write |-> x, fill |-> FALSE] : x \in pend}
        BY <2>3, <3>1
      <4> QED BY <1>1, <4>1 DEF WritesFit
    <3>3. w.page = walk.page /\ w.pte = pte /\ \E x \in wb : x.fill
      BY <3>1, <3>2
    <3>4. pte.ver <= writes[walk.page]
      BY <3>3 DEF VersionsFit
    <3> QED BY <1>2, <1>4, <1>5, <3>3, <3>4
  <2>4. w \in pend' /\ pend # {} => w \in pend
    BY <1>1, PendIs
  <2> QED BY <1>9, <2>1, <2>2, <2>3, <2>4
<1> QED BY <1>3, <1>6, <1>7, <1>8, <1>9 DEF VersionsFit

\* The record of a dirty page outlives the cycle: the write that waits goes on
\* waiting, or it is what memory now has.
LEMMA AccountedStays ==
  ASSUME WalkInv, VersionsFit, NEW ev, NEW fetch, NEW acc, NEW rsp, NEW ack, NEW sw, NEW new,
         Inputs(ev, fetch, acc, rsp, ack, sw, new), Step(ev, fetch, acc, rsp, ack, sw, new),
         NEW p \in Pages, NEW v \in Nat, Accounted(p, v)
  PROVE /\ writes'[p] > v \/ (\E w \in pend' : w.page = p) \/ mem'[p].d
        /\ writes'[p] > v \/ (\E w \in pend' : w.page = p) \/ (ack /\ Quiet(ev) /\ wb' = {})
<1>1. /\ TypeOK /\ WritesFit /\ ack \in BOOLEAN /\ pend' = PendNext(ev, ack)
      /\ ack => state = "writeback"
  BY DEF WalkInv, Inputs, Step
<1>2. writes[p] \in Nat /\ writes'[p] \in Nat /\ writes[p] <= writes'[p]
  BY PageIs
<1>3. CASE writes[p] > v
  BY <1>2, <1>3
<1>4. CASE \E w \in pend : w.page = p
  <2>1. CASE pend' = pend
    BY <1>4, <2>1
  <2>2. CASE /\ pend' = {} /\ ack /\ Quiet(ev)
             /\ wb = {[write |-> w, fill |-> FALSE] : w \in pend}
    <3>1. PICK w \in pend : w.page = p
      BY <1>4
    <3>2. [write |-> w, fill |-> FALSE] \in wb /\ [write |-> w, fill |-> FALSE].write = w
      BY <2>2
    <3>3. w \in Landing(ack)
      BY <2>2, <3>2 DEF Landing
    <3>4. wb' = {} /\ state = "writeback"
      BY <1>1, <2>2, WalkerIs
    <3>5. late = {}
      BY <1>1, <3>4 DEF WritesFit
    <3>6. Landing(ack) \subseteq pend
      BY <2>2, <3>5 DEF Landing
    <3>7. \E x \in Landing(ack) : x.page = p /\ mem'[p] = x.pte
      BY <3>1, <3>3, PageIs
    <3>8. mem'[p].d
      BY <1>1, <3>6, <3>7 DEF WritesFit
    <3> QED BY <2>2, <3>4, <3>8
  <2> QED BY <1>1, <1>4, <2>1, <2>2, PendIs
<1> QED BY <1>3, <1>4 DEF Accounted

\* An entry that is dirty in memory stays so, but for a write of software or
\* of the walker.
LEMMA DirtyStays ==
  ASSUME WalkInv, VersionsFit, NEW ev, NEW fetch, NEW acc, NEW rsp, NEW ack, NEW sw, NEW new,
         Inputs(ev, fetch, acc, rsp, ack, sw, new), Step(ev, fetch, acc, rsp, ack, sw, new),
         NEW p \in Pages, NEW v \in Nat, v <= writes[p],
         mem[p].d \/ Accounted(p, v),
         \A w \in Landing(ack) : w.page = p => w.pte.d \/ Accounted(p, v)
  PROVE mem'[p].d \/ writes'[p] > v \/ \E w \in pend' : w.page = p
<1>1. CASE Accounted(p, v)
  BY <1>1, AccountedStays
<1>2. CASE ~Accounted(p, v)
  BY <1>2, PageIs
<1> QED BY <1>1, <1>2

\* What the walker has read is recorded.
LEMMA RecordsStep ==
  ASSUME WalkInv, DirtyInv, NEW ev, NEW fetch, NEW acc, NEW rsp, NEW ack, NEW sw, NEW new,
         Inputs(ev, fetch, acc, rsp, ack, sw, new), Step(ev, fetch, acc, rsp, ack, sw, new)
  PROVE WalkRecords'
<1>1. /\ TypeOK /\ OneRead /\ WritesFit /\ VersionsFit /\ WalkRecords
      /\ ack => state = "writeback"
      /\ ack \in BOOLEAN
  BY DEF WalkInv, Inputs, Step, DirtyInv
<1>2. /\ walk \in [page : Pages, store : BOOLEAN, fetch : BOOLEAN, idx : Idx, level : 0..TopLevel]
      /\ pte \in PTE
  BY <1>1 DEF TypeOK
<1>3. \A x \in PTE : x.ver \in Nat
  BY MmuAssumption DEF PTE, Version
<1>4. state \in {"req", "wait"} => Landing(ack) = {}
  <2>1. state = "writeback" <=> wb # {}
    BY <1>1 DEF WritesFit
  <2> QED BY <1>1, <2>1 DEF WritesFit, Landing
<1>5. ASSUME state \in {"req", "wait"}, NEW x \in PTE, x.ver <= writes[walk.page], x.d,
             mem[walk.page].d \/ Accounted(walk.page, x.ver)
      PROVE mem'[walk.page].d \/ writes'[walk.page] > x.ver \/ \E w \in pend' : w.page = walk.page
  <2>1. walk.page \in Pages /\ x.ver \in Nat
    BY <1>2, <1>3
  <2> QED BY <1>1, <1>4, <1>5, <2>1, DirtyStays
<1>6. ASSUME state' = "wait", NEW x \in bus'[1].seen, x.d
      PROVE mem'[walk'.page].d \/ (writes'[walk'.page] > x.ver \/ \E w \in pend' : w.page = walk'.page)
  <2>1. walk' = walk /\ walk.page \in Pages /\ state \in {"req", "wait"}
    BY <1>2, <1>6, OneReadStep
  <2>2. x = mem[walk.page] \/ x = mem'[walk.page] \/ (state = "wait" /\ x \in bus[1].seen)
    BY <1>6, OneReadStep
  <2>3. CASE state = "wait" /\ x \in bus[1].seen
    <3>1. x \in PTE /\ x.ver <= writes[walk.page]
      BY <1>1, <2>3, SeenIs DEF VersionsFit
    <3>2. mem[walk.page].d \/ Accounted(walk.page, x.ver)
      BY <1>1, <1>6, <2>3 DEF WalkRecords
    <3> QED BY <1>5, <1>6, <2>1, <3>1, <3>2
  <2>4. CASE x = mem'[walk.page]
    BY <1>6, <2>1, <2>4
  <2>5. CASE x = mem[walk.page]
    <3>1. x \in PTE /\ x.ver <= writes[walk.page]
      BY <1>1, <2>1, <2>5, PageIs
    <3> QED BY <1>5, <1>6, <2>1, <2>5, <3>1
  <2> QED BY <2>2, <2>3, <2>4, <2>5
<1>7. ASSUME state' = "fill", pte'.d
      PROVE mem'[walk'.page].d \/ (writes'[walk'.page] > pte'.ver \/ \E w \in pend' : w.page = walk'.page)
  <2>1. CASE /\ state = "wait" /\ walk' = walk
             /\ \E p \in bus[1].seen : pte' = WithAD(p) /\ WithAD(p) = p
    <3>1. PICK p \in bus[1].seen : pte' = WithAD(p) /\ WithAD(p) = p
      BY <2>1
    <3>2. p \in PTE /\ p.ver <= writes[walk.page] /\ p.d
      BY <1>1, <1>7, <2>1, <3>1, SeenIs DEF VersionsFit
    <3>3. mem[walk.page].d \/ Accounted(walk.page, p.ver)
      BY <1>1, <2>1, <3>2 DEF WalkRecords
    <3> QED BY <1>5, <2>1, <3>1, <3>2, <3>3
  <2>2. CASE /\ state = "writeback" /\ ack /\ walk' = walk /\ pte' = pte
             /\ wb = {[write |-> [page |-> walk.page, pte |-> pte], fill |-> TRUE]}
    <3>1. late = {}
      BY <1>1, <2>2 DEF WritesFit
    <3>2. {w.write : w \in wb} = {[page |-> walk.page, pte |-> pte]}
      BY <2>2
    <3>3. Landing(ack) = {[page |-> walk.page, pte |-> pte]}
      BY <2>2, <3>1, <3>2 DEF Landing
    <3>4. mem'[walk.page] = pte
      <4>1. walk.page \in Pages
        BY <1>2
      <4>2. \E w \in Landing(ack) : w.page = walk.page
        BY <3>3
      <4>3. \E w \in Landing(ack) : w.page = walk.page /\ mem'[walk.page] = w.pte
        BY <1>1, <4>1, <4>2, PageIs
      <4> QED BY <3>3, <4>3
    <3> QED BY <1>7, <2>2, <3>4
  <2>3. \/ /\ state = "wait" /\ walk' = walk
           /\ \E p \in bus[1].seen : pte' = WithAD(p) /\ WithAD(p) = p
        \/ /\ state = "writeback" /\ ack /\ walk' = walk /\ pte' = pte
           /\ wb = {[write |-> [page |-> walk.page, pte |-> pte], fill |-> TRUE]}
    BY <1>7, WalkerIs
  <2> QED BY <2>1, <2>2, <2>3
<1> QED BY <1>6, <1>7 DEF WalkRecords, Accounted

\* What is cached as dirty stays recorded, unless a fill takes the place of the
\* entry that a store upgrades in the same cycle.
LEMMA NothingClearsStep ==
  ASSUME WalkInv, DirtyInv, ~ReplacesUpgraded,
         NEW ev, NEW fetch, NEW acc, NEW rsp, NEW ack, NEW sw, NEW new,
         Inputs(ev, fetch, acc, rsp, ack, sw, new), Step(ev, fetch, acc, rsp, ack, sw, new)
  PROVE NothingClears'
<1>1. /\ TypeOK /\ OneRead /\ WritesFit /\ VersionsFit /\ WalkRecords /\ NothingClears
      /\ ack => state = "writeback"
      /\ ack \in BOOLEAN /\ ev \in Events /\ sw \in SoftwareWrites(ev)
      /\ Memory(ev, ack, sw) /\ pend' = PendNext(ev, ack) /\ DtlbNext(ev)
  BY DEF WalkInv, Inputs, Step, DirtyInv
<1>2. /\ walk \in [page : Pages, store : BOOLEAN, fetch : BOOLEAN, idx : Idx, level : 0..TopLevel]
      /\ dtlb \in [0..(Ways - 1) -> Entry] /\ pte \in PTE
  BY <1>1 DEF TypeOK
<1> DEFINE Kept(p, v) == writes'[p] > v \/ \E w \in pend' : w.page = p
           Whole(p, v) ==
             /\ state' = "wait" /\ walk'.page = p => \A x \in bus'[1].seen : x.d \/ Kept(p, v)
             /\ \A w \in wb' : w.write.page = p => w.write.pte.d \/ Kept(p, v)
             /\ \A w \in late' : w.page = p => w.pte.d \/ Kept(p, v)
             /\ mem'[p].d \/ Kept(p, v) \/ \E w \in late' : w.page = p /\ w.pte.d
<1>3. SUFFICES ASSUME NEW k \in 0..(Ways - 1), dtlb'[k].valid, dtlb'[k].d,
                      NEW p \in Pages, NEW v \in Nat,
                      p = dtlb'[k].page, v = dtlb'[k].ver
               PROVE Whole(p, v)
  <2>1. \A i \in 0..(Ways - 1) : dtlb'[i].page \in Pages /\ dtlb'[i].ver \in Nat
    <3>1. dtlb' \in [0..(Ways - 1) -> Entry]
      BY <1>1, DtlbIs
    <3> QED BY <3>1, MmuAssumption DEF Entry, Version
  <2>2. DOMAIN dtlb' = 0..(Ways - 1)
    BY <1>1, DtlbIs
  <2> QED BY <2>1, <2>2 DEF NothingClears, Accounted
<1>5. CASE Kept(p, v)
  BY <1>5
<1>6. CASE ~Kept(p, v) /\ Fills(FALSE) /\ p = walk.page /\ v = pte.ver /\ pte.d
  <2>1. state = "fill" /\ wb = {} /\ late = {} /\ ~ack
    <3>1. state = "writeback" <=> wb # {}
      BY <1>1 DEF WritesFit
    <3> QED BY <1>1, <1>6, <3>1 DEF Fills, WritesFit
  <2>2. state' = "idle" /\ wb' = {} /\ late' = {}
    <3>1. state' = "idle" /\ wb' = {}
      BY <2>1, WalkerIs
    <3>2. late' \subseteq {w.write : w \in wb}
      BY <1>1, MemIs
    <3> QED BY <2>1, <3>1, <3>2
  <2>3. Landing(ack) = {}
    BY <2>1 DEF Landing
  <2>4. mem[p].d \/ Accounted(p, v)
    BY <1>1, <1>6, <2>1 DEF WalkRecords
  <2>5. v <= writes[p]
    BY <1>1, <1>6, <2>1 DEF VersionsFit
  <2>6. mem'[p].d \/ Kept(p, v)
    BY <1>1, <2>3, <2>4, <2>5, DirtyStays
  <2> QED BY <2>2, <2>6
<1>7. CASE ~Kept(p, v) /\ dtlb[k].valid /\ p = dtlb[k].page /\ v = dtlb[k].ver /\ dtlb[k].d
  <2>1. /\ state = "wait" /\ walk.page = p => \A x \in bus[1].seen : x.d \/ Accounted(p, v)
        /\ \A w \in wb : w.write.page = p => w.write.pte.d \/ Accounted(p, v)
        /\ \A w \in late : w.page = p => w.pte.d \/ Accounted(p, v)
        /\ \/ mem[p].d \/ Accounted(p, v)
           \/ \E w \in late : w.page = p /\ w.pte.d
        /\ v <= writes[p]
    <3> QED BY <1>1, <1>2, <1>7 DEF NothingClears, VersionsFit
  <2>2. Accounted(p, v) => mem'[p].d /\ ack /\ Quiet(ev) /\ wb' = {}
    BY <1>1, <1>7, AccountedStays
  <2>3. writes'[p] = writes[p]
    <3>1. writes[p] <= writes'[p] /\ writes'[p] \in Nat /\ writes[p] \in Nat
      BY <1>1, PageIs
    <3> QED BY <1>7, <2>1, <3>1
  <2>4. CASE Accounted(p, v)
    <3>1. state' # "wait" /\ late' = {}
      <4>1. late' = {}
        BY <1>1, <2>2, <2>4, MemIs
      <4>2. state = "writeback"
        BY <1>1, <2>2, <2>4
      <4> QED BY <4>1, <4>2, WalkerIs
    <3> QED BY <2>2, <2>4, <3>1
  <2>5. CASE ~Accounted(p, v)
    <3>1. ASSUME NEW w \in Landing(ack), w.page = p PROVE w.pte.d
      BY <2>1, <2>5, <3>1 DEF Landing
    <3>2. mem'[p].d
      <4>1. CASE mem[p].d
        BY <1>1, <2>3, <3>1, <4>1, PageIs
      <4>2. CASE \E w \in late : w.page = p /\ w.pte.d
        <5>1. \E w \in Landing(ack) : w.page = p
          BY <4>2 DEF Landing
        <5>2. \E w \in Landing(ack) : w.page = p /\ mem'[p] = w.pte
          BY <1>1, <5>1, PageIs
        <5> QED BY <3>1, <5>2
      <4> QED BY <2>1, <2>5, <4>1, <4>2
    <3>3. ASSUME state' = "wait", walk'.page = p, NEW x \in bus'[1].seen PROVE x.d
      <4>1. walk' = walk /\ (x = mem[p] \/ x = mem'[p] \/ (state = "wait" /\ x \in bus[1].seen))
        BY <3>3, OneReadStep
      <4>2. CASE x = mem[p]
        <5>1. late = {}
          <6>1. state # "idle"
            BY <3>3, OneReadStep
          <6> QED BY <1>1, <6>1 DEF WritesFit
        <5> QED BY <2>1, <2>5, <4>2, <5>1
      <4> QED BY <2>1, <2>5, <3>2, <3>3, <4>1, <4>2
    <3>4. ASSUME NEW w \in wb', w.write.page = p PROVE w.write.pte.d
      <4>1. CASE wb' = wb
        BY <2>1, <2>5, <3>4, <4>1
      <4>2. CASE wb' = {[write |-> x, fill |-> FALSE] : x \in pend}
        <5>1. PICK x \in pend : w = [write |-> x, fill |-> FALSE]
          BY <3>4, <4>2
        <5>2. x.pte.d
          BY <1>1 DEF WritesFit
        <5> QED BY <5>1, <5>2
      <4>3. CASE /\ state = "wait" /\ \E x \in bus[1].seen : pte' = WithAD(x)
                 /\ wb' = {[write |-> [page |-> walk.page, pte |-> pte'], fill |-> TRUE]}
        <5>1. PICK x \in bus[1].seen : pte' = WithAD(x)
          BY <4>3
        <5>2. w.write.page = walk.page /\ w.write.pte = pte'
          BY <3>4, <4>3
        <5>3. x \in PTE /\ x.d
          BY <1>1, <2>1, <2>5, <3>4, <4>3, <5>2, SeenIs
        <5>4. WithAD(x).d
          BY <5>3 DEF WithAD, PTE
        <5> QED BY <5>1, <5>2, <5>4
      <4>4. \/ wb' = wb
            \/ wb' = {[write |-> x, fill |-> FALSE] : x \in pend}
            \/ /\ state = "wait" /\ \E x \in bus[1].seen : pte' = WithAD(x)
               /\ wb' = {[write |-> [page |-> walk.page, pte |-> pte'], fill |-> TRUE]}
        BY <3>4, WalkerIs
      <4> QED BY <4>1, <4>2, <4>3, <4>4
    <3>5. ASSUME NEW w \in late', w.page = p PROVE w.pte.d
      <4>1. w \in {x.write : x \in wb}
        BY <1>1, MemIs
      <4> QED BY <2>1, <2>5, <3>5, <4>1
    <3> QED BY <3>2, <3>3, <3>4, <3>5
  <2> QED BY <2>4, <2>5
<1>8. \/ /\ dtlb[k].valid /\ p = dtlb[k].page /\ v = dtlb[k].ver
         /\ dtlb[k].d \/ \E w \in pend' : w.page = p
      \/ Fills(FALSE) /\ p = walk.page /\ v = pte.ver /\ pte.d
  BY <1>1, <1>3, DtlbIs
<1> QED BY <1>5, <1>6, <1>7, <1>8

\* The dirty bits are recorded from the start.
LEMMA DirtyInit == Init => DirtyInv
<1> SUFFICES ASSUME Init PROVE DirtyInv
  OBVIOUS
<1>1. ASSUME NEW p \in Pages PROVE mem[p].ver = 0 /\ writes[p] = 0
  <2>1. PICK c \in Contents : mem[p] = Content(c, 0)
    BY DEF Init
  <2> QED BY <2>1 DEF Init, Content
<1>2. ASSUME NEW k \in DOMAIN dtlb PROVE ~dtlb[k].valid
  BY <1>2 DEF Init, Invalid
<1> QED BY <1>1, <1>2 DEF Init, DirtyInv, VersionsFit, WalkRecords, NothingClears

\* They stay recorded in every cycle without that coincidence.
LEMMA DirtyStep ==
  WalkInv /\ DirtyInv /\ [Next]_vars /\ [~ReplacesUpgraded]_vars => DirtyInv'
<1> SUFFICES ASSUME WalkInv, DirtyInv, [Next]_vars, [~ReplacesUpgraded]_vars PROVE DirtyInv'
  OBVIOUS
<1>1. CASE Next /\ ~ReplacesUpgraded
  <2>1. PICK ev \in Events, fetch \in Fetches, acc \in BOOLEAN, rsp \in BOOLEAN, ack \in BOOLEAN :
           \E sw \in SoftwareWrites(ev), new \in Arrivals(ev) :
              Step(ev, fetch, acc, rsp, ack, sw, new)
    BY <1>1 DEF Next
  <2>2. PICK sw \in SoftwareWrites(ev), new \in Arrivals(ev) :
           Step(ev, fetch, acc, rsp, ack, sw, new)
    BY <2>1
  <2>3. Inputs(ev, fetch, acc, rsp, ack, sw, new)
    BY DEF Inputs
  <2>4. VersionsFit'
    BY <2>2, <2>3, VersionsStep DEF DirtyInv
  <2>5. WalkRecords'
    BY <2>2, <2>3, RecordsStep
  <2>6. NothingClears'
    BY <1>1, <2>2, <2>3, NothingClearsStep
  <2> QED BY <2>4, <2>5, <2>6 DEF DirtyInv
<1>2. CASE UNCHANGED vars
  BY <1>2 DEF vars, DirtyInv, VersionsFit, WalkRecords, NothingClears, Accounted
<1> QED BY <1>1, <1>2

\* What is cached as dirty is then dirty in memory, or accounted for.
LEMMA DirtyImplied == WalkInv /\ DirtyInv => DirtyIsRecorded
<1> SUFFICES ASSUME WalkInv, DirtyInv, NEW k \in DOMAIN dtlb, dtlb[k].valid, dtlb[k].d
             PROVE \/ mem[dtlb[k].page].d \/ writes[dtlb[k].page] > dtlb[k].ver
                   \/ \E w \in pend \union late : w.page = dtlb[k].page /\ w.pte.d
  BY DEF DirtyIsRecorded
<1>1. \A w \in pend : w.pte.d
  BY DEF WalkInv, WritesFit
<1> QED BY <1>1 DEF DirtyInv, NothingClears, Accounted

\* A page that the data TLB takes for dirty is dirty in memory, or its write is
\* on the way, or software has changed the entry since: whatever software, the
\* fences and the flushes do, unless in some cycle a walk refills the way that
\* a store upgrades.
THEOREM DirtyStaysRecorded ==
  Spec /\ [][~ReplacesUpgraded]_vars => []DirtyIsRecorded
<1> QED BY DirtyInit, DirtyStep, DirtyImplied, WalkInvariant, PTL DEF Spec

-----------------------------------------------------------------------------
\* How many fills ago way k was filled, if no fence has come since.
Age(k) == IF k < dNext THEN dNext - 1 - k ELSE dNext - 1 - k + Ways

\* The valid ways are those filled last, each with a page of its own.
RingInv ==
    /\ \E n \in 0..Ways : \A k \in 0..(Ways - 1) : dtlb[k].valid <=> Age(k) < n
    /\ \A j, k \in 0..(Ways - 1) :
          dtlb[j].valid /\ dtlb[k].valid /\ dtlb[j].page = dtlb[k].page => j = k

\* Without a fence a valid way stays valid, and so is the way that is filled.
LEMMA WaysStayValid ==
  ASSUME TypeOK, NEW ev, ev.name # "fence", DtlbNext(ev), NEW k \in 0..(Ways - 1),
         dtlb[k].valid \/ (Fills(FALSE) /\ k = dNext)
  PROVE dtlb'[k].valid
<1> DEFINE next == Filled(dtlb, dNext, Fills(FALSE), ev)
           up == {Min(Match(r)) : r \in {q \in Lookup(ev) : Upgrades(q)}}
<1>1. dtlb \in [0..(Ways - 1) -> Entry] /\ dNext \in 0..(Ways - 1)
  BY DEF TypeOK
<1>2. next = IF Fills(FALSE) THEN [dtlb EXCEPT ![dNext] = FillEntry] ELSE dtlb
  BY DEF Filled
<1>3. dtlb' = [i \in DOMAIN next |-> IF i \in up THEN [next[i] EXCEPT !.d = TRUE] ELSE next[i]]
  BY DEF DtlbNext
<1>4. FillEntry \in Entry /\ FillEntry.valid
  BY EntriesFit
<1> HIDE DEF next, up
<1>5. k \in DOMAIN next /\ next[k] \in Entry /\ next[k].valid
  BY <1>1, <1>2, <1>4
<1>6. dtlb'[k] = next[k] \/ dtlb'[k] = [next[k] EXCEPT !.d = TRUE]
  BY <1>3, <1>5
<1> QED BY <1>5, <1>6 DEF Entry

\* The ring is kept by every cycle: a page is filled only when no way has it.
LEMMA RingStep ==
  ASSUME WalkInv, WalkOwned, RingInv, NEW ev, NEW fetch, NEW acc, NEW rsp, NEW ack, NEW sw, NEW new,
         Inputs(ev, fetch, acc, rsp, ack, sw, new), Step(ev, fetch, acc, rsp, ack, sw, new)
  PROVE RingInv'
<1>1. /\ TypeOK /\ WritesFit /\ ack \in BOOLEAN /\ pend' = PendNext(ev, ack) /\ DtlbNext(ev)
      /\ ev \in Events
  BY DEF WalkInv, Inputs, Step
<1>2. /\ dtlb \in [0..(Ways - 1) -> Entry] /\ dNext \in 0..(Ways - 1)
      /\ Ways \in Nat \ {0}
  BY <1>1, MmuAssumption DEF TypeOK
<1>3. /\ dtlb' \in [0..(Ways - 1) -> Entry] /\ dNext' \in 0..(Ways - 1)
      /\ DOMAIN dtlb' = 0..(Ways - 1) /\ DOMAIN dtlb = 0..(Ways - 1)
  BY <1>1, <1>2, DtlbIs
<1>4. ASSUME NEW k \in 0..(Ways - 1), dtlb'[k].valid
      PROVE /\ ev.name # "fence"
            /\ \/ /\ ~(Fills(FALSE) /\ k = dNext)
                  /\ dtlb[k].valid /\ dtlb'[k].page = dtlb[k].page
               \/ Fills(FALSE) /\ k = dNext /\ dtlb'[k].page = walk.page
  <2>1. \A i \in DOMAIN dtlb' : dtlb'[i].valid =>
             /\ ev.name # "fence"
             /\ \/ /\ ~(Fills(FALSE) /\ i = dNext)
                   /\ dtlb[i].valid /\ dtlb'[i].page = dtlb[i].page
                   /\ dtlb'[i].ver = dtlb[i].ver
                   /\ dtlb'[i].d => \/ dtlb[i].d
                                    \/ \E w \in pend' : w.page = dtlb[i].page
                \/ /\ Fills(FALSE) /\ i = dNext
                   /\ dtlb'[i].page = walk.page /\ dtlb'[i].ver = pte.ver
                   /\ dtlb'[i].d => pte.d \/ ReplacesUpgraded
    BY <1>1, DtlbIs
  <2> QED BY <1>3, <1>4, <2>1
<1>5. Fills(FALSE) => \A k \in 0..(Ways - 1) : dtlb[k].valid => dtlb[k].page # walk.page
  BY <1>3 DEF Fills, WalkOwned, Walking
<1>6. PICK n \in 0..Ways : \A k \in 0..(Ways - 1) : dtlb[k].valid <=> Age(k) < n
  BY DEF RingInv
<1>7. \A j, k \in 0..(Ways - 1) :
         dtlb'[j].valid /\ dtlb'[k].valid /\ dtlb'[j].page = dtlb'[k].page => j = k
  BY <1>4, <1>5 DEF RingInv
<1>8. ev.name # "fence" => \A k \in 0..(Ways - 1) :
         dtlb'[k].valid <=> dtlb[k].valid \/ (Fills(FALSE) /\ k = dNext)
  <2> SUFFICES ASSUME ev.name # "fence", NEW k \in 0..(Ways - 1)
               PROVE dtlb'[k].valid <=> dtlb[k].valid \/ (Fills(FALSE) /\ k = dNext)
    OBVIOUS
  <2>1. dtlb[k].valid \/ (Fills(FALSE) /\ k = dNext) => dtlb'[k].valid
    BY <1>1, WaysStayValid
  <2>3. dtlb'[k].valid \in BOOLEAN /\ dtlb[k].valid \in BOOLEAN
    BY <1>2, <1>3 DEF Entry
  <2> QED BY <1>4, <2>1, <2>3
<1>9. \E m \in 0..Ways : \A k \in 0..(Ways - 1) :
         dtlb'[k].valid <=> (IF k < dNext' THEN dNext' - 1 - k ELSE dNext' - 1 - k + Ways) < m
  <2>1. CASE ev.name = "fence"
    <3>1. 0 \in 0..Ways
      BY <1>2
    <3>3. ASSUME NEW k \in 0..(Ways - 1)
          PROVE ~((IF k < dNext' THEN dNext' - 1 - k ELSE dNext' - 1 - k + Ways) < 0)
      <4>1. PICK d \in 0..(Ways - 1) : d = dNext'
        BY <1>3
      <4>2. ~((IF k < d THEN d - 1 - k ELSE d - 1 - k + Ways) < 0)
        BY <1>2
      <4> QED BY <4>1, <4>2
    <3>2. \A k \in 0..(Ways - 1) : ~dtlb'[k].valid
      BY <1>4, <2>1
    <3> QED BY <3>1, <3>2, <3>3
  <2>2. CASE ev.name # "fence" /\ ~Fills(FALSE)
    <3>1. dNext' = dNext
      BY <1>1, <2>2, DtlbIs
    <3> QED BY <1>6, <1>8, <2>2, <3>1 DEF Age
  <2>3. CASE ev.name # "fence" /\ Fills(FALSE)
    <3>1. dNext' = IF dNext = Ways - 1 THEN 0 ELSE dNext + 1
      BY <1>1, <2>3, DtlbIs
    <3>2. PICK m \in 0..Ways : m = IF n = Ways THEN Ways ELSE n + 1
      BY <1>2
    <3>3. ASSUME NEW k \in 0..(Ways - 1)
          PROVE Age(k) < n \/ k = dNext
                <=> (IF k < dNext' THEN dNext' - 1 - k ELSE dNext' - 1 - k + Ways) < m
      BY <1>2, <3>1, <3>2 DEF Age
    <3> QED BY <1>6, <1>8, <2>3, <3>3
  <2> QED BY <2>1, <2>2, <2>3
<1> QED BY <1>7, <1>9 DEF RingInv, Age

\* A TLB that can hold every page replaces none.
LEMMA NothingReplaced ==
  ASSUME Cardinality(Pages) <= Ways, WalkInv, WalkOwned, RingInv
  PROVE ~ReplacesUpgraded
<1> SUFFICES ASSUME ReplacesUpgraded PROVE FALSE
  OBVIOUS
<1>1. /\ dtlb \in [0..(Ways - 1) -> Entry] /\ dNext \in 0..(Ways - 1)
      /\ Ways \in Nat \ {0} /\ walk.page \in Pages /\ IsFiniteSet(Pages)
  BY MmuAssumption DEF WalkInv, TypeOK
<1>2. dtlb[dNext].valid /\ Fills(FALSE)
  BY DEF ReplacesUpgraded
<1>3. \A k \in 0..(Ways - 1) : dtlb[k].valid
  <2>1. PICK n \in 0..Ways : \A k \in 0..(Ways - 1) : dtlb[k].valid <=> Age(k) < n
    BY DEF RingInv
  <2>2. Age(dNext) = Ways - 1
    BY <1>1 DEF Age
  <2>3. n = Ways
    BY <1>1, <1>2, <2>1, <2>2
  <2>4. \A k \in 0..(Ways - 1) : Age(k) < Ways
    BY <1>1 DEF Age
  <2> QED BY <2>1, <2>3, <2>4
<1>4. \A k \in 0..(Ways - 1) : dtlb[k].page \in Pages \ {walk.page}
  BY <1>1, <1>2, <1>3 DEF Fills, WalkOwned, Walking, Entry
<1> DEFINE f == [k \in 0..(Ways - 1) |-> dtlb[k].page]
<1>5. f \in [0..(Ways - 1) -> Pages \ {walk.page}]
  BY <1>4
<1>6. \A j, k \in 0..(Ways - 1) : f[j] = f[k] => j = k
  BY <1>3 DEF RingInv
<1>7. IsFiniteSet(0..(Ways - 1)) /\ Cardinality(0..(Ways - 1)) = Ways
  BY <1>1, FS_Interval
<1>8. /\ IsFiniteSet(Pages \ {walk.page})
      /\ Cardinality(Pages \ {walk.page}) = Cardinality(Pages) - 1
  BY <1>1, FS_RemoveElement
<1>9. Cardinality(Pages) \in Nat
  BY <1>1, FS_CardinalityType
<1>10. Cardinality(Pages \ {walk.page}) < Cardinality(0..(Ways - 1))
  BY <1>1, <1>7, <1>8, <1>9
<1> HIDE DEF f
<1>11. \E x, y \in 0..(Ways - 1) : x # y /\ f[x] = f[y]
  <2> DEFINE S == 0..(Ways - 1)
             T == Pages \ {walk.page}
  <2>1. IsFiniteSet(S) /\ IsFiniteSet(T) /\ Cardinality(T) < Cardinality(S) /\ f \in [S -> T]
    BY <1>5, <1>7, <1>8, <1>10
  <2> HIDE DEF S, T
  <2>2. \E x, y \in S : x # y /\ f[x] = f[y]
    BY <2>1, FS_PigeonHole
  <2> QED BY <2>2 DEF S
<1> QED BY <1>6, <1>11

\* With a data TLB that can hold every page in use, that coincidence does not
\* come, and the dirty bits are recorded in every run.
THEOREM DirtyStaysRecordedWhenHeld ==
  ASSUME Cardinality(Pages) <= Ways PROVE Spec => []DirtyIsRecorded
<1>1. Init => RingInv
  <2> SUFFICES ASSUME Init PROVE RingInv
    OBVIOUS
  <2>1. \A k \in 0..(Ways - 1) : ~dtlb[k].valid
    BY DEF Init, Invalid
  <2>2. 0 \in 0..Ways /\ \A k \in 0..(Ways - 1) : ~(Age(k) < 0)
    BY MmuAssumption DEF Init, Age
  <2> QED BY <2>1, <2>2 DEF RingInv
<1>2. WalkInv /\ WalkOwned /\ RingInv /\ [Next]_vars => RingInv'
  <2> SUFFICES ASSUME WalkInv, WalkOwned, RingInv, [Next]_vars PROVE RingInv'
    OBVIOUS
  <2>1. CASE Next
    <3>1. PICK ev \in Events, fetch \in Fetches, acc \in BOOLEAN, rsp \in BOOLEAN, ack \in BOOLEAN :
             \E sw \in SoftwareWrites(ev), new \in Arrivals(ev) :
                Step(ev, fetch, acc, rsp, ack, sw, new)
      BY <2>1 DEF Next
    <3>2. PICK sw \in SoftwareWrites(ev), new \in Arrivals(ev) :
             Step(ev, fetch, acc, rsp, ack, sw, new)
      BY <3>1
    <3>3. Inputs(ev, fetch, acc, rsp, ack, sw, new)
      BY DEF Inputs
    <3> QED BY <3>2, <3>3, RingStep
  <2>2. CASE UNCHANGED vars
    BY <2>2 DEF vars, RingInv, Age
  <2> QED BY <2>1, <2>2
<1>3. WalkInv /\ WalkOwned /\ RingInv => [~ReplacesUpgraded]_vars
  BY NothingReplaced
<1> QED BY <1>1, <1>2, <1>3, OwnedInvariant, DirtyStaysRecorded, PTL DEF Spec
=============================================================================
