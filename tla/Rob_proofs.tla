----------------------------- MODULE Rob_proofs -----------------------------
(***************************************************************************)
(* Theorems about the reorder buffer, for every depth and width.           *)
(***************************************************************************)
EXTENDS Rob, Extremes_proofs, Sequences

\* The entry i places after another, the index wrapping once at most.
LEMMA AtIs ==
  ASSUME NEW b \in Index, NEW i \in 0..RobDepth
  PROVE /\ At(b, i) \in Index
        /\ At(b, i) = IF b + i < RobDepth THEN b + i ELSE b + i - RobDepth
BY RobAssumption DEF At, Index

\* How many entries an index is away from the head.
LEMMA AgeIs ==
  ASSUME head \in Index, NEW i \in Index
  PROVE /\ Age(i) \in 0..(RobDepth - 1)
        /\ Age(i) = IF i >= head THEN i - head ELSE i - head + RobDepth
BY RobAssumption DEF Age, Index

\* The k entries from h on are those less than k away from it.
LEMMA WindowIs ==
  ASSUME NEW h \in Index, NEW k \in 0..RobDepth, NEW i \in Index
  PROVE (\E j \in 0..(k - 1) : i = At(h, j)) <=> (i - h + RobDepth) % RobDepth < k
<1> DEFINE age == (i - h + RobDepth) % RobDepth
<1>1. /\ RobDepth \in Nat /\ h \in 0..(RobDepth - 1) /\ i \in 0..(RobDepth - 1)
      /\ age \in 0..(RobDepth - 1)
      /\ age = IF i >= h THEN i - h ELSE i - h + RobDepth
  BY RobAssumption DEF Index
<1> HIDE DEF age
<1>2. ASSUME NEW j \in 0..(k - 1), i = At(h, j) PROVE age < k
  <2>1. j \in 0..RobDepth
    BY <1>1
  <2>2. i = IF h + j < RobDepth THEN h + j ELSE h + j - RobDepth
    BY <1>2, <2>1, AtIs
  <2> QED BY <1>1, <2>1, <2>2
<1>3. ASSUME age < k PROVE \E j \in 0..(k - 1) : i = At(h, j)
  <2>1. age \in 0..(k - 1) /\ age \in 0..RobDepth
    BY <1>1, <1>3
  <2>2. At(h, age) = IF h + age < RobDepth THEN h + age ELSE h + age - RobDepth
    BY <2>1, AtIs
  <2>3. i = At(h, age)
    BY <1>1, <2>2
  <2> QED BY <2>1, <2>3
<1> QED BY <1>2, <1>3 DEF age

\* What is in flight, and what commits, by its distance from the head.
LEMMA InFlightIs ==
  ASSUME head \in Index, count \in 0..RobDepth
  PROVE /\ InFlight \subseteq Index
        /\ \A i \in Index : i \in InFlight <=> Age(i) < count
<1>1. ASSUME NEW i \in InFlight PROVE i \in Index
  <2>1. PICK j \in 0..(count - 1) : i = At(head, j)
    BY DEF InFlight
  <2>2. j \in 0..RobDepth
    BY RobAssumption
  <2> QED BY <2>1, <2>2, AtIs
<1>2. \A i \in Index : i \in InFlight <=> \E j \in 0..(count - 1) : i = At(head, j)
  BY DEF InFlight
<1> QED BY <1>1, <1>2, WindowIs DEF Age

\* The same after a step.
LEMMA InFlightNext ==
  ASSUME head' \in Index, count' \in 0..RobDepth, NEW i \in Index
  PROVE i \in InFlight' <=> Age(i)' < count'
<1>1. i \in InFlight' <=> \E j \in 0..(count' - 1) : i = At(head', j)
  BY DEF InFlight, At
<1> DEFINE h == head'
           k == count'
<1>2. (\E j \in 0..(k - 1) : i = At(h, j)) <=> (i - h + RobDepth) % RobDepth < k
  <2> HIDE DEF h, k
  <2>1. h \in Index /\ k \in 0..RobDepth
    BY DEF h, k
  <2> QED BY <2>1, WindowIs
<1> QED BY <1>1, <1>2 DEF Age

\* What commits is what is less than the count away from the head.
LEMMA CommittedIs ==
  ASSUME head \in Index, NEW c \in 0..RobDepth, NEW i \in Index
  PROVE i \in Committed(c) <=> Age(i) < c
<1>1. i \in Committed(c) <=> \E j \in 0..(c - 1) : i = At(head, j)
  BY DEF Committed
<1> QED BY <1>1, WindowIs DEF Age

\* The scan stops somewhere, and lets pass only ready entries of the window.
LEMMA ScanStops ==
  ASSUME TypeOK, NEW drained
  PROVE /\ ScanCount(drained) \in 0..PipeWidth /\ ScanCount(drained) <= count
        /\ \A i \in 0..(ScanCount(drained) - 1) :
              ~Blocks(i, drained) /\ (i < ScanCount(drained) - 1 => ~Ends(i))
<1> DEFINE Stop(n) == n < PipeWidth => Blocks(n, drained) \/ (n > 0 /\ Ends(n - 1))
           S == {k \in 1..(PipeWidth + 1) : Stop(k - 1)}
           n == ScanCount(drained)
<1>1. PipeWidth \in Nat /\ RobDepth \in Nat /\ PipeWidth < RobDepth /\ count \in 0..RobDepth
  BY RobAssumption DEF TypeOK
<1>2. Stop(PipeWidth)
  BY <1>1
<1> HIDE DEF Stop
<1>3. S \in SUBSET (1..(PipeWidth + 1)) /\ PipeWidth + 1 \in S /\ PipeWidth + 1 \in Nat
  BY <1>1, <1>2
<1>4. PICK k \in S : \A j \in S : k <= j
  <2> HIDE DEF S
  <2> QED BY <1>3, MinExists
<1>5. k - 1 \in 0..PipeWidth /\ Stop(k - 1)
  BY <1>1, <1>4
<1>6. ASSUME NEW i \in 0..(k - 1 - 1)
      PROVE ~Blocks(i, drained) /\ (i < k - 1 - 1 => ~Ends(i))
  <2>1. i + 1 \in 1..(PipeWidth + 1) /\ (i + 1) - 1 = i /\ i < PipeWidth /\ i \in Int /\ k \in Int
    BY <1>1, <1>5
  <2>2. i + 1 \notin S
    BY <1>4, <2>1
  <2>3. ~Stop(i)
    BY <2>1, <2>2
  <2>4. ASSUME i < k - 1 - 1 PROVE ~Ends(i)
    <3> DEFINE m == i + 1
    <3>1. m + 1 \in 1..(PipeWidth + 1) /\ (m + 1) - 1 = m /\ m < PipeWidth /\ m > 0
            /\ m - 1 = i /\ ~(k <= m + 1)
      BY <1>1, <1>5, <2>1, <2>4
    <3> HIDE DEF m
    <3>2. m + 1 \notin S
      BY <1>4, <3>1
    <3>3. ~Stop(m)
      BY <3>1, <3>2
    <3> QED BY <3>1, <3>3 DEF Stop
  <2> QED BY <2>1, <2>3, <2>4 DEF Stop
<1>7. /\ n \in 0..PipeWidth
      /\ \A i \in 0..(n - 1) : ~Blocks(i, drained) /\ (i < n - 1 => ~Ends(i))
  <2>1. \E a \in 0..PipeWidth :
           /\ \A i \in 0..(a - 1) : ~Blocks(i, drained) /\ (i < a - 1 => ~Ends(i))
           /\ a < PipeWidth => Blocks(a, drained) \/ (a > 0 /\ Ends(a - 1))
    BY <1>5, <1>6 DEF Stop
  <2> QED BY <2>1 DEF ScanCount
<1>8. n <= count
  <2> HIDE DEF n
  <2>1. CASE n = 0
    BY <1>1, <2>1
  <2>2. CASE n > 0
    <3>1. n - 1 \in 0..(n - 1)
      BY <1>7, <2>2
    <3>2. count > n - 1
      BY <1>7, <3>1 DEF Blocks, HeadValid
    <3> QED BY <1>1, <1>7, <3>2
  <2> QED BY <1>7, <2>1, <2>2
<1> QED BY <1>7, <1>8

\* So does the commit, which an interrupt stops altogether.
LEMMA CommitStops ==
  ASSUME TypeOK, NEW drained, NEW irq
  PROVE /\ CommitCount(drained, irq) \in 0..PipeWidth
        /\ CommitCount(drained, irq) <= count
        /\ \A i \in 0..(CommitCount(drained, irq) - 1) :
              /\ ~Blocks(i, drained)
              /\ HeadReady(i) /\ HeadValid(i) /\ ~Replays(i)
              /\ i < CommitCount(drained, irq) - 1 => ~Ends(i)
<1>1. PipeWidth \in Nat /\ count \in Nat
  BY RobAssumption DEF TypeOK
<1>2. CASE TakesInterrupt(ScanCount(drained), drained, irq)
  <2>1. CommitCount(drained, irq) = 0
    BY <1>2 DEF CommitCount
  <2> QED BY <1>1, <2>1
<1>3. CASE ~TakesInterrupt(ScanCount(drained), drained, irq)
  <2>1. CommitCount(drained, irq) = ScanCount(drained)
    BY <1>3 DEF CommitCount
  <2> QED BY <2>1, ScanStops DEF Blocks
<1> QED BY <1>2, <1>3

\* What the execution units report is about instructions in flight.
LEMMA ReportsShape ==
  ASSUME NEW R \in Reports
  PROVE R \subseteq Possible /\ R \subseteq Result
BY DEF Reports, Possible, kSubset

\* A writeback changes neither whether an entry is valid nor what it is.
LEMMA WrittenShape ==
  ASSUME NEW i, NEW e \in Entry, NEW faults
  PROVE /\ Written(i, e, faults) \in Entry
        /\ Written(i, e, faults).valid = e.valid
        /\ Written(i, e, faults).kind = e.kind
<1> DEFINE mine == {r \in wbr : r.idx = i}
           hit == i \in faults
           f == IF hit THEN [e EXCEPT !.ready = TRUE, !.exc = "trap"] ELSE e
           parts == {r.part : r \in mine}
           x == \E r \in mine : r.exc = "trap"
           m == \E r \in mine : r.misp
           v == i \in viol
<1>1. f \in Entry /\ f.valid = e.valid /\ f.kind = e.kind
  BY DEF Entry
<1>2. Written(i, e, faults) = WriteBack(f, parts, x, m, v)
  BY DEF Written
<1>3. x \in BOOLEAN /\ m \in BOOLEAN /\ v \in BOOLEAN
  OBVIOUS
<1> HIDE DEF f, parts, x, m, v
<1>4. /\ WriteBack(f, parts, x, m, v) \in Entry
      /\ WriteBack(f, parts, x, m, v).valid = f.valid
      /\ WriteBack(f, parts, x, m, v).kind = f.kind
  <2> DEFINE rd == \/ f.ready \/ v \/ "result" \in parts
                   \/ "addr" \in parts /\ (f.data \/ "data" \in parts)
                   \/ "data" \in parts /\ (f.addr \/ "addr" \in parts)
             ad == f.addr \/ "addr" \in parts
             da == f.data \/ "data" \in parts
             ex == IF v THEN "replay" ELSE IF x THEN "trap" ELSE f.exc
             mi == f.misp \/ m
  <2>1. WriteBack(f, parts, x, m, v) = [f EXCEPT !.ready = rd, !.addr = ad,
                                          !.data = da, !.exc = ex, !.misp = mi]
    BY DEF WriteBack
  <2>2. /\ rd \in BOOLEAN /\ ad \in BOOLEAN /\ da \in BOOLEAN /\ mi \in BOOLEAN
        /\ ex \in {"none", "trap", "replay"}
    BY <1>1, <1>3 DEF Entry
  <2> HIDE DEF rd, ad, da, ex, mi
  <2> QED BY <1>1, <2>1, <2>2 DEF Entry
<1> QED BY <1>1, <1>2, <1>4

(***************************************************************************)
(* What makes the ring consistent.  A partial flush recomputes the counter *)
(* from the two pointers, which cannot tell a full ring from an empty one; *)
(* the headroom bit, sampled a cycle earlier, keeps the branch that        *)
(* recovers a whole group away from the end.                               *)
(***************************************************************************)
RecoveryHasRoom ==
    headroom => \A r \in wbr :
                   r.misp => Age(r.idx) < count /\ Age(r.idx) < RobDepth - PipeWidth

RobInv == TypeOK /\ RingConsistent /\ RecoveryHasRoom

\* A branch whose misprediction is reported in a cycle does not commit in it.
LEMMA ReportedStays ==
  ASSUME TypeOK, NEW c \in 0..RobDepth, NEW r \in Possible, r.misp,
         \A i \in 0..(c - 1) : HeadReady(i)
  PROVE r.idx \in Index /\ c <= Age(r.idx) /\ Age(r.idx) < count
<1>1. /\ r.idx \in InFlight /\ r.part \in Outstanding(r.idx)
      /\ slot[r.idx].kind = "branch"
  BY DEF Possible
<1>2. r.idx \in Index /\ Age(r.idx) < count /\ Age(r.idx) \in Int
  BY <1>1, InFlightIs, AgeIs DEF TypeOK
<1>3. ~slot[r.idx].ready
  <2>1. Parts("branch") = {"result"}
    BY DEF Parts
  <2>2. r.part = "result" /\ "result" \notin Reported(r.idx)
    BY <1>1, <2>1 DEF Outstanding
  <2> QED BY <1>1, <2>2 DEF Reported
<1>4. ~(Age(r.idx) < c)
  <2>1. SUFFICES ASSUME Age(r.idx) < c PROVE FALSE
    OBVIOUS
  <2>2. PICK i \in 0..(c - 1) : r.idx = At(head, i)
    BY <1>2, <2>1, CommittedIs DEF TypeOK, Committed
  <2>3. HeadReady(i)
    BY <2>2
  <2> QED BY <1>1, <1>3, <2>2, <2>3 DEF HeadReady, Bypass
<1> QED BY <1>2, <1>4

\* The ages after the head has moved on by c.
LEMMA AgeMoves ==
  ASSUME head \in Index, NEW c \in 0..RobDepth, head' = At(head, c), NEW i \in Index
  PROVE /\ head' \in Index
        /\ Age(i)' = IF Age(i) >= c THEN Age(i) - c ELSE Age(i) - c + RobDepth
        /\ Age(i)' \in 0..(RobDepth - 1)
<1>1. /\ head' \in Index
      /\ head' = IF head + c < RobDepth THEN head + c ELSE head + c - RobDepth
  BY AtIs
<1>2. /\ Age(i) \in 0..(RobDepth - 1)
      /\ Age(i) = IF i >= head THEN i - head ELSE i - head + RobDepth
  BY AgeIs
<1>3. /\ Age(i)' \in 0..(RobDepth - 1)
      /\ Age(i)' = IF i >= head' THEN i - head' ELSE i - head' + RobDepth
  BY <1>1, RobAssumption DEF Age, Index
<1> QED BY <1>1, <1>2, <1>3, RobAssumption DEF Index

\* A fresh entry is one, with what its kind says; a blank entry is not valid.
LEMMA FreshShape ==
  ASSUME NEW k \in AllKinds
  PROVE /\ Fresh(k) \in Entry /\ Fresh(k).valid = TRUE /\ Fresh(k).kind = k
        /\ Fresh(k).exc = IF k = "bad" THEN "trap" ELSE "none"
        /\ Fresh(k).ready <=> k \in {"zero", "bad"}
        /\ ~Fresh(k).addr /\ ~Fresh(k).data /\ ~Fresh(k).misp
<1> DEFINE r == k \in {"zero", "bad"}
           x == IF k = "bad" THEN "trap" ELSE "none"
<1>1. r \in BOOLEAN /\ x \in {"none", "trap", "replay"} /\ (r <=> k \in {"zero", "bad"})
      /\ x = IF k = "bad" THEN "trap" ELSE "none"
  OBVIOUS
<1>2. Fresh(k) = [valid |-> TRUE, ready |-> r, kind |-> k, addr |-> FALSE,
                  data |-> FALSE, exc |-> x, misp |-> FALSE]
  BY DEF Fresh
<1> HIDE DEF r, x
<1>3. /\ Fresh(k) \in Entry /\ Fresh(k).valid = TRUE /\ Fresh(k).kind = k
      /\ Fresh(k).exc = x /\ Fresh(k).ready = r
      /\ ~Fresh(k).addr /\ ~Fresh(k).data /\ ~Fresh(k).misp
  BY <1>1, <1>2 DEF Entry
<1> QED BY <1>1, <1>3

LEMMA BlankShape == Blank \in Entry /\ Blank.valid = FALSE
<1>1. "alu" \in AllKinds
  BY DEF AllKinds
<1>2. Fresh("alu") \in Entry
  BY <1>1, FreshShape
<1> HIDE DEF Fresh
<1> QED BY <1>2 DEF Blank, Entry

\* What the entries become in an ordinary cycle: those allocated are valid,
\* those committed are not, the others are as they were.
LEMMA CycleSlots ==
  ASSUME TypeOK, RingConsistent, NEW n \in 0..PipeWidth, n <= RobDepth - count,
         NEW new \in [0..(n - 1) -> Kinds], NEW c \in 0..PipeWidth, c <= count,
         NEW faults
  PROVE /\ NextSlots(new, c, faults) \in [Index -> Entry]
        /\ \A i \in Index : NextSlots(new, c, faults)[i].valid
                              <=> c <= Age(i) /\ Age(i) < count + n
        /\ \A i \in Index : c <= Age(i) =>
              IF count <= Age(i) /\ Age(i) < count + n
              THEN \E k \in Kinds :
                      NextSlots(new, c, faults)[i] = Written(i, Fresh(k), faults)
              ELSE NextSlots(new, c, faults)[i] = Written(i, slot[i], faults)
<1>1. /\ RobDepth \in Nat /\ PipeWidth \in Nat /\ PipeWidth < RobDepth
      /\ head \in Index /\ tail \in Index /\ count \in 0..RobDepth
      /\ slot \in [Index -> Entry] /\ Index = 0..(RobDepth - 1)
      /\ Kinds \subseteq AllKinds
  BY RobAssumption DEF TypeOK, Index
<1>2. \A k \in AllKinds : Fresh(k) \in Entry /\ Fresh(k).valid = TRUE
  BY FreshShape
<1>3. Blank \in Entry /\ Blank.valid = FALSE
  BY BlankShape
<1> DEFINE taken(i) == \E k \in 0..(n - 1) : i = At(tail, k)
           alloc == [i \in Index |->
                        IF \E k \in DOMAIN new : i = At(tail, k)
                        THEN Fresh(new[CHOOSE k \in DOMAIN new : i = At(tail, k)])
                        ELSE slot[i]]
<1>4. DOMAIN new = 0..(n - 1)
  OBVIOUS
<1>5. ASSUME NEW i \in Index
      PROVE /\ alloc[i] \in Entry /\ (alloc[i].valid <=> taken(i) \/ slot[i].valid)
            /\ IF taken(i) THEN \E k \in Kinds : alloc[i] = Fresh(k)
               ELSE alloc[i] = slot[i]
  <2>1. CASE taken(i)
    <3> DEFINE k == CHOOSE k \in 0..(n - 1) : i = At(tail, k)
    <3>1. k \in 0..(n - 1)
      BY <2>1
    <3>2. alloc[i] = Fresh(new[k])
      BY <1>4, <2>1
    <3> HIDE DEF k, alloc
    <3>3. new[k] \in Kinds /\ new[k] \in AllKinds
      BY <1>1, <3>1
    <3> QED BY <1>2, <2>1, <3>2, <3>3
  <2>2. CASE ~taken(i)
    <3>1. alloc[i] = slot[i]
      BY <1>4, <2>2
    <3> HIDE DEF alloc
    <3> QED BY <1>1, <2>2, <3>1
  <2> QED BY <2>1, <2>2
<1>6. ASSUME NEW i \in Index
      PROVE taken(i) <=> count <= Age(i) /\ Age(i) < count + n
  <2>1. /\ Age(i) \in 0..(RobDepth - 1) /\ i \in 0..(RobDepth - 1)
        /\ head \in 0..(RobDepth - 1)
        /\ Age(i) = IF i >= head THEN i - head ELSE i - head + RobDepth
    BY <1>1, AgeIs
  <2>2. tail = IF head + count < RobDepth THEN head + count ELSE head + count - RobDepth
    BY <1>1, AtIs DEF RingConsistent
  <2>3. ASSUME NEW k \in 0..(n - 1)
        PROVE At(tail, k) = IF tail + k < RobDepth THEN tail + k ELSE tail + k - RobDepth
    <3>1. k \in 0..RobDepth
      BY <1>1
    <3> QED BY <1>1, <3>1, AtIs
  <2>4. ASSUME NEW k \in 0..(n - 1), i = At(tail, k)
        PROVE count <= Age(i) /\ Age(i) < count + n
    BY <1>1, <2>1, <2>2, <2>3, <2>4
  <2>5. ASSUME count <= Age(i), Age(i) < count + n PROVE taken(i)
    <3> DEFINE k == Age(i) - count
    <3>1. k \in 0..(n - 1)
      BY <1>1, <2>1, <2>5
    <3>2. i = At(tail, k)
      BY <1>1, <2>1, <2>2, <2>3, <2>5, <3>1
    <3> QED BY <3>1, <3>2
  <2> QED BY <2>4, <2>5
<1>7. ASSUME NEW i \in Index
      PROVE i \in Committed(c) <=> Age(i) < c
  <2>1. c \in 0..RobDepth
    BY <1>1
  <2> QED BY <1>1, <2>1, CommittedIs
<1>8. \A i \in Index : slot[i].valid <=> Age(i) < count
  BY <1>1, InFlightIs DEF RingConsistent
<1>9. NextSlots(new, c, faults)
        = [i \in Index |-> IF i \in Committed(c) THEN Blank
                            ELSE Written(i, alloc[i], faults)]
  BY DEF NextSlots
<1> HIDE DEF alloc, taken
<1>10. ASSUME NEW i \in Index
       PROVE /\ NextSlots(new, c, faults)[i] \in Entry
             /\ NextSlots(new, c, faults)[i].valid <=> c <= Age(i) /\ Age(i) < count + n
             /\ c <= Age(i) =>
                  IF count <= Age(i) /\ Age(i) < count + n
                  THEN \E k \in Kinds :
                          NextSlots(new, c, faults)[i] = Written(i, Fresh(k), faults)
                  ELSE NextSlots(new, c, faults)[i] = Written(i, slot[i], faults)
  <2>1. Age(i) \in Int /\ c \in Int /\ n \in Nat
    BY <1>1, AgeIs
  <2>2. CASE i \in Committed(c)
    <3>1. NextSlots(new, c, faults)[i] = Blank /\ Age(i) < c
      BY <1>7, <1>9, <2>2
    <3> QED BY <1>3, <2>1, <3>1
  <2>3. CASE i \notin Committed(c)
    <3>1. NextSlots(new, c, faults)[i] = Written(i, alloc[i], faults)
      BY <1>9, <2>3
    <3>2. Written(i, alloc[i], faults) \in Entry
            /\ Written(i, alloc[i], faults).valid = alloc[i].valid
      BY <1>5, WrittenShape
    <3>3. alloc[i].valid <=> (count <= Age(i) /\ Age(i) < count + n) \/ Age(i) < count
      BY <1>5, <1>6, <1>8
    <3>4. ~(Age(i) < c)
      BY <1>7, <2>3
    <3>5. IF taken(i)
          THEN \E k \in Kinds :
                  NextSlots(new, c, faults)[i] = Written(i, Fresh(k), faults)
          ELSE NextSlots(new, c, faults)[i] = Written(i, slot[i], faults)
      BY <1>5, <3>1
    <3> QED BY <1>1, <1>6, <2>1, <3>1, <3>2, <3>3, <3>4, <3>5
  <2> QED BY <2>2, <2>3
<1> QED BY <1>9, <1>10

\* What may enter in a cycle: a group, if there is room for a whole one.
LEMMA AllocationsShape ==
  ASSUME TypeOK, NEW new \in Allocations
  PROVE /\ Cardinality(DOMAIN new) \in 0..PipeWidth
        /\ Cardinality(DOMAIN new) <= RobDepth - count
        /\ new \in [0..(Cardinality(DOMAIN new) - 1) -> Kinds]
        /\ refill => Cardinality(DOMAIN new) = 0
<1>1. PICK n \in IF AllocReady /\ ~refill THEN 0..PipeWidth ELSE {0} :
         new \in [0..(n - 1) -> Kinds]
  BY DEF Allocations
<1>2. /\ n \in 0..PipeWidth /\ n <= RobDepth - count /\ (refill => n = 0)
      /\ PipeWidth \in Nat /\ count \in 0..RobDepth /\ RobDepth \in Nat
  BY RobAssumption DEF AllocReady, TypeOK
<1>3. Cardinality(0..(n - 1)) = n
  <2>1. 0 \in Int /\ n - 1 \in Int /\ (0 > n - 1 => n = 0) /\ n - 1 - 0 + 1 = n
    BY <1>2
  <2> QED BY <2>1, FS_Interval
<1> QED BY <1>1, <1>2, <1>3

\* An ordinary cycle keeps the ring, its counter and its valid bits together.
LEMMA CycleKeepsRing ==
  ASSUME RobInv, NEW drained, NEW new \in Allocations, NEW R \in Reports,
         NEW faults, NEW V \in SUBSET Contradicted(R), Cycle(new, R, V, faults, drained)
  PROVE RobInv'
<1> DEFINE n == Cardinality(DOMAIN new)
           c == CommitCount(drained, FALSE)
<1>1. /\ TypeOK /\ RingConsistent
      /\ RobDepth \in Nat /\ PipeWidth \in Nat /\ PipeWidth < RobDepth
      /\ head \in Index /\ tail \in Index /\ count \in 0..RobDepth
      /\ Index = 0..(RobDepth - 1)
  BY RobAssumption DEF RobInv, TypeOK, Index
<1>2. /\ n \in 0..PipeWidth /\ n <= RobDepth - count
      /\ new \in [0..(n - 1) -> Kinds]
  BY <1>1, AllocationsShape
<1>3. /\ c \in 0..PipeWidth /\ c <= count
      /\ \A i \in 0..(c - 1) : HeadReady(i)
  BY <1>1, CommitStops
<1>4. /\ wbr' = R /\ tail' = At(tail, n) /\ viol' = Oldest(V)
      /\ head' = At(head, c) /\ count' = count + n - c
      /\ slot' = NextSlots(new, c, faults)
      /\ headroom' \in IF AllocReady THEN BOOLEAN ELSE {FALSE}
      /\ refill' = FALSE /\ retired' = c
      /\ stale' = (stale \union V) \ Committed(c)
  BY DEF Cycle
<1> HIDE DEF n, c
<1>5. /\ c \in 0..RobDepth /\ n \in 0..RobDepth /\ count' \in 0..RobDepth
  BY <1>1, <1>2, <1>3, <1>4
<1>6. /\ head' \in Index /\ tail' \in Index
  BY <1>1, <1>4, <1>5, AtIs
<1>7. /\ slot' \in [Index -> Entry]
      /\ \A i \in Index : slot'[i].valid <=> c <= Age(i) /\ Age(i) < count + n
  BY <1>1, <1>2, <1>3, <1>4, CycleSlots
<1>8. V \subseteq Index
  BY <1>1, InFlightIs DEF Contradicted
<1>9. TypeOK'
  <2>1. viol' \subseteq Index /\ stale' \subseteq Index
    BY <1>1, <1>4, <1>8 DEF Oldest, TypeOK
  <2>2. wbr' \subseteq Result
    BY <1>4, ReportsShape
  <2> QED BY <1>3, <1>4, <1>5, <1>6, <1>7, <2>1, <2>2 DEF TypeOK
<1>10. ASSUME NEW i \in Index
       PROVE /\ Age(i) \in 0..(RobDepth - 1)
             /\ Age(i)' = IF Age(i) >= c THEN Age(i) - c ELSE Age(i) - c + RobDepth
  BY <1>1, <1>4, <1>5, AgeIs, AgeMoves
<1>11. RingConsistent'
  <2>1. tail' = At(head', count')
    <3>1. tail = IF head + count < RobDepth THEN head + count ELSE head + count - RobDepth
      BY <1>1, AtIs DEF RingConsistent
    <3>2. tail' = IF tail + n < RobDepth THEN tail + n ELSE tail + n - RobDepth
      BY <1>1, <1>4, <1>5, AtIs
    <3>3. head' = IF head + c < RobDepth THEN head + c ELSE head + c - RobDepth
      BY <1>1, <1>4, <1>5, AtIs
    <3> DEFINE h == head'
               k == count'
    <3>4. At(h, k) = IF h + k < RobDepth THEN h + k ELSE h + k - RobDepth
      <4>1. h \in Index /\ k \in 0..RobDepth
        BY <1>5, <1>6
      <4> HIDE DEF h, k
      <4> QED BY <4>1, AtIs
    <3>5. /\ head \in 0..(RobDepth - 1) /\ count \in Nat /\ n \in Nat /\ c \in Nat
          /\ c <= count /\ n <= RobDepth - count /\ n < RobDepth /\ c < RobDepth
      BY <1>1, <1>2, <1>3
    <3>6. count' = count + n - c
      BY <1>4
    <3> HIDE DEF h, k
    <3>7. h = head' /\ k = count'
      BY DEF h, k
    <3>8. tail' = At(h, k)
      BY <1>1, <3>1, <3>2, <3>3, <3>4, <3>5, <3>6, <3>7
    <3> QED BY <3>7, <3>8
  <2>2. ASSUME NEW i \in Index PROVE slot'[i].valid <=> i \in InFlight'
    <3>1. i \in InFlight' <=> Age(i)' < count'
      BY <1>5, <1>6, InFlightNext
    <3>2. Age(i)' < count' <=> c <= Age(i) /\ Age(i) < count + n
      <4>1. /\ Age(i) \in 0..(RobDepth - 1) /\ count' = count + n - c
            /\ count \in Nat /\ n \in Nat /\ c \in Nat /\ c <= count
            /\ n <= RobDepth - count
        BY <1>1, <1>2, <1>3, <1>4, <1>10
      <4>2. CASE Age(i) >= c
        <5>1. Age(i)' = Age(i) - c
          BY <1>10, <4>2
        <5> QED BY <1>1, <4>1, <4>2, <5>1
      <4>3. CASE ~(Age(i) >= c)
        <5>1. Age(i)' = Age(i) - c + RobDepth
          BY <1>10, <4>3
        <5> QED BY <1>1, <4>1, <4>3, <5>1
      <4> QED BY <4>2, <4>3
    <3> QED BY <1>7, <3>1, <3>2
  <2> QED BY <2>1, <2>2 DEF RingConsistent, At
<1>12. RecoveryHasRoom'
  <2>1. ASSUME headroom', NEW r \in wbr', r.misp
        PROVE Age(r.idx)' < count' /\ Age(r.idx)' < RobDepth - PipeWidth
    <3>1. count <= RobDepth - PipeWidth
      <4>1. AllocReady
        BY <1>4, <2>1
      <4> QED BY <1>1, <4>1 DEF AllocReady
    <3>2. r \in Possible
      BY <1>4, <2>1, ReportsShape
    <3>3. r.idx \in Index /\ c <= Age(r.idx) /\ Age(r.idx) < count
      BY <1>1, <1>3, <1>5, <2>1, <3>2, ReportedStays
    <3>4. Age(r.idx)' = Age(r.idx) - c /\ Age(r.idx) \in Int
      BY <1>1, <1>3, <1>10, <3>3
    <3> QED BY <1>1, <1>2, <1>3, <1>4, <3>1, <3>3, <3>4
  <2> QED BY <2>1 DEF RecoveryHasRoom, Age
<1> QED BY <1>9, <1>11, <1>12 DEF RobInv

\* A reorder buffer with nothing in it.
LEMMA EmptyRing ==
  /\ 0 \in Index /\ At(0, 0) = 0 /\ 0 \in 0..RobDepth /\ 0 \in 0..PipeWidth
  /\ [i \in Index |-> Blank] \in [Index -> Entry]
  /\ \A i \in Index : [j \in Index |-> Blank][i].valid = FALSE
<1>1. 0 \in Index /\ 0 \in 0..RobDepth /\ 0 \in 0..PipeWidth
  BY RobAssumption DEF Index
<1>2. At(0, 0) = 0
  BY <1>1, AtIs, RobAssumption
<1>3. Blank \in Entry /\ Blank.valid = FALSE
  BY BlankShape
<1> QED BY <1>1, <1>2, <1>3

\* A full flush leaves an empty ring.
LEMMA FlushKeepsRing ==
  ASSUME RobInv, NEW drained, NEW irq, FullFlush(drained, irq)
  PROVE RobInv'
<1>1. /\ head' = 0 /\ tail' = 0 /\ count' = 0
      /\ slot' = [i \in Index |-> Blank]
      /\ wbr' = {} /\ viol' = {} /\ headroom' = FALSE /\ refill' = TRUE
      /\ retired' = CommitCount(drained, irq) /\ stale' = {}
  BY DEF FullFlush
<1>2. retired' \in 0..PipeWidth
  BY <1>1, CommitStops DEF RobInv
<1>3. TypeOK'
  BY <1>1, <1>2, EmptyRing DEF TypeOK
<1>4. RingConsistent'
  <2>1. tail' = At(head', count')
    BY <1>1, EmptyRing
  <2>2. InFlight' = {}
    BY <1>1 DEF InFlight
  <2>3. \A i \in Index : slot'[i].valid = FALSE
    BY <1>1, EmptyRing
  <2> QED BY <2>1, <2>2, <2>3 DEF RingConsistent, At
<1>5. RecoveryHasRoom'
  BY <1>1 DEF RecoveryHasRoom
<1> QED BY <1>3, <1>4, <1>5 DEF RobInv

(***************************************************************************)
(* A partial flush: c commits, branch b stays, what is younger goes.  With *)
(* room behind it, the branch is at most a whole group short of a full     *)
(* ring, and the range from the new tail to the old is what is younger.    *)
(***************************************************************************)

\* The cleared range is what is younger than the branch.
LEMMA ClearedIs ==
  ASSUME TypeOK, RingConsistent, NEW b \in Index, Age(b) < count, NEW i \in Index
  PROVE i \in Cleared(At(b, 1)) <=> Age(b) < Age(i) /\ Age(i) < count
<1>1. /\ RobDepth \in Nat /\ RobDepth > 2
      /\ head \in 0..(RobDepth - 1) /\ count \in 0..RobDepth
      /\ b \in 0..(RobDepth - 1) /\ i \in 0..(RobDepth - 1)
      /\ Index = 0..(RobDepth - 1)
  BY RobAssumption DEF TypeOK, Index
<1>2. /\ Age(b) \in 0..(RobDepth - 1)
      /\ Age(b) = IF b >= head THEN b - head ELSE b - head + RobDepth
      /\ Age(i) \in 0..(RobDepth - 1)
      /\ Age(i) = IF i >= head THEN i - head ELSE i - head + RobDepth
  BY <1>1, AgeIs
<1> DEFINE t == At(b, 1)
<1>3. t = IF b + 1 < RobDepth THEN b + 1 ELSE b + 1 - RobDepth
  <2>1. 1 \in 0..RobDepth
    BY <1>1
  <2> QED BY <2>1, AtIs
<1>4. tail = IF head + count < RobDepth THEN head + count ELSE head + count - RobDepth
  BY <1>1, AtIs DEF RingConsistent
<1> HIDE DEF t
<1>5. i \in Cleared(t) <=> IF t = tail THEN FALSE
                           ELSE IF t < tail THEN t <= i /\ i <= tail - 1
                           ELSE i >= t \/ i < tail
  BY <1>1, <1>3, <1>4 DEF Cleared
<1>6. i \in Cleared(t) <=> Age(b) < Age(i) /\ Age(i) < count
  BY <1>1, <1>2, <1>3, <1>4, <1>5
<1> QED BY <1>6 DEF t

\* The counter a partial flush computes, when the branch is still there and
\* the ring is not full up to it, is the distance of the pointers.
LEMMA RawCountIs ==
  ASSUME TypeOK, NEW b \in Index, NEW c \in 0..RobDepth, Age(b) + 1 < RobDepth
  PROVE RawCount(At(b, 1), At(head, c))
          = IF c <= Age(b) + 1 THEN Age(b) + 1 - c ELSE Age(b) + 1 - c + RobDepth
<1>1. /\ RobDepth \in Nat /\ RobDepth > 2
      /\ head \in 0..(RobDepth - 1) /\ b \in 0..(RobDepth - 1)
      /\ Index = 0..(RobDepth - 1)
  BY RobAssumption DEF TypeOK, Index
<1>2. /\ Age(b) \in 0..(RobDepth - 1)
      /\ Age(b) = IF b >= head THEN b - head ELSE b - head + RobDepth
  BY <1>1, AgeIs
<1>3. At(b, 1) = IF b + 1 < RobDepth THEN b + 1 ELSE b + 1 - RobDepth
  <2>1. 1 \in 0..RobDepth
    BY <1>1
  <2> QED BY <2>1, AtIs
<1>4. At(head, c) = IF head + c < RobDepth THEN head + c ELSE head + c - RobDepth
  BY <1>1, AtIs
<1> DEFINE t == At(b, 1)
           h == At(head, c)
           a == Age(b)
<1>5. /\ a \in 0..(RobDepth - 1) /\ a + 1 < RobDepth /\ c \in 0..RobDepth
      /\ a = IF b >= head THEN b - head ELSE b - head + RobDepth
      /\ t = IF b + 1 < RobDepth THEN b + 1 ELSE b + 1 - RobDepth
      /\ h = IF head + c < RobDepth THEN head + c ELSE head + c - RobDepth
  BY <1>2, <1>3, <1>4
<1>6. RawCount(t, h) = IF t >= h THEN t - h ELSE RobDepth - h + t
  BY DEF RawCount
<1> HIDE DEF t, h, a
<1>7. CASE c <= a + 1
  BY <1>1, <1>5, <1>6, <1>7 DEF t, h, a
<1>8. CASE ~(c <= a + 1)
  BY <1>1, <1>5, <1>6, <1>8 DEF t, h, a
<1> QED BY <1>7, <1>8 DEF a

\* A partial flush keeps the ring consistent, and what it leaves valid is
\* what neither committed nor is younger than the branch.
LEMMA PartialFlushKeepsRing ==
  ASSUME RobInv, NEW drained, NEW b \in InFlight, NEW R \in Reports, NEW faults,
         NEW V \in SUBSET Contradicted(R), PartialFlush(b, R, V, faults, drained)
  PROVE /\ RobInv'
        /\ \A i \in Index : slot'[i].valid <=> retired' <= Age(i) /\ Age(i) <= Age(b)
        /\ \A i \in Index : i \in Cleared(At(b, 1)) <=> Age(b) < Age(i) /\ Age(i) < count
        /\ retired' <= Age(b) => /\ head' = At(head, retired')
                                 /\ count' = Age(b) + 1 - retired'
<1> DEFINE t == At(b, 1)
           gone == Cleared(t)
           c == CommitCount(drained, FALSE)
           h == At(head, c)
           fits == RawCount(t, h) <= count - c
<1>1. /\ TypeOK /\ RingConsistent /\ RecoveryHasRoom
      /\ RobDepth \in Nat /\ PipeWidth \in Nat /\ PipeWidth < RobDepth /\ PipeWidth >= 2
      /\ head \in Index /\ tail \in Index /\ count \in 0..RobDepth
      /\ slot \in [Index -> Entry] /\ Index = 0..(RobDepth - 1)
  BY RobAssumption DEF RobInv, TypeOK, Index
<1>2. /\ c \in 0..PipeWidth /\ c <= count /\ c \in 0..RobDepth
  <2>1. /\ CommitCount(drained, FALSE) \in 0..PipeWidth
        /\ CommitCount(drained, FALSE) <= count
    BY <1>1, CommitStops, Zenon
  <2> HIDE DEF c
  <2>2. c \in 0..PipeWidth /\ c <= count
    BY <2>1 DEF c
  <2> QED BY <1>1, <2>2
<1>3. /\ slot' = [i \in Index |->
             IF i \in Committed(c) \union gone THEN Blank
             ELSE IF i = b THEN [Written(i, slot[i], faults) EXCEPT !.misp = FALSE]
             ELSE Written(i, slot[i], faults)]
      /\ tail' = t
      /\ count' = IF fits THEN RawCount(t, h) ELSE 0
      /\ head' = IF fits THEN h ELSE t
      /\ wbr' = {r \in R : r.idx \notin gone}
      /\ viol' = Oldest(V) /\ headroom' = FALSE /\ refill' = TRUE
      /\ retired' = c
      /\ stale' = (stale \union V) \ (Committed(c) \union gone)
      /\ CanRecover(b)
  BY DEF PartialFlush
<1>4. /\ b \in Index /\ Age(b) \in 0..(RobDepth - 1)
      /\ Age(b) < count /\ Age(b) + 1 < RobDepth
  <2>1. b \in Index /\ Age(b) < count
    BY <1>1, InFlightIs
  <2>2. PICK r \in wbr : r.idx = b /\ r.misp
    BY <1>3 DEF CanRecover
  <2>3. headroom
    BY <1>3 DEF CanRecover
  <2>4. Age(b) < RobDepth - PipeWidth
    BY <1>1, <2>2, <2>3 DEF RecoveryHasRoom
  <2>5. Age(b) \in 0..(RobDepth - 1)
    BY <1>1, <2>1, AgeIs
  <2> QED BY <1>1, <2>1, <2>4, <2>5
<1>5. /\ h \in Index /\ t \in Index
      /\ h = IF head + c < RobDepth THEN head + c ELSE head + c - RobDepth
      /\ t = IF b + 1 < RobDepth THEN b + 1 ELSE b + 1 - RobDepth
      /\ RawCount(t, h)
          = IF c <= Age(b) + 1 THEN Age(b) + 1 - c ELSE Age(b) + 1 - c + RobDepth
  <2>1. 1 \in 0..RobDepth
    BY <1>1
  <2> QED BY <1>1, <1>2, <1>4, <2>1, AtIs, RawCountIs
<1>6. ASSUME NEW i \in Index
      PROVE /\ i \in Committed(c) <=> Age(i) < c
            /\ i \in gone <=> Age(b) < Age(i) /\ Age(i) < count
            /\ Age(i) \in 0..(RobDepth - 1)
            /\ slot[i].valid <=> Age(i) < count
            /\ slot[i] \in Entry
  BY <1>1, <1>2, <1>4, CommittedIs, ClearedIs, AgeIs, InFlightIs DEF RingConsistent
<1> HIDE DEF t, gone, c, h
<1>7. ASSUME NEW i \in Index
      PROVE /\ slot'[i] \in Entry
            /\ slot'[i].valid <=> c <= Age(i) /\ Age(i) <= Age(b)
  <2>1. Blank \in Entry /\ Blank.valid = FALSE
    BY BlankShape
  <2>2. /\ Written(i, slot[i], faults) \in Entry
        /\ Written(i, slot[i], faults).valid = slot[i].valid
    BY <1>6, WrittenShape
  <2> DEFINE w == Written(i, slot[i], faults)
  <2> HIDE DEF w
  <2>3. /\ w \in Entry /\ w.valid = slot[i].valid
        /\ [w EXCEPT !.misp = FALSE] \in Entry
        /\ [w EXCEPT !.misp = FALSE].valid = w.valid
    BY <2>2 DEF Entry, w
  <2>4. slot'[i] = IF i \in Committed(c) \union gone THEN Blank
                   ELSE IF i = b THEN [w EXCEPT !.misp = FALSE] ELSE w
    BY <1>3 DEF w
  <2>5. CASE i \in Committed(c) \union gone
    <3>1. ~(c <= Age(i) /\ Age(i) <= Age(b))
      BY <1>2, <1>4, <1>6, <2>5
    <3> QED BY <2>1, <2>4, <2>5, <3>1
  <2>6. CASE i \notin Committed(c) \union gone
    <3>1. slot'[i] \in Entry /\ slot'[i].valid = slot[i].valid
      BY <2>3, <2>4, <2>6
    <3>2. ~(Age(i) < c) /\ ~(Age(b) < Age(i) /\ Age(i) < count)
      BY <1>6, <2>6
    <3>3. Age(i) < count <=> c <= Age(i) /\ Age(i) <= Age(b)
      <4>1. PICK a, x, n \in Nat : a = Age(i) /\ x = Age(b) /\ n = count
        BY <1>1, <1>4, <1>6
      <4>2. a \in Nat /\ x \in Nat /\ c \in Nat /\ x < n
        BY <1>1, <1>2, <1>4, <1>6, <4>1
      <4>3. ~(a < c) /\ ~(x < a /\ a < n)
        BY <3>2, <4>1
      <4>4. a < n <=> c <= a /\ a <= x
        BY <4>2, <4>3
      <4> QED BY <4>1, <4>4
    <3> QED BY <1>6, <3>1, <3>3
  <2> QED BY <2>5, <2>6
\* The branch itself may commit in the cycle; then nothing is left.
<1>8. /\ count' = IF c <= Age(b) + 1 THEN Age(b) + 1 - c ELSE 0
      /\ head' = IF c <= Age(b) + 1 THEN h ELSE t
  <2>1. CASE c <= Age(b) + 1
    <3>1. fits /\ RawCount(t, h) = Age(b) + 1 - c
      BY <1>1, <1>2, <1>4, <1>5, <2>1
    <3> QED BY <1>3, <2>1, <3>1
  <2>2. CASE ~(c <= Age(b) + 1)
    <3>1. ~fits
      BY <1>1, <1>2, <1>4, <1>5, <2>2
    <3> QED BY <1>3, <2>2, <3>1
  <2> QED BY <2>1, <2>2
<1>9. head' \in Index /\ count' \in 0..RobDepth
  BY <1>1, <1>2, <1>4, <1>5, <1>8
<1>10. TypeOK'
  <2>1. V \subseteq Index
    BY <1>1, InFlightIs DEF Contradicted
  <2>2. viol' \subseteq Index /\ stale' \subseteq Index
    BY <1>1, <1>3, <2>1 DEF Oldest, TypeOK
  <2>3. wbr' \subseteq Result
    BY <1>3, ReportsShape
  <2>4. slot' \in [Index -> Entry]
    <3>1. DOMAIN slot' = Index /\ slot' = [i \in Index |-> slot'[i]]
      BY <1>3
    <3> QED BY <1>7, <3>1
  <2> QED BY <1>2, <1>3, <1>5, <1>9, <2>2, <2>3, <2>4 DEF TypeOK
<1>11. RingConsistent'
  <2> DEFINE g == head'
             k == count'
  <2>1. At(g, k) = IF g + k < RobDepth THEN g + k ELSE g + k - RobDepth
    <3>1. g \in Index /\ k \in 0..RobDepth
      BY <1>9
    <3> HIDE DEF g, k
    <3> QED BY <3>1, AtIs
  <2>2. Age(b) = IF b >= head THEN b - head ELSE b - head + RobDepth
    BY <1>1, <1>4, AgeIs
  <2>3. tail' = At(g, k)
    <3>1. /\ g = IF c <= Age(b) + 1 THEN h ELSE t
          /\ k = IF c <= Age(b) + 1 THEN Age(b) + 1 - c ELSE 0
      BY <1>8
    <3> HIDE DEF g, k
    <3>2. CASE c <= Age(b) + 1
      <4> DEFINE a == Age(b)
      <4>1. /\ g = h /\ k = a + 1 - c /\ tail' = t
            /\ At(g, k) = IF g + k < RobDepth THEN g + k ELSE g + k - RobDepth
        BY <1>3, <2>1, <3>1, <3>2
      <4>2. /\ RobDepth \in Nat /\ head \in 0..(RobDepth - 1) /\ b \in 0..(RobDepth - 1)
            /\ c \in 0..RobDepth /\ a \in 0..(RobDepth - 1) /\ c <= a + 1 /\ a + 1 < RobDepth
            /\ a = IF b >= head THEN b - head ELSE b - head + RobDepth
            /\ h = IF head + c < RobDepth THEN head + c ELSE head + c - RobDepth
            /\ t = IF b + 1 < RobDepth THEN b + 1 ELSE b + 1 - RobDepth
        BY <1>1, <1>2, <1>4, <1>5, <2>2, <3>2
      <4> HIDE DEF a
      <4> QED BY <4>1, <4>2
    <3>3. CASE ~(c <= Age(b) + 1)
      BY <1>1, <1>3, <1>5, <2>1, <3>1, <3>3
    <3> QED BY <3>2, <3>3
  <2>4. ASSUME NEW i \in Index PROVE slot'[i].valid <=> i \in InFlight'
    <3>1. i \in InFlight' <=> Age(i)' < count'
      BY <1>9, InFlightNext
    <3>2. Age(i)' < count' <=> c <= Age(i) /\ Age(i) <= Age(b)
      <4>1. CASE c <= Age(b) + 1
        <5>1. head' = At(head, c)
          BY <1>8, <4>1 DEF h
        <5>2. Age(i)' = IF Age(i) >= c THEN Age(i) - c ELSE Age(i) - c + RobDepth
          BY <1>1, <1>2, <5>1, AgeMoves
        <5>3. count' = Age(b) + 1 - c
          BY <1>8, <4>1
        <5>4. /\ Age(i) \in 0..(RobDepth - 1) /\ Age(b) \in 0..(RobDepth - 1)
              /\ RobDepth \in Nat /\ c \in Nat /\ Age(b) + 1 < RobDepth
          BY <1>1, <1>2, <1>4, <1>6
        <5>5. CASE Age(i) >= c
          BY <4>1, <5>2, <5>3, <5>4, <5>5
        <5>6. CASE ~(Age(i) >= c)
          BY <4>1, <5>2, <5>3, <5>4, <5>6
        <5> QED BY <5>5, <5>6
      <4>2. CASE ~(c <= Age(b) + 1)
        <5>1. count' = 0 /\ Age(i)' \in 0..(RobDepth - 1)
          <6>1. count' = 0
            BY <1>8, <4>2
          <6>2. Age(i)' = (i - head' + RobDepth) % RobDepth
            BY DEF Age
          <6>3. Age(i)' \in 0..(RobDepth - 1)
            <7> DEFINE hd == head'
            <7>1. /\ RobDepth \in Nat /\ RobDepth > 0 /\ hd \in 0..(RobDepth - 1)
                  /\ i \in 0..(RobDepth - 1)
              BY <1>1, <1>9
            <7>2. Age(i)' = (i - hd + RobDepth) % RobDepth
              BY <6>2
            <7> HIDE DEF hd
            <7> QED BY <7>1, <7>2
          <6> QED BY <6>1, <6>3
        <5> QED BY <1>2, <1>4, <1>6, <4>2, <5>1
      <4> QED BY <4>1, <4>2
    <3> QED BY <1>7, <3>1, <3>2
  <2> QED BY <2>3, <2>4 DEF RingConsistent, At
<1>12. RecoveryHasRoom'
  BY <1>3 DEF RecoveryHasRoom
<1>13. c <= Age(b) => head' = At(head, c) /\ count' = Age(b) + 1 - c
  <2>1. ASSUME c <= Age(b) PROVE head' = h /\ count' = Age(b) + 1 - c
    BY <1>2, <1>4, <1>8, <2>1
  <2> QED BY <2>1 DEF h
<1>14. \A i \in Index : i \in Cleared(At(b, 1)) <=> Age(b) < Age(i) /\ Age(i) < count
  BY <1>6 DEF gone, t
<1> QED BY <1>3, <1>7, <1>10, <1>11, <1>12, <1>13, <1>14 DEF RobInv

(***************************************************************************)
(* The theorems.                                                           *)
(***************************************************************************)
\* Every step keeps the invariant.
LEMMA RobStep ==
  ASSUME RobInv, [Next]_vars
  PROVE RobInv'
<1>1. ASSUME NEW drained \in Drains, NEW new \in Allocations, NEW R \in Reports,
             NEW faults \in Faults, NEW V \in SUBSET Contradicted(R),
             Cycle(new, R, V, faults, drained)
      PROVE RobInv'
  BY <1>1, CycleKeepsRing
<1>2. ASSUME NEW drained \in Drains, NEW irq \in BOOLEAN, FullFlush(drained, irq)
      PROVE RobInv'
  BY <1>2, FlushKeepsRing
<1>3. ASSUME NEW drained \in Drains, NEW b \in InFlight, NEW R \in Reports,
             NEW faults \in Faults, NEW V \in SUBSET Contradicted(R),
             PartialFlush(b, R, V, faults, drained)
      PROVE RobInv'
  BY <1>3, PartialFlushKeepsRing
<1>4. CASE UNCHANGED vars
  BY <1>4 DEF vars, RobInv, TypeOK, RingConsistent, RecoveryHasRoom, InFlight, Age, At
<1> QED BY <1>1, <1>2, <1>3, <1>4 DEF Next

\* The invariant holds from the empty reorder buffer on.
LEMMA RobInvInductive == Spec => []RobInv
<1>1. Init => RobInv
  <2> SUFFICES ASSUME Init PROVE RobInv
    OBVIOUS
  <2>1. /\ head = 0 /\ tail = 0 /\ count = 0 /\ slot = [i \in Index |-> Blank]
        /\ wbr = {} /\ viol = {} /\ headroom = FALSE /\ refill = FALSE
        /\ retired = 0 /\ stale = {}
    BY DEF Init
  <2>2. TypeOK
    BY <2>1, EmptyRing DEF TypeOK
  <2>3. InFlight = {}
    BY <2>1 DEF InFlight
  <2>4. RingConsistent
    BY <2>1, <2>3, EmptyRing DEF RingConsistent
  <2> QED BY <2>1, <2>2, <2>4 DEF RobInv, RecoveryHasRoom
<1>2. RobInv /\ [Next]_vars => RobInv'
  BY RobStep
<1> QED BY <1>1, <1>2, PTL DEF Spec

\* Every cycle, flush and recovery keeps the pointers, the counter and the
\* entries within their widths (rob.sv: head_r, tail_r, count_r).
THEOREM RobTypeCorrect == Spec => []TypeOK
<1>1. RobInv => TypeOK
  BY DEF RobInv
<1> QED BY <1>1, RobInvInductive, PTL

\* The tail is count entries after the head and exactly the entries between
\* them are valid, whatever commits, enters and is flushed in one cycle, for
\* every depth and width (rob.sv: the count recomputed on a partial flush, the
\* range it clears; rv64gc_core_top.sv: recovery_headroom_ok).
THEOREM RingAlwaysConsistent == Spec => []RingConsistent
<1>1. RobInv => RingConsistent
  BY DEF RobInv
<1> QED BY <1>1, RobInvInductive, PTL

\* A branch that recovers takes away only what is younger: every instruction in
\* flight that is not younger, and does not commit in the cycle, is in flight
\* after it (rob.sv: the partial flush and the counter it computes).
THEOREM SurvivorsStay == Spec => SurvivorsPreserved
<1> DEFINE Kept == \A b \in Index :
             CanRecover(b) /\ refill' /\ slot'[b].valid =>
                 \A i \in InFlight : Age(i) \in retired'..Age(b) => i \in InFlight'
<1>1. RobInv /\ [Next]_vars => [Kept]_vars
  <2> SUFFICES ASSUME RobInv, Next, NEW b \in Index,
                      CanRecover(b), refill', slot'[b].valid,
                      NEW i \in InFlight, Age(i) \in retired'..Age(b)
               PROVE i \in InFlight'
    OBVIOUS
  <2>1. /\ TypeOK /\ RingConsistent /\ RobInv'
        /\ head \in Index /\ i \in Index /\ Age(i) \in Int /\ Age(b) \in Int
    BY RobStep, InFlightIs, AgeIs DEF RobInv, TypeOK
  <2>2. slot'[i].valid <=> i \in InFlight'
    BY <2>1 DEF RobInv, RingConsistent
  <2>3. ASSUME NEW drained \in Drains, NEW new \in Allocations, NEW R \in Reports,
               NEW faults \in Faults, NEW V \in SUBSET Contradicted(R),
               Cycle(new, R, V, faults, drained)
        PROVE FALSE
    BY <2>3 DEF Cycle
  <2>4. ASSUME NEW drained \in Drains, NEW irq \in BOOLEAN, FullFlush(drained, irq)
        PROVE FALSE
    BY <2>1, <2>4, EmptyRing DEF FullFlush
  <2>5. ASSUME NEW drained \in Drains, NEW d \in InFlight, NEW R \in Reports,
               NEW faults \in Faults, NEW V \in SUBSET Contradicted(R),
               PartialFlush(d, R, V, faults, drained)
        PROVE slot'[i].valid
    <3>1. \A j \in Index : slot'[j].valid <=> retired' <= Age(j) /\ Age(j) <= Age(d)
      BY <2>5, PartialFlushKeepsRing
    <3>2. retired' \in Int /\ Age(d) \in Int
      BY <2>1, InFlightIs, AgeIs, RobAssumption DEF RobInv, TypeOK
    <3>3. retired' <= Age(i) /\ Age(i) <= Age(b) /\ Age(b) <= Age(d)
      BY <2>1, <3>1, <3>2
    <3> QED BY <2>1, <3>1, <3>2, <3>3
  <2> QED BY <2>2, <2>3, <2>4, <2>5 DEF Next
<1> QED BY <1>1, RobInvInductive, PTL DEF Spec, SurvivorsPreserved

-----------------------------------------------------------------------------
(***************************************************************************)
(* A load that read memory too early does not retire with what it read.    *)
(* The load queue reports one violation a cycle, the oldest, a cycle after *)
(* the address of the store is known; the others are flushed with it when  *)
(* it comes to the head.  So of a contradicted load the invariant says     *)
(* that it, or a load before it, is marked, or is about to be marked and   *)
(* still behind the store, which cannot retire before its second half is   *)
(* written.                                                                *)
(***************************************************************************)

\* What is in a writeback register is about an instruction in flight, and is
\* something that an instruction of its kind reports.
ReportsInFlight ==
    \A r \in wbr : r.idx \in InFlight /\ r.part \in Parts(slot[r.idx].kind)

\* A violation is of a load, or of an entry that a flush has just cleared.
ViolatesLoads ==
    \A i \in viol : IF slot[i].valid THEN slot[i].kind = "load" ELSE refill

\* The ready bit of a store means both halves, unless it trapped.
Whole(e) == e.kind = "store" /\ e.ready /\ e.exc # "trap" => e.addr /\ e.data

StoresReadyWhole == \A i \in InFlight : Whole(slot[i])

\* Entry m is marked, or is going to be and behind a store without address.
Marked(m) ==
    \/ slot[m].exc # "none"
    \/ m \in viol /\ \E s \in InFlight : /\ Age(s) < Age(m)
                                         /\ slot[s].kind = "store" /\ ~slot[s].ready

StaleCovered ==
    \A i \in stale :
        i \in InFlight /\ \E m \in InFlight : Age(m) <= Age(i) /\ Marked(m)

ReplayInv == ReportsInFlight /\ ViolatesLoads /\ StoresReadyWhole /\ StaleCovered

\* Distance from the head and index are inverse to each other.
LEMMA AtAge ==
  ASSUME head \in Index, NEW i \in Index
  PROVE At(head, Age(i)) = i
<1>1. /\ RobDepth \in Nat /\ head \in 0..(RobDepth - 1) /\ i \in 0..(RobDepth - 1)
      /\ Age(i) \in 0..(RobDepth - 1) /\ Age(i) \in 0..RobDepth
      /\ Age(i) = IF i >= head THEN i - head ELSE i - head + RobDepth
  BY AgeIs, RobAssumption DEF Index
<1>2. At(head, Age(i)) = IF head + Age(i) < RobDepth THEN head + Age(i)
                         ELSE head + Age(i) - RobDepth
  BY <1>1, AtIs
<1> QED BY <1>1, <1>2

\* The entry k away from the head is k away from it.
LEMMA AgeAt ==
  ASSUME head \in Index, NEW k \in 0..(RobDepth - 1)
  PROVE At(head, k) \in Index /\ Age(At(head, k)) = k
<1>1. /\ RobDepth \in Nat /\ head \in 0..(RobDepth - 1) /\ k \in 0..RobDepth
  BY RobAssumption DEF Index
<1>2. /\ At(head, k) \in Index
      /\ At(head, k) = IF head + k < RobDepth THEN head + k ELSE head + k - RobDepth
  BY <1>1, AtIs
<1>3. Age(At(head, k)) = IF At(head, k) >= head THEN At(head, k) - head
                         ELSE At(head, k) - head + RobDepth
  BY <1>2, AgeIs
<1> QED BY <1>1, <1>2, <1>3

\* A result for part p, and a trap, of entry i is in a writeback register.
Has(i, p) == \E r \in wbr : r.idx = i /\ r.part = p
HasTrap(i) == \E r \in wbr : r.idx = i /\ r.exc = "trap"

\* The fields of w, which is entry i, found as e, after the writes of a cycle.
WriteResult(w, i, e, faults) ==
    /\ w \in Entry /\ w.kind = e.kind
    /\ w.exc = IF i \in viol THEN "replay"
               ELSE IF HasTrap(i) \/ i \in faults THEN "trap" ELSE e.exc
    /\ w.addr <=> e.addr \/ Has(i, "addr")
    /\ w.data <=> e.data \/ Has(i, "data")
    /\ w.ready <=> \/ e.ready \/ i \in faults \/ i \in viol \/ Has(i, "result")
                   \/ Has(i, "addr") /\ w.data
                   \/ Has(i, "data") /\ w.addr

\* A writeback leaves these fields.
LEMMA WrittenFields ==
  ASSUME NEW i, NEW e \in Entry, NEW faults
  PROVE WriteResult(Written(i, e, faults), i, e, faults)
<1> DEFINE mine == {r \in wbr : r.idx = i}
           f == IF i \in faults THEN [e EXCEPT !.ready = TRUE, !.exc = "trap"] ELSE e
           parts == {r.part : r \in mine}
           x == \E r \in mine : r.exc = "trap"
           m == \E r \in mine : r.misp
           v == i \in viol
           w == Written(i, e, faults)
<1>1. /\ f \in Entry /\ f.kind = e.kind /\ f.addr = e.addr /\ f.data = e.data
      /\ f.ready <=> e.ready \/ i \in faults
      /\ f.exc = IF i \in faults THEN "trap" ELSE e.exc
  BY DEF Entry
<1>2. w = WriteBack(f, parts, x, m, v)
  BY DEF Written
<1>3. \A p : p \in parts <=> Has(i, p)
  BY DEF Has
<1>4. x <=> HasTrap(i)
  BY DEF HasTrap
<1>5. w \in Entry /\ w.kind = e.kind
  BY WrittenShape
<1>6. v <=> i \in viol
  OBVIOUS
<1> HIDE DEF f, parts, x, m, v, w
<1>7. /\ w.exc = IF v THEN "replay" ELSE IF x THEN "trap" ELSE f.exc
      /\ w.addr = (f.addr \/ "addr" \in parts)
      /\ w.data = (f.data \/ "data" \in parts)
      /\ w.ready = (\/ f.ready \/ v \/ "result" \in parts
                    \/ "addr" \in parts /\ (f.data \/ "data" \in parts)
                    \/ "data" \in parts /\ (f.addr \/ "addr" \in parts))
  BY <1>1, <1>2 DEF WriteBack, Entry
<1>8. WriteResult(w, i, e, faults)
  BY <1>1, <1>3, <1>4, <1>5, <1>6, <1>7 DEF WriteResult
<1> QED BY <1>8 DEF w

\* A ready store stays whole.
LEMMA WholeStays ==
  ASSUME NEW i, NEW e \in Entry, NEW faults, Whole(e),
         e.kind = "store" => /\ i \notin viol
                             /\ \A r \in wbr : r.idx = i => r.part \in {"addr", "data"}
  PROVE Whole(Written(i, e, faults))
<1> DEFINE w == Written(i, e, faults)
<1>1. SUFFICES ASSUME w.kind = "store", w.ready, w.exc # "trap"
               PROVE w.addr /\ w.data
  BY DEF Whole
<1>2. WriteResult(w, i, e, faults)
  BY WrittenFields
<1> HIDE DEF w
<1>3. i \notin viol /\ ~Has(i, "result")
  BY <1>1, <1>2 DEF Has, WriteResult
<1>4. i \notin faults /\ e.exc # "trap"
  BY <1>1, <1>2, <1>3 DEF WriteResult
<1> QED BY <1>1, <1>2, <1>3, <1>4 DEF Whole, WriteResult

\* An instruction that still owes a part is not ready, and nothing in its
\* entry or in a register is that part.
LEMMA OutstandingUnready ==
  ASSUME TypeOK, StoresReadyWhole, NEW i \in InFlight, NEW p \in Outstanding(i)
  PROVE /\ p \in Parts(slot[i].kind) /\ ~slot[i].ready /\ slot[i].exc # "trap"
        /\ \A x \in wbr : ~(x.idx = i /\ x.part = p)
        /\ p = "addr" => ~slot[i].addr
        /\ p = "data" => ~slot[i].data
<1>1. /\ slot[i].exc # "trap" /\ p \in Parts(slot[i].kind)
      /\ p \notin Reported(i)
  BY DEF Outstanding
<1>2. \A x \in wbr : ~(x.idx = i /\ x.part = p)
  BY <1>1 DEF Reported
<1>3. p = "addr" => ~slot[i].addr
  BY <1>1 DEF Reported
<1>4. p = "data" => ~slot[i].data
  BY <1>1 DEF Reported
<1>5. ~slot[i].ready
  <2>1. CASE slot[i].kind = "store"
    <3>1. p \in {"addr", "data"}
      BY <1>1, <2>1 DEF Parts
    <3>2. Whole(slot[i])
      BY DEF StoresReadyWhole
    <3> QED BY <1>1, <1>3, <1>4, <2>1, <3>1, <3>2 DEF Whole
  <2>2. CASE slot[i].kind # "store"
    <3>1. p = "result"
      BY <1>1, <2>2 DEF Parts
    <3> QED BY <1>1, <2>2, <3>1 DEF Reported
  <2> QED BY <2>1, <2>2
<1> QED BY <1>1, <1>2, <1>3, <1>4, <1>5

\* So it is with every instruction that may report.
LEMMA PossibleUnready ==
  ASSUME TypeOK, StoresReadyWhole, NEW r \in Possible
  PROVE /\ r \in Result /\ r.idx \in InFlight /\ r.part \in Parts(slot[r.idx].kind)
        /\ ~slot[r.idx].ready /\ slot[r.idx].exc # "trap"
        /\ \A x \in wbr : ~(x.idx = r.idx /\ x.part = r.part)
        /\ r.part = "addr" => ~slot[r.idx].addr
        /\ r.part = "data" => ~slot[r.idx].data
<1>1. /\ r \in Result /\ r.idx \in InFlight /\ r.part \in Outstanding(r.idx)
  BY DEF Possible
<1> QED BY <1>1, OutstandingUnready

\* What is not ready, and has no result in a register, does not commit.
LEMMA UnreadyStays ==
  ASSUME head \in Index, NEW c \in 0..RobDepth, \A j \in 0..(c - 1) : HeadReady(j),
         NEW i \in Index, ~slot[i].ready,
         \/ slot[i].kind = "store"
         \/ \A x \in wbr : x.idx # i
  PROVE c <= Age(i)
<1>1. RobDepth \in Nat /\ c \in Int /\ Age(i) \in 0..(RobDepth - 1)
  BY AgeIs, RobAssumption
<1>2. SUFFICES ASSUME Age(i) < c PROVE FALSE
  BY <1>1
<1>3. Age(i) \in 0..(c - 1)
  BY <1>1, <1>2
<1>4. HeadReady(Age(i)) /\ At(head, Age(i)) = i
  BY <1>3, AtAge
<1> QED BY <1>4 DEF HeadReady, Bypass

\* Neither does what reports in the cycle.
LEMMA ReportingStays ==
  ASSUME TypeOK, ReportsInFlight, StoresReadyWhole,
         NEW c \in 0..RobDepth, \A j \in 0..(c - 1) : HeadReady(j), NEW r \in Possible
  PROVE r.idx \in Index /\ c <= Age(r.idx) /\ Age(r.idx) < count
<1>1. /\ r.idx \in InFlight /\ r.part \in Parts(slot[r.idx].kind)
      /\ ~slot[r.idx].ready
      /\ \A x \in wbr : ~(x.idx = r.idx /\ x.part = r.part)
  BY PossibleUnready
<1>2. head \in Index /\ r.idx \in Index /\ Age(r.idx) < count
  BY <1>1, InFlightIs DEF TypeOK
<1>3. CASE slot[r.idx].kind = "store"
  BY <1>1, <1>2, <1>3, UnreadyStays
<1>4. CASE slot[r.idx].kind # "store"
  <2>1. ASSUME NEW x \in wbr, x.idx = r.idx PROVE FALSE
    <3>1. x.part \in Parts(slot[r.idx].kind)
      BY <2>1 DEF ReportsInFlight
    <3> QED BY <1>1, <1>4, <2>1, <3>1 DEF Parts
  <2> QED BY <1>1, <1>2, <2>1, UnreadyStays
<1> QED BY <1>2, <1>3, <1>4

\* The oldest of some entries exists.
LEMMA OldestExists ==
  ASSUME head \in Index, NEW V \in SUBSET Index, NEW i \in V
  PROVE \E m \in Oldest(V) : m \in V /\ Age(m) <= Age(i)
<1>1. RobDepth \in Nat /\ \A j \in V : Age(j) \in 0..(RobDepth - 1)
  BY AgeIs, RobAssumption
<1> DEFINE S == {Age(j) + 1 : j \in V}
<1>2. S \in SUBSET (1..RobDepth) /\ S # {}
  BY <1>1
<1>3. PICK k \in S : \A j \in S : k <= j
  <2> HIDE DEF S
  <2> QED BY <1>1, <1>2, MinExists
<1>4. PICK m \in V : k = Age(m) + 1
  BY <1>3
<1>5. ASSUME NEW j \in V PROVE Age(m) <= Age(j)
  <2>1. Age(j) + 1 \in S
    OBVIOUS
  <2>2. Age(m) + 1 <= Age(j) + 1
    BY <1>3, <1>4, <2>1
  <2> QED BY <1>1, <2>2
<1> QED BY <1>5 DEF Oldest

\* What is in flight after a step is an index.
LEMMA InFlightNextIndex ==
  ASSUME head' \in Index, count' \in 0..RobDepth, NEW i \in InFlight'
  PROVE i \in Index
<1> DEFINE h == head'
           k == count'
<1>1. PICK j \in 0..(k - 1) : i = At(h, j)
  BY DEF InFlight, At
<1>2. h \in Index /\ k \in 0..RobDepth
  OBVIOUS
<1> HIDE DEF h, k
<1>3. j \in 0..RobDepth
  BY <1>2, RobAssumption
<1> QED BY <1>1, <1>2, <1>3, AtIs

(***************************************************************************)
(* The common part of a cycle and of a partial flush: the oldest c entries *)
(* commit, those up to distance top stay and are written to.               *)
(***************************************************************************)
Stays(i, c, top) == c <= Age(i) /\ Age(i) <= top

SameButMisp(e, w) ==
    /\ e.kind = w.kind /\ e.ready = w.ready /\ e.exc = w.exc
    /\ e.addr = w.addr /\ e.data = w.data /\ (e.misp => w.misp)

StayWritten(c, top, faults) ==
    \A i \in Index : Stays(i, c, top) =>
        /\ i \in InFlight' /\ Age(i)' = Age(i) - c
        /\ SameButMisp(slot'[i], Written(i, slot[i], faults))

CommitsReady(c) == \A j \in 0..(c - 1) : HeadReady(j) /\ ~Replays(j) /\ ~Traps(j)

\* What stays is written to according to its kind.
LEMMA StayingWrites ==
  ASSUME TypeOK, RingConsistent, ReplayInv, NEW faults, NEW i \in InFlight
  PROVE LET w == Written(i, slot[i], faults)
        IN  /\ w.kind = slot[i].kind /\ Whole(w)
            /\ slot[i].exc # "none" => w.exc # "none"
            /\ i \in viol => w.exc # "none"
<1>1. /\ i \in Index /\ slot[i] \in Entry /\ slot[i].valid
  BY InFlightIs DEF TypeOK, RingConsistent
<1>2. slot[i].kind = "store" => /\ i \notin viol
                                /\ \A r \in wbr : r.idx = i => r.part \in {"addr", "data"}
  BY <1>1 DEF ReplayInv, ViolatesLoads, ReportsInFlight, Parts
<1>3. Whole(slot[i])
  BY DEF ReplayInv, StoresReadyWhole
<1>4. Whole(Written(i, slot[i], faults))
  BY <1>1, <1>2, <1>3, WholeStays
<1> DEFINE e == slot[i]
           w == Written(i, e, faults)
<1>5. WriteResult(w, i, e, faults)
  BY <1>1, WrittenFields
<1> HIDE DEF e, w
<1>6. /\ e.exc # "none" => w.exc # "none"
      /\ i \in viol => w.exc # "none"
  BY <1>5 DEF WriteResult
<1>7. w.kind = e.kind
  BY <1>5 DEF WriteResult
<1> QED BY <1>4, <1>6, <1>7 DEF e, w

\* A store that still owes its address is not ready after the cycle either.
LEMMA StoreStaysUnready ==
  ASSUME TypeOK, RingConsistent, ReplayInv, NEW r \in Possible, r.part = "addr",
         NEW faults, r.idx \notin faults
  PROVE /\ slot[r.idx].kind = "store" /\ ~slot[r.idx].ready
        /\ ~Written(r.idx, slot[r.idx], faults).ready
<1> DEFINE i == r.idx
           w == Written(i, slot[i], faults)
<1>1. /\ i \in InFlight /\ "addr" \in Parts(slot[i].kind) /\ ~slot[i].ready
      /\ ~slot[i].addr /\ ~Has(i, "addr")
  BY PossibleUnready DEF ReplayInv, Has
<1>2. i \in Index /\ slot[i] \in Entry /\ slot[i].valid /\ slot[i].kind = "store"
  BY <1>1, InFlightIs DEF TypeOK, RingConsistent, Parts
<1>3. i \notin viol /\ ~Has(i, "result")
  BY <1>2 DEF ReplayInv, ViolatesLoads, ReportsInFlight, Parts, Has
<1> DEFINE e == slot[i]
<1>4. WriteResult(w, i, e, faults)
  BY <1>2, WrittenFields
<1>5. i \notin faults /\ ~e.ready /\ ~e.addr
  BY <1>1
<1> HIDE DEF e, i, w
<1>6. ~w.ready
  BY <1>1, <1>3, <1>4, <1>5 DEF WriteResult
<1> QED BY <1>1, <1>2, <1>6 DEF e, i, w

\* What a load that a store contradicts has in common with the store.
LEMMA ContradictedLoads ==
  ASSUME TypeOK, ReportsInFlight, StoresReadyWhole, NEW R \in Reports,
         NEW c \in 0..RobDepth, \A j \in 0..(c - 1) : HeadReady(j),
         NEW l \in Contradicted(R)
  PROVE /\ l \in InFlight /\ l \in Index /\ slot[l].kind = "load"
        /\ \E r \in R : /\ r \in Possible /\ r.part = "addr" /\ r.idx \in Index
                        /\ c <= Age(r.idx) /\ Age(r.idx) < Age(l)
<1>1. /\ l \in InFlight /\ slot[l].kind = "load"
      /\ \E r \in R : r.part = "addr" /\ Age(l) > Age(r.idx)
  BY DEF Contradicted
<1>2. PICK r \in R : r.part = "addr" /\ Age(l) > Age(r.idx)
  BY <1>1
<1>3. r \in Possible
  BY ReportsShape
<1>4. r.idx \in Index /\ c <= Age(r.idx)
  BY <1>3, ReportingStays
<1>5. head \in Index /\ l \in Index
  BY <1>1, InFlightIs DEF TypeOK
<1>6. Age(l) \in Int /\ Age(r.idx) \in Int
  BY <1>4, <1>5, AgeIs
<1> QED BY <1>1, <1>2, <1>3, <1>4, <1>5, <1>6

\* Such a step keeps what the invariant says of what stays.
LEMMA StepKeepsReplay ==
  ASSUME RobInv, ReplayInv, NEW c \in 0..RobDepth, c <= count, CommitsReady(c),
         NEW top \in Int, top < count, NEW R \in Reports,
         NEW V \in SUBSET Contradicted(R), NEW faults,
         \A i \in faults : \A r \in R : r.idx # i,
         StayWritten(c, top, faults), viol' = Oldest(V),
         \A r \in wbr' : r \in R /\ Age(r.idx) <= top,
         \A i \in stale' : i \in stale \union V /\ Stays(i, c, top)
  PROVE /\ ReportsInFlight' /\ StaleCovered'
        /\ \A i \in viol' : i \in InFlight /\ c <= Age(i)
                              /\ (Stays(i, c, top) => slot'[i].kind = "load")
        /\ \A i \in Index : Stays(i, c, top) => Whole(slot'[i])
<1>1. /\ TypeOK /\ RingConsistent /\ head \in Index /\ count \in 0..RobDepth
      /\ \A j \in 0..(c - 1) : HeadReady(j) /\ ~Replays(j) /\ ~Traps(j)
      /\ ReportsInFlight /\ ViolatesLoads /\ StoresReadyWhole /\ StaleCovered
      /\ \A i \in Index : Age(i) \in 0..(RobDepth - 1)
      /\ RobDepth \in Nat /\ c \in Int /\ count \in Int
  BY AgeIs, RobAssumption DEF RobInv, TypeOK, ReplayInv, CommitsReady
<1>2. ASSUME NEW i \in Index, Stays(i, c, top)
      PROVE /\ i \in InFlight /\ i \in InFlight' /\ Age(i)' = Age(i) - c
            /\ slot'[i].kind = slot[i].kind /\ Whole(slot'[i])
            /\ slot[i].exc # "none" \/ i \in viol => slot'[i].exc # "none"
            /\ slot'[i].ready = Written(i, slot[i], faults).ready
  <2> DEFINE w == Written(i, slot[i], faults)
             f == slot'[i]
  <2>1. i \in InFlight
    BY <1>1, <1>2, InFlightIs DEF Stays
  <2>2. /\ i \in InFlight' /\ Age(i)' = Age(i) - c /\ SameButMisp(f, w)
    BY <1>2 DEF StayWritten
  <2>3. /\ w.kind = slot[i].kind /\ Whole(w)
        /\ slot[i].exc # "none" => w.exc # "none"
        /\ i \in viol => w.exc # "none"
    BY <1>1, <2>1, StayingWrites
  <2> HIDE DEF f, w
  <2>4. f.kind = w.kind /\ f.exc = w.exc /\ f.ready = w.ready /\ Whole(f)
    BY <2>2, <2>3 DEF SameButMisp, Whole
  <2> QED BY <2>1, <2>2, <2>3, <2>4 DEF f, w
<1>3. ReportsInFlight'
  <2>1. ASSUME NEW r \in wbr'
        PROVE r.idx \in InFlight' /\ r.part \in Parts(slot'[r.idx].kind)
    <3>1. r \in Possible
      BY ReportsShape
    <3>2. r.idx \in Index /\ c <= Age(r.idx)
      BY <1>1, <3>1, ReportingStays
    <3>3. r.part \in Parts(slot[r.idx].kind)
      BY <1>1, <3>1, PossibleUnready
    <3>4. Stays(r.idx, c, top)
      BY <3>2 DEF Stays
    <3>5. r.idx \in InFlight' /\ slot'[r.idx].kind = slot[r.idx].kind
      BY <1>2, <3>2, <3>4
    <3> QED BY <3>3, <3>5
  <2> QED BY <2>1 DEF ReportsInFlight, Parts
<1>4. ASSUME NEW l \in V
      PROVE /\ l \in InFlight /\ l \in Index /\ slot[l].kind = "load" /\ c <= Age(l)
            /\ \E r \in R : /\ r \in Possible /\ r.part = "addr" /\ r.idx \in Index
                            /\ c <= Age(r.idx) /\ Age(r.idx) < Age(l)
  <2>1. /\ l \in InFlight /\ l \in Index /\ slot[l].kind = "load"
        /\ \E r \in R : /\ r \in Possible /\ r.part = "addr" /\ r.idx \in Index
                        /\ c <= Age(r.idx) /\ Age(r.idx) < Age(l)
    BY <1>1, ContradictedLoads
  <2> QED BY <1>1, <2>1
<1>5. ASSUME NEW i \in viol'
      PROVE /\ i \in InFlight /\ c <= Age(i)
            /\ Stays(i, c, top) => slot'[i].kind = "load"
  <2>1. i \in V
    BY DEF Oldest
  <2> QED BY <1>2, <1>4, <2>1
<1>6. StaleCovered'
  <2>1. SUFFICES ASSUME NEW i \in stale'
                 PROVE i \in InFlight' /\ \E m \in InFlight' : Age(m)' <= Age(i)' /\ Marked(m)'
    BY DEF StaleCovered
  <2>2. i \in stale \union V /\ Stays(i, c, top)
    OBVIOUS
  <2>3. i \in Index
    BY <1>1, <1>4, <2>2 DEF TypeOK
  <2>4. /\ i \in InFlight' /\ Age(i)' = Age(i) - c /\ Age(i) <= top /\ c <= Age(i)
    BY <1>2, <2>2, <2>3 DEF Stays
  <2>5. CASE i \in stale
    <3>1. PICK m \in InFlight : Age(m) <= Age(i) /\ Marked(m)
      BY <1>1, <2>5 DEF StaleCovered
    <3>2. m \in Index /\ slot[m].exc \in {"none", "trap", "replay"}
      BY <1>1, InFlightIs DEF TypeOK, Entry
    <3>3. c <= Age(m)
      <4>1. CASE slot[m].exc # "none"
        <5>1. SUFFICES ASSUME Age(m) < c PROVE FALSE
          BY <1>1, <3>2
        <5>2. Age(m) \in 0..(c - 1) /\ At(head, Age(m)) = m
          BY <1>1, <3>2, <5>1, AtAge
        <5> QED BY <1>1, <3>2, <4>1, <5>2 DEF Replays, Traps
      <4>2. CASE m \in viol /\ \E s \in InFlight : /\ Age(s) < Age(m)
                                         /\ slot[s].kind = "store" /\ ~slot[s].ready
        <5>1. PICK s \in InFlight : /\ Age(s) < Age(m)
                                    /\ slot[s].kind = "store" /\ ~slot[s].ready
          BY <4>2
        <5>2. s \in Index
          BY <1>1, InFlightIs
        <5>3. c <= Age(s)
          BY <1>1, <5>1, <5>2, UnreadyStays
        <5> QED BY <1>1, <3>2, <5>1, <5>2, <5>3
      <4> QED BY <3>1, <4>1, <4>2 DEF Marked
    <3>4. Stays(m, c, top)
      BY <1>1, <2>3, <2>4, <3>1, <3>2, <3>3 DEF Stays
    <3>5. m \in InFlight' /\ Age(m)' = Age(m) - c /\ slot'[m].exc # "none"
      BY <1>2, <3>1, <3>2, <3>4 DEF Marked
    <3>6. Age(m)' <= Age(i)'
      BY <1>1, <2>3, <2>4, <3>1, <3>2, <3>5
    <3> QED BY <2>4, <3>5, <3>6 DEF Marked
  <2>6. CASE i \in V
    <3>1. PICK m \in Oldest(V) : m \in V /\ Age(m) <= Age(i)
      <4>1. V \in SUBSET Index
        BY <1>4
      <4> QED BY <1>1, <2>6, <4>1, OldestExists
    <3>2. m \in Index /\ c <= Age(m) /\ m \in viol'
      BY <1>4, <3>1
    <3>3. PICK r \in R : /\ r \in Possible /\ r.part = "addr" /\ r.idx \in Index
                         /\ c <= Age(r.idx) /\ Age(r.idx) < Age(m)
      BY <1>4, <3>1
    <3> DEFINE t == r.idx
    <3>4. r.idx \notin faults
      OBVIOUS
    <3>5. slot[t].kind = "store" /\ ~Written(t, slot[t], faults).ready
      BY <1>1, <3>3, <3>4, StoreStaysUnready
    <3>6. t \in Index /\ c <= Age(t) /\ Age(t) < Age(m)
      BY <3>3
    <3> HIDE DEF t
    <3>7. Stays(m, c, top) /\ Stays(t, c, top)
      BY <1>1, <2>3, <2>4, <3>1, <3>2, <3>6 DEF Stays
    <3>8. /\ m \in InFlight' /\ Age(m)' = Age(m) - c
          /\ t \in InFlight' /\ Age(t)' = Age(t) - c
          /\ slot'[t].kind = "store" /\ ~slot'[t].ready
      BY <1>2, <3>2, <3>5, <3>6, <3>7
    <3>9. Age(m)' <= Age(i)' /\ Age(t)' < Age(m)'
      BY <1>1, <2>3, <2>4, <3>1, <3>2, <3>6, <3>8
    <3> QED BY <2>4, <3>2, <3>8, <3>9 DEF Marked
  <2> QED BY <2>2, <2>5, <2>6
<1> QED BY <1>2, <1>3, <1>5, <1>6

\* When nothing flushes, nothing that commits is marked, nor redirects.
LEMMA NoFlushCommits ==
  ASSUME TypeOK, NEW drained, ~CommitFlush(drained, FALSE)
  PROVE /\ CommitCount(drained, FALSE) \in 0..PipeWidth
        /\ CommitCount(drained, FALSE) <= count
        /\ CommitsReady(CommitCount(drained, FALSE))
<1> DEFINE c == CommitCount(drained, FALSE)
           n == ScanCount(drained)
<1>1. ~TakesInterrupt(n, drained, FALSE) /\ c = n
  <2>1. ~TakesInterrupt(n, drained, FALSE)
    BY Zenon DEF TakesInterrupt
  <2> QED BY <2>1, Zenon DEF CommitCount
<1>2. n > 0 => ~Redirects(n - 1)
  BY DEF CommitFlush
<1>3. /\ n \in 0..PipeWidth /\ n <= count
      /\ \A j \in 0..(n - 1) : ~Blocks(j, drained) /\ (j < n - 1 => ~Ends(j))
  BY ScanStops
<1> HIDE DEF c, n
<1>4. ASSUME NEW j \in 0..(n - 1) PROVE HeadReady(j) /\ ~Replays(j) /\ ~Traps(j)
  <2>1. HeadReady(j) /\ ~Replays(j)
    BY <1>3 DEF Blocks
  <2>2. n \in Int /\ PipeWidth \in Nat
    BY <1>3, RobAssumption
  <2>3. CASE j < n - 1
    BY <1>3, <2>1, <2>3 DEF Ends
  <2>4. CASE ~(j < n - 1)
    <3>1. j = n - 1 /\ n > 0
      BY <2>2, <2>4
    <3> QED BY <1>2, <2>1, <3>1 DEF Redirects
  <2> QED BY <2>3, <2>4
<1>5. c \in 0..PipeWidth /\ c <= count /\ CommitsReady(c)
  BY <1>1, <1>3, <1>4 DEF CommitsReady
<1> QED BY <1>5 DEF c

\* An ordinary cycle in terms of distances: what commits, stays and enters.
LEMMA CycleStays ==
  ASSUME RobInv, RobInv', NEW drained, NEW new \in Allocations,
         NEW R \in Reports, NEW faults, NEW V \in SUBSET Contradicted(R),
         Cycle(new, R, V, faults, drained)
  PROVE LET n == Cardinality(DOMAIN new)
            c == CommitCount(drained, FALSE)
        IN  /\ c \in 0..PipeWidth /\ c <= count /\ CommitsReady(c)
            /\ n \in 0..PipeWidth /\ n <= RobDepth - count /\ (refill => n = 0)
            /\ StayWritten(c, count - 1, faults)
            /\ \A i \in Index :
                  /\ i \in InFlight' <=> c <= Age(i) /\ Age(i) < count + n
                  /\ c <= Age(i) /\ count <= Age(i) /\ Age(i) < count + n
                      => \E k \in Kinds : slot'[i] = Written(i, Fresh(k), faults)
<1> DEFINE n == Cardinality(DOMAIN new)
           c == CommitCount(drained, FALSE)
           top == count - 1
<1>1. /\ TypeOK /\ RingConsistent /\ TypeOK' /\ RingConsistent'
      /\ RobDepth \in Nat /\ PipeWidth \in Nat /\ PipeWidth < RobDepth
      /\ head \in Index /\ count \in 0..RobDepth
      /\ head' \in Index /\ count' \in 0..RobDepth
  BY RobAssumption DEF RobInv, TypeOK
<1>2. /\ n \in 0..PipeWidth /\ n <= RobDepth - count
      /\ new \in [0..(n - 1) -> Kinds] /\ (refill => n = 0)
  BY <1>1, AllocationsShape
<1>3. /\ wbr' = R /\ viol' = Oldest(V) /\ head' = At(head, c)
      /\ slot' = NextSlots(new, c, faults)
      /\ stale' = (stale \union V) \ Committed(c)
      /\ \A i \in faults : \A r \in R : r.idx # i
  BY DEF Cycle, Execution
<1>4. c \in 0..PipeWidth /\ c <= count /\ CommitsReady(c)
  <2>1. ~CommitFlush(drained, FALSE)
    BY Zenon DEF Cycle
  <2> QED BY <1>1, <2>1, NoFlushCommits, Zenon
<1> HIDE DEF n, c
<1>5. /\ c \in 0..RobDepth /\ c \in Int /\ top \in Int /\ top < count
  BY <1>1, <1>4
<1>6. ASSUME NEW i \in Index
      PROVE /\ Age(i) \in 0..(RobDepth - 1)
            /\ Age(i)' = IF Age(i) >= c THEN Age(i) - c ELSE Age(i) - c + RobDepth
            /\ slot'[i].valid <=> c <= Age(i) /\ Age(i) < count + n
            /\ slot'[i].valid <=> i \in InFlight'
            /\ c <= Age(i) =>
                  IF count <= Age(i) /\ Age(i) < count + n
                  THEN \E k \in Kinds : slot'[i] = Written(i, Fresh(k), faults)
                  ELSE slot'[i] = Written(i, slot[i], faults)
  <2>1. /\ Age(i) \in 0..(RobDepth - 1)
        /\ Age(i)' = IF Age(i) >= c THEN Age(i) - c ELSE Age(i) - c + RobDepth
    BY <1>1, <1>3, <1>5, AgeIs, AgeMoves
  <2>2. /\ slot'[i].valid <=> c <= Age(i) /\ Age(i) < count + n
        /\ c <= Age(i) =>
              IF count <= Age(i) /\ Age(i) < count + n
              THEN \E k \in Kinds : slot'[i] = Written(i, Fresh(k), faults)
              ELSE slot'[i] = Written(i, slot[i], faults)
    BY <1>1, <1>2, <1>3, <1>4, CycleSlots
  <2>3. slot'[i].valid <=> i \in InFlight'
    BY <1>1 DEF RingConsistent
  <2> QED BY <2>1, <2>2, <2>3
<1>7. StayWritten(c, top, faults)
  <2>1. ASSUME NEW i \in Index, Stays(i, c, top)
        PROVE /\ i \in InFlight' /\ Age(i)' = Age(i) - c
              /\ slot'[i] = Written(i, slot[i], faults)
    <3>1. c <= Age(i) /\ Age(i) <= count - 1
      BY <2>1 DEF Stays
    <3>2. Age(i) < count /\ Age(i) < count + n
      BY <1>1, <1>2, <1>6, <3>1
    <3>3. ~(count <= Age(i)) /\ Age(i) >= c
      BY <1>1, <1>5, <1>6, <3>1, <3>2
    <3> QED BY <1>6, <3>1, <3>2, <3>3
  <2> QED BY <2>1 DEF StayWritten, SameButMisp
<1>8. \A i \in Index :
         /\ i \in InFlight' <=> c <= Age(i) /\ Age(i) < count + n
         /\ c <= Age(i) /\ count <= Age(i) /\ Age(i) < count + n
             => \E k \in Kinds : slot'[i] = Written(i, Fresh(k), faults)
  BY <1>6
<1>9. n \in 0..PipeWidth /\ n <= RobDepth - count /\ (refill => n = 0)
  BY <1>2
<1> QED BY <1>4, <1>7, <1>8, <1>9 DEF n, c, top

\* An ordinary cycle keeps the invariant.
LEMMA CycleKeepsReplay ==
  ASSUME RobInv, RobInv', ReplayInv, NEW drained, NEW new \in Allocations,
         NEW R \in Reports, NEW faults, NEW V \in SUBSET Contradicted(R),
         Cycle(new, R, V, faults, drained)
  PROVE ReplayInv'
<1> DEFINE n == Cardinality(DOMAIN new)
           c == CommitCount(drained, FALSE)
           top == count - 1
<1>1. /\ TypeOK /\ RingConsistent /\ TypeOK' /\ RingConsistent'
      /\ RobDepth \in Nat /\ PipeWidth \in Nat /\ PipeWidth < RobDepth
      /\ head \in Index /\ count \in 0..RobDepth
      /\ head' \in Index /\ count' \in 0..RobDepth
  BY RobAssumption DEF RobInv, TypeOK
<1>2. /\ wbr' = R /\ viol' = Oldest(V)
      /\ stale' = (stale \union V) \ Committed(c)
      /\ \A i \in faults : \A r \in R : r.idx # i
  BY DEF Cycle, Execution
<1>3. /\ c \in 0..PipeWidth /\ c <= count /\ CommitsReady(c)
      /\ n \in 0..PipeWidth /\ n <= RobDepth - count /\ (refill => n = 0)
      /\ StayWritten(c, top, faults)
      /\ \A i \in Index :
            /\ i \in InFlight' <=> c <= Age(i) /\ Age(i) < count + n
            /\ c <= Age(i) /\ count <= Age(i) /\ Age(i) < count + n
                => \E k \in Kinds : slot'[i] = Written(i, Fresh(k), faults)
  BY CycleStays
<1> HIDE DEF n, c
<1>4. /\ c \in 0..RobDepth /\ c \in Int /\ top \in Int /\ top < count
  BY <1>1, <1>3
<1>5. ASSUME NEW i \in Index
      PROVE Age(i) \in 0..(RobDepth - 1) /\ (slot'[i].valid <=> i \in InFlight')
  BY <1>1, AgeIs DEF RingConsistent
<1>6. ASSUME NEW r \in wbr' PROVE r \in R /\ Age(r.idx) <= top
  <2>1. r \in Possible
    BY <1>2, ReportsShape
  <2>2. r.idx \in InFlight
    BY <2>1 DEF Possible
  <2> QED BY <1>1, <1>2, <1>3, <1>5, <2>2, InFlightIs
<1>7. ASSUME NEW i \in stale' PROVE i \in stale \union V /\ Stays(i, c, top)
  <2>1. i \in InFlight
    BY <1>2 DEF ReplayInv, StaleCovered, Contradicted
  <2>2. i \in Index /\ Age(i) < count
    BY <1>1, <2>1, InFlightIs
  <2>3. ~(Age(i) < c)
    BY <1>1, <1>2, <1>4, <2>2, CommittedIs
  <2>4. c <= Age(i) /\ Age(i) <= count - 1
    BY <1>1, <1>4, <1>3, <1>5, <2>2, <2>3
  <2> QED BY <1>2, <2>4 DEF Stays
<1> HIDE DEF top
<1>8. /\ ReportsInFlight' /\ StaleCovered'
      /\ \A i \in viol' : i \in InFlight /\ c <= Age(i)
                            /\ (Stays(i, c, top) => slot'[i].kind = "load")
      /\ \A i \in Index : Stays(i, c, top) => Whole(slot'[i])
  BY <1>2, <1>3, <1>4, <1>6, <1>7, StepKeepsReplay
<1>9. ViolatesLoads'
  <2>1. ASSUME NEW i \in viol' PROVE slot'[i].kind = "load" /\ slot'[i].valid
    <3>1. i \in Index /\ Age(i) < count /\ c <= Age(i)
      BY <1>1, <1>8, InFlightIs
    <3>2. Age(i) <= count - 1 /\ Age(i) < count + n
      BY <1>1, <1>3, <1>5, <3>1
    <3> QED BY <1>3, <1>5, <1>8, <3>1, <3>2 DEF Stays, top
  <2> QED BY <2>1 DEF ViolatesLoads
<1>10. StoresReadyWhole'
  <2>1. ASSUME NEW i \in InFlight' PROVE Whole(slot'[i])
    <3>1. i \in Index
      BY <1>1, InFlightNextIndex
    <3>2. c <= Age(i) /\ Age(i) < count + n
      BY <1>3, <1>5, <3>1
    <3>3. CASE Age(i) < count
      <4>1. Age(i) <= count - 1
        BY <1>1, <1>3, <1>5, <3>1, <3>3
      <4>2. Stays(i, c, top)
        BY <3>2, <4>1 DEF Stays, top
      <4> QED BY <1>8, <3>1, <4>2
    <3>4. CASE ~(Age(i) < count)
      <4>1. count <= Age(i)
        BY <1>1, <1>3, <1>5, <3>1, <3>4
      <4>2. PICK k \in Kinds : slot'[i] = Written(i, Fresh(k), faults)
        BY <1>3, <1>5, <3>1, <3>2, <4>1
      <4>3. Fresh(k) \in Entry /\ Whole(Fresh(k))
        BY RobAssumption, FreshShape DEF Whole
      <4>4. ~refill
        BY <1>1, <1>3, <1>5, <3>1, <3>2, <4>1
      <4>5. i \notin InFlight /\ ~slot[i].valid
        BY <1>1, <3>1, <3>4, InFlightIs DEF RingConsistent
      <4>6. i \notin viol
        BY <4>4, <4>5 DEF ReplayInv, ViolatesLoads
      <4>7. \A r \in wbr : r.idx # i
        BY <4>5 DEF ReplayInv, ReportsInFlight
      <4> DEFINE e == Fresh(k)
      <4>8. e \in Entry /\ Whole(e)
        BY <4>3
      <4> HIDE DEF e
      <4>9. Whole(Written(i, e, faults))
        BY <4>6, <4>7, <4>8, WholeStays
      <4> QED BY <4>2, <4>9 DEF e
    <3> QED BY <3>3, <3>4
  <2> QED BY <2>1 DEF StoresReadyWhole, Whole
<1> QED BY <1>8, <1>9, <1>10 DEF ReplayInv

\* A partial flush in the same terms: the branch is the last that stays.
LEMMA PartialFlushStays ==
  ASSUME RobInv, RobInv', NEW drained, NEW b \in InFlight,
         NEW R \in Reports, NEW faults, NEW V \in SUBSET Contradicted(R),
         PartialFlush(b, R, V, faults, drained)
  PROVE LET c == CommitCount(drained, FALSE)
        IN  /\ c \in 0..PipeWidth /\ c <= count /\ CommitsReady(c)
            /\ b \in Index /\ Age(b) < count
            /\ StayWritten(c, Age(b), faults)
            /\ c <= Age(b) => /\ head' = At(head, c) /\ count' = Age(b) + 1 - c
                              /\ ~slot'[b].misp
            /\ \A i \in Index :
                  /\ i \in InFlight' <=> c <= Age(i) /\ Age(i) <= Age(b)
                  /\ i \in Cleared(At(b, 1)) <=> Age(b) < Age(i) /\ Age(i) < count
<1> DEFINE c == CommitCount(drained, FALSE)
           gone == Cleared(At(b, 1))
           top == Age(b)
<1>1. /\ TypeOK /\ RingConsistent /\ TypeOK' /\ RingConsistent'
      /\ RobDepth \in Nat /\ PipeWidth \in Nat /\ PipeWidth < RobDepth
      /\ head \in Index /\ count \in 0..RobDepth
      /\ head' \in Index /\ count' \in 0..RobDepth
      /\ slot \in [Index -> Entry]
  BY RobAssumption DEF RobInv, TypeOK
<1>2. /\ wbr' = {r \in R : r.idx \notin gone} /\ viol' = Oldest(V)
      /\ refill' = TRUE /\ retired' = c
      /\ stale' = (stale \union V) \ (Committed(c) \union gone)
      /\ slot' = [i \in Index |->
             IF i \in Committed(c) \union gone THEN Blank
             ELSE IF i = b THEN [Written(i, slot[i], faults) EXCEPT !.misp = FALSE]
             ELSE Written(i, slot[i], faults)]
      /\ \A i \in faults : \A r \in R : r.idx # i
  BY DEF PartialFlush, Execution
<1>3. c \in 0..PipeWidth /\ c <= count /\ CommitsReady(c)
  <2>1. ~CommitFlush(drained, FALSE)
    BY Zenon DEF PartialFlush
  <2> QED BY <1>1, <2>1, NoFlushCommits, Zenon
<1>4. /\ \A i \in Index : slot'[i].valid <=> c <= Age(i) /\ Age(i) <= Age(b)
      /\ \A i \in Index : i \in gone <=> Age(b) < Age(i) /\ Age(i) < count
      /\ c <= Age(b) => head' = At(head, c) /\ count' = Age(b) + 1 - c
  <2>1. /\ \A i \in Index : slot'[i].valid <=> retired' <= Age(i) /\ Age(i) <= Age(b)
        /\ \A i \in Index : i \in gone <=> Age(b) < Age(i) /\ Age(i) < count
        /\ retired' <= Age(b) => /\ head' = At(head, retired')
                                 /\ count' = Age(b) + 1 - retired'
    BY PartialFlushKeepsRing
  <2> HIDE DEF c, gone
  <2> QED BY <1>2, <2>1
<1> HIDE DEF c, gone
<1>5. /\ c \in 0..RobDepth /\ c \in Int /\ top \in Int /\ top < count /\ b \in Index
  BY <1>1, <1>3, InFlightIs, AgeIs
<1>6. ASSUME NEW i \in Index
      PROVE /\ Age(i) \in 0..(RobDepth - 1)
            /\ i \in Committed(c) <=> Age(i) < c
            /\ slot'[i].valid <=> i \in InFlight'
            /\ i \in InFlight <=> Age(i) < count
  BY <1>1, <1>5, AgeIs, CommittedIs, InFlightIs DEF RingConsistent
<1>7. StayWritten(c, top, faults)
  <2>1. ASSUME NEW i \in Index, Stays(i, c, top)
        PROVE /\ i \in InFlight' /\ Age(i)' = Age(i) - c
              /\ SameButMisp(slot'[i], Written(i, slot[i], faults))
    <3>1. c <= Age(i) /\ Age(i) <= Age(b)
      BY <2>1 DEF Stays
    <3>2. c <= Age(b) /\ Age(i) >= c
      BY <1>5, <1>6, <3>1
    <3>3. Age(i)' = Age(i) - c
      BY <1>1, <1>4, <1>5, <3>2, AgeMoves
    <3>4. i \notin Committed(c) \union gone
      BY <1>4, <1>5, <1>6, <3>1
    <3> DEFINE w == Written(i, slot[i], faults)
    <3>5. w \in Entry
      BY <1>1, WrittenShape
    <3>6. slot'[i] = IF i = b THEN [w EXCEPT !.misp = FALSE] ELSE w
      BY <1>2, <3>4
    <3> HIDE DEF w
    <3>7. SameButMisp(slot'[i], w)
      BY <3>5, <3>6 DEF SameButMisp, Entry
    <3> QED BY <1>4, <1>6, <3>1, <3>3, <3>7 DEF w
  <2> QED BY <2>1 DEF StayWritten
<1>8. \A i \in Index :
         /\ i \in InFlight' <=> c <= Age(i) /\ Age(i) <= Age(b)
         /\ i \in gone <=> Age(b) < Age(i) /\ Age(i) < count
  BY <1>4, <1>6
<1>9. c <= Age(b) => ~slot'[b].misp
  <2>1. SUFFICES ASSUME c <= Age(b) PROVE ~slot'[b].misp
    OBVIOUS
  <2>2. b \notin Committed(c) \union gone
    BY <1>4, <1>5, <1>6, <2>1
  <2> DEFINE w == Written(b, slot[b], faults)
  <2>3. w \in Entry
    BY <1>1, <1>5, WrittenShape
  <2>4. slot'[b] = [w EXCEPT !.misp = FALSE]
    BY <1>2, <1>5, <2>2
  <2> HIDE DEF w
  <2> QED BY <2>3, <2>4 DEF Entry
<1> QED BY <1>3, <1>4, <1>5, <1>7, <1>8, <1>9 DEF c, gone

\* So does a partial flush: what it takes away is younger than what it keeps.
LEMMA PartialFlushKeepsReplay ==
  ASSUME RobInv, RobInv', ReplayInv, NEW drained, NEW b \in InFlight,
         NEW R \in Reports, NEW faults, NEW V \in SUBSET Contradicted(R),
         PartialFlush(b, R, V, faults, drained)
  PROVE ReplayInv'
<1> DEFINE c == CommitCount(drained, FALSE)
           gone == Cleared(At(b, 1))
           top == Age(b)
<1>1. /\ TypeOK /\ RingConsistent /\ TypeOK' /\ RingConsistent'
      /\ RobDepth \in Nat /\ PipeWidth \in Nat /\ PipeWidth < RobDepth
      /\ head \in Index /\ count \in 0..RobDepth
      /\ head' \in Index /\ count' \in 0..RobDepth
  BY RobAssumption DEF RobInv, TypeOK
<1>2. /\ wbr' = {r \in R : r.idx \notin gone} /\ viol' = Oldest(V) /\ refill' = TRUE
      /\ stale' = (stale \union V) \ (Committed(c) \union gone)
      /\ \A i \in faults : \A r \in R : r.idx # i
  BY DEF PartialFlush, Execution
<1>3. /\ c \in 0..PipeWidth /\ c <= count /\ CommitsReady(c)
      /\ b \in Index /\ top < count
      /\ StayWritten(c, top, faults)
      /\ \A i \in Index :
            /\ i \in InFlight' <=> c <= Age(i) /\ Age(i) <= top
            /\ i \in gone <=> top < Age(i) /\ Age(i) < count
  BY PartialFlushStays
<1> HIDE DEF c, gone
<1>4. /\ c \in 0..RobDepth /\ c \in Int /\ top \in Int
  BY <1>1, <1>3, AgeIs
<1>5. ASSUME NEW i \in Index
      PROVE /\ Age(i) \in 0..(RobDepth - 1) /\ (slot'[i].valid <=> i \in InFlight')
            /\ i \in Committed(c) <=> Age(i) < c
  BY <1>1, <1>4, AgeIs, CommittedIs DEF RingConsistent
<1>6. ASSUME NEW r \in wbr' PROVE r \in R /\ Age(r.idx) <= top
  <2>1. r \in Possible /\ r.idx \notin gone /\ r \in R
    BY <1>2, ReportsShape
  <2>2. r.idx \in InFlight
    BY <2>1 DEF Possible
  <2>3. r.idx \in Index /\ Age(r.idx) < count
    BY <1>1, <2>2, InFlightIs
  <2> QED BY <1>3, <1>4, <1>5, <2>1, <2>3
<1>7. ASSUME NEW i \in stale' PROVE i \in stale \union V /\ Stays(i, c, top)
  <2>1. i \in InFlight /\ i \notin Committed(c) /\ i \notin gone
    BY <1>2 DEF ReplayInv, StaleCovered, Contradicted
  <2>2. i \in Index /\ Age(i) < count
    BY <1>1, <2>1, InFlightIs
  <2>3. c <= Age(i) /\ Age(i) <= Age(b)
    BY <1>3, <1>4, <1>5, <2>1, <2>2
  <2> QED BY <1>2, <2>3 DEF Stays
<1> HIDE DEF top
<1>8. /\ ReportsInFlight' /\ StaleCovered'
      /\ \A i \in viol' : i \in InFlight /\ c <= Age(i)
                            /\ (Stays(i, c, top) => slot'[i].kind = "load")
      /\ \A i \in Index : Stays(i, c, top) => Whole(slot'[i])
  BY <1>2, <1>3, <1>4, <1>6, <1>7, StepKeepsReplay
<1>9. ViolatesLoads'
  <2>1. ASSUME NEW i \in viol', slot'[i].valid PROVE slot'[i].kind = "load"
    <3>1. i \in Index
      BY <1>1, <1>8, InFlightIs
    <3>2. i \in InFlight'
      BY <1>5, <2>1, <3>1
    <3>3. Stays(i, c, top)
      BY <1>3, <3>1, <3>2 DEF Stays
    <3> QED BY <1>8, <2>1, <3>3
  <2> QED BY <1>2, <2>1 DEF ViolatesLoads
<1>10. StoresReadyWhole'
  <2>1. ASSUME NEW i \in InFlight' PROVE Whole(slot'[i])
    <3>1. i \in Index
      BY <1>1, InFlightNextIndex
    <3>2. Stays(i, c, top)
      BY <1>3, <2>1, <3>1 DEF Stays
    <3> QED BY <1>8, <3>1, <3>2
  <2> QED BY <2>1 DEF StoresReadyWhole, Whole
<1> QED BY <1>8, <1>9, <1>10 DEF ReplayInv

\* Every step keeps the invariant.
LEMMA ReplayStep ==
  ASSUME RobInv, ReplayInv, [Next]_vars
  PROVE ReplayInv'
<1>0. RobInv'
  BY RobStep
<1>1. ASSUME NEW drained \in Drains, NEW new \in Allocations, NEW R \in Reports,
             NEW faults \in Faults, NEW V \in SUBSET Contradicted(R),
             Cycle(new, R, V, faults, drained)
      PROVE ReplayInv'
  BY <1>0, <1>1, CycleKeepsReplay
<1>2. ASSUME NEW drained \in Drains, NEW irq \in BOOLEAN, FullFlush(drained, irq)
      PROVE ReplayInv'
  <2>1. wbr' = {} /\ viol' = {} /\ stale' = {} /\ count' = 0
    BY <1>2 DEF FullFlush
  <2>2. InFlight' = {}
    BY <2>1 DEF InFlight
  <2> QED BY <2>1, <2>2 DEF ReplayInv, ReportsInFlight, ViolatesLoads,
                            StoresReadyWhole, StaleCovered
<1>3. ASSUME NEW drained \in Drains, NEW b \in InFlight, NEW R \in Reports,
             NEW faults \in Faults, NEW V \in SUBSET Contradicted(R),
             PartialFlush(b, R, V, faults, drained)
      PROVE ReplayInv'
  BY <1>0, <1>3, PartialFlushKeepsReplay
<1>4. CASE UNCHANGED vars
  BY <1>4 DEF vars, ReplayInv, ReportsInFlight, ViolatesLoads, StoresReadyWhole,
              StaleCovered, Marked, Whole, InFlight, Age, At, Parts
<1> QED BY <1>1, <1>2, <1>3, <1>4 DEF Next

\* The two invariants together hold from the empty reorder buffer on.
LEMMA ReplayInvInductive == Spec => [](RobInv /\ ReplayInv)
<1>1. Init => ReplayInv
  <2> SUFFICES ASSUME Init PROVE ReplayInv
    OBVIOUS
  <2>1. wbr = {} /\ viol = {} /\ stale = {} /\ count = 0
    BY DEF Init
  <2>2. InFlight = {}
    BY <2>1 DEF InFlight
  <2> QED BY <2>1, <2>2 DEF ReplayInv, ReportsInFlight, ViolatesLoads,
                            StoresReadyWhole, StaleCovered
<1>2. RobInv /\ ReplayInv /\ [Next]_vars => ReplayInv'
  BY ReplayStep
<1> QED BY <1>1, <1>2, RobInvInductive, PTL DEF Spec

\* A load whose data an older store has contradicted does not retire with it,
\* whatever else the cycle does: bypass, violation reported late, violation
\* overwritten by the load's own trap, partial flush in between (rob.sv: the
\* violation port and the bypass; commit.sv: the replay; load_queue.sv: the
\* oldest violation is reported).
THEOREM NoStaleRetirement == Spec => StaleLoadsNeverRetire
<1> DEFINE Sound == \A k \in 0..(retired' - 1) :
                       At(head, k) \in stale => slot[At(head, k)].exc = "trap"
<1>1. RobInv /\ ReplayInv /\ [Next]_vars => [Sound]_vars
  <2> SUFFICES ASSUME RobInv, ReplayInv, Next, NEW k \in 0..(retired' - 1),
                      At(head, k) \in stale
               PROVE slot[At(head, k)].exc = "trap"
    OBVIOUS
  <2>1. \E drained, irq : retired' = CommitCount(drained, irq)
    <3>1. ASSUME NEW drained, NEW new, NEW R, NEW faults, NEW V,
                 Cycle(new, R, V, faults, drained)
          PROVE retired' = CommitCount(drained, FALSE)
      BY <3>1, Zenon DEF Cycle
    <3>2. ASSUME NEW drained, NEW irq, FullFlush(drained, irq)
          PROVE retired' = CommitCount(drained, irq)
      BY <3>2, Zenon DEF FullFlush
    <3>3. ASSUME NEW drained, NEW b, NEW R, NEW faults, NEW V,
                 PartialFlush(b, R, V, faults, drained)
          PROVE retired' = CommitCount(drained, FALSE)
      BY <3>3, Zenon DEF PartialFlush
    <3> QED BY <3>1, <3>2, <3>3, Zenon DEF Next
  <2>2. /\ retired' \in 0..PipeWidth /\ retired' <= count
        /\ \A j \in 0..(retired' - 1) :
              HeadReady(j) /\ ~Replays(j) /\ (j < retired' - 1 => ~Traps(j))
    <3>1. PICK drained, irq : retired' = CommitCount(drained, irq)
      BY <2>1
    <3> QED BY <3>1, CommitStops DEF RobInv, Ends
  <2>3. /\ TypeOK /\ head \in Index /\ k \in 0..(RobDepth - 1) /\ RobDepth \in Nat
        /\ PipeWidth \in Nat /\ k < retired' /\ k \in Int /\ retired' \in Int
    <3>1. TypeOK /\ head \in Index
      BY DEF RobInv, TypeOK
    <3> DEFINE n == retired'
    <3>2. n \in 0..PipeWidth /\ k \in 0..(n - 1)
      BY <2>2
    <3> HIDE DEF n
    <3>3. /\ k \in 0..(RobDepth - 1) /\ RobDepth \in Nat /\ PipeWidth \in Nat
          /\ k < n /\ k \in Int /\ n \in Int
      BY <3>2, RobAssumption
    <3> QED BY <3>1, <3>3 DEF n
  <2> DEFINE i == At(head, k)
  <2>4. i \in Index /\ Age(i) = k
    BY <2>3, AgeAt
  <2>5. PICK m \in InFlight : Age(m) <= Age(i) /\ Marked(m)
    BY DEF ReplayInv, StaleCovered
  <2> HIDE DEF i
  <2>6. /\ m \in Index /\ Age(m) \in 0..(RobDepth - 1) /\ Age(m) <= k
        /\ slot[m].exc \in {"none", "trap", "replay"}
    BY <2>3, <2>4, <2>5, InFlightIs, AgeIs DEF TypeOK, Entry
  <2>7. /\ Age(m) \in 0..(retired' - 1) /\ At(head, Age(m)) = m
    BY <2>3, <2>6, AtAge
  <2>8. slot[m].exc # "none"
    <3>1. SUFFICES ASSUME NEW s \in InFlight, Age(s) < Age(m),
                          slot[s].kind = "store", ~slot[s].ready
                   PROVE FALSE
      BY <2>5 DEF Marked
    <3>2. s \in Index /\ Age(s) \in 0..(RobDepth - 1)
      BY <2>3, InFlightIs, AgeIs DEF TypeOK
    <3>3. Age(s) \in 0..(retired' - 1) /\ At(head, Age(s)) = s
      BY <2>3, <2>6, <3>1, <3>2, AtAge
    <3>4. HeadReady(Age(s))
      BY <2>2, <3>3
    <3> QED BY <3>1, <3>3, <3>4 DEF HeadReady, Bypass
  <2>9. slot[m].exc = "trap" /\ ~(Age(m) < retired' - 1)
    BY <2>2, <2>6, <2>7, <2>8 DEF Replays, Traps
  <2>10. Age(m) = k
    BY <2>3, <2>6, <2>7, <2>9
  <2> QED BY <2>7, <2>9, <2>10
<1> QED BY <1>1, ReplayInvInductive, PTL DEF Spec, StaleLoadsNeverRetire

-----------------------------------------------------------------------------
(***************************************************************************)
(* The reorder buffer implements the queue of AbsRob: the ring, read from  *)
(* the head with what the writeback registers already know, takes a step   *)
(* of the queue in every cycle, an ordinary one, a flush or a recovery.    *)
(***************************************************************************)

\* A result in a writeback register fits its entry: it traps or mispredicts
\* only where its kind may, an entry is ready before its result only when it
\* is marked for replay, and no part is reported twice.
ReportsFit ==
    \A r \in wbr :
        /\ r.exc = "trap" => slot[r.idx].kind \in MayTrap
        /\ r.misp => slot[r.idx].kind = "branch"
        /\ slot[r.idx].ready /\ slot[r.idx].kind # "store" => slot[r.idx].exc = "replay"
        /\ \A x \in wbr : x.idx = r.idx /\ x.part = r.part => x = r

\* Only branches mispredict, only loads are replayed.
KindsFit ==
    \A i \in InFlight : /\ slot[i].misp => slot[i].kind = "branch"
                        /\ slot[i].exc = "replay" => slot[i].kind = "load"

RefineInv == ReportsFit /\ KindsFit

RefInv == RobInv /\ ReplayInv /\ RefineInv

-----------------------------------------------------------------------------
\* The instruction that entry e, with index i, is when W is registered.
Owes(e, W, i, p) ==
    /\ ~e.ready /\ p \in Parts(e.kind)
    /\ ~\E r \in W : r.idx = i /\ r.part = p
    /\ ~(p = "addr" /\ e.addr) /\ ~(p = "data" /\ e.data)

Trapped(W, i) == \E r \in W : r.idx = i /\ r.exc = "trap"
Mispredicted(W, i) == \E r \in W : r.idx = i /\ r.misp

Reads(f, e, W, i) ==
    /\ f.kind = e.kind
    /\ f.work \subseteq Parts(e.kind)
    /\ \A p : p \in f.work <=> Owes(e, W, i, p)
    /\ f.exc = IF e.exc = "none" /\ Trapped(W, i) THEN "trap" ELSE e.exc
    /\ f.misp = (e.misp \/ Mispredicted(W, i))

\* The instructions of the queue are read this way, before and after a step.
LEMMA InsnReads ==
  ASSUME NEW i
  PROVE /\ Reads(Insn(i), slot[i], wbr, i)
        /\ Reads(Insn(i)', slot'[i], wbr', i)
<1>1. Reads(Insn(i), slot[i], wbr, i)
  BY DEF Insn, Reads, Reported, Owes, Trapped, Mispredicted, Parts
<1>2. Reads(Insn(i)', slot'[i], wbr', i)
  BY DEF Insn, Reads, Reported, Owes, Trapped, Mispredicted, Parts
<1> QED BY <1>1, <1>2

\* The misprediction bit after the writes of a cycle.
LEMMA WrittenMisp ==
  ASSUME NEW i, NEW e \in Entry, NEW faults
  PROVE Written(i, e, faults).misp = (e.misp \/ Mispredicted(wbr, i))
<1> DEFINE mine == {r \in wbr : r.idx = i}
           f == IF i \in faults THEN [e EXCEPT !.ready = TRUE, !.exc = "trap"] ELSE e
           parts == {r.part : r \in mine}
           x == \E r \in mine : r.exc = "trap"
           m == \E r \in mine : r.misp
           v == i \in viol
           w == Written(i, e, faults)
<1>1. f \in Entry /\ f.misp = e.misp
  BY DEF Entry
<1>2. w = WriteBack(f, parts, x, m, v)
  BY DEF Written
<1>3. m = Mispredicted(wbr, i)
  BY DEF Mispredicted
<1> HIDE DEF f, parts, x, m, v, w
<1>4. w.misp = (f.misp \/ m)
  BY <1>1, <1>2 DEF WriteBack, Entry
<1>5. w.misp = (e.misp \/ Mispredicted(wbr, i))
  BY <1>1, <1>3, <1>4
<1> QED BY <1>5 DEF w

\* What stays fits its kind after the writes of the cycle.
LEMMA StayingFits ==
  ASSUME RefInv, NEW c \in 0..RobDepth, NEW top \in Int, top < count, NEW faults,
         StayWritten(c, top, faults), NEW i \in Index, Stays(i, c, top)
  PROVE /\ i \in InFlight /\ i \in InFlight' /\ Age(i)' = Age(i) - c
        /\ slot[i] \in Entry /\ slot'[i].kind = slot[i].kind
        /\ SameButMisp(slot'[i], Written(i, slot[i], faults))
        /\ slot'[i].misp => slot[i].kind = "branch"
        /\ slot'[i].exc = "replay" => slot[i].kind = "load"
<1>1. /\ TypeOK /\ RingConsistent /\ head \in Index /\ count \in 0..RobDepth
      /\ slot \in [Index -> Entry] /\ Age(i) \in 0..(RobDepth - 1) /\ RobDepth \in Nat
      /\ ReportsInFlight /\ ViolatesLoads /\ ReportsFit /\ KindsFit
  BY AgeIs, RobAssumption DEF RefInv, RobInv, TypeOK, ReplayInv, RefineInv
<1>2. i \in InFlight /\ slot[i].valid /\ slot[i] \in Entry
  <2>1. Age(i) < count
    BY <1>1 DEF Stays
  <2> QED BY <1>1, <2>1, InFlightIs DEF RingConsistent
<1> DEFINE e == slot[i]
           f == slot'[i]
           w == Written(i, e, faults)
<1>3. i \in InFlight' /\ Age(i)' = Age(i) - c /\ SameButMisp(f, w)
  BY DEF StayWritten
<1>4. WriteResult(w, i, e, faults) /\ w.misp = (e.misp \/ Mispredicted(wbr, i))
  BY <1>2, WrittenFields, WrittenMisp
<1>5. Mispredicted(wbr, i) \/ e.misp => e.kind = "branch"
  BY <1>1, <1>2 DEF ReportsFit, KindsFit, Mispredicted
<1>6. i \in viol \/ e.exc = "replay" => e.kind = "load"
  BY <1>1, <1>2 DEF ViolatesLoads, KindsFit
<1>7. e \in Entry
  BY <1>2
<1> HIDE DEF e, f, w
<1>8. f.kind = e.kind /\ (f.misp => e.kind = "branch")
  BY <1>3, <1>4, <1>5 DEF SameButMisp, WriteResult
<1>9. f.exc = "replay" => e.kind = "load"
  BY <1>3, <1>4, <1>6 DEF SameButMisp, WriteResult
<1> QED BY <1>2, <1>3, <1>8, <1>9 DEF e, f, w

\* What reports in a cycle fits its entry after it.
LEMMA ReportsFitStep ==
  ASSUME RefInv, NEW c \in 0..RobDepth, CommitsReady(c),
         NEW top \in Int, top < count, NEW R \in Reports, NEW faults,
         \A i \in faults : \A r \in R : r.idx # i,
         StayWritten(c, top, faults),
         \A r \in wbr' : r \in R /\ Age(r.idx) <= top
  PROVE ReportsFit'
<1>1. /\ TypeOK /\ ReportsInFlight /\ StoresReadyWhole
      /\ \A j \in 0..(c - 1) : HeadReady(j)
  BY DEF RefInv, RobInv, ReplayInv, CommitsReady
<1>2. ASSUME NEW r \in wbr'
      PROVE /\ r.exc = "trap" => slot'[r.idx].kind \in MayTrap
            /\ r.misp => slot'[r.idx].kind = "branch"
            /\ slot'[r.idx].ready /\ slot'[r.idx].kind # "store"
                 => slot'[r.idx].exc = "replay"
  <2>1. r \in Possible /\ r \in R /\ Age(r.idx) <= top
    BY ReportsShape
  <2>2. r.idx \in Index /\ c <= Age(r.idx)
    BY <1>1, <2>1, ReportingStays
  <2> DEFINE i == r.idx
             e == slot[i]
             f == slot'[i]
             w == Written(i, e, faults)
  <2>3. /\ r.part \in Parts(e.kind) /\ ~e.ready /\ i \notin faults
        /\ \A x \in wbr : ~(x.idx = i /\ x.part = r.part)
        /\ r.exc = "trap" => e.kind \in MayTrap
        /\ r.misp => e.kind = "branch"
    BY <1>1, <2>1, PossibleUnready DEF Possible
  <2>4. i \in Index /\ Stays(i, c, top)
    BY <2>1, <2>2 DEF Stays
  <2>5. i \in InFlight /\ e \in Entry /\ f.kind = e.kind /\ SameButMisp(f, w)
    <3> HIDE DEF i
    <3> QED BY <2>4, StayingFits
  <2>6. e.kind # "store" => \A x \in wbr : x.idx # i
    <3>1. ASSUME NEW x \in wbr, x.idx = i, e.kind # "store" PROVE FALSE
      <4>1. x.part \in Parts(e.kind)
        BY <1>1, <3>1 DEF ReportsInFlight
      <4> QED BY <2>3, <3>1, <4>1 DEF Parts
    <3> QED BY <3>1
  <2>7. WriteResult(w, i, e, faults)
    BY <2>5, WrittenFields
  <2> HIDE DEF i, e, f, w
  <2>8. f.ready /\ f.kind # "store" => f.exc = "replay"
    BY <2>3, <2>5, <2>6, <2>7 DEF SameButMisp, WriteResult, Has
  <2> QED BY <2>3, <2>5, <2>8 DEF i, e, f
<1>3. \A r, x \in wbr' : x.idx = r.idx /\ x.part = r.part => x = r
  BY DEF Reports
<1> QED BY <1>2, <1>3 DEF ReportsFit

\* An entry allocated in the cycle is as it was allocated.
LEMMA FreshUnwritten ==
  ASSUME RefInv, NEW i \in Index, i \notin InFlight, ~refill, NEW k \in Kinds,
         NEW faults \in Faults
  PROVE /\ Written(i, Fresh(k), faults).kind = k
        /\ Written(i, Fresh(k), faults).exc = IF k = "bad" THEN "trap" ELSE "none"
        /\ Written(i, Fresh(k), faults).ready <=> k \in {"zero", "bad"}
        /\ ~Written(i, Fresh(k), faults).misp
        /\ ~Written(i, Fresh(k), faults).addr
        /\ ~Written(i, Fresh(k), faults).data
<1> DEFINE e == Fresh(k)
           w == Written(i, e, faults)
<1>1. /\ e \in Entry /\ e.kind = k /\ e.exc = IF k = "bad" THEN "trap" ELSE "none"
      /\ e.ready <=> k \in {"zero", "bad"}
      /\ ~e.misp /\ ~e.addr /\ ~e.data
  BY RobAssumption, FreshShape
<1>2. i \notin viol /\ i \notin faults /\ \A r \in wbr : r.idx # i
  <2>1. ~slot[i].valid
    BY DEF RefInv, RobInv, RingConsistent
  <2>2. i \notin viol
    BY <2>1 DEF RefInv, ReplayInv, ViolatesLoads
  <2>3. \A r \in wbr : r.idx # i
    BY DEF RefInv, ReplayInv, ReportsInFlight
  <2>4. i \notin faults
    BY DEF Faults
  <2> QED BY <2>2, <2>3, <2>4
<1> HIDE DEF e
<1>3. WriteResult(w, i, e, faults) /\ w.misp = (e.misp \/ Mispredicted(wbr, i))
  BY <1>1, WrittenFields, WrittenMisp
<1> HIDE DEF w
<1>4. w.kind = k /\ w.exc = e.exc /\ ~w.addr /\ ~w.data
  BY <1>1, <1>2, <1>3 DEF WriteResult, Has, HasTrap
<1>5. (w.ready <=> e.ready) /\ ~w.misp
  BY <1>1, <1>2, <1>3, <1>4 DEF WriteResult, Has, Mispredicted
<1> QED BY <1>1, <1>4, <1>5 DEF w, e

\* An ordinary cycle keeps the invariant.
LEMMA CycleKeepsFit ==
  ASSUME RefInv, RobInv', NEW drained, NEW new \in Allocations,
         NEW R \in Reports, NEW faults \in Faults, NEW V \in SUBSET Contradicted(R),
         Cycle(new, R, V, faults, drained)
  PROVE RefineInv'
<1> DEFINE n == Cardinality(DOMAIN new)
           c == CommitCount(drained, FALSE)
           top == count - 1
<1>1. /\ RobInv /\ RobDepth \in Nat /\ PipeWidth \in Nat /\ PipeWidth < RobDepth
      /\ head \in Index /\ count \in 0..RobDepth
      /\ head' \in Index /\ count' \in 0..RobDepth
  BY RobAssumption DEF RefInv, RobInv, TypeOK
<1>2. wbr' = R /\ \A i \in faults : \A r \in R : r.idx # i
  BY DEF Cycle, Execution
<1>3. /\ c \in 0..PipeWidth /\ c <= count /\ CommitsReady(c)
      /\ n \in 0..PipeWidth /\ n <= RobDepth - count /\ (refill => n = 0)
      /\ StayWritten(c, top, faults)
      /\ \A i \in Index :
            /\ i \in InFlight' <=> c <= Age(i) /\ Age(i) < count + n
            /\ c <= Age(i) /\ count <= Age(i) /\ Age(i) < count + n
                => \E k \in Kinds : slot'[i] = Written(i, Fresh(k), faults)
  BY <1>1, CycleStays
<1> HIDE DEF n, c
<1>4. /\ c \in 0..RobDepth /\ c \in Int /\ top \in Int /\ top < count
  BY <1>1, <1>3
<1>5. ASSUME NEW r \in wbr' PROVE r \in R /\ Age(r.idx) <= top
  <2>1. r.idx \in InFlight
    BY <1>2, ReportsShape DEF Possible
  <2>2. r.idx \in Index /\ Age(r.idx) < count
    BY <1>1, <2>1, InFlightIs
  <2>3. Age(r.idx) \in 0..(RobDepth - 1)
    BY <1>1, <2>2, AgeIs
  <2> QED BY <1>1, <1>2, <2>2, <2>3
<1> HIDE DEF top
<1>6. ReportsFit'
  BY <1>2, <1>3, <1>4, <1>5, ReportsFitStep
<1>7. KindsFit'
  <2>1. ASSUME NEW i \in InFlight'
        PROVE /\ slot'[i].misp => slot'[i].kind = "branch"
              /\ slot'[i].exc = "replay" => slot'[i].kind = "load"
    <3>1. i \in Index
      BY <1>1, InFlightNextIndex
    <3>2. c <= Age(i) /\ Age(i) < count + n /\ Age(i) \in 0..(RobDepth - 1)
      BY <1>1, <1>3, <2>1, <3>1, AgeIs
    <3>3. CASE Age(i) < count
      <4>1. Stays(i, c, top)
        BY <1>1, <1>4, <3>2, <3>3 DEF Stays, top
      <4> QED BY <1>3, <1>4, <3>1, <4>1, StayingFits
    <3>4. CASE ~(Age(i) < count)
      <4>1. count <= Age(i) /\ ~refill
        BY <1>1, <1>3, <3>2, <3>4
      <4>2. PICK k \in Kinds : slot'[i] = Written(i, Fresh(k), faults)
        BY <1>3, <3>1, <3>2, <4>1
      <4>3. i \notin InFlight
        BY <1>1, <3>1, <3>4, InFlightIs
      <4> QED BY <3>1, <4>1, <4>2, <4>3, FreshUnwritten
    <3> QED BY <3>3, <3>4
  <2> QED BY <2>1 DEF KindsFit
<1> QED BY <1>6, <1>7 DEF RefineInv

\* A partial flush keeps it.
LEMMA PartialFlushKeepsFit ==
  ASSUME RefInv, RobInv', NEW drained, NEW b \in InFlight,
         NEW R \in Reports, NEW faults \in Faults, NEW V \in SUBSET Contradicted(R),
         PartialFlush(b, R, V, faults, drained)
  PROVE RefineInv'
<1> DEFINE c == CommitCount(drained, FALSE)
           gone == Cleared(At(b, 1))
           top == Age(b)
<1>1. /\ RobInv /\ RobDepth \in Nat /\ PipeWidth \in Nat /\ PipeWidth < RobDepth
      /\ head \in Index /\ count \in 0..RobDepth
      /\ head' \in Index /\ count' \in 0..RobDepth
  BY RobAssumption DEF RefInv, RobInv, TypeOK
<1>2. /\ wbr' = {r \in R : r.idx \notin gone}
      /\ \A i \in faults : \A r \in R : r.idx # i
  BY DEF PartialFlush, Execution
<1>3. /\ c \in 0..PipeWidth /\ c <= count /\ CommitsReady(c)
      /\ b \in Index /\ top < count
      /\ StayWritten(c, top, faults)
      /\ \A i \in Index :
            /\ i \in InFlight' <=> c <= Age(i) /\ Age(i) <= top
            /\ i \in gone <=> top < Age(i) /\ Age(i) < count
  BY <1>1, PartialFlushStays
<1> HIDE DEF c, gone
<1>4. /\ c \in 0..RobDepth /\ c \in Int /\ top \in Int
  BY <1>1, <1>3, AgeIs
<1>5. ASSUME NEW r \in wbr' PROVE r \in R /\ Age(r.idx) <= top
  <2>1. r.idx \in InFlight /\ r.idx \notin gone /\ r \in R
    BY <1>2, ReportsShape DEF Possible
  <2>2. r.idx \in Index /\ Age(r.idx) < count
    BY <1>1, <2>1, InFlightIs
  <2>3. Age(r.idx) \in 0..(RobDepth - 1)
    BY <1>1, <2>2, AgeIs
  <2> QED BY <1>3, <1>4, <2>1, <2>2, <2>3
<1> HIDE DEF top
<1>6. ReportsFit'
  BY <1>2, <1>3, <1>4, <1>5, ReportsFitStep
<1>7. KindsFit'
  <2>1. ASSUME NEW i \in InFlight'
        PROVE /\ slot'[i].misp => slot'[i].kind = "branch"
              /\ slot'[i].exc = "replay" => slot'[i].kind = "load"
    <3>1. i \in Index
      BY <1>1, InFlightNextIndex
    <3>2. Stays(i, c, top)
      BY <1>3, <2>1, <3>1 DEF Stays
    <3> QED BY <1>3, <1>4, <3>1, <3>2, StayingFits
  <2> QED BY <2>1 DEF KindsFit
<1> QED BY <1>6, <1>7 DEF RefineInv

\* Every step keeps the invariant; a full flush leaves nothing to fit.
LEMMA RefStep ==
  ASSUME RefInv, [Next]_vars
  PROVE RefInv'
<1>1. RobInv' /\ ReplayInv'
  BY RobStep, ReplayStep DEF RefInv
<1>2. RefineInv'
  <2>1. ASSUME NEW drained \in Drains, NEW new \in Allocations, NEW R \in Reports,
               NEW faults \in Faults, NEW V \in SUBSET Contradicted(R),
               Cycle(new, R, V, faults, drained)
        PROVE RefineInv'
    BY <1>1, <2>1, CycleKeepsFit
  <2>2. ASSUME NEW drained \in Drains, NEW irq \in BOOLEAN, FullFlush(drained, irq)
        PROVE RefineInv'
    <3>1. wbr' = {} /\ count' = 0
      BY <2>2 DEF FullFlush
    <3>2. InFlight' = {}
      BY <3>1 DEF InFlight
    <3> QED BY <3>1, <3>2 DEF RefineInv, ReportsFit, KindsFit
  <2>3. ASSUME NEW drained \in Drains, NEW b \in InFlight, NEW R \in Reports,
               NEW faults \in Faults, NEW V \in SUBSET Contradicted(R),
               PartialFlush(b, R, V, faults, drained)
        PROVE RefineInv'
    BY <1>1, <2>3, PartialFlushKeepsFit
  <2>4. CASE UNCHANGED vars
    BY <2>4 DEF vars, RefInv, RefineInv, ReportsFit, KindsFit, InFlight, At
  <2> QED BY <2>1, <2>2, <2>3, <2>4 DEF Next
<1> QED BY <1>1, <1>2 DEF RefInv

\* All invariants of the reorder buffer, together.
LEMMA RefInvInductive == Spec => []RefInv
<1>1. Init => RefineInv
  <2> SUFFICES ASSUME Init PROVE RefineInv
    OBVIOUS
  <2>1. wbr = {} /\ count = 0
    BY DEF Init
  <2>2. InFlight = {}
    BY <2>1 DEF InFlight
  <2> QED BY <2>1, <2>2 DEF RefineInv, ReportsFit, KindsFit
<1>2. RobInv /\ ReplayInv /\ RefineInv /\ [Next]_vars => RefineInv'
  BY RefStep DEF RefInv
<1>3. RefInv <=> RobInv /\ ReplayInv /\ RefineInv
  BY DEF RefInv
<1> QED BY <1>1, <1>2, <1>3, ReplayInvInductive, PTL DEF Spec

-----------------------------------------------------------------------------
\* The queue, read from the head of the ring.
LEMMA QueueReads ==
  ASSUME count \in Nat
  PROVE /\ Len(Queue) = count
        /\ \A k \in 1..count :
              Reads(Queue[k], slot[At(head, k - 1)], wbr, At(head, k - 1))
<1>1. Len(Queue) = count
  BY DEF Queue
<1>2. ASSUME NEW k \in 1..count
      PROVE Reads(Queue[k], slot[At(head, k - 1)], wbr, At(head, k - 1))
  BY InsnReads DEF Queue
<1> QED BY <1>1, <1>2

\* The same after a step.
LEMMA QueueReadsNext ==
  ASSUME count' \in Nat
  PROVE /\ Len(Queue') = count'
        /\ \A k \in 1..count' :
              Reads(Queue'[k], slot'[At(head', k - 1)], wbr', At(head', k - 1))
<1>1. Len(Queue') = count'
  BY DEF Queue
<1>2. ASSUME NEW k \in 1..count'
      PROVE Reads(Queue'[k], slot'[At(head', k - 1)], wbr', At(head', k - 1))
  <2>1. Queue'[k] = Insn(At(head, k - 1))'
    BY DEF Queue
  <2>2. PICK i : i = At(head', k - 1)
    OBVIOUS
  <2>3. Insn(At(head, k - 1))' = Insn(i)'
    BY <2>2 DEF Insn, At, Reported
  <2>4. Reads(Insn(i)', slot'[i], wbr', i)
    BY InsnReads
  <2> QED BY <2>1, <2>2, <2>3, <2>4
<1> QED BY <1>1, <1>2

\* What may commit has reported everything, and what it reported is in its
\* entry: the bypass takes only plain results.
LEMMA CommittedReads ==
  ASSUME RefInv, NEW k \in 0..(count - 1), HeadReady(k), ~Replays(k)
  PROVE /\ Queue[k + 1].work = {} /\ Queue[k + 1].exc # "replay"
        /\ Queue[k + 1].exc = "trap" <=> Traps(k)
        /\ Queue[k + 1].misp <=> Mispredicts(k)
        /\ Queue[k + 1].kind = slot[At(head, k)].kind
<1> DEFINE i == At(head, k)
           e == slot[i]
           f == Queue[k + 1]
<1>1. /\ head \in Index /\ count \in 0..RobDepth /\ slot \in [Index -> Entry]
      /\ RobDepth \in Nat /\ count \in Nat /\ k \in 0..(RobDepth - 1)
      /\ ReportsInFlight /\ ReportsFit /\ KindsFit
  BY RobAssumption DEF RefInv, RobInv, TypeOK, ReplayInv, RefineInv
<1>2. i \in Index /\ i \in InFlight /\ e \in Entry
  BY <1>1, AgeAt DEF InFlight
<1>3. Reads(f, e, wbr, i)
  <2>1. k + 1 \in 1..count /\ (k + 1) - 1 = k
    BY <1>1
  <2>2. Reads(Queue[k + 1], slot[At(head, (k + 1) - 1)], wbr, At(head, (k + 1) - 1))
    BY <1>1, <2>1, QueueReads
  <2> QED BY <2>1, <2>2
<1>4. HeadReady(k) <=> e.ready \/ Bypass(k)
  BY DEF HeadReady
<1>5. Bypass(k) => /\ e.kind \in {"alu", "load"} /\ e.exc = "none"
                   /\ \E r \in wbr : r.idx = i /\ r.exc = "none"
  BY DEF Bypass
<1>6. /\ Replays(k) <=> e.exc = "replay"
      /\ Traps(k) <=> e.exc = "trap"
      /\ Mispredicts(k) <=> e.kind = "branch" /\ e.misp
  BY DEF Replays, Traps, Mispredicts
<1>7. ASSUME NEW r \in wbr, r.idx = i
      PROVE /\ r.part \in Parts(e.kind)
            /\ r.exc = "trap" => e.kind \in MayTrap
            /\ r.misp => e.kind = "branch"
            /\ e.ready /\ e.kind # "store" => e.exc = "replay"
            /\ \A x \in wbr : x.idx = i /\ x.part = r.part => x = r
  BY <1>1, <1>7 DEF ReportsInFlight, ReportsFit
<1>8. e.misp => e.kind = "branch"
  BY <1>1, <1>2 DEF KindsFit
<1> HIDE DEF i, e, f
<1>9. e.exc # "replay" /\ (e.ready \/ Bypass(k))
  BY <1>4, <1>6
<1>10. ~e.ready => /\ \E r \in wbr : r.idx = i /\ r.exc = "none" /\ r.part = "result"
                   /\ e.kind \in {"alu", "load"} /\ Parts(e.kind) = {"result"}
  <2>1. SUFFICES ASSUME ~e.ready
                 PROVE /\ \E r \in wbr : r.idx = i /\ r.exc = "none" /\ r.part = "result"
                       /\ e.kind \in {"alu", "load"} /\ Parts(e.kind) = {"result"}
    OBVIOUS
  <2>2. e.kind \in {"alu", "load"} /\ \E r \in wbr : r.idx = i /\ r.exc = "none"
    BY <1>5, <1>9, <2>1
  <2>3. Parts(e.kind) = {"result"}
    BY <2>2 DEF Parts
  <2> QED BY <1>7, <2>2, <2>3
<1>11. f.work = {}
  <2>1. ASSUME NEW p, p \in f.work PROVE FALSE
    <3>1. Owes(e, wbr, i, p)
      BY <1>3, <2>1 DEF Reads
    <3>2. ~e.ready /\ p \in Parts(e.kind) /\ ~\E r \in wbr : r.idx = i /\ r.part = p
      BY <3>1 DEF Owes
    <3> QED BY <1>10, <3>2
  <2> QED BY <2>1
<1>12. Trapped(wbr, i) => e.exc # "none"
  <2>1. SUFFICES ASSUME NEW r \in wbr, r.idx = i, r.exc = "trap", e.exc = "none" PROVE FALSE
    BY DEF Trapped
  <2>2. e.kind # "store" /\ r.part \in Parts(e.kind)
    BY <1>7, <2>1 DEF MayTrap
  <2>3. ~e.ready
    BY <1>7, <1>9, <2>1, <2>2
  <2> QED BY <1>7, <1>10, <2>1, <2>2, <2>3
<1>13. ~Mispredicted(wbr, i)
  <2>1. SUFFICES ASSUME NEW r \in wbr, r.idx = i, r.misp PROVE FALSE
    BY DEF Mispredicted
  <2>2. e.kind = "branch"
    BY <1>7, <2>1
  <2> QED BY <1>7, <1>9, <1>10, <2>1, <2>2
<1>14. f.exc = e.exc /\ f.misp = e.misp /\ f.kind = e.kind
  <2>1. f.misp = (e.misp \/ Mispredicted(wbr, i))
    BY <1>3 DEF Reads
  <2>2. e.misp \in BOOLEAN
    BY <1>2 DEF Entry
  <2>3. f.misp = e.misp
    BY <1>13, <2>1, <2>2
  <2>4. f.exc = e.exc /\ f.kind = e.kind
    BY <1>3, <1>12 DEF Reads
  <2> QED BY <2>3, <2>4
<1> QED BY <1>6, <1>8, <1>9, <1>11, <1>14 DEF i, e, f

\* What the scan lets go the queue lets go.
LEMMA CommitRetires ==
  ASSUME RefInv, NEW drained, NEW irq
  PROVE /\ CommitCount(drained, irq) \in Abs!RetireCounts
        /\ CommitCount(drained, irq) \in 0..PipeWidth
        /\ CommitCount(drained, irq) <= count
        /\ CommitCount(drained, irq) > 0 =>
              (Abs!Redirects(Queue[CommitCount(drained, irq)])
                 <=> Redirects(CommitCount(drained, irq) - 1))
<1> DEFINE c == CommitCount(drained, irq)
<1>1. /\ TypeOK /\ count \in Nat /\ PipeWidth \in Nat
  BY RobAssumption DEF RefInv, RobInv, TypeOK
<1>2. /\ c \in 0..PipeWidth /\ c <= count
      /\ \A j \in 0..(c - 1) :
            /\ ~Blocks(j, drained)
            /\ HeadReady(j) /\ HeadValid(j) /\ ~Replays(j)
            /\ j < c - 1 => ~Ends(j)
  BY <1>1, CommitStops
<1> HIDE DEF c
<1>3. ASSUME NEW j \in 0..(c - 1)
      PROVE /\ Abs!Retires(Queue[j + 1])
            /\ Abs!Redirects(Queue[j + 1]) <=> Redirects(j)
            /\ Abs!Alone(Queue[j + 1]) <=> Serializing(slot[At(head, j)].kind) /\ ~Traps(j)
  <2>1. j \in 0..(count - 1)
    BY <1>1, <1>2
  <2>2. /\ Queue[j + 1].work = {} /\ Queue[j + 1].exc # "replay"
        /\ Queue[j + 1].exc = "trap" <=> Traps(j)
        /\ Queue[j + 1].misp <=> Mispredicts(j)
        /\ Queue[j + 1].kind = slot[At(head, j)].kind
    BY <1>2, <2>1, CommittedReads
  <2> QED BY <2>2 DEF Abs!Retires, Abs!Redirects, Abs!Alone, Redirects, Serializing
<1>4. ASSUME NEW i \in 1..c
      PROVE /\ Abs!Retires(Queue[i])
            /\ i < c => ~Abs!Redirects(Queue[i])
            /\ c > 1 => ~Abs!Alone(Queue[i])
  <2> DEFINE j == i - 1
  <2>1. j \in 0..(c - 1) /\ j + 1 = i /\ (i < c <=> j < c - 1) /\ (c > 1 /\ ~(j > 0) => j < c - 1)
    BY <1>1, <1>2
  <2> HIDE DEF j
  <2>2. /\ Abs!Retires(Queue[i])
        /\ Abs!Redirects(Queue[i]) <=> Redirects(j)
        /\ Abs!Alone(Queue[i]) <=> Serializing(slot[At(head, j)].kind) /\ ~Traps(j)
    BY <1>3, <2>1
  <2>3. ASSUME i < c PROVE ~Abs!Redirects(Queue[i])
    <3>1. ~Ends(j)
      BY <1>2, <2>1, <2>3
    <3> QED BY <2>2, <3>1 DEF Ends, Redirects, Serializing
  <2>4. ASSUME c > 1 PROVE ~Abs!Alone(Queue[i])
    <3>1. CASE j > 0
      <4>1. ~Blocks(j, drained)
        BY <1>2, <2>1
      <4>2. ~(Serializing(slot[At(head, j)].kind) /\ ~Traps(j))
        BY <3>1, <4>1 DEF Blocks
      <4> QED BY <2>2, <4>2
    <3>2. CASE ~(j > 0)
      <4>1. ~Ends(j)
        BY <1>2, <2>1, <2>4, <3>2
      <4> QED BY <2>2, <4>1 DEF Ends
    <3> QED BY <3>1, <3>2
  <2> QED BY <2>2, <2>3, <2>4
<1>5. c \in Abs!RetireCounts
  <2>1. Len(Queue) = count
    BY <1>1, QueueReads
  <2> QED BY <1>2, <1>4, <2>1 DEF Abs!RetireCounts
<1>6. c > 0 => (Abs!Redirects(Queue[c]) <=> Redirects(c - 1))
  <2>1. SUFFICES ASSUME c > 0 PROVE Abs!Redirects(Queue[c]) <=> Redirects(c - 1)
    OBVIOUS
  <2>2. c - 1 \in 0..(c - 1) /\ (c - 1) + 1 = c
    BY <1>1, <1>2, <2>1
  <2>3. Abs!Redirects(Queue[(c - 1) + 1]) <=> Redirects(c - 1)
    BY <1>3, <2>2
  <2> QED BY <2>2, <2>3
<1> QED BY <1>2, <1>5, <1>6 DEF c

\* What stays makes progress.
LEMMA StayingProgresses ==
  ASSUME RefInv, RefInv', NEW c \in 0..RobDepth, NEW top \in Int, top < count,
         NEW faults \in Faults, wbr' \subseteq Possible,
         StayWritten(c, top, faults), NEW i \in Index, Stays(i, c, top),
         NEW f, NEW g, Reads(f, slot[i], wbr, i), Reads(g, slot'[i], wbr', i)
  PROVE Abs!Progresses(f, g)
<1> DEFINE e == slot[i]
           d == slot'[i]
           w == Written(i, e, faults)
<1>1. /\ i \in InFlight /\ i \in InFlight' /\ e \in Entry /\ d.kind = e.kind
      /\ SameButMisp(d, w)
      /\ d.misp => e.kind = "branch"
      /\ d.exc = "replay" => e.kind = "load"
  BY StayingFits
<1>2. WriteResult(w, i, e, faults)
  BY <1>1, WrittenFields
<1>3. Mispredicted(wbr, i) \/ e.misp => e.kind = "branch"
  BY <1>1 DEF RefInv, RefineInv, ReportsFit, KindsFit, Mispredicted
<1>4. Mispredicted(wbr', i) => d.kind = "branch"
  BY DEF RefInv, RefineInv, ReportsFit, Mispredicted
<1>5. Reads(f, e, wbr, i) /\ Reads(g, d, wbr', i)
  OBVIOUS
<1>10. ASSUME i \in faults
       PROVE /\ e.kind \in {"load", "store"} /\ w.ready
             /\ \E p : Owes(e, wbr, i, p)
  <2>1. e.kind \in {"load", "store"} /\ \E p : p \in Outstanding(i)
    BY <1>10 DEF Faults
  <2>2. PICK p : p \in Outstanding(i)
    BY <2>1
  <2>3. Owes(e, wbr, i, p)
    BY <1>1, <2>2, OutstandingUnready DEF RefInv, RobInv, ReplayInv, Owes
  <2> QED BY <1>2, <1>10, <2>1, <2>3 DEF WriteResult
<1>11. ASSUME Trapped(wbr', i)
       PROVE /\ e.kind \in MayTrap
             /\ \E p : Owes(e, wbr, i, p) /\ ~Owes(d, wbr', i, p)
  <2>1. PICK r \in wbr' : r.idx = i /\ r.exc = "trap"
    BY <1>11 DEF Trapped
  <2>2. r \in Possible
    BY <2>1
  <2>3. Owes(e, wbr, i, r.part)
    BY <1>1, <2>1, <2>2, PossibleUnready DEF RefInv, RobInv, ReplayInv, Owes
  <2>4. ~Owes(d, wbr', i, r.part)
    BY <2>1 DEF Owes
  <2> QED BY <2>1, <2>2, <2>3, <2>4 DEF Possible
<1>12. i \in viol \/ e.exc = "replay" => e.kind = "load"
  BY <1>1, InFlightIs DEF RefInv, RobInv, ReplayInv, RefineInv, ViolatesLoads, KindsFit,
                          RingConsistent, TypeOK
<1> HIDE DEF e, d, w
<1>6. g.work \subseteq f.work
  <2>1. ASSUME NEW p, p \in g.work PROVE Owes(e, wbr, i, p)
    <3>1. Owes(d, wbr', i, p)
      BY <1>5, <2>1 DEF Reads
    <3>2. ~w.ready /\ p \in Parts(e.kind) /\ ~(p = "addr" /\ w.addr) /\ ~(p = "data" /\ w.data)
      BY <1>1, <3>1 DEF Owes, SameButMisp
    <3>3. p \in {"result", "addr", "data"}
      BY <3>2 DEF Parts
    <3>4. ~Has(i, p) /\ ~e.ready /\ ~(p = "addr" /\ e.addr) /\ ~(p = "data" /\ e.data)
      BY <1>2, <3>2, <3>3 DEF WriteResult
    <3> QED BY <3>2, <3>4 DEF Owes, Has
  <2> QED BY <1>5, <2>1 DEF Reads
<1>7. f.exc # "none" => g.exc # "none"
  <2>1. f.exc # "none" => e.exc # "none" \/ HasTrap(i)
    BY <1>5 DEF Reads, Trapped, HasTrap
  <2>2. e.exc # "none" \/ HasTrap(i) => d.exc # "none"
    BY <1>1, <1>2 DEF WriteResult, SameButMisp
  <2>3. d.exc # "none" => g.exc # "none"
    BY <1>5 DEF Reads
  <2> QED BY <2>1, <2>2, <2>3
<1>8. f.kind = e.kind /\ g.kind = f.kind
  BY <1>1, <1>5 DEF Reads
<1>9. g.misp # f.misp => e.kind = "branch"
  <2>1. f.misp = (e.misp \/ Mispredicted(wbr, i)) /\ g.misp = (d.misp \/ Mispredicted(wbr', i))
    BY <1>5 DEF Reads
  <2> QED BY <1>1, <1>3, <1>4, <2>1
<1>13. ASSUME g.exc # f.exc, e.kind # "load"
       PROVE /\ e.kind \in {"alu", "csr", "store"} /\ g.exc = "trap" /\ g.work # f.work
  <2>1. /\ e.exc \in {"none", "trap"} /\ i \notin viol
        /\ d.exc = IF HasTrap(i) \/ i \in faults THEN "trap" ELSE e.exc
    <3>1. e.exc \in {"none", "trap"} /\ i \notin viol
      BY <1>1, <1>12, <1>13 DEF Entry
    <3> QED BY <1>1, <1>2, <3>1 DEF WriteResult, SameButMisp
  <2>2. /\ f.exc = IF e.exc = "none" /\ HasTrap(i) THEN "trap" ELSE e.exc
        /\ g.exc = IF d.exc = "none" /\ Trapped(wbr', i) THEN "trap" ELSE d.exc
    BY <1>5 DEF Reads, Trapped, HasTrap
  <2>3. g.exc = "trap" /\ (i \in faults \/ Trapped(wbr', i))
    BY <1>13, <2>1, <2>2
  <2>4. CASE i \in faults
    <3>1. PICK p : Owes(e, wbr, i, p)
      BY <1>10, <2>4
    <3>2. p \in f.work
      BY <1>5, <3>1 DEF Reads
    <3>3. p \notin g.work
      BY <1>1, <1>5, <1>10, <2>4 DEF Reads, Owes, SameButMisp
    <3> QED BY <1>10, <1>13, <2>3, <2>4, <3>2, <3>3
  <2>5. CASE Trapped(wbr', i)
    <3>1. PICK p : Owes(e, wbr, i, p) /\ ~Owes(d, wbr', i, p)
      BY <1>11, <2>5
    <3>2. p \in f.work /\ p \notin g.work
      BY <1>5, <3>1 DEF Reads
    <3> QED BY <1>11, <1>13, <2>3, <2>5, <3>2 DEF MayTrap
  <2> QED BY <2>3, <2>4, <2>5
<1> QED BY <1>1, <1>6, <1>7, <1>8, <1>9, <1>13 DEF Abs!Progresses, e

\* Moving on by c and then by k is moving on by their sum.
LEMMA AtAt ==
  ASSUME NEW h \in Index, NEW c \in 0..RobDepth, NEW k \in 0..RobDepth,
         c + k \in 0..(RobDepth - 1)
  PROVE At(At(h, c), k) = At(h, c + k)
<1>1. RobDepth \in Nat /\ h \in 0..(RobDepth - 1)
  BY RobAssumption DEF Index
<1>2. /\ At(h, c) \in Index
      /\ At(h, c) = IF h + c < RobDepth THEN h + c ELSE h + c - RobDepth
  BY AtIs
<1> DEFINE g == At(h, c)
<1>3. g \in Index
  BY <1>2
<1> HIDE DEF g
<1>4. At(g, k) = IF g + k < RobDepth THEN g + k ELSE g + k - RobDepth
  BY <1>3, AtIs
<1>5. At(h, c + k) = IF h + (c + k) < RobDepth THEN h + (c + k) ELSE h + (c + k) - RobDepth
  BY <1>1, AtIs
<1> QED BY <1>1, <1>2, <1>4, <1>5 DEF g

\* When nothing flushes, the last that commits does not redirect.
LEMMA NoFlushRetires ==
  ASSUME RefInv, NEW drained, ~CommitFlush(drained, FALSE)
  PROVE LET c == CommitCount(drained, FALSE)
        IN  /\ c \in Abs!RetireCounts
            /\ c > 0 => ~Abs!Redirects(Queue[c])
<1> DEFINE c == CommitCount(drained, FALSE)
           n == ScanCount(drained)
<1>1. c = n
  <2>1. ~TakesInterrupt(n, drained, FALSE)
    BY Zenon DEF TakesInterrupt
  <2> QED BY <2>1, Zenon DEF CommitCount
<1>2. n > 0 => ~Redirects(n - 1)
  BY Zenon DEF CommitFlush
<1>3. /\ c \in Abs!RetireCounts
      /\ c > 0 => (Abs!Redirects(Queue[c]) <=> Redirects(c - 1))
  BY CommitRetires, Zenon
<1> HIDE DEF c, n
<1>4. c > 0 => ~Redirects(c - 1)
  BY <1>1, <1>2
<1>5. c \in Abs!RetireCounts /\ (c > 0 => ~Abs!Redirects(Queue[c]))
  BY <1>3, <1>4
<1> QED BY <1>5, Zenon DEF c

\* A step in which the oldest c leave, those up to distance top stay and the
\* others are new is a step of the queue.
LEMMA StepAdvances ==
  ASSUME RefInv, RefInv', NEW c \in 0..PipeWidth, c <= count,
         c \in Abs!RetireCounts, c > 0 => ~Abs!Redirects(Queue[c]),
         NEW top \in Int, top < count, c <= top + 1,
         NEW faults \in Faults, wbr' \subseteq Possible,
         StayWritten(c, top, faults), head' = At(head, c), retired' = c,
         top + 1 - c <= count',
         \A p \in (top + 2 - c)..count' : Abs!Fresh(Queue'[p])
  PROVE Abs!Advance(c, top + 1)
<1>1. /\ head \in Index /\ count \in 0..RobDepth /\ count' \in 0..RobDepth
      /\ RobDepth \in Nat /\ PipeWidth \in Nat /\ PipeWidth < RobDepth
      /\ count \in Nat /\ count' \in Nat
  BY RobAssumption DEF RefInv, RobInv, TypeOK
<1>4. /\ Len(Queue) = count /\ Len(Queue') = count'
      /\ \A k \in 1..count :
            Reads(Queue[k], slot[At(head, k - 1)], wbr, At(head, k - 1))
      /\ \A k \in 1..count' :
            Reads(Queue'[k], slot'[At(head', k - 1)], wbr', At(head', k - 1))
  BY <1>1, QueueReads, QueueReadsNext
<1>5. c \in 0..RobDepth /\ c \in Int /\ c <= count
  BY <1>1
<1>6. ASSUME NEW p \in 1..(top + 1 - c) PROVE Abs!Progresses(Queue[c + p], Queue'[p])
  <2> DEFINE k == c + p - 1
             i == At(head, k)
  <2>1. /\ k \in 0..(RobDepth - 1) /\ k <= top /\ c <= k /\ p \in 1..count'
        /\ c + p \in 1..count /\ (c + p) - 1 = k /\ p - 1 \in 0..RobDepth
        /\ c + (p - 1) = k
    BY <1>1, <1>5
  <2> HIDE DEF k
  <2>2. i \in Index /\ Age(i) = k
    BY <1>1, <2>1, AgeAt
  <2>3. At(head', p - 1) = i
    BY <1>1, <1>5, <2>1, AtAt
  <2>4. Reads(Queue[c + p], slot[i], wbr, i)
    <3>1. Reads(Queue[c + p], slot[At(head, (c + p) - 1)], wbr, At(head, (c + p) - 1))
      BY <1>4, <2>1
    <3> QED BY <2>1, <3>1
  <2>5. Reads(Queue'[p], slot'[i], wbr', i)
    <3>1. Reads(Queue'[p], slot'[At(head', p - 1)], wbr', At(head', p - 1))
      BY <1>4, <2>1
    <3> QED BY <2>3, <3>1
  <2> HIDE DEF i
  <2>6. Stays(i, c, top)
    BY <2>1, <2>2 DEF Stays
  <2> QED BY <1>5, <2>2, <2>4, <2>5, <2>6, StayingProgresses
<1>7. /\ top + 1 \in c..count /\ (top + 1) - c = top + 1 - c
      /\ (top + 1) - c + 1 = top + 2 - c
      /\ count' >= (top + 1) - c /\ count' <= RobDepth
  BY <1>1, <1>5
<1> QED BY <1>4, <1>6, <1>7 DEF Abs!Advance

(***************************************************************************)
(* The three kinds of steps.                                               *)
(***************************************************************************)
\* An entry allocated in the cycle is a fresh instruction of the queue.
LEMMA FreshReads ==
  ASSUME RefInv, NEW i \in Index, i \notin InFlight, ~refill, NEW k \in Kinds,
         NEW faults \in Faults, slot'[i] = Written(i, Fresh(k), faults),
         \A r \in wbr' : r.idx # i,
         NEW g, Reads(g, slot'[i], wbr', i)
  PROVE Abs!Fresh(g)
<1> DEFINE d == slot'[i]
<1>1. /\ d.kind = k /\ d.exc = IF k = "bad" THEN "trap" ELSE "none"
      /\ d.ready <=> k \in {"zero", "bad"}
      /\ ~d.misp /\ ~d.addr /\ ~d.data
  BY FreshUnwritten
<1>2. Reads(g, d, wbr', i)
  OBVIOUS
<1> HIDE DEF d
<1>3. g.kind = k /\ g.exc = IF k = "bad" THEN "trap" ELSE "none"
  BY <1>1, <1>2 DEF Reads, Trapped
<1>4. ~g.misp
  BY <1>1, <1>2 DEF Reads, Mispredicted
<1>5. g.work = IF k \in {"zero", "bad"} THEN {} ELSE Parts(k)
  <2>1. \A p : p \in g.work <=> Owes(d, wbr', i, p)
    BY <1>2 DEF Reads
  <2>2. CASE k \in {"zero", "bad"}
    BY <1>1, <2>1, <2>2 DEF Owes
  <2>3. CASE k \notin {"zero", "bad"}
    <3>1. \A p : p \in g.work <=> p \in Parts(k)
      BY <1>1, <2>1, <2>3 DEF Owes
    <3>2. g.work \subseteq Parts(k)
      BY <1>1, <1>2 DEF Reads
    <3> QED BY <2>3, <3>1, <3>2
  <2> QED BY <2>2, <2>3
<1>6. Abs!Work(k) = IF k \in {"zero", "bad"} THEN {} ELSE Parts(k)
  BY DEF Abs!Work, Abs!Parts, Parts
<1> QED BY <1>3, <1>4, <1>5, <1>6 DEF Abs!Fresh

\* An ordinary cycle is a step of the queue.
LEMMA CycleIsStep ==
  ASSUME RefInv, RefInv', NEW drained, NEW new \in Allocations,
         NEW R \in Reports, NEW faults \in Faults, NEW V \in SUBSET Contradicted(R),
         Cycle(new, R, V, faults, drained)
  PROVE Abs!Step
<1> DEFINE n == Cardinality(DOMAIN new)
           c == CommitCount(drained, FALSE)
           top == count - 1
<1>1. /\ RobInv /\ RobInv' /\ RobDepth \in Nat /\ PipeWidth \in Nat /\ PipeWidth < RobDepth
      /\ head \in Index /\ count \in 0..RobDepth
      /\ head' \in Index /\ count' \in 0..RobDepth /\ count \in Nat /\ count' \in Nat
  BY RobAssumption DEF RefInv, RobInv, TypeOK
<1>2. /\ wbr' = R /\ head' = At(head, c) /\ count' = count + n - c /\ retired' = c
  BY DEF Cycle
<1>3. /\ c \in 0..PipeWidth /\ c <= count
      /\ n \in 0..PipeWidth /\ n <= RobDepth - count /\ (refill => n = 0)
      /\ StayWritten(c, top, faults)
      /\ \A i \in Index :
            c <= Age(i) /\ count <= Age(i) /\ Age(i) < count + n
                => \E k \in Kinds : slot'[i] = Written(i, Fresh(k), faults)
  BY <1>1, CycleStays
<1>4. /\ c \in Abs!RetireCounts
      /\ c > 0 => ~Abs!Redirects(Queue[c])
  <2>1. ~CommitFlush(drained, FALSE)
    BY Zenon DEF Cycle
  <2> QED BY <2>1, NoFlushRetires, Zenon
<1> HIDE DEF n, c
<1>5. /\ c \in 0..RobDepth /\ c \in Int /\ top \in Int /\ top < count /\ c <= top + 1
      /\ top + 1 - c <= count' /\ top + 1 = count
  BY <1>1, <1>2, <1>3
<1>6. ASSUME NEW p \in (top + 2 - c)..count' PROVE Abs!Fresh(Queue'[p])
  <2> DEFINE k == c + p - 1
             i == At(head, k)
  <2>1. /\ k \in 0..(RobDepth - 1) /\ c <= k /\ count <= k /\ k < count + n
        /\ p \in 1..count' /\ p - 1 \in 0..RobDepth /\ c + (p - 1) = k /\ n # 0
    BY <1>1, <1>2, <1>3, <1>5
  <2> HIDE DEF k
  <2>2. i \in Index /\ Age(i) = k
    BY <1>1, <2>1, AgeAt
  <2>3. At(head', p - 1) = i
    BY <1>1, <1>2, <1>5, <2>1, AtAt
  <2>4. Reads(Queue'[p], slot'[i], wbr', i)
    <3>1. Reads(Queue'[p], slot'[At(head', p - 1)], wbr', At(head', p - 1))
      BY <1>1, <2>1, QueueReadsNext
    <3> QED BY <2>3, <3>1
  <2> HIDE DEF i
  <2>5. i \notin InFlight
    <3>1. ~(k < count)
      BY <1>1, <2>1
    <3> QED BY <1>1, <2>2, <3>1, InFlightIs
  <2>6. \A r \in wbr' : r.idx # i
    BY <1>2, <2>5, ReportsShape DEF Possible
  <2>7. PICK j \in Kinds : slot'[i] = Written(i, Fresh(j), faults)
    BY <1>3, <2>1, <2>2
  <2>8. ~refill
    BY <1>3, <2>1
  <2> QED BY <2>2, <2>4, <2>5, <2>6, <2>7, <2>8, FreshReads
<1> HIDE DEF top
<1>7. Abs!Advance(c, top + 1)
  <2>1. wbr' \subseteq Possible
    BY <1>2, ReportsShape
  <2> QED BY <2>1, <1>2, <1>3, <1>4, <1>5, <1>6, StepAdvances
<1>8. Len(Queue) = count
  BY <1>1, QueueReads
<1> QED BY <1>3, <1>5, <1>7, <1>8 DEF Abs!Step

\* A full flush is a flush of the queue.
LEMMA FullFlushIsFlush ==
  ASSUME RefInv, RefInv', NEW drained, NEW irq, FullFlush(drained, irq)
  PROVE Abs!Flush
<1> DEFINE c == CommitCount(drained, irq)
           n == ScanCount(drained)
<1>1. /\ TypeOK /\ count \in Nat /\ head \in Index
  BY RobAssumption DEF RefInv, RobInv, TypeOK
<1>2. /\ count' = 0 /\ retired' = c /\ CommitFlush(drained, irq)
  BY DEF FullFlush
<1>3. /\ c \in Abs!RetireCounts /\ c \in 0..PipeWidth /\ c <= count
      /\ c > 0 => (Abs!Redirects(Queue[c]) <=> Redirects(c - 1))
  BY CommitRetires
<1>4. c = IF TakesInterrupt(n, drained, irq) THEN 0 ELSE n
  BY DEF CommitCount
<1>5. n \in 0..PipeWidth /\ n <= count
  BY <1>1, ScanStops
<1>6. \/ FoundReplay(n, drained)
      \/ n > 0 /\ Redirects(n - 1)
      \/ TakesInterrupt(n, drained, irq)
  BY <1>2 DEF CommitFlush
<1> HIDE DEF c, n
<1>7. Len(Queue) = count /\ PipeWidth \in Nat
  BY <1>1, QueueReads, RobAssumption
<1>8. Queue' = <<>>
  <2>1. Queue' = [k \in 1..0 |-> Insn(At(head, k - 1))']
    BY <1>2 DEF Queue
  <2> QED BY <2>1
<1>9. Queue # <<>>
  <2>1. count > 0
    <3>1. CASE FoundReplay(n, drained)
      BY <1>1, <1>5, <1>7, <3>1 DEF FoundReplay, HeadValid
    <3>2. CASE n > 0
      BY <1>1, <1>5, <1>7, <3>2
    <3>3. CASE TakesInterrupt(n, drained, irq)
      BY <3>3 DEF TakesInterrupt, HeadValid
    <3> QED BY <1>6, <3>1, <3>2, <3>3
  <2>2. Len(Queue) # 0
    BY <1>1, <1>7, <2>1
  <2>3. Len(<<>>) = 0
    OBVIOUS
  <2> QED BY <2>2, <2>3
<1>10. \/ c > 0 /\ Abs!Redirects(Queue[c])
       \/ /\ c < Len(Queue) /\ Queue[c + 1].exc = "replay"
          /\ c > 0 => ~Abs!Redirects(Queue[c])
       \/ c = 0
  <2>1. CASE TakesInterrupt(n, drained, irq)
    BY <1>4, <2>1
  <2>2. CASE ~TakesInterrupt(n, drained, irq)
    <3>1. c = n
      BY <1>4, <2>2
    <3>2. CASE n > 0 /\ Redirects(n - 1)
      BY <1>3, <3>1, <3>2
    <3>3. CASE FoundReplay(n, drained)
      <4>1. /\ n > 0 => ~Ends(n - 1)
            /\ count > n /\ slot[At(head, n)].exc = "replay"
        BY <3>3 DEF FoundReplay, HeadValid, Replays
      <4> DEFINE i == At(head, n)
      <4>2. n + 1 \in 1..count /\ (n + 1) - 1 = n
        BY <1>1, <1>5, <1>7, <4>1
      <4>3. Reads(Queue[n + 1], slot[At(head, (n + 1) - 1)], wbr, At(head, (n + 1) - 1))
        BY <1>1, <4>2, QueueReads
      <4>4. Reads(Queue[n + 1], slot[i], wbr, i)
        BY <4>2, <4>3
      <4>5. slot[i].exc = "replay"
        BY <4>1
      <4> HIDE DEF i
      <4>6. Queue[n + 1].exc = "replay"
        BY <4>4, <4>5 DEF Reads
      <4>7. n > 0 => ~Redirects(n - 1)
        BY <4>1 DEF Ends, Redirects, Serializing
      <4> QED BY <1>3, <1>7, <3>1, <4>1, <4>6, <4>7
    <3> QED BY <1>6, <2>2, <3>2, <3>3
  <2> QED BY <2>1, <2>2
<1> QED BY <1>2, <1>3, <1>8, <1>9, <1>10 DEF Abs!Flush

\* A partial flush is a recovery of the queue: the branch is still in
\* flight, since its misprediction has not reached its entry.
LEMMA PartialFlushIsRecover ==
  ASSUME RefInv, RefInv', NEW drained, NEW b \in InFlight,
         NEW R \in Reports, NEW faults \in Faults, NEW V \in SUBSET Contradicted(R),
         PartialFlush(b, R, V, faults, drained)
  PROVE Abs!Recover
<1> DEFINE c == CommitCount(drained, FALSE)
           gone == Cleared(At(b, 1))
           top == Age(b)
<1>1. /\ RobInv /\ RobInv' /\ RobDepth \in Nat /\ PipeWidth \in Nat /\ PipeWidth < RobDepth
      /\ head \in Index /\ count \in 0..RobDepth /\ TypeOK
      /\ head' \in Index /\ count' \in 0..RobDepth /\ count \in Nat /\ count' \in Nat
      /\ ReportsInFlight /\ StoresReadyWhole /\ ReportsFit /\ KindsFit
  BY RobAssumption DEF RefInv, RobInv, TypeOK, ReplayInv, RefineInv
<1>2. /\ wbr' = {r \in R : r.idx \notin gone} /\ retired' = c
      /\ \E r \in wbr : r.idx = b /\ r.misp
  BY DEF PartialFlush, CanRecover
<1>3. /\ c \in 0..PipeWidth /\ c <= count /\ CommitsReady(c)
      /\ b \in Index /\ top < count
      /\ StayWritten(c, top, faults)
      /\ c <= top => /\ head' = At(head, c) /\ count' = top + 1 - c
                     /\ ~slot'[b].misp
  BY <1>1, PartialFlushStays
<1>4. /\ c \in Abs!RetireCounts
      /\ c > 0 => ~Abs!Redirects(Queue[c])
  <2>1. ~CommitFlush(drained, FALSE)
    BY Zenon DEF PartialFlush
  <2> QED BY <2>1, NoFlushRetires, Zenon
<1> HIDE DEF c, gone
<1>5. /\ c \in 0..RobDepth /\ c \in Int /\ top \in 0..(RobDepth - 1)
  BY <1>1, <1>3, AgeIs
<1>6. PICK r \in wbr : r.idx = b /\ r.misp
  BY <1>2
<1>7. /\ slot[b].kind = "branch" /\ ~slot[b].ready
      /\ r.part = "result"
  <2>1. slot[b].kind = "branch" /\ r.part \in Parts(slot[b].kind)
    BY <1>1, <1>6 DEF ReportsFit, ReportsInFlight
  <2>2. slot[b].exc # "replay"
    BY <1>1, <2>1 DEF KindsFit
  <2>3. ~slot[b].ready
    BY <1>1, <1>6, <2>1, <2>2 DEF ReportsFit
  <2> QED BY <2>1, <2>3 DEF Parts
<1>8. c <= top
  <2>1. SUFFICES ASSUME top < c PROVE FALSE
    BY <1>5
  <2>2. top \in 0..(c - 1)
    BY <1>5, <2>1
  <2>3. HeadReady(Age(b)) /\ At(head, Age(b)) = b
    BY <1>1, <1>3, <2>2, AtAge DEF CommitsReady
  <2> QED BY <1>7, <2>3 DEF HeadReady, Bypass
<1>9. \A x \in wbr' : x.idx # b
  <2>1. SUFFICES ASSUME NEW x \in R, x.idx = b PROVE FALSE
    BY <1>2
  <2>2. x \in Possible
    BY ReportsShape
  <2>3. x.part \in Parts(slot[b].kind) /\ ~(r.idx = x.idx /\ r.part = x.part)
    BY <1>1, <2>1, <2>2, PossibleUnready
  <2> QED BY <1>6, <1>7, <2>1, <2>3 DEF Parts
<1> DEFINE q == top + 1
<1>10. /\ top \in Int /\ top < count /\ c <= top + 1 /\ top + 1 - c <= count'
       /\ head' = At(head, c) /\ ~slot'[b].misp /\ count' = q - c
       /\ q \in (c + 1)..count /\ q - 1 = top /\ q - c \in 1..count'
       /\ (q - c) - 1 \in 0..RobDepth /\ c + ((q - c) - 1) = top
  BY <1>1, <1>3, <1>5, <1>8
<1>11. \A p \in (top + 2 - c)..count' : Abs!Fresh(Queue'[p])
  BY <1>5, <1>10
<1>12. Abs!Advance(c, q)
  <2> HIDE DEF top
  <2>1. wbr' \subseteq Possible
    BY <1>2, ReportsShape
  <2> QED BY <2>1, <1>2, <1>3, <1>4, <1>10, <1>11, StepAdvances
<1>13. At(head, top) = b
  BY <1>1, <1>3, AtAge
<1> HIDE DEF top, q
<1>14. Queue[q].kind = "branch" /\ Queue[q].misp
  <2>1. Reads(Queue[q], slot[At(head, q - 1)], wbr, At(head, q - 1))
    <3>1. q \in 1..count
      BY <1>5, <1>10
    <3> QED BY <1>1, <3>1, QueueReads
  <2>2. Reads(Queue[q], slot[b], wbr, b)
    BY <1>10, <1>13, <2>1
  <2>3. Mispredicted(wbr, b)
    BY <1>6 DEF Mispredicted
  <2> QED BY <1>7, <2>2, <2>3 DEF Reads
<1>15. ~Queue'[q - c].misp
  <2>1. At(head', (q - c) - 1) = b
    <3>1. At(At(head, c), (q - c) - 1) = At(head, c + ((q - c) - 1))
      BY <1>1, <1>5, <1>10, AtAt
    <3> QED BY <1>10, <1>13, <3>1
  <2>2. Reads(Queue'[q - c], slot'[At(head', (q - c) - 1)], wbr', At(head', (q - c) - 1))
    BY <1>1, <1>10, QueueReadsNext
  <2>3. Reads(Queue'[q - c], slot'[b], wbr', b)
    BY <2>1, <2>2
  <2>4. ~Mispredicted(wbr', b)
    BY <1>9 DEF Mispredicted
  <2> QED BY <1>10, <2>3, <2>4 DEF Reads
<1>16. Len(Queue) = count /\ Len(Queue') = count'
  BY <1>1, QueueReads, QueueReadsNext
<1>17. /\ c \in 0..PipeWidth /\ q \in (c + 1)..Len(Queue)
       /\ Len(Queue') = q - c
  BY <1>3, <1>10, <1>16
<1> QED BY <1>12, <1>14, <1>15, <1>17 DEF Abs!Recover

-----------------------------------------------------------------------------
\* The reorder buffer is a queue in program order, whatever its depth and
\* width and wherever its head is (rob.sv, commit.sv): what retires had all
\* its results, in order and once; a flush takes everything for a reason; a
\* partial flush takes what is younger than the branch and nothing else.
THEOREM ImplementsQueue == Spec => IsQueue
<1>1. Init => Abs!Init
  <2> SUFFICES ASSUME Init PROVE Abs!Init
    OBVIOUS
  <2>1. count = 0 /\ retired = 0
    BY DEF Init
  <2>2. Queue = [k \in 1..0 |-> Insn(At(head, k - 1))]
    BY <2>1 DEF Queue
  <2>3. Queue = <<>>
    BY <2>2
  <2> QED BY <2>1, <2>3 DEF Abs!Init
<1>2. RefInv /\ RefInv' /\ [Next]_vars => [Abs!Next]_<<Queue, retired>>
  <2> SUFFICES ASSUME RefInv, RefInv', [Next]_vars
               PROVE [Abs!Next]_<<Queue, retired>>
    OBVIOUS
  <2>1. ASSUME NEW drained \in Drains, NEW new \in Allocations, NEW R \in Reports,
               NEW faults \in Faults, NEW V \in SUBSET Contradicted(R),
               Cycle(new, R, V, faults, drained)
        PROVE Abs!Next
    BY <2>1, CycleIsStep DEF Abs!Next
  <2>2. ASSUME NEW drained \in Drains, NEW irq \in BOOLEAN, FullFlush(drained, irq)
        PROVE Abs!Next
    BY <2>2, FullFlushIsFlush DEF Abs!Next
  <2>3. ASSUME NEW drained \in Drains, NEW b \in InFlight, NEW R \in Reports,
               NEW faults \in Faults, NEW V \in SUBSET Contradicted(R),
               PartialFlush(b, R, V, faults, drained)
        PROVE Abs!Next
    BY <2>3, PartialFlushIsRecover DEF Abs!Next
  <2>4. CASE UNCHANGED vars
    BY <2>4 DEF vars, Queue, Insn, Reported, At
  <2> QED BY <2>1, <2>2, <2>3, <2>4 DEF Next
<1>3. RefInv /\ [Next]_vars => RefInv'
  BY RefStep
<1> QED BY <1>1, <1>2, <1>3, RefInvInductive, PTL DEF Spec, IsQueue, Abs!Spec
=============================================================================
