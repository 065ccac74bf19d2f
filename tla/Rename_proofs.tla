--------------------------- MODULE Rename_proofs ----------------------------
(***************************************************************************)
(* Theorems about the renaming loop.                                       *)
(***************************************************************************)
EXTENDS Rename, RegMap_proofs

\* Sets of register and slot numbers are finite.
LEMMA PregsFinite ==
  /\ IsFiniteSet(Pregs)
  /\ \A S \in SUBSET Pregs : IsFiniteSet(S) /\ Cardinality(S) \in Nat
<1>1. IsFiniteSet(Pregs)
  BY RegMapAssumption, FS_Interval DEF Pregs
<1>2. ASSUME NEW S \in SUBSET Pregs
      PROVE IsFiniteSet(S) /\ Cardinality(S) \in Nat
  BY <1>1, FS_Subset, FS_CardinalityType
<1> QED BY <1>1, <1>2

\* Cutting the reorder buffer after its c oldest entries.
LEMMA SplitAt ==
  ASSUME NEW s \in Seq(Entry), NEW c \in 0..Len(s)
  PROVE /\ Prefix(s, c) \in Seq(Entry) /\ Len(Prefix(s, c)) = c
        /\ \A i \in 1..c : Prefix(s, c)[i] = s[i]
        /\ SubSeq(s, c + 1, Len(s)) \in Seq(Entry)
        /\ Len(SubSeq(s, c + 1, Len(s))) = Len(s) - c
        /\ \A i \in 1..(Len(s) - c) : SubSeq(s, c + 1, Len(s))[i] = s[c + i]
        /\ s = Prefix(s, c) \o SubSeq(s, c + 1, Len(s))
<1>1. Len(s) \in Nat /\ \A i \in 1..Len(s) : s[i] \in Entry
  BY ElementOfSeq, LenProperties
<1>2. /\ Prefix(s, c) \in Seq(Entry) /\ Len(Prefix(s, c)) = c
      /\ \A i \in 1..c : Prefix(s, c)[i] = s[i]
  <2>1. \A i \in 1..c : s[i] \in Entry
    BY <1>1
  <2> QED BY <1>1, <2>1, SubSeqProperties DEF Prefix
<1>3. /\ SubSeq(s, c + 1, Len(s)) \in Seq(Entry)
      /\ Len(SubSeq(s, c + 1, Len(s))) = Len(s) - c
      /\ \A i \in 1..(Len(s) - c) : SubSeq(s, c + 1, Len(s))[i] = s[c + i]
  <2>1. \A i \in (c + 1)..Len(s) : s[i] \in Entry
    BY <1>1
  <2> DEFINE r == SubSeq(s, c + 1, Len(s))
  <2>2. /\ r \in Seq(Entry)
        /\ Len(r) = IF c + 1 <= Len(s) THEN Len(s) - (c + 1) + 1 ELSE 0
        /\ \A i \in 1..(Len(s) - (c + 1) + 1) : r[i] = s[(c + 1) + i - 1]
    BY <1>1, <2>1, SubSeqProperties
  <2> HIDE DEF r
  <2>3. /\ r \in Seq(Entry) /\ Len(r) = Len(s) - c
        /\ \A i \in 1..(Len(s) - c) : r[i] = s[c + i]
    BY <1>1, <2>2
  <2> QED BY <2>3 DEF r
<1>4. s = Prefix(s, c) \o SubSeq(s, c + 1, Len(s))
  <2> DEFINE p == Prefix(s, c)
             r == SubSeq(s, c + 1, Len(s))
  <2>1. p \in Seq(Entry) /\ r \in Seq(Entry)
    BY <1>2, <1>3
  <2>2. /\ Len(p) = c /\ Len(r) = Len(s) - c
        /\ \A i \in 1..c : p[i] = s[i]
        /\ \A i \in 1..(Len(s) - c) : r[i] = s[c + i]
    BY <1>2, <1>3
  <2> HIDE DEF p, r
  <2>3. /\ p \o r \in Seq(Entry) /\ Len(p \o r) = Len(s)
        /\ \A i \in 1..Len(s) :
              (p \o r)[i] = IF i <= c THEN p[i] ELSE r[i - c]
    BY <1>1, <2>1, <2>2, ConcatProperties
  <2>4. \A i \in 1..Len(s) : (p \o r)[i] = s[i]
    BY <1>1, <2>2, <2>3
  <2> QED BY <2>3, <2>4, SeqEqual DEF p, r
<1> QED BY <1>2, <1>3, <1>4

\* The number of instructions a cycle commits is a natural number that neither
\* the pipeline width nor the occupancy of the reorder buffer is below.
LEMMA CommitCountsBound ==
  ASSUME NEW c \in CommitCounts, rob \in Seq(Entry)
  PROVE c \in 0..Len(rob) /\ c <= PipeWidth
BY LenProperties, RegMapAssumption DEF CommitCounts

\* The registers a group needs are counted slot by slot.
LEMMA NeedCountSteps ==
  ASSUME NEW g
  PROVE /\ \A n \in Nat : NeedCount(g, n) \in Nat
        /\ \A m, n \in Nat : m <= n => NeedCount(g, m) <= NeedCount(g, n)
        /\ \A m, n \in Nat : m < n /\ NeedsPreg(g[n])
                                => NeedCount(g, m) < NeedCount(g, n)
<1> DEFINE N(n) == {j \in 1..n : NeedsPreg(g[j])}
<1>1. ASSUME NEW n \in Nat
      PROVE IsFiniteSet(N(n)) /\ Cardinality(N(n)) \in Nat
  <2>1. IsFiniteSet(1..n) /\ N(n) \in SUBSET (1..n)
    BY FS_Interval
  <2> QED BY <2>1, FS_Subset, FS_CardinalityType
<1>2. ASSUME NEW m \in Nat, NEW n \in Nat, m <= n
      PROVE /\ Cardinality(N(m)) <= Cardinality(N(n))
            /\ m < n /\ NeedsPreg(g[n]) => Cardinality(N(m)) < Cardinality(N(n))
  <2>1. N(m) \in SUBSET N(n)
    BY <1>2
  <2>2. Cardinality(N(m)) <= Cardinality(N(n))
        /\ (Cardinality(N(n)) = Cardinality(N(m)) => N(n) = N(m))
    <3> HIDE DEF N
    <3> QED BY <1>1, <2>1, FS_Subset
  <2>3. ASSUME m < n, NeedsPreg(g[n]) PROVE N(n) # N(m)
    <3>1. n \in N(n) /\ n \notin N(m)
      BY <2>3
    <3> QED BY <3>1, Zenon
  <2> HIDE DEF N
  <2> QED BY <1>1, <2>2, <2>3
<1>3. \A n : NeedCount(g, n) = Cardinality(N(n))
  BY DEF NeedCount
<1> HIDE DEF N
<1> QED BY <1>1, <1>2, <1>3

\* The slot a save takes is a free one (checkpoint.sv: save_id).
LEMMA SaveIdIsFree ==
  ASSUME NEW released, SaveAvail(released)
  PROVE SaveId(released) \in Slots /\ SaveId(released) \in FreeSlots(released)
<1> DEFINE F == FreeSlots(released)
           S == {k \in 1..NumCheckpoints : k - 1 \in F}
<1>1. F # {} /\ F \subseteq 0..(NumCheckpoints - 1) /\ NumCheckpoints \in Nat
  BY RegMapAssumption DEF SaveAvail, FreeSlots, Slots
<1>2. \A s \in F : s \in Int /\ s + 1 \in S
  BY <1>1
<1>3. S \in SUBSET (1..NumCheckpoints) /\ S # {}
  BY <1>1, <1>2
<1>4. PICK k \in S : \A j \in S : k <= j
  <2> HIDE DEF S
  <2> QED BY <1>1, <1>3, MinExists
<1>5. k - 1 \in F /\ k \in Int
  BY <1>4
<1>6. ASSUME NEW t \in F PROVE k - 1 <= t
  <2>1. t \in Int /\ k <= t + 1
    BY <1>2, <1>4
  <2> QED BY <1>5, <2>1
<1>7. SaveId(released) \in F
  <2>1. \E s \in F : \A t \in F : s <= t
    BY <1>5, <1>6
  <2> QED BY <2>1 DEF SaveId
<1> QED BY <1>1, <1>7 DEF Slots

\* A decode group is a sequence of at most PipeWidth instructions.
LEMMA GroupShape ==
  ASSUME NEW g \in Groups
  PROVE /\ g \in Seq(Insns) /\ Len(g) \in 0..PipeWidth /\ DOMAIN g = 1..Len(g)
        /\ \A i \in 1..Len(g) : g[i] \in InsnShape
<1>1. PICK n \in 0..PipeWidth : g \in [1..n -> Insns]
  BY DEF Groups
<1>2. n \in Nat /\ Len(g) = n /\ g \in Seq(Insns) /\ DOMAIN g = 1..n
  BY <1>1, RegMapAssumption
<1> QED BY <1>1, <1>2, RenameAssumption

\* What rename hands to the reorder buffer: entries that carry the write
\* enables and destinations of the group, sources and old destinations read
\* from the map with the earlier slots bypassed.
ShapeOf(g, found, id, w, ren) ==
    /\ w \in Seq(Entry) /\ Len(w) = Len(g)
    /\ ren \in Seq(Entry) /\ Len(ren) = Len(g)
    /\ \A i \in 1..Len(g) :
          /\ w[i].wr = Writes(g[i])
          /\ w[i].pdst = IF NeedsPreg(g[i]) THEN found[NeedCount(g, i)] ELSE 0
          /\ ren[i].wr = w[i].wr /\ ren[i].rd = w[i].rd
          /\ ren[i].pdst = w[i].pdst /\ ren[i].rs = w[i].rs
          /\ ren[i].chk = g[i].br
          /\ ren[i].chk => ren[i].cid = id
          /\ ren[i].src = RatRead(w, i, w[i].rs)
          /\ ren[i].wr => ren[i].old = RatRead(w, i, w[i].rd)

\* Every renamed group has that shape.
LEMMA RenamedShape ==
  ASSUME NEW g \in Groups, NEW S \in SUBSET Pregs, NEW id \in Slots,
         NEW found \in [1..NeedCount(g, Len(g)) -> S], rat \in [Arch -> Pregs]
  PROVE ShapeOf(g, found, id, WithDests(g, found, id), RenamedGroup(g, found, id))
<1> DEFINE w == WithDests(g, found, id)
           ren == RenamedGroup(g, found, id)
<1>1. /\ Len(g) \in Nat /\ DOMAIN g = 1..Len(g)
      /\ \A i \in 1..Len(g) : g[i] \in InsnShape
  BY GroupShape
<1>2. 0 \in Arch /\ 0 \in Pregs /\ 0 \in Slots
  BY RegMapAssumption DEF Arch, Pregs, Slots
<1>3. ASSUME NEW i \in 1..Len(g), NeedsPreg(g[i])
      PROVE found[NeedCount(g, i)] \in Pregs
  <2>1. i \in Nat /\ 0 \in Nat /\ 0 < i /\ i <= Len(g)
    BY <1>1
  <2>2. NeedCount(g, i) \in Nat /\ NeedCount(g, Len(g)) \in Nat /\ NeedCount(g, 0) \in Nat
    BY <1>1, <2>1, NeedCountSteps
  <2>3. NeedCount(g, i) <= NeedCount(g, Len(g))
    BY <1>1, <2>1, NeedCountSteps
  <2>4. NeedCount(g, 0) < NeedCount(g, i)
    BY <1>3, <2>1, NeedCountSteps
  <2>5. NeedCount(g, i) \in 1..NeedCount(g, Len(g))
    BY <2>2, <2>3, <2>4
  <2> QED BY <2>5
<1> DEFINE We(i) ==
        [wr |-> Writes(g[i]), rd |-> IF g[i].rd = NoReg THEN 0 ELSE g[i].rd,
         pdst |-> IF NeedsPreg(g[i]) THEN found[NeedCount(g, i)] ELSE 0,
         old |-> 0, rs |-> g[i].rs, src |-> 0,
         br |-> g[i].br, chk |-> g[i].br, cid |-> IF g[i].br THEN id ELSE 0]
<1>4. ASSUME NEW i \in 1..Len(g) PROVE We(i) \in Entry
  <2>1. g[i].rd \in Arch \union {NoReg} /\ g[i].rs \in Arch /\ g[i].br \in BOOLEAN
    BY <1>1 DEF InsnShape
  <2>2. Writes(g[i]) \in BOOLEAN
    BY DEF Writes
  <2> QED BY <1>2, <1>3, <2>1, <2>2 DEF Entry
<1>5. w = [i \in 1..Len(g) |-> We(i)]
  BY <1>1 DEF WithDests
<1>6. /\ w \in Seq(Entry) /\ Len(w) = Len(g)
      /\ \A i \in 1..Len(g) : w[i] = We(i) /\ w[i] \in Entry
  <2> HIDE DEF We, w
  <2> QED BY <1>1, <1>4, <1>5
<1>7. ASSUME NEW i \in 1..Len(g)
      PROVE /\ RatRead(w, i, w[i].rs) \in Pregs
            /\ RatRead(w, i, w[i].rd) \in Pregs
  <2> HIDE DEF w
  <2>1. Prefix(w, i - 1) \in Seq(Entry)
    <3>1. i - 1 \in 0..Len(w)
      BY <1>1, <1>6
    <3> QED BY <1>6, <3>1, SplitAt
  <2>2. Overlay(rat, Prefix(w, i - 1)) \in [Arch -> Pregs]
    BY <2>1, OverlayType
  <2>3. w[i].rs \in Arch /\ w[i].rd \in Arch
    BY <1>6 DEF Entry
  <2> QED BY <2>2, <2>3 DEF RatRead
<1> DEFINE Re(i) == [w[i] EXCEPT !.src = RatRead(w, i, w[i].rs),
                                 !.old = IF w[i].wr THEN RatRead(w, i, w[i].rd) ELSE 0]
<1>8. ren = [i \in 1..Len(g) |-> Re(i)]
  BY <1>1 DEF RenamedGroup
<1>9. ASSUME NEW i \in 1..Len(g)
      PROVE /\ Re(i) \in Entry
            /\ Re(i).wr = w[i].wr /\ Re(i).rd = w[i].rd
            /\ Re(i).pdst = w[i].pdst /\ Re(i).rs = w[i].rs
            /\ Re(i).chk = w[i].chk /\ Re(i).cid = w[i].cid
            /\ Re(i).src = RatRead(w, i, w[i].rs)
            /\ w[i].wr => Re(i).old = RatRead(w, i, w[i].rd)
  <2> HIDE DEF w
  <2> QED BY <1>2, <1>6, <1>7 DEF Entry
<1>10. /\ ren \in Seq(Entry) /\ Len(ren) = Len(g)
       /\ \A i \in 1..Len(g) : ren[i] = Re(i)
  <2> HIDE DEF Re, ren
  <2> QED BY <1>1, <1>8, <1>9
<1>11. \A i \in 1..Len(g) :
         /\ w[i].wr = Writes(g[i])
         /\ w[i].pdst = IF NeedsPreg(g[i]) THEN found[NeedCount(g, i)] ELSE 0
         /\ w[i].chk = g[i].br
         /\ w[i].chk => w[i].cid = id
  <2> HIDE DEF w, We
  <2>1. SUFFICES ASSUME NEW i \in 1..Len(g)
                 PROVE /\ w[i].wr = Writes(g[i])
                       /\ w[i].pdst = IF NeedsPreg(g[i]) THEN found[NeedCount(g, i)] ELSE 0
                       /\ w[i].chk = g[i].br
                       /\ w[i].chk => w[i].cid = id
    OBVIOUS
  <2>2. w[i] = We(i)
    BY <1>6
  <2>3. We(i).wr = Writes(g[i]) /\ We(i).chk = g[i].br
    BY DEF We
  <2>4. We(i).pdst = IF NeedsPreg(g[i]) THEN found[NeedCount(g, i)] ELSE 0
    BY DEF We
  <2>5. We(i).cid = IF g[i].br THEN id ELSE 0
    BY DEF We
  <2> QED BY <2>2, <2>3, <2>4, <2>5
<1> HIDE DEF w, ren, We, Re
<1>12. \A i \in 1..Len(g) :
         /\ ren[i].wr = w[i].wr /\ ren[i].rd = w[i].rd
         /\ ren[i].pdst = w[i].pdst /\ ren[i].rs = w[i].rs
         /\ ren[i].chk = w[i].chk /\ ren[i].cid = w[i].cid
         /\ ren[i].src = RatRead(w, i, w[i].rs)
         /\ ren[i].wr => ren[i].old = RatRead(w, i, w[i].rd)
  BY <1>9, <1>10
<1>13. ShapeOf(g, found, id, w, ren)
  BY <1>6, <1>10, <1>11, <1>12 DEF ShapeOf
<1> QED BY <1>13 DEF w, ren

\* Every register granted to a group goes to one of its slots.
LEMMA NeedCountOnto ==
  ASSUME NEW g, NEW n \in Nat, NEW k \in 1..NeedCount(g, n)
  PROVE \E i \in 1..n : NeedsPreg(g[i]) /\ NeedCount(g, i) = k
<1> DEFINE S == {i \in 1..n : NeedCount(g, i) >= k}
<1>1. \A m \in Nat : NeedCount(g, m) \in Nat
  BY NeedCountSteps
<1>2. NeedCount(g, 0) = 0
  <2>1. {j \in 1..0 : NeedsPreg(g[j])} = {}
    OBVIOUS
  <2> QED BY <2>1, FS_EmptySet DEF NeedCount
<1>3. k \in Nat /\ k > 0 /\ k <= NeedCount(g, n)
  BY <1>1
<1>4. n \in 1..n /\ S \in SUBSET (1..n) /\ S # {}
  BY <1>1, <1>2, <1>3
<1>5. PICK i \in S : \A j \in S : i <= j
  <2> HIDE DEF S
  <2> QED BY <1>4, MinExists
<1>6. i \in Nat /\ i - 1 \in Nat /\ i \in 1..n /\ NeedCount(g, i) >= k
  BY <1>5
<1>7. NeedCount(g, i - 1) < k
  <2>1. CASE i = 1
    BY <1>2, <1>3, <2>1
  <2>2. CASE i # 1
    <3>1. i - 1 \in 1..n /\ i - 1 \notin S
      BY <1>5, <1>6, <2>2
    <3> QED BY <1>1, <1>3, <1>6, <3>1
  <2> QED BY <2>1, <2>2
<1>8. NeedCount(g, i) = IF NeedsPreg(g[i]) THEN NeedCount(g, i - 1) + 1
                                           ELSE NeedCount(g, i - 1)
  <2> DEFINE N(m) == {j \in 1..m : NeedsPreg(g[j])}
  <2>1. IsFiniteSet(N(i - 1))
    <3>1. IsFiniteSet(1..(i - 1)) /\ N(i - 1) \in SUBSET (1..(i - 1))
      BY <1>6, FS_Interval
    <3> QED BY <3>1, FS_Subset
  <2>2. i \notin N(i - 1)
    BY <1>6
  <2>3. N(i) = IF NeedsPreg(g[i]) THEN N(i - 1) \union {i} ELSE N(i - 1)
    BY <1>6
  <2>4. \A m : NeedCount(g, m) = Cardinality(N(m))
    BY DEF NeedCount
  <2> HIDE DEF N
  <2> QED BY <2>1, <2>2, <2>3, <2>4, FS_AddElement
<1>9. NeedCount(g, i) \in Nat /\ NeedCount(g, i - 1) \in Nat
  BY <1>1, <1>6
<1>10. NeedsPreg(g[i]) /\ NeedCount(g, i) = k
  BY <1>3, <1>6, <1>7, <1>8, <1>9
<1> QED BY <1>6, <1>10

\* The i-th slot that needs a register takes one of the granted, each its own.
LEMMA GrantsDistinct ==
  ASSUME NEW g, NEW n \in Nat, NEW i \in 1..n, NEW j \in 1..n,
         NeedsPreg(g[i]), NeedsPreg(g[j])
  PROVE /\ NeedCount(g, i) \in 1..NeedCount(g, n)
        /\ i # j => NeedCount(g, i) # NeedCount(g, j)
<1>1. i \in Nat /\ j \in Nat /\ 0 \in Nat /\ 0 < i /\ i <= n /\ (i < j \/ j < i \/ i = j)
  OBVIOUS
<1>2. \A m \in Nat : NeedCount(g, m) \in Nat
  BY NeedCountSteps
<1>3. NeedCount(g, 0) < NeedCount(g, i) /\ NeedCount(g, i) <= NeedCount(g, n)
  BY <1>1, NeedCountSteps
<1>4. i < j => NeedCount(g, i) < NeedCount(g, j)
  BY <1>1, NeedCountSteps
<1>5. j < i => NeedCount(g, j) < NeedCount(g, i)
  BY <1>1, NeedCountSteps
<1> QED BY <1>1, <1>2, <1>3, <1>4, <1>5

(***************************************************************************)
(* One ordinary cycle, told once for all the invariants: the c oldest      *)
(* commit, the renamed group ren enters, and the registers U it takes from *)
(* the free list are the destinations of its writers, one for each.        *)
(***************************************************************************)
Committing(c) == Prefix(rob, c)
Remaining(c)  == SubSeq(rob, c + 1, Len(rob))

TakesFresh(ren, U) ==
    /\ ren \in Seq(Entry) /\ U \subseteq freeBitmap
    /\ \A i \in 1..Len(ren) :
          ren[i].wr => ren[i].pdst \in U \/ ren[i].pdst \in Hardwired
    /\ \A p \in U : \E i \in 1..Len(ren) : ren[i].wr /\ ren[i].pdst = p
    /\ \A i, j \in 1..Len(ren) :
          i # j /\ ren[i].wr /\ ren[j].wr /\ ren[i].pdst \notin Hardwired
             => ren[i].pdst # ren[j].pdst

ReadsMap(ren) ==
    \A i \in 1..Len(ren) :
       LET map == Overlay(rat, Prefix(ren, i - 1))
       IN  /\ ren[i].src = map[ren[i].rs]
           /\ ren[i].wr => ren[i].old = map[ren[i].rd]

\* The group renamed takes fresh registers and reads the map in order.
LEMMA RenamedTakesFresh ==
  ASSUME TypeOK, NEW g \in Groups, NEW id \in Slots,
         NEW found \in LowestFirst(freeBitmap, NeedCount(g, Len(g)))
  PROVE LET ren == RenamedGroup(g, found, id)
            U   == {found[k] : k \in 1..NeedCount(g, Len(g))}
        IN  /\ TakesFresh(ren, U) /\ ReadsMap(ren) /\ Len(ren) = Len(g)
<1> DEFINE w == WithDests(g, found, id)
           ren == RenamedGroup(g, found, id)
           K == 1..NeedCount(g, Len(g))
           U == {found[k] : k \in K}
<1>1. /\ found \in [K -> freeBitmap]
      /\ \A k, l \in K : k < l => found[k] < found[l]
  BY DEF LowestFirst
<1>2. freeBitmap \in SUBSET Pregs /\ freeBitmap \subseteq Pregs \ Hardwired
      /\ rat \in [Arch -> Pregs]
  BY DEF TypeOK
<1>3. /\ w \in Seq(Entry) /\ Len(w) = Len(g)
      /\ ren \in Seq(Entry) /\ Len(ren) = Len(g)
      /\ \A i \in 1..Len(g) :
            /\ w[i].wr = Writes(g[i])
            /\ w[i].pdst = IF NeedsPreg(g[i]) THEN found[NeedCount(g, i)] ELSE 0
            /\ ren[i].wr = w[i].wr /\ ren[i].rd = w[i].rd
            /\ ren[i].pdst = w[i].pdst /\ ren[i].rs = w[i].rs
            /\ ren[i].src = RatRead(w, i, w[i].rs)
            /\ ren[i].wr => ren[i].old = RatRead(w, i, w[i].rd)
  <2>1. found \in [1..NeedCount(g, Len(g)) -> freeBitmap]
    BY <1>1
  <2>2. ShapeOf(g, found, id, w, ren)
    BY <1>2, <2>1, RenamedShape
  <2> HIDE DEF w, ren
  <2> QED BY <2>2 DEF ShapeOf
<1>4. /\ Len(g) \in Nat /\ \A i \in 1..Len(g) : g[i] \in Insns
  BY GroupShape, ElementOfSeq
<1> HIDE DEF w, ren, K
<1>5. ASSUME NEW i \in 1..Len(ren), ren[i].wr
      PROVE \/ NeedsPreg(g[i]) /\ NeedCount(g, i) \in K
                 /\ ren[i].pdst = found[NeedCount(g, i)]
            \/ ren[i].pdst \in Hardwired
  <2>1. Writes(g[i]) /\ g[i] \in Insns
    BY <1>3, <1>4, <1>5
  <2>2. CASE NeedsPreg(g[i])
    <3>1. NeedCount(g, i) \in K
      BY <1>3, <1>4, <2>2, GrantsDistinct DEF K
    <3> QED BY <1>3, <2>2, <3>1
  <2>3. CASE ~NeedsPreg(g[i])
    <3>1. g[i].zero
      BY <2>1, <2>3 DEF NeedsPreg
    <3>2. ProtectZero
      BY <2>1, <3>1, RenameAssumption
    <3>3. ren[i].pdst = 0
      BY <1>3, <2>3
    <3> QED BY <3>2, <3>3 DEF Hardwired
  <2> QED BY <2>2, <2>3
<1>6. \A i \in 1..Len(ren) :
         ren[i].wr => ren[i].pdst \in U \/ ren[i].pdst \in Hardwired
  BY <1>5
<1>7. ASSUME NEW p \in U
      PROVE \E i \in 1..Len(ren) : ren[i].wr /\ ren[i].pdst = p
  <2>1. PICK k \in K : p = found[k]
    OBVIOUS
  <2>2. PICK i \in 1..Len(g) : NeedsPreg(g[i]) /\ NeedCount(g, i) = k
    BY <1>4, <2>1, NeedCountOnto DEF K
  <2>3. Writes(g[i])
    BY <2>2 DEF NeedsPreg
  <2> QED BY <1>3, <2>1, <2>2, <2>3
<1>8. ASSUME NEW i \in 1..Len(ren), NEW j \in 1..Len(ren), i # j,
             ren[i].wr, ren[j].wr, ren[i].pdst \notin Hardwired
      PROVE ren[i].pdst # ren[j].pdst
  <2>1. NeedsPreg(g[i]) /\ NeedCount(g, i) \in K /\ ren[i].pdst = found[NeedCount(g, i)]
    BY <1>5, <1>8
  <2>2. ren[i].pdst \in freeBitmap
    BY <1>1, <2>1
  <2>3. CASE ren[j].pdst \in Hardwired
    BY <1>2, <2>2, <2>3
  <2>4. CASE NeedsPreg(g[j]) /\ NeedCount(g, j) \in K
              /\ ren[j].pdst = found[NeedCount(g, j)]
    <3>1. NeedCount(g, i) # NeedCount(g, j)
      BY <1>3, <1>4, <1>8, <2>1, <2>4, GrantsDistinct
    <3>2. found[NeedCount(g, i)] # found[NeedCount(g, j)]
      <4>1. K \subseteq Int /\ freeBitmap \subseteq Int
        BY <1>2 DEF K, Pregs
      <4>2. /\ NeedCount(g, i) \in Int /\ NeedCount(g, j) \in Int
            /\ found[NeedCount(g, i)] \in Int /\ found[NeedCount(g, j)] \in Int
        BY <1>1, <2>1, <2>4, <4>1
      <4> QED BY <1>1, <2>1, <2>4, <3>1, <4>2
    <3> QED BY <2>1, <2>4, <3>2
  <2> QED BY <1>5, <1>8, <2>3, <2>4
<1>9. U \subseteq freeBitmap
  BY <1>1
<1>10. TakesFresh(ren, U)
  <2> HIDE DEF U
  <2> QED BY <1>3, <1>6, <1>7, <1>8, <1>9 DEF TakesFresh
<1>11. ASSUME NEW i \in 1..Len(ren)
       PROVE /\ ren[i].src = Overlay(rat, Prefix(ren, i - 1))[ren[i].rs]
             /\ ren[i].wr => ren[i].old = Overlay(rat, Prefix(ren, i - 1))[ren[i].rd]
  <2>1. i - 1 \in 0..Len(ren) /\ i - 1 \in 0..Len(w)
    BY <1>3, <1>4
  <2>2. /\ Prefix(ren, i - 1) \in Seq(Entry) /\ Len(Prefix(ren, i - 1)) = i - 1
        /\ \A j \in 1..(i - 1) : Prefix(ren, i - 1)[j] = ren[j]
    BY <1>3, <2>1, SplitAt
  <2>3. /\ Prefix(w, i - 1) \in Seq(Entry) /\ Len(Prefix(w, i - 1)) = i - 1
        /\ \A j \in 1..(i - 1) : Prefix(w, i - 1)[j] = w[j]
    BY <1>3, <2>1, SplitAt
  <2>4. \A j \in 1..(i - 1) : j \in 1..Len(g)
    BY <1>3, <1>4
  <2>5. Overlay(rat, Prefix(ren, i - 1)) = Overlay(rat, Prefix(w, i - 1))
    <3>1. \A j \in 1..(i - 1) : /\ Prefix(ren, i - 1)[j].wr = Prefix(w, i - 1)[j].wr
                                /\ Prefix(ren, i - 1)[j].rd = Prefix(w, i - 1)[j].rd
                                /\ Prefix(ren, i - 1)[j].pdst = Prefix(w, i - 1)[j].pdst
      BY <1>3, <2>2, <2>3, <2>4
    <3> QED BY <2>2, <2>3, <3>1, OverlayAgrees
  <2> QED BY <1>3, <2>5 DEF RatRead
<1>12. ReadsMap(ren)
  BY <1>11 DEF ReadsMap
<1> QED BY <1>3, <1>10, <1>12 DEF ren, K

\* What an ordinary cycle does to the maps, the free list and the buffer.
LEMMA CycleStep ==
  ASSUME TypeOK, NEW c \in CommitCounts, NEW g \in Groups, Cycle(c, g)
  PROVE \E ren \in Seq(Entry), U \in SUBSET freeBitmap :
          /\ TakesFresh(ren, U) /\ ReadsMap(ren)
          /\ Len(rob) - c + Len(ren) <= RobDepth
          /\ freeBitmap' = (freeBitmap \ U)
                               \union (Olds(Committing(c)) \ Hardwired)
          /\ committedMap' = Overlay(committedMap, Committing(c))
          /\ committedRat' = Overlay(committedRat, Committing(c))
          /\ rat' = Overlay(rat, ren)
          /\ rob' = Remaining(c) \o ren
<1> DEFINE P == Prefix(rob, c)
           rel == Released(P)
           save == IF Branches(g) = {} THEN {} ELSE {SaveId(rel)}
           id == IF save = {} THEN 0 ELSE SaveId(rel)
           b == IF save = {} THEN 1 ELSE Latest(Branches(g))
           used(f, n) == {f[k] : k \in 1..NeedCount(g, n)}
<1>1. CanRename(g, P)
  BY DEF Cycle
<1>2. PICK found \in LowestFirst(freeBitmap, NeedCount(g, Len(g))) :
         LET ren == RenamedGroup(g, found, id)
         IN  /\ FLCycle(used(found, Len(g)), P, save, used(found, b - 1))
             /\ RatCycle(ren, P, save, b)
             /\ CkptCycle(rel, save)
             /\ rob' = SubSeq(rob, c + 1, Len(rob)) \o ren
  BY DEF Cycle
<1>3. id \in Slots
  <2>1. 0 \in Slots
    BY RegMapAssumption DEF Slots
  <2>2. CASE Branches(g) = {}
    BY <2>1, <2>2
  <2>3. CASE Branches(g) # {}
    <3>1. SaveAvail(rel)
      BY <1>1, <2>3 DEF CanRename
    <3>2. SaveId(rel) \in Slots
      BY <3>1, SaveIdIsFree
    <3> HIDE DEF rel
    <3> QED BY <2>3, <3>2
  <2> QED BY <2>2, <2>3
<1> DEFINE ren == RenamedGroup(g, found, id)
           U == used(found, Len(g))
<1>4. TakesFresh(ren, U) /\ ReadsMap(ren) /\ Len(ren) = Len(g)
  <2> HIDE DEF id
  <2> QED BY <1>3, RenamedTakesFresh
<1>5. Len(rob) - c + Len(g) <= RobDepth
  <2>1. rob \in Seq(Entry) /\ Len(rob) \in Nat /\ Len(rob) <= RobDepth /\ c \in 0..Len(rob)
    BY CommitCountsBound DEF TypeOK
  <2>2. Len(g) \in 0..PipeWidth /\ (g # <<>> \/ Len(g) = 0)
    BY GroupShape
  <2>3. g # <<>> => RobDepth - Len(rob) >= PipeWidth
    BY <1>1 DEF CanRename
  <2> QED BY <2>1, <2>2, <2>3, RegMapAssumption
<1>6. /\ freeBitmap' = (freeBitmap \ U) \union (Olds(P) \ Hardwired)
      /\ committedMap' = Overlay(committedMap, P)
  <2> HIDE DEF P, save, b
  <2> QED BY <1>2 DEF FLCycle
<1>7. committedRat' = Overlay(committedRat, P) /\ rat' = Overlay(rat, ren)
  <2> HIDE DEF P, save, b, id
  <2> QED BY <1>2 DEF RatCycle
<1>8. rob' = Remaining(c) \o ren
  BY <1>2 DEF Remaining
<1> HIDE DEF U, ren, P
<1>9. ren \in Seq(Entry) /\ U \in SUBSET freeBitmap
  BY <1>4 DEF TakesFresh
<1>10. P = Committing(c)
  BY DEF P, Committing
<1> QED BY <1>4, <1>5, <1>6, <1>7, <1>8, <1>9, <1>10

CheckpointTypes ==
    /\ ckptBitmap \in [Slots -> SUBSET (Pregs \ Hardwired)]
    /\ ckptCommitted \in [Slots -> SUBSET Pregs]
    /\ ckptTable \in [Slots -> [Arch -> Pregs]]
    /\ occupied \subseteq Slots
    /\ slotSeq \in [Slots -> 0..(SeqModulus - 1)]
    /\ nextSeq \in 0..(SeqModulus - 1)

\* What an ordinary cycle saves is typed: the bitmap without the hardwired
\* register, the table before the branch, the sequence number modulo its width.
LEMMA CheckpointsTyped ==
  ASSUME TypeOK, NEW c \in CommitCounts, NEW g \in Groups, Cycle(c, g)
  PROVE CheckpointTypes'
<1> DEFINE P == Prefix(rob, c)
           rel == Released(P)
           save == IF Branches(g) = {} THEN {} ELSE {SaveId(rel)}
           id == IF save = {} THEN 0 ELSE SaveId(rel)
           b == IF save = {} THEN 1 ELSE Latest(Branches(g))
           used(f, n) == {f[k] : k \in 1..NeedCount(g, n)}
<1>1. CanRename(g, P)
  BY DEF Cycle
<1>2. PICK found \in LowestFirst(freeBitmap, NeedCount(g, Len(g))) :
         LET ren == RenamedGroup(g, found, id)
         IN  /\ FLCycle(used(found, Len(g)), P, save, used(found, b - 1))
             /\ RatCycle(ren, P, save, b)
             /\ CkptCycle(rel, save)
             /\ rob' = SubSeq(rob, c + 1, Len(rob)) \o ren
  BY DEF Cycle
<1>3. 0 \in Slots /\ (Branches(g) # {} => SaveId(rel) \in Slots)
  BY <1>1, SaveIdIsFree, RegMapAssumption DEF CanRename, Slots
<1>4. save \subseteq Slots /\ id \in Slots
  <2> HIDE DEF rel
  <2> QED BY <1>3
<1> DEFINE ren == RenamedGroup(g, found, id)
<1>5. ren \in Seq(Entry) /\ Len(ren) = Len(g)
  <2> HIDE DEF id
  <2> QED BY <1>4, RenamedTakesFresh DEF TakesFresh
<1>6. P \in Seq(Entry)
  BY CommitCountsBound, SplitAt DEF TypeOK
<1>7. save # {} => Overlay(rat, Prefix(ren, b - 1)) \in [Arch -> Pregs]
  <2>1. SUFFICES ASSUME save # {}
                 PROVE Prefix(ren, b - 1) \in Seq(Entry)
    <3> HIDE DEF ren, b, save
    <3> QED BY OverlayType DEF TypeOK
  <2>2. Branches(g) # {} /\ b = Latest(Branches(g))
    BY <2>1
  <2>3. Len(g) \in Nat /\ Branches(g) \in SUBSET (1..Len(g))
    BY GroupShape DEF Branches
  <2>4. b \in 1..Len(g)
    <3> HIDE DEF b
    <3> QED BY <2>2, <2>3, LatestIsLast
  <2>5. b - 1 \in 0..Len(ren)
    <3> HIDE DEF b, ren
    <3> QED BY <1>5, <2>3, <2>4
  <2> HIDE DEF b, ren
  <2> QED BY <1>5, <2>5, SplitAt
<1>8. /\ ckptBitmap' \in [Slots -> SUBSET (Pregs \ Hardwired)]
      /\ ckptCommitted' \in [Slots -> SUBSET Pregs]
  <2>1. \A t, w : CkptSaveBitmap(t, w) \in SUBSET (Pregs \ Hardwired)
    BY DEF CkptSaveBitmap
  <2>2. \A w : CommittedBitmapNext(w) \in SUBSET Pregs
    BY DEF CommittedBitmapNext, CommittedBitmap
  <2> HIDE DEF P, save, b, used
  <2> QED BY <1>2, <2>1, <2>2 DEF FLCycle, TypeOK
<1>9. ckptTable' \in [Slots -> [Arch -> Pregs]]
  <2>1. ckptTable' = [s \in Slots |->
            IF s \in save THEN Overlay(rat, Prefix(ren, b - 1)) ELSE ckptTable[s]]
    BY <1>2 DEF RatCycle
  <2> HIDE DEF P, save, b, ren
  <2>2. ckptTable \in [Slots -> [Arch -> Pregs]]
    BY DEF TypeOK
  <2> QED BY <1>7, <2>1, <2>2
<1>10. /\ occupied' \subseteq Slots
       /\ slotSeq' \in [Slots -> 0..(SeqModulus - 1)]
       /\ nextSeq' \in 0..(SeqModulus - 1)
  <2> HIDE DEF rel, save
  <2>1. CkptCycle(rel, save)
    BY <1>2
  <2>2. SeqModulus \in Nat /\ SeqModulus > 0
    BY RegMapAssumption DEF SeqModulus
  <2>3. nextSeq \in Int /\ (nextSeq + 1) % SeqModulus \in 0..(SeqModulus - 1)
    BY <2>2 DEF TypeOK
  <2> QED BY <1>4, <2>1, <2>3 DEF CkptCycle, TypeOK
<1> QED BY <1>8, <1>9, <1>10 DEF CheckpointTypes

\* Renaming, commits, flushes and recoveries keep every table of the rename
\* modules and the reorder buffer within their widths.
THEOREM TypeCorrect == Spec => []TypeOK
<1>1. Init => TypeOK
  <2> SUFFICES ASSUME Init PROVE TypeOK
    OBVIOUS
  <2>1. Arch \subseteq Pregs /\ InitBitmap \subseteq Pregs \ Hardwired
    BY RegMapAssumption DEF Arch, Pregs, InitBitmap, Hardwired
  <2>2. 0 \in 0..(SeqModulus - 1)
    BY RegMapAssumption DEF SeqModulus
  <2>3. rob \in Seq(Entry) /\ Len(rob) <= RobDepth
    BY RegMapAssumption DEF Init
  <2>4. recoveries \in 0..MaxRecoveries
    BY RenameAssumption DEF Init
  <2> QED BY <2>1, <2>2, <2>3, <2>4 DEF Init, FLInit, RatInit, CkptInit, TypeOK
<1>2. TypeOK /\ [Next]_vars => TypeOK'
  <2> SUFFICES ASSUME TypeOK, [Next]_vars PROVE TypeOK'
    OBVIOUS
  <2>1. ASSUME NEW c \in CommitCounts, NEW g \in Groups, Cycle(c, g)
        PROVE TypeOK'
    <3>1. PICK ren \in Seq(Entry), U \in SUBSET freeBitmap :
          /\ TakesFresh(ren, U) /\ ReadsMap(ren)
          /\ Len(rob) - c + Len(ren) <= RobDepth
          /\ freeBitmap' = (freeBitmap \ U)
                               \union (Olds(Committing(c)) \ Hardwired)
          /\ committedMap' = Overlay(committedMap, Committing(c))
          /\ committedRat' = Overlay(committedRat, Committing(c))
          /\ rat' = Overlay(rat, ren)
          /\ rob' = Remaining(c) \o ren
      BY <2>1, CycleStep
    <3>2. CheckpointTypes'
      BY <2>1, CheckpointsTyped
    <3>3. /\ Committing(c) \in Seq(Entry) /\ Remaining(c) \in Seq(Entry)
          /\ Len(Remaining(c)) = Len(rob) - c
      BY <2>1, CommitCountsBound, SplitAt DEF Committing, Remaining, TypeOK
    <3>4. Olds(Committing(c)) \subseteq Pregs
      BY <3>3, OldsAndDests
    <3>5. freeBitmap' \subseteq Pregs \ Hardwired
      BY <3>1, <3>4 DEF TypeOK
    <3>6. /\ committedMap' \in [Arch -> Pregs] /\ committedRat' \in [Arch -> Pregs]
          /\ rat' \in [Arch -> Pregs]
      BY <3>1, <3>3, OverlayType DEF TypeOK
    <3>7. rob' \in Seq(Entry) /\ Len(rob') <= RobDepth
      BY <3>1, <3>3, ConcatProperties
    <3>8. recoveries' \in 0..MaxRecoveries
      BY <2>1 DEF Cycle, TypeOK
    <3> QED BY <3>2, <3>5, <3>6, <3>7, <3>8 DEF TypeOK, CheckpointTypes
  <2>2. ASSUME NEW c \in CommitCounts, Flush(c)
        PROVE TypeOK'
    <3>1. Prefix(rob, c) \in Seq(Entry)
      BY <2>2, CommitCountsBound, SplitAt DEF TypeOK
    <3>2. \A m \in [Arch -> Pregs] : Overlay(m, Prefix(rob, c)) \in [Arch -> Pregs]
      BY <3>1, OverlayType
    <3>3. /\ committedMap' \in [Arch -> Pregs] /\ committedRat' \in [Arch -> Pregs]
          /\ rat' \in [Arch -> Pregs] /\ freeBitmap' \subseteq Pregs \ Hardwired
          /\ ckptBitmap' = ckptBitmap /\ ckptCommitted' = ckptCommitted
          /\ ckptTable' = ckptTable
      <4>1. Flush(c)
        BY <2>2
      <4>2. /\ freeBitmap' = CommittedBitmapNext(Prefix(rob, c))
            /\ committedMap' = Overlay(committedMap, Prefix(rob, c))
            /\ ckptBitmap' = ckptBitmap /\ ckptCommitted' = ckptCommitted
        BY <4>1 DEF Flush, FLFlush
      <4>3. /\ rat' = Overlay(committedRat, Prefix(rob, c))
            /\ committedRat' = Overlay(committedRat, Prefix(rob, c))
            /\ ckptTable' = ckptTable
        BY <4>1 DEF Flush, RatFlush
      <4>4. CommittedBitmapNext(Prefix(rob, c)) \subseteq Pregs \ Hardwired
        BY DEF CommittedBitmapNext, CommittedBitmap
      <4> QED BY <3>2, <4>2, <4>3, <4>4 DEF TypeOK
    <3>4. 0 \in 0..(SeqModulus - 1)
      BY RegMapAssumption DEF SeqModulus
    <3>5. occupied' = {} /\ slotSeq' = slotSeq /\ nextSeq' = 0
      BY <2>2 DEF Flush, CkptFlush
    <3>6. rob' = <<>> /\ recoveries' = recoveries
      BY <2>2 DEF Flush
    <3>7. rob' \in Seq(Entry) /\ Len(rob') <= RobDepth
      BY <3>6, RegMapAssumption
    <3> QED BY <3>3, <3>4, <3>5, <3>6, <3>7 DEF TypeOK
  <2>3. ASSUME NEW c \in CommitCounts, NEW k \in DOMAIN rob, Recover(c, k)
        PROVE TypeOK'
    <3>1. c \in 0..Len(rob) /\ k \in 1..Len(rob) /\ c < k /\ rob \in Seq(Entry)
      <4>1. rob \in Seq(Entry) /\ c < k
        BY <2>3 DEF Recover, TypeOK
      <4>2. DOMAIN rob = 1..Len(rob)
        BY <4>1, LenProperties
      <4>3. c \in 0..Len(rob)
        BY <4>1, CommitCountsBound
      <4> QED BY <4>1, <4>2, <4>3
    <3>2. rob[k] \in Entry /\ rob[k].cid \in Slots
      <4>1. rob[k] \in Entry
        BY <3>1, ElementOfSeq, Zenon
      <4> QED BY <4>1 DEF Entry
    <3>3. Prefix(rob, c) \in Seq(Entry)
      BY <3>1, SplitAt
    <3>4. \A m \in [Arch -> Pregs] : Overlay(m, Prefix(rob, c)) \in [Arch -> Pregs]
      BY <3>3, OverlayType
    <3>5. /\ committedMap' \in [Arch -> Pregs] /\ committedRat' \in [Arch -> Pregs]
          /\ rat' \in [Arch -> Pregs] /\ freeBitmap' \subseteq Pregs \ Hardwired
          /\ ckptBitmap' = ckptBitmap /\ ckptCommitted' = ckptCommitted
          /\ ckptTable' = ckptTable
      <4>1. /\ freeBitmap' = ckptBitmap[rob[k].cid] \union
                 (CommittedBitmapNext(Prefix(rob, c)) \ ckptCommitted[rob[k].cid])
            /\ committedMap' = Overlay(committedMap, Prefix(rob, c))
            /\ ckptBitmap' = ckptBitmap /\ ckptCommitted' = ckptCommitted
        BY <2>3 DEF Recover, FLRestore
      <4>2. /\ rat' = ckptTable[rob[k].cid]
            /\ committedRat' = Overlay(committedRat, Prefix(rob, c))
            /\ ckptTable' = ckptTable
        BY <2>3 DEF Recover, RatRestore
      <4>3. CommittedBitmapNext(Prefix(rob, c)) \subseteq Pregs \ Hardwired
        BY DEF CommittedBitmapNext, CommittedBitmap
      <4>4. ckptBitmap[rob[k].cid] \subseteq Pregs \ Hardwired
              /\ ckptTable[rob[k].cid] \in [Arch -> Pregs]
        BY <3>2 DEF TypeOK
      <4> QED BY <3>4, <4>1, <4>2, <4>3, <4>4 DEF TypeOK
    <3>6. occupied' \subseteq Slots /\ slotSeq' = slotSeq /\ nextSeq' = nextSeq
      <4>1. occupied' = KeepMask(Released(Prefix(rob, c)), rob[k].cid)
            /\ slotSeq' = slotSeq /\ nextSeq' = nextSeq
        BY <2>3 DEF Recover, CkptRestore
      <4>2. KeepMask(Released(Prefix(rob, c)), rob[k].cid) \subseteq occupied
        BY DEF KeepMask
      <4> QED BY <4>1, <4>2 DEF TypeOK
    <3>7. rob' \in Seq(Entry) /\ Len(rob') <= RobDepth
      <4> DEFINE s == SubSeq(rob, c + 1, k)
      <4>1. s \in Seq(Entry) /\ Len(s) = k - c
        <5>1. \A i \in (c + 1)..k : rob[i] \in Entry
          BY <3>1, ElementOfSeq
        <5> QED BY <3>1, <5>1, SubSeqProperties
      <4>2. rob' = [s EXCEPT ![k - c] = [s[k - c] EXCEPT !.chk = FALSE]]
        BY <2>3 DEF Recover
      <4>3. k - c \in 1..Len(s) /\ [s[k - c] EXCEPT !.chk = FALSE] \in Entry
        <5> HIDE DEF s
        <5>1. k - c \in 1..Len(s) /\ s[k - c] \in Entry
          BY <3>1, <4>1, ElementOfSeq
        <5> QED BY <5>1 DEF Entry
      <4> HIDE DEF s
      <4>4. rob' \in Seq(Entry) /\ Len(rob') = k - c
        BY <4>1, <4>2, <4>3, ExceptSeq
      <4> QED BY <3>1, <4>4, RegMapAssumption DEF TypeOK
    <3>8. recoveries' \in 0..MaxRecoveries
      BY <2>3, RenameAssumption DEF Recover, TypeOK
    <3> QED BY <3>5, <3>6, <3>7, <3>8 DEF TypeOK
  <2>4. CASE UNCHANGED vars
    BY <2>4 DEF vars, flVars, ratVars, ckptVars, TypeOK
  <2> QED BY <2>1, <2>2, <2>3, <2>4 DEF Next
<1> QED BY <1>1, <1>2, PTL DEF Spec

(***************************************************************************)
(* The registers.  The parts are inductive together with the type          *)
(* invariant: that a release frees the right register needs the sources to *)
(* name their producers, that nobody shares needs both.  That no register  *)
(* is lost holds only without partial recovery, so it stands apart.        *)
(***************************************************************************)
OrderInv ==
    /\ MapIsProgramOrder /\ CommittedMapsAgree /\ SourcesNameProducers
    /\ NoDoubleAllocation

RegisterInv == OrderInv /\ NoLostRegister

\* The invariant says of the entries that are about to commit what the
\* conservation lemmas ask.
LEMMA CommitReady ==
  ASSUME TypeOK, OrderInv, NEW c \in CommitCounts
  PROVE /\ Committing(c) \in Seq(Entry) /\ Remaining(c) \in Seq(Entry)
        /\ c \in 0..Len(rob) /\ Len(Committing(c)) = c
        /\ Len(Remaining(c)) = Len(rob) - c
        /\ rob = Committing(c) \o Remaining(c)
        /\ \A i \in 1..(Len(rob) - c) : Remaining(c)[i] = rob[c + i]
        /\ OldsInOrder(committedRat, Committing(c))
        /\ Unshared(committedRat, Committing(c) \o Remaining(c))
<1>1. rob \in Seq(Entry) /\ Len(rob) \in Nat /\ DOMAIN rob = 1..Len(rob)
  BY LenProperties DEF TypeOK
<1>2. c \in 0..Len(rob)
  BY <1>1, CommitCountsBound
<1>3. /\ Committing(c) \in Seq(Entry) /\ Remaining(c) \in Seq(Entry)
      /\ Len(Committing(c)) = c
      /\ Len(Remaining(c)) = Len(rob) - c
      /\ rob = Committing(c) \o Remaining(c)
      /\ \A i \in 1..c : Committing(c)[i] = rob[i]
      /\ \A i \in 1..(Len(rob) - c) : Remaining(c)[i] = rob[c + i]
  BY <1>1, <1>2, SplitAt DEF Committing, Remaining
<1>4. Unshared(committedRat, rob)
  BY <1>1 DEF OrderInv, NoDoubleAllocation, Unshared
<1>5. ASSUME NEW i \in 1..c, Committing(c)[i].wr
      PROVE Committing(c)[i].old
              = Overlay(committedRat, Prefix(Committing(c), i - 1))[Committing(c)[i].rd]
  <2>1. i \in 1..Len(rob) /\ i - 1 \in 0..Len(rob) /\ i - 1 \in 0..Len(Committing(c))
    BY <1>1, <1>2, <1>3
  <2>2. Prefix(rob, i - 1) = Prefix(Committing(c), i - 1)
    <3>1. /\ Prefix(rob, i - 1) \in Seq(Entry) /\ Len(Prefix(rob, i - 1)) = i - 1
          /\ \A j \in 1..(i - 1) : Prefix(rob, i - 1)[j] = rob[j]
      BY <1>1, <2>1, SplitAt
    <3>2. /\ Prefix(Committing(c), i - 1) \in Seq(Entry)
          /\ Len(Prefix(Committing(c), i - 1)) = i - 1
          /\ \A j \in 1..(i - 1) : Prefix(Committing(c), i - 1)[j] = Committing(c)[j]
      BY <1>3, <2>1, SplitAt
    <3>3. \A j \in 1..(i - 1) : Committing(c)[j] = rob[j]
      BY <1>1, <1>2, <1>3
    <3>4. \A j \in 1..(i - 1) :
             Prefix(rob, i - 1)[j] = Prefix(Committing(c), i - 1)[j]
      BY <3>1, <3>2, <3>3
    <3> QED BY <3>1, <3>2, <3>4, SeqEqual
  <2>3. Committing(c)[i] = rob[i]
    BY <1>3
  <2>4. rob[i].wr => rob[i].old = Overlay(committedRat, Prefix(rob, i - 1))[rob[i].rd]
    BY <1>1, <2>1 DEF OrderInv, SourcesNameProducers
  <2> QED BY <1>5, <2>2, <2>3, <2>4
<1>6. OldsInOrder(committedRat, Committing(c))
  BY <1>3, <1>5 DEF OldsInOrder
<1> QED BY <1>2, <1>3, <1>4, <1>6

\* What precedes an entry of two sequences in a row.
LEMMA PrefixConcat ==
  ASSUME NEW u \in Seq(Entry), NEW v \in Seq(Entry)
  PROVE /\ \A i \in 1..Len(u) : Prefix(u \o v, i - 1) = Prefix(u, i - 1)
        /\ \A i \in 1..Len(v) :
              Prefix(u \o v, Len(u) + i - 1) = u \o Prefix(v, i - 1)
<1> DEFINE w == u \o v
<1>1. /\ w \in Seq(Entry) /\ Len(w) = Len(u) + Len(v)
      /\ Len(u) \in Nat /\ Len(v) \in Nat
      /\ \A i \in 1..Len(u) : w[i] = u[i]
      /\ \A i \in 1..Len(v) : w[Len(u) + i] = v[i]
  OBVIOUS
<1> HIDE DEF w
<1>2. ASSUME NEW i \in 1..Len(u) PROVE Prefix(w, i - 1) = Prefix(u, i - 1)
  <2>1. i - 1 \in 0..Len(w) /\ i - 1 \in 0..Len(u)
    BY <1>1
  <2>2. /\ Prefix(w, i - 1) \in Seq(Entry) /\ Len(Prefix(w, i - 1)) = i - 1
        /\ \A j \in 1..(i - 1) : Prefix(w, i - 1)[j] = w[j]
    BY <1>1, <2>1, SplitAt
  <2>3. /\ Prefix(u, i - 1) \in Seq(Entry) /\ Len(Prefix(u, i - 1)) = i - 1
        /\ \A j \in 1..(i - 1) : Prefix(u, i - 1)[j] = u[j]
    BY <1>1, <2>1, SplitAt
  <2>4. \A j \in 1..(i - 1) : w[j] = u[j]
    BY <1>1
  <2>5. \A j \in 1..(i - 1) : Prefix(w, i - 1)[j] = Prefix(u, i - 1)[j]
    BY <2>2, <2>3, <2>4
  <2> QED BY <2>2, <2>3, <2>5, SeqEqual
<1>3. ASSUME NEW i \in 1..Len(v)
      PROVE Prefix(w, Len(u) + i - 1) = u \o Prefix(v, i - 1)
  <2> DEFINE n == Len(u) + i - 1
             x == Prefix(w, n)
             y == Prefix(v, i - 1)
             z == u \o y
  <2>1. n \in 0..Len(w) /\ i - 1 \in 0..Len(v) /\ n = Len(u) + (i - 1) /\ n \in Nat
    BY <1>1
  <2>2. x \in Seq(Entry) /\ Len(x) = n /\ \A j \in 1..n : x[j] = w[j]
    <3> HIDE DEF n
    <3> QED BY <1>1, <2>1, SplitAt
  <2>3. y \in Seq(Entry) /\ Len(y) = i - 1 /\ \A j \in 1..(i - 1) : y[j] = v[j]
    BY <1>1, <2>1, SplitAt
  <2> HIDE DEF n, x, y
  <2>4. /\ z \in Seq(Entry) /\ Len(z) = n
        /\ \A j \in 1..n : z[j] = IF j <= Len(u) THEN u[j] ELSE y[j - Len(u)]
    <3>1. /\ z \in Seq(Entry) /\ Len(z) = Len(u) + Len(y)
          /\ \A j \in 1..(Len(u) + Len(y)) :
                z[j] = IF j <= Len(u) THEN u[j] ELSE y[j - Len(u)]
      BY <2>3, ConcatProperties
    <3> HIDE DEF z
    <3> QED BY <2>1, <2>3, <3>1
  <2> HIDE DEF z
  <2>5. ASSUME NEW j \in 1..n PROVE x[j] = z[j]
    <3>1. CASE j <= Len(u)
      <4>1. j \in 1..Len(u)
        BY <1>1, <3>1
      <4> QED BY <1>1, <2>2, <2>4, <3>1, <4>1
    <3>2. CASE j > Len(u)
      <4>1. /\ j - Len(u) \in 1..(i - 1) /\ j - Len(u) \in 1..Len(v)
            /\ j = Len(u) + (j - Len(u)) /\ ~(j <= Len(u))
        BY <1>1, <2>1, <3>2
      <4>2. y[j - Len(u)] = v[j - Len(u)]
        BY <2>3, <4>1
      <4>3. w[j] = v[j - Len(u)]
        BY <1>1, <4>1
      <4> QED BY <2>2, <2>4, <4>1, <4>2, <4>3
    <3> QED BY <1>1, <2>1, <3>1, <3>2
  <2>6. x = z
    BY <2>2, <2>4, <2>5, SeqEqual
  <2> QED BY <2>6 DEF n, x, y, z
<1> QED BY <1>2, <1>3 DEF w

\* What a commit of the c oldest leaves behind: the entries that remain overlay
\* the new committed map to the same map, read it in order, and share no
\* register with it; the registers released are held by nobody.
LEMMA RemainingReady ==
  ASSUME TypeOK, OrderInv, NEW c \in CommitCounts
  PROVE LET P   == Committing(c)
            R   == Remaining(c)
            new == Overlay(committedRat, P)
        IN  /\ new \in [Arch -> Pregs] /\ Overlay(new, R) = rat
            /\ \A i \in 1..Len(R) :
                  /\ Prefix(R, i - 1) \in Seq(Entry)
                  /\ Prefix(rob, c + i - 1) = P \o Prefix(R, i - 1)
                  /\ R[i].src = Overlay(new, Prefix(R, i - 1))[R[i].rs]
                  /\ R[i].wr => R[i].old = Overlay(new, Prefix(R, i - 1))[R[i].rd]
            /\ Unshared(new, R)
            /\ \A q \in Olds(P) \ Hardwired : q \notin Image(new) /\ q \notin Dests(R)
            /\ Image(new) \union Olds(P) = Image(committedRat) \union Dests(P)
            /\ Live = Hardwired \union Image(committedRat) \union Dests(P) \union Dests(R)
<1> DEFINE P == Committing(c)
           R == Remaining(c)
           cr == committedRat
           new == Overlay(cr, P)
<1>1. /\ P \in Seq(Entry) /\ R \in Seq(Entry) /\ Len(P) = c
      /\ c \in 0..Len(rob) /\ Len(R) = Len(rob) - c
      /\ rob = P \o R
      /\ \A i \in 1..(Len(rob) - c) : R[i] = rob[c + i]
      /\ OldsInOrder(cr, P) /\ Unshared(cr, P \o R)
  BY CommitReady
<1>2. /\ rob \in Seq(Entry) /\ DOMAIN rob = 1..Len(rob) /\ Len(rob) \in Nat
      /\ cr \in [Arch -> Pregs] /\ new \in [Arch -> Pregs]
  BY <1>1, OverlayType, LenProperties DEF TypeOK
<1> HIDE DEF P, R, cr, new
<1>3. Overlay(new, R) = rat
  <2>1. rat = Overlay(cr, rob)
    BY DEF OrderInv, MapIsProgramOrder, cr
  <2> QED BY <1>1, <2>1, OverlayConcat DEF new
<1>4. \A i \in 1..Len(R) : Prefix(rob, Len(P) + i - 1) = P \o Prefix(R, i - 1)
  BY <1>1, PrefixConcat
<1>5. ASSUME NEW i \in 1..Len(R)
      PROVE /\ Prefix(R, i - 1) \in Seq(Entry)
            /\ Prefix(rob, c + i - 1) = P \o Prefix(R, i - 1)
            /\ R[i].src = Overlay(new, Prefix(R, i - 1))[R[i].rs]
            /\ R[i].wr => R[i].old = Overlay(new, Prefix(R, i - 1))[R[i].rd]
  <2>1. c + i \in 1..Len(rob) /\ R[i] = rob[c + i] /\ i - 1 \in 0..Len(R)
    BY <1>1, <1>2
  <2>2. /\ rob[c + i].src = Overlay(cr, Prefix(rob, c + i - 1))[rob[c + i].rs]
        /\ rob[c + i].wr =>
              rob[c + i].old = Overlay(cr, Prefix(rob, c + i - 1))[rob[c + i].rd]
    <3> DEFINE k == c + i
    <3>1. k \in 1..Len(rob)
      BY <2>1
    <3> HIDE DEF k
    <3>2. /\ rob[k].src = Overlay(cr, Prefix(rob, k - 1))[rob[k].rs]
          /\ rob[k].wr => rob[k].old = Overlay(cr, Prefix(rob, k - 1))[rob[k].rd]
      BY <1>2, <3>1 DEF OrderInv, SourcesNameProducers, cr
    <3>3. c + i = k /\ c + i - 1 = k - 1
      BY <1>1, <1>2, CommitCountsBound DEF k
    <3> QED BY <3>2, <3>3
  <2>3. Prefix(R, i - 1) \in Seq(Entry)
    BY <1>1, <2>1, SplitAt
  <2>4. Prefix(rob, c + i - 1) = P \o Prefix(R, i - 1)
    BY <1>1, <1>4
  <2>5. Overlay(cr, Prefix(rob, c + i - 1)) = Overlay(new, Prefix(R, i - 1))
    <3>1. Overlay(cr, P \o Prefix(R, i - 1)) = Overlay(Overlay(cr, P), Prefix(R, i - 1))
      BY <1>1, <2>3, OverlayConcat
    <3> QED BY <2>4, <3>1 DEF new
  <2> QED BY <2>1, <2>2, <2>3, <2>4, <2>5
<1>6. /\ Unshared(new, R)
      /\ \A q \in Olds(P) \ Hardwired : q \notin Image(new) /\ q \notin Dests(R)
  BY <1>1, <1>2, CommitKeepsUnshared DEF new
<1>7. Image(new) \union Olds(P) = Image(cr) \union Dests(P)
  BY <1>1, <1>2, CommitKeepsAll DEF new
<1>8. Live = Hardwired \union Image(cr) \union Dests(P) \union Dests(R)
  <2>1. Dests(rob) = Dests(P) \union Dests(R)
    BY <1>1, DestsConcat
  <2> QED BY <2>1 DEF Live, cr
<1> QED BY <1>2, <1>3, <1>5, <1>6, <1>7, <1>8 DEF P, R, cr, new

\* An ordinary cycle keeps the registers accounted for.
LEMMA CycleKeepsRegisters ==
  ASSUME TypeOK, TypeOK', OrderInv,
         NEW c \in CommitCounts, NEW g \in Groups, Cycle(c, g)
  PROVE OrderInv' /\ (NoLostRegister => NoLostRegister')
<1>1. PICK ren \in Seq(Entry), U \in SUBSET freeBitmap :
          /\ TakesFresh(ren, U) /\ ReadsMap(ren)
          /\ Len(rob) - c + Len(ren) <= RobDepth
          /\ freeBitmap' = (freeBitmap \ U)
                               \union (Olds(Committing(c)) \ Hardwired)
          /\ committedMap' = Overlay(committedMap, Committing(c))
          /\ committedRat' = Overlay(committedRat, Committing(c))
          /\ rat' = Overlay(rat, ren)
          /\ rob' = Remaining(c) \o ren
  BY CycleStep
<1> DEFINE P == Committing(c)
           R == Remaining(c)
           cr == committedRat
           new == Overlay(cr, P)
<1>2. /\ P \in Seq(Entry) /\ R \in Seq(Entry) /\ Len(P) = c
      /\ c \in 0..Len(rob) /\ Len(R) = Len(rob) - c
      /\ rob = P \o R
      /\ \A i \in 1..(Len(rob) - c) : R[i] = rob[c + i]
      /\ OldsInOrder(cr, P) /\ Unshared(cr, P \o R)
  BY CommitReady
<1>3. /\ rob \in Seq(Entry) /\ DOMAIN rob = 1..Len(rob) /\ Len(rob) \in Nat
      /\ cr \in [Arch -> Pregs] /\ new \in [Arch -> Pregs]
      /\ rat \in [Arch -> Pregs]
      /\ freeBitmap \subseteq Pregs \ Hardwired
  BY <1>2, OverlayType, LenProperties DEF TypeOK
<1>4. /\ rat = Overlay(cr, rob) /\ committedMap = cr
      /\ committedRat' = new /\ committedMap' = new
      /\ rat' = Overlay(rat, ren) /\ rob' = R \o ren
  BY <1>1 DEF OrderInv, MapIsProgramOrder, CommittedMapsAgree
<1>5. /\ Overlay(new, R) = rat
      /\ \A i \in 1..Len(R) :
            /\ R[i].src = Overlay(new, Prefix(R, i - 1))[R[i].rs]
            /\ R[i].wr => R[i].old = Overlay(new, Prefix(R, i - 1))[R[i].rd]
      /\ Unshared(new, R)
      /\ \A q \in Olds(P) \ Hardwired : q \notin Image(new) /\ q \notin Dests(R)
      /\ Image(new) \union Olds(P) = Image(cr) \union Dests(P)
      /\ Live = Hardwired \union Image(cr) \union Dests(P) \union Dests(R)
  BY RemainingReady
<1> HIDE DEF P, R, cr, new
<1>6. /\ \A i \in 1..Len(R) : Prefix(rob', i - 1) = Prefix(R, i - 1)
      /\ \A i \in 1..Len(ren) : Prefix(rob', Len(R) + i - 1) = R \o Prefix(ren, i - 1)
      /\ \A i \in 1..Len(R) : Prefix(rob, Len(P) + i - 1) = P \o Prefix(R, i - 1)
  BY <1>2, <1>4, PrefixConcat
<1>7. /\ rob' \in Seq(Entry) /\ Len(rob') = Len(R) + Len(ren)
      /\ Len(R) \in Nat /\ Len(ren) \in Nat
      /\ \A i \in 1..Len(R) : rob'[i] = R[i]
      /\ \A i \in 1..Len(ren) : rob'[Len(R) + i] = ren[i]
      /\ \A i \in 1..Len(rob') : i \in 1..Len(R) \/ i - Len(R) \in 1..Len(ren)
      /\ \A i \in 1..Len(rob') : i \in Int
  <2>1. rob' = R \o ren /\ R \in Seq(Entry) /\ ren \in Seq(Entry)
    BY <1>2, <1>4
  <2> DEFINE w == R \o ren
  <2>2. /\ w \in Seq(Entry) /\ Len(w) = Len(R) + Len(ren)
        /\ Len(R) \in Nat /\ Len(ren) \in Nat
        /\ \A i \in 1..Len(R) : w[i] = R[i]
        /\ \A i \in 1..Len(ren) : w[Len(R) + i] = ren[i]
        /\ \A i \in 1..Len(w) : i \in 1..Len(R) \/ i - Len(R) \in 1..Len(ren)
        /\ \A i \in 1..Len(w) : i \in Int
    BY <2>1, ConcatShape
  <2> HIDE DEF w
  <2>3. rob' = w
    BY <2>1 DEF w
  <2> QED BY <2>2, <2>3
<1>8. MapIsProgramOrder' /\ CommittedMapsAgree'
  <2>1. rat' = Overlay(new, rob')
    BY <1>2, <1>4, <1>5, OverlayConcat
  <2> QED BY <1>4, <2>1 DEF MapIsProgramOrder, CommittedMapsAgree
<1>9. \A i \in 1..Len(R) :
         /\ R[i].src = Overlay(new, Prefix(R, i - 1))[R[i].rs]
         /\ R[i].wr => R[i].old = Overlay(new, Prefix(R, i - 1))[R[i].rd]
  BY <1>5
<1>10. ASSUME NEW i \in 1..Len(ren)
       PROVE Overlay(new, Prefix(rob', Len(R) + i - 1)) = Overlay(rat, Prefix(ren, i - 1))
  <2>1. i - 1 \in 0..Len(ren)
    BY <1>7
  <2>2. Prefix(ren, i - 1) \in Seq(Entry)
    BY <1>1, <2>1, SplitAt
  <2>3. Overlay(new, R \o Prefix(ren, i - 1))
          = Overlay(Overlay(new, R), Prefix(ren, i - 1))
    BY <1>2, <2>2, OverlayConcat
  <2> QED BY <1>5, <1>6, <2>3
<1>11. SourcesNameProducers'
  <2>1. SUFFICES ASSUME NEW i \in 1..Len(rob')
                 PROVE /\ rob'[i].src = Overlay(new, Prefix(rob', i - 1))[rob'[i].rs]
                       /\ rob'[i].wr =>
                            rob'[i].old = Overlay(new, Prefix(rob', i - 1))[rob'[i].rd]
    <3>1. DOMAIN rob' = 1..Len(rob')
      BY <1>7, LenProperties
    <3> QED BY <1>4, <3>1, Zenon DEF SourcesNameProducers
  <2>2. CASE i \in 1..Len(R)
    BY <1>6, <1>7, <1>9, <2>2
  <2>3. CASE i - Len(R) \in 1..Len(ren)
    <3> DEFINE k == i - Len(R)
    <3>1. k \in 1..Len(ren) /\ i = Len(R) + k /\ i - 1 = Len(R) + k - 1
      BY <1>7, <2>3
    <3> HIDE DEF k
    <3>2. Overlay(new, Prefix(rob', i - 1)) = Overlay(rat, Prefix(ren, k - 1))
      BY <1>10, <3>1
    <3>3. rob'[i] = ren[k]
      BY <1>7, <3>1
    <3>4. /\ ren[k].src = Overlay(rat, Prefix(ren, k - 1))[ren[k].rs]
          /\ ren[k].wr => ren[k].old = Overlay(rat, Prefix(ren, k - 1))[ren[k].rd]
      BY <1>1, <3>1 DEF ReadsMap
    <3> QED BY <3>2, <3>3, <3>4
  <2> QED BY <1>7, <2>2, <2>3
<1>12. /\ Unshared(new, R)
       /\ \A q \in Olds(P) \ Hardwired : q \notin Image(new) /\ q \notin Dests(R)
  BY <1>5
<1>13. Image(new) \union Olds(P) = Image(cr) \union Dests(P)
  BY <1>5
<1>14. /\ Live = Hardwired \union Image(cr) \union Dests(P) \union Dests(R)
       /\ Live' = Hardwired \union Image(new) \union Dests(R) \union Dests(ren)
  <2>1. Dests(rob') = Dests(R) \union Dests(ren)
    BY <1>1, <1>2, <1>4, DestsConcat
  <2>2. Live' = Hardwired \union Image(new) \union Dests(rob')
    BY <1>4 DEF Live
  <2> QED BY <1>5, <2>1, <2>2
<1>15. /\ U \subseteq freeBitmap
       /\ U \subseteq Dests(ren) /\ Dests(ren) \subseteq U \union Hardwired
  BY <1>1, OldsAndDests DEF TakesFresh
<1>16. freeBitmap \cap Live = {}
  BY DEF OrderInv, NoDoubleAllocation
<1>17. freeBitmap' = (freeBitmap \ U) \union (Olds(P) \ Hardwired)
  BY <1>1 DEF P
<1>18. freeBitmap' \cap Live' = {}
  <2>1. ASSUME NEW q \in freeBitmap \ U PROVE q \notin Live'
    BY <1>13, <1>14, <1>15, <1>16
  <2>2. ASSUME NEW q \in Olds(P) \ Hardwired PROVE q \notin Live'
    <3>1. q \in Live
      BY <1>13, <1>14
    <3>2. q \notin Dests(ren)
      BY <1>15, <1>16, <3>1
    <3> QED BY <1>12, <1>14, <3>2
  <2> QED BY <1>17, <2>1, <2>2
<1>19. ASSUME NoLostRegister PROVE NoLostRegister'
  <2>0. SUFFICES Pregs \ Live' \subseteq freeBitmap'
    BY DEF NoLostRegister
  <2>1. SUFFICES ASSUME NEW q \in Pregs \ Live' PROVE q \in freeBitmap'
    OBVIOUS
  <2>2. q \notin Hardwired /\ q \notin Image(new) /\ q \notin Dests(R) /\ q \notin U
    BY <1>14, <1>15
  <2>3. CASE q \in Live
    <3>1. q \in Olds(P)
      BY <1>13, <1>14, <2>2, <2>3
    <3> QED BY <1>17, <2>2, <3>1
  <2>4. CASE q \notin Live
    BY <1>17, <1>19, <2>2, <2>4 DEF NoLostRegister
  <2> QED BY <2>3, <2>4
<1>20. Unshared(new, rob')
  <2>1. ASSUME NEW i \in 1..Len(ren), ren[i].wr, ren[i].pdst \notin Hardwired
        PROVE /\ ren[i].pdst \notin Image(new)
              /\ \A j \in 1..Len(R) : R[j].wr => R[j].pdst # ren[i].pdst
    <3>1. ren[i].pdst \in freeBitmap
      BY <1>1, <2>1 DEF TakesFresh
    <3>2. ren[i].pdst \notin Live
      BY <1>16, <3>1
    <3>3. ren[i].pdst \notin Image(new) /\ ren[i].pdst \notin Dests(R)
      BY <1>13, <1>14, <3>2
    <3> QED BY <1>2, <3>3, OldsAndDests
  <2>2. \A i \in 1..Len(rob') : rob'[i].wr /\ rob'[i].pdst \notin Hardwired
                                   => rob'[i].pdst \notin Image(new)
    <3>1. SUFFICES ASSUME NEW i \in 1..Len(rob'), rob'[i].wr,
                          rob'[i].pdst \notin Hardwired
                   PROVE rob'[i].pdst \notin Image(new)
      OBVIOUS
    <3>2. CASE i \in 1..Len(R)
      BY <1>7, <1>12, <3>1, <3>2 DEF Unshared
    <3>3. CASE i - Len(R) \in 1..Len(ren)
      <4>1. i = Len(R) + (i - Len(R))
        BY <1>7
      <4>2. rob'[i] = ren[i - Len(R)]
        BY <1>7, <3>3, <4>1
      <4> QED BY <2>1, <3>1, <3>3, <4>2
    <3> QED BY <1>7, <3>2, <3>3
  <2>3. ASSUME NEW i \in 1..Len(rob'), NEW j \in 1..Len(rob'), i # j,
               rob'[i].wr, rob'[j].wr, rob'[i].pdst \notin Hardwired
        PROVE rob'[i].pdst # rob'[j].pdst
    <3>1. ASSUME NEW k \in 1..Len(rob'), k - Len(R) \in 1..Len(ren)
          PROVE rob'[k] = ren[k - Len(R)]
      <4>1. k = Len(R) + (k - Len(R))
        BY <1>7
      <4> QED BY <1>7, <3>1, <4>1
    <3>2. CASE i \in 1..Len(R) /\ j \in 1..Len(R)
      BY <1>7, <1>12, <2>3, <3>2 DEF Unshared
    <3>3. CASE i - Len(R) \in 1..Len(ren) /\ j \in 1..Len(R)
      <4>1. rob'[i] = ren[i - Len(R)] /\ rob'[j] = R[j]
        BY <1>7, <3>1, <3>3
      <4> QED BY <2>1, <2>3, <3>3, <4>1
    <3>4. CASE i \in 1..Len(R) /\ j - Len(R) \in 1..Len(ren)
      <4>1. rob'[i] = R[i] /\ rob'[j] = ren[j - Len(R)]
        BY <1>7, <3>1, <3>4
      <4>2. CASE ren[j - Len(R)].pdst \in Hardwired
        BY <2>3, <4>1, <4>2
      <4>3. CASE ren[j - Len(R)].pdst \notin Hardwired
        BY <2>1, <2>3, <3>4, <4>1, <4>3
      <4> QED BY <4>2, <4>3
    <3>5. CASE i - Len(R) \in 1..Len(ren) /\ j - Len(R) \in 1..Len(ren)
      <4>1. rob'[i] = ren[i - Len(R)] /\ rob'[j] = ren[j - Len(R)]
        BY <3>1, <3>5
      <4>2. i - Len(R) # j - Len(R)
        BY <1>7, <2>3
      <4>3. \A k, l \in 1..Len(ren) :
               k # l /\ ren[k].wr /\ ren[l].wr /\ ren[k].pdst \notin Hardwired
                  => ren[k].pdst # ren[l].pdst
        BY <1>1 DEF TakesFresh
      <4> QED BY <2>3, <3>5, <4>1, <4>2, <4>3
    <3> QED BY <1>7, <3>2, <3>3, <3>4, <3>5
  <2>4. \A a, b \in Arch : a # b /\ new[a] \notin Hardwired => new[a] # new[b]
    BY <1>12 DEF Unshared
  <2> QED BY <2>2, <2>3, <2>4 DEF Unshared
<1>21. NoDoubleAllocation'
  <2>1. DOMAIN rob' = 1..Len(rob')
    BY <1>7, LenProperties
  <2> QED BY <1>4, <1>18, <1>20, <2>1 DEF NoDoubleAllocation, Unshared
<1> QED BY <1>8, <1>11, <1>19, <1>21 DEF OrderInv

\* A full flush keeps them too: the free list becomes the complement of the
\* committed map, the commits of the same cycle included.
LEMMA FlushKeepsRegisters ==
  ASSUME TypeOK, OrderInv, NEW c \in CommitCounts, Flush(c)
  PROVE RegisterInv'
<1> DEFINE P == Committing(c)
           R == Remaining(c)
           new == Overlay(committedRat, P)
<1>1. /\ P \in Seq(Entry) /\ R \in Seq(Entry)
      /\ OldsInOrder(committedRat, P) /\ Unshared(committedRat, P \o R)
  BY CommitReady
<1>2. committedRat \in [Arch -> Pregs] /\ committedMap = committedRat
  BY DEF TypeOK, OrderInv, CommittedMapsAgree
<1>3. FLFlush(P) /\ RatFlush(P) /\ rob' = <<>>
  BY DEF Flush, Committing
<1> HIDE DEF P, R, new
<1>4. /\ rat' = new /\ committedRat' = new /\ committedMap' = new
      /\ freeBitmap' = Pregs \ (Hardwired \union Image(new))
  BY <1>2, <1>3 DEF FLFlush, RatFlush, CommittedBitmapNext, CommittedBitmap, new
<1>5. new \in [Arch -> Pregs]
  BY <1>1, <1>2, OverlayType DEF new
<1>6. \A a, b \in Arch : a # b /\ new[a] \notin Hardwired => new[a] # new[b]
  BY <1>1, <1>2, CommitKeepsUnshared DEF Unshared, new
<1>7. DOMAIN rob' = {} /\ Dests(rob') = {}
  <2>1. DOMAIN rob' = {}
    BY <1>3
  <2> QED BY <2>1 DEF Dests
<1>8. Live' = Hardwired \union Image(new)
  BY <1>4, <1>7 DEF Live
<1>9. MapIsProgramOrder' /\ CommittedMapsAgree'
  <2>1. rat' = Overlay(new, rob')
    BY <1>3, <1>4, <1>5, OverlayEmpty
  <2> QED BY <1>4, <2>1 DEF MapIsProgramOrder, CommittedMapsAgree
<1>10. SourcesNameProducers'
  BY <1>7 DEF SourcesNameProducers
<1>11. NoDoubleAllocation'
  BY <1>4, <1>6, <1>7, <1>8 DEF NoDoubleAllocation
<1>12. NoLostRegister'
  BY <1>4, <1>8 DEF NoLostRegister
<1> QED BY <1>9, <1>10, <1>11, <1>12 DEF RegisterInv, OrderInv

\* At reset the maps are the identity, and the list holds every other register.
LEMMA RegistersAtReset == Init => RegisterInv
<1> SUFFICES ASSUME Init PROVE RegisterInv
  OBVIOUS
<1> DEFINE id == [a \in Arch |-> a]
<1>1. /\ rob = <<>> /\ rat = id /\ committedRat = id /\ committedMap = id
      /\ freeBitmap = InitBitmap
  BY DEF Init, FLInit, RatInit
<1>2. id \in [Arch -> Pregs] /\ \A a \in Arch : id[a] = a
  BY RegMapAssumption DEF Arch, Pregs
<1>3. Image(id) = Arch
  BY <1>2 DEF Image
<1> HIDE DEF id
<1>4. DOMAIN rob = {} /\ Dests(rob) = {}
  <2>1. DOMAIN rob = {}
    BY <1>1
  <2> QED BY <2>1 DEF Dests
<1>5. Live = Arch
  <2>1. Hardwired \subseteq Arch
    BY RegMapAssumption DEF Hardwired, Arch
  <2> QED BY <1>1, <1>3, <1>4, <2>1 DEF Live
<1>6. freeBitmap \cap Arch = {} /\ Pregs \ Arch \subseteq freeBitmap
  BY <1>1, RegMapAssumption DEF InitBitmap, Arch, Pregs
<1>7. rat = Overlay(committedRat, rob)
  BY <1>1, <1>2, OverlayEmpty
<1> QED BY <1>1, <1>2, <1>4, <1>5, <1>6, <1>7
        DEF RegisterInv, OrderInv, MapIsProgramOrder, CommittedMapsAgree,
            SourcesNameProducers, NoDoubleAllocation, NoLostRegister

\* Every step of the clock keeps the register invariant: an ordinary cycle
\* (rename and commit together), a full flush, and, recoveries being off, no
\* partial one.
LEMMA RegisterInvInductive ==
  ASSUME MaxRecoveries = 0
  PROVE Spec => []RegisterInv
<1>1. Init => RegisterInv
  BY RegistersAtReset
<1>2. TypeOK /\ TypeOK' /\ RegisterInv /\ [Next]_vars => RegisterInv'
  <2> SUFFICES ASSUME TypeOK, TypeOK', RegisterInv, [Next]_vars
               PROVE RegisterInv'
    OBVIOUS
  <2>1. ASSUME NEW c \in CommitCounts, NEW g \in Groups, Cycle(c, g)
        PROVE RegisterInv'
    BY <2>1, CycleKeepsRegisters DEF RegisterInv
  <2>2. ASSUME NEW c \in CommitCounts, Flush(c) PROVE RegisterInv'
    BY <2>2, FlushKeepsRegisters DEF RegisterInv
  <2>3. ASSUME NEW c \in CommitCounts, NEW k \in DOMAIN rob, Recover(c, k)
        PROVE FALSE
    BY <2>3 DEF Recover, TypeOK
  <2>4. CASE UNCHANGED vars
    BY <2>4 DEF vars, flVars, ratVars, RegisterInv, OrderInv, MapIsProgramOrder,
                CommittedMapsAgree, SourcesNameProducers, NoDoubleAllocation,
                NoLostRegister, Live
  <2> QED BY <2>1, <2>2, <2>3, <2>4 DEF Next
<1> QED BY <1>1, <1>2, TypeCorrect, PTL DEF Spec

\* Without partial recovery, every register nobody holds is on the free list:
\* none leaks, however renaming, commits and flushes interleave.
THEOREM NeverLost ==
  ASSUME MaxRecoveries = 0
  PROVE Spec => []NoLostRegister
<1>1. RegisterInv => NoLostRegister
  BY DEF RegisterInv, OrderInv
<1> QED BY <1>1, RegisterInvInductive, PTL

-----------------------------------------------------------------------------
(***************************************************************************)
(* Theorems about the checkpoints of the renaming loop: who owns a slot,   *)
(* and what the image in it is.                                            *)
(***************************************************************************)

\* The slots that the entries of a sequence will give back.
LEMMA ReleasedBy ==
  ASSUME NEW w \in Seq(Entry)
  PROVE \A s : s \in Released(w) <=> \E i \in 1..Len(w) : w[i].chk /\ w[i].cid = s
<1>1. DOMAIN w = 1..Len(w)
  BY LenProperties
<1> QED BY <1>1 DEF Released

\* A group with at most one branch has it at the slot that rename picks.
LEMMA OneBranch ==
  ASSUME NEW g \in Groups, Cardinality(Branches(g)) <= 1, Branches(g) # {}
  PROVE /\ Latest(Branches(g)) \in 1..Len(g)
        /\ \A i \in 1..Len(g) : g[i].br <=> i = Latest(Branches(g))
<1> DEFINE B == Branches(g)
<1>1. Len(g) \in Nat /\ DOMAIN g = 1..Len(g) /\ B \in SUBSET (1..Len(g))
  BY GroupShape DEF Branches
<1>2. IsFiniteSet(B) /\ Cardinality(B) \in Nat
  <2>1. IsFiniteSet(1..Len(g))
    BY <1>1, FS_Interval
  <2> HIDE DEF B
  <2> QED BY <1>1, <2>1, FS_Subset, FS_CardinalityType
<1>3. Cardinality(B) # 0
  BY <1>2, FS_EmptySet
<1>4. Cardinality(B) = 1
  BY <1>2, <1>3
<1>5. \E x : B = {x}
  BY <1>2, <1>4, FS_Singleton
<1>6. \A i \in 1..Len(g) : g[i].br <=> i \in B
  BY <1>1 DEF Branches
<1>7. Latest(B) \in B
  <2> HIDE DEF B
  <2> QED BY <1>1, <1>5, LatestIsLast
<1> HIDE DEF B
<1>8. Latest(B) \in 1..Len(g) /\ \A i \in 1..Len(g) : g[i].br <=> i = Latest(B)
  BY <1>1, <1>5, <1>6, <1>7
<1> QED BY <1>8 DEF B

(***************************************************************************)
(* What an ordinary cycle does to the slots: the committing branches give  *)
(* theirs back, the branch of the group, entry b of ren, takes slot id, if *)
(* there is one (save is {id} then), with the map before it as its image;  *)
(* taken are the registers that the entries before it take from the list.  *)
(***************************************************************************)
SavesFor(ren, P, save, id, b, taken) ==
    /\ ren \in Seq(Entry)
    /\ save = {} \/ (save = {id} /\ b \in 1..Len(ren))
    /\ save \cap (occupied \ Released(P)) = {}
    /\ \A i \in 1..Len(ren) :
          ren[i].chk <=> save # {} /\ i = b
    /\ \A i \in 1..Len(ren) : ren[i].chk => ren[i].cid = id
    /\ occupied' = (occupied \ Released(P)) \union save
    /\ ckptTable' = [s \in Slots |->
            IF s \in save THEN Overlay(rat, Prefix(ren, b - 1)) ELSE ckptTable[s]]
    /\ committedRat' = Overlay(committedRat, P)
    /\ slotSeq' = [s \in Slots |-> IF s \in save THEN nextSeq ELSE slotSeq[s]]
    /\ nextSeq' = IF save = {} THEN nextSeq ELSE (nextSeq + 1) % SeqModulus
    /\ ckptBitmap' = [s \in Slots |->
            IF s \in save THEN CkptSaveBitmap(taken, P) ELSE ckptBitmap[s]]
    /\ ckptCommitted' = [s \in Slots |->
            IF s \in save THEN CommittedBitmapNext(P) ELSE ckptCommitted[s]]
    /\ Dests(ren) \subseteq freeBitmap \union Hardwired
    /\ \A i \in 1..Len(ren) :
          i < b /\ ren[i].wr => ren[i].pdst \in taken \union Hardwired

\* Every ordinary cycle does that.
LEMMA CycleSaves ==
  ASSUME TypeOK, NEW c \in CommitCounts, NEW g \in Groups, Cycle(c, g)
  PROVE \E ren \in Seq(Entry), save \in SUBSET Slots, id \in Slots, b \in Nat,
          taken \in SUBSET Pregs :
           /\ SavesFor(ren, Committing(c), save, id, b, taken)
           /\ rob' = Remaining(c) \o ren
<1> DEFINE P == Prefix(rob, c)
           rel == Released(P)
           save == IF Branches(g) = {} THEN {} ELSE {SaveId(rel)}
           id == IF save = {} THEN 0 ELSE SaveId(rel)
           b == IF save = {} THEN 1 ELSE Latest(Branches(g))
           used(f, n) == {f[k] : k \in 1..NeedCount(g, n)}
<1>1. CanRename(g, P)
  BY DEF Cycle
<1>2. PICK found \in LowestFirst(freeBitmap, NeedCount(g, Len(g))) :
         LET ren == RenamedGroup(g, found, id)
         IN  /\ FLCycle(used(found, Len(g)), P, save, used(found, b - 1))
             /\ RatCycle(ren, P, save, b)
             /\ CkptCycle(rel, save)
             /\ rob' = SubSeq(rob, c + 1, Len(rob)) \o ren
  BY DEF Cycle
<1>3. /\ 0 \in Slots
      /\ Branches(g) # {} => /\ SaveId(rel) \in Slots
                             /\ SaveId(rel) \in FreeSlots(rel)
  BY <1>1, SaveIdIsFree, RegMapAssumption DEF CanRename, Slots
<1>4. /\ save \in SUBSET Slots /\ id \in Slots
      /\ save # {} <=> Branches(g) # {}
      /\ save = {} \/ save = {id}
      /\ save \cap (occupied \ rel) = {}
  <2> HIDE DEF rel
  <2> QED BY <1>3 DEF FreeSlots
<1>5. /\ Len(g) \in Nat /\ DOMAIN g = 1..Len(g)
      /\ b \in Nat
      /\ save # {} => b \in 1..Len(g)
      /\ \A i \in 1..Len(g) : g[i].br <=> save # {} /\ i = b
  <2>1. CASE Branches(g) = {}
    <3>1. save = {} /\ b = 1
      BY <2>1
    <3>2. \A i \in 1..Len(g) : ~g[i].br
      BY <2>1, GroupShape DEF Branches
    <3> HIDE DEF save, b
    <3> QED BY <3>1, <3>2, GroupShape
  <2>2. CASE Branches(g) # {}
    <3>1. save # {} /\ b = Latest(Branches(g))
      BY <2>2
    <3>2. Cardinality(Branches(g)) <= 1
      BY <1>1 DEF CanRename
    <3> HIDE DEF save, b
    <3> QED BY <2>2, <3>1, <3>2, OneBranch, GroupShape
  <2> QED BY <2>1, <2>2
<1> DEFINE w == WithDests(g, found, id)
           ren == RenamedGroup(g, found, id)
<1>6. ShapeOf(g, found, id, w, ren)
  <2>1. found \in [1..NeedCount(g, Len(g)) -> freeBitmap]
    BY DEF LowestFirst
  <2>2. freeBitmap \in SUBSET Pregs /\ rat \in [Arch -> Pregs]
    BY DEF TypeOK
  <2> HIDE DEF id
  <2> QED BY <1>4, <2>1, <2>2, RenamedShape
<1> DEFINE taken == used(found, b - 1)
<1>7. /\ RatCycle(ren, P, save, b) /\ CkptCycle(rel, save)
      /\ FLCycle(used(found, Len(g)), P, save, taken)
      /\ rob' = SubSeq(rob, c + 1, Len(rob)) \o ren
  BY <1>2
<1>8. Dests(ren) \subseteq freeBitmap \union Hardwired
  <2>1. TakesFresh(ren, used(found, Len(g)))
    <3> HIDE DEF id
    <3> QED BY <1>4, RenamedTakesFresh
  <2> HIDE DEF ren
  <2> QED BY <2>1, OldsAndDests DEF TakesFresh
<1>9. ASSUME NEW i \in 1..Len(g), i < b, ren[i].wr
       PROVE ren[i].pdst \in taken \union Hardwired
  <2>1. /\ ren[i].wr = Writes(g[i])
        /\ ren[i].pdst = IF NeedsPreg(g[i]) THEN found[NeedCount(g, i)] ELSE 0
    <3> HIDE DEF w, ren, id
    <3> QED BY <1>6 DEF ShapeOf
  <2>2. CASE NeedsPreg(g[i])
    <3>1. b - 1 \in Nat /\ i \in 1..(b - 1)
      <4> HIDE DEF b
      <4> QED BY <1>5, <1>9
    <3>2. NeedCount(g, i) \in 1..NeedCount(g, b - 1)
      <4> HIDE DEF b
      <4> QED BY <2>2, <3>1, GrantsDistinct
    <3> QED BY <2>1, <2>2, <3>2
  <2>3. CASE ~NeedsPreg(g[i])
    <3>1. g[i].zero /\ g[i] \in Insns
      BY <1>9, <2>1, <2>3, GroupShape, ElementOfSeq DEF NeedsPreg
    <3>2. ProtectZero
      BY <3>1, RenameAssumption
    <3> QED BY <2>1, <2>3, <3>2 DEF Hardwired
  <2> QED BY <2>2, <2>3
<1>10. taken \subseteq Pregs
  <2>1. save = {} => b = 1
    OBVIOUS
  <2>2. \A k \in 1..NeedCount(g, Len(g)) : found[k] \in Pregs
    BY DEF LowestFirst, TypeOK
  <2>3. NeedCount(g, b - 1) <= NeedCount(g, Len(g)) /\ NeedCount(g, b - 1) \in Nat
        /\ NeedCount(g, Len(g)) \in Nat
    <3>1. b - 1 \in Nat /\ Len(g) \in Nat /\ b - 1 <= Len(g)
      <4> HIDE DEF b, save
      <4> QED BY <1>5, <2>1
    <3> HIDE DEF b
    <3> QED BY <3>1, NeedCountSteps
  <2> HIDE DEF b
  <2> QED BY <2>2, <2>3
<1> HIDE DEF w, ren, id, b, save, taken
<1>11. /\ ren \in Seq(Entry) /\ Len(ren) = Len(g)
      /\ \A i \in 1..Len(g) : ren[i].chk = g[i].br /\ (ren[i].chk => ren[i].cid = id)
  BY <1>6 DEF ShapeOf
<1>12. P = Committing(c) /\ rob' = Remaining(c) \o ren
  BY <1>7 DEF Committing, Remaining
<1> HIDE DEF P
<1>13. SavesFor(ren, P, save, id, b, taken)
  <2>1. /\ occupied' = (occupied \ rel) \union save
        /\ slotSeq' = [s \in Slots |-> IF s \in save THEN nextSeq ELSE slotSeq[s]]
        /\ nextSeq' = IF save = {} THEN nextSeq ELSE (nextSeq + 1) % SeqModulus
    BY <1>7 DEF CkptCycle
  <2>2. /\ committedRat' = Overlay(committedRat, P)
        /\ ckptTable' = [s \in Slots |->
            IF s \in save THEN Overlay(rat, Prefix(ren, b - 1)) ELSE ckptTable[s]]
    BY <1>7 DEF RatCycle
  <2>3. \A i \in 1..Len(ren) : ren[i].chk <=> save # {} /\ i = b
    BY <1>5, <1>11
  <2>4. /\ ckptBitmap' = [s \in Slots |->
              IF s \in save THEN CkptSaveBitmap(taken, P) ELSE ckptBitmap[s]]
        /\ ckptCommitted' = [s \in Slots |->
              IF s \in save THEN CommittedBitmapNext(P) ELSE ckptCommitted[s]]
    BY <1>7 DEF FLCycle
  <2> QED BY <1>4, <1>5, <1>11, <1>8, <1>9, <2>1, <2>2, <2>3, <2>4 DEF SavesFor
<1> QED BY <1>4, <1>5, <1>11, <1>12, <1>13, <1>10

\* The three parts need one another: that a save leaves an image alone needs
\* that its slot has no owner, that a release empties the slot of nobody else
\* needs that owners are distinct.
CheckpointInv == CheckpointsOwned /\ NoLostCheckpoint /\ CheckpointImages

\* The buffer after an ordinary cycle: R is what the commit leaves, ren what
\* enters; an entry with a checkpoint is one of R, which keeps its slot, or the
\* branch that the cycle saved for.
EntriesAfter(c, ren, P, R, save, id, b) ==
    /\ P \in Seq(Entry) /\ R \in Seq(Entry) /\ Len(P) = c
    /\ c \in 0..Len(rob) /\ Len(R) = Len(rob) - c /\ Len(rob) \in Nat
    /\ rob = P \o R /\ rob \in Seq(Entry) /\ DOMAIN rob = 1..Len(rob)
    /\ \A i \in 1..c : P[i] = rob[i]
    /\ \A i \in 1..Len(R) : R[i] = rob[c + i]
    /\ rob' = R \o ren /\ rob' \in Seq(Entry) /\ DOMAIN rob' = 1..Len(rob')
    /\ Len(rob') = Len(R) + Len(ren) /\ Len(R) \in Nat /\ Len(ren) \in Nat
    /\ \A i \in 1..Len(R) : rob'[i] = R[i]
    /\ \A i \in 1..Len(ren) : rob'[Len(R) + i] = ren[i]
    /\ \A i \in 1..Len(R) : R[i].chk =>
          /\ R[i].cid \in occupied \ Released(P) /\ R[i].cid \notin save
          /\ R[i].cid \in Slots
          /\ \A j \in 1..Len(R) : i # j /\ R[j].chk => R[i].cid # R[j].cid
    /\ \A i \in 1..Len(rob') : rob'[i].chk =>
          \/ i \in 1..Len(R) /\ rob'[i] = R[i] /\ R[i].chk
          \/ i = Len(R) + b /\ save = {id} /\ b \in 1..Len(ren)
                /\ rob'[i] = ren[b] /\ ren[b].cid = id

\* That is the buffer after every ordinary cycle.
LEMMA CycleEntries ==
  ASSUME TypeOK, CheckpointsOwned, NEW c \in CommitCounts, NEW g \in Groups, Cycle(c, g)
  PROVE \E ren \in Seq(Entry), save \in SUBSET Slots, id \in Slots, b \in Nat,
          taken \in SUBSET Pregs :
           /\ SavesFor(ren, Committing(c), save, id, b, taken)
           /\ EntriesAfter(c, ren, Committing(c), Remaining(c), save, id, b)
<1>1. PICK ren \in Seq(Entry), save \in SUBSET Slots, id \in Slots, b \in Nat,
           taken \in SUBSET Pregs :
         /\ SavesFor(ren, Committing(c), save, id, b, taken)
         /\ rob' = Remaining(c) \o ren
  BY CycleSaves
<1> DEFINE P == Committing(c)
           R == Remaining(c)
<1>2. /\ P \in Seq(Entry) /\ R \in Seq(Entry) /\ Len(P) = c
      /\ c \in 0..Len(rob) /\ Len(R) = Len(rob) - c /\ Len(rob) \in Nat
      /\ rob = P \o R /\ rob \in Seq(Entry)
      /\ \A i \in 1..c : P[i] = rob[i]
      /\ \A i \in 1..Len(R) : R[i] = rob[c + i]
      /\ DOMAIN rob = 1..Len(rob)
  <2>1. rob \in Seq(Entry) /\ Len(rob) \in Nat /\ DOMAIN rob = 1..Len(rob)
    BY LenProperties DEF TypeOK
  <2>2. c \in 0..Len(rob)
    BY <2>1, CommitCountsBound
  <2>3. /\ P \in Seq(Entry) /\ R \in Seq(Entry) /\ Len(P) = c
        /\ Len(R) = Len(rob) - c /\ rob = P \o R
        /\ \A i \in 1..c : P[i] = rob[i]
        /\ \A i \in 1..(Len(rob) - c) : R[i] = rob[c + i]
    BY <2>1, <2>2, SplitAt DEF Committing, Remaining
  <2> HIDE DEF P, R
  <2> QED BY <2>1, <2>2, <2>3
<1> HIDE DEF P, R
<1>3. /\ rob' \in Seq(Entry) /\ Len(rob') = Len(R) + Len(ren)
      /\ Len(R) \in Nat /\ Len(ren) \in Nat
      /\ \A i \in 1..Len(R) : rob'[i] = R[i]
      /\ \A i \in 1..Len(ren) : rob'[Len(R) + i] = ren[i]
      /\ \A i \in 1..Len(rob') : i \in 1..Len(R) \/ i - Len(R) \in 1..Len(ren)
      /\ DOMAIN rob' = 1..Len(rob')
  <2> DEFINE v == R \o ren
  <2>1. R \in Seq(Entry) /\ ren \in Seq(Entry)
    BY <1>2
  <2>2. /\ v \in Seq(Entry) /\ Len(v) = Len(R) + Len(ren)
        /\ Len(R) \in Nat /\ Len(ren) \in Nat
        /\ \A i \in 1..Len(R) : v[i] = R[i]
        /\ \A i \in 1..Len(ren) : v[Len(R) + i] = ren[i]
        /\ \A i \in 1..Len(v) : i \in 1..Len(R) \/ i - Len(R) \in 1..Len(ren)
    BY <2>1, ConcatShape
  <2>3. rob' = v
    BY <1>1 DEF R
  <2> HIDE DEF v
  <2>4. DOMAIN v = 1..Len(v)
    BY <2>2, LenProperties
  <2> QED BY <2>2, <2>3, <2>4
<1>4. /\ save = {} \/ (save = {id} /\ b \in 1..Len(ren))
      /\ save \cap (occupied \ Released(P)) = {}
      /\ \A i \in 1..Len(ren) : ren[i].chk <=> save # {} /\ i = b
      /\ \A i \in 1..Len(ren) : ren[i].chk => ren[i].cid = id
  BY <1>1 DEF SavesFor, P
\* An entry that stays keeps its slot: occupied, not released, not saved to.
<1>5. \A i, j \in 1..Len(rob) : i # j /\ rob[i].chk /\ rob[j].chk
                                     => rob[i].cid # rob[j].cid
  BY <1>2 DEF CheckpointsOwned
<1>6. ASSUME NEW i \in 1..Len(R), R[i].chk
      PROVE /\ R[i].cid \in occupied \ Released(P) /\ R[i].cid \notin save
            /\ R[i].cid \in Slots
            /\ \A j \in 1..Len(R) : i # j /\ R[j].chk => R[i].cid # R[j].cid
  <2>1. c + i \in 1..Len(rob) /\ R[i] = rob[c + i]
    BY <1>2
  <2>2. R[i].cid \in occupied
    BY <1>2, <1>6, <2>1 DEF CheckpointsOwned
  <2>3. ASSUME NEW j \in 1..Len(P), P[j].chk PROVE P[j].cid # R[i].cid
    <3>1. j \in 1..Len(rob) /\ P[j] = rob[j] /\ j # c + i
      BY <1>2, <2>1
    <3> QED BY <1>5, <1>6, <2>1, <2>3, <3>1
  <2>4. R[i].cid \notin Released(P)
    <3>1. \A s : s \in Released(P) <=> \E j \in 1..Len(P) : P[j].chk /\ P[j].cid = s
      BY <1>2, ReleasedBy
    <3> QED BY <2>3, <3>1
  <2>5. ASSUME NEW j \in 1..Len(R), i # j, R[j].chk PROVE R[i].cid # R[j].cid
    <3>1. c + j \in 1..Len(rob) /\ R[j] = rob[c + j] /\ c + i # c + j
      BY <1>2, <2>5
    <3> QED BY <1>5, <1>6, <2>1, <2>5, <3>1
  <2>6. occupied \subseteq Slots
    BY DEF TypeOK
  <2> QED BY <1>4, <2>2, <2>4, <2>5, <2>6
<1>7. ASSUME NEW i \in 1..Len(rob'), rob'[i].chk
      PROVE \/ i \in 1..Len(R) /\ rob'[i] = R[i] /\ R[i].chk
            \/ i = Len(R) + b /\ save = {id} /\ b \in 1..Len(ren)
                 /\ rob'[i] = ren[b] /\ ren[b].cid = id
  <2>1. CASE i \in 1..Len(R)
    BY <1>3, <1>7, <2>1
  <2>2. CASE i - Len(R) \in 1..Len(ren)
    <3> DEFINE k == i - Len(R)
    <3>1. k \in 1..Len(ren) /\ i = Len(R) + k
      BY <1>3, <2>2
    <3> HIDE DEF k
    <3>2. rob'[i] = ren[k] /\ ren[k].chk
      BY <1>3, <1>7, <3>1
    <3>3. k = b /\ save # {} /\ ren[k].cid = id
      BY <1>4, <3>1, <3>2
    <3> QED BY <1>4, <3>1, <3>2, <3>3
  <2> QED BY <1>3, <2>1, <2>2
<1>8. EntriesAfter(c, ren, P, R, save, id, b)
  <2>1. rob' = R \o ren
    BY <1>1 DEF R
  <2> QED BY <1>2, <1>3, <1>6, <1>7, <2>1 DEF EntriesAfter
<1> QED BY <1>1, <1>8 DEF P, R

\* An ordinary cycle keeps the checkpoints accounted for.
LEMMA CycleKeepsCheckpoints ==
  ASSUME TypeOK, TypeOK', MapIsProgramOrder, CheckpointInv,
         NEW c \in CommitCounts, NEW g \in Groups, Cycle(c, g)
  PROVE CheckpointInv'
<1>1. PICK ren \in Seq(Entry), save \in SUBSET Slots, id \in Slots, b \in Nat,
           taken \in SUBSET Pregs :
         /\ SavesFor(ren, Committing(c), save, id, b, taken)
         /\ EntriesAfter(c, ren, Committing(c), Remaining(c), save, id, b)
  BY CycleEntries DEF CheckpointInv
<1> DEFINE P == Committing(c)
           R == Remaining(c)
<1> HIDE DEF P, R
<1>2. /\ P \in Seq(Entry) /\ R \in Seq(Entry) /\ Len(P) = c
      /\ c \in 0..Len(rob) /\ Len(R) = Len(rob) - c /\ Len(rob) \in Nat
      /\ rob = P \o R /\ rob \in Seq(Entry) /\ DOMAIN rob = 1..Len(rob)
      /\ \A i \in 1..c : P[i] = rob[i]
      /\ \A i \in 1..Len(R) : R[i] = rob[c + i]
  BY <1>1 DEF EntriesAfter, P, R
<1>3. /\ rob' = R \o ren /\ rob' \in Seq(Entry) /\ DOMAIN rob' = 1..Len(rob')
      /\ Len(rob') = Len(R) + Len(ren) /\ Len(R) \in Nat /\ Len(ren) \in Nat
      /\ \A i \in 1..Len(R) : rob'[i] = R[i]
      /\ \A i \in 1..Len(ren) : rob'[Len(R) + i] = ren[i]
  BY <1>1 DEF EntriesAfter, R
<1>4. /\ save = {} \/ (save = {id} /\ b \in 1..Len(ren))
      /\ save \cap (occupied \ Released(P)) = {}
      /\ \A i \in 1..Len(ren) : ren[i].chk <=> save # {} /\ i = b
      /\ \A i \in 1..Len(ren) : ren[i].chk => ren[i].cid = id
      /\ occupied' = (occupied \ Released(P)) \union save
      /\ ckptTable' = [s \in Slots |->
            IF s \in save THEN Overlay(rat, Prefix(ren, b - 1)) ELSE ckptTable[s]]
      /\ committedRat' = Overlay(committedRat, P)
  BY <1>1 DEF SavesFor, P
<1>5. ASSUME NEW i \in 1..Len(R), R[i].chk
      PROVE /\ R[i].cid \in occupied \ Released(P) /\ R[i].cid \notin save
            /\ R[i].cid \in Slots
            /\ \A j \in 1..Len(R) : i # j /\ R[j].chk => R[i].cid # R[j].cid
  BY <1>1, <1>5 DEF EntriesAfter, P, R
<1>6. ASSUME NEW i \in 1..Len(rob'), rob'[i].chk
      PROVE \/ i \in 1..Len(R) /\ rob'[i] = R[i] /\ R[i].chk
            \/ i = Len(R) + b /\ save = {id} /\ b \in 1..Len(ren)
                 /\ rob'[i] = ren[b] /\ ren[b].cid = id
  BY <1>1, <1>6 DEF EntriesAfter, R
<1>7. CheckpointsOwned'
  <2>1. ASSUME NEW i \in 1..Len(rob'), rob'[i].chk PROVE rob'[i].cid \in occupied'
    BY <1>4, <1>5, <1>6, <2>1
  <2>2. ASSUME NEW i \in 1..Len(rob'), NEW j \in 1..Len(rob'), i # j,
               rob'[i].chk, rob'[j].chk
        PROVE rob'[i].cid # rob'[j].cid
    <3>1. CASE i \in 1..Len(R) /\ rob'[i] = R[i] /\ R[i].chk
      <4>1. CASE j \in 1..Len(R) /\ rob'[j] = R[j] /\ R[j].chk
        BY <1>5, <2>2, <3>1, <4>1
      <4>2. CASE save = {id} /\ rob'[j].cid = id
        BY <1>5, <3>1, <4>2
      <4> QED BY <1>6, <2>2, <4>1, <4>2
    <3>2. CASE i = Len(R) + b /\ save = {id} /\ rob'[i].cid = id
      <4>1. j \in 1..Len(R) /\ rob'[j] = R[j] /\ R[j].chk
        BY <1>6, <2>2, <3>2
      <4> QED BY <1>5, <3>2, <4>1
    <3> QED BY <1>6, <2>2, <3>1, <3>2
  <2> QED BY <1>3, <2>1, <2>2 DEF CheckpointsOwned
<1>8. NoLostCheckpoint'
  <2>1. ASSUME NEW s \in occupied' PROVE \E i \in 1..Len(rob') : rob'[i].chk /\ rob'[i].cid = s
    <3>1. CASE s \in save
      <4>1. save = {id} /\ s = id /\ b \in 1..Len(ren)
        BY <1>4, <3>1
      <4>2. ren[b].chk /\ ren[b].cid = id
        BY <1>4, <4>1
      <4>3. Len(R) + b \in 1..Len(rob') /\ rob'[Len(R) + b] = ren[b]
        BY <1>3, <4>1
      <4> QED BY <4>1, <4>2, <4>3
    <3>2. CASE s \in occupied \ Released(P)
      <4>1. s \in Released(rob)
        BY <3>2 DEF CheckpointInv, NoLostCheckpoint
      <4>2. PICK i \in 1..Len(rob) : rob[i].chk /\ rob[i].cid = s
        BY <1>2, <4>1, ReleasedBy
      <4>3. ~(i <= c)
        <5>1. SUFFICES ASSUME i <= c PROVE FALSE
          OBVIOUS
        <5>2. i \in 1..Len(P) /\ P[i] = rob[i]
          BY <1>2, <5>1
        <5> QED BY <1>2, <3>2, <4>2, <5>2, ReleasedBy
      <4>4. i - c \in 1..Len(R) /\ c + (i - c) = i
        BY <1>2, <4>3
      <4>5. R[i - c] = rob[i]
        BY <1>2, <4>4
      <4>6. i - c \in 1..Len(rob') /\ rob'[i - c] = R[i - c]
        BY <1>3, <4>4
      <4> QED BY <4>2, <4>5, <4>6
    <3> QED BY <1>4, <3>1, <3>2
  <2>2. \A s : s \in Released(rob') <=> \E i \in 1..Len(rob') : rob'[i].chk /\ rob'[i].cid = s
    BY <1>3, ReleasedBy
  <2>3. occupied' \subseteq Released(rob')
    BY <2>1, <2>2
  <2> QED BY <2>3 DEF NoLostCheckpoint
<1>9. CheckpointImages'
  <2>1. ASSUME NEW i \in 1..Len(rob'), rob'[i].chk
        PROVE ckptTable'[rob'[i].cid] = Overlay(committedRat', Prefix(rob', i - 1))
    <3>1. rob' = R \o ren /\ committedRat' = Overlay(committedRat, P)
      BY <1>3, <1>4
    <3>2. CASE i \in 1..Len(R) /\ rob'[i] = R[i] /\ R[i].chk
      <4>1. ckptTable'[rob'[i].cid] = ckptTable[R[i].cid]
        BY <1>4, <1>5, <3>2
      <4>2. c + i \in 1..Len(rob) /\ R[i] = rob[c + i]
        BY <1>2, <3>2
      <4>3. ckptTable[R[i].cid] = Overlay(committedRat, Prefix(rob, (c + i) - 1))
        BY <1>2, <3>2, <4>2 DEF CheckpointInv, CheckpointImages
      <4>4. Prefix(rob, (c + i) - 1) = P \o Prefix(R, i - 1)
        <5>1. Prefix(P \o R, Len(P) + i - 1) = P \o Prefix(R, i - 1)
          BY <1>2, <3>2, PrefixConcat
        <5>2. Len(P) + i - 1 = (c + i) - 1
          BY <1>2, <3>2
        <5> QED BY <1>2, <5>1, <5>2
      <4>5. Prefix(R, i - 1) \in Seq(Entry)
        BY <1>2, <3>2, PrefixWriters, RegMapAssumption DEF Arch
      <4>6. Overlay(committedRat, P \o Prefix(R, i - 1))
              = Overlay(committedRat', Prefix(R, i - 1))
        BY <1>2, <3>1, <4>5, OverlayConcat
      <4>7. Prefix(rob', i - 1) = Prefix(R, i - 1)
        BY <1>2, <3>1, <3>2, PrefixConcat
      <4> QED BY <4>1, <4>3, <4>4, <4>6, <4>7
    <3>3. CASE i = Len(R) + b /\ save = {id} /\ b \in 1..Len(ren) /\ rob'[i].cid = id
      <4>1. ckptTable'[rob'[i].cid] = Overlay(rat, Prefix(ren, b - 1))
        BY <1>4, <3>3
      <4>2. rat = Overlay(committedRat', R)
        BY <1>2, <3>1, OverlayConcat DEF MapIsProgramOrder
      <4>3. Prefix(ren, b - 1) \in Seq(Entry)
        BY <3>3, PrefixWriters, RegMapAssumption DEF Arch
      <4>4. Overlay(rat, Prefix(ren, b - 1))
              = Overlay(committedRat', R \o Prefix(ren, b - 1))
        BY <1>2, <4>2, <4>3, OverlayConcat
      <4>5. Prefix(rob', i - 1) = R \o Prefix(ren, b - 1)
        <5>1. Prefix(R \o ren, Len(R) + b - 1) = R \o Prefix(ren, b - 1)
          BY <1>2, <3>3, PrefixConcat
        <5>2. i - 1 = Len(R) + b - 1
          BY <3>3
        <5> QED BY <3>1, <5>1, <5>2
      <4> QED BY <4>1, <4>4, <4>5
    <3> QED BY <1>6, <2>1, <3>2, <3>3
  <2> QED BY <1>3, <2>1 DEF CheckpointImages
<1> QED BY <1>7, <1>8, <1>9 DEF CheckpointInv

\* Every step of the clock keeps the checkpoint invariant, recoveries off.
LEMMA CheckpointInvInductive ==
  ASSUME MaxRecoveries = 0
  PROVE Spec => []CheckpointInv
<1>1. Init => CheckpointInv
  <2> SUFFICES ASSUME Init PROVE CheckpointInv
    OBVIOUS
  <2>1. DOMAIN rob = {} /\ occupied = {}
    <3>1. rob = <<>> /\ occupied = {}
      BY DEF Init, CkptInit
    <3> QED BY <3>1
  <2> QED BY <2>1 DEF CheckpointInv, CheckpointsOwned, NoLostCheckpoint, CheckpointImages
<1>2. TypeOK /\ TypeOK' /\ MapIsProgramOrder /\ CheckpointInv /\ [Next]_vars
         => CheckpointInv'
  <2> SUFFICES ASSUME TypeOK, TypeOK', MapIsProgramOrder, CheckpointInv, [Next]_vars
               PROVE CheckpointInv'
    OBVIOUS
  <2>1. ASSUME NEW c \in CommitCounts, NEW g \in Groups, Cycle(c, g)
        PROVE CheckpointInv'
    BY <2>1, CycleKeepsCheckpoints
  <2>2. ASSUME NEW c \in CommitCounts, Flush(c) PROVE CheckpointInv'
    <3>1. rob' = <<>> /\ occupied' = {}
      BY <2>2 DEF Flush, CkptFlush
    <3>2. DOMAIN rob' = {}
      BY <3>1
    <3> QED BY <3>1, <3>2
            DEF CheckpointInv, CheckpointsOwned, NoLostCheckpoint, CheckpointImages
  <2>3. ASSUME NEW c \in CommitCounts, NEW k \in DOMAIN rob, Recover(c, k)
        PROVE FALSE
    BY <2>3 DEF Recover, TypeOK
  <2>4. CASE UNCHANGED vars
    BY <2>4 DEF vars, flVars, ratVars, ckptVars, CheckpointInv, CheckpointsOwned,
                NoLostCheckpoint, CheckpointImages, Released
  <2> QED BY <2>1, <2>2, <2>3, <2>4 DEF Next
<1>3. RegisterInv => MapIsProgramOrder
  BY DEF RegisterInv, OrderInv
<1> QED BY <1>1, <1>2, <1>3, TypeCorrect, RegisterInvInductive, PTL DEF Spec

-----------------------------------------------------------------------------
(***************************************************************************)
(* Partial recovery.  A restore tells the older checkpoints, which it      *)
(* keeps, from the younger ones by the distance of their sequence numbers, *)
(* and a restore does not move the counter back: a branch that outlives    *)
(* enough recoveries of younger ones grows too old for that.  What the     *)
(* modules rely on is that no branch in flight does; from that alone the   *)
(* order of the ages, the bitmaps and the maps follow for any number of    *)
(* recoveries.                                                             *)
(***************************************************************************)

\* The age after a step.
NextAge(s) == (nextSeq' - slotSeq'[s] + SeqModulus) % SeqModulus

\* The younger branch has the younger checkpoint.
AgesOrdered ==
    \A i, j \in DOMAIN rob :
        i < j /\ rob[i].chk /\ rob[j].chk => Age(rob[j].cid) < Age(rob[i].cid)

\* What a branch would restore as free is held by nothing older than it, and
\* what was committed as free when it saved covers what the older ones took.
BitmapsBefore ==
    \A i \in DOMAIN rob :
        rob[i].chk =>
            LET before == Prefix(rob, i - 1)
            IN  /\ ckptBitmap[rob[i].cid]
                     \cap (Image(committedRat) \union Dests(before)) = {}
                /\ Dests(before) \ Hardwired \subseteq ckptCommitted[rob[i].cid]

RecoveryInv == OrderInv /\ CheckpointInv /\ AgesOrdered /\ BitmapsBefore

\* One more save makes every checkpoint one older, and its own is of age 1.
LEMMA AgesGrow ==
  ASSUME NEW n \in 0..(SeqModulus - 1), NEW q \in 0..(SeqModulus - 1)
  PROVE LET n2 == (n + 1) % SeqModulus
            a  == (n - q + SeqModulus) % SeqModulus
            a2 == (n2 - q + SeqModulus) % SeqModulus
        IN  /\ a \in 0..(SeqModulus - 1) /\ a2 \in 0..(SeqModulus - 1)
            /\ a2 = IF a = SeqModulus - 1 THEN 0 ELSE a + 1
            /\ (n2 - n + SeqModulus) % SeqModulus = 1
<1>1. /\ NumCheckpoints \in Nat \ {0} /\ SeqModulus = 2 * NumCheckpoints
      /\ SeqModulus \in Nat /\ SeqModulus >= 2
  BY RegMapAssumption DEF SeqModulus
<1> DEFINE M == SeqModulus
           n2 == (n + 1) % M
<1> HIDE DEF M
<1>2. M \in Nat /\ M >= 2 /\ n \in 0..(M - 1) /\ q \in 0..(M - 1)
  BY <1>1 DEF M
<1>3. n2 = IF n = M - 1 THEN 0 ELSE n + 1
  BY <1>2
<1> HIDE DEF n2
<1>4. n2 \in 0..(M - 1)
  BY <1>2, <1>3
<1>5. (n - q + M) % M = IF n >= q THEN n - q ELSE n - q + M
  BY <1>2
<1>6. (n2 - q + M) % M = IF n2 >= q THEN n2 - q ELSE n2 - q + M
  BY <1>2, <1>4
<1>7. (n2 - n + M) % M = IF n2 >= n THEN n2 - n ELSE n2 - n + M
  BY <1>2, <1>4
<1> QED BY <1>2, <1>3, <1>4, <1>5, <1>6, <1>7 DEF M, n2

\* The distance a restore compares is the difference of two ages.
LEMMA DeltaIs ==
  ASSUME TypeOK, NEW s \in Slots, NEW t \in Slots
  PROVE /\ Age(s) \in 0..(SeqModulus - 1) /\ Age(t) \in 0..(SeqModulus - 1)
        /\ RestoreDelta(s, t) = IF Age(t) >= Age(s) THEN Age(t) - Age(s)
                                                    ELSE Age(t) - Age(s) + SeqModulus
<1> DEFINE M == SeqModulus
           p == slotSeq[s]
           q == slotSeq[t]
           n == nextSeq
<1>1. M \in Nat /\ M >= 2 /\ n \in 0..(M - 1) /\ p \in 0..(M - 1) /\ q \in 0..(M - 1)
  BY RegMapAssumption DEF SeqModulus, TypeOK
<1> HIDE DEF M, n, p, q
<1>2. (n - p + M) % M = IF n >= p THEN n - p ELSE n - p + M
  BY <1>1
<1>3. (n - q + M) % M = IF n >= q THEN n - q ELSE n - q + M
  BY <1>1
<1>4. (p - q + M) % M = IF p >= q THEN p - q ELSE p - q + M
  BY <1>1
<1>5. Age(s) = (n - p + M) % M /\ Age(t) = (n - q + M) % M
        /\ RestoreDelta(s, t) = (p - q + M) % M
  BY DEF Age, RestoreDelta, M, n, p, q
<1>6. /\ Age(s) \in 0..(M - 1) /\ Age(t) \in 0..(M - 1)
      /\ RestoreDelta(s, t) = IF Age(t) >= Age(s) THEN Age(t) - Age(s)
                                                  ELSE Age(t) - Age(s) + M
  BY <1>1, <1>2, <1>3, <1>4, <1>5
<1> QED BY <1>6 DEF M

\* The two conditions on the ages, of the next state.
LEMMA NextAges ==
  /\ AgesTell' <=> \A i \in DOMAIN rob' :
                      rob'[i].chk => NextAge(rob'[i].cid) \in 1..NumCheckpoints
  /\ AgesOrdered' <=> \A i, j \in DOMAIN rob' :
                         i < j /\ rob'[i].chk /\ rob'[j].chk
                            => NextAge(rob'[j].cid) < NextAge(rob'[i].cid)
BY DEF AgesTell, AgesOrdered, Age, NextAge, SeqModulus

\* In an ordinary cycle the ages of the slots that are not saved to grow by
\* one if there is a save, and stay if there is none.
LEMMA AgesAfter ==
  ASSUME TypeOK, TypeOK', NEW ren, NEW P, NEW save \in SUBSET Slots, NEW id, NEW b,
         NEW taken, SavesFor(ren, P, save, id, b, taken)
  PROVE /\ \A s \in Slots : Age(s) \in 0..(SeqModulus - 1)
        /\ \A s \in Slots \ save :
              NextAge(s) = IF save = {} THEN Age(s)
                        ELSE IF Age(s) = SeqModulus - 1 THEN 0 ELSE Age(s) + 1
        /\ \A s \in save : NextAge(s) = 1
<1>1. /\ slotSeq' = [s \in Slots |-> IF s \in save THEN nextSeq ELSE slotSeq[s]]
      /\ nextSeq' = IF save = {} THEN nextSeq ELSE (nextSeq + 1) % SeqModulus
  BY DEF SavesFor
<1>2. /\ nextSeq \in 0..(SeqModulus - 1)
      /\ \A s \in Slots : slotSeq[s] \in 0..(SeqModulus - 1)
  BY DEF TypeOK
<1>3. ASSUME NEW s \in Slots \ save PROVE slotSeq'[s] = slotSeq[s]
  BY <1>1
<1>4. ASSUME NEW s \in save PROVE slotSeq'[s] = nextSeq /\ s \in Slots
  BY <1>1
<1>5. \A s : NextAge(s) = (nextSeq' - slotSeq'[s] + SeqModulus) % SeqModulus
  BY DEF NextAge
<1>6. ASSUME NEW s \in Slots PROVE Age(s) \in 0..(SeqModulus - 1)
  BY DeltaIs
<1>7. ASSUME NEW s \in Slots \ save
      PROVE NextAge(s) = IF save = {} THEN Age(s)
                      ELSE IF Age(s) = SeqModulus - 1 THEN 0 ELSE Age(s) + 1
  <2>1. CASE save = {}
    <3>1. slotSeq'[s] = slotSeq[s] /\ nextSeq' = nextSeq
      BY <1>1, <1>3, <2>1
    <3>2. NextAge(s) = (nextSeq - slotSeq[s] + SeqModulus) % SeqModulus
      BY <1>5, <3>1
    <3> QED BY <2>1, <3>2 DEF Age
  <2>2. CASE save # {}
    <3>1. slotSeq'[s] = slotSeq[s] /\ nextSeq' = (nextSeq + 1) % SeqModulus
      BY <1>1, <1>3, <2>2
    <3>2. NextAge(s) = (((nextSeq + 1) % SeqModulus) - slotSeq[s] + SeqModulus) % SeqModulus
      BY <1>5, <3>1
    <3>3. slotSeq[s] \in 0..(SeqModulus - 1)
      BY <1>2
    <3> QED BY <1>2, <2>2, <3>2, <3>3, AgesGrow DEF Age
  <2> QED BY <2>1, <2>2
<1>8. ASSUME NEW s \in save PROVE NextAge(s) = 1
  <2>1. slotSeq'[s] = nextSeq /\ nextSeq' = (nextSeq + 1) % SeqModulus
    BY <1>1, <1>4, <1>8
  <2>2. NextAge(s) = (((nextSeq + 1) % SeqModulus) - nextSeq + SeqModulus) % SeqModulus
    BY <1>5, <2>1
  <2> QED BY <1>2, <2>2, AgesGrow
<1> QED BY <1>6, <1>7, <1>8

\* An ordinary cycle keeps the ages in order, as long as none outgrows its width.
LEMMA CycleKeepsAges ==
  ASSUME TypeOK, TypeOK', CheckpointInv, AgesOrdered, AgesTell, AgesTell',
         NEW c \in CommitCounts, NEW g \in Groups, Cycle(c, g)
  PROVE AgesOrdered'
<1>1. PICK ren \in Seq(Entry), save \in SUBSET Slots, id \in Slots, b \in Nat,
           taken \in SUBSET Pregs :
         /\ SavesFor(ren, Committing(c), save, id, b, taken)
         /\ EntriesAfter(c, ren, Committing(c), Remaining(c), save, id, b)
  BY CycleEntries DEF CheckpointInv
<1> DEFINE P == Committing(c)
           R == Remaining(c)
<1> HIDE DEF P, R
<1>2. /\ c \in Nat /\ DOMAIN rob = 1..Len(rob) /\ Len(rob) \in Nat
      /\ Len(R) = Len(rob) - c /\ Len(R) \in Nat
      /\ \A i \in 1..Len(R) : R[i] = rob[c + i]
      /\ DOMAIN rob' = 1..Len(rob')
      /\ \A i \in 1..Len(R) : R[i].chk => R[i].cid \in Slots \ save
      /\ \A i \in 1..Len(rob') : rob'[i].chk =>
            \/ i \in 1..Len(R) /\ rob'[i] = R[i] /\ R[i].chk
            \/ i = Len(R) + b /\ save = {id} /\ b \in 1..Len(ren)
                  /\ rob'[i] = ren[b] /\ ren[b].cid = id
  <2>1. EntriesAfter(c, ren, P, R, save, id, b)
    BY <1>1 DEF P, R
  <2>2. /\ c \in 0..Len(rob) /\ Len(rob) \in Nat
        /\ \A i \in 1..Len(R) : R[i].chk => R[i].cid \in Slots /\ R[i].cid \notin save
    BY <2>1, Zenon DEF EntriesAfter
  <2>3. c \in Nat
    BY <2>2
  <2> QED BY <2>1, <2>2, <2>3, Zenon DEF EntriesAfter
<1>3. /\ \A s \in Slots : Age(s) \in 0..(SeqModulus - 1)
      /\ \A s \in Slots \ save :
              NextAge(s) = IF save = {} THEN Age(s)
                        ELSE IF Age(s) = SeqModulus - 1 THEN 0 ELSE Age(s) + 1
      /\ \A s \in save : NextAge(s) = 1
  BY <1>1, AgesAfter
<1>4. SeqModulus = 2 * NumCheckpoints /\ NumCheckpoints \in Nat \ {0}
  BY RegMapAssumption DEF SeqModulus
<1>5. ASSUME NEW i \in 1..Len(R), R[i].chk, rob'[i] = R[i], i \in DOMAIN rob'
      PROVE /\ R[i].cid \in Slots \ save
            /\ Age(R[i].cid) \in 1..NumCheckpoints
            /\ NextAge(R[i].cid) = IF save = {} THEN Age(R[i].cid) ELSE Age(R[i].cid) + 1
  <2>1. c + i \in DOMAIN rob /\ R[i] = rob[c + i] /\ R[i].cid \in Slots \ save
    BY <1>2, <1>5
  <2>2. Age(R[i].cid) \in 1..NumCheckpoints
    BY <1>5, <2>1 DEF AgesTell
  <2>3. \A j \in DOMAIN rob' : rob'[j].chk => NextAge(rob'[j].cid) \in 1..NumCheckpoints
    BY NextAges
  <2>4. NextAge(R[i].cid) # 0
    BY <1>4, <1>5, <2>3
  <2> DEFINE a == Age(R[i].cid)
             a2 == NextAge(R[i].cid)
  <2>5. a2 = IF save = {} THEN a ELSE IF a = SeqModulus - 1 THEN 0 ELSE a + 1
    BY <1>3, <2>1
  <2> HIDE DEF a, a2
  <2>6. a2 = IF save = {} THEN a ELSE a + 1
    BY <2>4, <2>5 DEF a2
  <2> QED BY <2>1, <2>2, <2>6 DEF a, a2
<1>6. ASSUME NEW i \in DOMAIN rob', NEW j \in DOMAIN rob', i < j,
             rob'[i].chk, rob'[j].chk
      PROVE NextAge(rob'[j].cid) < NextAge(rob'[i].cid)
  <2>1. CASE i \in 1..Len(R) /\ rob'[i] = R[i] /\ R[i].chk
    <3> DEFINE a == Age(R[i].cid)
               a2 == NextAge(R[i].cid)
    <3>1. a \in 1..NumCheckpoints /\ a2 = IF save = {} THEN a ELSE a + 1
      BY <1>5, <2>1
    <3>2. a2 = NextAge(rob'[i].cid)
      BY <2>1
    <3>3. CASE j \in 1..Len(R) /\ rob'[j] = R[j] /\ R[j].chk
      <4> DEFINE d == Age(R[j].cid)
                 d2 == NextAge(R[j].cid)
      <4>1. d \in 1..NumCheckpoints /\ d2 = IF save = {} THEN d ELSE d + 1
        BY <1>5, <3>3
      <4>2. d2 = NextAge(rob'[j].cid)
        BY <3>3
      <4>3. d < a
        <5>1. c + i \in DOMAIN rob /\ c + j \in DOMAIN rob /\ c + i < c + j
          BY <1>2, <1>6, <2>1, <3>3
        <5>2. rob[c + i] = R[i] /\ rob[c + j] = R[j]
          BY <1>2, <2>1, <3>3
        <5> QED BY <2>1, <3>3, <5>1, <5>2 DEF AgesOrdered
      <4> HIDE DEF a, a2, d, d2
      <4> QED BY <1>4, <3>1, <3>2, <4>1, <4>2, <4>3
    <3>4. CASE save = {id} /\ rob'[j].cid = id
      <4>1. NextAge(rob'[j].cid) = 1
        BY <1>3, <3>4
      <4> HIDE DEF a, a2
      <4> QED BY <1>4, <3>1, <3>2, <3>4, <4>1
    <3> QED BY <1>2, <1>6, <3>3, <3>4
  <2>2. CASE i = Len(R) + b
    <3>1. j \in 1..Len(R) \/ j = Len(R) + b
      BY <1>2, <1>6
    <3> QED BY <1>2, <1>6, <2>2, <3>1
  <2> QED BY <1>2, <1>6, <2>1, <2>2
<1> QED BY <1>6, NextAges


\* What a checkpoint saves as free: registers on the list that the older slots
\* of the group do not take, and the old destinations of the commit.
LEMMA SavedBitmap ==
  ASSUME NEW taken, NEW w \in Seq(Entry)
  PROVE CkptSaveBitmap(taken, w) \subseteq (freeBitmap \ taken) \union (Olds(w) \ Hardwired)
<1> SUFFICES ASSUME NEW p \in CkptSaveBitmap(taken, w), ~(p \in freeBitmap \ taken)
             PROVE p \in Olds(w) \ Hardwired
  OBVIOUS
<1> DEFINE writes == {i \in DOMAIN w : w[i].wr}
           set == {ReleaseIndex(w, i) : i \in {j \in writes : w[j].old = p}}
<1>1. p \in Pregs \ Hardwired /\ set # {}
  BY DEF CkptSaveBitmap
<1>2. PICK j \in writes : w[j].old = p
  BY <1>1
<1>3. j \in 1..Len(w) /\ w[j].wr
  BY <1>2, LenProperties
<1> QED BY <1>1, <1>2, <1>3, OldsAndDests

\* An ordinary cycle keeps what the checkpoints in flight say is free apart
\* from what the entries before them hold.
LEMMA CycleKeepsBitmaps ==
  ASSUME TypeOK, OrderInv, CheckpointInv, BitmapsBefore,
         NEW c \in CommitCounts, NEW g \in Groups, Cycle(c, g)
  PROVE BitmapsBefore'
<1>1. PICK ren \in Seq(Entry), save \in SUBSET Slots, id \in Slots, b \in Nat,
           taken \in SUBSET Pregs :
         /\ SavesFor(ren, Committing(c), save, id, b, taken)
         /\ EntriesAfter(c, ren, Committing(c), Remaining(c), save, id, b)
  BY CycleEntries DEF CheckpointInv
<1> DEFINE P == Committing(c)
           R == Remaining(c)
           new == Overlay(committedRat, P)
<1>2. /\ \A i \in 1..Len(R) : /\ Prefix(R, i - 1) \in Seq(Entry)
                              /\ Prefix(rob, c + i - 1) = P \o Prefix(R, i - 1)
      /\ Unshared(new, R)
      /\ \A q \in Olds(P) \ Hardwired : q \notin Image(new) /\ q \notin Dests(R)
      /\ Image(new) \union Olds(P) = Image(committedRat) \union Dests(P)
      /\ Live = Hardwired \union Image(committedRat) \union Dests(P) \union Dests(R)
      /\ new \in [Arch -> Pregs]
  BY RemainingReady
<1> HIDE DEF P, R, new
<1>3. /\ P \in Seq(Entry) /\ R \in Seq(Entry) /\ rob' = R \o ren
      /\ Len(R) \in Nat /\ Len(ren) \in Nat /\ DOMAIN rob' = 1..Len(rob')
      /\ c \in 0..Len(rob) /\ Len(rob) \in Nat /\ Len(R) = Len(rob) - c
      /\ DOMAIN rob = 1..Len(rob)
      /\ \A i \in 1..Len(R) : R[i] = rob[c + i]
      /\ \A i \in 1..Len(R) : R[i].chk => R[i].cid \in Slots /\ R[i].cid \notin save
      /\ \A i \in 1..Len(rob') : rob'[i].chk =>
            \/ i \in 1..Len(R) /\ rob'[i] = R[i] /\ R[i].chk
            \/ i = Len(R) + b /\ save = {id} /\ b \in 1..Len(ren)
                  /\ rob'[i] = ren[b] /\ ren[b].cid = id
  BY <1>1, Zenon DEF EntriesAfter, P, R
<1>4. /\ ckptBitmap' = [s \in Slots |->
            IF s \in save THEN CkptSaveBitmap(taken, P) ELSE ckptBitmap[s]]
      /\ ckptCommitted' = [s \in Slots |->
            IF s \in save THEN CommittedBitmapNext(P) ELSE ckptCommitted[s]]
      /\ committedRat' = new
      /\ Dests(ren) \subseteq freeBitmap \union Hardwired
      /\ \A i \in 1..Len(ren) :
            i < b /\ ren[i].wr => ren[i].pdst \in taken \union Hardwired
  BY <1>1, Zenon DEF SavesFor, P, new
<1>5. freeBitmap \cap Live = {} /\ committedMap = committedRat
      /\ freeBitmap \subseteq Pregs \ Hardwired
  BY DEF OrderInv, NoDoubleAllocation, CommittedMapsAgree, TypeOK
\* Of the entries that stay.
<1>6. ASSUME NEW i \in 1..Len(R), R[i].chk, rob'[i] = R[i]
      PROVE LET before == Prefix(rob', i - 1)
            IN  /\ ckptBitmap'[R[i].cid]
                     \cap (Image(committedRat') \union Dests(before)) = {}
                /\ Dests(before) \ Hardwired \subseteq ckptCommitted'[R[i].cid]
  <2> DEFINE q == Prefix(R, i - 1)
             s == R[i].cid
  <2>1. c + i \in DOMAIN rob /\ rob[c + i] = R[i]
    BY <1>3
  <2>2. /\ ckptBitmap[s] \cap (Image(committedRat)
                                 \union Dests(Prefix(rob, c + i - 1))) = {}
        /\ Dests(Prefix(rob, c + i - 1)) \ Hardwired \subseteq ckptCommitted[s]
    <3> DEFINE k == c + i
    <3>1. c + i - 1 = k - 1
      BY <1>3
    <3> HIDE DEF k
    <3>2. k \in DOMAIN rob /\ rob[k] = R[i]
      BY <2>1 DEF k
    <3>3. /\ ckptBitmap[rob[k].cid]
               \cap (Image(committedRat) \union Dests(Prefix(rob, k - 1))) = {}
          /\ Dests(Prefix(rob, k - 1)) \ Hardwired \subseteq ckptCommitted[rob[k].cid]
      BY <1>6, <3>2, Zenon DEF BitmapsBefore
    <3> QED BY <3>1, <3>2, <3>3
  <2>3. Prefix(rob', i - 1) = q
    BY <1>3, PrefixConcat
  <2>4. q \in Seq(Entry) /\ Prefix(rob, c + i - 1) = P \o q
    BY <1>2
  <2>5. s \in Slots /\ s \notin save
    BY <1>3, <1>6
  <2> HIDE DEF q, s
  <2>6. Dests(Prefix(rob, c + i - 1)) = Dests(P) \union Dests(q)
    BY <1>3, <2>4, DestsConcat
  <2>7. ckptBitmap'[s] = ckptBitmap[s] /\ ckptCommitted'[s] = ckptCommitted[s]
    BY <1>4, <2>5
  <2>8. /\ ckptBitmap'[s] \cap (Image(committedRat') \union Dests(q)) = {}
        /\ Dests(q) \ Hardwired \subseteq ckptCommitted'[s]
    BY <1>2, <1>4, <2>2, <2>6, <2>7
  <2> QED BY <2>3, <2>8 DEF s
\* Of the branch that enters.
<1>7. ASSUME save = {id}, b \in 1..Len(ren), ren[b].cid = id
      PROVE LET before == Prefix(rob', Len(R) + b - 1)
            IN  /\ ckptBitmap'[id]
                     \cap (Image(committedRat') \union Dests(before)) = {}
                /\ Dests(before) \ Hardwired \subseteq ckptCommitted'[id]
  <2> DEFINE q == Prefix(ren, b - 1)
  <2>1. /\ q \in Seq(Entry) /\ Len(q) = b - 1
        /\ \A j \in 1..(b - 1) : q[j] = ren[j]
    <3>1. b - 1 \in 0..Len(ren)
      BY <1>3, <1>7
    <3> QED BY <3>1, SplitAt
  <2>2. Prefix(rob', Len(R) + b - 1) = R \o q
    BY <1>3, <1>7, PrefixConcat
  <2> HIDE DEF q
  <2>3. Dests(R \o q) = Dests(R) \union Dests(q)
    BY <1>3, <2>1, DestsConcat
  <2>4. Dests(q) \subseteq taken \union Hardwired
    <3>1. ASSUME NEW j \in 1..Len(q), q[j].wr PROVE q[j].pdst \in taken \union Hardwired
      <4>1. j \in 1..Len(ren) /\ j < b /\ q[j] = ren[j]
        BY <1>3, <1>7, <2>1
      <4> QED BY <1>4, <3>1, <4>1
    <3> QED BY <2>1, <3>1, OldsAndDests
  <2>5. Dests(q) \subseteq freeBitmap \union Hardwired
    <3>1. ASSUME NEW j \in 1..Len(q), q[j].wr PROVE q[j].pdst \in Dests(ren)
      <4>1. j \in 1..Len(ren) /\ q[j] = ren[j]
        BY <1>3, <1>7, <2>1
      <4> QED BY <3>1, <4>1, OldsAndDests
    <3>2. Dests(q) \subseteq Dests(ren)
      BY <2>1, <3>1, OldsAndDests
    <3> QED BY <1>4, <3>2
  <2>6. /\ ckptBitmap'[id] = CkptSaveBitmap(taken, P)
        /\ ckptCommitted'[id] = Pregs \ (Hardwired \union Image(new))
    BY <1>4, <1>5, <1>7 DEF CommittedBitmapNext, CommittedBitmap, new
  <2>7. CkptSaveBitmap(taken, P) \subseteq (freeBitmap \ taken) \union (Olds(P) \ Hardwired)
    BY <1>3, SavedBitmap
  <2>8. Image(new) \subseteq Live /\ Dests(R) \subseteq Live /\ Olds(P) \subseteq Live
    BY <1>2
  <2>9. ckptBitmap'[id] \cap (Image(new) \union Dests(R) \union Dests(q)) = {}
    <3>1. ASSUME NEW p \in freeBitmap \ taken
          PROVE p \notin Image(new) /\ p \notin Dests(R) /\ p \notin Dests(q)
      BY <1>5, <2>4, <2>8
    <3>2. ASSUME NEW p \in Olds(P) \ Hardwired
          PROVE p \notin Image(new) /\ p \notin Dests(R) /\ p \notin Dests(q)
      BY <1>2, <1>5, <2>5, <2>8
    <3> QED BY <2>6, <2>7, <3>1, <3>2
  <2>10. Dests(R) \ Hardwired \subseteq ckptCommitted'[id]
    <3>1. ASSUME NEW p \in Dests(R) \ Hardwired PROVE p \in Pregs /\ p \notin Image(new)
      <4>1. PICK j \in 1..Len(R) : R[j].wr /\ R[j].pdst = p
        BY <1>3, OldsAndDests
      <4> QED BY <1>2, <1>3, <3>1, <4>1, OldsAndDests DEF Unshared
    <3> QED BY <2>6, <3>1
  <2>11. Dests(q) \ Hardwired \subseteq ckptCommitted'[id]
    BY <1>5, <2>1, <2>5, <2>6, <2>8, OldsAndDests
  <2> QED BY <1>4, <2>2, <2>3, <2>9, <2>10, <2>11
<1>8. ASSUME NEW i \in DOMAIN rob', rob'[i].chk
      PROVE /\ ckptBitmap'[rob'[i].cid]
                  \cap (Image(committedRat') \union Dests(Prefix(rob', i - 1))) = {}
            /\ Dests(Prefix(rob', i - 1)) \ Hardwired \subseteq ckptCommitted'[rob'[i].cid]
  <2>1. CASE i \in 1..Len(R) /\ rob'[i] = R[i] /\ R[i].chk
    BY <1>6, <2>1
  <2>2. CASE i = Len(R) + b /\ save = {id} /\ b \in 1..Len(ren)
               /\ rob'[i] = ren[b] /\ ren[b].cid = id
    BY <1>7, <2>2
  <2> QED BY <1>3, <1>8, <2>1, <2>2
<1> QED BY <1>8 DEF BitmapsBefore


(***************************************************************************)
(* The buffer after a recovery at entry k with c commits: the entries      *)
(* between, P being what commits and R what the commit leaves, and the     *)
(* branch itself without its checkpoint.                                   *)
(***************************************************************************)
EntriesRecovered(c, k, P, R) ==
    /\ P \in Seq(Entry) /\ R \in Seq(Entry) /\ Len(P) = c /\ Len(R) = Len(rob) - c
    /\ rob \in Seq(Entry) /\ Len(rob) \in Nat /\ DOMAIN rob = 1..Len(rob)
    /\ c \in Nat /\ k \in 1..Len(rob) /\ c < k
    /\ \A i \in 1..c : P[i] = rob[i]
    /\ \A i \in 1..Len(R) : R[i] = rob[c + i]
    /\ rob' \in Seq(Entry) /\ Len(rob') = k - c /\ DOMAIN rob' = 1..(k - c)
    /\ \A i \in 1..(k - c - 1) : rob'[i] = R[i]
    /\ rob'[k - c] = [R[k - c] EXCEPT !.chk = FALSE]
    /\ \A i \in 1..(k - c) : Prefix(rob', i - 1) = Prefix(R, i - 1)

\* That is the buffer after every recovery.
LEMMA RecoverEntries ==
  ASSUME TypeOK, NEW c \in CommitCounts, NEW k \in DOMAIN rob, Recover(c, k)
  PROVE EntriesRecovered(c, k, Committing(c), Remaining(c))
<1> DEFINE P == Committing(c)
           R == Remaining(c)
           s == SubSeq(rob, c + 1, k)
<1>1. /\ rob \in Seq(Entry) /\ Len(rob) \in Nat /\ DOMAIN rob = 1..Len(rob)
      /\ c \in 0..Len(rob) /\ c < k
  BY CommitCountsBound, LenProperties DEF TypeOK, Recover
<1>2. /\ P \in Seq(Entry) /\ R \in Seq(Entry) /\ Len(P) = c /\ Len(R) = Len(rob) - c
      /\ \A i \in 1..c : P[i] = rob[i]
      /\ \A i \in 1..Len(R) : R[i] = rob[c + i]
  <2>1. \A i \in 1..(Len(rob) - c) : R[i] = rob[c + i]
    BY <1>1, SplitAt DEF Remaining
  <2> QED BY <1>1, <2>1, SplitAt DEF Committing, Remaining
<1>3. c \in Nat /\ k \in 1..Len(rob) /\ k - c \in 1..Len(R)
  BY <1>1, <1>2
<1>4. s \in Seq(Entry) /\ Len(s) = k - c /\ \A i \in 1..(k - c) : s[i] = R[i]
  <2>1. \A i \in (c + 1)..k : rob[i] \in Entry
    BY <1>1, <1>3, ElementOfSeq
  <2>2. /\ s \in Seq(Entry) /\ Len(s) = IF c + 1 <= k THEN k - (c + 1) + 1 ELSE 0
        /\ \A i \in 1..(k - (c + 1) + 1) : s[i] = rob[(c + 1) + i - 1]
    BY <1>1, <1>3, <2>1, SubSeqProperties
  <2> HIDE DEF s, R
  <2>3. s \in Seq(Entry) /\ Len(s) = k - c
    BY <1>1, <1>3, <2>2
  <2>4. ASSUME NEW i \in 1..(k - c) PROVE s[i] = R[i]
    <3>1. /\ i \in 1..Len(R) /\ i \in 1..(k - (c + 1) + 1)
          /\ (c + 1) + i - 1 = c + i
      BY <1>1, <1>3
    <3>2. s[i] = rob[c + i]
      BY <2>2, <3>1
    <3> QED BY <1>2, <3>1, <3>2
  <2> QED BY <2>3, <2>4
<1> DEFINE e == [s[k - c] EXCEPT !.chk = FALSE]
<1>5. rob' = [s EXCEPT ![k - c] = e]
  BY DEF Recover
<1>6. k - c \in 1..Len(s) /\ e \in Entry
  <2> HIDE DEF s
  <2>1. k - c \in 1..Len(s) /\ s[k - c] \in Entry
    BY <1>1, <1>3, <1>4, ElementOfSeq
  <2> QED BY <2>1 DEF Entry
<1> HIDE DEF s, P, R
<1>7. /\ rob' \in Seq(Entry) /\ Len(rob') = k - c
      /\ \A i \in 1..(k - c) : rob'[i] = IF i = k - c THEN e ELSE s[i]
  <2> HIDE DEF e
  <2> QED BY <1>4, <1>5, <1>6, ExceptSeq
<1>8. e = [R[k - c] EXCEPT !.chk = FALSE]
  BY <1>3, <1>4, <1>6
<1> HIDE DEF e
<1>9. /\ \A i \in 1..(k - c - 1) : rob'[i] = R[i]
      /\ rob'[k - c] = e /\ DOMAIN rob' = 1..(k - c)
  BY <1>1, <1>3, <1>4, <1>7, LenProperties
<1>10. ASSUME NEW i \in 1..(k - c) PROVE Prefix(rob', i - 1) = Prefix(R, i - 1)
  <2>1. i - 1 \in 0..Len(rob') /\ i - 1 \in 0..Len(R)
    BY <1>1, <1>3, <1>7
  <2>2. /\ Prefix(rob', i - 1) \in Seq(Entry) /\ Len(Prefix(rob', i - 1)) = i - 1
        /\ \A j \in 1..(i - 1) : Prefix(rob', i - 1)[j] = rob'[j]
    BY <1>7, <2>1, SplitAt
  <2>3. /\ Prefix(R, i - 1) \in Seq(Entry) /\ Len(Prefix(R, i - 1)) = i - 1
        /\ \A j \in 1..(i - 1) : Prefix(R, i - 1)[j] = R[j]
    BY <1>2, <2>1, SplitAt
  <2>4. \A j \in 1..(i - 1) : rob'[j] = R[j]
    BY <1>1, <1>3, <1>9
  <2> QED BY <2>2, <2>3, <2>4, SeqEqual
<1>11. EntriesRecovered(c, k, P, R)
  BY <1>1, <1>2, <1>3, <1>7, <1>8, <1>9, <1>10 DEF EntriesRecovered
<1> QED BY <1>11 DEF P, R

\* A recovery keeps the registers: the map is the image before the branch,
\* which writes nothing, and what it frees is held by nothing that stays.
LEMMA RecoverKeepsRegisters ==
  ASSUME TypeOK, OrderInv, CheckpointInv, BitmapsBefore,
         NEW c \in CommitCounts, NEW k \in DOMAIN rob, Recover(c, k)
  PROVE OrderInv'
<1> DEFINE P == Committing(c)
           R == Remaining(c)
           cr == committedRat
           new == Overlay(cr, P)
           id == rob[k].cid
           m == k - c
           q == Prefix(R, m - 1)
<1>1. EntriesRecovered(c, k, P, R)
  BY RecoverEntries
<1>2. /\ new \in [Arch -> Pregs]
      /\ \A i \in 1..Len(R) :
            /\ Prefix(R, i - 1) \in Seq(Entry)
            /\ Prefix(rob, c + i - 1) = P \o Prefix(R, i - 1)
            /\ R[i].src = Overlay(new, Prefix(R, i - 1))[R[i].rs]
            /\ R[i].wr => R[i].old = Overlay(new, Prefix(R, i - 1))[R[i].rd]
      /\ Unshared(new, R)
      /\ Image(new) \union Olds(P) = Image(cr) \union Dests(P)
  BY RemainingReady
<1>3. /\ rat' = ckptTable[id] /\ committedRat' = new
      /\ committedMap' = Overlay(committedMap, P)
      /\ freeBitmap' = ckptBitmap[id]
                          \union (CommittedBitmapNext(P) \ ckptCommitted[id])
      /\ rob[k].chk /\ ~rob[k].wr
  BY DEF Recover, RatRestore, FLRestore, Committing
<1>4. committedMap = cr
  BY DEF OrderInv, CommittedMapsAgree
<1> HIDE DEF P, R, cr, new, id
<1>5. /\ P \in Seq(Entry) /\ R \in Seq(Entry) /\ Len(P) = c /\ Len(R) = Len(rob) - c
      /\ Len(rob) \in Nat /\ DOMAIN rob = 1..Len(rob)
      /\ c \in Nat /\ k \in 1..Len(rob) /\ c < k
      /\ \A i \in 1..Len(R) : R[i] = rob[c + i]
      /\ rob' \in Seq(Entry) /\ Len(rob') = m /\ DOMAIN rob' = 1..m
      /\ \A i \in 1..(m - 1) : rob'[i] = R[i]
      /\ rob'[m] = [R[m] EXCEPT !.chk = FALSE]
      /\ \A i \in 1..m : Prefix(rob', i - 1) = Prefix(R, i - 1)
  BY <1>1, Zenon DEF EntriesRecovered
<1>6. m \in 1..Len(R) /\ c + m = k /\ R[m] = rob[k] /\ c + m - 1 = k - 1
      /\ m \in Nat /\ R[m] \in Entry
  <2>1. m \in 1..Len(R) /\ c + m = k /\ c + m - 1 = k - 1 /\ m \in Nat
    BY <1>5
  <2> HIDE DEF m
  <2> QED BY <1>5, <2>1, ElementOfSeq
\* An entry that stays is the one of R, but for the checkpoint of the last.
<1>7. ASSUME NEW i \in 1..m
      PROVE /\ i \in 1..Len(R) /\ rob'[i].wr = R[i].wr /\ rob'[i].pdst = R[i].pdst
            /\ rob'[i].rd = R[i].rd /\ rob'[i].rs = R[i].rs
            /\ rob'[i].old = R[i].old /\ rob'[i].src = R[i].src
  <2> HIDE DEF m
  <2>1. i \in 1..Len(R) /\ (i = m \/ i \in 1..(m - 1))
    BY <1>5, <1>6
  <2>2. CASE i = m
    <3>1. rob'[i] = [R[i] EXCEPT !.chk = FALSE] /\ R[i] \in Entry
      BY <1>5, <1>6, <2>2
    <3> QED BY <2>1, <3>1 DEF Entry
  <2>3. CASE i \in 1..(m - 1)
    BY <1>5, <2>1, <2>3
  <2> QED BY <2>1, <2>2, <2>3
<1> HIDE DEF m
<1>8. q \in Seq(Entry) /\ Len(q) = m - 1 /\ \A j \in 1..(m - 1) : q[j] = R[j]
  <2>1. m - 1 \in 0..Len(R)
    BY <1>5, <1>6
  <2> QED BY <1>5, <2>1, SplitAt
<1>9. /\ Prefix(rob, k - 1) = P \o q
      /\ Overlay(cr, Prefix(rob, k - 1)) = Overlay(new, q)
      /\ Dests(Prefix(rob, k - 1)) = Dests(P) \union Dests(q)
  <2>1. Prefix(rob, k - 1) = P \o q
    <3>1. Prefix(rob, c + m - 1) = P \o Prefix(R, m - 1)
      BY <1>2, <1>6
    <3> QED BY <1>6, <3>1
  <2> HIDE DEF q
  <2>2. Overlay(cr, P \o q) = Overlay(Overlay(cr, P), q)
    BY <1>5, <1>8, OverlayConcat
  <2>3. Dests(P \o q) = Dests(P) \union Dests(q)
    BY <1>5, <1>8, DestsConcat
  <2> QED BY <2>1, <2>2, <2>3 DEF new
\* The branch writes no register.
<1>10. /\ Overlay(new, rob') = Overlay(new, q)
       /\ Dests(rob') = Dests(q)
  <2>1. ~rob'[m].wr
    BY <1>3, <1>6, <1>7
  <2>2. \A i \in 1..m : i = m \/ (i \in 1..(m - 1) /\ rob'[i].wr = q[i].wr
                     /\ rob'[i].rd = q[i].rd /\ rob'[i].pdst = q[i].pdst)
    <3>1. \A i \in 1..m : i = m \/ i \in 1..(m - 1)
      BY <1>6
    <3> QED BY <1>7, <1>8, <3>1
  <2>3. \A i \in 1..(m - 1) : i \in 1..m /\ i # m
    BY <1>6
  <2> HIDE DEF q
  <2>4. ASSUME NEW a \in Arch PROVE Writers(rob', a) = Writers(q, a)
    <3>1. Writers(rob', a) = {i \in 1..m : rob'[i].wr /\ rob'[i].rd = a}
      BY <1>5 DEF Writers
    <3>2. Writers(q, a) = {i \in 1..(m - 1) : q[i].wr /\ q[i].rd = a}
      BY <1>8, LenProperties DEF Writers
    <3> QED BY <2>1, <2>2, <2>3, <3>1, <3>2
  <2>5. ASSUME NEW a \in Arch PROVE Overlay(new, rob')[a] = Overlay(new, q)[a]
    <3>1. CASE Writers(q, a) = {}
      BY <1>5, <1>8, <2>4, <3>1, OverlayUnwritten
    <3>2. CASE Writers(q, a) # {}
      <4>1. PICK l \in Writers(q, a) : \A j \in Writers(q, a) : j <= l
        BY <1>8, <3>2, LastWriter
      <4>2. l \in 1..(m - 1)
        BY <1>8, WritersAreSlots
      <4>3. Overlay(new, q)[a] = q[l].pdst
        BY <1>8, <4>1, OverlayWritten
      <4>4. Overlay(new, rob')[a] = rob'[l].pdst
        BY <1>5, <2>4, <4>1, OverlayWritten
      <4> QED BY <2>2, <2>3, <4>2, <4>3, <4>4
    <3> QED BY <3>1, <3>2
  <2>6. Overlay(new, rob') = Overlay(new, q)
    BY <2>5 DEF Overlay
  <2>7. \A p : p \in Dests(rob') <=> \E i \in 1..m : rob'[i].wr /\ rob'[i].pdst = p
    BY <1>5, OldsAndDests
  <2>8. \A p : p \in Dests(q) <=> \E i \in 1..(m - 1) : q[i].wr /\ q[i].pdst = p
    BY <1>8, OldsAndDests
  <2>9. \A p : p \in Dests(rob') <=> p \in Dests(q)
    BY <2>1, <2>2, <2>3, <2>7, <2>8
  <2> QED BY <2>6, <2>9
<1>11. MapIsProgramOrder' /\ CommittedMapsAgree'
  <2>1. ckptTable[id] = Overlay(cr, Prefix(rob, k - 1))
    BY <1>3, <1>5 DEF CheckpointInv, CheckpointImages, id, cr
  <2>2. rat' = Overlay(new, rob')
    BY <1>3, <1>9, <1>10, <2>1
  <2> QED BY <1>3, <1>4, <2>2 DEF MapIsProgramOrder, CommittedMapsAgree, new
<1>12. SourcesNameProducers'
  <2>1. ASSUME NEW i \in DOMAIN rob'
        PROVE /\ rob'[i].src = Overlay(committedRat', Prefix(rob', i - 1))[rob'[i].rs]
              /\ rob'[i].wr => rob'[i].old
                    = Overlay(committedRat', Prefix(rob', i - 1))[rob'[i].rd]
    <3>1. i \in 1..m /\ i \in 1..Len(R)
      BY <1>5, <1>7
    <3>2. Prefix(rob', i - 1) = Prefix(R, i - 1)
      BY <1>5, <3>1
    <3>3. /\ R[i].src = Overlay(new, Prefix(R, i - 1))[R[i].rs]
          /\ R[i].wr => R[i].old = Overlay(new, Prefix(R, i - 1))[R[i].rd]
      BY <1>2, <3>1
    <3>4. /\ rob'[i].wr = R[i].wr /\ rob'[i].rd = R[i].rd /\ rob'[i].rs = R[i].rs
          /\ rob'[i].old = R[i].old /\ rob'[i].src = R[i].src
      BY <1>7, <3>1
    <3> QED BY <1>3, <3>2, <3>3, <3>4
  <2> QED BY <2>1 DEF SourcesNameProducers
<1>13. freeBitmap' \cap Live' = {}
  <2>1. Live' = Hardwired \union Image(new) \union Dests(q)
    BY <1>3, <1>10 DEF Live
  <2>2. /\ ckptBitmap[id] \cap (Image(cr) \union Dests(Prefix(rob, k - 1))) = {}
        /\ Dests(Prefix(rob, k - 1)) \ Hardwired \subseteq ckptCommitted[id]
    BY <1>3, <1>5, Zenon DEF BitmapsBefore, id, cr
  <2>3. ckptBitmap[id] \cap Hardwired = {}
    <3>1. id \in Slots
      BY <1>6 DEF Entry, id
    <3> QED BY <3>1 DEF TypeOK
  <2>4. CommittedBitmapNext(P) = Pregs \ (Hardwired \union Image(new))
    BY <1>4 DEF CommittedBitmapNext, CommittedBitmap, new
  <2> HIDE DEF q
  <2>5. ckptBitmap[id] \cap (Hardwired \union Image(new) \union Dests(q)) = {}
    BY <1>2, <1>9, <2>2, <2>3
  <2>6. (CommittedBitmapNext(P) \ ckptCommitted[id])
            \cap (Hardwired \union Image(new) \union Dests(q)) = {}
    BY <1>9, <2>2, <2>4
  <2> QED BY <1>3, <2>1, <2>5, <2>6
<1>14. NoDoubleAllocation'
  <2>1. \A a, b \in Arch : a # b /\ new[a] \notin Hardwired => new[a] # new[b]
    BY <1>2 DEF Unshared
  <2>2. ASSUME NEW i \in DOMAIN rob', NEW j \in DOMAIN rob', i # j, rob'[i].wr,
               rob'[j].wr, rob'[i].pdst \notin Hardwired
        PROVE rob'[i].pdst # rob'[j].pdst
    <3>1. /\ i \in 1..Len(R) /\ rob'[i].wr = R[i].wr /\ rob'[i].pdst = R[i].pdst
          /\ j \in 1..Len(R) /\ rob'[j].wr = R[j].wr /\ rob'[j].pdst = R[j].pdst
      BY <1>5, <1>7
    <3> QED BY <1>2, <2>2, <3>1 DEF Unshared
  <2>3. \A i \in DOMAIN rob' :
           rob'[i].wr /\ rob'[i].pdst \notin Hardwired => rob'[i].pdst \notin Image(new)
    BY <1>2, <1>5, <1>7 DEF Unshared
  <2> QED BY <1>3, <1>13, <2>1, <2>2, <2>3 DEF NoDoubleAllocation
<1> QED BY <1>11, <1>12, <1>14 DEF OrderInv


\* An entry with a checkpoint after a recovery is one older than the branch.
LEMMA RecoveredOwner ==
  ASSUME TypeOK, NEW c, NEW k, NEW P, NEW R, EntriesRecovered(c, k, P, R),
         NEW i \in DOMAIN rob', rob'[i].chk
  PROVE /\ i \in 1..(k - c) /\ i \in 1..Len(R) /\ rob'[i] = R[i] /\ rob'[i] = rob[c + i]
        /\ c + i \in DOMAIN rob /\ c + i < k /\ rob[c + i].chk /\ k \in DOMAIN rob
        /\ rob[c + i].cid \in Slots /\ rob[k].cid \in Slots
<1> DEFINE m == k - c
<1>1. /\ Len(R) = Len(rob) - c /\ rob \in Seq(Entry) /\ Len(rob) \in Nat
      /\ DOMAIN rob = 1..Len(rob) /\ R \in Seq(Entry)
      /\ c \in Nat /\ k \in 1..Len(rob) /\ c < k
      /\ \A j \in 1..Len(R) : R[j] = rob[c + j]
      /\ DOMAIN rob' = 1..m
      /\ \A j \in 1..(m - 1) : rob'[j] = R[j]
      /\ rob'[m] = [R[m] EXCEPT !.chk = FALSE]
  BY DEF EntriesRecovered
<1>2. m \in 1..Len(R) /\ m \in Nat
  BY <1>1
<1> HIDE DEF m
<1>3. ~rob'[m].chk
  <2>1. R[m] \in Entry
    BY <1>1, <1>2, ElementOfSeq
  <2> QED BY <1>1, <2>1 DEF Entry
<1>4. i \in 1..(m - 1) /\ i \in 1..Len(R) /\ i \in 1..m
  <2>1. i \in 1..m /\ i # m
    BY <1>1, <1>3
  <2>2. Len(R) \in Nat
    BY <1>1, <1>2
  <2> QED BY <1>2, <2>1, <2>2
<1>5. rob'[i] = R[i] /\ R[i] = rob[c + i]
  BY <1>1, <1>4
<1>6. c + i \in 1..Len(rob) /\ c + i < k
  BY <1>1, <1>4 DEF m
<1>7. \A j \in 1..Len(rob) : rob[j].cid \in Slots
  <2>1. \A j \in 1..Len(rob) : rob[j] \in Entry
    BY <1>1, ElementOfSeq
  <2> QED BY <2>1 DEF Entry
<1> QED BY <1>1, <1>4, <1>5, <1>6, <1>7 DEF m

\* The keep mask of a restore holds an older branch's slot, and no younger one's
\* nor the branch's own.
LEMMA KeepsOlder ==
  ASSUME TypeOK, AgesOrdered, AgesTell, NEW i \in DOMAIN rob, NEW k \in DOMAIN rob,
         rob[i].chk, rob[k].chk, rob[i].cid \in Slots, rob[k].cid \in Slots
  PROVE RestoreDelta(rob[k].cid, rob[i].cid) \in 1..(NumCheckpoints - 1) <=> i < k
<1> DEFINE a == Age(rob[i].cid)
           b == Age(rob[k].cid)
           d == RestoreDelta(rob[k].cid, rob[i].cid)
           M == SeqModulus
<1>1. a \in 1..NumCheckpoints /\ b \in 1..NumCheckpoints
  BY DEF AgesTell
<1>2. d = IF a >= b THEN a - b ELSE a - b + M
  BY DeltaIs
<1>3. M = 2 * NumCheckpoints /\ NumCheckpoints \in Nat \ {0}
  BY RegMapAssumption DEF SeqModulus
<1>4. (i < k => b < a) /\ (k < i => a < b) /\ (i = k => a = b)
  BY DEF AgesOrdered
<1>5. i \in Int /\ k \in Int
  <2>1. DOMAIN rob = 1..Len(rob)
    BY LenProperties DEF TypeOK
  <2> QED BY <2>1
<1> HIDE DEF a, b, d, M
<1>6. d \in 1..(NumCheckpoints - 1) <=> i < k
  BY <1>1, <1>2, <1>3, <1>4, <1>5
<1> QED BY <1>6 DEF d

\* A recovery keeps the checkpoints accounted for: the keep mask holds the
\* slots of the branches that stay, and nothing else.
LEMMA RecoverKeepsCheckpoints ==
  ASSUME TypeOK, OrderInv, CheckpointInv, AgesOrdered, AgesTell,
         NEW c \in CommitCounts, NEW k \in DOMAIN rob, Recover(c, k)
  PROVE CheckpointInv'
<1> DEFINE P == Committing(c)
           R == Remaining(c)
           new == Overlay(committedRat, P)
           id == rob[k].cid
<1>1. EntriesRecovered(c, k, P, R)
  BY RecoverEntries
<1>2. /\ occupied' = KeepMask(Released(P), id)
      /\ ckptTable' = ckptTable /\ committedRat' = new /\ rob[k].chk
  BY DEF Recover, CkptRestore, RatRestore, Committing
<1>3. /\ P \in Seq(Entry) /\ Len(P) = c /\ DOMAIN rob = 1..Len(rob) /\ Len(rob) \in Nat
      /\ c \in Nat /\ k \in 1..Len(rob) /\ rob' \in Seq(Entry) /\ rob \in Seq(Entry)
      /\ Len(R) = Len(rob) - c
      /\ \A i \in 1..c : P[i] = rob[i]
      /\ DOMAIN rob' = 1..(k - c) /\ Len(rob') = k - c
      /\ \A i \in 1..Len(R) : R[i] = rob[c + i]
      /\ \A i \in 1..(k - c - 1) : rob'[i] = R[i]
      /\ \A i \in 1..(k - c) : Prefix(rob', i - 1) = Prefix(R, i - 1)
  BY <1>1 DEF EntriesRecovered
<1>4. \A i \in 1..Len(R) : /\ Prefix(R, i - 1) \in Seq(Entry)
                           /\ Prefix(rob, c + i - 1) = P \o Prefix(R, i - 1)
  BY RemainingReady
<1>5. \A s : s \in Released(P) <=> \E j \in 1..Len(P) : P[j].chk /\ P[j].cid = s
  BY <1>3, ReleasedBy
<1> HIDE DEF P, R, new, id
<1>6. ASSUME NEW i \in DOMAIN rob', rob'[i].chk
      PROVE /\ i \in 1..(k - c) /\ i \in 1..Len(R) /\ rob'[i] = rob[c + i]
            /\ c + i \in DOMAIN rob /\ c + i < k /\ rob[c + i].chk
            /\ rob[c + i].cid \in Slots /\ id \in Slots
  BY <1>1, <1>6, RecoveredOwner DEF id
<1>7. ASSUME NEW i \in DOMAIN rob', rob'[i].chk PROVE rob'[i].cid \in occupied'
  <2> DEFINE j == c + i
  <2>1. /\ rob'[i] = rob[j] /\ j \in DOMAIN rob /\ j < k /\ rob[j].chk
        /\ rob[j].cid \in Slots /\ id \in Slots
    BY <1>6, <1>7
  <2>2. c < j
    BY <1>3, <1>6, <1>7
  <2> HIDE DEF j
  <2>3. rob[j].cid \in occupied
    BY <2>1 DEF CheckpointInv, CheckpointsOwned
  <2>4. ASSUME NEW n \in 1..Len(P), P[n].chk PROVE P[n].cid # rob[j].cid
    <3>1. n \in DOMAIN rob /\ P[n] = rob[n] /\ n # j
      BY <1>3, <2>1, <2>2
    <3> QED BY <2>1, <2>4, <3>1 DEF CheckpointInv, CheckpointsOwned
  <2>5. RestoreDelta(id, rob[j].cid) \in 1..(NumCheckpoints - 1)
    BY <1>2, <2>1, KeepsOlder DEF id
  <2> QED BY <1>2, <1>5, <2>1, <2>3, <2>4, <2>5 DEF KeepMask
<1>8. ASSUME NEW i \in DOMAIN rob', NEW j \in DOMAIN rob', i # j,
             rob'[i].chk, rob'[j].chk
      PROVE rob'[i].cid # rob'[j].cid
  <2>1. /\ rob'[i] = rob[c + i] /\ c + i \in DOMAIN rob /\ rob[c + i].chk
        /\ rob'[j] = rob[c + j] /\ c + j \in DOMAIN rob /\ rob[c + j].chk
        /\ i \in 1..(k - c) /\ j \in 1..(k - c)
    BY <1>6, <1>8
  <2>2. c + i # c + j
    BY <1>3, <1>8, <2>1
  <2> QED BY <2>1, <2>2 DEF CheckpointInv, CheckpointsOwned
<1>9. CheckpointsOwned'
  BY <1>7, <1>8 DEF CheckpointsOwned
<1>10. ASSUME NEW s \in occupied' PROVE s \in Released(rob')
  <2>1. /\ s \in occupied /\ s \notin Released(P)
        /\ RestoreDelta(id, s) \in 1..(NumCheckpoints - 1)
    BY <1>2 DEF KeepMask
  <2>2. s \in Released(rob) /\ s \in Slots
    BY <2>1 DEF CheckpointInv, NoLostCheckpoint, TypeOK
  <2>3. PICK i \in 1..Len(rob) : rob[i].chk /\ rob[i].cid = s
    BY <1>3, <2>2, ReleasedBy
  <2>4. id \in Slots
    <3>1. rob[k] \in Entry
      BY <1>3, ElementOfSeq
    <3> QED BY <3>1 DEF Entry, id
  <2>5. i < k
    BY <1>2, <1>3, <2>1, <2>2, <2>3, <2>4, KeepsOlder DEF id
  <2>6. ~(i <= c)
    <3>1. SUFFICES ASSUME i <= c PROVE FALSE
      OBVIOUS
    <3>2. i \in 1..Len(P) /\ P[i] = rob[i]
      BY <1>3, <3>1
    <3> QED BY <1>5, <2>1, <2>3, <3>2
  <2> DEFINE n == i - c
  <2>7. /\ n \in 1..(k - c - 1) /\ n \in 1..Len(R) /\ c + n = i
        /\ n \in 1..Len(rob')
    BY <1>3, <2>5, <2>6
  <2> HIDE DEF n
  <2>8. rob'[n] = rob[i]
    BY <1>3, <2>7
  <2> QED BY <1>3, <2>3, <2>7, <2>8, ReleasedBy
<1>11. NoLostCheckpoint'
  <2>1. occupied' \subseteq Released(rob')
    BY <1>10
  <2> QED BY <2>1 DEF NoLostCheckpoint
<1>12. ASSUME NEW i \in DOMAIN rob', rob'[i].chk
       PROVE ckptTable'[rob'[i].cid] = Overlay(committedRat', Prefix(rob', i - 1))
  <2> DEFINE j == c + i
  <2>1. /\ rob'[i] = rob[j] /\ j \in DOMAIN rob /\ rob[j].chk
        /\ i \in 1..(k - c) /\ i \in 1..Len(R)
    BY <1>6, <1>12
  <2>2. Prefix(rob, j - 1) = P \o Prefix(R, i - 1) /\ Prefix(R, i - 1) \in Seq(Entry)
    <3>1. c + i - 1 = j - 1
      BY <1>3, <2>1
    <3> HIDE DEF j
    <3> QED BY <1>4, <2>1, <3>1
  <2> HIDE DEF j
  <2>3. ckptTable[rob[j].cid] = Overlay(committedRat, Prefix(rob, j - 1))
    BY <2>1 DEF CheckpointInv, CheckpointImages
  <2>4. Overlay(committedRat, P \o Prefix(R, i - 1)) = Overlay(new, Prefix(R, i - 1))
    BY <1>3, <2>2, OverlayConcat DEF new
  <2>5. Prefix(rob', i - 1) = Prefix(R, i - 1)
    BY <1>3, <2>1
  <2> QED BY <1>2, <2>1, <2>2, <2>3, <2>4, <2>5
<1>13. CheckpointImages'
  BY <1>12 DEF CheckpointImages
<1> QED BY <1>9, <1>11, <1>13 DEF CheckpointInv

\* A recovery moves no sequence number, and no bitmap: what stays keeps its age
\* and its share.
LEMMA RecoverKeepsAgesAndBitmaps ==
  ASSUME TypeOK, OrderInv, CheckpointInv, AgesOrdered, BitmapsBefore,
         NEW c \in CommitCounts, NEW k \in DOMAIN rob, Recover(c, k)
  PROVE AgesOrdered' /\ BitmapsBefore'
<1> DEFINE P == Committing(c)
           R == Remaining(c)
           new == Overlay(committedRat, P)
<1>1. EntriesRecovered(c, k, P, R)
  BY RecoverEntries
<1>2. /\ slotSeq' = slotSeq /\ nextSeq' = nextSeq /\ committedRat' = new
      /\ ckptBitmap' = ckptBitmap /\ ckptCommitted' = ckptCommitted
  BY DEF Recover, CkptRestore, RatRestore, FLRestore, Committing
<1>3. /\ P \in Seq(Entry) /\ c \in Nat /\ k \in Int
      /\ \A i \in 1..(k - c) : Prefix(rob', i - 1) = Prefix(R, i - 1)
  BY <1>1 DEF EntriesRecovered
<1>4. /\ \A i \in 1..Len(R) : /\ Prefix(R, i - 1) \in Seq(Entry)
                              /\ Prefix(rob, c + i - 1) = P \o Prefix(R, i - 1)
      /\ Image(new) \union Olds(P) = Image(committedRat) \union Dests(P)
  BY RemainingReady
<1> HIDE DEF P, R, new
<1>5. ASSUME NEW i \in DOMAIN rob', rob'[i].chk
      PROVE /\ i \in 1..(k - c) /\ i \in 1..Len(R) /\ rob'[i] = rob[c + i]
            /\ c + i \in DOMAIN rob /\ rob[c + i].chk
  BY <1>1, <1>5, RecoveredOwner
<1>6. \A s : NextAge(s) = Age(s)
  BY <1>2 DEF NextAge, Age
<1>7. ASSUME NEW i \in DOMAIN rob', NEW j \in DOMAIN rob', i < j,
             rob'[i].chk, rob'[j].chk
      PROVE NextAge(rob'[j].cid) < NextAge(rob'[i].cid)
  <2>1. /\ rob'[i] = rob[c + i] /\ c + i \in DOMAIN rob /\ rob[c + i].chk
        /\ rob'[j] = rob[c + j] /\ c + j \in DOMAIN rob /\ rob[c + j].chk
        /\ i \in 1..(k - c) /\ j \in 1..(k - c)
    BY <1>5, <1>7
  <2>2. c + i < c + j
    BY <1>3, <1>7, <2>1
  <2> QED BY <1>6, <2>1, <2>2 DEF AgesOrdered
<1>8. AgesOrdered'
  BY <1>7, NextAges
<1>9. ASSUME NEW i \in DOMAIN rob', rob'[i].chk
      PROVE /\ ckptBitmap'[rob'[i].cid]
                  \cap (Image(committedRat') \union Dests(Prefix(rob', i - 1))) = {}
            /\ Dests(Prefix(rob', i - 1)) \ Hardwired \subseteq ckptCommitted'[rob'[i].cid]
  <2> DEFINE j == c + i
             q == Prefix(R, i - 1)
             s == rob'[i].cid
  <2>1. /\ rob'[i] = rob[j] /\ j \in DOMAIN rob /\ rob[j].chk
        /\ i \in 1..(k - c) /\ i \in 1..Len(R)
    BY <1>5, <1>9
  <2>2. Prefix(rob, j - 1) = P \o q /\ q \in Seq(Entry)
    <3>1. c + i - 1 = j - 1
      BY <1>3, <2>1
    <3> HIDE DEF j
    <3> QED BY <1>4, <2>1, <3>1
  <2>3. Prefix(rob', i - 1) = q
    BY <1>3, <2>1
  <2> HIDE DEF j, q
  <2>4. Dests(P \o q) = Dests(P) \union Dests(q)
    BY <1>3, <2>2, DestsConcat
  <2>5. /\ ckptBitmap[s] \cap (Image(committedRat) \union Dests(Prefix(rob, j - 1))) = {}
        /\ Dests(Prefix(rob, j - 1)) \ Hardwired \subseteq ckptCommitted[s]
    BY <2>1, Zenon DEF BitmapsBefore
  <2> HIDE DEF s
  <2>6. /\ ckptBitmap'[s] \cap (Image(committedRat') \union Dests(q)) = {}
        /\ Dests(q) \ Hardwired \subseteq ckptCommitted'[s]
    BY <1>2, <1>4, <2>2, <2>4, <2>5
  <2> QED BY <2>3, <2>6 DEF s
<1>10. BitmapsBefore'
  BY <1>9 DEF BitmapsBefore
<1> QED BY <1>8, <1>10

\* Every step of the clock keeps the four together, as long as the ages tell.
LEMMA RecoveryInvInductive == Spec /\ []AgesTell => []RecoveryInv
<1>1. Init => RecoveryInv
  <2> SUFFICES ASSUME Init PROVE RecoveryInv
    OBVIOUS
  <2>1. OrderInv
    BY RegistersAtReset DEF RegisterInv
  <2>2. DOMAIN rob = {} /\ occupied = {}
    <3>1. rob = <<>> /\ occupied = {}
      BY DEF Init, CkptInit
    <3> QED BY <3>1
  <2> QED BY <2>1, <2>2
          DEF RecoveryInv, CheckpointInv, CheckpointsOwned, NoLostCheckpoint,
              CheckpointImages, AgesOrdered, BitmapsBefore
<1>2. TypeOK /\ TypeOK' /\ AgesTell /\ AgesTell' /\ RecoveryInv /\ [Next]_vars
         => RecoveryInv'
  <2> SUFFICES ASSUME TypeOK, TypeOK', AgesTell, AgesTell', RecoveryInv, [Next]_vars
               PROVE RecoveryInv'
    OBVIOUS
  <2>0. /\ OrderInv /\ MapIsProgramOrder /\ CheckpointInv
        /\ AgesOrdered /\ BitmapsBefore
    BY DEF RecoveryInv, OrderInv
  <2>1. ASSUME NEW c \in CommitCounts, NEW g \in Groups, Cycle(c, g)
        PROVE RecoveryInv'
    <3>1. OrderInv'
      BY <2>0, <2>1, CycleKeepsRegisters
    <3>2. CheckpointInv'
      BY <2>0, <2>1, CycleKeepsCheckpoints
    <3>3. AgesOrdered'
      BY <2>0, <2>1, CycleKeepsAges
    <3>4. BitmapsBefore'
      BY <2>0, <2>1, CycleKeepsBitmaps
    <3> QED BY <3>1, <3>2, <3>3, <3>4 DEF RecoveryInv
  <2>2. ASSUME NEW c \in CommitCounts, Flush(c) PROVE RecoveryInv'
    <3>1. OrderInv'
      BY <2>0, <2>2, FlushKeepsRegisters DEF RegisterInv
    <3>2. rob' = <<>> /\ occupied' = {}
      BY <2>2 DEF Flush, CkptFlush
    <3>3. DOMAIN rob' = {}
      BY <3>2
    <3> QED BY <3>1, <3>2, <3>3
            DEF RecoveryInv, CheckpointInv, CheckpointsOwned, NoLostCheckpoint,
                CheckpointImages, AgesOrdered, BitmapsBefore
  <2>3. ASSUME NEW c \in CommitCounts, NEW k \in DOMAIN rob, Recover(c, k)
        PROVE RecoveryInv'
    <3>1. OrderInv'
      BY <2>0, <2>3, RecoverKeepsRegisters
    <3>2. CheckpointInv'
      BY <2>0, <2>3, RecoverKeepsCheckpoints
    <3>3. AgesOrdered' /\ BitmapsBefore'
      BY <2>0, <2>3, RecoverKeepsAgesAndBitmaps
    <3> QED BY <3>1, <3>2, <3>3 DEF RecoveryInv
  <2>4. CASE UNCHANGED vars
    BY <2>4, <2>0 DEF vars, flVars, ratVars, ckptVars, RecoveryInv, OrderInv,
                MapIsProgramOrder, CommittedMapsAgree, SourcesNameProducers,
                NoDoubleAllocation, Live, CheckpointInv, CheckpointsOwned,
                NoLostCheckpoint, CheckpointImages, Released, AgesOrdered, Age,
                BitmapsBefore
  <2> QED BY <2>1, <2>2, <2>3, <2>4 DEF Next
<1> QED BY <1>1, <1>2, TypeCorrect, PTL DEF Spec


\* Without recoveries nothing is saved and then discarded but by its branch: the
\* age of a branch's checkpoint is how many branches from it on hold one.
SlotsFrom(i) == {rob[j].cid : j \in {n \in DOMAIN rob : n >= i /\ rob[n].chk}}

AgesCount ==
    \A i \in DOMAIN rob :
        rob[i].chk => Age(rob[i].cid) = Cardinality(SlotsFrom(i))

\* Sets of checkpoint slots are small.
LEMMA SlotsFewer ==
  ASSUME NEW S \in SUBSET Slots
  PROVE IsFiniteSet(S) /\ Cardinality(S) \in 0..NumCheckpoints
<1>1. IsFiniteSet(Slots) /\ Cardinality(Slots) = NumCheckpoints
  BY RegMapAssumption, FS_Interval DEF Slots
<1> QED BY <1>1, FS_Subset, FS_CardinalityType, RegMapAssumption

\* Counted ages are within what a restore tells apart.
LEMMA CountedAgesTell == TypeOK /\ AgesCount => AgesTell
<1> SUFFICES ASSUME TypeOK, AgesCount, NEW i \in DOMAIN rob, rob[i].chk
             PROVE Age(rob[i].cid) \in 1..NumCheckpoints
  BY DEF AgesTell
<1>1. DOMAIN rob = 1..Len(rob) /\ \A j \in DOMAIN rob : rob[j].cid \in Slots
  <2>1. \A j \in DOMAIN rob : rob[j] \in Entry
    BY ElementOfSeq, LenProperties DEF TypeOK
  <2> QED BY <2>1, LenProperties DEF TypeOK, Entry
<1>2. SlotsFrom(i) \in SUBSET Slots /\ rob[i].cid \in SlotsFrom(i)
  BY <1>1 DEF SlotsFrom
<1>3. IsFiniteSet(SlotsFrom(i)) /\ Cardinality(SlotsFrom(i)) \in 0..NumCheckpoints
  BY <1>2, SlotsFewer
<1>4. Cardinality(SlotsFrom(i)) # 0
  BY <1>2, <1>3, FS_EmptySet
<1> QED BY <1>3, <1>4, RegMapAssumption DEF AgesCount

\* An ordinary cycle keeps the count.
LEMMA CycleKeepsCount ==
  ASSUME TypeOK, TypeOK', CheckpointInv, AgesCount,
         NEW c \in CommitCounts, NEW g \in Groups, Cycle(c, g)
  PROVE AgesCount'
<1>1. PICK ren \in Seq(Entry), save \in SUBSET Slots, id \in Slots, b \in Nat,
           taken \in SUBSET Pregs :
         /\ SavesFor(ren, Committing(c), save, id, b, taken)
         /\ EntriesAfter(c, ren, Committing(c), Remaining(c), save, id, b)
  BY CycleEntries DEF CheckpointInv
<1> DEFINE P == Committing(c)
           R == Remaining(c)
           from(i) == {rob'[j].cid : j \in {n \in DOMAIN rob' : n >= i /\ rob'[n].chk}}
<1> HIDE DEF P, R
<1>2. /\ P \in Seq(Entry) /\ R \in Seq(Entry)
      /\ c \in 0..Len(rob) /\ Len(rob) \in Nat /\ Len(R) = Len(rob) - c
      /\ DOMAIN rob = 1..Len(rob) /\ Len(R) \in Nat /\ Len(ren) \in Nat
      /\ \A i \in 1..Len(R) : R[i] = rob[c + i]
      /\ DOMAIN rob' = 1..Len(rob') /\ Len(rob') = Len(R) + Len(ren)
      /\ \A i \in 1..Len(R) : rob'[i] = R[i]
      /\ \A i \in 1..Len(ren) : rob'[Len(R) + i] = ren[i]
      /\ \A i \in 1..Len(R) : R[i].chk => R[i].cid \in Slots /\ R[i].cid \notin save
      /\ \A i \in 1..Len(rob') : rob'[i].chk =>
            \/ i \in 1..Len(R) /\ rob'[i] = R[i] /\ R[i].chk
            \/ i = Len(R) + b /\ save = {id} /\ b \in 1..Len(ren)
                  /\ rob'[i] = ren[b] /\ ren[b].cid = id
  BY <1>1, Zenon DEF EntriesAfter, P, R
<1>3. /\ save = {} \/ (save = {id} /\ b \in 1..Len(ren))
      /\ \A i \in 1..Len(ren) : ren[i].chk <=> save # {} /\ i = b
      /\ \A i \in 1..Len(ren) : ren[i].chk => ren[i].cid = id
  BY <1>1, Zenon DEF SavesFor
<1>4. /\ \A s \in Slots \ save :
              NextAge(s) = IF save = {} THEN Age(s)
                           ELSE IF Age(s) = SeqModulus - 1 THEN 0 ELSE Age(s) + 1
      /\ \A s \in save : NextAge(s) = 1
  BY <1>1, AgesAfter
<1>5. SeqModulus = 2 * NumCheckpoints /\ NumCheckpoints \in Nat \ {0}
  BY RegMapAssumption DEF SeqModulus
\* The branch that enters is a holder if there is a save.
<1>6. save = {id} => /\ Len(R) + b \in DOMAIN rob'
                     /\ rob'[Len(R) + b].chk /\ rob'[Len(R) + b].cid = id
  <2> SUFFICES ASSUME save = {id}
               PROVE /\ Len(R) + b \in DOMAIN rob'
                     /\ rob'[Len(R) + b].chk /\ rob'[Len(R) + b].cid = id
    OBVIOUS
  <2>1. b \in 1..Len(ren) /\ ren[b].chk /\ ren[b].cid = id
    BY <1>3
  <2>2. rob'[Len(R) + b] = ren[b]
    BY <1>2, <2>1
  <2>3. Len(R) + b \in DOMAIN rob'
    <3>1. /\ Len(R) \in Nat /\ Len(ren) \in Nat
          /\ DOMAIN rob' = 1..Len(rob') /\ Len(rob') = Len(R) + Len(ren)
      BY <1>2
    <3> QED BY <2>1, <3>1
  <2> QED BY <2>1, <2>2, <2>3
<1>7. ASSUME NEW i \in 1..Len(R), R[i].chk
      PROVE /\ SlotsFrom(c + i) \in SUBSET (Slots \ save)
            /\ from(i) = SlotsFrom(c + i) \union save
            /\ c + i \in DOMAIN rob /\ rob[c + i] = R[i]
  <2>1. \A n \in DOMAIN rob : n >= c + i
           => n - c \in 1..Len(R) /\ n - c >= i /\ rob[n] = R[n - c] /\ rob'[n - c] = R[n - c]
    <3>1. SUFFICES ASSUME NEW n \in DOMAIN rob, n >= c + i
                   PROVE n - c \in 1..Len(R) /\ n - c >= i /\ rob[n] = R[n - c]
                           /\ rob'[n - c] = R[n - c]
      OBVIOUS
    <3>2. n - c \in 1..Len(R) /\ n - c >= i /\ c + (n - c) = n
      BY <1>2, <3>1
    <3> QED BY <1>2, <3>2
  <2>2. ASSUME NEW s \in SlotsFrom(c + i) PROVE s \in Slots \ save /\ s \in from(i)
    <3>1. PICK n \in DOMAIN rob : n >= c + i /\ rob[n].chk /\ rob[n].cid = s
      BY DEF SlotsFrom
    <3>2. /\ n - c \in 1..Len(R) /\ n - c >= i /\ rob[n] = R[n - c]
          /\ rob'[n - c] = R[n - c] /\ n - c \in DOMAIN rob'
      BY <1>2, <2>1, <3>1
    <3> QED BY <1>2, <3>1, <3>2
  <2>3. ASSUME NEW s \in save PROVE s \in from(i)
    <3>1. save = {id} /\ s = id /\ Len(R) + b >= i
      BY <1>2, <1>3, <2>3
    <3> QED BY <1>6, <3>1
  <2>4. ASSUME NEW s \in from(i) PROVE s \in SlotsFrom(c + i) \union save
    <3>1. PICK n \in DOMAIN rob' : n >= i /\ rob'[n].chk /\ rob'[n].cid = s
      OBVIOUS
    <3>2. CASE n \in 1..Len(R) /\ rob'[n] = R[n] /\ R[n].chk
      <4>1. c + n \in DOMAIN rob /\ c + n >= c + i /\ rob[c + n] = R[n]
        <5>1. rob[c + n] = R[n]
          BY <1>2, <3>2
        <5>2. c \in Int /\ i \in Int /\ n \in Int /\ n >= i /\ n \in 1..Len(R)
          BY <1>2, <3>1, <3>2
        <5>3. c + n >= c + i
          BY <5>2
        <5>4. c + n \in DOMAIN rob
          BY <1>2, <5>2
        <5> QED BY <5>1, <5>3, <5>4
      <4>2. s \in SlotsFrom(c + i)
        BY <3>1, <3>2, <4>1 DEF SlotsFrom
      <4> QED BY <4>2
    <3>3. CASE save = {id} /\ rob'[n].cid = id
      BY <3>1, <3>3
    <3> QED BY <1>2, <3>1, <3>2, <3>3
  <2>5. c + i \in DOMAIN rob /\ rob[c + i] = R[i]
    BY <1>2
  <2> HIDE DEF from
  <2> QED BY <2>2, <2>3, <2>4, <2>5
<1>8. ASSUME NEW i \in DOMAIN rob', rob'[i].chk
      PROVE NextAge(rob'[i].cid) = Cardinality(from(i))
  <2>1. CASE i \in 1..Len(R) /\ rob'[i] = R[i] /\ R[i].chk
    <3> DEFINE s == R[i].cid
               S == SlotsFrom(c + i)
    <3>1. S \in SUBSET (Slots \ save) /\ from(i) = S \union save /\ Age(s) = Cardinality(S)
      BY <1>7, <2>1 DEF AgesCount
    <3>2. s \in Slots \ save /\ s = rob'[i].cid
      BY <1>2, <2>1
    <3> HIDE DEF s, S, from
    <3>3. IsFiniteSet(S) /\ Cardinality(S) \in 0..NumCheckpoints
      BY <3>1, SlotsFewer
    <3>4. CASE save = {}
      BY <1>4, <3>1, <3>2, <3>4
    <3>5. CASE save = {id}
      <4>1. id \notin S /\ S \union {id} \in SUBSET Slots
        BY <3>1, <3>5
      <4>2. Cardinality(S \union {id}) = Cardinality(S) + 1
        BY <3>3, <4>1, FS_AddElement
      <4>3. Cardinality(S \union {id}) \in 0..NumCheckpoints
        BY <4>1, SlotsFewer
      <4>4. NextAge(s) = IF Age(s) = SeqModulus - 1 THEN 0 ELSE Age(s) + 1
        BY <1>4, <3>2, <3>5
      <4>5. Age(s) # SeqModulus - 1
        BY <1>5, <3>1, <3>3, <4>2, <4>3
      <4> QED BY <3>1, <3>2, <3>5, <4>2, <4>4, <4>5
    <3> QED BY <1>3, <3>4, <3>5
  <2>2. CASE i = Len(R) + b /\ save = {id} /\ rob'[i].cid = id
    <3>1. ASSUME NEW n \in DOMAIN rob', n >= i, rob'[n].chk PROVE rob'[n].cid = id
      <4>1. n \notin 1..Len(R)
        BY <1>2, <1>3, <2>2, <3>1
      <4> QED BY <1>2, <3>1, <4>1
    <3>2. \A s \in from(i) : s = id
      BY <3>1
    <3>3. id \in from(i)
      <4>1. i \in DOMAIN rob' /\ i >= i /\ rob'[i].chk
        BY <1>2, <1>8
      <4> QED BY <2>2, <4>1
    <3> HIDE DEF from
    <3>4. from(i) = {id}
      BY <3>2, <3>3
    <3> QED BY <1>4, <2>2, <3>4, FS_Singleton
  <2> QED BY <1>2, <1>8, <2>1, <2>2
<1>9. AgesCount' <=> \A i \in DOMAIN rob' :
                        rob'[i].chk => NextAge(rob'[i].cid) = Cardinality(from(i))
  BY DEF AgesCount, Age, NextAge, SeqModulus, SlotsFrom
<1> QED BY <1>8, <1>9

\* In the shipped configuration the ages always tell: partial recovery is off
\* (EXEC_PARTIAL_BRANCH_RECOVERY in rv64gc_core_top.sv), a sequence number is
\* given for each save, and no more branches hold a checkpoint than there are
\* slots.
THEOREM AgesAlwaysTell ==
  ASSUME MaxRecoveries = 0
  PROVE Spec => []AgesTell
<1>1. Init => AgesCount
  <2>1. SUFFICES ASSUME Init PROVE DOMAIN rob = {}
    BY DEF AgesCount
  <2>2. rob = <<>>
    BY <2>1 DEF Init
  <2> QED BY <2>2
<1>2. TypeOK /\ TypeOK' /\ CheckpointInv /\ AgesCount /\ [Next]_vars => AgesCount'
  <2> SUFFICES ASSUME TypeOK, TypeOK', CheckpointInv, AgesCount, [Next]_vars
               PROVE AgesCount'
    OBVIOUS
  <2>1. ASSUME NEW c \in CommitCounts, NEW g \in Groups, Cycle(c, g) PROVE AgesCount'
    BY <2>1, CycleKeepsCount
  <2>2. ASSUME NEW c \in CommitCounts, Flush(c) PROVE AgesCount'
    <3>1. rob' = <<>>
      BY <2>2 DEF Flush
    <3>2. DOMAIN rob' = {}
      BY <3>1
    <3> QED BY <3>2 DEF AgesCount
  <2>3. ASSUME NEW c \in CommitCounts, NEW k \in DOMAIN rob, Recover(c, k)
        PROVE FALSE
    BY <2>3 DEF Recover, TypeOK
  <2>4. CASE UNCHANGED vars
    BY <2>4 DEF vars, ckptVars, AgesCount, Age, SlotsFrom
  <2> QED BY <2>1, <2>2, <2>3, <2>4 DEF Next
<1>3. Spec => []AgesCount
  BY <1>1, <1>2, TypeCorrect, CheckpointInvInductive, PTL DEF Spec
<1> QED BY <1>3, TypeCorrect, CountedAgesTell, PTL

-----------------------------------------------------------------------------
(***************************************************************************)
(* The properties of the renaming loop, partial recoveries included.  Where *)
(* recovery is on they ask that the ages tell: section 6 of the README     *)
(* names the line of checkpoint.sv that fails when they do not.            *)
(***************************************************************************)

\* No recovery restores when the distance of sequence numbers takes a branch
\* in flight for a younger one: recovery is off, or the ages always tell.
RecoveriesInTime == MaxRecoveries = 0 \/ []AgesTell

LEMMA RecoveryInvAlways == Spec /\ RecoveriesInTime => []RecoveryInv
<1>1. MaxRecoveries = 0 => (Spec => []AgesTell)
  BY AgesAlwaysTell
<1> QED BY <1>1, RecoveryInvInductive, PTL DEF RecoveriesInTime

\* No physical register is ever handed out while a map or an instruction in
\* flight still holds it, across recoveries too, which give back a bitmap saved
\* when older instructions still held theirs (free_list.sv: the release of old
\* destinations, the priority encoder, the restored and the flush bitmap).
THEOREM NeverDoublyAllocated ==
  Spec /\ RecoveriesInTime => []NoDoubleAllocation
<1>1. RecoveryInv => NoDoubleAllocation
  BY DEF RecoveryInv, OrderInv
<1> QED BY <1>1, RecoveryInvAlways, PTL

\* At every cycle the speculative map is the committed map overlaid with the
\* instructions in flight, also the cycle after a recovery wrote a saved image
\* over it (rat.sv).
THEOREM MapFollowsProgramOrder ==
  Spec /\ RecoveriesInTime => []MapIsProgramOrder
<1>1. RecoveryInv => MapIsProgramOrder
  BY DEF RecoveryInv, OrderInv
<1> QED BY <1>1, RecoveryInvAlways, PTL

\* Each instruction in flight names the register of its producer and releases
\* the one its destination was mapped to before it: what is renamed after a
\* recovery reads the map of the branch that stays.
THEOREM SourcesAlwaysNameProducers ==
  Spec /\ RecoveriesInTime => []SourcesNameProducers
<1>1. RecoveryInv => SourcesNameProducers
  BY DEF RecoveryInv, OrderInv
<1> QED BY <1>1, RecoveryInvAlways, PTL

\* Every branch in flight that will release a checkpoint owns an occupied slot
\* and shares it with no other, so no release empties another's slot
\* (checkpoint.sv: save_id beside the releases and the restore of the same
\* cycle).
THEOREM CheckpointsAlwaysOwned ==
  Spec /\ RecoveriesInTime => []CheckpointsOwned
<1>1. RecoveryInv => CheckpointsOwned
  BY DEF RecoveryInv, CheckpointInv
<1> QED BY <1>1, RecoveryInvAlways, PTL

\* No slot stays occupied after its branch is gone: checkpoints do not leak,
\* however renaming, commits, recoveries and flushes interleave.
THEOREM CheckpointsNeverLost ==
  Spec /\ RecoveriesInTime => []NoLostCheckpoint
<1>1. RecoveryInv => NoLostCheckpoint
  BY DEF RecoveryInv, CheckpointInv
<1> QED BY <1>1, RecoveryInvAlways, PTL

\* The image of a branch in flight stays the map in program order just before it
\* while older instructions commit and slots are saved to: what a recovery
\* restores is right at every cycle.
THEOREM ImagesFollowProgramOrder ==
  Spec /\ RecoveriesInTime => []CheckpointImages
<1>1. RecoveryInv => CheckpointImages
  BY DEF RecoveryInv, CheckpointInv
<1> QED BY <1>1, RecoveryInvAlways, PTL

\* Only a partial recovery loses a register.
OnlyRecoveriesLose ==
    [][NoLostRegister /\ recoveries' = recoveries => NoLostRegister']_vars

\* A full flush finds again what was lost.
FlushesFind == [][\A c \in CommitCounts : Flush(c) => NoLostRegister']_vars

\* What a restore gives back may lack a register that was in flight at the save
\* (section 6 of the README).  Nothing else loses one, and the loss ends with the
\* next full flush, which makes the free list anew from the committed map
\* (free_list.sv: the restored bitmap and the flush bitmap).
THEOREM LossesEndWithAFlush ==
  Spec /\ RecoveriesInTime => OnlyRecoveriesLose /\ FlushesFind
<1> DEFINE Keeps == NoLostRegister /\ recoveries' = recoveries => NoLostRegister'
           Finds == \A c \in CommitCounts : Flush(c) => NoLostRegister'
<1>1. TypeOK /\ TypeOK' /\ RecoveryInv /\ [Next]_vars => [Keeps]_vars /\ [Finds]_vars
  <2> SUFFICES ASSUME TypeOK, TypeOK', RecoveryInv, Next
               PROVE Keeps /\ Finds
    OBVIOUS
  <2>1. OrderInv
    BY DEF RecoveryInv
  <2>2. ASSUME NEW c \in CommitCounts, Flush(c) PROVE NoLostRegister'
    <3>1. RegisterInv'
      BY <2>1, <2>2, FlushKeepsRegisters
    <3> QED BY <3>1 DEF RegisterInv
  <2>3. ASSUME NoLostRegister, recoveries' = recoveries PROVE NoLostRegister'
    <3>1. ASSUME NEW c \in CommitCounts, NEW g \in Groups, Cycle(c, g)
          PROVE NoLostRegister'
      BY <2>1, <2>3, <3>1, CycleKeepsRegisters
    <3>2. ASSUME NEW c \in CommitCounts, NEW k \in DOMAIN rob, Recover(c, k)
          PROVE FALSE
      <4>1. recoveries' = recoveries + 1 /\ recoveries \in Nat
        BY <3>2, RenameAssumption DEF Recover, TypeOK
      <4> QED BY <2>3, <4>1
    <3> QED BY <2>2, <3>1, <3>2 DEF Next
  <2> QED BY <2>2, <2>3
<1> HIDE DEF Keeps, Finds
<1>2. Spec /\ []TypeOK /\ []RecoveryInv => [][Keeps]_vars /\ [][Finds]_vars
  BY <1>1, PTL DEF Spec
<1>3. Spec /\ RecoveriesInTime => [][Keeps]_vars /\ [][Finds]_vars
  BY <1>2, TypeCorrect, RecoveryInvAlways, PTL
<1> QED BY <1>3 DEF Keeps, Finds, OnlyRecoveriesLose, FlushesFind

=============================================================================
