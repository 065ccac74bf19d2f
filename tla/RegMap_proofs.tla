---------------------------- MODULE RegMap_proofs ----------------------------
(***************************************************************************)
(* Facts about Overlay, the "latest enabled slot wins" loop: its type, its *)
(* value at a register, and that two groups written one after the other    *)
(* are one group.                                                          *)
(***************************************************************************)
EXTENDS RegMap, Extremes_proofs, SequenceTheorems

\* Latest picks the greatest member.
LEMMA LatestIsLast ==
  ASSUME NEW n \in Nat, NEW S \in SUBSET (1..n), S # {}
  PROVE Latest(S) \in S /\ \A j \in S : j <= Latest(S)
BY MaxExists DEF Latest

\* A member that nothing exceeds is the one Latest picks.
LEMMA LatestUnique ==
  ASSUME NEW n \in Nat, NEW S \in SUBSET (1..n), NEW m \in S, \A j \in S : j <= m
  PROVE Latest(S) = m
<1>1. S \subseteq Int
  OBVIOUS
<1>2. Latest(S) \in S /\ \A j \in S : j <= Latest(S)
  BY LatestIsLast
<1>3. Latest(S) \in Int /\ m \in Int
  BY <1>1, <1>2, Zenon
<1>4. m <= Latest(S) /\ Latest(S) <= m
  BY <1>2, Zenon
<1> QED BY <1>3, <1>4

\* The writers of a register are slots of the group, and the slots that name it.
LEMMA WritersAreSlots ==
  ASSUME NEW w \in Seq(Entry), NEW a \in Arch
  PROVE /\ Writers(w, a) \in SUBSET (1..Len(w)) /\ Len(w) \in Nat
        /\ \A i \in Writers(w, a) : w[i] \in Entry /\ w[i].wr /\ w[i].rd = a
        /\ \A i \in 1..Len(w) : w[i].wr /\ w[i].rd = a => i \in Writers(w, a)
BY DEF Writers

\* A register nobody in the group writes keeps its value.
LEMMA OverlayUnwritten ==
  ASSUME NEW map, NEW w \in Seq(Entry), NEW a \in Arch, Writers(w, a) = {}
  PROVE Overlay(map, w)[a] = map[a]
BY DEF Overlay

\* A register has the destination of its last writer in the group.
LEMMA OverlayWritten ==
  ASSUME NEW map, NEW w \in Seq(Entry), NEW a \in Arch,
         NEW l \in Writers(w, a), \A j \in Writers(w, a) : j <= l
  PROVE Overlay(map, w)[a] = w[l].pdst
<1>1. Latest(Writers(w, a)) = l
  BY WritersAreSlots, LatestUnique
<1> QED BY <1>1 DEF Overlay

\* A register written at all has a last writer.
LEMMA LastWriter ==
  ASSUME NEW w \in Seq(Entry), NEW a \in Arch, Writers(w, a) # {}
  PROVE \E l \in Writers(w, a) : \A j \in Writers(w, a) : j <= l
BY WritersAreSlots, MaxExists

\* A map overlaid with a group is a map.
LEMMA OverlayType ==
  ASSUME NEW map \in [Arch -> Pregs], NEW w \in Seq(Entry)
  PROVE Overlay(map, w) \in [Arch -> Pregs]
<1>1. ASSUME NEW a \in Arch PROVE Overlay(map, w)[a] \in Pregs
  <2>1. CASE Writers(w, a) = {}
    BY <2>1, OverlayUnwritten
  <2>2. CASE Writers(w, a) # {}
    <3>1. PICK l \in Writers(w, a) : \A j \in Writers(w, a) : j <= l
      BY <2>2, LastWriter
    <3>2. w[l] \in Entry
      BY WritersAreSlots
    <3>3. Overlay(map, w)[a] = w[l].pdst
      BY <3>1, OverlayWritten
    <3> QED BY <3>2, <3>3 DEF Entry
  <2> QED BY <2>1, <2>2
<1> QED BY <1>1 DEF Overlay

\* An empty group changes nothing.
LEMMA OverlayEmpty ==
  ASSUME NEW map \in [Arch -> Pregs]
  PROVE Overlay(map, <<>>) = map
<1>1. <<>> \in Seq(Entry) /\ \A a \in Arch : Writers(<<>>, a) = {}
  BY DEF Writers
<1> QED BY <1>1 DEF Overlay

\* Two groups with the same writes leave the same map.
LEMMA OverlayAgrees ==
  ASSUME NEW map, NEW u \in Seq(Entry), NEW v \in Seq(Entry), Len(u) = Len(v),
         \A i \in 1..Len(u) : u[i].wr = v[i].wr /\ u[i].rd = v[i].rd
                                /\ u[i].pdst = v[i].pdst
  PROVE Overlay(map, u) = Overlay(map, v)
<1>1. ASSUME NEW a \in Arch
      PROVE Overlay(map, u)[a] = Overlay(map, v)[a]
  <2>1. Writers(u, a) = Writers(v, a)
    <3>1. DOMAIN u = 1..Len(u) /\ DOMAIN v = 1..Len(u)
      OBVIOUS
    <3>2. \A i \in DOMAIN u : (u[i].wr /\ u[i].rd = a) <=> (v[i].wr /\ v[i].rd = a)
      BY <3>1
    <3> QED BY <3>1, <3>2, Zenon DEF Writers
  <2>2. CASE Writers(u, a) = {}
    <3>1. Overlay(map, u)[a] = map[a]
      BY <2>2, OverlayUnwritten
    <3>2. Writers(v, a) = {}
      BY <2>1, <2>2
    <3> QED BY <3>1, <3>2, OverlayUnwritten
  <2>3. CASE Writers(u, a) # {}
    <3>1. PICK l \in Writers(u, a) : \A j \in Writers(u, a) : j <= l
      BY <2>3, LastWriter
    <3>2. Overlay(map, u)[a] = u[l].pdst
      BY <3>1, OverlayWritten
    <3>4. l \in Writers(v, a) /\ \A j \in Writers(v, a) : j <= l
      BY <2>1, <3>1
    <3>5. Overlay(map, v)[a] = v[l].pdst
      BY <3>4, OverlayWritten
    <3>3. l \in 1..Len(u)
      BY WritersAreSlots
    <3> QED BY <3>2, <3>3, <3>5
  <2> QED BY <2>2, <2>3
<1> QED BY <1>1 DEF Overlay

\* Two groups written one after the other are one group.
LEMMA OverlayConcat ==
  ASSUME NEW map, NEW u \in Seq(Entry), NEW v \in Seq(Entry)
  PROVE Overlay(map, u \o v) = Overlay(Overlay(map, u), v)
<1> DEFINE w == u \o v
<1>1. /\ w \in Seq(Entry) /\ Len(w) = Len(u) + Len(v)
      /\ Len(u) \in Nat /\ Len(v) \in Nat
      /\ \A i \in 1..Len(u) : w[i] = u[i]
      /\ \A i \in 1..Len(v) : w[Len(u) + i] = v[i]
  OBVIOUS
<1> HIDE DEF w
<1>2. ASSUME NEW a \in Arch
      PROVE Overlay(map, w)[a] = Overlay(Overlay(map, u), v)[a]
  <2>1. ASSUME NEW i \in Writers(w, a)
        PROVE \/ i \in Writers(u, a)
              \/ i - Len(u) \in Writers(v, a) /\ i > Len(u)
    <3>1. i \in 1..Len(w) /\ w[i].wr /\ w[i].rd = a
      BY <1>1, WritersAreSlots
    <3>2. CASE i <= Len(u)
      <4>1. i \in 1..Len(u)
        BY <1>1, <3>1, <3>2
      <4>2. i \in DOMAIN u /\ u[i] = w[i]
        BY <1>1, <4>1
      <4> QED BY <3>1, <4>2 DEF Writers
    <3>3. CASE i > Len(u)
      <4> DEFINE k == i - Len(u)
      <4>1. k \in 1..Len(v) /\ i = Len(u) + k
        BY <1>1, <3>1, <3>3
      <4> HIDE DEF k
      <4>2. k \in DOMAIN v /\ v[k] = w[i]
        BY <1>1, <4>1
      <4>3. k \in Writers(v, a)
        BY <3>1, <4>2 DEF Writers
      <4> QED BY <3>3, <4>3 DEF k
    <3> QED BY <1>1, <3>1, <3>2, <3>3
  <2>2. Writers(u, a) \subseteq Writers(w, a)
    BY <1>1 DEF Writers
  <2>3. \A i \in Writers(v, a) : Len(u) + i \in Writers(w, a)
    BY <1>1 DEF Writers
  <2>4. Writers(u, a) \subseteq 1..Len(u) /\ Writers(v, a) \subseteq 1..Len(v)
    BY WritersAreSlots
  <2>5. CASE Writers(v, a) # {}
    <3>1. PICK l \in Writers(v, a) : \A j \in Writers(v, a) : j <= l
      BY <2>5, LastWriter
    <3>2. \A j \in Writers(w, a) : j <= Len(u) + l
      <4>1. l \in 1..Len(v)
        BY <2>4, <3>1
      <4>2. ASSUME NEW j \in Writers(w, a) PROVE j <= Len(u) + l
        <5>1. CASE j \in Writers(u, a)
          BY <1>1, <2>4, <4>1, <5>1
        <5>2. CASE j - Len(u) \in Writers(v, a) /\ j > Len(u)
          <6>1. j \in Int
            BY <1>1, WritersAreSlots
          <6>2. j - Len(u) <= l
            BY <3>1, <5>2
          <6> QED BY <1>1, <4>1, <6>1, <6>2
        <5> QED BY <2>1, <5>1, <5>2
      <4> QED BY <4>2
    <3>3. Overlay(map, w)[a] = w[Len(u) + l].pdst
      BY <1>1, <2>3, <3>1, <3>2, OverlayWritten
    <3>4. Overlay(Overlay(map, u), v)[a] = v[l].pdst
      BY <3>1, OverlayWritten
    <3>5. l \in 1..Len(v)
      BY <2>4, <3>1
    <3> QED BY <1>1, <3>3, <3>4, <3>5
  <2>6. CASE Writers(v, a) = {} /\ Writers(u, a) # {}
    <3>1. PICK l \in Writers(u, a) : \A j \in Writers(u, a) : j <= l
      BY <2>6, LastWriter
    <3>2. \A j \in Writers(w, a) : j <= l
      BY <2>1, <2>6, <3>1
    <3>3. Overlay(map, w)[a] = w[l].pdst
      BY <1>1, <2>2, <3>1, <3>2, OverlayWritten
    <3>4. Overlay(Overlay(map, u), v)[a] = Overlay(map, u)[a]
      BY <2>6, OverlayUnwritten
    <3>5. Overlay(map, u)[a] = u[l].pdst
      BY <3>1, OverlayWritten
    <3>6. l \in 1..Len(u)
      BY <2>4, <3>1
    <3> QED BY <1>1, <3>3, <3>4, <3>5, <3>6
  <2>7. CASE Writers(v, a) = {} /\ Writers(u, a) = {}
    <3>1. Writers(w, a) = {}
      BY <2>1, <2>7
    <3> QED BY <1>1, <2>7, <3>1, OverlayUnwritten
  <2> QED BY <2>5, <2>6, <2>7
<1>3. Overlay(map, w) = Overlay(Overlay(map, u), v)
  BY <1>2 DEF Overlay
<1> QED BY <1>3 DEF w

\* What a group releases and what it takes are sets of registers.
LEMMA OldsAndDests ==
  ASSUME NEW w \in Seq(Entry)
  PROVE /\ Olds(w) \subseteq Pregs /\ Dests(w) \subseteq Pregs
        /\ \A p : p \in Olds(w) <=> \E i \in 1..Len(w) : w[i].wr /\ w[i].old = p
        /\ \A p : p \in Dests(w) <=> \E i \in 1..Len(w) : w[i].wr /\ w[i].pdst = p
<1>1. DOMAIN w = 1..Len(w) /\ \A i \in 1..Len(w) : w[i] \in Entry
  BY ElementOfSeq
<1>2. \A p : p \in Olds(w) <=> \E i \in 1..Len(w) : w[i].wr /\ w[i].old = p
  BY <1>1, Zenon DEF Olds
<1>3. \A p : p \in Dests(w) <=> \E i \in 1..Len(w) : w[i].wr /\ w[i].pdst = p
  BY <1>1, Zenon DEF Dests
<1>4. \A i \in 1..Len(w) : w[i].old \in Pregs /\ w[i].pdst \in Pregs
  BY <1>1 DEF Entry
<1> QED BY <1>2, <1>3, <1>4

(***************************************************************************)
(* Commit conserves registers.  cr is the committed map, p the group that  *)
(* commits; each of its writers carries the register its destination was   *)
(* mapped to before it.                                                    *)
(***************************************************************************)
OldsInOrder(cr, p) ==
    \A i \in 1..Len(p) :
        p[i].wr => p[i].old = Overlay(cr, Prefix(p, i - 1))[p[i].rd]

\* What a prefix writes is what the group writes before its end.
LEMMA PrefixWriters ==
  ASSUME NEW p \in Seq(Entry), NEW i \in 1..Len(p), NEW a \in Arch
  PROVE /\ Prefix(p, i - 1) \in Seq(Entry)
        /\ \A j : j \in Writers(Prefix(p, i - 1), a) <=> j \in Writers(p, a) /\ j < i
        /\ \A j \in 1..(i - 1) : Prefix(p, i - 1)[j] = p[j]
<1>1. Len(p) \in Nat /\ DOMAIN p = 1..Len(p) /\ \A j \in 1..Len(p) : p[j] \in Entry
  BY ElementOfSeq
<1>2. /\ Prefix(p, i - 1) \in Seq(Entry)
      /\ Len(Prefix(p, i - 1)) = i - 1
      /\ \A j \in 1..(i - 1) : Prefix(p, i - 1)[j] = p[j]
  <2>1. \A j \in 1..(i - 1) : p[j] \in Entry
    BY <1>1
  <2> DEFINE q == SubSeq(p, 1, i - 1)
  <2>2. /\ q \in Seq(Entry) /\ Len(q) = IF 1 <= i - 1 THEN i - 1 - 1 + 1 ELSE 0
        /\ \A j \in 1..(i - 1 - 1 + 1) : q[j] = p[1 + j - 1]
    BY <1>1, <2>1, SubSeqProperties
  <2> HIDE DEF q
  <2>3. q \in Seq(Entry) /\ Len(q) = i - 1 /\ \A j \in 1..(i - 1) : q[j] = p[j]
    BY <1>1, <2>2
  <2> QED BY <2>3 DEF q, Prefix
<1>3. ASSUME NEW j
      PROVE j \in Writers(Prefix(p, i - 1), a) <=> j \in Writers(p, a) /\ j < i
  <2> DEFINE q == Prefix(p, i - 1)
  <2>1. /\ j \in Writers(q, a) <=> j \in 1..(i - 1) /\ q[j].wr /\ q[j].rd = a
        /\ j \in Writers(p, a) <=> j \in 1..Len(p) /\ p[j].wr /\ p[j].rd = a
    <3>1. DOMAIN q = 1..(i - 1)
      BY <1>2, LenProperties
    <3> HIDE DEF q
    <3> QED BY <1>1, <3>1, Zenon DEF Writers
  <2>2. j \in 1..(i - 1) <=> j \in 1..Len(p) /\ j < i
    BY <1>1
  <2>3. Writers(p, a) \subseteq 1..Len(p)
    BY WritersAreSlots
  <2>4. j \in 1..(i - 1) => q[j] = p[j]
    BY <1>2
  <2> HIDE DEF q
  <2>5. j \in Writers(q, a) <=> j \in Writers(p, a) /\ j < i
    <3>1. CASE j \in 1..(i - 1)
      BY <2>1, <2>2, <2>4, <3>1
    <3>2. CASE j \notin 1..(i - 1)
      BY <2>1, <2>2, <2>3, <3>2
    <3> QED BY <3>1, <3>2
  <2> QED BY <2>5 DEF q
<1> QED BY <1>2, <1>3

\* The register a committing writer releases: the committed one where it is
\* the first writer, the destination of the writer before it otherwise.
LEMMA OldIsPrevious ==
  ASSUME NEW cr \in [Arch -> Pregs], NEW p \in Seq(Entry), OldsInOrder(cr, p),
         NEW a \in Arch, NEW i \in Writers(p, a)
  PROVE /\ (\A j \in Writers(p, a) : i <= j) => p[i].old = cr[a]
        /\ \A k \in Writers(p, a) :
              k < i /\ (\A j \in Writers(p, a) : j < i => j <= k)
                 => p[i].old = p[k].pdst
<1>1. i \in 1..Len(p) /\ p[i].wr /\ p[i].rd = a /\ Writers(p, a) \subseteq 1..Len(p)
  BY WritersAreSlots
<1> DEFINE q == Prefix(p, i - 1)
<1>2. /\ q \in Seq(Entry)
      /\ \A j : j \in Writers(q, a) <=> j \in Writers(p, a) /\ j < i
      /\ \A j \in 1..(i - 1) : q[j] = p[j]
  BY <1>1, PrefixWriters
<1>3. p[i].old = Overlay(cr, q)[a]
  BY <1>1 DEF OldsInOrder
<1> HIDE DEF q
<1>4. ASSUME \A j \in Writers(p, a) : i <= j PROVE p[i].old = cr[a]
  <2>1. Writers(q, a) = {}
    BY <1>1, <1>2, <1>4
  <2> QED BY <1>2, <1>3, <2>1, OverlayUnwritten
<1>5. ASSUME NEW k \in Writers(p, a), k < i, \A j \in Writers(p, a) : j < i => j <= k
      PROVE p[i].old = p[k].pdst
  <2>1. k \in Writers(q, a) /\ \A j \in Writers(q, a) : j <= k
    BY <1>2, <1>5
  <2>2. Overlay(cr, q)[a] = q[k].pdst
    BY <1>2, <2>1, OverlayWritten
  <2>3. q[k] = p[k]
    BY <1>1, <1>2, <1>5
  <2> QED BY <1>3, <2>2, <2>3
<1> QED BY <1>4, <1>5

\* A writer is the first of its register or has one just before it.
LEMMA PreviousWriter ==
  ASSUME NEW p \in Seq(Entry), NEW a \in Arch, NEW i \in Writers(p, a)
  PROVE \/ \A j \in Writers(p, a) : i <= j
        \/ \E k \in Writers(p, a) : /\ k < i
                                    /\ \A j \in Writers(p, a) : j < i => j <= k
<1> DEFINE S == {j \in Writers(p, a) : j < i}
<1>1. Len(p) \in Nat /\ S \in SUBSET (1..Len(p))
  BY WritersAreSlots
<1>2. Writers(p, a) \subseteq Int /\ i \in Int
  BY WritersAreSlots
<1>3. CASE S = {}
  BY <1>2, <1>3
<1>4. CASE S # {}
  <2>1. PICK k \in S : \A j \in S : j <= k
    <3> HIDE DEF S
    <3> QED BY <1>1, <1>4, MaxExists
  <2> QED BY <2>1
<1> QED BY <1>3, <1>4

\* A writer is the last of its register or has one just after it.
LEMMA NextWriter ==
  ASSUME NEW p \in Seq(Entry), NEW a \in Arch, NEW i \in Writers(p, a)
  PROVE \/ \A j \in Writers(p, a) : j <= i
        \/ \E n \in Writers(p, a) : /\ i < n
                                    /\ \A j \in Writers(p, a) : j < n => j <= i
<1> DEFINE S == {j \in Writers(p, a) : i < j}
<1>1. Len(p) \in Nat /\ S \in SUBSET (1..Len(p))
  BY WritersAreSlots
<1>2. Writers(p, a) \subseteq Int /\ i \in Int
  BY WritersAreSlots
<1>3. CASE S = {}
  BY <1>2, <1>3
<1>4. CASE S # {}
  <2>1. PICK n \in S : \A j \in S : n <= j
    <3> HIDE DEF S
    <3> QED BY <1>1, <1>4, MinExists
  <2>2. \A j \in Writers(p, a) : j < n => j <= i
    BY <1>2, <2>1
  <2> QED BY <2>1, <2>2
<1> QED BY <1>3, <1>4

\* Where a register of the committed map comes from.
LEMMA OverlaySource ==
  ASSUME NEW cr, NEW p \in Seq(Entry), NEW a \in Arch
  PROVE \/ Writers(p, a) = {} /\ Overlay(cr, p)[a] = cr[a]
        \/ \E l \in Writers(p, a) : /\ \A j \in Writers(p, a) : j <= l
                                    /\ Overlay(cr, p)[a] = p[l].pdst
<1>1. CASE Writers(p, a) = {}
  BY <1>1, OverlayUnwritten
<1>2. CASE Writers(p, a) # {}
  <2>1. PICK l \in Writers(p, a) : \A j \in Writers(p, a) : j <= l
    BY <1>2, LastWriter
  <2>2. Overlay(cr, p)[a] = p[l].pdst
    BY <2>1, OverlayWritten
  <2> QED BY <2>1, <2>2
<1> QED BY <1>1, <1>2

\* Nothing is gained or lost: what the new map and the releases hold is what
\* the old map and the destinations held.
LEMMA CommitKeepsAll ==
  ASSUME NEW cr \in [Arch -> Pregs], NEW p \in Seq(Entry), OldsInOrder(cr, p)
  PROVE Image(Overlay(cr, p)) \union Olds(p) = Image(cr) \union Dests(p)
<1> DEFINE new == Overlay(cr, p)
<1>1. /\ \A r : r \in Olds(p) <=> \E i \in 1..Len(p) : p[i].wr /\ p[i].old = r
      /\ \A r : r \in Dests(p) <=> \E i \in 1..Len(p) : p[i].wr /\ p[i].pdst = r
  BY OldsAndDests
<1>2. \A m, r : r \in Image(m) <=> \E a \in Arch : m[a] = r
  BY DEF Image
<1>3. ASSUME NEW a \in Arch, NEW i \in Writers(p, a)
      PROVE p[i].old \in Olds(p) /\ p[i].pdst \in Dests(p)
  <2>1. i \in 1..Len(p) /\ p[i].wr
    BY WritersAreSlots
  <2> QED BY <1>1, <2>1
<1>4. ASSUME NEW i \in 1..Len(p), p[i].wr
      PROVE p[i].rd \in Arch /\ i \in Writers(p, p[i].rd)
  <2>1. p[i] \in Entry
    BY ElementOfSeq
  <2>2. p[i].rd \in Arch
    BY <2>1 DEF Entry
  <2> QED BY <1>4, <2>2, WritersAreSlots
<1>5. ASSUME NEW a \in Arch PROVE new[a] \in Image(cr) \union Dests(p)
  <2>1. CASE new[a] = cr[a]
    BY <1>2, <2>1
  <2>2. ASSUME NEW l \in Writers(p, a), new[a] = p[l].pdst
        PROVE new[a] \in Dests(p)
    BY <1>3, <2>2
  <2> HIDE DEF new
  <2>3. \/ new[a] = cr[a]
        \/ \E l \in Writers(p, a) : new[a] = p[l].pdst
    BY OverlaySource DEF new
  <2> QED BY <2>1, <2>2, <2>3
<1>6. ASSUME NEW i \in 1..Len(p), p[i].wr
      PROVE p[i].old \in Image(cr) \union Dests(p)
  <2> DEFINE a == p[i].rd
  <2>1. a \in Arch /\ i \in Writers(p, a)
    BY <1>4, <1>6
  <2> HIDE DEF a
  <2>2. CASE \A j \in Writers(p, a) : i <= j
    BY <1>2, <2>1, <2>2, OldIsPrevious
  <2>3. ASSUME NEW k \in Writers(p, a),
               k < i /\ \A j \in Writers(p, a) : j < i => j <= k
        PROVE p[i].old \in Dests(p)
    <3>1. p[i].old = p[k].pdst
      BY <2>1, <2>3, OldIsPrevious
    <3> QED BY <1>3, <2>1, <3>1
  <2> QED BY <2>1, <2>2, <2>3, PreviousWriter
<1>7. ASSUME NEW a \in Arch PROVE cr[a] \in Image(new) \union Olds(p)
  <2>1. CASE Writers(p, a) = {}
    <3>1. new[a] = cr[a]
      BY <2>1, OverlayUnwritten
    <3> QED BY <1>2, <3>1
  <2>2. CASE Writers(p, a) # {}
    <3>1. PICK f \in Writers(p, a) : \A j \in Writers(p, a) : f <= j
      BY <2>2, WritersAreSlots, MinExists
    <3>2. p[f].old = cr[a]
      BY <3>1, OldIsPrevious
    <3> QED BY <1>3, <3>2
  <2> QED BY <2>1, <2>2
<1>8. ASSUME NEW i \in 1..Len(p), p[i].wr
      PROVE p[i].pdst \in Image(new) \union Olds(p)
  <2> DEFINE a == p[i].rd
  <2>1. a \in Arch /\ i \in Writers(p, a)
    BY <1>4, <1>8
  <2> HIDE DEF a
  <2>2. CASE \A j \in Writers(p, a) : j <= i
    <3>1. new[a] = p[i].pdst
      BY <2>1, <2>2, OverlayWritten
    <3> QED BY <1>2, <2>1, <3>1
  <2>3. ASSUME NEW n \in Writers(p, a),
               i < n /\ \A j \in Writers(p, a) : j < n => j <= i
        PROVE p[i].pdst \in Olds(p)
    <3>1. p[n].old = p[i].pdst
      BY <2>1, <2>3, OldIsPrevious
    <3> QED BY <1>3, <2>1, <3>1
  <2> QED BY <2>1, <2>2, <2>3, NextWriter
<1> HIDE DEF new
<1>9. \A r : r \in Image(new) \union Olds(p) => r \in Image(cr) \union Dests(p)
  BY <1>1, <1>2, <1>5, <1>6
<1>10. \A r : r \in Image(cr) \union Dests(p) => r \in Image(new) \union Olds(p)
  BY <1>1, <1>2, <1>7, <1>8
<1> QED BY <1>9, <1>10 DEF new

\* Off the hardwired register, no two holders share a register.
Unshared(cr, s) ==
    /\ \A a, b \in Arch : a # b /\ cr[a] \notin Hardwired => cr[a] # cr[b]
    /\ \A i, j \in 1..Len(s) :
          i # j /\ s[i].wr /\ s[j].wr /\ s[i].pdst \notin Hardwired
             => s[i].pdst # s[j].pdst
    /\ \A i \in 1..Len(s) : s[i].wr /\ s[i].pdst \notin Hardwired
                               => s[i].pdst \notin Image(cr)

\* After the commit still nobody shares, and nobody holds what was released.
LEMMA CommitKeepsUnshared ==
  ASSUME NEW cr \in [Arch -> Pregs], NEW p \in Seq(Entry), NEW r \in Seq(Entry),
         OldsInOrder(cr, p), Unshared(cr, p \o r)
  PROVE /\ Unshared(Overlay(cr, p), r)
        /\ \A q \in Olds(p) \ Hardwired :
              q \notin Image(Overlay(cr, p)) /\ q \notin Dests(r)
<1> DEFINE new == Overlay(cr, p)
           s == p \o r
<1>1. /\ Len(p) \in Nat /\ Len(r) \in Nat
      /\ \A i \in 1..Len(p) : i \in 1..Len(s) /\ s[i] = p[i]
      /\ \A i \in 1..Len(r) : Len(p) + i \in 1..Len(s) /\ s[Len(p) + i] = r[i]
                                /\ \A j \in 1..Len(p) : Len(p) + i # j
  OBVIOUS
<1>2. Unshared(cr, s)
  OBVIOUS
<1> HIDE DEF s, new
<1>3. \A m, q : q \in Image(m) <=> \E a \in Arch : m[a] = q
  BY DEF Image
<1>4. ASSUME NEW i \in 1..Len(p), p[i].wr, p[i].pdst \notin Hardwired
      PROVE /\ \A a \in Arch : p[i].pdst # cr[a]
            /\ \A j \in 1..Len(p) : i # j /\ p[j].wr => p[i].pdst # p[j].pdst
            /\ \A j \in 1..Len(r) : r[j].wr => p[i].pdst # r[j].pdst
  <2>1. i \in 1..Len(s) /\ s[i] = p[i]
    BY <1>1
  <2>2. p[i].pdst \notin Image(cr)
    BY <1>2, <1>4, <2>1 DEF Unshared
  <2>3. ASSUME NEW j \in 1..Len(p), i # j, p[j].wr PROVE p[i].pdst # p[j].pdst
    <3>1. j \in 1..Len(s) /\ s[j] = p[j]
      BY <1>1
    <3> QED BY <1>2, <1>4, <2>1, <2>3, <3>1 DEF Unshared
  <2>4. ASSUME NEW j \in 1..Len(r), r[j].wr PROVE p[i].pdst # r[j].pdst
    <3> DEFINE m == Len(p) + j
    <3>1. m \in 1..Len(s) /\ s[m] = r[j] /\ i # m
      BY <1>1
    <3> HIDE DEF m
    <3> QED BY <1>2, <1>4, <2>1, <2>4, <3>1 DEF Unshared
  <2> QED BY <1>3, <2>2, <2>3, <2>4
<1>5. ASSUME NEW i \in 1..Len(r), r[i].wr, r[i].pdst \notin Hardwired
      PROVE /\ \A a \in Arch : r[i].pdst # cr[a]
            /\ \A j \in 1..Len(p) : p[j].wr => r[i].pdst # p[j].pdst
            /\ \A j \in 1..Len(r) : i # j /\ r[j].wr => r[i].pdst # r[j].pdst
  <2> DEFINE k == Len(p) + i
  <2>1. k \in 1..Len(s) /\ s[k] = r[i] /\ \A j \in 1..Len(p) : k # j
    BY <1>1
  <2>2. \A j \in 1..Len(r) : i # j => k # Len(p) + j
    BY <1>1
  <2> HIDE DEF k
  <2>3. r[i].pdst \notin Image(cr)
    BY <1>2, <1>5, <2>1 DEF Unshared
  <2>4. ASSUME NEW j \in 1..Len(p), p[j].wr PROVE r[i].pdst # p[j].pdst
    <3>1. j \in 1..Len(s) /\ s[j] = p[j] /\ k # j
      BY <1>1, <2>1
    <3> QED BY <1>2, <1>5, <2>1, <2>4, <3>1 DEF Unshared
  <2>5. ASSUME NEW j \in 1..Len(r), i # j, r[j].wr PROVE r[i].pdst # r[j].pdst
    <3> DEFINE m == Len(p) + j
    <3>1. m \in 1..Len(s) /\ s[m] = r[j] /\ k # m
      BY <1>1, <2>2, <2>5
    <3> HIDE DEF m
    <3> QED BY <1>2, <1>5, <2>1, <2>5, <3>1 DEF Unshared
  <2> QED BY <1>3, <2>3, <2>4, <2>5
<1>6. \A a, b \in Arch : a # b /\ cr[a] \notin Hardwired => cr[a] # cr[b]
  BY <1>2 DEF Unshared
<1>7. ASSUME NEW a \in Arch
      PROVE \/ Writers(p, a) = {} /\ new[a] = cr[a]
            \/ \E l \in Writers(p, a) : /\ \A j \in Writers(p, a) : j <= l
                                        /\ new[a] = p[l].pdst
  BY OverlaySource DEF new
<1>8. ASSUME NEW a \in Arch, NEW i \in Writers(p, a)
      PROVE i \in 1..Len(p) /\ p[i].wr /\ p[i].rd = a
  BY WritersAreSlots
<1>9. ASSUME NEW a \in Arch, NEW b \in Arch, a # b, new[a] \notin Hardwired
      PROVE new[a] # new[b]
  <2>1. CASE new[a] = cr[a] /\ new[b] = cr[b]
    BY <1>6, <1>9, <2>1
  <2>2. ASSUME NEW l \in Writers(p, a), new[a] = p[l].pdst, new[b] = cr[b]
        PROVE new[a] # new[b]
    BY <1>4, <1>8, <1>9, <2>2
  <2>3. ASSUME NEW l \in Writers(p, b), new[b] = p[l].pdst, new[a] = cr[a]
        PROVE new[a] # new[b]
    BY <1>4, <1>8, <1>9, <2>3
  <2>4. ASSUME NEW k \in Writers(p, a), NEW l \in Writers(p, b),
               new[a] = p[k].pdst, new[b] = p[l].pdst
        PROVE new[a] # new[b]
    <3>1. k # l
      BY <1>8, <1>9
    <3> QED BY <1>4, <1>8, <1>9, <2>4, <3>1
  <2> QED BY <1>7, <2>1, <2>2, <2>3, <2>4
<1>10. ASSUME NEW i \in 1..Len(r), r[i].wr, r[i].pdst \notin Hardwired
       PROVE r[i].pdst \notin Image(new)
  <2>1. \A a \in Arch : new[a] # r[i].pdst
    BY <1>5, <1>7, <1>8, <1>10
  <2> QED BY <1>3, <2>1
<1>11. Unshared(new, r)
  BY <1>5, <1>9, <1>10 DEF Unshared
<1>12. ASSUME NEW i \in 1..Len(p), p[i].wr, p[i].old \notin Hardwired
       PROVE /\ \A b \in Arch : new[b] # p[i].old
             /\ \A j \in 1..Len(r) : r[j].wr => r[j].pdst # p[i].old
  <2> DEFINE a == p[i].rd
             q == p[i].old
  <2>1. a \in Arch /\ i \in Writers(p, a)
    <3>1. p[i] \in Entry
      BY ElementOfSeq
    <3>2. p[i].rd \in Arch
      BY <3>1 DEF Entry
    <3> QED BY <1>12, <3>2, WritersAreSlots
  <2> HIDE DEF a, q
  <2>2. \/ q = cr[a]
        \/ \E k \in Writers(p, a) : k < i /\ q = p[k].pdst
    BY <2>1, OldIsPrevious, PreviousWriter DEF q
  <2>3. q \notin Hardwired
    BY <1>12 DEF q
  <2>4. ASSUME NEW j \in 1..Len(r), r[j].wr, r[j].pdst = q PROVE FALSE
    BY <1>5, <1>8, <2>1, <2>2, <2>3, <2>4
  <2>5. ASSUME NEW b \in Arch, new[b] = q PROVE FALSE
    <3>1. CASE q = cr[a] /\ Writers(p, b) = {} /\ new[b] = cr[b]
      BY <1>6, <2>1, <2>3, <2>5, <3>1
    <3>2. ASSUME NEW l \in Writers(p, b), new[b] = p[l].pdst, q = cr[a] PROVE FALSE
      <4>1. l \in 1..Len(p) /\ p[l].wr /\ p[l].pdst \notin Hardwired
        BY <1>8, <2>3, <2>5, <3>2
      <4>2. p[l].pdst # cr[a]
        BY <1>4, <2>1, <4>1
      <4> QED BY <2>5, <3>2, <4>2
    <3>3. ASSUME NEW k \in Writers(p, a), q = p[k].pdst, new[b] = cr[b] PROVE FALSE
      <4>1. k \in 1..Len(p) /\ p[k].wr /\ p[k].pdst \notin Hardwired
        BY <1>8, <2>1, <2>3, <3>3
      <4>2. p[k].pdst # cr[b]
        BY <1>4, <4>1
      <4> QED BY <2>5, <3>3, <4>2
    <3>4. ASSUME NEW k \in Writers(p, a), q = p[k].pdst, k < i,
                 NEW l \in Writers(p, b), new[b] = p[l].pdst,
                 \A j \in Writers(p, b) : j <= l
          PROVE FALSE
      <4>1. k = l
        <5>1. k \in 1..Len(p) /\ p[k].wr /\ p[k].pdst \notin Hardwired
          BY <1>8, <2>1, <2>3, <3>4
        <5>2. l \in 1..Len(p) /\ p[l].wr
          BY <1>8
        <5>3. p[k].pdst = p[l].pdst
          BY <2>5, <3>4
        <5> QED BY <1>4, <5>1, <5>2, <5>3
      <4>2. a = b
        <5>1. p[k].rd = a
          BY <1>8, <2>1
        <5>2. p[l].rd = b
          BY <1>8
        <5> QED BY <4>1, <5>1, <5>2
      <4>3. i \in Int /\ k \in Int /\ i <= l
        <5>1. i \in 1..Len(p) /\ k \in 1..Len(p)
          BY <1>8, <2>1
        <5>2. i \in Writers(p, b)
          BY <2>1, <4>2
        <5> QED BY <1>1, <3>4, <5>1, <5>2
      <4> QED BY <3>4, <4>1, <4>3
    <3> QED BY <1>7, <2>2, <3>1, <3>2, <3>3, <3>4
  <2> QED BY <2>4, <2>5 DEF q
<1>13. ASSUME NEW q \in Olds(p) \ Hardwired
       PROVE q \notin Image(new) /\ q \notin Dests(r)
  <2>1. PICK i \in 1..Len(p) : p[i].wr /\ p[i].old = q
    BY OldsAndDests
  <2>2. \A b \in Arch : new[b] # q
    BY <1>12, <2>1
  <2>3. \A j \in 1..Len(r) : r[j].wr => r[j].pdst # q
    BY <1>12, <2>1
  <2>4. q \notin Dests(r)
    BY <2>3, OldsAndDests
  <2> QED BY <1>3, <2>2, <2>4
<1> QED BY <1>11, <1>13 DEF new

\* The destinations of two groups in a row.
LEMMA DestsConcat ==
  ASSUME NEW u \in Seq(Entry), NEW v \in Seq(Entry)
  PROVE Dests(u \o v) = Dests(u) \union Dests(v)
<1> DEFINE w == u \o v
<1>1. /\ w \in Seq(Entry) /\ Len(w) = Len(u) + Len(v)
      /\ Len(u) \in Nat /\ Len(v) \in Nat
      /\ \A i \in 1..Len(u) : i \in 1..Len(w) /\ w[i] = u[i]
      /\ \A i \in 1..Len(v) : Len(u) + i \in 1..Len(w) /\ w[Len(u) + i] = v[i]
      /\ \A i \in 1..Len(w) : i \in 1..Len(u) \/ i - Len(u) \in 1..Len(v)
      /\ \A i \in 1..Len(w) : i \in Int
  OBVIOUS
<1> HIDE DEF w
<1>2. ASSUME NEW q \in Dests(w) PROVE q \in Dests(u) \union Dests(v)
  <2>1. PICK i \in 1..Len(w) : w[i].wr /\ w[i].pdst = q
    BY <1>1, OldsAndDests
  <2>2. CASE i \in 1..Len(u)
    <3>1. u[i].wr /\ u[i].pdst = q
      BY <1>1, <2>1, <2>2
    <3> QED BY <2>2, <3>1, OldsAndDests
  <2>3. CASE i - Len(u) \in 1..Len(v)
    <3>1. i = Len(u) + (i - Len(u))
      BY <1>1
    <3>2. v[i - Len(u)].wr /\ v[i - Len(u)].pdst = q
      BY <1>1, <2>1, <2>3, <3>1
    <3> QED BY <2>3, <3>2, OldsAndDests
  <2> QED BY <1>1, <2>2, <2>3
<1>3. ASSUME NEW q \in Dests(u) PROVE q \in Dests(w)
  <2>1. PICK i \in 1..Len(u) : u[i].wr /\ u[i].pdst = q
    BY OldsAndDests
  <2>2. i \in 1..Len(w) /\ w[i].wr /\ w[i].pdst = q
    BY <1>1, <2>1
  <2> QED BY <1>1, <2>2, OldsAndDests
<1>4. ASSUME NEW q \in Dests(v) PROVE q \in Dests(w)
  <2>1. PICK i \in 1..Len(v) : v[i].wr /\ v[i].pdst = q
    BY OldsAndDests
  <2>2. Len(u) + i \in 1..Len(w) /\ w[Len(u) + i].wr /\ w[Len(u) + i].pdst = q
    BY <1>1, <2>1
  <2> QED BY <1>1, <2>2, OldsAndDests
<1> QED BY <1>2, <1>3, <1>4 DEF w

\* Two sequences of entries in a row.
LEMMA ConcatShape ==
  ASSUME NEW u \in Seq(Entry), NEW v \in Seq(Entry), NEW w, w = u \o v
  PROVE /\ w \in Seq(Entry) /\ Len(w) = Len(u) + Len(v)
        /\ Len(u) \in Nat /\ Len(v) \in Nat
        /\ \A i \in 1..Len(u) : w[i] = u[i]
        /\ \A i \in 1..Len(v) : w[Len(u) + i] = v[i]
        /\ \A i \in 1..Len(w) : i \in 1..Len(u) \/ i - Len(u) \in 1..Len(v)
        /\ \A i \in 1..Len(w) : i \in Int
OBVIOUS
=============================================================================
