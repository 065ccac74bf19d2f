-------------------------- MODULE LoadStore_proofs --------------------------
(***************************************************************************)
(* Theorems about loads and stores, for any number of accesses in flight,  *)
(* any depth of the queues and any bytes.                                  *)
(***************************************************************************)
EXTENDS LoadStore, Extremes_proofs, SequenceTheorems

\* The age of number t when the head of the reorder buffer is h.
From(h, t) == (t - h) % RobDepth

\* Ages are distances around the ring.
LEMMA FromIs ==
  ASSUME NEW h \in Tag, NEW t \in Tag
  PROVE /\ From(h, t) \in 0..(RobDepth - 1)
        /\ From(h, t) = IF t >= h THEN t - h ELSE t - h + RobDepth
BY LoadStoreAssumption DEF From, Tag

\* As the head moves on, the others grow one younger.
LEMMA FromMoves ==
  ASSUME NEW h \in Tag, NEW t \in Tag, NEW c \in {0, 1}, c <= From(h, t)
  PROVE /\ (h + c) % RobDepth \in Tag
        /\ From((h + c) % RobDepth, t) = From(h, t) - c
<1>1. RobDepth \in Nat \ {0} /\ h \in 0..(RobDepth - 1) /\ t \in 0..(RobDepth - 1)
  BY LoadStoreAssumption DEF Tag
<1>2. PICK h2 \in Nat : h2 = IF h + c = RobDepth THEN 0 ELSE h + c
  BY <1>1
<1>3. (h + c) % RobDepth = h2 /\ h2 \in Tag
  BY <1>1, <1>2 DEF Tag
<1>4. From(h2, t) = IF t >= h2 THEN t - h2 ELSE t - h2 + RobDepth
  BY <1>3, FromIs
<1>5. From(h, t) = IF t >= h THEN t - h ELSE t - h + RobDepth
  BY FromIs
<1> QED BY <1>1, <1>2, <1>3, <1>4, <1>5

\* The number that the n-th access after the head gets.
LEMMA FromNext ==
  ASSUME NEW h \in Tag, NEW n \in 0..(RobDepth - 1)
  PROVE /\ (h + n) % RobDepth \in Tag
        /\ From(h, (h + n) % RobDepth) = n
<1>1. RobDepth \in Nat \ {0} /\ h \in 0..(RobDepth - 1)
  BY LoadStoreAssumption DEF Tag
<1>2. PICK t \in Nat : t = IF h + n >= RobDepth THEN h + n - RobDepth ELSE h + n
  <2>1. h + n - RobDepth >= 0 \/ ~(h + n >= RobDepth)
    BY <1>1
  <2> QED BY <1>1, <2>1
<1>3. (h + n) % RobDepth = t /\ t \in Tag
  BY <1>1, <1>2 DEF Tag
<1>4. From(h, t) = IF t >= h THEN t - h ELSE t - h + RobDepth
  BY <1>3, FromIs
<1> QED BY <1>1, <1>2, <1>3, <1>4

\* The greatest of some places in a list.
LEMMA MaxIs ==
  ASSUME NEW n \in Nat, NEW S \in SUBSET (1..n), S # {}
  PROVE Max(S) \in S /\ \A j \in S : j <= Max(S)
<1>1. PICK i \in S : \A j \in S : j <= i
  BY MaxExists
<1>2. \A x \in S : x \in Int
  OBVIOUS
<1>3. \E x \in S : \A y \in S : x >= y
  BY <1>1, <1>2
<1>4. Max(S) \in S /\ \A y \in S : Max(S) >= y
  BY <1>3 DEF Max
<1> QED BY <1>2, <1>4

-----------------------------------------------------------------------------
\* K are places of a list of n; c is a list of n; c2 is what follows its first.
Places(K, n) == K \in SUBSET (1..n)
Listed(c, n) == DOMAIN c = 1..n
RestOf(c2, c, n) == DOMAIN c2 = 1..(n - 1) /\ \A i \in 1..(n - 1) : c2[i] = c[i + 1]

\* What the youngest of the stores K of the store queue s writes to byte b,
\* with the committed stores c and memory m behind them: Latest, of any lists.
Youngest(c, s, m, K, b) ==
    LET queued   == Writers(s, K, b)
        buffered == Writers(c, DOMAIN c, b)
    IN  IF queued # {} THEN s[Max(queued)].val
        ELSE IF buffered # {} THEN c[Max(buffered)].val
        ELSE m[b]

\* Place i is the last of the places K of list s that writes byte b.
IsLast(s, K, b, i) == i \in K /\ b \in s[i].fp /\ \A j \in K : b \in s[j].fp => j <= i

\* No place does.
NoneOf(s, K, b) == \A j \in K : b \notin s[j].fp

\* The greatest of some places, when it is known.
LEMMA LastIs ==
  ASSUME NEW n \in Nat, NEW s, NEW K, Places(K, n), NEW b, NEW i, IsLast(s, K, b, i)
  PROVE Writers(s, K, b) # {} /\ Max(Writers(s, K, b)) = i
<1> DEFINE S == Writers(s, K, b)
<1>1. S \in SUBSET (1..n) /\ i \in S /\ \A j \in S : j <= i
  BY DEF Writers, IsLast, Places
<1> HIDE DEF S
<1>2. Max(S) \in S /\ \A j \in S : j <= Max(S)
  BY <1>1, MaxIs
<1>3. Max(S) \in 1..n /\ i \in 1..n
  BY <1>1, <1>2
<1>4. Max(S) <= i /\ i <= Max(S)
  BY <1>1, <1>2
<1>5. S # {} /\ Max(S) = i
  BY <1>1, <1>3, <1>4
<1> QED BY <1>5 DEF S

\* A store in the queue that no later one overwrites.
LEMMA YoungestQueued ==
  ASSUME NEW n \in Nat, NEW c, NEW s, NEW m, NEW K, Places(K, n), NEW b, NEW i,
         IsLast(s, K, b, i)
  PROVE Youngest(c, s, m, K, b) = s[i].val
BY LastIs DEF Youngest

\* A committed store that none overwrites.
LEMMA YoungestBuffered ==
  ASSUME NEW n \in Nat, NEW c, Listed(c, n), NEW s, NEW m, NEW K, NEW b, NoneOf(s, K, b),
         NEW i, IsLast(c, 1..n, b, i)
  PROVE Youngest(c, s, m, K, b) = c[i].val
<1>1. Writers(s, K, b) = {}
  BY DEF Writers, NoneOf
<1>2. Places(1..n, n)
  BY DEF Places
<1>3. Writers(c, 1..n, b) # {} /\ Max(Writers(c, 1..n, b)) = i
  BY <1>2, LastIs
<1> QED BY <1>1, <1>3 DEF Youngest, Listed

\* Nothing but memory.
LEMMA YoungestInMemory ==
  ASSUME NEW n \in Nat, NEW c, Listed(c, n), NEW s, NEW m, NEW K, NEW b, NoneOf(s, K, b),
         NoneOf(c, 1..n, b)
  PROVE Youngest(c, s, m, K, b) = m[b]
<1>1. Writers(s, K, b) = {} /\ Writers(c, DOMAIN c, b) = {}
  BY DEF Writers, NoneOf, Listed
<1> QED BY <1>1 DEF Youngest

\* The places of a list that write a byte have a last one.
LEMMA LastWriter ==
  ASSUME NEW n \in Nat, NEW s, NEW K, Places(K, n), NEW b
  PROVE NoneOf(s, K, b) \/ \E i : IsLast(s, K, b, i)
<1> DEFINE S == {i \in K : b \in s[i].fp}
<1>1. CASE S = {}
  BY <1>1 DEF NoneOf
<1>2. CASE S # {}
  <2>1. S \in SUBSET (1..n)
    BY DEF Places
  <2>2. \E i \in S : \A j \in S : j <= i
    <3> HIDE DEF S
    <3> QED BY <1>2, <2>1, MaxExists
  <2> QED BY <2>2 DEF IsLast
<1> QED BY <1>1, <1>2

-----------------------------------------------------------------------------
\* Lists s2 and c2 after the d oldest stores of s have moved to the committed
\* ones, and others than the stores K may have gone; K2 is where K is now.
Moves(c, s, K, c2, s2, K2, n, n2, nc, d) ==
    /\ K2 = {i \in 1..n2 : i + d \in K}
    /\ \A i \in K : i > d => i - d \in 1..n2
    /\ \A i \in K2 : s2[i].fp = s[i + d].fp /\ s2[i].val = s[i + d].val
    /\ d = 0 => c2 = c
    /\ d = 1 => /\ DOMAIN c2 = 1..(nc + 1) /\ \A i \in 1..nc : c2[i] = c[i]
                /\ c2[nc + 1].fp = s[1].fp /\ c2[nc + 1].val = s[1].val
                /\ 1 \in K

\* What the stores K leave in a byte does not change by that.
LEMMA YoungestMoves ==
  ASSUME NEW n \in Nat, NEW n2 \in Nat, NEW nc \in Nat, NEW d \in {0, 1},
         NEW c, NEW c2, NEW s, NEW s2, NEW K, NEW K2, NEW m, NEW b, Places(K, n),
         Listed(c, nc), Moves(c, s, K, c2, s2, K2, n, n2, nc, d)
  PROVE Youngest(c2, s2, m, K2, b) = Youngest(c, s, m, K, b)
<1>1. K \subseteq 1..n /\ K2 = {i \in 1..n2 : i + d \in K}
  BY DEF Places, Moves
<1>2. \A i \in K2 : s2[i].fp = s[i + d].fp /\ s2[i].val = s[i + d].val
  BY DEF Moves
<1>3. Places(K2, n2)
  BY <1>1 DEF Places
<1>4. NoneOf(s, K, b) => NoneOf(s2, K2, b)
  BY <1>1, <1>2 DEF NoneOf
<1>5. ASSUME NEW i, IsLast(s, K, b, i), i > d
      PROVE IsLast(s2, K2, b, i - d) /\ s2[i - d].val = s[i].val
  <2>1. i \in K /\ i \in 1..n /\ i - d \in 1..n2 /\ i - d + d = i
    BY <1>1, <1>5 DEF IsLast, Moves
  <2>2. i - d \in K2
    BY <1>1, <2>1
  <2>3. s2[i - d].fp = s[i].fp /\ s2[i - d].val = s[i].val
    BY <1>2, <2>1, <2>2
  <2>4. ASSUME NEW j \in K2, b \in s2[j].fp PROVE j <= i - d
    <3>1. j \in 1..n2 /\ j + d \in K
      BY <1>1
    <3>2. j + d <= i
      BY <1>2, <1>5, <2>4, <3>1 DEF IsLast
    <3> QED BY <2>1, <3>1, <3>2
  <2> QED BY <1>5, <2>2, <2>3, <2>4 DEF IsLast
<1>6. ASSUME NEW i, IsLast(s, K, b, i), ~(i > d)
      PROVE d = 1 /\ i = 1 /\ NoneOf(s2, K2, b)
  <2>1. i \in 1..n
    BY <1>1, <1>6 DEF IsLast
  <2>2. d = 1 /\ i = 1
    BY <1>6, <2>1
  <2>3. ASSUME NEW j \in K2, b \in s2[j].fp PROVE FALSE
    <3>1. j \in 1..n2 /\ j + 1 \in K
      BY <1>1, <2>2
    <3>2. j + 1 <= 1
      BY <1>2, <1>6, <2>2, <2>3, <3>1 DEF IsLast
    <3> QED BY <3>1, <3>2
  <2> QED BY <2>2, <2>3 DEF NoneOf
<1>7. NoneOf(s, K, b) \/ \E i : IsLast(s, K, b, i)
  BY LastWriter
<1>8. Places(K2, n2)
  BY <1>3
<1>9. CASE \E i, j : /\ IsLast(s, K, b, i) /\ IsLast(s2, K2, b, j)
                     /\ s2[j].val = s[i].val
  <2>1. PICK i, j : /\ IsLast(s, K, b, i) /\ IsLast(s2, K2, b, j)
                    /\ s2[j].val = s[i].val
    BY <1>9
  <2>2. Youngest(c, s, m, K, b) = s[i].val
    BY <2>1, YoungestQueued
  <2>3. Youngest(c2, s2, m, K2, b) = s2[j].val
    BY <1>8, <2>1, YoungestQueued
  <2> QED BY <2>1, <2>2, <2>3
<1>10. CASE d = 1 /\ IsLast(s, K, b, 1) /\ NoneOf(s2, K2, b)
  <2>1. Youngest(c, s, m, K, b) = s[1].val
    BY <1>10, YoungestQueued
  <2>2. Listed(c2, nc + 1) /\ IsLast(c2, 1..(nc + 1), b, nc + 1) /\ nc + 1 \in Nat
    BY <1>10 DEF Moves, Listed, IsLast
  <2>3. Youngest(c2, s2, m, K2, b) = c2[nc + 1].val
    BY <1>10, <2>2, YoungestBuffered
  <2> QED BY <1>10, <2>1, <2>3 DEF Moves
<1>11. CASE NoneOf(s, K, b) /\ NoneOf(s2, K2, b)
  <2>1. NoneOf(s2, K2, b)
    BY <1>11
  <2>2. CASE d = 0
    <3>1. c2 = c
      BY <2>2 DEF Moves
    <3>2. CASE NoneOf(c, 1..nc, b)
      <4>1. Youngest(c, s, m, K, b) = m[b]
        BY <1>11, <3>2, YoungestInMemory
      <4>2. Youngest(c, s2, m, K2, b) = m[b]
        BY <2>1, <3>2, YoungestInMemory
      <4> QED BY <3>1, <4>1, <4>2
    <3>3. CASE \E i : IsLast(c, 1..nc, b, i)
      <4>1. PICK i : IsLast(c, 1..nc, b, i)
        BY <3>3
      <4>2. Youngest(c, s, m, K, b) = c[i].val
        BY <1>11, <4>1, YoungestBuffered
      <4>3. Youngest(c, s2, m, K2, b) = c[i].val
        BY <2>1, <4>1, YoungestBuffered
      <4> QED BY <3>1, <4>2, <4>3
    <3>4. Places(1..nc, nc)
      BY DEF Places
    <3> QED BY <3>2, <3>3, <3>4, LastWriter
  <2>3. CASE d = 1
    <3>1. /\ Listed(c2, nc + 1) /\ nc + 1 \in Nat /\ b \notin c2[nc + 1].fp
          /\ \A i \in 1..nc : c2[i] = c[i]
      BY <1>11, <2>3 DEF Moves, Listed, NoneOf
    <3>2. CASE NoneOf(c, 1..nc, b)
      <4>1. Youngest(c, s, m, K, b) = m[b]
        BY <1>11, <3>2, YoungestInMemory
      <4>2. NoneOf(c2, 1..(nc + 1), b)
        <5> SUFFICES ASSUME NEW j \in 1..(nc + 1), b \in c2[j].fp PROVE FALSE
          BY DEF NoneOf
        <5>1. j # nc + 1
          BY <3>1
        <5>2. j \in 1..nc
          BY <5>1
        <5> QED BY <3>1, <3>2, <5>2 DEF NoneOf
      <4>3. Youngest(c2, s2, m, K2, b) = m[b]
        BY <2>1, <3>1, <4>2, YoungestInMemory
      <4> QED BY <4>1, <4>3
    <3>3. CASE \E i : IsLast(c, 1..nc, b, i)
      <4>1. PICK i : IsLast(c, 1..nc, b, i)
        BY <3>3
      <4>2. Youngest(c, s, m, K, b) = c[i].val
        BY <1>11, <4>1, YoungestBuffered
      <4>3. i \in 1..nc /\ c2[i] = c[i] /\ i \in 1..(nc + 1) /\ b \in c2[i].fp
        BY <3>1, <4>1 DEF IsLast
      <4>4. ASSUME NEW j \in 1..(nc + 1), b \in c2[j].fp PROVE j <= i
        <5>1. j # nc + 1
          BY <3>1, <4>4
        <5>2. j \in 1..nc
          BY <5>1
        <5> QED BY <3>1, <4>1, <4>4, <5>2 DEF IsLast
      <4>5. IsLast(c2, 1..(nc + 1), b, i)
        BY <4>3, <4>4 DEF IsLast
      <4>6. Youngest(c2, s2, m, K2, b) = c2[i].val
        BY <2>1, <3>1, <4>5, YoungestBuffered
      <4> QED BY <4>2, <4>3, <4>6
    <3>4. Places(1..nc, nc)
      BY DEF Places
    <3> QED BY <3>2, <3>3, <3>4, LastWriter
  <2> QED BY <2>2, <2>3
<1>12. \/ NoneOf(s, K, b) /\ NoneOf(s2, K2, b)
       \/ \E i, j : /\ IsLast(s, K, b, i) /\ IsLast(s2, K2, b, j)
                    /\ s2[j].val = s[i].val
       \/ d = 1 /\ IsLast(s, K, b, 1) /\ NoneOf(s2, K2, b)
  BY <1>4, <1>5, <1>6, <1>7
<1> QED BY <1>9, <1>10, <1>11, <1>12

\* Memory m2 has of byte b what store e wrote over memory m.
WrittenTo(m, e, b, m2) == m2[b] = IF b \in e.fp THEN e.val ELSE m[b]

\* The oldest committed store goes into memory.
LEMMA YoungestAcked ==
  ASSUME NEW n \in Nat, NEW nc \in Nat, nc >= 1, NEW c, NEW c2, NEW s, NEW m, NEW m2,
         NEW b, NEW K, Places(K, n), Listed(c, nc), RestOf(c2, c, nc),
         WrittenTo(m, c[1], b, m2)
  PROVE Youngest(c2, s, m2, K, b) = Youngest(c, s, m, K, b)
<1>1. CASE \E i : IsLast(s, K, b, i)
  BY <1>1, YoungestQueued
<1>2. CASE NoneOf(s, K, b)
  <2>1. nc - 1 \in Nat /\ Listed(c2, nc - 1) /\ \A j \in 1..(nc - 1) : c2[j] = c[j + 1]
    BY DEF RestOf, Listed
  <2>2. CASE NoneOf(c, 1..nc, b)
    <3>1. Youngest(c, s, m, K, b) = m[b]
      BY <1>2, <2>2, YoungestInMemory
    <3>2. NoneOf(c2, 1..(nc - 1), b)
      <4> SUFFICES ASSUME NEW j \in 1..(nc - 1) PROVE b \notin c2[j].fp
        BY DEF NoneOf
      <4>1. j + 1 \in 1..nc
        OBVIOUS
      <4> QED BY <2>1, <2>2, <4>1 DEF NoneOf
    <3>3. Youngest(c2, s, m2, K, b) = m2[b]
      BY <1>2, <2>1, <3>2, YoungestInMemory
    <3>4. m2[b] = m[b]
      <4>1. 1 \in 1..nc
        OBVIOUS
      <4> QED BY <2>2, <4>1 DEF NoneOf, WrittenTo
    <3> QED BY <3>1, <3>3, <3>4
  <2>3. CASE \E i : IsLast(c, 1..nc, b, i)
    <3>1. PICK i : IsLast(c, 1..nc, b, i)
      BY <2>3
    <3>2. Youngest(c, s, m, K, b) = c[i].val
      BY <1>2, <3>1, YoungestBuffered
    <3>3. i \in 1..nc /\ b \in c[i].fp /\ \A j \in 1..nc : b \in c[j].fp => j <= i
      BY <3>1 DEF IsLast
    <3>4. CASE i = 1
      <4>1. NoneOf(c2, 1..(nc - 1), b)
        <5> SUFFICES ASSUME NEW j \in 1..(nc - 1), b \in c2[j].fp PROVE FALSE
          BY DEF NoneOf
        <5>1. j + 1 \in 1..nc /\ b \in c[j + 1].fp
          BY <2>1
        <5>2. j + 1 <= 1
          BY <3>3, <3>4, <5>1
        <5> QED BY <5>2
      <4>2. Youngest(c2, s, m2, K, b) = m2[b]
        BY <1>2, <2>1, <4>1, YoungestInMemory
      <4> QED BY <3>2, <3>3, <3>4, <4>2 DEF WrittenTo
    <3>5. CASE i # 1
      <4>1. i - 1 \in 1..(nc - 1) /\ i - 1 + 1 = i
        BY <3>3, <3>5
      <4>2. c2[i - 1] = c[i]
        BY <2>1, <4>1
      <4>3. ASSUME NEW j \in 1..(nc - 1), b \in c2[j].fp PROVE j <= i - 1
        <5>1. j + 1 \in 1..nc /\ b \in c[j + 1].fp
          BY <2>1, <4>3
        <5>2. j + 1 <= i
          BY <3>3, <5>1
        <5> QED BY <3>3, <5>2
      <4>4. IsLast(c2, 1..(nc - 1), b, i - 1)
        BY <3>3, <4>1, <4>2, <4>3 DEF IsLast
      <4>5. Youngest(c2, s, m2, K, b) = c2[i - 1].val
        BY <1>2, <2>1, <4>4, YoungestBuffered
      <4> QED BY <3>2, <4>2, <4>5
    <3> QED BY <3>4, <3>5
  <2>4. Places(1..nc, nc)
    BY DEF Places
  <2> QED BY <2>2, <2>3, <2>4, LastWriter
<1> QED BY <1>1, <1>2, LastWriter

-----------------------------------------------------------------------------
\* Every load and every store that has not committed is in the queues once, in
\* program order.
LoadsPlaced(h, q, ls) ==
    /\ \A k \in DOMAIN ls :
          /\ From(h, ls[k].tag) < Len(q)
          /\ q[From(h, ls[k].tag) + 1].kind = "load"
          /\ q[From(h, ls[k].tag) + 1].fp = ls[k].fp
    /\ \A j, k \in DOMAIN ls : j < k => From(h, ls[j].tag) < From(h, ls[k].tag)
    /\ \A r \in 1..Len(q) : q[r].kind = "load" =>
          \E k \in DOMAIN ls : From(h, ls[k].tag) + 1 = r

\* The committed stores come first, with their address and their data.
StoresPlaced(h, q, ss) ==
    /\ \A i \in DOMAIN ss : ~ss[i].committed =>
          /\ From(h, ss[i].tag) < Len(q)
          /\ q[From(h, ss[i].tag) + 1].kind = "store"
          /\ q[From(h, ss[i].tag) + 1].fp = ss[i].fp
          /\ q[From(h, ss[i].tag) + 1].data = [b \in ss[i].fp |-> ss[i].val]
    /\ \A i, j \in DOMAIN ss : i < j /\ ~ss[i].committed /\ ~ss[j].committed =>
          From(h, ss[i].tag) < From(h, ss[j].tag)
    /\ \A r \in 1..Len(q) : q[r].kind = "store" =>
          \E i \in DOMAIN ss : ~ss[i].committed /\ From(h, ss[i].tag) + 1 = r
    /\ \A i, j \in DOMAIN ss : i < j /\ ss[j].committed => ss[i].committed
    /\ \A i \in DOMAIN ss : ss[i].committed => ss[i].addr /\ ss[i].data

\* The tags of a list of n are numbers of the reorder buffer.
Tagged(s, n) == DOMAIN s = 1..n /\ \A i \in 1..n : s[i].tag \in Tag

\* The accesses that stay when c retire grow younger by as many.
AgesMove(h, h2, c, cut) ==
    \A t \in Tag : c <= From(h, t) /\ From(h, t) < cut => From(h2, t) = From(h, t) - c

\* The reorder buffer after c accesses retire and those from place cut + 1 on go.
RobMoves(h, q, h2, q2, c, cut) ==
    /\ cut <= Len(q) /\ Len(q2) = cut - c
    /\ AgesMove(h, h2, c, cut)
    /\ \A r \in 1..(cut - c) :
          /\ q2[r].kind = q[r + c].kind /\ q2[r].fp = q[r + c].fp
          /\ q[r + c].kind = "store" => q2[r].data = q[r + c].data

\* The load queue then: the e oldest and those that are not older than cut go.
LoadsMove(h, q, ls, ls2, c, e, cut) ==
    /\ e = IF c = 1 /\ q[1].kind = "load" THEN 1 ELSE 0
    /\ \A k \in DOMAIN ls2 : /\ k + e \in DOMAIN ls
                             /\ ls2[k].tag = ls[k + e].tag /\ ls2[k].fp = ls[k + e].fp
                             /\ From(h, ls[k + e].tag) < cut
    /\ \A k \in DOMAIN ls : k > e /\ From(h, ls[k].tag) < cut => k - e \in DOMAIN ls2

\* The store queue then: d leave at the head, those that are not older than cut
\* go, the store that retires has committed.
StoresMove(h, ss, ss2, c, d, cut) ==
    /\ \A i \in DOMAIN ss2 :
          /\ i + d \in DOMAIN ss
          /\ ss2[i].tag = ss[i + d].tag /\ ss2[i].fp = ss[i + d].fp
          /\ ss2[i].val = ss[i + d].val
          /\ ss[i + d].addr => ss2[i].addr
          /\ ss[i + d].data => ss2[i].data
          /\ ss2[i].committed <=> \/ ss[i + d].committed
                                  \/ From(h, ss[i + d].tag) < c
          /\ ss[i + d].committed \/ From(h, ss[i + d].tag) < cut
    /\ \A i \in DOMAIN ss : i > d /\ (ss[i].committed \/ From(h, ss[i].tag) < cut) =>
          i - d \in DOMAIN ss2
    /\ \A i \in DOMAIN ss : ~ss[i].committed /\ From(h, ss[i].tag) < c =>
          ss[i].addr /\ ss[i].data
    /\ d = 1 => 1 \in DOMAIN ss /\ ss[1].committed

\* Load x of a list is load y of another: the same access, c accesses nearer
\* the head.
Shifts(h, x, h2, y, c, cut) ==
    /\ y.tag = x.tag /\ y.fp = x.fp /\ From(h, x.tag) \in Nat
    /\ c <= From(h, x.tag) /\ From(h, x.tag) < cut
    /\ From(h2, y.tag) = From(h, x.tag) - c

\* Each load of the n2 of ls2 is one of the n of ls, of which e have left.
AllShift(h, ls, n, h2, ls2, n2, c, e, cut) ==
    \A k \in 1..n2 : k + e \in 1..n /\ Shifts(h, ls[k + e], h2, ls2[k], c, cut)

\* Each load that stays is one of those before.
LEMMA LoadsShift ==
  ASSUME NEW h \in Tag, NEW q, NEW h2, NEW ls, NEW ls2,
         NEW c \in {0, 1}, NEW e \in {0, 1}, NEW cut \in Nat,
         NEW n \in Nat, NEW n2 \in Nat, Tagged(ls, n), Tagged(ls2, n2),
         LoadsPlaced(h, q, ls), AgesMove(h, h2, c, cut),
         LoadsMove(h, q, ls, ls2, c, e, cut)
  PROVE AllShift(h, ls, n, h2, ls2, n2, c, e, cut)
<1> SUFFICES ASSUME NEW k \in 1..n2
             PROVE k + e \in 1..n /\ Shifts(h, ls[k + e], h2, ls2[k], c, cut)
  BY DEF AllShift
<1>1. /\ DOMAIN ls = 1..n /\ DOMAIN ls2 = 1..n2
      /\ \A i \in 1..n : ls[i].tag \in Tag /\ From(h, ls[i].tag) \in Nat
      /\ \A i \in 1..n2 : ls2[i].tag \in Tag
  BY FromIs DEF Tagged
<1>2. /\ k + e \in 1..n /\ ls2[k].tag = ls[k + e].tag /\ ls2[k].fp = ls[k + e].fp
      /\ From(h, ls[k + e].tag) < cut
  BY <1>1 DEF LoadsMove
<1>3. From(h, ls[k + e].tag) \in Nat
  BY <1>1, <1>2
<1>4. c <= From(h, ls[k + e].tag)
  <2>1. CASE c = 0
    BY <1>3, <2>1
  <2>2. CASE c = 1 /\ q[1].kind = "load"
    <3>1. e = 1 /\ 1 \in 1..n /\ 1 < k + e
      BY <1>1, <1>2, <2>2 DEF LoadsMove
    <3>2. From(h, ls[1].tag) < From(h, ls[k + e].tag) /\ From(h, ls[1].tag) \in Nat
      BY <1>1, <1>2, <3>1 DEF LoadsPlaced
    <3> QED BY <1>3, <2>2, <3>2
  <2>3. CASE c = 1 /\ q[1].kind # "load"
    <3>1. From(h, ls[k + e].tag) # 0
      <4> SUFFICES ASSUME From(h, ls[k + e].tag) = 0 PROVE FALSE
        OBVIOUS
      <4>1. q[From(h, ls[k + e].tag) + 1].kind = "load"
        BY <1>1, <1>2 DEF LoadsPlaced
      <4> QED BY <2>3, <4>1
    <3> QED BY <1>3, <2>3, <3>1
  <2> QED BY <2>1, <2>2, <2>3
<1>5. From(h2, ls2[k].tag) = From(h, ls[k + e].tag) - c
  BY <1>1, <1>2, <1>4 DEF AgesMove
<1> QED BY <1>2, <1>3, <1>4, <1>5 DEF Shifts

\* The loads keep their places.
LEMMA LoadsStayPlaced ==
  ASSUME NEW h \in Tag, NEW q, NEW h2, NEW q2, NEW ls, NEW ls2,
         NEW c \in {0, 1}, NEW e \in {0, 1}, NEW cut \in Nat, c <= cut,
         NEW n \in Nat, NEW n2 \in Nat, Len(q) \in Nat,
         Tagged(ls, n), Tagged(ls2, n2),
         LoadsPlaced(h, q, ls), RobMoves(h, q, h2, q2, c, cut), LoadsMove(h, q, ls, ls2, c, e, cut)
  PROVE LoadsPlaced(h2, q2, ls2)
<1>1. /\ DOMAIN ls = 1..n /\ DOMAIN ls2 = 1..n2
      /\ \A k \in 1..n : ls[k].tag \in Tag /\ From(h, ls[k].tag) \in Nat
      /\ \A k \in 1..n2 : ls2[k].tag \in Tag
  BY FromIs DEF Tagged
<1>2. Len(q2) = cut - c /\ cut <= Len(q)
  BY DEF RobMoves
<1>3. ASSUME NEW k \in 1..n2
      PROVE /\ k + e \in 1..n /\ ls2[k].tag = ls[k + e].tag /\ ls2[k].fp = ls[k + e].fp
            /\ c <= From(h, ls[k + e].tag) /\ From(h, ls[k + e].tag) < cut
            /\ From(h2, ls2[k].tag) = From(h, ls[k + e].tag) - c
  <2>1. AgesMove(h, h2, c, cut)
    BY DEF RobMoves
  <2>2. AllShift(h, ls, n, h2, ls2, n2, c, e, cut)
    BY <2>1, LoadsShift
  <2> QED BY <2>2 DEF AllShift, Shifts
<1>4. ASSUME NEW k \in 1..n2
      PROVE /\ From(h2, ls2[k].tag) < Len(q2)
            /\ q2[From(h2, ls2[k].tag) + 1].kind = "load"
            /\ q2[From(h2, ls2[k].tag) + 1].fp = ls2[k].fp
  <2> DEFINE a == From(h, ls[k + e].tag)
  <2>1. k + e \in 1..n /\ a \in Nat /\ c <= a /\ a < cut /\ From(h2, ls2[k].tag) = a - c
    BY <1>1, <1>3
  <2>2. q[a + 1].kind = "load" /\ q[a + 1].fp = ls2[k].fp
    BY <1>1, <1>3, <2>1 DEF LoadsPlaced
  <2> HIDE DEF a
  <2>3. a - c + 1 \in 1..(cut - c) /\ a - c + 1 + c = a + 1
    BY <2>1
  <2>4. q2[a - c + 1].kind = q[a - c + 1 + c].kind /\ q2[a - c + 1].fp = q[a - c + 1 + c].fp
    BY <2>3 DEF RobMoves
  <2> QED BY <1>2, <2>1, <2>2, <2>3, <2>4
<1>5. ASSUME NEW j \in 1..n2, NEW k \in 1..n2, j < k
      PROVE From(h2, ls2[j].tag) < From(h2, ls2[k].tag)
  <2>1. j + e < k + e
    BY <1>5
  <2>2. From(h, ls[j + e].tag) < From(h, ls[k + e].tag)
    BY <1>1, <1>3, <2>1 DEF LoadsPlaced
  <2>3. From(h, ls[j + e].tag) \in Nat /\ From(h, ls[k + e].tag) \in Nat
    BY <1>1, <1>3
  <2>4. /\ From(h2, ls2[j].tag) = From(h, ls[j + e].tag) - c
        /\ From(h2, ls2[k].tag) = From(h, ls[k + e].tag) - c
    BY <1>3
  <2> QED BY <2>2, <2>3, <2>4
<1>6. ASSUME NEW r \in 1..Len(q2), q2[r].kind = "load"
      PROVE \E k \in 1..n2 : From(h2, ls2[k].tag) + 1 = r
  <2>1. r \in 1..(cut - c) /\ r + c \in 1..Len(q)
    BY <1>2
  <2>2. q[r + c].kind = "load"
    BY <1>6, <2>1 DEF RobMoves
  <2>3. PICK k \in 1..n : From(h, ls[k].tag) + 1 = r + c
    BY <1>1, <2>1, <2>2 DEF LoadsPlaced
  <2>4. From(h, ls[k].tag) \in Nat /\ c <= From(h, ls[k].tag) /\ From(h, ls[k].tag) < cut
    BY <1>1, <2>1, <2>3
  <2>5. k > e
    <3>1. CASE e = 0
      BY <3>1
    <3>2. CASE e = 1 /\ k = 1
      <4>1. c = 1 /\ q[1].kind = "load"
        BY <3>2 DEF LoadsMove
      <4>2. 1 \in 1..Len(q)
        BY <2>1
      <4>3. PICK i \in 1..n : From(h, ls[i].tag) + 1 = 1
        BY <1>1, <4>1, <4>2 DEF LoadsPlaced
      <4>4. i # 1 /\ 1 < i
        BY <2>4, <3>2, <4>1, <4>3
      <4>5. From(h, ls[1].tag) < From(h, ls[i].tag)
        BY <1>1, <3>2, <4>4 DEF LoadsPlaced
      <4> QED BY <1>1, <2>4, <3>2, <4>3, <4>5
    <3> QED BY <3>1, <3>2
  <2>6. k - e \in 1..n2 /\ k - e + e = k
    <3>1. k - e \in 1..n2
      BY <1>1, <2>4, <2>5 DEF LoadsMove
    <3> QED BY <3>1
  <2>7. From(h2, ls2[k - e].tag) = From(h, ls[k].tag) - c
    BY <1>3, <2>6
  <2>8. From(h2, ls2[k - e].tag) + 1 = r
    BY <2>1, <2>3, <2>4, <2>7
  <2> QED BY <2>6, <2>8
<1> QED BY <1>1, <1>4, <1>5, <1>6 DEF LoadsPlaced

\* And so do the stores.
LEMMA StoresStayPlaced ==
  ASSUME NEW h \in Tag, NEW q, NEW h2, NEW q2, NEW ss, NEW ss2,
         NEW c \in {0, 1}, NEW d \in {0, 1}, NEW cut \in Nat, c <= cut,
         NEW n \in Nat, NEW n2 \in Nat, Len(q) \in Nat,
         Tagged(ss, n), Tagged(ss2, n2),
         StoresPlaced(h, q, ss), RobMoves(h, q, h2, q2, c, cut),
         StoresMove(h, ss, ss2, c, d, cut)
  PROVE StoresPlaced(h2, q2, ss2)
<1>1. /\ DOMAIN ss = 1..n /\ DOMAIN ss2 = 1..n2
      /\ \A i \in 1..n : ss[i].tag \in Tag /\ From(h, ss[i].tag) \in Nat
      /\ \A i \in 1..n2 : ss2[i].tag \in Tag
  BY FromIs DEF Tagged
<1>2. Len(q2) = cut - c /\ cut <= Len(q)
  BY DEF RobMoves
<1>3. ASSUME NEW i \in 1..n2
      PROVE /\ i + d \in 1..n
            /\ ss2[i].tag = ss[i + d].tag /\ ss2[i].fp = ss[i + d].fp
            /\ ss2[i].val = ss[i + d].val
            /\ ss[i + d].addr => ss2[i].addr
            /\ ss[i + d].data => ss2[i].data
            /\ ss2[i].committed <=> ss[i + d].committed \/ From(h, ss[i + d].tag) < c
            /\ ss[i + d].committed \/ From(h, ss[i + d].tag) < cut
            /\ From(h, ss[i + d].tag) \in Nat
  <2>1. i + d \in 1..n
    BY <1>1 DEF StoresMove
  <2> QED BY <1>1, <2>1 DEF StoresMove
<1>4. ASSUME NEW i \in 1..n2, ~ss2[i].committed
      PROVE /\ ~ss[i + d].committed
            /\ c <= From(h, ss[i + d].tag) /\ From(h, ss[i + d].tag) < cut
            /\ From(h2, ss2[i].tag) = From(h, ss[i + d].tag) - c
  <2>1. /\ ~ss[i + d].committed
        /\ c <= From(h, ss[i + d].tag) /\ From(h, ss[i + d].tag) < cut
    <3>1. /\ ss2[i].committed <=> ss[i + d].committed \/ From(h, ss[i + d].tag) < c
          /\ ss[i + d].committed \/ From(h, ss[i + d].tag) < cut
          /\ From(h, ss[i + d].tag) \in Nat
      BY <1>3
    <3>2. ~ss[i + d].committed /\ ~(From(h, ss[i + d].tag) < c)
      BY <1>4, <3>1, Zenon
    <3> QED BY <3>1, <3>2
  <2>2. ss[i + d].tag \in Tag /\ ss2[i].tag = ss[i + d].tag
    BY <1>1, <1>3
  <2> QED BY <2>1, <2>2 DEF RobMoves, AgesMove
<1>5. ASSUME NEW i \in 1..n2, ~ss2[i].committed
      PROVE /\ From(h2, ss2[i].tag) < Len(q2)
            /\ q2[From(h2, ss2[i].tag) + 1].kind = "store"
            /\ q2[From(h2, ss2[i].tag) + 1].fp = ss2[i].fp
            /\ q2[From(h2, ss2[i].tag) + 1].data = [b \in ss2[i].fp |-> ss2[i].val]
  <2> DEFINE a == From(h, ss[i + d].tag)
  <2>1. /\ a \in Nat /\ c <= a /\ a < cut /\ From(h2, ss2[i].tag) = a - c
        /\ ~ss[i + d].committed /\ i + d \in 1..n
    BY <1>3, <1>4, <1>5
  <2>2. /\ q[a + 1].kind = "store" /\ q[a + 1].fp = ss[i + d].fp
        /\ q[a + 1].data = [b \in ss[i + d].fp |-> ss[i + d].val]
    BY <1>1, <2>1 DEF StoresPlaced
  <2>3. ss2[i].fp = ss[i + d].fp /\ ss2[i].val = ss[i + d].val
    BY <1>3
  <2> HIDE DEF a
  <2>4. a - c + 1 \in 1..(cut - c) /\ a - c + 1 + c = a + 1
    BY <2>1
  <2>5. /\ q2[a - c + 1].kind = q[a - c + 1 + c].kind
        /\ q2[a - c + 1].fp = q[a - c + 1 + c].fp
        /\ q[a - c + 1 + c].kind = "store" => q2[a - c + 1].data = q[a - c + 1 + c].data
    BY <2>4 DEF RobMoves
  <2>6. From(h2, ss2[i].tag) < Len(q2)
    BY <1>2, <2>1
  <2> QED BY <2>1, <2>2, <2>3, <2>4, <2>5, <2>6
<1>6. ASSUME NEW i \in 1..n2, NEW j \in 1..n2, i < j, ~ss2[i].committed, ~ss2[j].committed
      PROVE From(h2, ss2[i].tag) < From(h2, ss2[j].tag)
  <2>1. i + d < j + d
    BY <1>6
  <2>2. ~ss[i + d].committed /\ ~ss[j + d].committed
    BY <1>4, <1>6
  <2>3. From(h, ss[i + d].tag) < From(h, ss[j + d].tag)
    BY <1>1, <1>3, <2>1, <2>2 DEF StoresPlaced
  <2>4. From(h, ss[i + d].tag) \in Nat /\ From(h, ss[j + d].tag) \in Nat
    BY <1>3
  <2>5. /\ From(h2, ss2[i].tag) = From(h, ss[i + d].tag) - c
        /\ From(h2, ss2[j].tag) = From(h, ss[j + d].tag) - c
    BY <1>4, <1>6
  <2> QED BY <2>3, <2>4, <2>5
<1>7. ASSUME NEW r \in 1..Len(q2), q2[r].kind = "store"
      PROVE \E i \in 1..n2 : ~ss2[i].committed /\ From(h2, ss2[i].tag) + 1 = r
  <2>1. r \in 1..(cut - c) /\ r + c \in 1..Len(q)
    BY <1>2
  <2>2. q[r + c].kind = "store"
    BY <1>7, <2>1 DEF RobMoves
  <2>3. PICK i \in 1..n : ~ss[i].committed /\ From(h, ss[i].tag) + 1 = r + c
    BY <1>1, <2>1, <2>2 DEF StoresPlaced
  <2>4. From(h, ss[i].tag) \in Nat /\ c <= From(h, ss[i].tag) /\ From(h, ss[i].tag) < cut
    BY <1>1, <2>1, <2>3
  <2>5. i > d
    <3>1. CASE d = 0
      BY <3>1
    <3>2. CASE d = 1 /\ i = 1
      BY <2>3, <3>2 DEF StoresMove
    <3> QED BY <3>1, <3>2
  <2>6. i - d \in 1..n2 /\ i - d + d = i
    <3>1. i - d \in 1..n2
      BY <1>1, <2>4, <2>5 DEF StoresMove
    <3> QED BY <3>1
  <2>7. ~ss2[i - d].committed
    <3>1. /\ ss2[i - d].committed <=> \/ ss[i - d + d].committed
                                      \/ From(h, ss[i - d + d].tag) < c
      BY <1>3, <2>6
    <3>2. ~(From(h, ss[i].tag) < c)
      BY <2>4
    <3> QED BY <2>3, <2>6, <3>1, <3>2, Zenon
  <2>8. From(h2, ss2[i - d].tag) = From(h, ss[i].tag) - c
    BY <1>4, <2>6, <2>7
  <2>9. From(h2, ss2[i - d].tag) + 1 = r
    BY <2>1, <2>3, <2>4, <2>8
  <2> QED BY <2>6, <2>7, <2>9
<1>8. ASSUME NEW i \in 1..n2, NEW j \in 1..n2, i < j, ss2[j].committed
      PROVE ss2[i].committed
  <2>1. i + d < j + d
    BY <1>8
  <2>2. CASE ss[j + d].committed
    <3>1. ss[i + d].committed
      BY <1>1, <1>3, <2>1, <2>2 DEF StoresPlaced
    <3> QED BY <1>3, <3>1
  <2>3. CASE ~ss[j + d].committed /\ ~ss[i + d].committed
    <3>1. From(h, ss[j + d].tag) < c
      BY <1>3, <1>8, <2>3
    <3>2. From(h, ss[i + d].tag) < From(h, ss[j + d].tag)
      BY <1>1, <1>3, <2>1, <2>3 DEF StoresPlaced
    <3>3. From(h, ss[i + d].tag) \in Nat /\ From(h, ss[j + d].tag) \in Nat
      BY <1>3
    <3> QED BY <3>1, <3>2, <3>3
  <2> QED BY <1>3, <2>2, <2>3
<1>9. ASSUME NEW i \in 1..n2, ss2[i].committed PROVE ss2[i].addr /\ ss2[i].data
  <2>1. ss[i + d].addr /\ ss[i + d].data
    <3>1. CASE ss[i + d].committed
      BY <1>1, <1>3, <3>1 DEF StoresPlaced
    <3>2. CASE ~ss[i + d].committed
      BY <1>1, <1>3, <1>9, <3>2 DEF StoresMove
    <3> QED BY <3>1, <3>2
  <2> QED BY <1>3, <2>1
<1> QED BY <1>1, <1>5, <1>6, <1>7, <1>8, <1>9 DEF StoresPlaced

-----------------------------------------------------------------------------
\* The stores that come before the access whose age is a.
Below(h, ss, a) == {i \in DOMAIN ss : ss[i].committed \/ From(h, ss[i].tag) < a}

\* The committed stores then: the head of the store queue is one more.
BufferMoves(cs, cs2, ss, nc, d) ==
    /\ d = 0 => cs2 = cs
    /\ d = 1 => /\ DOMAIN cs2 = 1..(nc + 1) /\ \A i \in 1..nc : cs2[i] = cs[i]
                /\ cs2[nc + 1].fp = ss[1].fp /\ cs2[nc + 1].val = ss[1].val

\* Of the entries K of a list without its d oldest, K2 is where they are now.
Shifted(K, K2, n2, d) ==
    /\ K2 = {i \in 1..n2 : i + d \in K}
    /\ \A i \in K : i > d => i - d \in 1..n2
    /\ d = 1 => 1 \in K

\* Age a is that of an access that stays, or of the next after them.
Stays(a, c, cut) == a \in c..cut

\* The stores that come before an access go on coming before it.
LEMMA BelowMoves ==
  ASSUME NEW h \in Tag, NEW h2, NEW ss, NEW ss2,
         NEW c \in {0, 1}, NEW d \in {0, 1}, NEW cut \in Nat, NEW a, Stays(a, c, cut),
         NEW n \in Nat, NEW n2 \in Nat,
         Tagged(ss, n), Tagged(ss2, n2), AgesMove(h, h2, c, cut),
         StoresMove(h, ss, ss2, c, d, cut)
  PROVE Shifted(Below(h, ss, a), Below(h2, ss2, a - c), n2, d)
<1>0. a \in c..cut
  BY DEF Stays
<1>1. /\ DOMAIN ss = 1..n /\ DOMAIN ss2 = 1..n2
      /\ \A i \in 1..n : ss[i].tag \in Tag /\ From(h, ss[i].tag) \in Nat
      /\ \A i \in 1..n2 : ss2[i].tag \in Tag
  BY FromIs DEF Tagged
<1>2. ASSUME NEW i \in 1..n2
      PROVE i \in Below(h2, ss2, a - c) <=> i + d \in Below(h, ss, a)
  <2>1. /\ i + d \in 1..n /\ ss2[i].tag = ss[i + d].tag
        /\ ss2[i].committed <=> ss[i + d].committed \/ From(h, ss[i + d].tag) < c
        /\ ss[i + d].committed \/ From(h, ss[i + d].tag) < cut
    BY <1>1 DEF StoresMove
  <2>2. ss[i + d].tag \in Tag /\ From(h, ss[i + d].tag) \in Nat
    BY <1>1, <2>1
  <2>3. /\ i \in Below(h2, ss2, a - c) <=> ss2[i].committed \/ From(h2, ss2[i].tag) < a - c
        /\ i + d \in Below(h, ss, a) <=> ss[i + d].committed \/ From(h, ss[i + d].tag) < a
    BY <1>1, <2>1 DEF Below
  <2>4. CASE ss2[i].committed
    BY <1>0, <2>1, <2>2, <2>3, <2>4
  <2>5. CASE ~ss2[i].committed
    <3>1. c <= From(h, ss[i + d].tag) /\ From(h, ss[i + d].tag) < cut
      BY <2>1, <2>2, <2>5
    <3>2. From(h2, ss2[i].tag) = From(h, ss[i + d].tag) - c
      BY <2>1, <2>2, <3>1 DEF AgesMove
    <3> QED BY <1>0, <2>1, <2>2, <2>3, <2>5, <3>1, <3>2
  <2> QED BY <2>4, <2>5
<1>3. Below(h2, ss2, a - c) \subseteq 1..n2
  BY <1>1 DEF Below
<1>4. ASSUME NEW i \in Below(h, ss, a), i > d PROVE i - d \in 1..n2
  <2>1. i \in 1..n /\ (ss[i].committed \/ From(h, ss[i].tag) < a)
    BY <1>1 DEF Below
  <2>2. ss[i].committed \/ From(h, ss[i].tag) < cut
    BY <1>0, <1>1, <2>1
  <2> QED BY <1>1, <1>4, <2>1, <2>2 DEF StoresMove
<1>5. d = 1 => 1 \in Below(h, ss, a)
  BY DEF StoresMove, Below
<1> QED BY <1>2, <1>3, <1>4, <1>5 DEF Shifted

\* What the stores before age a leave in byte b, and the same c ages later.
StillReads(h, ss, cs, h2, ss2, cs2, a, c, m, b) ==
    Youngest(cs2, ss2, m, Below(h2, ss2, a - c), b) = Youngest(cs, ss, m, Below(h, ss, a), b)

-----------------------------------------------------------------------------
\* A function on 1..n is a list of n.
LEMMA ListIs ==
  ASSUME NEW n \in Nat, NEW S, NEW f \in [1..n -> S]
  PROVE f \in Seq(S) /\ Len(f) = n /\ DOMAIN f = 1..n
OBVIOUS

\* With an entry of a list, the older ones are in K.
FromTheOldestOn(K) == \A i \in K : \A j \in 1..i : j \in K

\* Entries that are the oldest of a list are counted by their number.
LEMMA OldestAre ==
  ASSUME NEW n \in Nat, NEW K, Places(K, n), FromTheOldestOn(K)
  PROVE Cardinality(K) \in 0..n /\ K = 1..Cardinality(K)
<1>1. K \subseteq 1..n
  BY DEF Places
<1>2. CASE K = {}
  BY <1>2, FS_EmptySet
<1>3. CASE K # {}
  <2>1. PICK k \in K : \A j \in K : j <= k
    BY <1>1, <1>3, MaxExists
  <2>2. K = 1..k /\ k \in 1..n
    <3>1. k \in 1..n /\ \A j \in 1..k : j \in K
      BY <1>1 DEF FromTheOldestOn
    <3>2. \A j \in K : j \in 1..n /\ j <= k
      BY <1>1, <2>1
    <3>3. \A j \in K : j \in 1..k
      BY <3>1, <3>2
    <3> QED BY <3>1, <3>3
  <2>3. Cardinality(1..k) = k
    BY <2>2, FS_Interval
  <2> QED BY <2>2, <2>3
<1> QED BY <1>2, <1>3

\* t is list s of members of S with the entries K only.
PartOf(t, s, K, S) ==
    /\ t \in Seq(S) /\ Len(t) <= Len(s)
    /\ DOMAIN t = K /\ \A i \in K : t[i] = s[i]

\* What stays of a list when its oldest entries K do.
LEMMA KeptAre ==
  ASSUME NEW S, NEW s \in Seq(S), NEW K, Places(K, Len(s)), FromTheOldestOn(K)
  PROVE PartOf(Kept(s, K), s, K, S)
<1>1. Len(s) \in Nat
  OBVIOUS
<1>2. Cardinality(K) \in 0..Len(s) /\ K = 1..Cardinality(K)
  BY <1>1, OldestAre
<1>3. PICK k \in 0..Len(s) : k = Cardinality(K) /\ K = 1..k
  BY <1>2
<1>4. Kept(s, K) = SubSeq(s, 1, k)
  BY <1>3 DEF Kept
<1>5. /\ SubSeq(s, 1, k) \in Seq(S) /\ Len(SubSeq(s, 1, k)) = k
      /\ \A i \in 1..k : SubSeq(s, 1, k)[i] = s[i]
  BY <1>1, SubSeqProperties
<1>6. DOMAIN SubSeq(s, 1, k) = 1..k
  BY <1>5
<1> DEFINE t == Kept(s, K)
<1>7. /\ t \in Seq(S) /\ Len(t) = k /\ DOMAIN t = 1..k
      /\ \A i \in 1..k : t[i] = s[i]
  BY <1>4, <1>5, <1>6, Zenon
<1> HIDE DEF t
<1>8. Len(t) <= Len(s)
  BY <1>1, <1>7
<1>9. t \in Seq(S) /\ DOMAIN t = K /\ \A i \in K : t[i] = s[i]
  BY <1>3, <1>7, Zenon
<1> QED BY <1>8, <1>9, Zenon DEF t, PartOf

-----------------------------------------------------------------------------
\* The data an access may hold.
Datum == UNION {[fp -> Vals] : fp \in Footprints \union {{}}}

\* No data, and the values of the bytes of an access.
LEMMA DatumIs ==
  /\ <<>> \in Datum
  /\ \A fp \in Footprints : \A f \in [fp -> Vals] : f \in Datum /\ f # <<>>
<1>1. <<>> \in [{} -> Vals]
  OBVIOUS
<1>2. ASSUME NEW fp \in Footprints, NEW f \in [fp -> Vals] PROVE f \in Datum /\ f # <<>>
  <2>1. fp # {} /\ DOMAIN f = fp
    BY LoadStoreAssumption
  <2>2. DOMAIN <<>> = {}
    OBVIOUS
  <2>3. f # <<>>
    BY <2>1, <2>2
  <2> QED BY <2>3 DEF Datum
<1> QED BY <1>1, <1>2 DEF Datum

\* The types of the lists, entry by entry.
LEMMA TypesOfEntries ==
  ASSUME TypeOK
  PROVE /\ head \in Tag /\ Len(rob) \in Nat /\ Len(lq) \in Nat /\ Len(sq) \in Nat /\ Len(csb) \in Nat
        /\ DOMAIN rob = 1..Len(rob) /\ DOMAIN lq = 1..Len(lq)
        /\ DOMAIN sq = 1..Len(sq) /\ DOMAIN csb = 1..Len(csb)
        /\ \A r \in 1..Len(rob) : /\ rob[r].kind \in {"load", "store"}
                                  /\ rob[r].fp \in Footprints /\ rob[r].data \in Datum
        /\ \A k \in 1..Len(lq) : lq[k].tag \in Tag /\ lq[k].fp \in Footprints
        /\ \A i \in 1..Len(sq) : /\ sq[i].tag \in Tag /\ sq[i].fp \in Footprints
                                 /\ sq[i].val \in Vals
        /\ \A i \in 1..Len(csb) : csb[i].fp \in Footprints /\ csb[i].val \in Vals
<1>1. /\ head \in Tag /\ rob \in Seq(Access) /\ lq \in Seq(LoadEntry)
      /\ sq \in Seq(StoreEntry) /\ csb \in Seq(Buffered)
  BY DEF TypeOK
<1>2. /\ Len(rob) \in Nat /\ DOMAIN rob = 1..Len(rob)
      /\ \A r \in 1..Len(rob) : rob[r] \in Access
  BY <1>1
<1>3. /\ Len(lq) \in Nat /\ DOMAIN lq = 1..Len(lq)
      /\ \A k \in 1..Len(lq) : lq[k] \in LoadEntry
  BY <1>1
<1>4. /\ Len(sq) \in Nat /\ DOMAIN sq = 1..Len(sq)
      /\ \A i \in 1..Len(sq) : sq[i] \in StoreEntry
  BY <1>1
<1>5. /\ Len(csb) \in Nat /\ DOMAIN csb = 1..Len(csb)
      /\ \A i \in 1..Len(csb) : csb[i] \in Buffered
  BY <1>1
<1>6. Access = [kind : {"load", "store"}, fp : Footprints, data : Datum]
  BY DEF Access, Datum
<1>7. \A r \in 1..Len(rob) : /\ rob[r].kind \in {"load", "store"}
                             /\ rob[r].fp \in Footprints /\ rob[r].data \in Datum
  BY <1>2, <1>6
<1> QED BY <1>1, <1>2, <1>3, <1>4, <1>5, <1>7 DEF LoadEntry, StoreEntry, Buffered

\* The store queue as the loads of a cycle see it.
LEMMA FilledIs ==
  ASSUME TypeOK, NEW A, NEW D
  PROVE /\ Filled(A, D) \in Seq(StoreEntry) /\ Len(Filled(A, D)) = Len(sq)
        /\ DOMAIN Filled(A, D) = 1..Len(sq)
        /\ \A i \in 1..Len(sq) :
              /\ Filled(A, D)[i].tag = sq[i].tag /\ Filled(A, D)[i].fp = sq[i].fp
              /\ Filled(A, D)[i].val = sq[i].val
              /\ Filled(A, D)[i].committed = sq[i].committed
              /\ Filled(A, D)[i].addr <=> sq[i].addr \/ i \in A
              /\ Filled(A, D)[i].data <=> sq[i].data \/ i \in D
<1>1. Len(sq) \in Nat /\ DOMAIN sq = 1..Len(sq) /\ \A i \in 1..Len(sq) : sq[i] \in StoreEntry
  BY DEF TypeOK
<1>2. ASSUME NEW i \in 1..Len(sq)
      PROVE /\ Filled(A, D)[i] = [sq[i] EXCEPT !.addr = @ \/ i \in A, !.data = @ \/ i \in D]
            /\ Filled(A, D)[i] \in StoreEntry
  BY <1>1 DEF Filled, StoreEntry
<1>3. Filled(A, D) \in [1..Len(sq) -> StoreEntry]
  BY <1>1, <1>2 DEF Filled
<1>4. Filled(A, D) \in Seq(StoreEntry) /\ Len(Filled(A, D)) = Len(sq)
  BY <1>1, <1>3, ListIs
<1>5. ASSUME NEW i \in 1..Len(sq)
      PROVE /\ Filled(A, D)[i].tag = sq[i].tag /\ Filled(A, D)[i].fp = sq[i].fp
            /\ Filled(A, D)[i].val = sq[i].val
            /\ Filled(A, D)[i].committed = sq[i].committed
            /\ Filled(A, D)[i].addr = (sq[i].addr \/ i \in A)
            /\ Filled(A, D)[i].data = (sq[i].data \/ i \in D)
  <2>1. PICK x : x = sq[i] /\ x \in StoreEntry
    BY <1>1
  <2>2. PICK f, g : f = (x.addr \/ i \in A) /\ g = (x.data \/ i \in D)
    OBVIOUS
  <2>3. PICK y : y = Filled(A, D)[i] /\ y = [x EXCEPT !.addr = f, !.data = g]
    BY <1>2, <2>1, <2>2
  <2>4. y.tag = x.tag /\ y.fp = x.fp /\ y.val = x.val /\ y.committed = x.committed
    BY <2>1, <2>3 DEF StoreEntry
  <2>5. y.addr = f /\ y.data = g
    BY <2>1, <2>3 DEF StoreEntry
  <2> QED BY <2>1, <2>2, <2>3, <2>4, <2>5
<1> QED BY <1>1, <1>3, <1>4, <1>5

-----------------------------------------------------------------------------
\* The first store that has not committed is the one at the head of the
\* reorder buffer, when a store is there.
LEMMA CommitPtrIs ==
  ASSUME TypeOK, StoresPlaced(head, rob, sq), rob # <<>>, Head(rob).kind = "store"
  PROVE /\ CommitPtr \in 1..Len(sq)
        /\ ~sq[CommitPtr].committed /\ From(head, sq[CommitPtr].tag) = 0
        /\ \A i \in 1..Len(sq) : ~sq[i].committed /\ From(head, sq[i].tag) = 0 => i = CommitPtr
<1>1. /\ Len(sq) \in Nat /\ DOMAIN sq = 1..Len(sq) /\ Len(rob) \in Nat
      /\ \A i \in 1..Len(sq) : From(head, sq[i].tag) \in Nat
  BY TypesOfEntries, FromIs
<1>2. 1 \in 1..Len(rob) /\ rob[1].kind = "store"
  <2>1. rob \in Seq(Access)
    BY DEF TypeOK
  <2> QED BY <2>1
<1>3. PICK i \in 1..Len(sq) : ~sq[i].committed /\ From(head, sq[i].tag) + 1 = 1
  BY <1>1, <1>2 DEF StoresPlaced
<1>4. From(head, sq[i].tag) = 0
  BY <1>1, <1>3
<1>5. ASSUME NEW j \in 1..Len(sq), ~sq[j].committed PROVE i <= j
  <2> SUFFICES ASSUME j < i PROVE FALSE
    BY <1>1
  <2>1. From(head, sq[j].tag) < From(head, sq[i].tag)
    BY <1>1, <1>3, <1>5 DEF StoresPlaced
  <2> QED BY <1>1, <1>4, <2>1
<1>6. ASSUME NEW j \in 1..Len(sq), ~sq[j].committed, From(head, sq[j].tag) = 0 PROVE j = i
  <2> SUFFICES ASSUME i < j PROVE FALSE
    BY <1>1, <1>5, <1>6
  <2>1. From(head, sq[i].tag) < From(head, sq[j].tag)
    BY <1>1, <1>3, <1>6 DEF StoresPlaced
  <2> QED BY <1>1, <1>4, <1>6, <2>1
<1>7. CommitPtr = i
  <2> DEFINE S == {j \in DOMAIN sq : ~sq[j].committed} \union {Len(sq) + 1}
  <2>1. i \in S /\ \A j \in S : j \in Int /\ i <= j
    BY <1>1, <1>3, <1>5
  <2>2. CommitPtr = Min(S)
    BY DEF CommitPtr
  <2> HIDE DEF S
  <2>3. Min(S) \in S /\ \A j \in S : Min(S) <= j
    <3>1. \E k \in S : \A j \in S : k <= j
      BY <2>1
    <3> QED BY <3>1 DEF Min
  <2>4. PICK k \in S : k = Min(S) /\ \A j \in S : k <= j
    BY <2>3
  <2>5. k \in Int /\ i \in Int /\ i <= k /\ k <= i
    BY <2>1, <2>4
  <2>6. k = i
    BY <2>5
  <2> QED BY <2>2, <2>4, <2>6
<1> QED BY <1>3, <1>4, <1>6, <1>7

\* The stores that commit are those whose access retires.
LEMMA NewlyCommittedAre ==
  ASSUME TypeOK, StoresPlaced(head, rob, sq), NEW c \in {0, 1}, c = 1 => Retirable
  PROVE \A i \in 1..Len(sq) :
          /\ sq[i].committed \/ i \in NewlyCommitted(c)
                <=> sq[i].committed \/ From(head, sq[i].tag) < c
          /\ ~sq[i].committed /\ From(head, sq[i].tag) < c => sq[i].addr /\ sq[i].data
<1>1. /\ Len(sq) \in Nat /\ DOMAIN sq = 1..Len(sq) /\ Len(rob) \in Nat
      /\ \A i \in 1..Len(sq) : From(head, sq[i].tag) \in Nat
  BY TypesOfEntries, FromIs
<1>2. CASE c = 0
  BY <1>1, <1>2 DEF NewlyCommitted
<1>3. CASE c = 1 /\ Head(rob).kind = "store"
  <2>1. rob # <<>> /\ NewlyCommitted(c) = {CommitPtr} /\ sq[CommitPtr].addr /\ sq[CommitPtr].data
    BY <1>3 DEF Retirable, NewlyCommitted, Ready
  <2>2. /\ CommitPtr \in 1..Len(sq)
        /\ ~sq[CommitPtr].committed /\ From(head, sq[CommitPtr].tag) = 0
        /\ \A i \in 1..Len(sq) : ~sq[i].committed /\ From(head, sq[i].tag) = 0 => i = CommitPtr
    BY <1>3, <2>1, CommitPtrIs
  <2>3. ASSUME NEW i \in 1..Len(sq), ~sq[i].committed
        PROVE From(head, sq[i].tag) < c <=> i = CommitPtr
    BY <1>1, <1>3, <2>2, <2>3
  <2> QED BY <2>1, <2>3
<1>4. CASE c = 1 /\ Head(rob).kind # "store"
  <2>1. NewlyCommitted(c) = {} /\ rob # <<>>
    BY <1>4 DEF NewlyCommitted, Retirable
  <2>2. rob[1].kind # "store"
    <3>1. rob \in Seq(Access)
      BY DEF TypeOK
    <3> QED BY <1>4, <2>1, <3>1
  <2>3. ASSUME NEW i \in 1..Len(sq), ~sq[i].committed, From(head, sq[i].tag) < c PROVE FALSE
    <3>1. From(head, sq[i].tag) = 0
      BY <1>1, <1>4, <2>3
    <3>2. rob[From(head, sq[i].tag) + 1].kind = "store"
      BY <1>1, <2>3 DEF StoresPlaced
    <3> QED BY <2>2, <3>1, <3>2
  <2> QED BY <2>1, <2>3
<1> QED BY <1>2, <1>3, <1>4

\* List x has the stores of the store queue, which may have got their halves,
\* and those whose access is one of the c that retire have committed.
Updates(x, c) ==
    /\ Len(x) = Len(sq) /\ DOMAIN x = 1..Len(sq)
    /\ \A i \in 1..Len(sq) :
          /\ x[i].tag = sq[i].tag /\ x[i].fp = sq[i].fp /\ x[i].val = sq[i].val
          /\ sq[i].addr => x[i].addr
          /\ sq[i].data => x[i].data
          /\ x[i].committed <=> sq[i].committed \/ From(head, sq[i].tag) < c

\* What issues and retires does to the store queue.
LEMMA FilledUpdates ==
  ASSUME TypeOK, NEW A, NEW D
  PROVE Updates(Filled(A, D), 0)
<1>1. Len(sq) \in Nat /\ \A i \in 1..Len(sq) : From(head, sq[i].tag) \in Nat
  BY TypesOfEntries, FromIs
<1>2. \A i \in 1..Len(sq) : ~(From(head, sq[i].tag) < 0)
  BY <1>1
<1> QED BY <1>2, FilledIs DEF Updates

\* As they are.
LEMMA NothingUpdates ==
  ASSUME TypeOK
  PROVE Updates(sq, 0)
<1>1. /\ Len(sq) \in Nat /\ DOMAIN sq = 1..Len(sq)
      /\ \A i \in 1..Len(sq) : From(head, sq[i].tag) \in Nat
  BY TypesOfEntries, FromIs
<1>2. \A i \in 1..Len(sq) : ~(From(head, sq[i].tag) < 0)
  BY <1>1
<1> QED BY <1>1, <1>2 DEF Updates

\* With the store that commits.
LEMMA MarkedUpdates ==
  ASSUME TypeOK, StoresPlaced(head, rob, sq), NEW c \in {0, 1}, c = 1 => Retirable,
         NEW x \in Seq(StoreEntry), Updates(x, 0)
  PROVE Marked(x, c) \in Seq(StoreEntry) /\ Updates(Marked(x, c), c)
<1>1. /\ Len(sq) \in Nat /\ Len(x) = Len(sq) /\ DOMAIN x = 1..Len(sq)
      /\ \A i \in 1..Len(sq) : x[i] \in StoreEntry
      /\ \A i \in 1..Len(sq) : From(head, sq[i].tag) \in Nat
  BY TypesOfEntries, FromIs DEF Updates
<1>2. ASSUME NEW i \in 1..Len(sq)
      PROVE /\ Marked(x, c)[i] = [x[i] EXCEPT !.committed = @ \/ i \in NewlyCommitted(c)]
            /\ Marked(x, c)[i] \in StoreEntry
  BY <1>1 DEF Marked, StoreEntry
<1>3. Marked(x, c) \in [1..Len(sq) -> StoreEntry]
  BY <1>1, <1>2 DEF Marked
<1>4. Marked(x, c) \in Seq(StoreEntry) /\ Len(Marked(x, c)) = Len(sq)
  BY <1>1, <1>3, ListIs
<1>5. ASSUME NEW i \in 1..Len(sq)
      PROVE /\ Marked(x, c)[i].tag = x[i].tag /\ Marked(x, c)[i].fp = x[i].fp
            /\ Marked(x, c)[i].val = x[i].val
            /\ Marked(x, c)[i].addr = x[i].addr
            /\ Marked(x, c)[i].data = x[i].data
            /\ Marked(x, c)[i].committed = (x[i].committed \/ i \in NewlyCommitted(c))
  BY <1>1, <1>2 DEF StoreEntry
<1>6. ASSUME NEW i \in 1..Len(sq) PROVE x[i].committed <=> sq[i].committed
  <2>1. ~(From(head, sq[i].tag) < 0)
    BY <1>1
  <2> QED BY <2>1 DEF Updates
<1>7. ASSUME NEW i \in 1..Len(sq)
      PROVE Marked(x, c)[i].committed <=> sq[i].committed \/ From(head, sq[i].tag) < c
  <2>1. sq[i].committed \/ i \in NewlyCommitted(c)
           <=> sq[i].committed \/ From(head, sq[i].tag) < c
    BY NewlyCommittedAre
  <2> QED BY <1>5, <1>6, <2>1, Zenon
<1>8. Updates(Marked(x, c), c)
  BY <1>3, <1>4, <1>5, <1>7 DEF Updates
<1> QED BY <1>4, <1>8

\* List y is x without its d oldest.
Without(y, x, d) ==
    /\ Len(y) = Len(x) - d /\ DOMAIN y = 1..Len(y)
    /\ \A i \in 1..Len(y) : y[i] = x[i + d]

\* Whether a store drains in this cycle, as a number.
Drain == IF Drains THEN 1 ELSE 0

\* The store queue without the store that drains.
LEMMA AfterDrainIs ==
  ASSUME TypeOK, NEW x \in Seq(StoreEntry), Len(x) = Len(sq)
  PROVE /\ AfterDrain(x) \in Seq(StoreEntry) /\ Without(AfterDrain(x), x, Drain)
        /\ Drain \in {0, 1}
        /\ Drain = 1 => Len(sq) \in Nat /\ Len(sq) >= 1 /\ sq[1].committed
<1>1. sq \in Seq(StoreEntry) /\ Len(sq) \in Nat
  BY DEF TypeOK
<1>2. CASE ~Drains
  BY <1>2 DEF AfterDrain, Drain, Without
<1>3. CASE Drains
  <2>1. sq # <<>> /\ Head(sq).committed
    BY <1>3 DEF Drains
  <2>2. Len(sq) >= 1 /\ sq[1].committed
    BY <1>1, <2>1
  <2>3. x # <<>>
    BY <1>1, <2>2
  <2>4. /\ Tail(x) \in Seq(StoreEntry) /\ Len(Tail(x)) = Len(x) - 1
        /\ \A i \in 1..Len(Tail(x)) : Tail(x)[i] = x[i + 1]
    BY <2>3, HeadTailProperties
  <2>5. DOMAIN Tail(x) = 1..Len(Tail(x))
    BY <2>4
  <2> QED BY <1>1, <1>3, <2>2, <2>4, <2>5 DEF AfterDrain, Drain, Without
<1> QED BY <1>2, <1>3

\* Of list y, z has the stores that have committed or are older than cut.
OlderOf(z, y, cut) ==
    /\ DOMAIN z = {i \in DOMAIN y : y[i].committed \/ From(head, y[i].tag) < cut}
    /\ \A i \in DOMAIN z : z[i] = y[i]

\* The store queue moves on.
LEMMA StoresMoveOn ==
  ASSUME TypeOK, StoresPlaced(head, rob, sq), NEW c \in {0, 1}, c = 1 => Retirable,
         NEW d \in {0, 1}, NEW cut \in Nat, c <= cut, d = 1 => Len(sq) >= 1 /\ sq[1].committed,
         NEW x, NEW y, NEW z, Updates(x, c), Without(y, x, d), OlderOf(z, y, cut)
  PROVE StoresMove(head, sq, z, c, d, cut)
<1>1. /\ Len(sq) \in Nat /\ DOMAIN sq = 1..Len(sq) /\ Len(x) = Len(sq)
      /\ \A i \in 1..Len(sq) : From(head, sq[i].tag) \in Nat
  BY TypesOfEntries, FromIs DEF Updates
<1>2. DOMAIN y = 1..(Len(sq) - d) /\ \A i \in 1..(Len(sq) - d) : y[i] = x[i + d]
  BY <1>1 DEF Without
<1>3. ASSUME NEW i \in 1..(Len(sq) - d)
      PROVE /\ i + d \in 1..Len(sq)
            /\ y[i].tag = sq[i + d].tag /\ y[i].fp = sq[i + d].fp /\ y[i].val = sq[i + d].val
            /\ sq[i + d].addr => y[i].addr
            /\ sq[i + d].data => y[i].data
            /\ y[i].committed <=> sq[i + d].committed \/ From(head, sq[i + d].tag) < c
  <2>1. i + d \in 1..Len(sq)
    BY <1>1
  <2> QED BY <1>2, <2>1 DEF Updates
<1>4. ASSUME NEW i \in DOMAIN z
      PROVE /\ i \in 1..(Len(sq) - d) /\ z[i] = y[i]
            /\ sq[i + d].committed \/ From(head, sq[i + d].tag) < cut
  <2>1. i \in 1..(Len(sq) - d) /\ z[i] = y[i] /\ (y[i].committed \/ From(head, y[i].tag) < cut)
    BY <1>2 DEF OlderOf
  <2>2. /\ i + d \in 1..Len(sq) /\ y[i].tag = sq[i + d].tag
        /\ y[i].committed <=> sq[i + d].committed \/ From(head, sq[i + d].tag) < c
    BY <1>3, <2>1
  <2>3. From(head, sq[i + d].tag) \in Nat
    BY <1>1, <2>2
  <2>4. From(head, sq[i + d].tag) < c => From(head, sq[i + d].tag) < cut
    BY <2>3
  <2> QED BY <2>1, <2>2, <2>4
<1>5. ASSUME NEW i \in 1..Len(sq), i > d, sq[i].committed \/ From(head, sq[i].tag) < cut
      PROVE i - d \in DOMAIN z
  <2>1. i - d \in 1..(Len(sq) - d) /\ i - d + d = i
    BY <1>1, <1>5
  <2>2. /\ y[i - d].tag = sq[i].tag
        /\ y[i - d].committed <=> sq[i].committed \/ From(head, sq[i].tag) < c
    BY <1>3, <2>1
  <2> QED BY <1>2, <1>5, <2>1, <2>2 DEF OlderOf
<1>6. \A i \in 1..Len(sq) : ~sq[i].committed /\ From(head, sq[i].tag) < c => sq[i].addr /\ sq[i].data
  BY NewlyCommittedAre
<1>7. d = 1 => 1 \in 1..Len(sq) /\ sq[1].committed
  BY <1>1
<1> QED BY <1>1, <1>3, <1>4, <1>5, <1>6, <1>7 DEF StoresMove

\* The stores that have committed or are older than some age are the oldest.
LEMMA OldStoresFirst ==
  ASSUME TypeOK, StoresPlaced(head, rob, sq), NEW c \in {0, 1},
         NEW d \in {0, 1}, NEW cut \in Nat, c <= cut, NEW x, NEW y, Updates(x, c), Without(y, x, d),
         NEW i \in DOMAIN y, y[i].committed \/ From(head, y[i].tag) < cut,
         NEW j \in 1..i
  PROVE j \in DOMAIN y /\ (y[j].committed \/ From(head, y[j].tag) < cut)
<1>1. /\ Len(sq) \in Nat /\ DOMAIN sq = 1..Len(sq) /\ Len(x) = Len(sq)
      /\ \A k \in 1..Len(sq) : From(head, sq[k].tag) \in Nat
  BY TypesOfEntries, FromIs DEF Updates
<1>2. DOMAIN y = 1..(Len(sq) - d)
  BY <1>1 DEF Without
<1>3. ASSUME NEW k \in 1..(Len(sq) - d)
      PROVE /\ k + d \in 1..Len(sq) /\ y[k].tag = sq[k + d].tag
            /\ y[k].committed <=> sq[k + d].committed \/ From(head, sq[k + d].tag) < c
            /\ From(head, sq[k + d].tag) \in Nat
  <2>1. k + d \in 1..Len(sq)
    BY <1>1
  <2> QED BY <1>1, <1>2, <2>1 DEF Updates, Without
<1>4. i \in 1..(Len(sq) - d) /\ j \in 1..(Len(sq) - d) /\ j <= i
  BY <1>1, <1>2
<1>5. CASE j = i
  BY <1>5
<1>6. CASE j < i
  <2>1. j + d < i + d
    BY <1>4, <1>6
  <2>2. CASE sq[j + d].committed
    BY <1>2, <1>3, <1>4, <2>2
  <2>3. CASE ~sq[j + d].committed
    <3>1. ~sq[i + d].committed
      <4>1. i + d \in DOMAIN sq /\ j + d \in DOMAIN sq
        BY <1>1, <1>3, <1>4
      <4> QED BY <2>1, <2>3, <4>1 DEF StoresPlaced
    <3>2. From(head, sq[j + d].tag) < From(head, sq[i + d].tag)
      BY <1>1, <1>3, <1>4, <2>1, <2>3, <3>1 DEF StoresPlaced
    <3>3. From(head, sq[i + d].tag) \in Nat /\ From(head, sq[j + d].tag) \in Nat
      BY <1>3, <1>4
    <3>4. From(head, sq[i + d].tag) < c \/ From(head, sq[i + d].tag) < cut
      BY <1>3, <1>4, <3>1
    <3>5. From(head, sq[i + d].tag) < cut
      BY <3>3, <3>4
    <3>6. From(head, sq[j + d].tag) < cut
      BY <3>2, <3>3, <3>5
    <3> QED BY <1>2, <1>3, <1>4, <3>6
  <2> QED BY <2>2, <2>3
<1> QED BY <1>4, <1>5, <1>6

\* A flush keeps them.
LEMMA KeptStores ==
  ASSUME TypeOK, StoresPlaced(head, rob, sq), NEW c \in {0, 1},
         NEW d \in {0, 1}, NEW cut \in Nat, c <= cut, NEW x, NEW y \in Seq(StoreEntry),
         Updates(x, c), Without(y, x, d),
         NEW K, K = {i \in DOMAIN y : y[i].committed \/ From(head, y[i].tag) < cut}
  PROVE Kept(y, K) \in Seq(StoreEntry) /\ Len(Kept(y, K)) <= Len(y) /\ OlderOf(Kept(y, K), y, cut)
<1>1. DOMAIN y = 1..Len(y)
  BY DEF Without
<1>2. Places(K, Len(y))
  BY <1>1 DEF Places
<1>3. FromTheOldestOn(K)
  <2>1. ASSUME NEW i \in K, NEW j \in 1..i PROVE j \in K
    <3>1. i \in DOMAIN y /\ (y[i].committed \/ From(head, y[i].tag) < cut)
      OBVIOUS
    <3>2. j \in DOMAIN y /\ (y[j].committed \/ From(head, y[j].tag) < cut)
      BY <3>1, OldStoresFirst
    <3> QED BY <3>2
  <2> QED BY <2>1 DEF FromTheOldestOn
<1>4. PartOf(Kept(y, K), y, K, StoreEntry)
  BY <1>2, <1>3, KeptAre
<1> QED BY <1>4 DEF OlderOf, PartOf

\* Without one, all stay.
LEMMA AllStoresStay ==
  ASSUME TypeOK, StoresPlaced(head, rob, sq), NEW c \in {0, 1},
         NEW d \in {0, 1}, NEW x, NEW y, Updates(x, c), Without(y, x, d)
  PROVE OlderOf(y, y, Len(rob))
<1>1. /\ Len(sq) \in Nat /\ DOMAIN sq = 1..Len(sq) /\ Len(x) = Len(sq)
  BY TypesOfEntries DEF Updates
<1>2. DOMAIN y = 1..(Len(sq) - d)
  BY <1>1 DEF Without
<1>3. ASSUME NEW i \in DOMAIN y PROVE y[i].committed \/ From(head, y[i].tag) < Len(rob)
  <2>1. i + d \in 1..Len(sq) /\ i \in 1..(Len(sq) - d)
    BY <1>1, <1>2
  <2>2. /\ y[i].tag = sq[i + d].tag
        /\ y[i].committed <=> sq[i + d].committed \/ From(head, sq[i + d].tag) < c
    BY <1>1, <1>2, <2>1 DEF Updates, Without
  <2>3. sq[i + d].committed \/ From(head, sq[i + d].tag) < Len(rob)
    BY <1>1, <2>1 DEF StoresPlaced
  <2> QED BY <2>2, <2>3
<1> QED BY <1>3 DEF OlderOf

-----------------------------------------------------------------------------
\* Whether a load retires with c accesses, as a number.
LoadLeaves(c) == IF c = 1 /\ rob[1].kind = "load" THEN 1 ELSE 0

\* The load queue without the loads that retire.
LEMMA LoadsLeftAre ==
  ASSUME TypeOK, LoadsPlaced(head, rob, lq), NEW c \in {0, 1}, c = 1 => rob # <<>>
  PROVE /\ LoadsLeft(c) \in Seq(LoadEntry) /\ Without(LoadsLeft(c), lq, LoadLeaves(c))
        /\ LoadLeaves(c) \in {0, 1}
<1>1. /\ rob \in Seq(Access) /\ lq \in Seq(LoadEntry)
      /\ Len(lq) \in Nat /\ DOMAIN lq = 1..Len(lq)
  BY DEF TypeOK
<1>2. c = 1 => Len(rob) \in Nat /\ 1 \in 1..Len(rob) /\ Head(rob) = rob[1]
  BY <1>1
<1>3. CASE LoadLeaves(c) = 0
  <2>1. LoadsLeft(c) = lq
    BY <1>2, <1>3 DEF LoadsLeft, LoadLeaves
  <2> QED BY <1>1, <1>3, <2>1 DEF Without
<1>4. CASE LoadLeaves(c) = 1
  <2>1. c = 1 /\ rob[1].kind = "load" /\ LoadsLeft(c) = Tail(lq)
    BY <1>2, <1>4 DEF LoadsLeft, LoadLeaves
  <2>2. \E k \in DOMAIN lq : TRUE
    BY <1>2, <2>1 DEF LoadsPlaced
  <2>3. lq # <<>>
    BY <1>1, <2>2
  <2>4. /\ Tail(lq) \in Seq(LoadEntry) /\ Len(Tail(lq)) = Len(lq) - 1
        /\ \A i \in 1..Len(Tail(lq)) : Tail(lq)[i] = lq[i + 1]
    BY <1>1, <2>3, HeadTailProperties
  <2>5. DOMAIN Tail(lq) = 1..Len(Tail(lq))
    BY <2>4
  <2> QED BY <1>4, <2>1, <2>4, <2>5 DEF Without
<1> QED BY <1>3, <1>4 DEF LoadLeaves

\* A flush keeps the oldest.
LEMMA KeptLoads ==
  ASSUME TypeOK, LoadsPlaced(head, rob, lq), NEW e \in {0, 1}, NEW cut \in Nat,
         NEW y \in Seq(LoadEntry), Without(y, lq, e),
         NEW K, K = {k \in DOMAIN y : From(head, y[k].tag) < cut}
  PROVE PartOf(Kept(y, K), y, K, LoadEntry)
<1>1. DOMAIN y = 1..Len(y) /\ Len(y) = Len(lq) - e /\ \A k \in 1..Len(y) : y[k] = lq[k + e]
  BY DEF Without
<1>2. /\ Len(lq) \in Nat /\ DOMAIN lq = 1..Len(lq)
      /\ \A k \in 1..Len(lq) : From(head, lq[k].tag) \in Nat
  BY TypesOfEntries, FromIs
<1>3. Places(K, Len(y))
  BY <1>1 DEF Places
<1>4. ASSUME NEW i \in K, NEW j \in 1..i PROVE j \in K
  <2>1. i \in 1..Len(y) /\ j \in 1..Len(y) /\ From(head, y[i].tag) < cut
    BY <1>1, <1>2
  <2>2. j + e \in 1..Len(lq) /\ i + e \in 1..Len(lq) /\ (j = i \/ j + e < i + e)
    BY <1>1, <1>2, <2>1
  <2>3. j = i \/ From(head, lq[j + e].tag) < From(head, lq[i + e].tag)
    BY <1>2, <2>2 DEF LoadsPlaced
  <2>4. From(head, lq[j + e].tag) \in Nat /\ From(head, lq[i + e].tag) \in Nat
    BY <1>2, <2>2
  <2>5. y[i] = lq[i + e] /\ y[j] = lq[j + e]
    BY <1>1, <2>1
  <2>6. From(head, y[j].tag) < cut
    BY <2>1, <2>3, <2>4, <2>5
  <2> QED BY <1>1, <2>1, <2>6
<1>5. FromTheOldestOn(K)
  BY <1>4 DEF FromTheOldestOn
<1> QED BY <1>3, <1>5, KeptAre

\* The load queue moves on.
LEMMA LoadsMoveOn ==
  ASSUME TypeOK, LoadsPlaced(head, rob, lq), NEW c \in {0, 1}, NEW cut \in Nat,
         NEW y, Without(y, lq, LoadLeaves(c)),
         NEW z, DOMAIN z = {k \in DOMAIN y : From(head, y[k].tag) < cut},
         \A k \in DOMAIN z : z[k].tag = y[k].tag /\ z[k].fp = y[k].fp
  PROVE LoadsMove(head, rob, lq, z, c, LoadLeaves(c), cut)
<1> DEFINE e == LoadLeaves(c)
<1>0. e = IF c = 1 /\ rob[1].kind = "load" THEN 1 ELSE 0
  BY DEF LoadLeaves
<1>1. DOMAIN y = 1..Len(y) /\ Len(y) = Len(lq) - e /\ \A k \in 1..Len(y) : y[k] = lq[k + e]
  BY DEF Without
<1> HIDE DEF e
<1>2. Len(lq) \in Nat /\ DOMAIN lq = 1..Len(lq) /\ e \in {0, 1}
  BY <1>0, TypesOfEntries
<1>3. ASSUME NEW k \in DOMAIN z
      PROVE /\ k + e \in DOMAIN lq
            /\ z[k].tag = lq[k + e].tag /\ z[k].fp = lq[k + e].fp
            /\ From(head, lq[k + e].tag) < cut
  <2>1. k \in 1..Len(y) /\ y[k] = lq[k + e] /\ From(head, y[k].tag) < cut
    BY <1>1
  <2>2. k + e \in DOMAIN lq
    BY <1>1, <1>2, <2>1
  <2> QED BY <2>1, <2>2
<1>4. ASSUME NEW k \in DOMAIN lq, k > e, From(head, lq[k].tag) < cut
      PROVE k - e \in DOMAIN z
  <2>1. k - e \in 1..Len(y) /\ k - e + e = k
    BY <1>1, <1>2, <1>4
  <2>2. y[k - e] = lq[k]
    BY <1>1, <2>1
  <2> QED BY <1>1, <1>4, <2>1, <2>2
<1>5. LoadsMove(head, rob, lq, z, c, e, cut)
  BY <1>0, <1>3, <1>4 DEF LoadsMove
<1> QED BY <1>5 DEF e

-----------------------------------------------------------------------------
\* The committed stores with the one that drains.
LEMMA CsbViewIs ==
  ASSUME TypeOK
  PROVE /\ CsbView \in Seq(Buffered) /\ Len(CsbView) <= CsbDepth
        /\ Len(CsbView) = Len(csb) + Drain
        /\ BufferMoves(csb, CsbView, sq, Len(csb), Drain)
<1>1. /\ csb \in Seq(Buffered) /\ Len(csb) \in Nat /\ DOMAIN csb = 1..Len(csb)
      /\ sq \in Seq(StoreEntry) /\ Len(csb) <= CsbDepth
  BY DEF TypeOK
<1>2. CASE ~Drains
  <2>1. CsbView = csb
    BY <1>1, <1>2, ConcatEmptySeq DEF CsbView, Moved
  <2> QED BY <1>1, <1>2, <2>1 DEF Drain, BufferMoves
<1>3. CASE Drains
  <2> DEFINE e == [fp |-> Head(sq).fp, val |-> Head(sq).val]
  <2>1. sq # <<>> /\ Len(csb) < CsbDepth
    BY <1>3 DEF Drains
  <2>2. Head(sq) = sq[1] /\ sq[1] \in StoreEntry
    BY <1>1, <2>1
  <2>3. e \in Buffered /\ e.fp = sq[1].fp /\ e.val = sq[1].val
    BY <2>2 DEF StoreEntry, Buffered
  <2>4. CsbView = csb \o <<e>>
    BY <1>3 DEF CsbView, Moved
  <2> HIDE DEF e
  <2>5. <<e>> \in Seq(Buffered) /\ Len(<<e>>) = 1 /\ <<e>>[1] = e
    BY <2>3
  <2>6. /\ CsbView \in Seq(Buffered) /\ Len(CsbView) = Len(csb) + 1
        /\ \A i \in 1..(Len(csb) + 1) : CsbView[i] = IF i <= Len(csb) THEN csb[i]
                                                     ELSE <<e>>[i - Len(csb)]
    BY <1>1, <2>4, <2>5, ConcatProperties
  <2>7. DOMAIN CsbView = 1..(Len(csb) + 1)
    BY <2>6
  <2>8. \A i \in 1..Len(csb) : CsbView[i] = csb[i]
    BY <1>1, <2>6
  <2>9. CsbView[Len(csb) + 1] = e
    <3>1. Len(csb) + 1 \in 1..(Len(csb) + 1) /\ ~(Len(csb) + 1 <= Len(csb))
      BY <1>1
    <3>2. Len(csb) + 1 - Len(csb) = 1
      BY <1>1
    <3> QED BY <2>5, <2>6, <3>1, <3>2
  <2>10. Len(CsbView) <= CsbDepth
    BY <1>1, <2>1, <2>6, LoadStoreAssumption
  <2>11. BufferMoves(csb, CsbView, sq, Len(csb), 1)
    BY <2>3, <2>7, <2>8, <2>9 DEF BufferMoves
  <2> QED BY <1>3, <2>6, <2>10, <2>11 DEF Drain
<1> QED BY <1>2, <1>3

\* What is forwarded to a load that the entries K of a list answer.
LEMMA ForwardIs ==
  ASSUME NEW n \in Nat, NEW s, NEW K, Places(K, n), NEW fp, Hit(s, K, fp)
  PROVE \A b \in fp : \E i : IsLast(s, K, b, i) /\ Forward(s, K, fp)[b] = s[i].val
<1> TAKE b \in fp
<1>1. Covered(s, K, fp) = fp
  BY DEF Hit
<1>2. Writers(s, K, b) # {}
  BY <1>1 DEF Covered
<1>3. ~NoneOf(s, K, b)
  BY <1>2 DEF Writers, NoneOf
<1>4. PICK i : IsLast(s, K, b, i)
  BY <1>3, LastWriter
<1>5. Max(Writers(s, K, b)) = i
  BY <1>4, LastIs
<1> QED BY <1>4, <1>5 DEF Forward

\* And its type.
LEMMA ForwardTyped ==
  ASSUME NEW n \in Nat, NEW s, NEW K, Places(K, n), NEW fp, Hit(s, K, fp),
         \A i \in 1..n : s[i].val \in Vals
  PROVE Forward(s, K, fp) \in [fp -> Vals]
<1>1. ASSUME NEW b \in fp PROVE Forward(s, K, fp)[b] \in Vals
  <2>1. PICK i : IsLast(s, K, b, i) /\ Forward(s, K, fp)[b] = s[i].val
    BY ForwardIs
  <2>2. i \in 1..n
    BY <2>1 DEF IsLast, Places
  <2> QED BY <2>1, <2>2
<1>2. Forward(s, K, fp) = [b \in fp |-> Forward(s, K, fp)[b]]
  BY DEF Forward
<1> QED BY <1>1, <1>2

\* The stores that answer a load are places of the store queue.
LEMMA ReadyPlaces ==
  ASSUME TypeOK, NEW A, NEW D, NEW l
  PROVE /\ Len(sq) \in Nat /\ Places(ReadyStores(Filled(A, D), l), Len(sq))
        /\ \A i \in 1..Len(sq) : Filled(A, D)[i].val \in Vals
<1>1. Len(sq) \in Nat /\ \A i \in 1..Len(sq) : sq[i].val \in Vals
  BY TypesOfEntries
<1>2. DOMAIN Filled(A, D) = 1..Len(sq) /\ \A i \in 1..Len(sq) : Filled(A, D)[i].val = sq[i].val
  BY FilledIs
<1> QED BY <1>1, <1>2 DEF ReadyStores, Places

\* The committed stores that answer one are places of the committed ones.
LEMMA CsbPlaces ==
  ASSUME TypeOK
  PROVE /\ Len(CsbView) \in Nat /\ DOMAIN CsbView = 1..Len(CsbView)
        /\ Places(DOMAIN CsbView, Len(CsbView)) /\ Listed(CsbView, Len(CsbView))
        /\ \A i \in 1..Len(CsbView) : CsbView[i].val \in Vals
<1>1. CsbView \in Seq(Buffered)
  BY CsbViewIs
<1>2. /\ Len(CsbView) \in Nat /\ DOMAIN CsbView = 1..Len(CsbView)
      /\ \A i \in 1..Len(CsbView) : CsbView[i] \in Buffered
  BY <1>1
<1> QED BY <1>2 DEF Places, Listed, Buffered

\* A load that issues gets no data or that of its bytes.
LEMMA ForwardedTyped ==
  ASSUME TypeOK, NEW A \in AddrIssues, NEW D, NEW port, NEW l
  PROVE \/ ForwardedData(port, A, D, Filled(A, D), l) = <<>>
        \/ ForwardedData(port, A, D, Filled(A, D), l) \in [l.fp -> Vals]
<1> DEFINE q == Filled(A, D)
           f == ForwardedData(port, A, D, q, l)
<1>1. CASE port = 0 /\ SameCycleHit(A, D, l)
  <2>1. \E i \in A : TRUE
    BY <1>1 DEF SameCycleHit
  <2>2. A \subseteq DOMAIN sq
    BY DEF AddrIssues
  <2>3. (CHOOSE i \in A : TRUE) \in DOMAIN sq
    BY <2>1, <2>2
  <2>4. sq[CHOOSE i \in A : TRUE].val \in Vals
    BY <2>3, TypesOfEntries
  <2>5. f = [b \in l.fp |-> sq[CHOOSE i \in A : TRUE].val]
    BY <1>1 DEF ForwardedData
  <2> QED BY <2>4, <2>5
<1>2. CASE ~(port = 0 /\ SameCycleHit(A, D, l)) /\ SqHit(q, l)
  <2>1. Hit(q, ReadyStores(q, l), l.fp)
    BY <1>2 DEF SqHit
  <2>2. /\ Len(sq) \in Nat /\ Places(ReadyStores(q, l), Len(sq))
        /\ \A i \in 1..Len(sq) : q[i].val \in Vals
    BY ReadyPlaces
  <2>3. f = Forward(q, ReadyStores(q, l), l.fp)
    BY <1>2 DEF ForwardedData
  <2> HIDE DEF q, f
  <2>4. f \in [l.fp -> Vals]
    BY <2>1, <2>2, <2>3, ForwardTyped
  <2> QED BY <2>4 DEF f, q
<1>3. CASE /\ ~(port = 0 /\ SameCycleHit(A, D, l)) /\ ~SqHit(q, l)
           /\ Hit(CsbView, DOMAIN CsbView, l.fp)
  <2>1. /\ Len(CsbView) \in Nat /\ Places(DOMAIN CsbView, Len(CsbView))
        /\ \A i \in 1..Len(CsbView) : CsbView[i].val \in Vals
    BY CsbPlaces
  <2>2. f = Forward(CsbView, DOMAIN CsbView, l.fp)
    BY <1>3 DEF ForwardedData
  <2> HIDE DEF q, f
  <2>3. f \in [l.fp -> Vals]
    BY <1>3, <2>1, <2>2, ForwardTyped
  <2> QED BY <2>3 DEF f, q
<1>4. CASE /\ ~(port = 0 /\ SameCycleHit(A, D, l)) /\ ~SqHit(q, l)
           /\ ~Hit(CsbView, DOMAIN CsbView, l.fp)
  BY <1>4 DEF ForwardedData
<1> QED BY <1>1, <1>2, <1>3, <1>4

\* An offer is of different loads that wait.
LEMMA OfferIs ==
  ASSUME TypeOK, NEW offer \in Offers
  PROVE /\ DOMAIN offer \subseteq {1, 2}
        /\ \A p \in DOMAIN offer : offer[p] \in DOMAIN lq /\ ~lq[offer[p]].executed
        /\ \A p, r \in DOMAIN offer : offer[p] = offer[r] => p = r
<1>1. CASE offer = <<>>
  BY <1>1
<1>2. CASE offer \in {<<k>> : k \in Waiting}
  <2>1. PICK k \in Waiting : offer = <<k>>
    BY <1>2
  <2> QED BY <2>1 DEF Waiting
<1>3. CASE offer \in {o \in Waiting \X Waiting : o[1] < o[2]}
  <2>1. PICK j \in Waiting, k \in Waiting : offer = <<j, k>>
    BY <1>3
  <2>2. offer[1] < offer[2]
    BY <1>3
  <2>3. j \in Waiting /\ k \in Waiting /\ j # k
    <3>1. j \in Nat /\ k \in Nat /\ j < k
      BY <2>1, <2>2, TypesOfEntries DEF Waiting
    <3> QED BY <3>1
  <2> QED BY <2>1, <2>3 DEF Waiting
<1> QED BY <1>1, <1>2, <1>3 DEF Offers

-----------------------------------------------------------------------------
\* The loads of an offer that issue, and the data that load p of it gets.
Accepted(A, D, offer) ==
    {p \in DOMAIN offer : ~Suppressed(p - 1, A, D, Filled(A, D), lq[offer[p]])}
Answer(A, D, offer, p) == ForwardedData(p - 1, A, D, Filled(A, D), lq[offer[p]])
Answers(A, D, offer, r) == {p \in Accepted(A, D, offer) : Place(lq[offer[p]]) = r}

Fires(A, D, offer) == {offer[p] : p \in Accepted(A, D, offer)}

\* Load e after it, when it fires or not.
LoadIssued(e, e2, fires) ==
    \E late \in BOOLEAN : e2 = [e EXCEPT !.executed = @ \/ fires, !.replay = @ \/ late]

\* Access r of the reorder buffer after an issue.
Issued(A, D, offer, r) ==
    IF Answers(A, D, offer, r) # {}
    THEN [rob[r] EXCEPT !.data = Answer(A, D, offer, CHOOSE p \in Accepted(A, D, offer) :
                                                        Place(lq[offer[p]]) = r)]
    ELSE rob[r]

\* What issues, by the names above.
LEMMA IssueIs ==
  ASSUME NEW A, NEW D, NEW offer, Issue(A, D, offer)
  PROVE /\ DOMAIN lq' = DOMAIN lq
        /\ \A k \in DOMAIN lq : LoadIssued(lq[k], lq'[k], k \in Fires(A, D, offer))
        /\ rob' = [r \in DOMAIN rob |-> Issued(A, D, offer, r)]
        /\ sq' = AfterDrain(Filled(A, D)) /\ csb' = CsbView
        /\ dword' = dword /\ head' = head /\ cache' = cache
        /\ ~Overtaken => \A i \in A \cap D : ~IsOvertaken(i)
<1>1. lq' = [k \in DOMAIN lq |->
               [lq[k] EXCEPT !.executed = @ \/ k \in Fires(A, D, offer),
                             !.replay = @ \/ k \in Oldest(Violations(A))]]
  BY DEF Issue, Accepted, Fires
<1>2. rob' = [r \in DOMAIN rob |->
                IF \E p \in Accepted(A, D, offer) : Place(lq[offer[p]]) = r
                THEN LET p == CHOOSE p \in Accepted(A, D, offer) : Place(lq[offer[p]]) = r
                     IN  [rob[r] EXCEPT !.data = Answer(A, D, offer, p)]
                ELSE rob[r]]
  BY DEF Issue, Accepted, Answer
<1>3. \A r : Answers(A, D, offer, r) # {}
               <=> \E p \in Accepted(A, D, offer) : Place(lq[offer[p]]) = r
  BY DEF Answers
<1>4. rob' = [r \in DOMAIN rob |-> Issued(A, D, offer, r)]
  BY <1>2, <1>3, Zenon DEF Issued
<1>5. /\ sq' = AfterDrain(Filled(A, D)) /\ csb' = CsbView
      /\ dword' = dword /\ head' = head /\ cache' = cache
      /\ ~Overtaken => \A i \in A \cap D : ~IsOvertaken(i)
  BY DEF Issue
<1>6. DOMAIN lq' = DOMAIN lq
  BY <1>1
<1>7. ASSUME NEW k \in DOMAIN lq PROVE LoadIssued(lq[k], lq'[k], k \in Fires(A, D, offer))
  <2>1. lq'[k] = [lq[k] EXCEPT !.executed = @ \/ k \in Fires(A, D, offer),
                               !.replay = @ \/ k \in Oldest(Violations(A))]
    BY <1>1
  <2>2. (k \in Oldest(Violations(A))) \in BOOLEAN
    OBVIOUS
  <2> QED BY <2>1, <2>2, Zenon DEF LoadIssued
<1> QED BY <1>4, <1>5, <1>6, <1>7

\* The load queue after an issue.
LEMMA IssuedLoads ==
  ASSUME TypeOK, NEW A, NEW D, NEW offer, Issue(A, D, offer)
  PROVE /\ lq' \in Seq(LoadEntry) /\ Len(lq') = Len(lq) /\ DOMAIN lq' = 1..Len(lq)
        /\ \A k \in 1..Len(lq) :
              /\ lq'[k].tag = lq[k].tag /\ lq'[k].fp = lq[k].fp
              /\ lq'[k].executed <=> \/ lq[k].executed
                                     \/ k \in Fires(A, D, offer)
<1>1. Len(lq) \in Nat /\ DOMAIN lq = 1..Len(lq) /\ \A k \in 1..Len(lq) : lq[k] \in LoadEntry
  BY DEF TypeOK
<1>2. DOMAIN lq' = 1..Len(lq)
  BY <1>1, IssueIs
<1>3. ASSUME NEW k \in 1..Len(lq)
      PROVE /\ lq'[k] \in LoadEntry
            /\ lq'[k].tag = lq[k].tag /\ lq'[k].fp = lq[k].fp
            /\ lq'[k].executed = (\/ lq[k].executed
                                  \/ k \in Fires(A, D, offer))
  <2> DEFINE x == k \in Fires(A, D, offer)
  <2>1. LoadIssued(lq[k], lq'[k], x)
    BY <1>1, IssueIs
  <2> HIDE DEF x
  <2>2. PICK y \in BOOLEAN : lq'[k] = [lq[k] EXCEPT !.executed = @ \/ x, !.replay = @ \/ y]
    BY <2>1 DEF LoadIssued
  <2>3. /\ lq'[k] \in LoadEntry
        /\ lq'[k].tag = lq[k].tag /\ lq'[k].fp = lq[k].fp
        /\ lq'[k].executed = (lq[k].executed \/ x)
    BY <1>1, <2>2 DEF LoadEntry
  <2> QED BY <2>3 DEF x
<1>4. lq' \in [1..Len(lq) -> LoadEntry]
  <2>1. lq' = [k \in DOMAIN lq' |-> lq'[k]]
    BY DEF Issue
  <2> QED BY <1>2, <1>3, <2>1
<1>5. lq' \in Seq(LoadEntry) /\ Len(lq') = Len(lq)
  BY <1>1, <1>4, ListIs
<1> QED BY <1>2, <1>3, <1>5

\* The reorder buffer after one.
LEMMA IssuedRob ==
  ASSUME TypeOK, NEW A \in AddrIssues, NEW D, NEW offer \in Offers, Issue(A, D, offer)
  PROVE /\ rob' \in Seq(Access) /\ Len(rob') = Len(rob) /\ DOMAIN rob' = 1..Len(rob)
        /\ \A r \in 1..Len(rob) :
              /\ rob'[r].kind = rob[r].kind /\ rob'[r].fp = rob[r].fp
              /\ \/ rob'[r].data = rob[r].data /\ Answers(A, D, offer, r) = {}
                 \/ \E p \in Answers(A, D, offer, r) : rob'[r].data = Answer(A, D, offer, p)
<1>0. Access = [kind : {"load", "store"}, fp : Footprints, data : Datum]
  BY DEF Access, Datum
<1>1. /\ Len(rob) \in Nat /\ DOMAIN rob = 1..Len(rob)
      /\ \A r \in 1..Len(rob) : rob[r] \in [kind : {"load", "store"}, fp : Footprints, data : Datum]
  <2>1. rob \in Seq(Access)
    BY DEF TypeOK
  <2>2. Len(rob) \in Nat /\ DOMAIN rob = 1..Len(rob) /\ \A r \in 1..Len(rob) : rob[r] \in Access
    BY <2>1
  <2> QED BY <1>0, <2>2
<1>2. rob' = [r \in 1..Len(rob) |-> Issued(A, D, offer, r)]
  <2>1. rob' = [r \in DOMAIN rob |-> Issued(A, D, offer, r)]
    BY IssueIs
  <2> QED BY <1>1, <2>1
<1>3. ASSUME NEW r \in 1..Len(rob)
      PROVE /\ rob'[r] \in Access
            /\ rob'[r].kind = rob[r].kind /\ rob'[r].fp = rob[r].fp
            /\ \/ rob'[r].data = rob[r].data /\ Answers(A, D, offer, r) = {}
               \/ \E p \in Answers(A, D, offer, r) : rob'[r].data = Answer(A, D, offer, p)
  <2>1. CASE Answers(A, D, offer, r) = {}
    <3>1. rob'[r] = rob[r]
      BY <1>2, <2>1 DEF Issued
    <3> QED BY <1>0, <1>1, <2>1, <3>1
  <2>2. CASE Answers(A, D, offer, r) # {}
    <3>1. PICK p : p = CHOOSE x \in Accepted(A, D, offer) : Place(lq[offer[x]]) = r
      OBVIOUS
    <3>2. p \in Answers(A, D, offer, r)
      BY <2>2, <3>1 DEF Answers
    <3>3. rob'[r] = [rob[r] EXCEPT !.data = Answer(A, D, offer, p)]
      BY <1>2, <2>2, <3>1 DEF Issued
    <3>4. offer[p] \in DOMAIN lq
      BY <3>2, OfferIs DEF Answers, Accepted
    <3>5. lq[offer[p]].fp \in Footprints
      BY <3>4, TypesOfEntries
    <3>6. \/ Answer(A, D, offer, p) = <<>>
          \/ Answer(A, D, offer, p) \in [lq[offer[p]].fp -> Vals]
      BY ForwardedTyped DEF Answer
    <3>7. Answer(A, D, offer, p) \in Datum
      BY <3>5, <3>6, DatumIs
    <3> HIDE DEF Answer
    <3>8. /\ rob'[r] \in [kind : {"load", "store"}, fp : Footprints, data : Datum]
          /\ rob'[r].kind = rob[r].kind /\ rob'[r].fp = rob[r].fp
          /\ rob'[r].data = Answer(A, D, offer, p)
      BY <1>1, <3>3, <3>7
    <3> QED BY <1>0, <3>2, <3>8
  <2> QED BY <2>1, <2>2
<1>4. rob' \in [1..Len(rob) -> Access]
  BY <1>2, <1>3
<1>5. rob' \in Seq(Access) /\ Len(rob') = Len(rob)
  BY <1>1, <1>4, ListIs
<1> QED BY <1>3, <1>4, <1>5

\* Ages stay while the head does.
LEMMA AgesStay ==
  ASSUME NEW h \in Tag, NEW cut
  PROVE AgesMove(h, h, 0, cut)
<1> SUFFICES ASSUME NEW t \in Tag PROVE From(h, t) = From(h, t) - 0
  BY DEF AgesMove
<1> QED BY FromIs

\* Two loads have two places.
LEMMA PlacesDiffer ==
  ASSUME TypeOK, LoadsPlaced(head, rob, lq), NEW j \in DOMAIN lq, NEW k \in DOMAIN lq,
         From(head, lq[j].tag) = From(head, lq[k].tag)
  PROVE j = k
<1>1. /\ j \in Nat /\ k \in Nat
      /\ From(head, lq[j].tag) \in Nat /\ From(head, lq[k].tag) \in Nat
  BY TypesOfEntries, FromIs
<1>2. ~(j < k) /\ ~(k < j)
  BY <1>1 DEF LoadsPlaced
<1> QED BY <1>1, <1>2

\* What a step moves: c accesses retire, d stores drain and e loads leave, and
\* what is not older than cut goes.
Cycle(c, d, e, cut) ==
    /\ RobMoves(head, rob, head', rob', c, cut)
    /\ LoadsMove(head, rob, lq, lq', c, e, cut)
    /\ StoresMove(head, sq, sq', c, d, cut)
    /\ BufferMoves(csb, csb', sq, Len(csb), d)

\* What stays, stays as it was.
Unaltered(c, e, cut) ==
    /\ \A r \in 1..(cut - c) : rob'[r] = rob[r + c]
    /\ \A k \in DOMAIN lq' : lq'[k] = lq[k + e]

\* The queues are in order.
Placed == LoadsPlaced(head, rob, lq) /\ StoresPlaced(head, rob, sq)

\* Types after an issue.
LEMMA IssueTyped ==
  ASSUME TypeOK, NEW A \in AddrIssues, NEW D, NEW offer \in Offers, Issue(A, D, offer)
  PROVE TypeOK'
<1>1. /\ dword' = dword /\ head' = head /\ cache' = cache
      /\ sq' = AfterDrain(Filled(A, D)) /\ csb' = CsbView
  BY IssueIs
<1>2. Filled(A, D) \in Seq(StoreEntry) /\ Len(Filled(A, D)) = Len(sq)
  BY FilledIs
<1>3. AfterDrain(Filled(A, D)) \in Seq(StoreEntry) /\ Len(AfterDrain(Filled(A, D))) = Len(sq) - Drain
      /\ Drain \in {0, 1} /\ Len(sq) \in Nat /\ Len(sq) <= SqDepth
  BY <1>2, AfterDrainIs DEF TypeOK, Without
<1>4. Len(AfterDrain(Filled(A, D))) <= SqDepth
  BY <1>3, LoadStoreAssumption
<1>5. CsbView \in Seq(Buffered) /\ Len(CsbView) <= CsbDepth
  BY CsbViewIs
<1>6. rob' \in Seq(Access) /\ Len(rob') = Len(rob) /\ lq' \in Seq(LoadEntry)
  BY IssuedRob, IssuedLoads
<1>7. dword' \in Layouts /\ head' \in Tag /\ cache' \in [Bytes -> Vals] /\ Len(rob') <= RobDepth
  BY <1>1, <1>6 DEF TypeOK
<1> QED BY <1>1, <1>3, <1>4, <1>5, <1>6, <1>7 DEF TypeOK

\* What it moves.
LEMMA IssueMoves ==
  ASSUME TypeOK, Placed, NEW A \in AddrIssues, NEW D, NEW offer \in Offers, Issue(A, D, offer)
  PROVE Cycle(0, Drain, 0, Len(rob))
<1>1. Len(rob) \in Nat /\ LoadsPlaced(head, rob, lq) /\ StoresPlaced(head, rob, sq) /\ head \in Tag
  BY TypesOfEntries DEF Placed
<1>2. RobMoves(head, rob, head', rob', 0, Len(rob))
  <2>1. AgesMove(head, head', 0, Len(rob))
    BY <1>1, IssueIs, AgesStay
  <2>2. ASSUME NEW r \in 1..Len(rob), rob[r].kind = "store" PROVE rob'[r].data = rob[r].data
    <3> SUFFICES ASSUME NEW p \in Answers(A, D, offer, r) PROVE FALSE
      BY IssuedRob
    <3>1. offer[p] \in DOMAIN lq /\ From(head, lq[offer[p]].tag) + 1 = r
      BY OfferIs DEF Answers, Accepted, Place, Age, From
    <3> QED BY <1>1, <2>2, <3>1 DEF LoadsPlaced
  <2>3. /\ Len(rob') = Len(rob)
        /\ \A r \in 1..Len(rob) : rob'[r].kind = rob[r].kind /\ rob'[r].fp = rob[r].fp
    BY IssuedRob
  <2> QED BY <1>1, <2>1, <2>2, <2>3 DEF RobMoves
<1>3. LoadsMove(head, rob, lq, lq', 0, 0, Len(rob))
  <2>1. /\ Len(lq) \in Nat /\ DOMAIN lq = 1..Len(lq) /\ DOMAIN lq' = 1..Len(lq)
        /\ \A k \in 1..Len(lq) : lq'[k].tag = lq[k].tag /\ lq'[k].fp = lq[k].fp
    BY IssuedLoads, TypesOfEntries
  <2>2. \A k \in 1..Len(lq) : From(head, lq[k].tag) < Len(rob)
    BY <1>1, <2>1 DEF LoadsPlaced
  <2> QED BY <2>1, <2>2 DEF LoadsMove
<1>4. StoresMove(head, sq, sq', 0, Drain, Len(rob))
  <2>1. Filled(A, D) \in Seq(StoreEntry) /\ Len(Filled(A, D)) = Len(sq) /\ Updates(Filled(A, D), 0)
    BY FilledIs, FilledUpdates
  <2>2. Without(AfterDrain(Filled(A, D)), Filled(A, D), Drain) /\ Drain \in {0, 1}
        /\ (Drain = 1 => Len(sq) >= 1 /\ sq[1].committed)
    BY <2>1, AfterDrainIs
  <2>3. OlderOf(AfterDrain(Filled(A, D)), AfterDrain(Filled(A, D)), Len(rob))
    BY <1>1, <2>1, <2>2, AllStoresStay
  <2>4. StoresMove(head, sq, AfterDrain(Filled(A, D)), 0, Drain, Len(rob))
    BY <1>1, <2>1, <2>2, <2>3, StoresMoveOn
  <2> QED BY <2>4, IssueIs
<1>5. BufferMoves(csb, csb', sq, Len(csb), Drain)
  BY CsbViewIs, IssueIs
<1> QED BY <1>2, <1>3, <1>4, <1>5 DEF Cycle

-----------------------------------------------------------------------------
\* The places of accesses that a step shifts.
LEMMA HeadMoves ==
  ASSUME NEW h \in Tag, NEW c \in {0, 1}, NEW cut
  PROVE (h + c) % RobDepth \in Tag /\ AgesMove(h, (h + c) % RobDepth, c, cut)
<1>1. (h + c) % RobDepth \in Tag
  BY LoadStoreAssumption DEF Tag
<1>2. ASSUME NEW t \in Tag, c <= From(h, t) PROVE From((h + c) % RobDepth, t) = From(h, t) - c
  BY <1>2, FromMoves
<1> QED BY <1>1, <1>2 DEF AgesMove

\* An access that retires is there.
LEMMA RetirableIs ==
  ASSUME TypeOK, Retirable
  PROVE Len(rob) \in Nat /\ Len(rob) >= 1 /\ rob # <<>> /\ Head(rob) = rob[1]
<1>1. rob \in Seq(Access) /\ rob # <<>>
  BY DEF TypeOK, Retirable
<1> QED BY <1>1

\* The cache answers a load: types, and what that moves.
LEMMA RespondTyped ==
  ASSUME TypeOK, Placed, NEW k \in DOMAIN lq, Respond(k)
  PROVE /\ TypeOK' /\ Cycle(0, 0, 0, Len(rob))
        /\ \A r \in 1..Len(rob) : IF r = From(head, lq[k].tag) + 1
                                  THEN rob'[r].data = [b \in lq[k].fp |-> cache[b]]
                                  ELSE rob'[r].data = rob[r].data
<1> DEFINE p == Place(lq[k])
           f == [b \in lq[k].fp |-> cache[b]]
<1>0. Access = [kind : {"load", "store"}, fp : Footprints, data : Datum]
  BY DEF Access, Datum
<1>1. /\ rob \in Seq(Access) /\ Len(rob) \in Nat /\ DOMAIN rob = 1..Len(rob)
      /\ \A r \in 1..Len(rob) : rob[r] \in Access
      /\ Len(rob) <= RobDepth /\ head \in Tag /\ cache \in [Bytes -> Vals]
  BY DEF TypeOK
<1>2. p \in 1..Len(rob) /\ p = From(head, lq[k].tag) + 1 /\ rob[p].kind = "load"
  <2>1. /\ From(head, lq[k].tag) < Len(rob) /\ rob[From(head, lq[k].tag) + 1].kind = "load"
        /\ p = From(head, lq[k].tag) + 1
    BY DEF Placed, LoadsPlaced, Place, Age, From
  <2>2. From(head, lq[k].tag) \in Nat
    BY TypesOfEntries, FromIs
  <2> QED BY <1>1, <2>1, <2>2
<1>3. f \in Datum
  <2>1. lq[k].fp \in Footprints /\ lq[k].fp \subseteq Bytes
    BY TypesOfEntries, LoadStoreAssumption
  <2>2. f \in [lq[k].fp -> Vals]
    BY <1>1, <2>1
  <2> QED BY <2>1, <2>2, DatumIs
<1>4. /\ rob' = [rob EXCEPT ![p].data = f] /\ dword' = dword /\ head' = head
      /\ lq' = lq /\ sq' = sq /\ csb' = csb /\ cache' = cache
  BY DEF Respond
<1> HIDE DEF f, p
<1>5. /\ DOMAIN rob' = 1..Len(rob)
      /\ \A r \in 1..Len(rob) : rob'[r] = IF r = p THEN [rob[p] EXCEPT !.data = f] ELSE rob[r]
  BY <1>1, <1>2, <1>4
<1>6. ASSUME NEW r \in 1..Len(rob)
      PROVE /\ rob'[r] \in Access /\ rob'[r].kind = rob[r].kind /\ rob'[r].fp = rob[r].fp
            /\ IF r = p THEN rob'[r].data = f ELSE rob'[r].data = rob[r].data
  <2>1. CASE r = p
    <3>1. rob[p] \in [kind : {"load", "store"}, fp : Footprints, data : Datum]
      BY <1>0, <1>1, <1>2
    <3>2. rob'[r] = [rob[p] EXCEPT !.data = f]
      BY <1>5, <2>1
    <3> QED BY <1>0, <1>3, <2>1, <3>1, <3>2
  <2>2. CASE r # p
    BY <1>1, <1>5, <2>2
  <2> QED BY <2>1, <2>2
<1>7. rob' \in [1..Len(rob) -> Access]
  <2>1. rob' = [r \in DOMAIN rob' |-> rob'[r]]
    BY <1>4
  <2> QED BY <1>5, <1>6, <2>1
<1>8. rob' \in Seq(Access) /\ Len(rob') = Len(rob)
  BY <1>1, <1>7, ListIs
<1>9. TypeOK'
  BY <1>1, <1>4, <1>8 DEF TypeOK
<1>10. RobMoves(head, rob, head', rob', 0, Len(rob))
  <2>1. AgesMove(head, head', 0, Len(rob))
    BY <1>1, <1>4, AgesStay
  <2>2. \A r \in 1..Len(rob) : rob[r].kind = "store" => rob'[r].data = rob[r].data
    BY <1>2, <1>6
  <2> QED BY <1>1, <1>6, <1>8, <2>1, <2>2 DEF RobMoves
<1>11. LoadsMove(head, rob, lq, lq', 0, 0, Len(rob))
  <2>1. /\ Len(lq) \in Nat /\ DOMAIN lq = 1..Len(lq)
        /\ \A j \in 1..Len(lq) : From(head, lq[j].tag) < Len(rob)
    BY TypesOfEntries DEF Placed, LoadsPlaced
  <2> QED BY <1>4, <2>1 DEF LoadsMove
<1>12. StoresMove(head, sq, sq', 0, 0, Len(rob))
  <2>1. StoresPlaced(head, rob, sq) /\ Len(sq) \in Nat /\ DOMAIN sq = 1..Len(sq) /\ Updates(sq, 0)
    BY TypesOfEntries, NothingUpdates DEF Placed
  <2>2. Without(sq, sq, 0)
    BY <2>1 DEF Without
  <2>3. OlderOf(sq, sq, Len(rob))
    BY <2>1, <2>2, AllStoresStay
  <2>4. StoresMove(head, sq, sq, 0, 0, Len(rob))
    BY <1>1, <2>1, <2>2, <2>3, StoresMoveOn
  <2> QED BY <1>4, <2>4
<1>13. BufferMoves(csb, csb', sq, Len(csb), 0)
  BY <1>4 DEF BufferMoves
<1>14. \A r \in 1..Len(rob) : IF r = From(head, lq[k].tag) + 1
                              THEN rob'[r].data = [b \in lq[k].fp |-> cache[b]]
                              ELSE rob'[r].data = rob[r].data
  BY <1>2, <1>6 DEF f
<1> QED BY <1>9, <1>10, <1>11, <1>12, <1>13, <1>14 DEF Cycle

\* The cache takes a store: types.
LEMMA AckTyped ==
  ASSUME TypeOK, Ack
  PROVE /\ TypeOK' /\ Len(csb) \in Nat /\ Len(csb) >= 1 /\ RestOf(csb', csb, Len(csb))
        /\ \A b \in Bytes : WrittenTo(cache, csb[1], b, cache')
        /\ head' = head /\ rob' = rob /\ lq' = lq /\ sq' = sq /\ dword' = dword
<1>1. /\ csb \in Seq(Buffered) /\ Len(csb) \in Nat /\ DOMAIN csb = 1..Len(csb)
      /\ \A i \in 1..Len(csb) : csb[i] \in Buffered
      /\ cache \in [Bytes -> Vals] /\ Len(csb) <= CsbDepth
  BY DEF TypeOK
<1>2. /\ csb # <<>> /\ csb' = Tail(csb)
      /\ cache' = [b \in Bytes |-> IF b \in Head(csb).fp THEN Head(csb).val ELSE cache[b]]
      /\ dword' = dword /\ head' = head /\ rob' = rob /\ lq' = lq /\ sq' = sq
  BY DEF Ack
<1>3. Len(csb) >= 1 /\ Head(csb) = csb[1] /\ csb[1] \in Buffered
  BY <1>1, <1>2
<1>4. /\ Tail(csb) \in Seq(Buffered) /\ Len(Tail(csb)) = Len(csb) - 1
      /\ \A i \in 1..Len(Tail(csb)) : Tail(csb)[i] = csb[i + 1]
  BY <1>1, <1>2, HeadTailProperties
<1>5. DOMAIN Tail(csb) = 1..(Len(csb) - 1)
  BY <1>4
<1>6. RestOf(csb', csb, Len(csb))
  BY <1>2, <1>4, <1>5 DEF RestOf
<1>7. cache' \in [Bytes -> Vals]
  BY <1>1, <1>2, <1>3 DEF Buffered
<1>8. \A b \in Bytes : WrittenTo(cache, csb[1], b, cache')
  BY <1>2, <1>3 DEF WrittenTo
<1>9. Len(Tail(csb)) <= CsbDepth
  BY <1>1, <1>4, LoadStoreAssumption
<1>10. TypeOK'
  BY <1>2, <1>4, <1>7, <1>9 DEF TypeOK
<1> QED BY <1>1, <1>2, <1>3, <1>6, <1>8, <1>10

\* The loads left when c accesses retire are younger.
LEMMA LoadsLeftYounger ==
  ASSUME TypeOK, LoadsPlaced(head, rob, lq), NEW c \in {0, 1}, c = 1 => rob # <<>>,
         NEW k \in DOMAIN LoadsLeft(c)
  PROVE ~(From(head, LoadsLeft(c)[k].tag) < c)
<1> DEFINE e == LoadLeaves(c)
<1>1. /\ DOMAIN LoadsLeft(c) = 1..(Len(lq) - e) /\ \A j \in 1..(Len(lq) - e) : LoadsLeft(c)[j] = lq[j + e]
      /\ e \in {0, 1}
  BY LoadsLeftAre DEF Without
<1>2. /\ Len(lq) \in Nat /\ DOMAIN lq = 1..Len(lq)
      /\ \A j \in 1..Len(lq) : From(head, lq[j].tag) \in Nat
  BY TypesOfEntries, FromIs
<1>3. e = IF c = 1 /\ rob[1].kind = "load" THEN 1 ELSE 0
  BY DEF LoadLeaves
<1> HIDE DEF e
<1>4. LoadsLeft(c)[k] = lq[k + e] /\ k + e \in 1..Len(lq) /\ k \in 1..(Len(lq) - e)
  BY <1>1, <1>2
<1> SUFFICES ASSUME From(head, lq[k + e].tag) < c PROVE FALSE
  BY <1>4
<1>5. c = 1 /\ From(head, lq[k + e].tag) = 0
  BY <1>2, <1>4
<1>6. rob[1].kind = "load"
  BY <1>2, <1>4, <1>5 DEF LoadsPlaced
<1>7. e = 1 /\ 1 \in DOMAIN lq /\ 1 < k + e
  BY <1>2, <1>3, <1>4, <1>5, <1>6
<1>8. From(head, lq[1].tag) < From(head, lq[k + e].tag)
  BY <1>2, <1>4, <1>7 DEF LoadsPlaced
<1>9. From(head, lq[1].tag) \in Nat
  BY <1>2, <1>7
<1> QED BY <1>5, <1>8, <1>9

\* An access retires.
LEMMA CommitTyped ==
  ASSUME TypeOK, Placed, Commit
  PROVE /\ TypeOK' /\ Cycle(1, 0, LoadLeaves(1), Len(rob))
        /\ Unaltered(1, LoadLeaves(1), Len(rob)) /\ cache' = cache /\ dword' = dword
<1>1. /\ Retirable /\ head' = (head + 1) % RobDepth /\ rob' = Tail(rob)
      /\ lq' = LoadsLeft(1) /\ sq' = Marked(sq, 1)
      /\ dword' = dword /\ csb' = csb /\ cache' = cache
  BY DEF Commit
<1>2. /\ Len(rob) \in Nat /\ Len(rob) >= 1 /\ rob # <<>> /\ rob \in Seq(Access)
      /\ Len(rob) <= RobDepth /\ head \in Tag /\ sq \in Seq(StoreEntry) /\ Len(sq) \in Nat
      /\ Len(sq) <= SqDepth
  BY <1>1, RetirableIs DEF TypeOK
<1>3. LoadsPlaced(head, rob, lq) /\ StoresPlaced(head, rob, sq)
  BY DEF Placed
<1>4. /\ Tail(rob) \in Seq(Access) /\ Len(Tail(rob)) = Len(rob) - 1
      /\ \A r \in 1..Len(Tail(rob)) : Tail(rob)[r] = rob[r + 1]
  BY <1>2, HeadTailProperties
<1>5. (head + 1) % RobDepth \in Tag /\ AgesMove(head, (head + 1) % RobDepth, 1, Len(rob))
  BY <1>2, HeadMoves
<1>6. /\ LoadsLeft(1) \in Seq(LoadEntry) /\ Without(LoadsLeft(1), lq, LoadLeaves(1))
      /\ LoadLeaves(1) \in {0, 1}
  BY <1>2, <1>3, LoadsLeftAre
<1>7. Marked(sq, 1) \in Seq(StoreEntry) /\ Updates(Marked(sq, 1), 1)
  BY <1>1, <1>2, <1>3, NothingUpdates, MarkedUpdates
<1>8. RobMoves(head, rob, head', rob', 1, Len(rob))
  <2>1. \A r \in 1..(Len(rob) - 1) : rob'[r] = rob[r + 1]
    BY <1>1, <1>4
  <2> QED BY <1>1, <1>2, <1>4, <1>5, <2>1 DEF RobMoves
<1>9. LoadsMove(head, rob, lq, lq', 1, LoadLeaves(1), Len(rob))
  <2> DEFINE y == LoadsLeft(1)
  <2>1. /\ DOMAIN y = 1..(Len(lq) - LoadLeaves(1))
        /\ \A k \in 1..(Len(lq) - LoadLeaves(1)) : y[k] = lq[k + LoadLeaves(1)]
    BY <1>6 DEF Without
  <2>2. /\ Len(lq) \in Nat /\ DOMAIN lq = 1..Len(lq)
        /\ \A k \in 1..Len(lq) : From(head, lq[k].tag) < Len(rob)
    BY <1>3, TypesOfEntries DEF LoadsPlaced
  <2>3. \A k \in DOMAIN y : From(head, y[k].tag) < Len(rob)
    <3> TAKE k \in DOMAIN y
    <3>1. y[k] = lq[k + LoadLeaves(1)] /\ k + LoadLeaves(1) \in 1..Len(lq)
      <4> HIDE DEF y
      <4> QED BY <1>6, <2>1, <2>2
    <3> QED BY <2>2, <3>1
  <2> HIDE DEF y
  <2>4. DOMAIN y = {k \in DOMAIN y : From(head, y[k].tag) < Len(rob)}
    BY <2>3
  <2>5. LoadsMove(head, rob, lq, y, 1, LoadLeaves(1), Len(rob))
    <3>1. Without(y, lq, LoadLeaves(1))
      BY <1>6 DEF y
    <3>2. \A k \in DOMAIN y : y[k].tag = y[k].tag /\ y[k].fp = y[k].fp
      OBVIOUS
    <3> QED BY <1>2, <1>3, <2>4, <3>1, <3>2, LoadsMoveOn
  <2> QED BY <1>1, <2>5 DEF y
<1>10. StoresMove(head, sq, sq', 1, 0, Len(rob))
  <2> DEFINE x == Marked(sq, 1)
  <2>1. Updates(x, 1) /\ Without(x, x, 0)
    BY <1>2, <1>7 DEF Updates, Without
  <2> HIDE DEF x
  <2>2. OlderOf(x, x, Len(rob))
    BY <1>3, <2>1, AllStoresStay
  <2>3. StoresMove(head, sq, x, 1, 0, Len(rob))
    BY <1>1, <1>2, <1>3, <2>1, <2>2, StoresMoveOn
  <2> QED BY <1>1, <2>3 DEF x
<1>11. BufferMoves(csb, csb', sq, Len(csb), 0)
  BY <1>1 DEF BufferMoves
<1>12. TypeOK'
  <2>1. Len(Tail(rob)) <= RobDepth /\ Len(Marked(sq, 1)) = Len(sq)
    BY <1>2, <1>4, <1>7, LoadStoreAssumption DEF Updates
  <2> QED BY <1>1, <1>2, <1>4, <1>5, <1>6, <1>7, <2>1 DEF TypeOK
<1>13. Unaltered(1, LoadLeaves(1), Len(rob))
  <2>1. \A r \in 1..(Len(rob) - 1) : rob'[r] = rob[r + 1]
    BY <1>1, <1>4
  <2>2. \A k \in DOMAIN lq' : lq'[k] = lq[k + LoadLeaves(1)]
    BY <1>1, <1>6 DEF Without
  <2> QED BY <2>1, <2>2 DEF Unaltered
<1> QED BY <1>1, <1>8, <1>9, <1>10, <1>11, <1>12, <1>13 DEF Cycle

\* The stores after a flush that keeps those older than cut.
LEMMA FlushedStores ==
  ASSUME TypeOK, Placed, NEW c \in {0, 1}, c = 1 => Retirable, NEW cut \in Nat, c <= cut,
         NEW x \in Seq(StoreEntry), Updates(x, 0),
         NEW K, K = {i \in DOMAIN AfterDrain(Marked(x, c)) :
                       \/ AfterDrain(Marked(x, c))[i].committed
                       \/ From(head, AfterDrain(Marked(x, c))[i].tag) < cut}
  PROVE /\ Kept(AfterDrain(Marked(x, c)), K) \in Seq(StoreEntry)
        /\ Len(Kept(AfterDrain(Marked(x, c)), K)) <= SqDepth
        /\ StoresMove(head, sq, Kept(AfterDrain(Marked(x, c)), K), c, Drain, cut)
<1> DEFINE m == Marked(x, c)
           y == AfterDrain(m)
<1>1. StoresPlaced(head, rob, sq) /\ Len(sq) \in Nat /\ Len(sq) <= SqDepth
  BY DEF Placed, TypeOK
<1>2. m \in Seq(StoreEntry) /\ Updates(m, c)
  BY <1>1, MarkedUpdates
<1>3. Len(m) = Len(sq)
  BY <1>2 DEF Updates
<1>4. K = {i \in DOMAIN y : y[i].committed \/ From(head, y[i].tag) < cut}
  OBVIOUS
<1> HIDE DEF m
<1>5. /\ y \in Seq(StoreEntry) /\ Without(y, m, Drain) /\ Drain \in {0, 1}
      /\ Drain = 1 => Len(sq) >= 1 /\ sq[1].committed
  BY <1>2, <1>3, AfterDrainIs
<1> HIDE DEF y
<1>6. Kept(y, K) \in Seq(StoreEntry) /\ Len(Kept(y, K)) <= Len(y) /\ OlderOf(Kept(y, K), y, cut)
  BY <1>1, <1>2, <1>4, <1>5, KeptStores
<1>7. StoresMove(head, sq, Kept(y, K), c, Drain, cut)
  BY <1>1, <1>2, <1>5, <1>6, StoresMoveOn
<1>8. Len(Kept(y, K)) <= SqDepth
  <2>1. Len(Kept(y, K)) \in Nat /\ Len(y) \in Nat /\ Len(y) = Len(sq) - Drain
    BY <1>3, <1>5, <1>6 DEF Without
  <2> QED BY <1>1, <1>5, <1>6, <2>1, LoadStoreAssumption
<1> QED BY <1>6, <1>7, <1>8 DEF y, m

\* A flush of everything.
LEMMA FullFlushTyped ==
  ASSUME TypeOK, Placed, NEW c \in {0, 1}, FullFlush(c)
  PROVE /\ TypeOK' /\ Cycle(c, Drain, LoadLeaves(c), c)
        /\ Unaltered(c, LoadLeaves(c), c) /\ cache' = cache /\ dword' = dword
<1> DEFINE y == AfterDrain(Marked(sq, c))
           K == {i \in DOMAIN y : y[i].committed}
<1>1. /\ (c = 1 => Retirable) /\ head' = 0 /\ rob' = <<>> /\ lq' = <<>> /\ sq' = Kept(y, K)
      /\ csb' = CsbView /\ dword' = dword /\ cache' = cache
  BY DEF FullFlush
<1>2. /\ Len(rob) \in Nat /\ c <= Len(rob) /\ head \in Tag /\ sq \in Seq(StoreEntry)
      /\ c = 1 => rob # <<>>
  BY <1>1, RetirableIs, TypesOfEntries DEF TypeOK
<1>3. LoadsPlaced(head, rob, lq) /\ StoresPlaced(head, rob, sq)
  BY DEF Placed
<1>4. K = {i \in DOMAIN y : y[i].committed \/ From(head, y[i].tag) < c}
  <2>1. Marked(sq, c) \in Seq(StoreEntry) /\ Updates(Marked(sq, c), c)
    BY <1>1, <1>2, <1>3, NothingUpdates, MarkedUpdates
  <2>2. Len(Marked(sq, c)) = Len(sq)
    BY <2>1 DEF Updates
  <2>3. Without(y, Marked(sq, c), Drain) /\ Drain \in {0, 1}
    BY <2>1, <2>2, AfterDrainIs
  <2> HIDE DEF y
  <2>4. ASSUME NEW i \in DOMAIN y, From(head, y[i].tag) < c PROVE y[i].committed
    <3>1. i + Drain \in 1..Len(sq) /\ y[i] = Marked(sq, c)[i + Drain]
      BY <2>2, <2>3, TypesOfEntries DEF Without
    <3>2. Marked(sq, c)[i + Drain].tag = sq[i + Drain].tag
          /\ (Marked(sq, c)[i + Drain].committed
                <=> sq[i + Drain].committed \/ From(head, sq[i + Drain].tag) < c)
      BY <2>1, <3>1 DEF Updates
    <3> QED BY <2>4, <3>1, <3>2
  <2> QED BY <2>4
<1>5. /\ Kept(y, K) \in Seq(StoreEntry) /\ Len(Kept(y, K)) <= SqDepth
      /\ StoresMove(head, sq, Kept(y, K), c, Drain, c)
  <2> HIDE DEF K
  <2> QED BY <1>1, <1>2, <1>4, NothingUpdates, FlushedStores
<1>6. RobMoves(head, rob, head', rob', c, c)
  <2>1. AgesMove(head, head', c, c)
    <3> SUFFICES ASSUME NEW t \in Tag, c <= From(head, t) /\ From(head, t) < c PROVE FALSE
      BY DEF AgesMove
    <3> QED BY <1>2, FromIs
  <2> QED BY <1>1, <1>2, <2>1 DEF RobMoves
<1>7. LoadsMove(head, rob, lq, lq', c, LoadLeaves(c), c)
  <2>1. Without(LoadsLeft(c), lq, LoadLeaves(c))
    BY <1>2, <1>3, LoadsLeftAre
  <2>2. {k \in DOMAIN LoadsLeft(c) : From(head, LoadsLeft(c)[k].tag) < c} = {}
    BY <1>2, <1>3, LoadsLeftYounger
  <2>3. PICK z : z = lq'
    OBVIOUS
  <2>4. DOMAIN z = {}
    BY <1>1, <2>3
  <2>5. LoadsMove(head, rob, lq, z, c, LoadLeaves(c), c)
    BY <1>2, <1>3, <2>1, <2>2, <2>4, LoadsMoveOn
  <2> QED BY <2>3, <2>5
<1>8. BufferMoves(csb, csb', sq, Len(csb), Drain) /\ csb' \in Seq(Buffered) /\ Len(csb') <= CsbDepth
  BY <1>1, CsbViewIs
<1>9. TypeOK'
  <2>1. 0 \in Tag /\ <<>> \in Seq(Access) /\ Len(<<>>) <= RobDepth /\ <<>> \in Seq(LoadEntry)
    BY LoadStoreAssumption DEF Tag
  <2>2. sq' \in Seq(StoreEntry) /\ Len(sq') <= SqDepth
    BY <1>1, <1>5
  <2>3. dword \in Layouts /\ cache \in [Bytes -> Vals]
    BY DEF TypeOK
  <2>4. rob' \in Seq(Access) /\ Len(rob') <= RobDepth /\ lq' \in Seq(LoadEntry) /\ head' \in Tag
    BY <1>1, <2>1
  <2> HIDE DEF K, y
  <2> QED BY <1>1, <1>8, <2>2, <2>3, <2>4 DEF TypeOK
<1>10. StoresMove(head, sq, sq', c, Drain, c)
  BY <1>1, <1>5
<1>11. Unaltered(c, LoadLeaves(c), c)
  <2>1. DOMAIN lq' = {} /\ 1..(c - c) = {}
    BY <1>1
  <2> QED BY <2>1 DEF Unaltered
<1> QED BY <1>1, <1>6, <1>7, <1>8, <1>9, <1>10, <1>11 DEF Cycle

\* A flush of the younger ones.
LEMMA PartialFlushTyped ==
  ASSUME TypeOK, Placed, NEW c \in {0, 1}, NEW cut \in 0..RobDepth, NEW A, NEW D,
         PartialFlushAt(cut, c, A, D)
  PROVE /\ TypeOK' /\ Cycle(c, Drain, LoadLeaves(c), cut)
        /\ Unaltered(c, LoadLeaves(c), cut) /\ cache' = cache /\ dword' = dword
<1> DEFINE y == AfterDrain(Marked(Filled(A, D), c))
           K == {i \in DOMAIN y : y[i].committed \/ From(head, y[i].tag) < cut}
           w == LoadsLeft(c)
           L == {k \in DOMAIN w : From(head, w[k].tag) < cut}
<1>1. /\ (c = 1 => Retirable) /\ cut \in c..(Len(rob) - 1) /\ head' = (head + c) % RobDepth
      /\ rob' = SubSeq(rob, c + 1, cut) /\ lq' = Kept(w, L) /\ sq' = Kept(y, K)
      /\ csb' = CsbView /\ dword' = dword /\ cache' = cache
  BY DEF PartialFlushAt, Age, From
<1>2. /\ Len(rob) \in Nat /\ head \in Tag /\ rob \in Seq(Access) /\ Len(rob) <= RobDepth
      /\ c = 1 => rob # <<>>
  BY <1>1, RetirableIs, TypesOfEntries DEF TypeOK
<1>3. LoadsPlaced(head, rob, lq) /\ StoresPlaced(head, rob, sq)
  BY DEF Placed
<1>4. cut \in Nat /\ c <= cut /\ cut < Len(rob)
  BY <1>1, <1>2
<1>5. /\ Kept(y, K) \in Seq(StoreEntry) /\ Len(Kept(y, K)) <= SqDepth
      /\ StoresMove(head, sq, Kept(y, K), c, Drain, cut)
  <2>1. Filled(A, D) \in Seq(StoreEntry) /\ Updates(Filled(A, D), 0)
    BY FilledIs, FilledUpdates
  <2>2. K = {i \in DOMAIN y : y[i].committed \/ From(head, y[i].tag) < cut}
    OBVIOUS
  <2> HIDE DEF K
  <2> QED BY <1>1, <1>4, <2>1, <2>2, FlushedStores
<1>6. /\ Len(rob') = cut - c /\ rob' \in Seq(Access)
      /\ \A r \in 1..(cut - c) : rob'[r] = rob[r + c]
  <2>1. /\ SubSeq(rob, c + 1, cut) \in Seq(Access)
        /\ Len(SubSeq(rob, c + 1, cut)) = IF c + 1 <= cut THEN cut - (c + 1) + 1 ELSE 0
        /\ \A r \in 1..(cut - (c + 1) + 1) : SubSeq(rob, c + 1, cut)[r] = rob[(c + 1) + r - 1]
    <3>1. c + 1 \in Int /\ cut \in Int /\ \A i \in (c + 1)..cut : rob[i] \in Access
      BY <1>2, <1>4
    <3> QED BY <3>1, SubSeqProperties
  <2>2. \A r \in 1..(cut - c) : (c + 1) + r - 1 = r + c
    BY <1>4
  <2>3. cut - (c + 1) + 1 = cut - c /\ (c + 1 <= cut \/ cut - c = 0)
    BY <1>4
  <2> QED BY <1>1, <2>1, <2>2, <2>3
<1>7. RobMoves(head, rob, head', rob', c, cut)
  <2>1. AgesMove(head, head', c, cut)
    BY <1>1, <1>2, HeadMoves
  <2>2. cut <= Len(rob)
    BY <1>2, <1>4
  <2> QED BY <1>6, <2>1, <2>2 DEF RobMoves
<1>8. w \in Seq(LoadEntry) /\ Without(w, lq, LoadLeaves(c)) /\ LoadLeaves(c) \in {0, 1}
  BY <1>2, <1>3, LoadsLeftAre
<1>9. L = {k \in DOMAIN w : From(head, w[k].tag) < cut}
  OBVIOUS
<1>10. /\ Kept(w, L) \in Seq(LoadEntry)
       /\ DOMAIN Kept(w, L) = L /\ \A k \in L : Kept(w, L)[k] = w[k]
  <2> HIDE DEF L, w
  <2>1. PartOf(Kept(w, L), w, L, LoadEntry)
    BY <1>3, <1>4, <1>8, <1>9, KeptLoads
  <2> QED BY <2>1 DEF PartOf
<1>11. LoadsMove(head, rob, lq, Kept(w, L), c, LoadLeaves(c), cut)
  <2> HIDE DEF L, w
  <2>1. DOMAIN Kept(w, L) = {k \in DOMAIN w : From(head, w[k].tag) < cut}
    BY <1>9, <1>10
  <2>2. \A k \in DOMAIN Kept(w, L) : Kept(w, L)[k].tag = w[k].tag /\ Kept(w, L)[k].fp = w[k].fp
    BY <1>10
  <2>3. PICK z : z = Kept(w, L)
    OBVIOUS
  <2>4. LoadsMove(head, rob, lq, z, c, LoadLeaves(c), cut)
    BY <1>3, <1>4, <1>8, <2>1, <2>2, <2>3, LoadsMoveOn
  <2> QED BY <2>3, <2>4
<1>12. BufferMoves(csb, csb', sq, Len(csb), Drain) /\ csb' \in Seq(Buffered) /\ Len(csb') <= CsbDepth
  BY <1>1, CsbViewIs
<1>13. StoresMove(head, sq, sq', c, Drain, cut) /\ LoadsMove(head, rob, lq, lq', c, LoadLeaves(c), cut)
  BY <1>1, <1>5, <1>11
<1>14. TypeOK'
  <2>1. sq' \in Seq(StoreEntry) /\ Len(sq') <= SqDepth /\ lq' \in Seq(LoadEntry)
    BY <1>1, <1>5, <1>10
  <2>2. dword' \in Layouts /\ cache' \in [Bytes -> Vals] /\ head' \in Tag
    BY <1>1, <1>2, HeadMoves DEF TypeOK
  <2>3. Len(rob') <= RobDepth
    <3>1. cut - c <= RobDepth
      BY <1>2, <1>4, LoadStoreAssumption
    <3> QED BY <1>6, <3>1
  <2> HIDE DEF K, L, y, w
  <2> QED BY <1>6, <1>12, <2>1, <2>2, <2>3 DEF TypeOK
<1>15. Unaltered(c, LoadLeaves(c), cut)
  <2> HIDE DEF L, w
  <2>1. \A k \in L : k \in DOMAIN w
    BY <1>9
  <2>2. \A k \in DOMAIN w : w[k] = lq[k + LoadLeaves(c)]
    BY <1>8 DEF Without
  <2>3. \A k \in DOMAIN lq' : lq'[k] = lq[k + LoadLeaves(c)]
    BY <1>1, <1>10, <2>1, <2>2
  <2> QED BY <1>6, <2>3 DEF Unaltered
<1> QED BY <1>1, <1>7, <1>12, <1>13, <1>14, <1>15 DEF Cycle

-----------------------------------------------------------------------------
\* List s2 is the list s of n with one more entry at its end.
Grown(s, s2, n) == DOMAIN s2 = 1..(n + 1) /\ \A i \in 1..n : s2[i] = s[i]

\* An entry at the end of a list.
LEMMA AppendIs ==
  ASSUME NEW S, NEW s \in Seq(S), NEW e \in S
  PROVE /\ Append(s, e) \in Seq(S) /\ Len(s) \in Nat /\ Len(Append(s, e)) = Len(s) + 1
        /\ Grown(s, Append(s, e), Len(s)) /\ Append(s, e)[Len(s) + 1] = e
<1>1. /\ Append(s, e) \in Seq(S) /\ Append(s, e) # <<>> /\ Len(Append(s, e)) = Len(s) + 1
      /\ \A i \in 1..Len(s) : Append(s, e)[i] = s[i]
      /\ Append(s, e)[Len(s) + 1] = e
  BY AppendProperties
<1>2. DOMAIN Append(s, e) = 1..(Len(s) + 1)
  BY <1>1
<1> QED BY <1>1, <1>2 DEF Grown

\* The loads keep their places when an access enters, and get one.
LEMMA LoadsGrow ==
  ASSUME NEW h \in Tag, NEW q, NEW q2, NEW ls, NEW ls2, NEW n \in Nat, NEW r \in Nat,
         Len(q) = r, Len(q2) = r + 1, Grown(q, q2, r), Tagged(ls, n), LoadsPlaced(h, q, ls),
         \/ q2[r + 1].kind # "load" /\ ls2 = ls
         \/ /\ q2[r + 1].kind = "load" /\ Grown(ls, ls2, n)
            /\ ls2[n + 1].tag \in Tag /\ From(h, ls2[n + 1].tag) = r
            /\ ls2[n + 1].fp = q2[r + 1].fp
  PROVE LoadsPlaced(h, q2, ls2)
<1>1. /\ DOMAIN ls = 1..n /\ \A k \in 1..n : ls[k].tag \in Tag /\ From(h, ls[k].tag) \in Nat
      /\ \A j \in 1..r : q2[j] = q[j]
  BY FromIs DEF Tagged, Grown
<1>2. ASSUME NEW k \in 1..n
      PROVE /\ From(h, ls[k].tag) < r
            /\ q2[From(h, ls[k].tag) + 1].kind = "load"
            /\ q2[From(h, ls[k].tag) + 1].fp = ls[k].fp
  <2>1. /\ From(h, ls[k].tag) < r /\ q[From(h, ls[k].tag) + 1].kind = "load"
        /\ q[From(h, ls[k].tag) + 1].fp = ls[k].fp
    BY <1>1 DEF LoadsPlaced
  <2>2. From(h, ls[k].tag) + 1 \in 1..r
    BY <1>1, <2>1
  <2> QED BY <1>1, <2>1, <2>2
<1>3. \A k \in 1..n : From(h, ls[k].tag) < r + 1
  BY <1>1, <1>2
<1>4. \A j, k \in 1..n : j < k => From(h, ls[j].tag) < From(h, ls[k].tag)
  BY <1>1 DEF LoadsPlaced
<1>5. ASSUME NEW j \in 1..r, q2[j].kind = "load"
      PROVE \E k \in 1..n : From(h, ls[k].tag) + 1 = j
  BY <1>1, <1>5 DEF LoadsPlaced
<1>6. CASE q2[r + 1].kind # "load" /\ ls2 = ls
  <2>1. \A j \in 1..(r + 1) : q2[j].kind = "load" => j \in 1..r
    BY <1>6
  <2> QED BY <1>1, <1>2, <1>3, <1>4, <1>5, <1>6, <2>1 DEF LoadsPlaced
<1>7. CASE /\ q2[r + 1].kind = "load" /\ Grown(ls, ls2, n)
           /\ ls2[n + 1].tag \in Tag /\ From(h, ls2[n + 1].tag) = r
           /\ ls2[n + 1].fp = q2[r + 1].fp
  <2>1. DOMAIN ls2 = 1..(n + 1) /\ \A k \in 1..n : ls2[k] = ls[k]
    BY <1>7 DEF Grown
  <2>2. ASSUME NEW k \in 1..(n + 1)
        PROVE /\ From(h, ls2[k].tag) < r + 1
              /\ q2[From(h, ls2[k].tag) + 1].kind = "load"
              /\ q2[From(h, ls2[k].tag) + 1].fp = ls2[k].fp
    <3>1. CASE k \in 1..n
      BY <1>2, <1>3, <2>1, <3>1
    <3>2. CASE k = n + 1
      BY <1>7, <3>2
    <3> QED BY <3>1, <3>2
  <2>3. ASSUME NEW j \in 1..(n + 1), NEW k \in 1..(n + 1), j < k
        PROVE From(h, ls2[j].tag) < From(h, ls2[k].tag)
    <3>1. j \in 1..n
      BY <2>3
    <3>2. CASE k \in 1..n
      BY <1>4, <2>1, <2>3, <3>1, <3>2
    <3>3. CASE k = n + 1
      BY <1>2, <1>7, <2>1, <3>1, <3>3
    <3> QED BY <3>2, <3>3
  <2>4. ASSUME NEW j \in 1..(r + 1), q2[j].kind = "load"
        PROVE \E k \in 1..(n + 1) : From(h, ls2[k].tag) + 1 = j
    <3>1. CASE j \in 1..r
      <4>1. PICK k \in 1..n : From(h, ls[k].tag) + 1 = j
        BY <1>5, <2>4, <3>1
      <4> QED BY <2>1, <4>1
    <3>2. CASE j = r + 1
      <4>1. n + 1 \in 1..(n + 1) /\ From(h, ls2[n + 1].tag) + 1 = j
        BY <1>7, <3>2
      <4> QED BY <4>1
    <3> QED BY <3>1, <3>2
  <2> QED BY <2>1, <2>2, <2>3, <2>4 DEF LoadsPlaced
<1> QED BY <1>6, <1>7

\* A store enters at the ends of q2 and ss2.
StoreEnters(h, q2, ss, ss2, n, r) ==
    /\ q2[r + 1].kind = "store" /\ Grown(ss, ss2, n)
    /\ ss2[n + 1].tag \in Tag /\ From(h, ss2[n + 1].tag) = r
    /\ ss2[n + 1].fp = q2[r + 1].fp
    /\ q2[r + 1].data = [b \in ss2[n + 1].fp |-> ss2[n + 1].val]
    /\ ~ss2[n + 1].committed

\* And so do the stores.
LEMMA StoresGrow ==
  ASSUME NEW h \in Tag, NEW q, NEW q2, NEW ss, NEW ss2, NEW n \in Nat, NEW r \in Nat,
         Len(q) = r, Len(q2) = r + 1, Grown(q, q2, r), Tagged(ss, n), StoresPlaced(h, q, ss),
         \/ q2[r + 1].kind # "store" /\ ss2 = ss
         \/ StoreEnters(h, q2, ss, ss2, n, r)
  PROVE StoresPlaced(h, q2, ss2)
<1>1. /\ DOMAIN ss = 1..n /\ \A i \in 1..n : ss[i].tag \in Tag /\ From(h, ss[i].tag) \in Nat
      /\ \A j \in 1..r : q2[j] = q[j]
  BY FromIs DEF Tagged, Grown
<1>2. ASSUME NEW i \in 1..n, ~ss[i].committed
      PROVE /\ From(h, ss[i].tag) < r
            /\ q2[From(h, ss[i].tag) + 1].kind = "store"
            /\ q2[From(h, ss[i].tag) + 1].fp = ss[i].fp
            /\ q2[From(h, ss[i].tag) + 1].data = [b \in ss[i].fp |-> ss[i].val]
  <2>1. /\ From(h, ss[i].tag) < r /\ q[From(h, ss[i].tag) + 1].kind = "store"
        /\ q[From(h, ss[i].tag) + 1].fp = ss[i].fp
        /\ q[From(h, ss[i].tag) + 1].data = [b \in ss[i].fp |-> ss[i].val]
    BY <1>1, <1>2 DEF StoresPlaced
  <2>2. From(h, ss[i].tag) + 1 \in 1..r
    BY <1>1, <2>1
  <2> QED BY <1>1, <2>1, <2>2
<1>3. ASSUME NEW i \in 1..n, ~ss[i].committed PROVE From(h, ss[i].tag) < r + 1
  <2>1. From(h, ss[i].tag) < r
    BY <1>2, <1>3
  <2>2. From(h, ss[i].tag) \in Nat
    BY <1>1
  <2> QED BY <2>1, <2>2
<1>4. /\ \A i, j \in 1..n : i < j /\ ~ss[i].committed /\ ~ss[j].committed =>
            From(h, ss[i].tag) < From(h, ss[j].tag)
      /\ \A i, j \in 1..n : i < j /\ ss[j].committed => ss[i].committed
      /\ \A i \in 1..n : ss[i].committed => ss[i].addr /\ ss[i].data
  BY <1>1 DEF StoresPlaced
<1>5. ASSUME NEW j \in 1..r, q2[j].kind = "store"
      PROVE \E i \in 1..n : ~ss[i].committed /\ From(h, ss[i].tag) + 1 = j
  BY <1>1, <1>5 DEF StoresPlaced
<1>6. CASE q2[r + 1].kind # "store" /\ ss2 = ss
  <2>1. ASSUME NEW j \in 1..(r + 1), q2[j].kind = "store"
        PROVE \E i \in 1..n : ~ss[i].committed /\ From(h, ss[i].tag) + 1 = j
    <3>1. j \in 1..r
      BY <1>6, <2>1
    <3> QED BY <1>5, <2>1, <3>1
  <2>2. StoresPlaced(h, q2, ss)
    BY <1>1, <1>2, <1>3, <1>4, <2>1 DEF StoresPlaced
  <2> QED BY <1>6, <2>2
<1>7. CASE StoreEnters(h, q2, ss, ss2, n, r)
  <2>0. /\ q2[r + 1].kind = "store" /\ Grown(ss, ss2, n)
        /\ ss2[n + 1].tag \in Tag /\ From(h, ss2[n + 1].tag) = r
        /\ ss2[n + 1].fp = q2[r + 1].fp
        /\ q2[r + 1].data = [b \in ss2[n + 1].fp |-> ss2[n + 1].val]
        /\ ~ss2[n + 1].committed
    BY <1>7 DEF StoreEnters
  <2>1. DOMAIN ss2 = 1..(n + 1) /\ \A i \in 1..n : ss2[i] = ss[i]
    BY <2>0 DEF Grown
  <2>2. ASSUME NEW i \in 1..(n + 1), ~ss2[i].committed
        PROVE /\ From(h, ss2[i].tag) < r + 1
              /\ q2[From(h, ss2[i].tag) + 1].kind = "store"
              /\ q2[From(h, ss2[i].tag) + 1].fp = ss2[i].fp
              /\ q2[From(h, ss2[i].tag) + 1].data = [b \in ss2[i].fp |-> ss2[i].val]
    <3>1. CASE i \in 1..n
      BY <1>2, <1>3, <2>1, <2>2, <3>1
    <3>2. CASE i = n + 1
      BY <2>0, <3>2
    <3> QED BY <3>1, <3>2
  <2>3. ASSUME NEW i \in 1..(n + 1), NEW j \in 1..(n + 1), i < j,
               ~ss2[i].committed, ~ss2[j].committed
        PROVE From(h, ss2[i].tag) < From(h, ss2[j].tag)
    <3>1. i \in 1..n
      BY <2>3
    <3>2. CASE j \in 1..n
      BY <1>4, <2>1, <2>3, <3>1, <3>2
    <3>3. CASE j = n + 1
      <4>1. From(h, ss[i].tag) < r
        BY <1>2, <2>1, <2>3, <3>1
      <4> QED BY <2>0, <2>1, <3>1, <3>3, <4>1
    <3> QED BY <3>2, <3>3
  <2>4. ASSUME NEW j \in 1..(r + 1), q2[j].kind = "store"
        PROVE \E i \in 1..(n + 1) : ~ss2[i].committed /\ From(h, ss2[i].tag) + 1 = j
    <3>1. CASE j \in 1..r
      <4>1. PICK i \in 1..n : ~ss[i].committed /\ From(h, ss[i].tag) + 1 = j
        BY <1>5, <2>4, <3>1
      <4> QED BY <2>1, <4>1
    <3>2. CASE j = r + 1
      <4>1. n + 1 \in 1..(n + 1) /\ From(h, ss2[n + 1].tag) + 1 = j
        BY <2>0, <3>2
      <4> QED BY <2>0, <4>1
    <3> QED BY <3>1, <3>2
  <2>5. ASSUME NEW i \in 1..(n + 1), NEW j \in 1..(n + 1), i < j, ss2[j].committed
        PROVE ss2[i].committed
    <3>1. j # n + 1
      BY <2>0, <2>5
    <3>2. i \in 1..n /\ j \in 1..n
      BY <2>5, <3>1
    <3> QED BY <1>4, <2>1, <2>5, <3>2
  <2>6. ASSUME NEW i \in 1..(n + 1), ss2[i].committed PROVE ss2[i].addr /\ ss2[i].data
    <3>1. i # n + 1
      BY <2>0, <2>6
    <3>2. i \in 1..n
      BY <3>1
    <3> QED BY <1>4, <2>1, <2>6, <3>2
  <2> QED BY <2>1, <2>2, <2>3, <2>4, <2>5, <2>6 DEF StoresPlaced
<1> QED BY <1>6, <1>7

\* The tags of the queues.
LEMMA TagsAre ==
  /\ \A s \in Seq(LoadEntry) : Len(s) \in Nat /\ Tagged(s, Len(s))
  /\ \A s \in Seq(StoreEntry) : Len(s) \in Nat /\ Tagged(s, Len(s))
  /\ \A s \in Seq(Buffered) : Len(s) \in Nat /\ Listed(s, Len(s))
<1>1. ASSUME NEW s \in Seq(LoadEntry) PROVE Len(s) \in Nat /\ Tagged(s, Len(s))
  <2>1. Len(s) \in Nat /\ DOMAIN s = 1..Len(s) /\ \A i \in 1..Len(s) : s[i] \in LoadEntry
    OBVIOUS
  <2> QED BY <2>1 DEF LoadEntry, Tagged
<1>2. ASSUME NEW s \in Seq(StoreEntry) PROVE Len(s) \in Nat /\ Tagged(s, Len(s))
  <2>1. Len(s) \in Nat /\ DOMAIN s = 1..Len(s) /\ \A i \in 1..Len(s) : s[i] \in StoreEntry
    OBVIOUS
  <2> QED BY <2>1 DEF StoreEntry, Tagged
<1>3. ASSUME NEW s \in Seq(Buffered) PROVE Len(s) \in Nat /\ Listed(s, Len(s))
  BY DEF Listed
<1> QED BY <1>1, <1>2, <1>3

\* The next number.
LEMMA NextTagIs ==
  ASSUME TypeOK, Len(rob) < RobDepth
  PROVE NextTag \in Tag /\ From(head, NextTag) = Len(rob) /\ Len(rob) \in Nat
<1>1. head \in Tag /\ Len(rob) \in Nat
  BY TypesOfEntries
<1>2. Len(rob) \in 0..(RobDepth - 1)
  BY <1>1, LoadStoreAssumption
<1> QED BY <1>1, <1>2, FromNext DEF NextTag

\* What a dispatch appends.
LEMMA DispatchLoadTyped ==
  ASSUME TypeOK, Placed, NEW fp \in Footprints, DispatchLoad(fp)
  PROVE /\ TypeOK' /\ Placed'
        /\ head' = head /\ dword' = dword /\ sq' = sq /\ csb' = csb /\ cache' = cache
        /\ Len(rob) \in Nat /\ Len(rob') = Len(rob) + 1 /\ Grown(rob, rob', Len(rob))
        /\ rob'[Len(rob) + 1] = [kind |-> "load", fp |-> fp, data |-> <<>>]
        /\ Grown(lq, lq', Len(lq))
        /\ lq'[Len(lq) + 1] = [tag |-> NextTag, fp |-> fp, executed |-> FALSE, replay |-> FALSE]
<1> DEFINE e == [kind |-> "load", fp |-> fp, data |-> <<>>]
           l == [tag |-> NextTag, fp |-> fp, executed |-> FALSE, replay |-> FALSE]
<1>1. /\ Len(rob) < RobDepth /\ rob' = Append(rob, e) /\ lq' = Append(lq, l)
      /\ dword' = dword /\ head' = head /\ sq' = sq /\ csb' = csb /\ cache' = cache
  BY DEF DispatchLoad
<1>2. NextTag \in Tag /\ From(head, NextTag) = Len(rob) /\ Len(rob) \in Nat
  BY <1>1, NextTagIs
<1>3. e \in Access /\ e.kind = "load" /\ e.fp = fp
  <2>1. Access = [kind : {"load", "store"}, fp : Footprints, data : Datum]
    BY DEF Access, Datum
  <2> QED BY <2>1, DatumIs
<1>4. l \in LoadEntry /\ l.tag = NextTag /\ l.fp = fp
  BY <1>2 DEF LoadEntry
<1>5. rob \in Seq(Access) /\ lq \in Seq(LoadEntry) /\ sq \in Seq(StoreEntry) /\ head \in Tag
  BY DEF TypeOK
<1> HIDE DEF e, l
<1>6. /\ rob' \in Seq(Access) /\ Len(rob') = Len(rob) + 1
      /\ Grown(rob, rob', Len(rob)) /\ rob'[Len(rob) + 1] = e
  BY <1>1, <1>3, <1>5, AppendIs
<1>7. /\ lq' \in Seq(LoadEntry) /\ Len(lq') = Len(lq) + 1
      /\ Grown(lq, lq', Len(lq)) /\ lq'[Len(lq) + 1] = l
  BY <1>1, <1>4, <1>5, AppendIs
<1>8. TypeOK'
  <2>1. Len(rob) + 1 <= RobDepth
    BY <1>1, <1>2, LoadStoreAssumption
  <2> QED BY <1>1, <1>6, <1>7, <2>1 DEF TypeOK
<1>9. /\ Len(lq) \in Nat /\ Tagged(lq, Len(lq)) /\ Len(sq) \in Nat /\ Tagged(sq, Len(sq))
  BY <1>5, TagsAre
<1>10. LoadsPlaced(head, rob', lq')
  <2>1. /\ rob'[Len(rob) + 1].kind = "load" /\ lq'[Len(lq) + 1].tag \in Tag
        /\ From(head, lq'[Len(lq) + 1].tag) = Len(rob)
        /\ lq'[Len(lq) + 1].fp = rob'[Len(rob) + 1].fp
    BY <1>2, <1>3, <1>4, <1>6, <1>7
  <2>2. PICK q2, ls2 : q2 = rob' /\ ls2 = lq'
    OBVIOUS
  <2>3. LoadsPlaced(head, q2, ls2)
    BY <1>2, <1>5, <1>6, <1>7, <1>9, <2>1, <2>2, LoadsGrow DEF Placed
  <2> QED BY <2>2, <2>3
<1>11. StoresPlaced(head, rob', sq)
  <2>1. rob'[Len(rob) + 1].kind # "store"
    BY <1>3, <1>6
  <2>2. PICK q2 : q2 = rob'
    OBVIOUS
  <2>3. StoresPlaced(head, q2, sq)
    BY <1>2, <1>5, <1>6, <1>9, <2>1, <2>2, StoresGrow DEF Placed
  <2> QED BY <2>2, <2>3
<1>12. Placed'
  BY <1>1, <1>10, <1>11 DEF Placed
<1>13. /\ rob'[Len(rob) + 1] = [kind |-> "load", fp |-> fp, data |-> <<>>]
       /\ lq'[Len(lq) + 1] = [tag |-> NextTag, fp |-> fp, executed |-> FALSE, replay |-> FALSE]
  BY <1>6, <1>7 DEF e, l
<1> QED BY <1>1, <1>2, <1>6, <1>7, <1>8, <1>12, <1>13

\* And a store.
LEMMA DispatchStoreTyped ==
  ASSUME TypeOK, Placed, NEW fp \in Footprints, NEW v \in Vals, DispatchStore(fp, v)
  PROVE /\ TypeOK' /\ Placed'
        /\ head' = head /\ dword' = dword /\ lq' = lq /\ csb' = csb /\ cache' = cache
        /\ Len(rob) \in Nat /\ Len(rob') = Len(rob) + 1 /\ Grown(rob, rob', Len(rob))
        /\ rob'[Len(rob) + 1] = [kind |-> "store", fp |-> fp, data |-> [b \in fp |-> v]]
        /\ Grown(sq, sq', Len(sq))
        /\ sq'[Len(sq) + 1] = [tag |-> NextTag, fp |-> fp, val |-> v, addr |-> FALSE,
                               data |-> FALSE, committed |-> FALSE]
<1> DEFINE f == [b \in fp |-> v]
           e == [kind |-> "store", fp |-> fp, data |-> f]
           l == [tag |-> NextTag, fp |-> fp, val |-> v, addr |-> FALSE, data |-> FALSE,
                 committed |-> FALSE]
<1>1. /\ Len(rob) < RobDepth /\ Len(sq) < SqDepth /\ rob' = Append(rob, e) /\ sq' = Append(sq, l)
      /\ dword' = dword /\ head' = head /\ lq' = lq /\ csb' = csb /\ cache' = cache
  BY DEF DispatchStore
<1>2. NextTag \in Tag /\ From(head, NextTag) = Len(rob) /\ Len(rob) \in Nat
  BY <1>1, NextTagIs
<1>3. e \in Access /\ e.kind = "store" /\ e.fp = fp /\ e.data = f
  <2>1. Access = [kind : {"load", "store"}, fp : Footprints, data : Datum]
    BY DEF Access, Datum
  <2>2. f \in [fp -> Vals]
    OBVIOUS
  <2>3. f \in Datum
    BY <2>2, DatumIs
  <2> HIDE DEF f
  <2> QED BY <2>1, <2>3
<1>4. l \in StoreEntry /\ l.tag = NextTag /\ l.fp = fp /\ l.val = v /\ ~l.committed
  BY <1>2 DEF StoreEntry
<1>5. rob \in Seq(Access) /\ lq \in Seq(LoadEntry) /\ sq \in Seq(StoreEntry) /\ head \in Tag
  BY DEF TypeOK
<1> HIDE DEF e, l
<1>6. /\ rob' \in Seq(Access) /\ Len(rob') = Len(rob) + 1
      /\ Grown(rob, rob', Len(rob)) /\ rob'[Len(rob) + 1] = e
  BY <1>1, <1>3, <1>5, AppendIs
<1>7. /\ sq' \in Seq(StoreEntry) /\ Len(sq') = Len(sq) + 1 /\ Len(sq) \in Nat
      /\ Grown(sq, sq', Len(sq)) /\ sq'[Len(sq) + 1] = l
  BY <1>1, <1>4, <1>5, AppendIs
<1>8. TypeOK'
  <2>1. Len(rob) + 1 <= RobDepth /\ Len(sq) + 1 <= SqDepth
    BY <1>1, <1>2, <1>7, LoadStoreAssumption
  <2> QED BY <1>1, <1>6, <1>7, <2>1 DEF TypeOK
<1>9. /\ Len(lq) \in Nat /\ Tagged(lq, Len(lq)) /\ Len(sq) \in Nat /\ Tagged(sq, Len(sq))
  BY <1>5, TagsAre
<1>10. LoadsPlaced(head, rob', lq)
  <2>1. rob'[Len(rob) + 1].kind # "load"
    BY <1>3, <1>6
  <2>2. PICK q2 : q2 = rob'
    OBVIOUS
  <2>3. LoadsPlaced(head, q2, lq)
    BY <1>2, <1>5, <1>6, <1>9, <2>1, <2>2, LoadsGrow DEF Placed
  <2> QED BY <2>2, <2>3
<1>11. StoresPlaced(head, rob', sq')
  <2>1. /\ rob'[Len(rob) + 1].kind = "store" /\ sq'[Len(sq) + 1].tag \in Tag
        /\ From(head, sq'[Len(sq) + 1].tag) = Len(rob)
        /\ sq'[Len(sq) + 1].fp = rob'[Len(rob) + 1].fp
        /\ ~sq'[Len(sq) + 1].committed
    BY <1>2, <1>3, <1>4, <1>6, <1>7
  <2>2. rob'[Len(rob) + 1].data = [b \in sq'[Len(sq) + 1].fp |-> sq'[Len(sq) + 1].val]
    BY <1>3, <1>4, <1>6, <1>7
  <2>3. PICK q2, ss2 : q2 = rob' /\ ss2 = sq'
    OBVIOUS
  <2>4. StoresPlaced(head, q2, ss2)
    <3>1. StoreEnters(head, q2, sq, ss2, Len(sq), Len(rob))
      BY <1>7, <2>1, <2>2, <2>3 DEF StoreEnters
    <3> QED BY <1>2, <1>5, <1>6, <1>9, <2>3, <3>1, StoresGrow DEF Placed
  <2> QED BY <2>3, <2>4
<1>12. Placed'
  BY <1>1, <1>10, <1>11 DEF Placed
<1>13. /\ rob'[Len(rob) + 1] = [kind |-> "store", fp |-> fp, data |-> [b \in fp |-> v]]
       /\ sq'[Len(sq) + 1] = [tag |-> NextTag, fp |-> fp, val |-> v, addr |-> FALSE,
                              data |-> FALSE, committed |-> FALSE]
  BY <1>6, <1>7 DEF e, l
<1> QED BY <1>1, <1>2, <1>6, <1>7, <1>8, <1>12, <1>13

\* A step that moves the queues keeps them in order.
LEMMA CyclePlaced ==
  ASSUME TypeOK, Placed, TypeOK', NEW c \in {0, 1}, NEW d \in {0, 1}, NEW e \in {0, 1},
         NEW cut \in Nat, c <= cut, Cycle(c, d, e, cut)
  PROVE Placed'
<1>1. /\ Len(lq) \in Nat /\ Tagged(lq, Len(lq)) /\ Len(sq) \in Nat /\ Tagged(sq, Len(sq))
      /\ head \in Tag /\ Len(rob) \in Nat
  BY TagsAre, TypesOfEntries DEF TypeOK
<1>2. /\ lq' \in Seq(LoadEntry) /\ sq' \in Seq(StoreEntry)
  BY DEF TypeOK
<1>3. PICK h2, q2, ls2, ss2 : h2 = head' /\ q2 = rob' /\ ls2 = lq' /\ ss2 = sq'
  OBVIOUS
<1>4. Len(ls2) \in Nat /\ Tagged(ls2, Len(ls2)) /\ Len(ss2) \in Nat /\ Tagged(ss2, Len(ss2))
  BY <1>2, <1>3, TagsAre
<1>5. /\ RobMoves(head, rob, h2, q2, c, cut) /\ LoadsMove(head, rob, lq, ls2, c, e, cut)
      /\ StoresMove(head, sq, ss2, c, d, cut)
      /\ LoadsPlaced(head, rob, lq) /\ StoresPlaced(head, rob, sq)
  BY <1>3 DEF Cycle, Placed
<1>6. LoadsPlaced(h2, q2, ls2)
  BY <1>1, <1>4, <1>5, LoadsStayPlaced
<1>7. StoresPlaced(h2, q2, ss2)
  BY <1>1, <1>4, <1>5, StoresStayPlaced
<1> QED BY <1>3, <1>6, <1>7 DEF Placed

-----------------------------------------------------------------------------
\* Types and order.
InOrder == TypeOK /\ Placed

\* At the start.
LEMMA InOrderInit ==
  ASSUME Init
  PROVE InOrder
<1>1. /\ dword \in Layouts /\ head = 0 /\ rob = <<>> /\ lq = <<>> /\ sq = <<>> /\ csb = <<>>
      /\ cache \in {[b \in Bytes |-> v] : v \in Vals}
  BY DEF Init
<1>2. 0 \in Tag /\ Len(<<>>) = 0
  BY LoadStoreAssumption DEF Tag
<1>3. /\ <<>> \in Seq(Access) /\ <<>> \in Seq(LoadEntry) /\ <<>> \in Seq(StoreEntry)
      /\ <<>> \in Seq(Buffered)
  OBVIOUS
<1>4. cache \in [Bytes -> Vals]
  BY <1>1
<1>5. 0 <= RobDepth /\ 0 <= SqDepth /\ 0 <= CsbDepth
  BY LoadStoreAssumption
<1>6. TypeOK
  BY <1>1, <1>2, <1>3, <1>4, <1>5 DEF TypeOK
<1>7. DOMAIN rob = {} /\ DOMAIN lq = {} /\ DOMAIN sq = {} /\ Len(rob) = 0
  BY <1>1
<1>8. LoadsPlaced(head, rob, lq) /\ StoresPlaced(head, rob, sq)
  BY <1>7 DEF LoadsPlaced, StoresPlaced
<1> QED BY <1>6, <1>8 DEF InOrder, Placed


\* Each step is one of those, and keeps types and order.
LEMMA InOrderNext ==
  ASSUME InOrder, [Next]_vars
  PROVE InOrder'
<1>0. TypeOK /\ Placed /\ Len(rob) \in Nat
  BY TypesOfEntries DEF InOrder
<1>1. Drain \in {0, 1} /\ \A c : LoadLeaves(c) \in {0, 1}
  BY DEF Drain, LoadLeaves
<1>2. CASE \E fp \in Footprints : DispatchLoad(fp)
  BY <1>0, <1>2, DispatchLoadTyped DEF InOrder
<1>3. CASE \E fp \in Footprints, v \in Vals : DispatchStore(fp, v)
  BY <1>0, <1>3, DispatchStoreTyped DEF InOrder
<1>4. CASE \E A \in AddrIssues, D \in DataIssues, offer \in Offers : Issue(A, D, offer)
  <2>1. TypeOK' /\ Cycle(0, Drain, 0, Len(rob))
    BY <1>0, <1>4, IssueTyped, IssueMoves
  <2>2. Placed'
    BY <1>0, <1>1, <2>1, CyclePlaced
  <2> QED BY <2>1, <2>2 DEF InOrder
<1>5. CASE \E k \in DOMAIN lq : Respond(k)
  <2>1. TypeOK' /\ Cycle(0, 0, 0, Len(rob))
    BY <1>0, <1>5, RespondTyped
  <2>2. Placed'
    BY <1>0, <2>1, CyclePlaced
  <2> QED BY <2>1, <2>2 DEF InOrder
<1>6. CASE Ack
  BY <1>0, <1>6, AckTyped DEF InOrder, Placed
<1>7. CASE Commit
  <2>1. TypeOK' /\ Cycle(1, 0, LoadLeaves(1), Len(rob))
    BY <1>0, <1>7, CommitTyped
  <2>2. 1 <= Len(rob)
    BY <1>0, <1>7, RetirableIs DEF Commit
  <2>3. Placed'
    BY <1>0, <1>1, <2>1, <2>2, CyclePlaced
  <2> QED BY <2>1, <2>3 DEF InOrder
<1>8. ASSUME NEW c \in {0, 1}, FullFlush(c) PROVE InOrder'
  <2>1. TypeOK' /\ Cycle(c, Drain, LoadLeaves(c), c) /\ c \in Nat /\ c <= c
    BY <1>0, <1>8, FullFlushTyped
  <2>2. Placed'
    BY <1>0, <1>1, <2>1, CyclePlaced
  <2> QED BY <2>1, <2>2 DEF InOrder
<1>9. ASSUME NEW cut \in 0..RobDepth, NEW c \in {0, 1}, NEW A \in AddrIssues, NEW D \in DataIssues,
             PartialFlushAt(cut, c, A, D)
      PROVE InOrder'
  <2>1. TypeOK' /\ Cycle(c, Drain, LoadLeaves(c), cut)
    BY <1>0, <1>9, PartialFlushTyped
  <2>2. c <= cut /\ cut \in Nat
    BY <1>9, <1>0 DEF PartialFlushAt
  <2>3. Placed'
    BY <1>0, <1>1, <2>1, <2>2, CyclePlaced
  <2> QED BY <2>1, <2>3 DEF InOrder
<1>10. CASE UNCHANGED vars
  BY <1>0, <1>10 DEF vars, InOrder, TypeOK, Placed
<1> QED BY <1>2, <1>3, <1>4, <1>5, <1>6, <1>7, <1>8, <1>9, <1>10 DEF Next, Dispatch

\* The queues always have their types (TypeOK): no index into them leaves them,
\* and neither the store queue nor the committed store buffer overflows.
THEOREM LoadStoreTypeCorrect == Spec => []TypeOK
<1>1. Init => InOrder
  BY InOrderInit
<1>2. InOrder /\ [Next]_vars => InOrder'
  BY InOrderNext
<1>3. InOrder => TypeOK
  BY DEF InOrder
<1> QED BY <1>1, <1>2, <1>3, PTL DEF Spec

-----------------------------------------------------------------------------
\* What is true of load l with data x: it has none before it issues; when it
\* goes to the cache, no store before it will write what it reads; and the data
\* it has are those of the youngest stores before it.
LoadRight(h, l, x, ss, cs, m) ==
    /\ ~l.executed => x = <<>>
    /\ l.executed /\ x = <<>> =>
          \A b \in l.fp : NoneOf(ss, Below(h, ss, From(h, l.tag)), b) /\ NoneOf(cs, DOMAIN cs, b)
    /\ x # <<>> =>
          \A b \in l.fp : x[b] = Youngest(cs, ss, m, Below(h, ss, From(h, l.tag)), b)

\* The data of load l.
DataOf(h, q, l) == q[From(h, l.tag) + 1].data

\* Every load is right.
AllRight == \A k \in DOMAIN lq : LoadRight(head, lq[k], DataOf(head, rob, lq[k]), sq, csb, cache)

\* The stores of ss2 are those of ss, d places on.
Alike(ss, ss2, n2, d) == \A i \in 1..n2 : ss2[i].fp = ss[i + d].fp

\* Stores that do not write a byte do not when they move on.
LEMMA NoneMoves ==
  ASSUME NEW nc \in Nat, NEW n2 \in Nat, NEW d \in {0, 1},
         NEW cs, NEW cs2, NEW ss, NEW ss2, NEW K, NEW K2, NEW b,
         Listed(cs, nc), NoneOf(ss, K, b), NoneOf(cs, DOMAIN cs, b), Shifted(K, K2, n2, d),
         Alike(ss, ss2, n2, d), BufferMoves(cs, cs2, ss, nc, d)
  PROVE NoneOf(ss2, K2, b) /\ NoneOf(cs2, DOMAIN cs2, b)
<1>1. NoneOf(ss2, K2, b)
  BY DEF NoneOf, Shifted, Alike
<1>2. CASE d = 0
  BY <1>1, <1>2 DEF BufferMoves
<1>3. CASE d = 1
  <2>1. /\ DOMAIN cs2 = 1..(nc + 1) /\ \A i \in 1..nc : cs2[i] = cs[i]
        /\ cs2[nc + 1].fp = ss[1].fp /\ b \notin ss[1].fp /\ DOMAIN cs = 1..nc
    BY <1>3 DEF BufferMoves, Shifted, NoneOf, Listed
  <2>2. ASSUME NEW i \in 1..(nc + 1) PROVE b \notin cs2[i].fp
    <3>1. CASE i \in 1..nc
      BY <2>1, <3>1 DEF NoneOf
    <3>2. CASE i = nc + 1
      BY <2>1, <3>2
    <3> QED BY <3>1, <3>2
  <2> QED BY <1>1, <2>1, <2>2 DEF NoneOf
<1> QED BY <1>2, <1>3

\* What a cycle does to the stores: c accesses retire, d stores move to the
\* committed store buffer, accesses as old as cut or older stay.
Turn(h, ss, cs, h2, ss2, cs2, c, d, cut) ==
    /\ h \in Tag /\ c \in {0, 1} /\ d \in {0, 1} /\ cut \in Nat
    /\ AgesMove(h, h2, c, cut) /\ StoresMove(h, ss, ss2, c, d, cut)
    /\ \E n \in Nat, n2 \in Nat, nc \in Nat :
          /\ Tagged(ss, n) /\ Tagged(ss2, n2) /\ Listed(cs, nc)
          /\ BufferMoves(cs, cs2, ss, nc, d)

StillNone(h, ss, cs, h2, ss2, cs2, a, c, b) ==
    NoneOf(ss, Below(h, ss, a), b) /\ NoneOf(cs, DOMAIN cs, b) =>
       NoneOf(ss2, Below(h2, ss2, a - c), b) /\ NoneOf(cs2, DOMAIN cs2, b)

\* A cycle does not change what an access that stays reads.
LEMMA TurnReads ==
  ASSUME NEW h, NEW ss, NEW cs, NEW h2, NEW ss2, NEW cs2, NEW c, NEW d, NEW cut,
         Turn(h, ss, cs, h2, ss2, cs2, c, d, cut), NEW a, Stays(a, c, cut), NEW m, NEW b
  PROVE /\ StillReads(h, ss, cs, h2, ss2, cs2, a, c, m, b)
        /\ StillNone(h, ss, cs, h2, ss2, cs2, a, c, b)
<1>1. /\ h \in Tag /\ c \in {0, 1} /\ d \in {0, 1} /\ cut \in Nat
      /\ AgesMove(h, h2, c, cut) /\ StoresMove(h, ss, ss2, c, d, cut)
  BY DEF Turn
<1>2. PICK n \in Nat, n2 \in Nat, nc \in Nat :
          /\ Tagged(ss, n) /\ Tagged(ss2, n2) /\ Listed(cs, nc)
          /\ BufferMoves(cs, cs2, ss, nc, d)
  BY DEF Turn
<1>4. Shifted(Below(h, ss, a), Below(h2, ss2, a - c), n2, d)
  BY <1>1, <1>2, BelowMoves
<1>3. StillReads(h, ss, cs, h2, ss2, cs2, a, c, m, b)
  <2> DEFINE K == Below(h, ss, a)
             K2 == Below(h2, ss2, a - c)
  <2>1. Shifted(K, K2, n2, d)
    BY <1>4
  <2>2. Places(K, n)
    BY <1>2 DEF Places, Below, Tagged
  <2>3. \A i \in 1..n2 : ss2[i].fp = ss[i + d].fp /\ ss2[i].val = ss[i + d].val
    BY <1>1, <1>2 DEF StoresMove, Tagged
  <2>4. SUFFICES Youngest(cs2, ss2, m, K2, b) = Youngest(cs, ss, m, K, b)
    BY DEF StillReads
  <2> HIDE DEF K, K2
  <2>5. Moves(cs, ss, K, cs2, ss2, K2, n, n2, nc, d)
    BY <1>1, <1>2, <2>1, <2>3 DEF Moves, Shifted, BufferMoves
  <2> QED BY <1>1, <1>2, <2>2, <2>5, YoungestMoves
<1>5. Alike(ss, ss2, n2, d)
  BY <1>1, <1>2 DEF StoresMove, Tagged, Alike
<1>6. StillNone(h, ss, cs, h2, ss2, cs2, a, c, b)
  <2> SUFFICES ASSUME NoneOf(ss, Below(h, ss, a), b), NoneOf(cs, DOMAIN cs, b)
               PROVE NoneOf(ss2, Below(h2, ss2, a - c), b) /\ NoneOf(cs2, DOMAIN cs2, b)
    BY DEF StillNone
  <2> QED BY <1>1, <1>2, <1>4, <1>5, NoneMoves
<1> QED BY <1>3, <1>6

\* The same of its data.
LEMMA RightMoves ==
  ASSUME NEW h, NEW ss, NEW cs, NEW h2, NEW ss2, NEW cs2, NEW c, NEW d, NEW cut,
         Turn(h, ss, cs, h2, ss2, cs2, c, d, cut), NEW m,
         NEW l, NEW l2, NEW x, LoadRight(h, l, x, ss, cs, m),
         Shifts(h, l, h2, l2, c, cut), l2.executed <=> l.executed
  PROVE LoadRight(h2, l2, x, ss2, cs2, m)
<1>1. PICK a \in Nat : a = From(h, l.tag)
  BY DEF Shifts
<1>2. l2.fp = l.fp /\ c <= a /\ a < cut /\ From(h2, l2.tag) = a - c
  BY <1>1 DEF Shifts
<1>3. Stays(a, c, cut)
  BY <1>1, <1>2 DEF Stays, Turn
<1>4. \A b : /\ StillReads(h, ss, cs, h2, ss2, cs2, a, c, m, b)
             /\ StillNone(h, ss, cs, h2, ss2, cs2, a, c, b)
  BY <1>3, TurnReads
<1>5. LoadRight(h, l, x, ss, cs, m) =
      /\ ~l.executed => x = <<>>
      /\ l.executed /\ x = <<>> =>
            \A b \in l.fp : NoneOf(ss, Below(h, ss, a), b) /\ NoneOf(cs, DOMAIN cs, b)
      /\ x # <<>> => \A b \in l.fp : x[b] = Youngest(cs, ss, m, Below(h, ss, a), b)
  BY <1>1 DEF LoadRight
<1>6. LoadRight(h2, l2, x, ss2, cs2, m) =
      /\ ~l2.executed => x = <<>>
      /\ l2.executed /\ x = <<>> =>
            \A b \in l.fp : NoneOf(ss2, Below(h2, ss2, a - c), b) /\ NoneOf(cs2, DOMAIN cs2, b)
      /\ x # <<>> => \A b \in l.fp : x[b] = Youngest(cs2, ss2, m, Below(h2, ss2, a - c), b)
  BY <1>2 DEF LoadRight
<1> QED BY <1>4, <1>5, <1>6 DEF StillReads, StillNone

-----------------------------------------------------------------------------
\* A load that is older than a store that waits finds its bytes in a younger one.
LEMMA NotWaiting ==
  ASSUME TypeOK, NEW A, NEW D, NEW l, ~SqWait(Filled(A, D), l),
         NEW i \in Before(l), ~Ready(Filled(A, D)[i]), NEW b \in l.fp, b \in sq[i].fp
  PROVE \E j \in ReadyStores(Filled(A, D), l) : j > i /\ b \in sq[j].fp
<1> DEFINE q == Filled(A, D)
<1>1. /\ DOMAIN q = 1..Len(sq) /\ DOMAIN sq = 1..Len(sq)
      /\ \A k \in 1..Len(sq) : q[k].tag = sq[k].tag /\ q[k].fp = sq[k].fp
                               /\ q[k].committed = sq[k].committed
  BY FilledIs, TypesOfEntries
<1> HIDE DEF q
<1>2. i \in DOMAIN q /\ Older(q[i], l) /\ ~Ready(q[i]) /\ b \in q[i].fp
  BY <1>1 DEF Before, Older, q
<1>3. ~Overlap(Uncovered(q, l, i), IF q[i].addr THEN q[i].fp ELSE l.fp)
  BY <1>2 DEF SqWait, q
<1>4. b \notin Uncovered(q, l, i)
  BY <1>2, <1>3 DEF Overlap
<1>5. \E j \in DOMAIN q : j > i /\ Older(q[j], l) /\ Ready(q[j]) /\ b \in q[j].fp
  BY <1>4 DEF Uncovered
<1>6. PICK j \in DOMAIN q : j > i /\ Older(q[j], l) /\ Ready(q[j]) /\ b \in q[j].fp
  BY <1>5
<1>7. j \in ReadyStores(q, l) /\ b \in sq[j].fp
  BY <1>1, <1>6 DEF ReadyStores
<1> QED BY <1>6, <1>7 DEF q

\* The stores that are ready are among those before the load.
LEMMA ReadyBefore ==
  ASSUME TypeOK, NEW A, NEW D, NEW l
  PROVE /\ \A i \in ReadyStores(Filled(A, D), l) : i \in Before(l)
        /\ \A i \in Before(l) : Ready(Filled(A, D)[i]) => i \in ReadyStores(Filled(A, D), l)
        /\ Places(Before(l), Len(sq))
<1>1. /\ DOMAIN Filled(A, D) = 1..Len(sq) /\ DOMAIN sq = 1..Len(sq)
      /\ \A k \in 1..Len(sq) : /\ Filled(A, D)[k].tag = sq[k].tag
                               /\ Filled(A, D)[k].committed = sq[k].committed
  BY FilledIs, TypesOfEntries
<1>2. \A k \in 1..Len(sq) : Older(Filled(A, D)[k], l) = Older(sq[k], l)
  BY <1>1 DEF Older
<1> QED BY <1>1, <1>2 DEF ReadyStores, Before, Places

\* A load that nothing in the store queue holds back or serves has no store
\* before it there that writes its bytes.
LEMMA QueueEmptyForLoad ==
  ASSUME TypeOK, NEW A, NEW D, NEW l, ~SqWait(Filled(A, D), l),
         ~SqPartial(Filled(A, D), l), ~SqHit(Filled(A, D), l), NEW b \in l.fp
  PROVE NoneOf(sq, Before(l), b)
<1> DEFINE q == Filled(A, D)
           R == ReadyStores(q, l)
<1>1. Covered(q, R, l.fp) = {}
  BY DEF SqPartial
<1>2. Writers(q, R, b) = {}
  BY <1>1 DEF Covered
<1>3. \A j \in R : b \notin sq[j].fp
  <2>1. \A j \in R : b \notin q[j].fp
    BY <1>2 DEF Writers
  <2>2. \A j \in R : j \in 1..Len(sq)
    BY ReadyPlaces DEF Places
  <2> QED BY <2>1, <2>2, FilledIs
<1>4. ASSUME NEW i \in Before(l), b \in sq[i].fp PROVE FALSE
  <2>1. CASE Ready(q[i])
    BY <1>3, <1>4, <2>1, ReadyBefore
  <2>2. CASE ~Ready(q[i])
    BY <1>3, <1>4, <2>2, NotWaiting
  <2> QED BY <2>1, <2>2
<1> QED BY <1>4 DEF NoneOf

\* What the store queue forwards is of the youngest store before the load.
LEMMA QueueForwards ==
  ASSUME TypeOK, NEW A, NEW D, NEW l, ~SqWait(Filled(A, D), l), SqHit(Filled(A, D), l), NEW b \in l.fp
  PROVE Forward(Filled(A, D), ReadyStores(Filled(A, D), l), l.fp)[b]
           = Youngest(csb, sq, cache, Before(l), b)
<1> DEFINE q == Filled(A, D)
           R == ReadyStores(q, l)
<1>1. Hit(q, R, l.fp) /\ Places(R, Len(sq)) /\ Len(sq) \in Nat
  BY ReadyPlaces DEF SqHit
<1>2. PICK i : IsLast(q, R, b, i) /\ Forward(q, R, l.fp)[b] = q[i].val
  <2> HIDE DEF q, R
  <2> QED BY <1>1, ForwardIs
<1>3. /\ i \in R /\ i \in 1..Len(sq) /\ q[i].val = sq[i].val /\ b \in sq[i].fp
      /\ \A j \in R : j \in 1..Len(sq) /\ (b \in sq[j].fp => j <= i)
  <2>1. i \in R /\ b \in q[i].fp /\ \A j \in R : j \in 1..Len(sq) /\ (b \in q[j].fp => j <= i)
    BY <1>1, <1>2 DEF IsLast, Places
  <2> QED BY <2>1, FilledIs
<1>4. ASSUME NEW j \in Before(l), b \in sq[j].fp PROVE j <= i
  <2>1. CASE Ready(q[j])
    BY <1>3, <1>4, <2>1, ReadyBefore
  <2>2. CASE ~Ready(q[j])
    <3>1. PICK k \in R : k > j /\ b \in sq[k].fp
      BY <1>4, <2>2, NotWaiting
    <3>2. k <= i /\ k \in 1..Len(sq) /\ j \in 1..Len(sq)
      BY <1>3, <3>1, ReadyBefore DEF Places
    <3> QED BY <1>1, <1>3, <3>1, <3>2
  <2> QED BY <2>1, <2>2
<1>5. i \in Before(l)
  BY <1>3, ReadyBefore
<1>6. IsLast(sq, Before(l), b, i) /\ Places(Before(l), Len(sq))
  BY <1>3, <1>4, <1>5, ReadyBefore DEF IsLast
<1>7. Youngest(csb, sq, cache, Before(l), b) = sq[i].val
  BY <1>1, <1>6, YoungestQueued
<1> QED BY <1>2, <1>3, <1>7

\* What the committed store buffer forwards is of the youngest store too, when
\* the store queue has none.
LEMMA BufferForwards ==
  ASSUME TypeOK, NEW l, Hit(CsbView, DOMAIN CsbView, l.fp), NEW b \in l.fp, NoneOf(sq, Before(l), b)
  PROVE Forward(CsbView, DOMAIN CsbView, l.fp)[b] = Youngest(csb, sq, cache, Before(l), b)
<1>1. PICK n \in Nat : n = Len(csb)
  BY TypesOfEntries
<1>2. PICK i : /\ IsLast(CsbView, DOMAIN CsbView, b, i)
               /\ Forward(CsbView, DOMAIN CsbView, l.fp)[b] = CsbView[i].val
  BY CsbPlaces, ForwardIs
<1>3. BufferMoves(csb, CsbView, sq, n, Drain) /\ Drain \in {0, 1} /\ DOMAIN csb = 1..n
  BY <1>1, CsbViewIs, TypesOfEntries DEF Drain
<1>4. \A j \in 1..n : j \in DOMAIN CsbView /\ CsbView[j] = csb[j]
  BY <1>3 DEF BufferMoves
<1>5. i \in 1..n
  <2>1. CASE Drain = 0
    BY <1>2, <1>3, <2>1 DEF BufferMoves, IsLast
  <2>2. CASE Drain = 1
    <3>1. 1 \in Before(l)
      BY <2>2, AfterDrainIs, TypesOfEntries, NothingUpdates DEF Before, Older, Drain, Drains, TypeOK
    <3>2. DOMAIN CsbView = 1..(n + 1) /\ CsbView[n + 1].fp = sq[1].fp
      BY <1>3, <2>2 DEF BufferMoves
    <3>3. b \notin CsbView[n + 1].fp
      BY <3>1, <3>2 DEF NoneOf
    <3>4. i \in 1..(n + 1) /\ i # n + 1
      BY <1>2, <3>2, <3>3 DEF IsLast
    <3> QED BY <1>1, <3>4
  <2> QED BY <1>3, <2>1, <2>2
<1>6. IsLast(csb, 1..n, b, i) /\ CsbView[i] = csb[i]
  BY <1>2, <1>4, <1>5 DEF IsLast
<1>7. Listed(csb, n)
  BY <1>3 DEF Listed
<1>8. Youngest(csb, sq, cache, Before(l), b) = csb[i].val
  BY <1>6, <1>7, YoungestBuffered
<1> QED BY <1>2, <1>6, <1>8

\* Without a hit, it has none.
LEMMA BufferEmptyForLoad ==
  ASSUME TypeOK, NEW l, ~Hit(CsbView, DOMAIN CsbView, l.fp),
         ~Partial(CsbView, DOMAIN CsbView, l.fp), NEW b \in l.fp
  PROVE NoneOf(csb, DOMAIN csb, b)
<1>1. PICK n \in Nat : n = Len(csb)
  BY TypesOfEntries
<1>2. BufferMoves(csb, CsbView, sq, n, Drain) /\ Drain \in {0, 1} /\ DOMAIN csb = 1..n
  BY <1>1, CsbViewIs, TypesOfEntries DEF Drain
<1>3. \A j \in 1..n : j \in DOMAIN CsbView /\ CsbView[j] = csb[j]
  BY <1>2 DEF BufferMoves
<1>4. Writers(CsbView, DOMAIN CsbView, b) = {}
  BY DEF Partial, Covered
<1>5. \A j \in DOMAIN CsbView : b \notin CsbView[j].fp
  BY <1>4 DEF Writers
<1> QED BY <1>2, <1>3, <1>5 DEF NoneOf

\* A store whose halves both issue with the load is the youngest before it,
\* when every older address is known and no younger one overtook it.
LEMMA SameCycleForwards ==
  ASSUME TypeOK, Placed, NEW A \in AddrIssues, NEW D, NEW l,
         \A i \in A \cap D : ~IsOvertaken(i), ~StoreIqOlder(A, l), SameCycleHit(A, D, l),
         NEW b \in l.fp
  PROVE sq[CHOOSE i \in A : TRUE].val = Youngest(csb, sq, cache, Before(l), b)
<1>1. PICK i \in A \cap D : Age(sq[i].tag) < Age(l.tag) /\ l.fp \subseteq sq[i].fp
  BY DEF SameCycleHit
<1>2. A = {i} /\ i \in DOMAIN sq /\ ~sq[i].addr
  BY <1>1 DEF AddrIssues
<1>3. (CHOOSE j \in A : TRUE) = i
  BY <1>2
<1>4. Len(sq) \in Nat /\ DOMAIN sq = 1..Len(sq)
  BY TypesOfEntries
<1>5. ~sq[i].committed
  BY <1>2 DEF Placed, StoresPlaced
<1>6. ASSUME NEW j \in Before(l), b \in sq[j].fp, j > i PROVE FALSE
  <2>1. j \in DOMAIN sq /\ ~sq[j].committed
    BY <1>2, <1>5, <1>6 DEF Before, Placed, StoresPlaced
  <2>2. Age(sq[j].tag) < Age(l.tag)
    BY <1>6, <2>1 DEF Before, Older
  <2>3. CASE sq[j].addr
    <3>1. Overlap(sq[j].fp, sq[i].fp)
      BY <1>1, <1>6 DEF Overlap
    <3>2. IsOvertaken(i)
      BY <1>6, <2>1, <2>3, <3>1 DEF IsOvertaken
    <3> QED BY <1>1, <3>2
  <2>4. CASE ~sq[j].addr
    <3>1. j \notin A
      BY <1>2, <1>4, <1>6
    <3> QED BY <2>1, <2>2, <2>4, <3>1 DEF StoreIqOlder
  <2> QED BY <2>3, <2>4
<1>7. i \in Before(l) /\ b \in sq[i].fp
  BY <1>1, <1>2 DEF Before, Older
<1>8. Places(Before(l), Len(sq))
  BY <1>4 DEF Places, Before
<1>9. IsLast(sq, Before(l), b, i)
  <2>1. \A j \in Before(l) : b \in sq[j].fp => ~(j > i)
    BY <1>6
  <2>2. \A j \in Before(l) : j \in 1..Len(sq)
    BY <1>8 DEF Places
  <2> QED BY <1>2, <1>4, <1>7, <2>1, <2>2 DEF IsLast
<1>10. Youngest(csb, sq, cache, Before(l), b) = sq[i].val
  BY <1>4, <1>8, <1>9, YoungestQueued
<1> QED BY <1>3, <1>10

-----------------------------------------------------------------------------
\* The data a load is given are those of the youngest stores before it; a load
\* that is given none has no store before it to read.
LEMMA AnswerRight ==
  ASSUME TypeOK, Placed, NEW A \in AddrIssues, NEW D,
         \A i \in A \cap D : ~IsOvertaken(i), NEW port, NEW l, l.fp \in Footprints,
         ~Suppressed(port, A, D, Filled(A, D), l),
         NEW x, x = ForwardedData(port, A, D, Filled(A, D), l), NEW b \in l.fp
  PROVE /\ x = <<>> => NoneOf(sq, Before(l), b) /\ NoneOf(csb, DOMAIN csb, b)
        /\ x # <<>> => x[b] = Youngest(csb, sq, cache, Before(l), b)
<1> DEFINE q == Filled(A, D)
<1>1. /\ ~StoreIqOlder(A, l) /\ ~SqWait(q, l) /\ ~SqPartial(q, l)
      /\ ~Partial(CsbView, DOMAIN CsbView, l.fp)
  BY DEF Suppressed
<1>2. CASE port = 0 /\ SameCycleHit(A, D, l)
  <2>1. x = [c \in l.fp |-> sq[CHOOSE i \in A : TRUE].val]
    BY <1>2 DEF ForwardedData
  <2>2. x[b] = Youngest(csb, sq, cache, Before(l), b)
    BY <1>1, <1>2, <2>1, SameCycleForwards
  <2>3. x # <<>>
    <3>1. DOMAIN x = l.fp /\ l.fp # {}
      BY <2>1
    <3> QED BY <3>1
  <2> QED BY <2>2, <2>3
<1>3. CASE ~(port = 0 /\ SameCycleHit(A, D, l)) /\ SqHit(q, l)
  <2>1. x = Forward(q, ReadyStores(q, l), l.fp)
    BY <1>3 DEF ForwardedData
  <2>2. x[b] = Youngest(csb, sq, cache, Before(l), b)
    BY <1>1, <1>3, <2>1, QueueForwards
  <2>3. DOMAIN x = l.fp
    BY <2>1 DEF Forward
  <2> QED BY <2>2, <2>3
<1>4. CASE /\ ~(port = 0 /\ SameCycleHit(A, D, l)) /\ ~SqHit(q, l)
           /\ Hit(CsbView, DOMAIN CsbView, l.fp)
  <2>1. x = Forward(CsbView, DOMAIN CsbView, l.fp)
    BY <1>4 DEF ForwardedData
  <2>2. NoneOf(sq, Before(l), b)
    BY <1>1, <1>4, QueueEmptyForLoad
  <2>3. x[b] = Youngest(csb, sq, cache, Before(l), b)
    BY <1>4, <2>1, <2>2, BufferForwards
  <2>4. DOMAIN x = l.fp
    BY <2>1 DEF Forward
  <2> QED BY <2>3, <2>4
<1>5. CASE /\ ~(port = 0 /\ SameCycleHit(A, D, l)) /\ ~SqHit(q, l)
           /\ ~Hit(CsbView, DOMAIN CsbView, l.fp)
  <2>1. x = <<>>
    BY <1>5 DEF ForwardedData
  <2>2. NoneOf(sq, Before(l), b)
    BY <1>1, <1>5, QueueEmptyForLoad
  <2>3. NoneOf(csb, DOMAIN csb, b)
    BY <1>1, <1>5, BufferEmptyForLoad
  <2> QED BY <2>1, <2>2, <2>3
<1> QED BY <1>2, <1>3, <1>4, <1>5

\* The stores before a load are those below its age.
LEMMA BeforeIsBelow ==
  ASSUME NEW l
  PROVE Before(l) = Below(head, sq, From(head, l.tag))
BY DEF Before, Older, Below, Age, From

\* A cycle turns as its lists move.
LEMMA CycleTurns ==
  ASSUME TypeOK, Placed, TypeOK', NEW c \in {0, 1}, NEW d \in {0, 1}, NEW e \in {0, 1},
         NEW cut \in Nat, Cycle(c, d, e, cut),
         NEW h2, NEW ls2, NEW ss2, NEW cs2, h2 = head', ls2 = lq', ss2 = sq', cs2 = csb'
  PROVE /\ Turn(head, sq, csb, h2, ss2, cs2, c, d, cut)
        /\ Len(ls2) \in Nat /\ DOMAIN ls2 = 1..Len(ls2)
        /\ AllShift(head, lq, Len(lq), h2, ls2, Len(ls2), c, e, cut)
<1>1. /\ Len(lq) \in Nat /\ Tagged(lq, Len(lq)) /\ Len(sq) \in Nat /\ Tagged(sq, Len(sq))
      /\ Len(csb) \in Nat /\ Listed(csb, Len(csb)) /\ head \in Tag /\ Len(rob) \in Nat
  BY TagsAre, TypesOfEntries DEF TypeOK
<1>2. /\ ls2 \in Seq(LoadEntry) /\ ss2 \in Seq(StoreEntry)
  BY DEF TypeOK
<1>3. /\ Len(ls2) \in Nat /\ Tagged(ls2, Len(ls2)) /\ Len(ss2) \in Nat /\ Tagged(ss2, Len(ss2))
  BY <1>2, TagsAre
<1>4. /\ AgesMove(head, h2, c, cut) /\ LoadsMove(head, rob, lq, ls2, c, e, cut)
      /\ StoresMove(head, sq, ss2, c, d, cut) /\ BufferMoves(csb, cs2, sq, Len(csb), d)
      /\ LoadsPlaced(head, rob, lq)
  BY DEF Cycle, Placed, RobMoves
<1>5. AllShift(head, lq, Len(lq), h2, ls2, Len(ls2), c, e, cut)
  <2>1. PICK h, q, ls, n, n2 : /\ h = head /\ q = rob /\ ls = lq
                               /\ n = Len(lq) /\ n2 = Len(ls2)
    OBVIOUS
  <2>2. /\ h \in Tag /\ n \in Nat /\ n2 \in Nat /\ Tagged(ls, n) /\ Tagged(ls2, n2)
        /\ LoadsPlaced(h, q, ls) /\ AgesMove(h, h2, c, cut) /\ LoadsMove(h, q, ls, ls2, c, e, cut)
    BY <1>1, <1>3, <1>4, <2>1
  <2>3. AllShift(h, ls, n, h2, ls2, n2, c, e, cut)
    BY <2>2, LoadsShift
  <2> QED BY <2>1, <2>3
<1>6. Turn(head, sq, csb, h2, ss2, cs2, c, d, cut)
  BY <1>1, <1>3, <1>4 DEF Turn
<1>7. DOMAIN ls2 = 1..Len(ls2)
  BY <1>2
<1> QED BY <1>3, <1>5, <1>6, <1>7

\* Loads that are right as the stores were before a cycle are after it.
LEMMA RightAfter ==
  ASSUME TypeOK, Placed, TypeOK', NEW c \in {0, 1}, NEW d \in {0, 1}, NEW e \in {0, 1},
         NEW cut \in Nat, Cycle(c, d, e, cut), cache' = cache,
         \A k \in DOMAIN lq' : LoadRight(head, lq'[k], DataOf(head', rob', lq'[k]), sq, csb, cache)
  PROVE AllRight'
<1>1. PICK h2, q2, ls2, ss2, cs2 :
         h2 = head' /\ q2 = rob' /\ ls2 = lq' /\ ss2 = sq' /\ cs2 = csb'
  OBVIOUS
<1>2. /\ Turn(head, sq, csb, h2, ss2, cs2, c, d, cut)
      /\ Len(ls2) \in Nat /\ DOMAIN ls2 = 1..Len(ls2)
      /\ AllShift(head, lq, Len(lq), h2, ls2, Len(ls2), c, e, cut)
  BY <1>1, CycleTurns
<1>3. ASSUME NEW k \in DOMAIN ls2
      PROVE LoadRight(h2, ls2[k], DataOf(h2, q2, ls2[k]), ss2, cs2, cache)
  <2>1. PICK l : l = ls2[k]
    OBVIOUS
  <2>2. PICK x : x = DataOf(h2, q2, ls2[k])
    OBVIOUS
  <2>3. LoadRight(head, l, x, sq, csb, cache)
    BY <1>1, <1>3, <2>1, <2>2
  <2>4. Shifts(head, lq[k + e], h2, l, c, cut)
    BY <1>2, <1>3, <2>1 DEF AllShift
  <2>5. Shifts(head, l, h2, l, c, cut)
    BY <2>4 DEF Shifts
  <2>6. LoadRight(h2, l, x, ss2, cs2, cache)
    BY <1>2, <2>3, <2>5, RightMoves
  <2> QED BY <2>1, <2>2, <2>6
<1> QED BY <1>1, <1>3 DEF AllRight

\* So are loads that a cycle leaves as they were.
LEMMA UnalteredRight ==
  ASSUME TypeOK, Placed, AllRight, TypeOK', NEW c \in {0, 1}, NEW d \in {0, 1}, NEW e \in {0, 1},
         NEW cut \in Nat, Cycle(c, d, e, cut), cache' = cache, Unaltered(c, e, cut)
  PROVE AllRight'
<1>1. PICK h2, q2, ls2, ss2, cs2 :
         h2 = head' /\ q2 = rob' /\ ls2 = lq' /\ ss2 = sq' /\ cs2 = csb'
  OBVIOUS
<1>2. /\ Len(ls2) \in Nat /\ DOMAIN ls2 = 1..Len(ls2)
      /\ AllShift(head, lq, Len(lq), h2, ls2, Len(ls2), c, e, cut)
  BY <1>1, CycleTurns
<1>3. /\ \A r \in 1..(cut - c) : q2[r] = rob[r + c]
      /\ \A k \in DOMAIN ls2 : ls2[k] = lq[k + e]
  BY <1>1 DEF Unaltered
<1>4. ASSUME NEW k \in DOMAIN ls2
      PROVE LoadRight(head, ls2[k], DataOf(h2, q2, ls2[k]), sq, csb, cache)
  <2>1. k + e \in 1..Len(lq) /\ Shifts(head, lq[k + e], h2, ls2[k], c, cut) /\ ls2[k] = lq[k + e]
    BY <1>2, <1>3, <1>4 DEF AllShift
  <2>2. PICK j \in 1..Len(lq) : j = k + e
    BY <2>1
  <2>3. PICK a \in Nat : a = From(head, lq[j].tag)
    BY <2>1, <2>2 DEF Shifts
  <2>4. c <= a /\ a < cut /\ From(h2, lq[j].tag) = a - c
    BY <2>1, <2>2, <2>3 DEF Shifts
  <2>5. q2[a - c + 1] = rob[a + 1]
    <3>1. a - c + 1 \in 1..(cut - c) /\ a - c + 1 + c = a + 1
      BY <2>3, <2>4
    <3> QED BY <1>3, <3>1
  <2>6. DataOf(h2, q2, lq[j]) = DataOf(head, rob, lq[j])
    BY <2>3, <2>4, <2>5 DEF DataOf
  <2>7. j \in DOMAIN lq
    BY <2>2, TypesOfEntries
  <2>8. LoadRight(head, lq[j], DataOf(head, rob, lq[j]), sq, csb, cache)
    BY <2>7 DEF AllRight
  <2> QED BY <2>1, <2>2, <2>6, <2>8
<1> QED BY <1>1, <1>4, RightAfter

-----------------------------------------------------------------------------
\* Loads stay right as loads and halves of stores issue, when no store issues
\* both halves once it is overtaken.
LEMMA IssueRight ==
  ASSUME TypeOK, Placed, AllRight, ~Overtaken, TypeOK',
         NEW A \in AddrIssues, NEW D, NEW offer \in Offers, Issue(A, D, offer)
  PROVE AllRight'
<1>1. /\ Cycle(0, Drain, 0, Len(rob)) /\ Drain \in {0, 1} /\ Len(rob) \in Nat
      /\ cache' = cache /\ head' = head /\ \A i \in A \cap D : ~IsOvertaken(i)
  BY IssueMoves, IssueIs, TypesOfEntries DEF Drain
<1>2. ASSUME NEW k \in DOMAIN lq'
      PROVE LoadRight(head, lq'[k], DataOf(head', rob', lq'[k]), sq, csb, cache)
  <2>1. /\ k \in 1..Len(lq) /\ k \in DOMAIN lq /\ lq[k].fp \in Footprints
        /\ lq[k].tag \in Tag /\ head \in Tag
    BY <1>2, IssuedLoads, TypesOfEntries
  <2>2. /\ lq'[k].tag = lq[k].tag /\ lq'[k].fp = lq[k].fp
        /\ lq'[k].executed <=> \/ lq[k].executed
                               \/ k \in Fires(A, D, offer)
    BY <2>1, IssuedLoads
  <2>3. PICK r : r = From(head, lq[k].tag) + 1
    OBVIOUS
  <2>4. r \in 1..Len(rob)
    <3>1. From(head, lq[k].tag) \in Nat /\ From(head, lq[k].tag) < Len(rob)
      BY <2>1, FromIs DEF Placed, LoadsPlaced
    <3> QED BY <1>1, <2>3, <3>1
  <2>5. DataOf(head', rob', lq'[k]) = rob'[r].data /\ DataOf(head, rob, lq[k]) = rob[r].data
    BY <1>1, <2>2, <2>3 DEF DataOf
  <2>6. LoadRight(head, lq[k], rob[r].data, sq, csb, cache)
    BY <2>1, <2>5 DEF AllRight
  <2>7. CASE rob'[r].data = rob[r].data /\ Answers(A, D, offer, r) = {}
    <3>1. k \notin Fires(A, D, offer)
      <4> SUFFICES ASSUME k \in Fires(A, D, offer) PROVE FALSE
        OBVIOUS
      <4>1. PICK p \in Accepted(A, D, offer) : offer[p] = k
        BY DEF Fires
      <4>2. Place(lq[offer[p]]) = r
        BY <2>3, <4>1 DEF Place, Age, From
      <4> QED BY <2>7, <4>1, <4>2 DEF Answers
    <3>2. lq'[k].executed <=> lq[k].executed
      BY <2>2, <3>1
    <3>3. LoadRight(head, lq'[k], rob[r].data, sq, csb, cache)
      BY <2>2, <2>6, <3>2, Zenon DEF LoadRight
    <3> QED BY <2>5, <2>7, <3>3
  <2>8. ASSUME NEW p \in Answers(A, D, offer, r), rob'[r].data = Answer(A, D, offer, p)
        PROVE LoadRight(head, lq'[k], DataOf(head', rob', lq'[k]), sq, csb, cache)
    <3>1. /\ p \in Accepted(A, D, offer) /\ Place(lq[offer[p]]) = r /\ p \in DOMAIN offer
          /\ ~Suppressed(p - 1, A, D, Filled(A, D), lq[offer[p]])
      BY <2>8 DEF Answers, Accepted
    <3>2. offer[p] \in DOMAIN lq
      BY <3>1, OfferIs
    <3>3. offer[p] = k
      <4>1. From(head, lq[offer[p]].tag) + 1 = From(head, lq[k].tag) + 1
        BY <2>3, <3>1 DEF Place, Age, From
      <4>2. From(head, lq[offer[p]].tag) \in Nat /\ From(head, lq[k].tag) \in Nat
        BY <2>1, <3>2, TypesOfEntries, FromIs
      <4>3. From(head, lq[offer[p]].tag) = From(head, lq[k].tag)
        BY <4>1, <4>2
      <4> QED BY <2>1, <3>2, <4>3, PlacesDiffer DEF Placed
    <3>4. lq'[k].executed
      BY <2>2, <3>1, <3>3 DEF Fires
    <3>5. PICK x : x = rob'[r].data
      OBVIOUS
    <3>6. x = ForwardedData(p - 1, A, D, Filled(A, D), lq[k])
      BY <2>8, <3>3, <3>5 DEF Answer
    <3>7. ~Suppressed(p - 1, A, D, Filled(A, D), lq[k])
      BY <3>1, <3>3
    <3>8. \A b \in lq[k].fp :
             /\ x = <<>> => NoneOf(sq, Before(lq[k]), b) /\ NoneOf(csb, DOMAIN csb, b)
             /\ x # <<>> => x[b] = Youngest(csb, sq, cache, Before(lq[k]), b)
      BY <1>1, <2>1, <3>6, <3>7, AnswerRight
    <3>9. Before(lq[k]) = Below(head, sq, From(head, lq'[k].tag))
      BY <2>2, BeforeIsBelow
    <3>10. LoadRight(head, lq'[k], x, sq, csb, cache)
      BY <2>2, <3>4, <3>8, <3>9, Zenon DEF LoadRight
    <3> QED BY <2>5, <3>5, <3>10
  <2>9. \/ rob'[r].data = rob[r].data /\ Answers(A, D, offer, r) = {}
        \/ \E p \in Answers(A, D, offer, r) : rob'[r].data = Answer(A, D, offer, p)
    BY <2>4, IssuedRob
  <2> QED BY <2>7, <2>8, <2>9
<1> QED BY <1>1, <1>2, RightAfter

\* As the cache answers a load, ...
LEMMA RespondRight ==
  ASSUME TypeOK, Placed, AllRight, NEW k \in DOMAIN lq, Respond(k)
  PROVE AllRight'
<1>1. /\ TypeOK' /\ Cycle(0, 0, 0, Len(rob)) /\ Len(rob) \in Nat
      /\ cache' = cache /\ head' = head /\ lq' = lq
      /\ \A r \in 1..Len(rob) : IF r = From(head, lq[k].tag) + 1
                                THEN rob'[r].data = [b \in lq[k].fp |-> cache[b]]
                                ELSE rob'[r].data = rob[r].data
  BY RespondTyped, TypesOfEntries DEF Respond
<1>2. ASSUME NEW j \in DOMAIN lq
      PROVE LoadRight(head, lq[j], DataOf(head, rob', lq[j]), sq, csb, cache)
  <2>1. From(head, lq[j].tag) \in Nat /\ From(head, lq[k].tag) \in Nat
    BY TypesOfEntries, FromIs
  <2>2. PICK r : r = From(head, lq[j].tag) + 1
    OBVIOUS
  <2>3. r \in 1..Len(rob)
    BY <1>1, <2>1, <2>2 DEF Placed, LoadsPlaced
  <2>4. DataOf(head, rob', lq[j]) = rob'[r].data /\ DataOf(head, rob, lq[j]) = rob[r].data
    BY <2>2 DEF DataOf
  <2>5. LoadRight(head, lq[j], rob[r].data, sq, csb, cache)
    BY <2>4 DEF AllRight
  <2>6. CASE r # From(head, lq[k].tag) + 1
    BY <1>1, <2>3, <2>4, <2>5, <2>6
  <2>7. CASE r = From(head, lq[k].tag) + 1
    <3>1. From(head, lq[j].tag) = From(head, lq[k].tag)
      BY <2>1, <2>2, <2>7
    <3>2. j = k
      BY <3>1, PlacesDiffer DEF Placed
    <3>3. lq[j].executed /\ rob[r].data = <<>>
      BY <2>7, <3>2 DEF Respond, Place, Age, From
    <3>4. \A b \in lq[j].fp : /\ NoneOf(sq, Below(head, sq, From(head, lq[j].tag)), b)
                              /\ NoneOf(csb, DOMAIN csb, b)
      BY <2>5, <3>3 DEF LoadRight
    <3>5. PICK n \in Nat : DOMAIN csb = 1..n
      BY TypesOfEntries
    <3>6. Listed(csb, n)
      BY <3>5 DEF Listed
    <3>7. \A b \in lq[j].fp : NoneOf(csb, 1..n, b)
      BY <3>4, <3>5
    <3>8. \A b \in lq[j].fp :
             Youngest(csb, sq, cache, Below(head, sq, From(head, lq[j].tag)), b) = cache[b]
      BY <3>4, <3>6, <3>7, YoungestInMemory
    <3>9. PICK x : x = rob'[r].data
      OBVIOUS
    <3>10. x = [b \in lq[j].fp |-> cache[b]]
      BY <1>1, <2>3, <2>7, <3>2, <3>9
    <3>11. x # <<>>
      <4>1. DOMAIN x = lq[j].fp /\ lq[j].fp \in Footprints
        BY <3>10, TypesOfEntries
      <4>2. DOMAIN x # {}
        BY <4>1, LoadStoreAssumption
      <4> QED BY <4>2
    <3>12. LoadRight(head, lq[j], x, sq, csb, cache)
      BY <3>3, <3>8, <3>10, <3>11 DEF LoadRight
    <3> QED BY <2>4, <3>9, <3>12
  <2> QED BY <2>6, <2>7
<1>3. \A j \in DOMAIN lq' : LoadRight(head, lq'[j], DataOf(head', rob', lq'[j]), sq, csb, cache)
  BY <1>1, <1>2
<1> QED BY <1>1, <1>3, RightAfter

\* ... as it takes a store, ...
LEMMA AckRight ==
  ASSUME TypeOK, AllRight, Ack
  PROVE AllRight'
<1>1. PICK cs2, m2, n : cs2 = csb' /\ m2 = cache' /\ n = Len(csb)
  OBVIOUS
<1>2. /\ n \in Nat /\ n >= 1 /\ RestOf(cs2, csb, n)
      /\ \A b \in Bytes : WrittenTo(cache, csb[1], b, m2)
      /\ head' = head /\ rob' = rob /\ lq' = lq /\ sq' = sq
  BY <1>1, AckTyped
<1>3. DOMAIN csb = 1..n /\ Listed(csb, n)
  BY <1>1, TypesOfEntries DEF Listed
<1>4. ASSUME NEW k \in DOMAIN lq
      PROVE LoadRight(head, lq[k], DataOf(head, rob, lq[k]), sq, cs2, m2)
  <2>1. PICK x : x = DataOf(head, rob, lq[k])
    OBVIOUS
  <2>2. LoadRight(head, lq[k], x, sq, csb, cache)
    BY <2>1 DEF AllRight
  <2>3. PICK K : K = Below(head, sq, From(head, lq[k].tag))
    OBVIOUS
  <2>4. Places(K, Len(sq)) /\ Len(sq) \in Nat
    BY <2>3, TypesOfEntries DEF Places, Below
  <2>5. lq[k].fp \subseteq Bytes
    BY TypesOfEntries, LoadStoreAssumption
  <2>6. ASSUME NEW b \in lq[k].fp
        PROVE /\ Youngest(cs2, sq, m2, K, b) = Youngest(csb, sq, cache, K, b)
              /\ NoneOf(csb, DOMAIN csb, b) => NoneOf(cs2, DOMAIN cs2, b)
    <3>1. WrittenTo(cache, csb[1], b, m2)
      BY <1>2, <2>5
    <3>2. Youngest(cs2, sq, m2, K, b) = Youngest(csb, sq, cache, K, b)
      <4>1. PICK c, s, m, l : c = csb /\ s = sq /\ m = cache /\ l = Len(sq)
        OBVIOUS
      <4>2. /\ n \in Nat /\ n >= 1 /\ l \in Nat /\ Places(K, l) /\ Listed(c, n)
            /\ RestOf(cs2, c, n) /\ WrittenTo(m, c[1], b, m2)
        BY <1>2, <1>3, <2>4, <3>1, <4>1
      <4>3. Youngest(cs2, s, m2, K, b) = Youngest(c, s, m, K, b)
        BY <4>2, YoungestAcked
      <4> QED BY <4>1, <4>3
    <3>3. \A i \in DOMAIN cs2 : i + 1 \in 1..n /\ cs2[i] = csb[i + 1]
      BY <1>2 DEF RestOf
    <3>4. NoneOf(csb, DOMAIN csb, b) => NoneOf(cs2, DOMAIN cs2, b)
      BY <1>3, <3>3 DEF NoneOf
    <3> QED BY <3>2, <3>4
  <2>7. LoadRight(head, lq[k], x, sq, cs2, m2)
    BY <2>2, <2>3, <2>6 DEF LoadRight
  <2> QED BY <2>1, <2>7
<1> QED BY <1>1, <1>2, <1>4 DEF AllRight

\* ... as a load enters, ...
LEMMA DispatchLoadRight ==
  ASSUME TypeOK, Placed, AllRight, NEW fp \in Footprints, DispatchLoad(fp)
  PROVE AllRight'
<1>1. PICK q2, ls2, n, r : q2 = rob' /\ ls2 = lq' /\ n = Len(lq) /\ r = Len(rob)
  OBVIOUS
<1>2. /\ head' = head /\ sq' = sq /\ csb' = csb /\ cache' = cache
      /\ Grown(rob, q2, r) /\ q2[r + 1] = [kind |-> "load", fp |-> fp, data |-> <<>>]
      /\ Grown(lq, ls2, n)
      /\ ls2[n + 1] = [tag |-> NextTag, fp |-> fp, executed |-> FALSE, replay |-> FALSE]
  BY <1>1, DispatchLoadTyped
<1>3. n \in Nat /\ r \in Nat /\ DOMAIN lq = 1..n /\ head \in Tag
  BY <1>1, TypesOfEntries
<1>4. ASSUME NEW k \in 1..(n + 1)
      PROVE LoadRight(head, ls2[k], DataOf(head, q2, ls2[k]), sq, csb, cache)
  <2>1. CASE k \in 1..n
    <3>1. ls2[k] = lq[k] /\ k \in DOMAIN lq
      BY <1>2, <1>3, <2>1 DEF Grown
    <3>2. From(head, lq[k].tag) \in Nat /\ From(head, lq[k].tag) < r
      BY <1>1, <3>1, TypesOfEntries, FromIs DEF Placed, LoadsPlaced
    <3>3. PICK a \in Nat : a = From(head, lq[k].tag) /\ a < r
      BY <3>2
    <3>4. q2[a + 1] = rob[a + 1]
      BY <1>2, <1>3, <3>3 DEF Grown
    <3>5. DataOf(head, q2, lq[k]) = DataOf(head, rob, lq[k])
      BY <3>3, <3>4 DEF DataOf
    <3> QED BY <3>1, <3>5 DEF AllRight
  <2>2. CASE k = n + 1
    <3>1. ls2[k].tag = NextTag /\ ~ls2[k].executed
      BY <1>2, <2>2
    <3>2. From(head, NextTag) = r
      BY <1>1, NextTagIs DEF DispatchLoad
    <3>3. DataOf(head, q2, ls2[k]) = <<>>
      BY <1>2, <3>1, <3>2 DEF DataOf
    <3> QED BY <3>1, <3>3 DEF LoadRight
  <2> QED BY <1>3, <2>1, <2>2
<1>5. DOMAIN ls2 = 1..(n + 1)
  BY <1>2 DEF Grown
<1> QED BY <1>1, <1>2, <1>4, <1>5 DEF AllRight

\* A store that enters behind those of K changes nothing they leave.
LEMMA GrownReads ==
  ASSUME NEW n \in Nat, NEW nc \in Nat, NEW cs, NEW ss, NEW ss2, NEW m, NEW K, NEW b,
         Places(K, n), Listed(cs, nc), Grown(ss, ss2, n)
  PROVE /\ Youngest(cs, ss2, m, K, b) = Youngest(cs, ss, m, K, b)
        /\ NoneOf(ss, K, b) => NoneOf(ss2, K, b)
<1>1. \A i \in K : i \in 1..n /\ ss2[i] = ss[i]
  BY DEF Places, Grown
<1>2. NoneOf(ss, K, b) => NoneOf(ss2, K, b)
  BY <1>1 DEF NoneOf
<1>3. Writers(ss2, K, b) = Writers(ss, K, b)
  BY <1>1 DEF Writers
<1>4. CASE Writers(ss, K, b) = {}
  BY <1>2, <1>3, <1>4 DEF Youngest
<1>5. CASE Writers(ss, K, b) # {}
  <2>1. PICK i : IsLast(ss, K, b, i)
    BY <1>5, LastWriter DEF NoneOf, Writers
  <2>2. IsLast(ss2, K, b, i) /\ ss2[i].val = ss[i].val
    BY <1>1, <2>1 DEF IsLast
  <2>3. Youngest(cs, ss, m, K, b) = ss[i].val
    BY <2>1, YoungestQueued
  <2>4. Youngest(cs, ss2, m, K, b) = ss2[i].val
    BY <2>2, YoungestQueued
  <2> QED BY <1>2, <2>2, <2>3, <2>4
<1> QED BY <1>4, <1>5

\* ... and as a store enters, loads stay right.
LEMMA DispatchStoreRight ==
  ASSUME TypeOK, Placed, AllRight, NEW fp \in Footprints, NEW v \in Vals, DispatchStore(fp, v)
  PROVE AllRight'
<1>1. PICK q2, ss2, n, r, nc : /\ q2 = rob' /\ ss2 = sq' /\ n = Len(sq) /\ r = Len(rob)
                               /\ nc = Len(csb)
  OBVIOUS
<1>2. /\ head' = head /\ lq' = lq /\ csb' = csb /\ cache' = cache
      /\ Grown(rob, q2, r) /\ Grown(sq, ss2, n)
      /\ ss2[n + 1] = [tag |-> NextTag, fp |-> fp, val |-> v, addr |-> FALSE,
                       data |-> FALSE, committed |-> FALSE]
  BY <1>1, DispatchStoreTyped
<1>3. /\ n \in Nat /\ r \in Nat /\ nc \in Nat /\ DOMAIN sq = 1..n /\ head \in Tag
      /\ Listed(csb, nc)
  BY <1>1, TypesOfEntries DEF Listed
<1>4. ss2[n + 1].tag = NextTag /\ ~ss2[n + 1].committed
  BY <1>2
<1>5. From(head, ss2[n + 1].tag) = r
  BY <1>1, <1>4, NextTagIs DEF DispatchStore
<1>6. ASSUME NEW k \in DOMAIN lq
      PROVE LoadRight(head, lq[k], DataOf(head, q2, lq[k]), ss2, csb, cache)
  <2>1. From(head, lq[k].tag) \in Nat /\ From(head, lq[k].tag) < r
    BY <1>1, <1>6, TypesOfEntries, FromIs DEF Placed, LoadsPlaced
  <2>2. PICK a \in Nat : a = From(head, lq[k].tag) /\ a < r
    BY <2>1
  <2>3. q2[a + 1] = rob[a + 1]
    BY <1>2, <1>3, <2>2 DEF Grown
  <2>4. DataOf(head, q2, lq[k]) = DataOf(head, rob, lq[k])
    BY <2>2, <2>3 DEF DataOf
  <2>5. PICK x : x = DataOf(head, rob, lq[k])
    OBVIOUS
  <2>6. LoadRight(head, lq[k], x, sq, csb, cache)
    BY <2>5 DEF AllRight
  <2>7. PICK K : K = Below(head, sq, a)
    OBVIOUS
  <2>8. Places(K, n)
    BY <1>3, <2>7 DEF Places, Below
  <2>9. Below(head, ss2, a) = K
    <3>1. /\ DOMAIN ss2 = 1..(n + 1) /\ \A i \in 1..n : ss2[i] = sq[i]
      BY <1>2 DEF Grown
    <3>2. n + 1 \notin Below(head, ss2, a)
      BY <1>3, <1>4, <1>5, <2>2 DEF Below
    <3>3. ASSUME NEW i \in 1..n PROVE i \in Below(head, ss2, a) <=> i \in K
      BY <1>3, <2>7, <3>1, <3>3 DEF Below
    <3>4. \A i \in Below(head, ss2, a) : i \in 1..n
      BY <1>3, <3>1, <3>2 DEF Below
    <3>5. \A i \in K : i \in 1..n
      BY <2>8 DEF Places
    <3> QED BY <3>3, <3>4, <3>5
  <2>10. \A b : /\ Youngest(csb, ss2, cache, K, b) = Youngest(csb, sq, cache, K, b)
                /\ NoneOf(sq, K, b) => NoneOf(ss2, K, b)
    BY <1>2, <1>3, <2>8, GrownReads
  <2>11. LoadRight(head, lq[k], x, ss2, csb, cache)
    BY <2>2, <2>6, <2>7, <2>9, <2>10 DEF LoadRight
  <2> QED BY <2>4, <2>5, <2>11
<1> QED BY <1>1, <1>2, <1>6 DEF AllRight

\* Types and order, and every load right.
Right == InOrder /\ AllRight

\* Each step keeps every load right.
LEMMA RightNext ==
  ASSUME ~Overtaken, Right, [Next]_vars
  PROVE Right'
<1>0. TypeOK /\ Placed /\ AllRight /\ Len(rob) \in Nat
  BY TypesOfEntries DEF InOrder, Right
<1>1. Drain \in {0, 1} /\ \A c : LoadLeaves(c) \in {0, 1}
  BY DEF Drain, LoadLeaves
<1>2. InOrder' /\ TypeOK'
  BY InOrderNext DEF Right, InOrder
<1>3. ASSUME NEW fp \in Footprints, DispatchLoad(fp) PROVE AllRight'
  BY <1>0, <1>3, DispatchLoadRight
<1>4. ASSUME NEW fp \in Footprints, NEW v \in Vals, DispatchStore(fp, v) PROVE AllRight'
  BY <1>0, <1>4, DispatchStoreRight
<1>5. ASSUME NEW A \in AddrIssues, NEW D \in DataIssues, NEW offer \in Offers, Issue(A, D, offer)
      PROVE AllRight'
  BY <1>0, <1>2, <1>5, IssueRight
<1>6. ASSUME NEW k \in DOMAIN lq, Respond(k) PROVE AllRight'
  BY <1>0, <1>6, RespondRight
<1>7. ASSUME Ack PROVE AllRight'
  BY <1>0, <1>7, AckRight
<1>8. ASSUME Commit PROVE AllRight'
  <2>1. /\ Cycle(1, 0, LoadLeaves(1), Len(rob)) /\ Unaltered(1, LoadLeaves(1), Len(rob))
        /\ cache' = cache
    BY <1>0, <1>8, CommitTyped
  <2> QED BY <1>0, <1>1, <1>2, <2>1, UnalteredRight
<1>9. ASSUME NEW c \in {0, 1}, FullFlush(c) PROVE AllRight'
  <2>1. /\ Cycle(c, Drain, LoadLeaves(c), c) /\ Unaltered(c, LoadLeaves(c), c)
        /\ cache' = cache /\ c \in Nat
    BY <1>0, <1>9, FullFlushTyped
  <2> QED BY <1>0, <1>1, <1>2, <2>1, UnalteredRight
<1>10. ASSUME NEW cut \in 0..RobDepth, NEW c \in {0, 1}, NEW A \in AddrIssues, NEW D \in DataIssues,
              PartialFlushAt(cut, c, A, D)
       PROVE AllRight'
  <2>1. /\ Cycle(c, Drain, LoadLeaves(c), cut) /\ Unaltered(c, LoadLeaves(c), cut)
        /\ cache' = cache /\ cut \in Nat
    BY <1>0, <1>10, PartialFlushTyped
  <2> QED BY <1>0, <1>1, <1>2, <2>1, UnalteredRight
<1>11. ASSUME UNCHANGED vars PROVE AllRight'
  BY <1>0, <1>11 DEF vars, AllRight
<1>12. AllRight'
  BY <1>3, <1>4, <1>5, <1>6, <1>7, <1>8, <1>9, <1>10, <1>11 DEF Next, Dispatch
<1> QED BY <1>2, <1>12 DEF Right

\* What is left is what the property says.
LEMMA RightIsYoungest ==
  ASSUME Right
  PROVE ForwardsYoungest
<1> SUFFICES ASSUME NEW k \in DOMAIN lq, rob[Place(lq[k])].data # <<>>, NEW b \in lq[k].fp
             PROVE rob[Place(lq[k])].data[b] = Latest(Before(lq[k]), b)
  BY DEF ForwardsYoungest
<1>1. rob[Place(lq[k])].data = DataOf(head, rob, lq[k])
  BY DEF Place, Age, From, DataOf
<1>2. LoadRight(head, lq[k], DataOf(head, rob, lq[k]), sq, csb, cache)
  BY DEF Right, AllRight
<1>3. DataOf(head, rob, lq[k])[b] =
         Youngest(csb, sq, cache, Below(head, sq, From(head, lq[k].tag)), b)
  BY <1>1, <1>2 DEF LoadRight
<1>4. Latest(Before(lq[k]), b) = Youngest(csb, sq, cache, Before(lq[k]), b)
  BY DEF Latest, Youngest
<1> QED BY <1>1, <1>3, <1>4, BeforeIsBelow

\* When no store issues both its halves in one cycle after a younger store to
\* its bytes has its address, a load always has, of every byte, what the
\* youngest older store wrote (ForwardsYoungest): from whichever of the store
\* queue, the committed store buffer, the same cycle's store and the cache it
\* came, and whatever was flushed, drained or acknowledged since.
THEOREM YoungestAlwaysForwarded ==
  ASSUME ~Overtaken
  PROVE Spec => []ForwardsYoungest
<1>1. Init => Right
  <2> SUFFICES ASSUME Init PROVE Right
    OBVIOUS
  <2>1. InOrder /\ DOMAIN lq = {}
    BY InOrderInit DEF Init
  <2> QED BY <2>1 DEF Right, AllRight
<1>2. Right /\ [Next]_vars => Right'
  BY RightNext
<1>3. Right => ForwardsYoungest
  BY RightIsYoungest
<1> QED BY <1>1, <1>2, <1>3, PTL DEF Spec

-----------------------------------------------------------------------------
\* No store below age 0 is in flight.
LEMMA BelowZero ==
  ASSUME NEW h \in Tag, NEW n \in Nat, NEW ss, Tagged(ss, n)
  PROVE {i \in DOMAIN ss : ss[i].committed} = Below(h, ss, 0)
<1>1. \A i \in DOMAIN ss : From(h, ss[i].tag) \in 0..(RobDepth - 1)
  BY FromIs DEF Tagged
<1>2. \A i \in DOMAIN ss : ~(From(h, ss[i].tag) < 0)
  BY <1>1, LoadStoreAssumption
<1> QED BY <1>2 DEF Below

\* Memory as the accesses before age a leave it.
Image(h, ss, cs, m, a) == [b \in Bytes |-> Youngest(cs, ss, m, Below(h, ss, a), b)]

\* Memory as retired stores leave it is that before the oldest access.
LEMMA MemoryIs ==
  ASSUME TypeOK
  PROVE Memory = Image(head, sq, csb, cache, 0)
<1>1. {i \in DOMAIN sq : sq[i].committed} = Below(head, sq, 0)
  <2>1. head \in Tag /\ Len(sq) \in Nat /\ Tagged(sq, Len(sq))
    BY TagsAre, TypesOfEntries DEF TypeOK
  <2> QED BY <2>1, BelowZero
<1> QED BY <1>1 DEF Memory, Image, Latest, Youngest

\* So after a step.
LEMMA MemoryNextIs ==
  ASSUME TypeOK'
  PROVE Memory' = Image(head', sq', csb', cache', 0)
<1>1. PICK h2, ss2 : h2 = head' /\ ss2 = sq'
  OBVIOUS
<1>2. h2 \in Tag /\ ss2 \in Seq(StoreEntry)
  BY <1>1 DEF TypeOK
<1>3. Len(ss2) \in Nat /\ Tagged(ss2, Len(ss2))
  BY <1>2, TagsAre
<1>4. {i \in DOMAIN ss2 : ss2[i].committed} = Below(h2, ss2, 0)
  BY <1>2, <1>3, BelowZero
<1> QED BY <1>1, <1>4 DEF Memory, Image, Latest, Youngest

\* The stores among the first n accesses that write byte b.
StoresTo(n, b) == {i \in 1..n : rob[i].kind = "store" /\ b \in rob[i].fp}

\* The stores that are not committed, and the accesses they are.
LEMMA StoreIsAccess ==
  ASSUME TypeOK, Placed, NEW i \in DOMAIN sq, ~sq[i].committed
  PROVE /\ From(head, sq[i].tag) \in Nat /\ From(head, sq[i].tag) + 1 \in 1..Len(rob)
        /\ rob[From(head, sq[i].tag) + 1].kind = "store"
        /\ rob[From(head, sq[i].tag) + 1].fp = sq[i].fp
<1>1. From(head, sq[i].tag) \in Nat /\ Len(rob) \in Nat
  BY TypesOfEntries, FromIs
<1>2. /\ From(head, sq[i].tag) < Len(rob)
      /\ rob[From(head, sq[i].tag) + 1].kind = "store"
      /\ rob[From(head, sq[i].tag) + 1].fp = sq[i].fp
  BY DEF Placed, StoresPlaced
<1> QED BY <1>1, <1>2

\* Without a store to b among the first n, the stores in memory count.
LEMMA NoneAmongFirst ==
  ASSUME TypeOK, Placed, NEW n \in 0..Len(rob), NEW b, StoresTo(n, b) = {}
  PROVE Youngest(csb, sq, cache, Below(head, sq, n), b) = Youngest(csb, sq, cache, Below(head, sq, 0), b)
<1>1. ASSUME NEW i \in DOMAIN sq, b \in sq[i].fp
      PROVE i \in Below(head, sq, n) <=> i \in Below(head, sq, 0)
  <2>1. CASE sq[i].committed
    BY <2>1 DEF Below
  <2>2. CASE ~sq[i].committed
    <3>1. PICK a \in Nat : a = From(head, sq[i].tag)
      BY <2>2, StoreIsAccess
    <3>2. rob[a + 1].kind = "store" /\ b \in rob[a + 1].fp
      BY <1>1, <2>2, <3>1, StoreIsAccess
    <3>3. a + 1 \notin 1..n
      BY <3>2 DEF StoresTo
    <3>4. ~(a < n) /\ ~(a < 0)
      BY <3>1, <3>3
    <3> QED BY <2>2, <3>1, <3>4 DEF Below
  <2> QED BY <2>1, <2>2
<1>2. Writers(sq, Below(head, sq, n), b) = Writers(sq, Below(head, sq, 0), b)
  BY <1>1 DEF Writers, Below
<1> QED BY <1>2 DEF Youngest

\* The youngest of them wrote what a later access reads.
LEMMA LastAmongFirst ==
  ASSUME TypeOK, Placed, NEW n \in 0..Len(rob), NEW b,
         NEW r \in StoresTo(n, b), \A j \in StoresTo(n, b) : j <= r
  PROVE rob[r].data[b] = Youngest(csb, sq, cache, Below(head, sq, n), b)
<1>1. /\ Len(rob) \in Nat /\ Len(sq) \in Nat /\ DOMAIN sq = 1..Len(sq)
  BY TypesOfEntries
<1>2. r \in 1..n /\ r \in 1..Len(rob) /\ rob[r].kind = "store" /\ b \in rob[r].fp
  BY <1>1 DEF StoresTo
<1>3. PICK i \in DOMAIN sq : ~sq[i].committed /\ From(head, sq[i].tag) + 1 = r
  BY <1>2 DEF Placed, StoresPlaced
<1>4. /\ rob[r].fp = sq[i].fp /\ rob[r].data = [x \in sq[i].fp |-> sq[i].val]
      /\ From(head, sq[i].tag) \in Nat
  BY <1>3, StoreIsAccess DEF Placed, StoresPlaced
<1>5. rob[r].data[b] = sq[i].val /\ b \in sq[i].fp
  BY <1>2, <1>4
<1>6. i \in Below(head, sq, n)
  <2>1. From(head, sq[i].tag) < n
    BY <1>2, <1>3, <1>4
  <2> QED BY <2>1 DEF Below
<1>7. ASSUME NEW j \in Below(head, sq, n), b \in sq[j].fp PROVE j <= i
  <2>1. j \in DOMAIN sq
    BY DEF Below
  <2>2. SUFFICES ASSUME i < j PROVE FALSE
    BY <1>1, <2>1
  <2>3. ~sq[j].committed
    BY <1>3, <2>1, <2>2 DEF Placed, StoresPlaced
  <2>4. From(head, sq[i].tag) < From(head, sq[j].tag)
    BY <1>3, <2>1, <2>2, <2>3 DEF Placed, StoresPlaced
  <2>5. PICK a \in Nat : a = From(head, sq[j].tag)
    BY <2>1, <2>3, StoreIsAccess
  <2>6. a < n
    BY <2>3, <2>5 DEF Below
  <2>7. rob[a + 1].kind = "store" /\ b \in rob[a + 1].fp
    BY <1>7, <2>1, <2>3, <2>5, StoreIsAccess
  <2>8. a + 1 \in StoresTo(n, b)
    BY <2>5, <2>6, <2>7 DEF StoresTo
  <2>9. a + 1 <= r
    BY <2>8
  <2> QED BY <1>3, <1>4, <2>4, <2>5, <2>9
<1>8. IsLast(sq, Below(head, sq, n), b, i)
  BY <1>5, <1>6, <1>7 DEF IsLast
<1>9. Places(Below(head, sq, n), Len(sq))
  BY <1>1 DEF Places, Below
<1>10. Youngest(csb, sq, cache, Below(head, sq, n), b) = sq[i].val
  BY <1>1, <1>8, <1>9, YoungestQueued
<1> QED BY <1>5, <1>10

\* Memory after the first n accesses of the abstract machine.
LEMMA AfterIs ==
  ASSUME TypeOK, Placed, NEW n \in 0..Len(rob)
  PROVE Abstract!After(n) = Image(head, sq, csb, cache, n)
<1> DEFINE last(b) == CHOOSE i \in StoresTo(n, b) : \A j \in StoresTo(n, b) : j <= i
<1>1. Abstract!After(n) =
         [b \in Bytes |-> IF StoresTo(n, b) = {} THEN Memory[b] ELSE rob[last(b)].data[b]]
  BY DEF Abstract!After, StoresTo
<1>2. \A b \in Bytes : Memory[b] = Youngest(csb, sq, cache, Below(head, sq, 0), b)
  BY MemoryIs DEF Image
<1>3. ASSUME NEW b \in Bytes
      PROVE (IF StoresTo(n, b) = {} THEN Memory[b] ELSE rob[last(b)].data[b])
               = Youngest(csb, sq, cache, Below(head, sq, n), b)
  <2>1. CASE StoresTo(n, b) = {}
    BY <1>2, <2>1, NoneAmongFirst
  <2>2. CASE StoresTo(n, b) # {}
    <3>1. n \in Nat /\ StoresTo(n, b) \in SUBSET (1..n)
      BY TypesOfEntries DEF StoresTo
    <3>2. \E i \in StoresTo(n, b) : \A j \in StoresTo(n, b) : j <= i
      BY <2>2, <3>1, MaxIs
    <3>3. last(b) \in StoresTo(n, b) /\ \A j \in StoresTo(n, b) : j <= last(b)
      BY <3>2
    <3> HIDE DEF last
    <3>4. rob[last(b)].data[b] = Youngest(csb, sq, cache, Below(head, sq, n), b)
      BY <3>3, LastAmongFirst
    <3> QED BY <2>2, <3>4
  <2> QED BY <2>1, <2>2
<1> HIDE DEF last
<1> QED BY <1>1, <1>3 DEF Image

-----------------------------------------------------------------------------
\* A cycle takes c accesses into memory.
LEMMA CycleImage ==
  ASSUME TypeOK, Placed, TypeOK', NEW c \in {0, 1}, NEW d \in {0, 1}, NEW e \in {0, 1},
         NEW cut \in Nat, c <= cut, cut <= Len(rob), Cycle(c, d, e, cut), cache' = cache
  PROVE Memory' = Abstract!After(c)
<1>1. PICK h2, ls2, ss2, cs2 : h2 = head' /\ ls2 = lq' /\ ss2 = sq' /\ cs2 = csb'
  OBVIOUS
<1>2. Turn(head, sq, csb, h2, ss2, cs2, c, d, cut)
  BY <1>1, CycleTurns
<1>3. Stays(c, c, cut)
  BY DEF Stays
<1>4. \A b : StillReads(head, sq, csb, h2, ss2, cs2, c, c, cache, b)
  BY <1>2, <1>3, TurnReads
<1>5. c - c = 0
  OBVIOUS
<1>6. \A b : Youngest(cs2, ss2, cache, Below(h2, ss2, 0), b)
                = Youngest(csb, sq, cache, Below(head, sq, c), b)
  BY <1>4, <1>5 DEF StillReads
<1>7. Image(h2, ss2, cs2, cache, 0) = Image(head, sq, csb, cache, c)
  BY <1>6 DEF Image
<1>8. Memory' = Image(h2, ss2, cs2, cache, 0)
  BY <1>1, MemoryNextIs
<1>9. c \in 0..Len(rob)
  BY TypesOfEntries
<1>10. Abstract!After(c) = Image(head, sq, csb, cache, c)
  BY <1>9, AfterIs
<1> QED BY <1>7, <1>8, <1>10

\* An access that leaves does not wait.
LEMMA LeavesAnswered ==
  ASSUME TypeOK, Retirable
  PROVE ~Abstract!Waits(rob[1])
BY RetirableIs DEF Retirable, Abstract!Waits

\* A cycle that answers no load advances the abstract machine.
LEMMA UnalteredAdvances ==
  ASSUME TypeOK, Placed, TypeOK', NEW c \in {0, 1}, NEW d \in {0, 1}, NEW e \in {0, 1},
         NEW cut \in Nat, c <= cut, cut <= Len(rob), Cycle(c, d, e, cut), cache' = cache,
         Unaltered(c, e, cut), c = 1 => Retirable
  PROVE Abstract!Advance(c, cut) /\ Len(rob') = cut - c
<1>1. Memory' = Abstract!After(c)
  BY CycleImage
<1>2. Len(rob') = cut - c
  BY DEF Cycle, RobMoves
<1>3. \A i \in 1..(cut - c) : Abstract!Answered(c + i, rob'[i])
  <2>1. ASSUME NEW i \in 1..(cut - c) PROVE rob'[i] = rob[c + i]
    <3>1. rob'[i] = rob[i + c] /\ i + c = c + i
      BY DEF Unaltered
    <3> QED BY <3>1
  <2> QED BY <2>1 DEF Abstract!Answered
<1>4. \A i \in 1..c : ~Abstract!Waits(rob[i])
  <2>1. CASE c = 0
    BY <2>1
  <2>2. CASE c = 1
    <3>1. \A i \in 1..c : i = 1
      BY <2>2
    <3> QED BY <2>2, <3>1, LeavesAnswered
  <2> QED BY <2>1, <2>2
<1>5. PICK n : n = Len(rob')
  OBVIOUS
<1>6. n >= cut - c /\ \A i \in (cut - c + 1)..n : Abstract!Fresh(rob'[i])
  <2>1. (cut - c + 1)..n = {}
    BY <1>2, <1>5
  <2> QED BY <1>2, <1>5, <2>1
<1>7. c \in 0..cut
  OBVIOUS
<1> QED BY <1>1, <1>2, <1>3, <1>4, <1>5, <1>6, <1>7 DEF Abstract!Advance

\* A cycle that only answers loads, each with what it should read, is a step
\* of the abstract machine.
LEMMA AnswersStep ==
  ASSUME TypeOK, Placed, TypeOK', NEW d \in {0, 1}, Cycle(0, d, 0, Len(rob)), cache' = cache,
         \A r \in 1..Len(rob) : Abstract!Answered(r, rob'[r])
  PROVE Abstract!Step
<1>1. Len(rob) \in Nat
  BY TypesOfEntries
<1>2. Memory' = Abstract!After(0)
  BY <1>1, CycleImage
<1>3. Len(rob') = Len(rob) - 0
  BY DEF Cycle, RobMoves
<1>4. PICK n, n2 : n = Len(rob) /\ n2 = Len(rob')
  OBVIOUS
<1>5. /\ n2 >= n - 0 /\ 0 \in 0..n /\ n <= n /\ 1..0 = {} /\ (n - 0 + 1)..n2 = {}
      /\ n - 0 = n
  BY <1>1, <1>3, <1>4
<1>6. \A i \in 1..(n - 0) : Abstract!Answered(0 + i, rob'[i])
  <2>1. \A i \in 1..n : 0 + i = i
    BY <1>1, <1>4
  <2> QED BY <1>4, <1>5, <2>1
<1>7. Abstract!Advance(0, n)
  BY <1>2, <1>4, <1>5, <1>6 DEF Abstract!Advance
<1> QED BY <1>4, <1>7 DEF Abstract!Step

\* An access that differs from another only in its data.
LEMMA WithData ==
  ASSUME NEW x, NEW y, NEW S, NEW T, x \in [kind : {"load", "store"}, fp : S, data : T],
         y \in [kind : {"load", "store"}, fp : S, data : T], y.kind = x.kind, y.fp = x.fp
  PROVE y = [x EXCEPT !.data = y.data]
OBVIOUS

\* A load that waited and has x now was answered as the abstract machine does.
LEMMA AnsweredIs ==
  ASSUME TypeOK, Placed, TypeOK', NEW r \in 1..Len(rob), Len(rob') = Len(rob),
         rob'[r].kind = rob[r].kind, rob'[r].fp = rob[r].fp,
         \/ rob'[r].data = rob[r].data
         \/ /\ rob[r].kind = "load" /\ rob[r].data = <<>>
            /\ rob'[r].data \in [rob[r].fp -> Vals]
            /\ \A b \in rob[r].fp :
                  rob'[r].data[b] = Youngest(csb, sq, cache, Below(head, sq, r - 1), b)
  PROVE Abstract!Answered(r, rob'[r])
<1>1. Len(rob) \in Nat /\ rob \in Seq(Access) /\ rob' \in Seq(Access)
  BY TypesOfEntries DEF TypeOK
<1>2. Access = [kind : {"load", "store"}, fp : Footprints, data : Datum]
  BY DEF Access, Datum
<1>3. PICK x, y : x = rob[r] /\ y = rob'[r]
  OBVIOUS
<1>4. x \in Access /\ y \in Access
  BY <1>1, <1>3
<1>5. y.kind = x.kind /\ y.fp = x.fp
  BY <1>3
<1>6. y = [x EXCEPT !.data = y.data] /\ x = [x EXCEPT !.data = x.data]
  <2>1. /\ x \in [kind : {"load", "store"}, fp : Footprints, data : Datum]
        /\ y \in [kind : {"load", "store"}, fp : Footprints, data : Datum]
    BY <1>2, <1>4
  <2> QED BY <1>5, <2>1, WithData
<1>7. CASE y.data = x.data
  BY <1>3, <1>6, <1>7 DEF Abstract!Answered
<1>8. CASE /\ x.kind = "load" /\ x.data = <<>> /\ y.data \in [x.fp -> Vals]
           /\ \A b \in x.fp : y.data[b] = Youngest(csb, sq, cache, Below(head, sq, r - 1), b)
  <2>1. Abstract!After(r - 1) = Image(head, sq, csb, cache, r - 1)
    <3>1. r - 1 \in 0..Len(rob)
      BY <1>1
    <3> QED BY <3>1, AfterIs
  <2>2. x.fp \subseteq Bytes
    BY <1>3, TypesOfEntries, LoadStoreAssumption
  <2>3. \A b \in x.fp : Abstract!After(r - 1)[b]
                           = Youngest(csb, sq, cache, Below(head, sq, r - 1), b)
    BY <2>1, <2>2 DEF Image
  <2>4. y.data = [b \in x.fp |-> Abstract!After(r - 1)[b]]
    BY <1>8, <2>3
  <2>5. y = [x EXCEPT !.data = [b \in x.fp |-> Abstract!After(r - 1)[b]]]
    BY <1>6, <2>4
  <2> QED BY <1>3, <1>8, <2>5 DEF Abstract!Answered, Abstract!Waits
<1> QED BY <1>3, <1>7, <1>8

\* The cache's answer is a step of the abstract machine.
LEMMA RespondStep ==
  ASSUME TypeOK, Placed, AllRight, AllRight', NEW k \in DOMAIN lq, Respond(k)
  PROVE Abstract!Step
<1>1. /\ TypeOK' /\ Cycle(0, 0, 0, Len(rob)) /\ Len(rob) \in Nat
      /\ cache' = cache /\ head' = head /\ lq' = lq /\ sq' = sq /\ csb' = csb
      /\ \A r \in 1..Len(rob) : IF r = From(head, lq[k].tag) + 1
                                THEN rob'[r].data = [b \in lq[k].fp |-> cache[b]]
                                ELSE rob'[r].data = rob[r].data
  BY RespondTyped, TypesOfEntries DEF Respond
<1>2. Len(rob') = Len(rob) /\ \A r \in 1..Len(rob) :
                                 rob'[r].kind = rob[r].kind /\ rob'[r].fp = rob[r].fp
  <2>1. RobMoves(head, rob, head', rob', 0, Len(rob))
    BY <1>1 DEF Cycle
  <2> QED BY <1>1, <2>1 DEF RobMoves
<1>3. ASSUME NEW r \in 1..Len(rob) PROVE Abstract!Answered(r, rob'[r])
  <2>1. CASE r # From(head, lq[k].tag) + 1
    <3>1. rob'[r].data = rob[r].data
      BY <1>1, <2>1
    <3> QED BY <1>1, <1>2, <3>1, AnsweredIs
  <2>2. CASE r = From(head, lq[k].tag) + 1
    <3>1. PICK a \in Nat : a = From(head, lq[k].tag)
      BY TypesOfEntries, FromIs
    <3>2. r - 1 = a /\ r = a + 1
      BY <2>2, <3>1
    <3>3. rob[r].kind = "load" /\ rob[r].fp = lq[k].fp
      BY <3>1, <3>2 DEF Placed, LoadsPlaced
    <3>4. rob[r].data = <<>>
      BY <2>2 DEF Respond, Place, Age, From
    <3>5. PICK x : x = rob'[r].data
      OBVIOUS
    <3>6. x = [b \in lq[k].fp |-> cache[b]]
      BY <1>1, <2>2, <3>5
    <3>7. lq[k].fp \in Footprints /\ lq[k].fp # {} /\ lq[k].fp \subseteq Bytes /\ cache \in [Bytes -> Vals]
      BY TypesOfEntries, LoadStoreAssumption DEF TypeOK
    <3>8. x \in [lq[k].fp -> Vals] /\ x # <<>>
      <4>1. x \in [lq[k].fp -> Vals]
        BY <3>6, <3>7
      <4>2. DOMAIN x # {}
        BY <3>6, <3>7
      <4> QED BY <4>1, <4>2
    <3>9. LoadRight(head, lq[k], x, sq, csb, cache)
      <4>1. k \in DOMAIN lq' /\ DataOf(head', rob', lq'[k]) = x /\ lq'[k] = lq[k]
        BY <1>1, <3>1, <3>2, <3>5 DEF DataOf
      <4>2. LoadRight(head', lq'[k], DataOf(head', rob', lq'[k]), sq', csb', cache')
        BY <4>1 DEF AllRight
      <4> QED BY <1>1, <4>1, <4>2
    <3>10. \A b \in lq[k].fp : x[b] = Youngest(csb, sq, cache, Below(head, sq, r - 1), b)
      BY <3>1, <3>2, <3>8, <3>9 DEF LoadRight
    <3> QED BY <1>1, <1>2, <3>3, <3>4, <3>5, <3>8, <3>10, AnsweredIs
  <2> QED BY <2>1, <2>2
<1> QED BY <1>1, <1>3, AnswersStep

\* So is the issue of loads and halves of stores.
LEMMA IssueStep ==
  ASSUME TypeOK, Placed, AllRight, ~Overtaken,
         NEW A \in AddrIssues, NEW D, NEW offer \in Offers, Issue(A, D, offer)
  PROVE Abstract!Step
<1>1. /\ TypeOK' /\ Cycle(0, Drain, 0, Len(rob)) /\ Drain \in {0, 1} /\ Len(rob) \in Nat
      /\ cache' = cache /\ \A i \in A \cap D : ~IsOvertaken(i)
  BY IssueTyped, IssueMoves, IssueIs, TypesOfEntries DEF Drain
<1>2. /\ Len(rob') = Len(rob)
      /\ \A r \in 1..Len(rob) :
            /\ rob'[r].kind = rob[r].kind /\ rob'[r].fp = rob[r].fp
            /\ \/ rob'[r].data = rob[r].data /\ Answers(A, D, offer, r) = {}
               \/ \E p \in Answers(A, D, offer, r) : rob'[r].data = Answer(A, D, offer, p)
  BY IssuedRob
<1>3. ASSUME NEW r \in 1..Len(rob) PROVE Abstract!Answered(r, rob'[r])
  <2>1. CASE rob'[r].data = rob[r].data
    BY <1>1, <1>2, <2>1, AnsweredIs
  <2>2. ASSUME NEW p \in Answers(A, D, offer, r), rob'[r].data = Answer(A, D, offer, p)
        PROVE Abstract!Answered(r, rob'[r])
    <3>1. /\ p \in DOMAIN offer /\ Place(lq[offer[p]]) = r
          /\ ~Suppressed(p - 1, A, D, Filled(A, D), lq[offer[p]])
      BY <2>2 DEF Answers, Accepted
    <3>2. PICK k \in DOMAIN lq : k = offer[p] /\ ~lq[k].executed
      BY <3>1, OfferIs
    <3>3. PICK a \in Nat : a = From(head, lq[k].tag)
      BY TypesOfEntries, FromIs
    <3>4. r = a + 1 /\ r - 1 = a
      BY <3>1, <3>2, <3>3 DEF Place, Age, From
    <3>5. rob[r].kind = "load" /\ rob[r].fp = lq[k].fp /\ lq[k].fp \in Footprints
      BY <3>3, <3>4, TypesOfEntries DEF Placed, LoadsPlaced
    <3>6. rob[r].data = <<>>
      <4>1. DataOf(head, rob, lq[k]) = rob[r].data
        BY <3>3, <3>4 DEF DataOf
      <4>2. LoadRight(head, lq[k], rob[r].data, sq, csb, cache)
        BY <4>1 DEF AllRight
      <4> QED BY <3>2, <4>2 DEF LoadRight
    <3>7. PICK x : x = rob'[r].data
      OBVIOUS
    <3>8. x = ForwardedData(p - 1, A, D, Filled(A, D), lq[k])
      BY <2>2, <3>2, <3>7 DEF Answer
    <3>9. CASE x = <<>>
      BY <1>1, <1>2, <3>6, <3>7, <3>9, AnsweredIs
    <3>10. CASE x # <<>>
      <4>1. x \in [lq[k].fp -> Vals]
        BY <3>8, <3>10, ForwardedTyped
      <4>2. \A b \in lq[k].fp : x[b] = Youngest(csb, sq, cache, Before(lq[k]), b)
        BY <1>1, <3>1, <3>2, <3>5, <3>8, <3>10, AnswerRight
      <4>3. Before(lq[k]) = Below(head, sq, r - 1)
        BY <3>3, <3>4, BeforeIsBelow
      <4> QED BY <1>1, <1>2, <3>5, <3>6, <3>7, <4>1, <4>2, <4>3, AnsweredIs
    <3> QED BY <3>9, <3>10
  <2> QED BY <1>2, <2>1, <2>2
<1> QED BY <1>1, <1>3, AnswersStep

\* The cache takes a store without a trace in memory.
LEMMA AckStutters ==
  ASSUME TypeOK, Ack
  PROVE rob' = rob /\ Memory' = Memory
<1>1. PICK cs2, m2, n : cs2 = csb' /\ m2 = cache' /\ n = Len(csb)
  OBVIOUS
<1>2. /\ n \in Nat /\ n >= 1 /\ RestOf(cs2, csb, n) /\ TypeOK'
      /\ \A b \in Bytes : WrittenTo(cache, csb[1], b, m2)
      /\ head' = head /\ rob' = rob /\ sq' = sq
  BY <1>1, AckTyped
<1>3. Listed(csb, n) /\ Places(Below(head, sq, 0), Len(sq)) /\ Len(sq) \in Nat
  BY <1>1, TypesOfEntries DEF Listed, Places, Below
<1>4. ASSUME NEW b \in Bytes
      PROVE Youngest(cs2, sq, m2, Below(head, sq, 0), b) = Youngest(csb, sq, cache, Below(head, sq, 0), b)
  <2>1. PICK c, s, m, l, K : c = csb /\ s = sq /\ m = cache /\ l = Len(sq) /\ K = Below(head, sq, 0)
    OBVIOUS
  <2>2. /\ n \in Nat /\ n >= 1 /\ l \in Nat /\ Places(K, l) /\ Listed(c, n)
        /\ RestOf(cs2, c, n) /\ WrittenTo(m, c[1], b, m2)
    BY <1>2, <1>3, <2>1
  <2>3. Youngest(cs2, s, m2, K, b) = Youngest(c, s, m, K, b)
    BY <2>2, YoungestAcked
  <2> QED BY <2>1, <2>3
<1>5. Image(head, sq, cs2, m2, 0) = Image(head, sq, csb, cache, 0)
  BY <1>4 DEF Image
<1> QED BY <1>1, <1>2, <1>5, MemoryIs, MemoryNextIs

\* An access enters.
LEMMA EntersStep ==
  ASSUME TypeOK, Placed, Memory' = Memory, Len(rob') = Len(rob) + 1, Grown(rob, rob', Len(rob)),
         Abstract!Fresh(rob'[Len(rob) + 1])
  PROVE Abstract!Step
<1>1. PICK n : n = Len(rob)
  OBVIOUS
<1>2. n \in Nat /\ Len(rob') = n + 1 /\ \A i \in 1..n : rob'[i] = rob[i]
  BY <1>1, TypesOfEntries DEF Grown
<1>3. Memory' = Abstract!After(0)
  <2>1. 0 \in 0..Len(rob)
    BY <1>1, <1>2
  <2> QED BY <2>1, AfterIs, MemoryIs
<1>4. \A i \in 1..(n - 0) : Abstract!Answered(0 + i, rob'[i])
  <2>1. n - 0 = n /\ \A i \in 1..n : 0 + i = i
    BY <1>2
  <2> QED BY <1>2, <2>1 DEF Abstract!Answered
<1>5. \A i \in (n - 0 + 1)..Len(rob') : Abstract!Fresh(rob'[i])
  <2>1. (n - 0 + 1)..(n + 1) = {n + 1}
    BY <1>2
  <2> QED BY <1>1, <1>2, <2>1
<1>6. 0 \in 0..n /\ n <= n /\ 1..0 = {} /\ n + 1 >= n - 0
  BY <1>2
<1>7. Abstract!Advance(0, n)
  BY <1>1, <1>2, <1>3, <1>4, <1>5, <1>6 DEF Abstract!Advance
<1> QED BY <1>1, <1>7 DEF Abstract!Step

\* A load enters.
LEMMA DispatchLoadStep ==
  ASSUME TypeOK, Placed, NEW fp \in Footprints, DispatchLoad(fp)
  PROVE Abstract!Step
<1>1. /\ head' = head /\ sq' = sq /\ csb' = csb /\ cache' = cache
      /\ Len(rob') = Len(rob) + 1 /\ Grown(rob, rob', Len(rob))
      /\ rob'[Len(rob) + 1] = [kind |-> "load", fp |-> fp, data |-> <<>>]
  BY DispatchLoadTyped
<1>2. Memory' = Memory
  BY <1>1 DEF Memory, Latest
<1>3. Abstract!Fresh(rob'[Len(rob) + 1])
  BY <1>1 DEF Abstract!Fresh, Abstract!Waits
<1> QED BY <1>1, <1>2, <1>3, EntersStep

\* A store enters.
LEMMA DispatchStoreStep ==
  ASSUME TypeOK, Placed, NEW fp \in Footprints, NEW v \in Vals, DispatchStore(fp, v)
  PROVE Abstract!Step
<1>1. /\ TypeOK' /\ head' = head /\ csb' = csb /\ cache' = cache
      /\ Len(rob') = Len(rob) + 1 /\ Grown(rob, rob', Len(rob))
      /\ rob'[Len(rob) + 1] = [kind |-> "store", fp |-> fp, data |-> [b \in fp |-> v]]
      /\ Grown(sq, sq', Len(sq))
      /\ sq'[Len(sq) + 1] = [tag |-> NextTag, fp |-> fp, val |-> v, addr |-> FALSE,
                             data |-> FALSE, committed |-> FALSE]
  BY DispatchStoreTyped
<1>2. Memory' = Memory
  <2>1. PICK ss2, n, nc : ss2 = sq' /\ n = Len(sq) /\ nc = Len(csb)
    OBVIOUS
  <2>2. /\ n \in Nat /\ nc \in Nat /\ DOMAIN sq = 1..n /\ Listed(csb, nc)
        /\ Grown(sq, ss2, n) /\ ~ss2[n + 1].committed
    BY <1>1, <2>1, TypesOfEntries DEF Listed
  <2>3. PICK K : K = {i \in DOMAIN sq : sq[i].committed}
    OBVIOUS
  <2>4. Places(K, n)
    BY <2>2, <2>3 DEF Places
  <2>5. {i \in DOMAIN ss2 : ss2[i].committed} = K
    <3>1. DOMAIN ss2 = 1..(n + 1) /\ \A i \in 1..n : ss2[i] = sq[i]
      BY <2>2 DEF Grown
    <3>2. \A i \in 1..(n + 1) : i \in 1..n \/ i = n + 1
      BY <2>2
    <3>3. \A i \in 1..n : i \in 1..(n + 1)
      BY <2>2
    <3> QED BY <2>2, <2>3, <3>1, <3>2, <3>3
  <2>6. \A b : Youngest(csb, ss2, cache, K, b) = Youngest(csb, sq, cache, K, b)
    BY <2>2, <2>4, GrownReads
  <2>7. Memory = [b \in Bytes |-> Youngest(csb, sq, cache, K, b)]
    BY <2>3 DEF Memory, Latest, Youngest
  <2>8. Memory' = [b \in Bytes |-> Youngest(csb, ss2, cache, K, b)]
    BY <1>1, <2>1, <2>5 DEF Memory, Latest, Youngest
  <2> QED BY <2>6, <2>7, <2>8
<1>3. Abstract!Fresh(rob'[Len(rob) + 1])
  <2>1. [b \in fp |-> v] \in [fp -> Vals]
    OBVIOUS
  <2> QED BY <1>1, <2>1 DEF Abstract!Fresh, Abstract!Data
<1> QED BY <1>1, <1>2, <1>3, EntersStep

-----------------------------------------------------------------------------
\* At the start, the queues are empty and memory has a value in every byte.
LEMMA MemoryInit ==
  ASSUME Init
  PROVE Abstract!Init
<1>1. TypeOK /\ rob = <<>> /\ sq = <<>> /\ csb = <<>>
  BY InOrderInit DEF Init, InOrder
<1>2. cache \in [Bytes -> Vals] /\ DOMAIN csb = {} /\ DOMAIN sq = {}
  BY <1>1 DEF TypeOK
<1>3. \A b : Youngest(csb, sq, cache, Below(head, sq, 0), b) = cache[b]
  <2>1. Below(head, sq, 0) = {}
    BY <1>2 DEF Below
  <2> QED BY <1>2, <2>1 DEF Youngest, Writers
<1>4. Memory \in [Bytes -> Vals]
  BY <1>1, <1>2, <1>3, MemoryIs DEF Image
<1> QED BY <1>1, <1>4 DEF Abstract!Init, Abstract!Data

\* Each step is one of the abstract machine or leaves it alone.
LEMMA MemoryNext ==
  ASSUME ~Overtaken, Right, Right', [Next]_vars
  PROVE [Abstract!Next]_<<rob, Memory>>
<1>0. TypeOK /\ Placed /\ AllRight /\ TypeOK' /\ AllRight' /\ Len(rob) \in Nat
  BY TypesOfEntries DEF InOrder, Right
<1>1. Drain \in {0, 1} /\ \A c : LoadLeaves(c) \in {0, 1}
  BY DEF Drain, LoadLeaves
<1>2. Abstract!Step => [Abstract!Next]_<<rob, Memory>>
  BY DEF Abstract!Next
<1>3. ASSUME NEW fp \in Footprints, DispatchLoad(fp) PROVE Abstract!Step
  BY <1>0, <1>3, DispatchLoadStep
<1>4. ASSUME NEW fp \in Footprints, NEW v \in Vals, DispatchStore(fp, v) PROVE Abstract!Step
  BY <1>0, <1>4, DispatchStoreStep
<1>5. ASSUME NEW A \in AddrIssues, NEW D \in DataIssues, NEW offer \in Offers, Issue(A, D, offer)
      PROVE Abstract!Step
  BY <1>0, <1>5, IssueStep
<1>6. ASSUME NEW k \in DOMAIN lq, Respond(k) PROVE Abstract!Step
  BY <1>0, <1>6, RespondStep
<1>7. ASSUME Ack PROVE rob' = rob /\ Memory' = Memory
  BY <1>0, <1>7, AckStutters
<1>8. ASSUME Commit PROVE Abstract!Step
  <2>1. /\ Cycle(1, 0, LoadLeaves(1), Len(rob)) /\ Unaltered(1, LoadLeaves(1), Len(rob))
        /\ cache' = cache
    BY <1>0, <1>8, CommitTyped
  <2>2. Retirable /\ 1 <= Len(rob)
    BY <1>0, <1>8, RetirableIs DEF Commit
  <2>3. Abstract!Advance(1, Len(rob))
    BY <1>0, <1>1, <2>1, <2>2, UnalteredAdvances
  <2> QED BY <2>3 DEF Abstract!Step
<1>9. ASSUME NEW c \in {0, 1}, FullFlush(c) PROVE Abstract!Flush
  <2>1. /\ Cycle(c, Drain, LoadLeaves(c), c) /\ Unaltered(c, LoadLeaves(c), c)
        /\ cache' = cache /\ c \in Nat /\ c <= c
    BY <1>0, <1>9, FullFlushTyped
  <2>2. c = 1 => Retirable
    BY <1>9 DEF FullFlush
  <2>3. c <= Len(rob)
    BY <1>0, <2>2, RetirableIs
  <2>4. Abstract!Advance(c, c) /\ Len(rob') = c - c
    BY <1>0, <1>1, <2>1, <2>2, <2>3, UnalteredAdvances
  <2>5. c \in c..Len(rob)
    BY <1>0, <2>3
  <2> QED BY <2>4, <2>5 DEF Abstract!Flush
<1>10. ASSUME NEW cut \in 0..RobDepth, NEW c \in {0, 1}, NEW A \in AddrIssues, NEW D \in DataIssues,
              PartialFlushAt(cut, c, A, D)
       PROVE Abstract!Flush
  <2>1. /\ Cycle(c, Drain, LoadLeaves(c), cut) /\ Unaltered(c, LoadLeaves(c), cut)
        /\ cache' = cache
    BY <1>0, <1>10, PartialFlushTyped
  <2>2. (c = 1 => Retirable) /\ cut \in c..(Len(rob) - 1)
    BY <1>10 DEF PartialFlushAt
  <2>3. cut \in Nat /\ c <= cut /\ cut <= Len(rob) /\ cut \in c..Len(rob)
    BY <1>0, <2>2
  <2>4. Abstract!Advance(c, cut) /\ Len(rob') = cut - c
    BY <1>0, <1>1, <2>1, <2>2, <2>3, UnalteredAdvances
  <2> QED BY <2>3, <2>4 DEF Abstract!Flush
<1>11. ASSUME UNCHANGED vars PROVE rob' = rob /\ Memory' = Memory
  BY <1>11 DEF vars, Memory, Latest
<1>12. Abstract!Step \/ Abstract!Flush \/ (rob' = rob /\ Memory' = Memory)
  BY <1>3, <1>4, <1>5, <1>6, <1>7, <1>8, <1>9, <1>10, <1>11 DEF Next, Dispatch
<1> QED BY <1>12 DEF Abstract!Next

\* Loads and stores apply to one memory in program order (IsMemory), under the
\* same condition: no store that has committed is lost, applied twice or out of
\* order by a flush, a drain or an acknowledgement, and what a load is given is
\* what the accesses before it leave in that memory.
THEOREM LoadsAndStoresAreMemory ==
  ASSUME ~Overtaken
  PROVE Spec => IsMemory
<1>1. Init => Right
  <2> SUFFICES ASSUME Init PROVE Right
    OBVIOUS
  <2>1. InOrder /\ DOMAIN lq = {}
    BY InOrderInit DEF Init
  <2> QED BY <2>1 DEF Right, AllRight
<1>2. Right /\ [Next]_vars => Right'
  BY RightNext
<1>3. Init => Abstract!Init
  BY MemoryInit
<1>4. Right /\ Right' /\ [Next]_vars => [Abstract!Next]_<<rob, Memory>>
  BY MemoryNext
<1> QED BY <1>1, <1>2, <1>3, <1>4, PTL DEF Spec, IsMemory, Abstract!Spec
=============================================================================
