------------------------- MODULE RenameGroup_proofs -------------------------
(***************************************************************************)
(* Theorems about the entrance of rename: whatever the resources of a      *)
(* cycle let through, the instructions come out once and in order.         *)
(***************************************************************************)
EXTENDS RenameGroup, Extremes_proofs, SequenceTheorems

\* What is left of a group once n of it have advanced.
LEMMA RestShape ==
  ASSUME NEW w \in Seq(Insn), NEW n \in 0..Len(w)
  PROVE /\ Rest(w, n) \in Seq(Insn) /\ Len(Rest(w, n)) = Len(w) - n
        /\ \A i \in 1..(Len(w) - n) : Rest(w, n)[i] = w[n + i]
<1>1. Len(w) \in Nat /\ \A i \in (n + 1)..Len(w) : w[i] \in Insn
  BY ElementOfSeq, LenProperties
<1> DEFINE r == SubSeq(w, n + 1, Len(w))
<1>2. /\ r \in Seq(Insn)
      /\ Len(r) = IF n + 1 <= Len(w) THEN Len(w) - (n + 1) + 1 ELSE 0
      /\ \A i \in 1..(Len(w) - (n + 1) + 1) : r[i] = w[(n + 1) + i - 1]
  BY <1>1, SubSeqProperties
<1> HIDE DEF r
<1>3. /\ r \in Seq(Insn) /\ Len(r) = Len(w) - n
      /\ \A i \in 1..(Len(w) - n) : r[i] = w[n + i]
  BY <1>1, <1>2
<1> QED BY <1>3 DEF r, Rest

\* The empty prefix of a group always fits, so there is a longest that does,
\* and a cycle renames no more than it has.
LEMMA CutsBound ==
  ASSUME NEW n \in Cuts, Work \in Seq(Insn)
  PROVE n \in 0..Len(Work)
<1>1. PICK avail \in Avail, width \in Widths : n = Advances(Work, avail, width)
  BY DEF Cuts
<1> DEFINE F(m) == Fits(Work, m, avail, width)
           S == {k \in 1..(Len(Work) + 1) : F(k - 1)}
<1>2. Len(Work) \in Nat /\ width \in Nat
  BY LenProperties, RenameGroupAssumption DEF Widths
<1>3. F(0)
  BY <1>2 DEF Fits
<1>4. S \in SUBSET (1..(Len(Work) + 1)) /\ 1 \in S /\ Len(Work) + 1 \in Nat
  <2> HIDE DEF F
  <2> QED BY <1>2, <1>3
<1>5. PICK k \in S : \A j \in S : j <= k
  <2> HIDE DEF S
  <2> QED BY <1>4, MaxExists
<1> HIDE DEF F
<1>6. k - 1 \in 0..Len(Work) /\ F(k - 1)
  BY <1>2, <1>5
<1>7. ASSUME NEW m \in 0..Len(Work), F(m) PROVE m <= k - 1
  <2>1. m + 1 \in 1..(Len(Work) + 1) /\ (m + 1) - 1 = m
    BY <1>2
  <2>2. m + 1 \in S
    BY <1>7, <2>1
  <2>3. m + 1 <= k
    BY <1>5, <2>2
  <2>4. m \in Int /\ k \in Int
    BY <1>2, <1>5
  <2> QED BY <2>3, <2>4
<1>8. \E a \in 0..Len(Work) : F(a) /\ \A m \in 0..Len(Work) : F(m) => m <= a
  BY <1>6, <1>7
<1> QED BY <1>1, <1>8 DEF Advances, F

\* A fresh packet is numbered on from what was fetched before it.
LEMMA NumberedShape ==
  ASSUME TypeOK, NEW p \in Packets, fetched + Len(p) <= MaxFetched
  PROVE /\ Len(p) \in 0..PipeWidth /\ fetched + Len(p) \in 0..MaxFetched
        /\ Numbered(p) \in Seq(Insn) /\ Len(Numbered(p)) = Len(p)
        /\ \A i \in 1..Len(p) : /\ Numbered(p)[i].pos = fetched + i
                                /\ Numbered(p)[i].ahead = quarantine
<1>1. PICK n \in 0..PipeWidth : p \in [1..n -> Kinds]
  BY DEF Packets
<1>2. n \in Nat /\ Len(p) = n /\ DOMAIN p = 1..n /\ \A i \in 1..n : p[i] \in Kinds
  BY <1>1, RenameGroupAssumption
<1>3. fetched \in Nat /\ quarantine \in BOOLEAN /\ MaxFetched \in Nat
  BY RenameGroupAssumption DEF TypeOK
<1> DEFINE e(i) == [pos |-> fetched + i, needs |-> p[i], ahead |-> quarantine]
           s == [i \in 1..n |-> e(i)]
<1>4. ASSUME NEW i \in 1..n PROVE e(i) \in Insn
  BY <1>2, <1>3 DEF Insn
<1>5. Numbered(p) = s
  BY <1>2 DEF Numbered
<1>6. s \in Seq(Insn) /\ Len(s) = n /\ \A i \in 1..n : s[i] = e(i)
  <2> HIDE DEF e
  <2> QED BY <1>2, <1>4
<1>7. \A i \in 1..n : e(i).pos = fetched + i /\ e(i).ahead = quarantine
  OBVIOUS
<1> HIDE DEF s, e
<1> QED BY <1>1, <1>2, <1>3, <1>5, <1>6, <1>7

\* What rename looks at is a group of at most PipeWidth instructions.
LEMMA WorkShape ==
  ASSUME TypeOK
  PROVE Work \in Seq(Insn) /\ Len(Work) <= PipeWidth
<1>1. <<>> \in Seq(Insn) /\ Len(<<>>) = 0 /\ PipeWidth \in Nat
  BY EmptySeq, RenameGroupAssumption
<1> QED BY <1>1 DEF Work, TypeOK

(***************************************************************************)
(* InOrderOnce speaks of what is pending as one sequence.  A step moves    *)
(* the decode register and the holding register apart, so the proof says   *)
(* the same of the two.                                                    *)
(***************************************************************************)
Continues(s, n) == \A i \in 1..Len(s) : s[i].pos = n + i /\ ~s[i].ahead

PartsInOrder ==
    /\ Continues(hold, renamed)
    /\ ~quarantine => /\ Continues(dec, renamed + Len(hold))
                      /\ renamed + Len(hold) + Len(dec) = fetched

\* What is left of a group continues what advanced.
LEMMA RestContinues ==
  ASSUME NEW w \in Seq(Insn), NEW n \in 0..Len(w), NEW m \in Nat, Continues(w, m)
  PROVE Continues(Rest(w, n), m + n)
<1>1. Len(w) \in Nat
  BY LenProperties
<1>2. ASSUME NEW i \in 1..(Len(w) - n)
      PROVE w[n + i].pos = (m + n) + i /\ ~w[n + i].ahead
  <2>1. n + i \in 1..Len(w)
    BY <1>1
  <2>2. w[n + i].pos = m + (n + i) /\ ~w[n + i].ahead
    BY <2>1 DEF Continues
  <2> QED BY <1>1, <2>2
<1> DEFINE r == Rest(w, n)
<1>3. Len(r) = Len(w) - n /\ \A i \in 1..(Len(w) - n) : r[i] = w[n + i]
  BY RestShape
<1> HIDE DEF r
<1>4. Continues(r, m + n)
  BY <1>2, <1>3 DEF Continues
<1> QED BY <1>4 DEF r

\* Two sequences in a row continue a number when the first does and the
\* second continues where it ends.
LEMMA ConcatContinues ==
  ASSUME NEW u \in Seq(Insn), NEW v \in Seq(Insn), NEW m \in Nat
  PROVE Continues(u \o v, m) <=> Continues(u, m) /\ Continues(v, m + Len(u))
<1> DEFINE w == u \o v
<1>1. /\ Len(w) = Len(u) + Len(v) /\ Len(u) \in Nat /\ Len(v) \in Nat
      /\ \A i \in 1..Len(u) : i \in 1..Len(w) /\ w[i] = u[i]
      /\ \A i \in 1..Len(v) : Len(u) + i \in 1..Len(w) /\ w[Len(u) + i] = v[i]
  OBVIOUS
<1> HIDE DEF w
<1>2. ASSUME Continues(w, m) PROVE Continues(u, m) /\ Continues(v, m + Len(u))
  <2>1. Continues(u, m)
    BY <1>1, <1>2 DEF Continues
  <2>2. ASSUME NEW i \in 1..Len(v) PROVE v[i].pos = (m + Len(u)) + i /\ ~v[i].ahead
    <3>1. w[Len(u) + i].pos = m + (Len(u) + i) /\ ~w[Len(u) + i].ahead
      BY <1>1, <1>2 DEF Continues
    <3>2. w[Len(u) + i] = v[i] /\ m + (Len(u) + i) = (m + Len(u)) + i
      BY <1>1
    <3> QED BY <3>1, <3>2
  <2> QED BY <2>1, <2>2 DEF Continues
<1>3. ASSUME Continues(u, m), Continues(v, m + Len(u)) PROVE Continues(w, m)
  <2>1. ASSUME NEW i \in 1..Len(w) PROVE w[i].pos = m + i /\ ~w[i].ahead
    <3>1. CASE i <= Len(u)
      <4>1. i \in 1..Len(u)
        BY <1>1, <3>1
      <4> QED BY <1>1, <1>3, <4>1 DEF Continues
    <3>2. CASE i > Len(u)
      <4> DEFINE k == i - Len(u)
      <4>1. k \in 1..Len(v) /\ i = Len(u) + k
        BY <1>1, <3>2
      <4> HIDE DEF k
      <4>2. v[k].pos = (m + Len(u)) + k /\ ~v[k].ahead
        BY <1>3, <4>1 DEF Continues
      <4>3. w[i] = v[k] /\ (m + Len(u)) + k = m + i
        BY <1>1, <4>1
      <4> QED BY <4>2, <4>3
    <3> QED BY <1>1, <3>1, <3>2
  <2> QED BY <2>1 DEF Continues
<1> QED BY <1>2, <1>3 DEF w

\* The three parts being consecutive is what the property says.
LEMMA PartsAreInOrderOnce ==
  ASSUME TypeOK
  PROVE InOrderOnce <=> PartsInOrder
<1>1. /\ hold \in Seq(Insn) /\ dec \in Seq(Insn) /\ renamed \in Nat
      /\ quarantine \in BOOLEAN /\ fetched \in Nat
  BY RenameGroupAssumption DEF TypeOK
<1>2. Len(hold) \in Nat /\ Len(dec) \in Nat
  BY <1>1, LenProperties
<1>3. CASE quarantine
  <2>1. Pending = hold
    BY <1>1, <1>3, ConcatEmptySeq DEF Pending
  <2>2. DOMAIN hold = 1..Len(hold)
    BY <1>1, LenProperties
  <2> QED BY <1>3, <2>1, <2>2 DEF InOrderOnce, PartsInOrder, Continues
<1>4. CASE ~quarantine
  <2>1. Pending = hold \o dec
    BY <1>4 DEF Pending
  <2>2. Pending \in Seq(Insn) /\ Len(Pending) = Len(hold) + Len(dec)
    BY <1>1, <2>1, ConcatProperties
  <2>3. DOMAIN Pending = 1..Len(Pending)
    BY <2>2, LenProperties
  <2>4. InOrderOnce <=> /\ Continues(Pending, renamed)
                        /\ renamed + Len(Pending) = fetched
    BY <1>4, <2>3 DEF InOrderOnce, Continues
  <2>5. Continues(Pending, renamed)
          <=> Continues(hold, renamed) /\ Continues(dec, renamed + Len(hold))
    BY <1>1, <2>1, ConcatContinues
  <2>6. renamed + Len(Pending) = renamed + Len(hold) + Len(dec)
    BY <1>1, <1>2, <2>2
  <2> QED BY <1>4, <2>4, <2>5, <2>6 DEF PartsInOrder
<1> QED BY <1>3, <1>4

\* Cuts, holds, redirects and flushes keep the two registers of the entrance
\* within a group's width and the stream within its numbers.
THEOREM GroupTypeCorrect == Spec => []TypeOK
<1>1. Init => TypeOK
  <2>1. /\ <<>> \in Seq(Insn) /\ Len(<<>>) = 0
        /\ 0 \in 0..MaxFetched /\ 0 <= PipeWidth
    BY EmptySeq, RenameGroupAssumption
  <2> SUFFICES ASSUME Init PROVE TypeOK
    OBVIOUS
  <2>2. /\ dec = <<>> /\ hold = <<>> /\ quarantine = FALSE
        /\ fetched = 0 /\ renamed = 0
    BY DEF Init
  <2> QED BY <2>1, <2>2 DEF TypeOK
<1>2. TypeOK /\ [Next]_vars => TypeOK'
  <2> SUFFICES ASSUME TypeOK, [Next]_vars PROVE TypeOK'
    OBVIOUS
  <2>1. /\ dec \in Seq(Insn) /\ Len(dec) <= PipeWidth
        /\ hold \in Seq(Insn) /\ Len(hold) <= PipeWidth
        /\ quarantine \in BOOLEAN /\ fetched \in 0..MaxFetched /\ renamed \in Nat
        /\ PipeWidth \in Nat /\ MaxFetched \in Nat
        /\ <<>> \in Seq(Insn) /\ Len(<<>>) = 0
    BY EmptySeq, RenameGroupAssumption DEF TypeOK
  <2>2. ASSUME NEW n \in Cuts, Advance(Work, n)
        PROVE /\ hold' \in Seq(Insn) /\ Len(hold') <= PipeWidth
              /\ renamed' \in Nat
    <3>1. Work \in Seq(Insn) /\ Len(Work) <= PipeWidth /\ Len(Work) \in Nat
      BY WorkShape, LenProperties
    <3>2. n \in 0..Len(Work)
      BY <3>1, CutsBound
    <3>3. Rest(Work, n) \in Seq(Insn) /\ Len(Rest(Work, n)) = Len(Work) - n
      BY <3>1, <3>2, RestShape
    <3>4. Len(Rest(Work, n)) <= PipeWidth
      BY <2>1, <3>1, <3>2, <3>3
    <3> QED BY <2>1, <2>2, <3>1, <3>2, <3>3, <3>4 DEF Advance
  <2>3. ASSUME NEW n \in Cuts, NEW p \in Packets, Cycle(n, p) PROVE TypeOK'
    <3>1. CASE Stalls(Work, n)
      BY <2>1, <2>2, <2>3, <3>1 DEF Cycle, TypeOK
    <3>2. CASE ~Stalls(Work, n)
      <4>1. fetched + Len(p) <= MaxFetched /\ dec' = Numbered(p)
              /\ fetched' = fetched + Len(p)
        BY <2>3, <3>2 DEF Cycle
      <4>2. /\ Numbered(p) \in Seq(Insn) /\ Len(Numbered(p)) <= PipeWidth
            /\ fetched + Len(p) \in 0..MaxFetched
        BY <2>1, <4>1, NumberedShape
      <4> QED BY <2>1, <2>2, <2>3, <4>1, <4>2 DEF Cycle, TypeOK
    <3> QED BY <3>1, <3>2
  <2>4. ASSUME NEW n \in Cuts, Redirect(n) PROVE TypeOK'
    BY <2>1, <2>2, <2>4 DEF Redirect, TypeOK
  <2>5. CASE Flush
    <3>1. /\ dec' = <<>> /\ hold' = <<>> /\ quarantine' = FALSE
          /\ fetched' = 0 /\ renamed' = 0
      BY <2>5 DEF Flush
    <3>2. 0 \in 0..MaxFetched /\ 0 <= PipeWidth
      BY <2>1
    <3> QED BY <2>1, <3>1, <3>2 DEF TypeOK
  <2>6. CASE UNCHANGED vars
    BY <2>6 DEF vars, TypeOK
  <2> QED BY <2>3, <2>4, <2>5, <2>6 DEF Next
<1> QED BY <1>1, <1>2, PTL DEF Spec

\* A cycle leaves the two registers in order: the holding register owns rename
\* while it is occupied, and a packet that is cut moves into it whole.
LEMMA CycleKeepsOrder ==
  ASSUME TypeOK, PartsInOrder, NEW n \in Cuts, NEW p \in Packets, Cycle(n, p)
  PROVE PartsInOrder'
<1>1. /\ dec \in Seq(Insn) /\ hold \in Seq(Insn)
      /\ Len(dec) \in Nat /\ Len(hold) \in Nat
      /\ quarantine \in BOOLEAN /\ fetched \in Nat /\ renamed \in Nat
  BY RenameGroupAssumption, LenProperties DEF TypeOK
<1>2. /\ Work \in Seq(Insn) /\ Len(Work) \in Nat /\ n \in 0..Len(Work)
  BY WorkShape, CutsBound, LenProperties
<1>3. /\ hold' = IF hold # <<>> \/ n > 0 THEN Rest(Work, n) ELSE <<>>
      /\ renamed' = renamed + n /\ quarantine' = quarantine
  BY DEF Cycle, Advance
<1>4. Continues(<<>>, renamed') /\ Len(<<>>) = 0
  BY DEF Continues
<1>5. CASE hold # <<>>
  <2>1. Work = hold /\ Stalls(Work, n)
    BY <1>5 DEF Work, Stalls
  <2>2. dec' = dec /\ fetched' = fetched
    BY <2>1 DEF Cycle
  <2>3. hold' = Rest(hold, n) /\ Len(Rest(hold, n)) = Len(hold) - n
    BY <1>1, <1>2, <1>3, <1>5, <2>1, RestShape
  <2>4. Continues(hold', renamed')
    BY <1>1, <1>2, <1>3, <2>1, <2>3, RestContinues DEF PartsInOrder
  <2>5. renamed' + Len(hold') = renamed + Len(hold)
    <3>1. n \in Int /\ renamed' = renamed + n /\ Len(hold') = Len(hold) - n
      BY <1>2, <1>3, <2>3
    <3> QED BY <1>1, <3>1
  <2> QED BY <1>3, <2>2, <2>4, <2>5 DEF PartsInOrder
<1>6. CASE hold = <<>> /\ quarantine
  <2>1. Work = <<>> /\ n = 0
    BY <1>2, <1>4, <1>6 DEF Work
  <2>2. hold' = <<>> /\ quarantine'
    BY <1>3, <1>6, <2>1
  <2> QED BY <1>4, <2>2 DEF PartsInOrder
<1>7. CASE hold = <<>> /\ ~quarantine
  <2>1. Work = dec /\ Len(hold) = 0 /\ ~quarantine'
    BY <1>3, <1>4, <1>7 DEF Work
  <2>2. Continues(dec, renamed) /\ renamed + Len(dec) = fetched
    BY <1>1, <1>7, <2>1 DEF PartsInOrder
  <2>3. CASE n = 0 /\ dec # <<>>
    <3>1. hold' = <<>> /\ renamed' = renamed
      BY <1>1, <1>3, <1>7, <2>3
    <3>2. dec' = dec /\ fetched' = fetched
      BY <2>1, <2>3 DEF Cycle, Stalls
    <3>3. Len(hold') = 0
      BY <1>4, <3>1
    <3>4. renamed' + Len(hold') = renamed
      BY <1>1, <3>1, <3>3
    <3> QED BY <1>4, <2>2, <3>1, <3>2, <3>4 DEF PartsInOrder
  <2>4. CASE n > 0 \/ dec = <<>>
    <3>1. ~Stalls(Work, n)
      BY <1>2, <1>7, <2>1, <2>4 DEF Stalls
    <3>2. /\ fetched + Len(p) <= MaxFetched /\ dec' = Numbered(p)
          /\ fetched' = fetched + Len(p)
      BY <3>1 DEF Cycle
    <3>3. /\ Len(p) \in Nat /\ Len(dec') = Len(p)
          /\ \A i \in 1..Len(p) : /\ dec'[i].pos = fetched + i
                                  /\ dec'[i].ahead = quarantine
      <4>1. Len(p) \in 0..PipeWidth
        BY <3>2, NumberedShape
      <4> QED BY <3>2, <4>1, NumberedShape, RenameGroupAssumption
    <3>4. Continues(dec', fetched)
      BY <1>7, <3>3 DEF Continues
    <3>5. Continues(hold', renamed') /\ renamed' + Len(hold') = fetched
      <4>1. CASE n > 0
        <5>1. hold' = Rest(dec, n) /\ n \in 0..Len(dec)
          BY <1>2, <1>3, <2>1, <4>1
        <5>2. Len(hold') = Len(dec) - n
          BY <1>1, <5>1, RestShape
        <5>3. Continues(hold', renamed')
          BY <1>1, <1>3, <2>2, <5>1, RestContinues
        <5>4. n \in Int /\ renamed' = renamed + n
          BY <1>2, <1>3
        <5>5. renamed' + Len(hold') = renamed + Len(dec)
          BY <1>1, <5>2, <5>4
        <5> QED BY <2>2, <5>3, <5>5
      <4>2. CASE n = 0
        <5>1. dec = <<>> /\ hold' = <<>> /\ renamed' = renamed
          BY <1>1, <1>3, <1>7, <2>4, <4>2
        <5> QED BY <1>1, <1>4, <2>2, <5>1
      <4> QED BY <1>2, <4>1, <4>2
    <3>6. renamed' + Len(hold') + Len(dec') = fetched'
      BY <3>2, <3>3, <3>5
    <3> QED BY <3>4, <3>5, <3>6 DEF PartsInOrder
  <2> QED BY <1>2, <2>3, <2>4
<1> QED BY <1>1, <1>5, <1>6, <1>7

\* Without a bound on queues, registers or checkpoints: each instruction the
\* front end delivered is renamed once and in its place, through every cut,
\* hold, stall, early redirect and flush (rename.sv: the holding register and
\* the accept logic; decode.sv: the stall).
THEOREM RenamedInOrderOnce == Spec => []InOrderOnce
<1>1. Init => PartsInOrder
  BY DEF Init, PartsInOrder, Continues
<1>2. TypeOK /\ PartsInOrder /\ [Next]_vars => PartsInOrder'
  <2> SUFFICES ASSUME TypeOK, PartsInOrder, [Next]_vars PROVE PartsInOrder'
    OBVIOUS
  <2>1. ASSUME NEW n \in Cuts, NEW p \in Packets, Cycle(n, p) PROVE PartsInOrder'
    BY <2>1, CycleKeepsOrder
  <2>2. ASSUME NEW n \in Cuts, Redirect(n) PROVE PartsInOrder'
    <3>1. /\ ~quarantine /\ quarantine' /\ renamed' = renamed + n
          /\ hold' = IF hold # <<>> \/ n > 0 THEN Rest(Work, n) ELSE <<>>
      BY <2>2 DEF Redirect, Advance
    <3>2. /\ Work \in Seq(Insn) /\ n \in 0..Len(Work) /\ renamed \in Nat
          /\ hold \in Seq(Insn)
      BY WorkShape, CutsBound DEF TypeOK
    <3>3. Continues(Work, renamed)
      <4>1. CASE hold # <<>>
        BY <4>1 DEF Work, PartsInOrder
      <4>2. CASE hold = <<>>
        <5>1. Work = dec /\ renamed + Len(hold) = renamed
          BY <3>1, <3>2, <4>2 DEF Work
        <5> QED BY <3>1, <5>1 DEF PartsInOrder
      <4> QED BY <4>1, <4>2
    <3>4. Continues(Rest(Work, n), renamed')
      BY <3>1, <3>2, <3>3, RestContinues
    <3>5. Continues(<<>>, renamed')
      BY DEF Continues
    <3> QED BY <3>1, <3>4, <3>5 DEF PartsInOrder
  <2>3. CASE Flush
    BY <2>3 DEF Flush, PartsInOrder, Continues
  <2>4. CASE UNCHANGED vars
    BY <2>4 DEF vars, PartsInOrder, Continues
  <2> QED BY <2>1, <2>2, <2>3, <2>4 DEF Next
<1>3. TypeOK /\ PartsInOrder => InOrderOnce
  BY PartsAreInOrderOnce
<1> QED BY <1>1, <1>2, <1>3, GroupTypeCorrect, PTL DEF Spec
=============================================================================
