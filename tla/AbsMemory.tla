----------------------------- MODULE AbsMemory -----------------------------
(***************************************************************************)
(* What the load and store machinery promises: the accesses of a program,  *)
(* in order, on one memory of bytes.  A load is answered with what the     *)
(* accesses before it leave in its bytes, the oldest access leaves, a      *)
(* store into memory as it does, and a flush takes the youngest away.  No  *)
(* queues of loads and stores, no addresses to wait for, no forwarding.    *)
(***************************************************************************)
EXTENDS Integers, Sequences

CONSTANTS Bytes, Footprints, Vals

VARIABLES q,   \* the accesses in flight, in program order
          mem  \* the value of each byte

Data(fp) == [fp -> Vals]

\* A load that waits for its data has none.
Waits(e) == e.kind = "load" /\ e.data = <<>>

Fresh(e) == \/ Waits(e) /\ e.fp \in Footprints
            \/ e.kind = "store" /\ e.fp \in Footprints /\ e.data \in Data(e.fp)

\* Memory after the first n accesses.
After(n) ==
    LET now == mem
        writers(b) == {i \in 1..n : q[i].kind = "store" /\ b \in q[i].fp}
        last(b) == CHOOSE i \in writers(b) : \A j \in writers(b) : j <= i
    IN  [b \in Bytes |-> IF writers(b) = {} THEN now[b] ELSE q[last(b)].data[b]]

Answered(i, e) ==
    \/ e = q[i]
    \/ /\ Waits(q[i])
       /\ e = [q[i] EXCEPT !.data = [b \in q[i].fp |-> After(i - 1)[b]]]

Init == q = <<>> /\ mem \in Data(Bytes)

\* The oldest c leave, of the others the first n - c stay, others may enter.
Advance(c, n) ==
    /\ c \in 0..n /\ n <= Len(q) /\ \A i \in 1..c : ~Waits(q[i])
    /\ Len(q') >= n - c
    /\ \A i \in 1..(n - c) : Answered(c + i, q'[i])
    /\ \A i \in (n - c + 1)..Len(q') : Fresh(q'[i])
    /\ mem' = After(c)

Step == \E c \in {0, 1} : Advance(c, Len(q))

Flush == \E c \in {0, 1} : \E n \in c..Len(q) :
            Len(q') = n - c /\ Advance(c, n)

Next == Step \/ Flush

Spec == Init /\ [][Next]_<<q, mem>>
=============================================================================
