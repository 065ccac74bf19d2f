------------------------------- MODULE AbsRob -------------------------------
(***************************************************************************)
(* What the reorder buffer promises: a queue of instructions in program    *)
(* order.  Each enters at the end with all its work outstanding, or with   *)
(* none where it was eliminated or brought an exception with it, loses     *)
(* work only by its own reports, and leaves from the front, in order, once *)
(* none is outstanding.  A flush empties the queue; a recovery takes away  *)
(* exactly what is younger than the branch.  No ring, no counter, no valid *)
(* bits, no writeback registers.                                           *)
(***************************************************************************)
EXTENDS Integers, Sequences

CONSTANTS Kinds, PipeWidth, RobDepth

VARIABLES q,       \* the instructions in flight, oldest first
          retired  \* how many left from the front in the last cycle

Parts(k) == IF k = "store" THEN {"addr", "data"} ELSE {"result"}

\* What is eliminated, and what comes with an exception, never executes.
Work(k) == IF k \in {"zero", "bad"} THEN {} ELSE Parts(k)

\* misp: a branch known to have mispredicted.
Fresh(e) ==
    /\ e.kind \in Kinds /\ e.work = Work(e.kind) /\ ~e.misp
    /\ e.exc = IF e.kind = "bad" THEN "trap" ELSE "none"

\* What may become of an instruction that stays.  Only a load is replayed;
\* any other exception comes with a report of the instruction's own.
Progresses(e, f) ==
    /\ f.kind = e.kind /\ f.work \subseteq e.work
    /\ e.exc # "none" => f.exc # "none"
    /\ f.exc # e.exc => \/ e.kind = "load"
                       \/ /\ e.kind \in {"alu", "csr", "store"}
                          /\ f.exc = "trap" /\ f.work # e.work
    /\ f.misp # e.misp => e.kind = "branch"

\* An instruction may leave once nothing is outstanding, unless it read
\* stale data; a serializing one leaves alone, and one that raises an
\* exception, mispredicted, returns from a trap or fences ends its group and
\* takes everything younger with it.
Retires(e) == e.work = {} /\ e.exc # "replay"
Redirects(e) == e.exc = "trap" \/ e.misp \/ e.kind \in {"fence", "ret"}
Alone(e) == e.kind \in {"csr", "fence", "ret"} /\ e.exc # "trap"

RetireCounts ==
    {c \in 0..PipeWidth :
        /\ c <= Len(q)
        /\ \A i \in 1..c : /\ Retires(q[i])
                           /\ i < c => ~Redirects(q[i])
                           /\ c > 1 => ~Alone(q[i])}

Init == q = <<>> /\ retired = 0

\* c instructions leave, the next n - c stay, new ones enter.
Advance(c, n) ==
    /\ c \in RetireCounts /\ n \in c..Len(q)
    /\ c > 0 => ~Redirects(q[c])
    /\ retired' = c
    /\ Len(q') >= n - c /\ Len(q') <= RobDepth
    /\ \A i \in 1..(n - c) : Progresses(q[c + i], q'[i])
    /\ \A i \in (n - c + 1)..Len(q') : Fresh(q'[i])

Step == \E c \in 0..PipeWidth : Advance(c, Len(q))

\* Everything goes, for a reason: an instruction that redirects retires, one
\* that read stale data has come to the front, or an interrupt is taken
\* and nothing retires.
Flush ==
    /\ q # <<>> /\ q' = <<>>
    /\ \E c \in RetireCounts :
          /\ retired' = c
          /\ \/ c > 0 /\ Redirects(q[c])
             \/ /\ c < Len(q) /\ q[c + 1].exc = "replay"
                /\ c > 0 => ~Redirects(q[c])
             \/ c = 0

\* A branch that mispredicted stays, and nothing younger than it.
Recover == \E c \in 0..PipeWidth : \E b \in (c + 1)..Len(q) :
              /\ q[b].kind = "branch" /\ q[b].misp
              /\ Advance(c, b) /\ Len(q') = b - c
              /\ ~q'[b - c].misp

Next == Step \/ Flush \/ Recover

Spec == Init /\ [][Next]_<<q, retired>>
=============================================================================
