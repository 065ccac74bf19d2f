------------------------------- MODULE MCMmu -------------------------------
(* Small instances of Mmu: what software may write into an entry.          *)
EXTENDS Mmu

\* Software keeps the accessed and dirty bits set: the walker never writes.
MCManaged == {[kind |-> k, a |-> TRUE, d |-> TRUE] : k \in Kind}

\* Both bits clear: every first use and every first store is recorded.
MCFresh == {[kind |-> "rw", a |-> FALSE, d |-> FALSE]}
=============================================================================
