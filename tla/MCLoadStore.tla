---------------------------- MODULE MCLoadStore ----------------------------
(* Small instances of LoadStore: two bytes, in one double word or in two.  *)
EXTENDS LoadStore, TLC

MCBytes == 0..1
MCLayouts == {[b \in MCBytes |-> 0], [b \in MCBytes |-> b]}

\* A byte, and an access to both, which may cross from one double word into
\* the next.
MCFootprints == {{0}, {0, 1}}

\* The values differ in name only: LoadStore compares them and moves them.
MCSymmetry == Permutations(Vals)

\* Only the distance of a number from the head is ever read, so states that
\* differ in where the head stands are one.
MCView ==
    <<dword, rob, csb, cache,
      [k \in DOMAIN lq |-> [lq[k] EXCEPT !.tag = Age(@)]],
      [i \in DOMAIN sq |-> [sq[i] EXCEPT !.tag = Age(@)]]>>
=============================================================================
