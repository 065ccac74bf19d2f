----------------------------- MODULE UocRepack -----------------------------
(***************************************************************************)
(* tools/uoc_repack_model.py: a trace of delivered fetch groups and        *)
(* flushes is replayed through a cache of dense entries of uops, which     *)
(* gives an upper bound of what such a cache could recover.                *)
(*                                                                         *)
(* A group is [uops, cause]: a sequence of [pc, kind] and why it ended.  A *)
(* pc is an even number.  The trace is any sequence of the groups given,   *)
(* with flushes between them.                                              *)
(***************************************************************************)
EXTENDS Naturals, Sequences, FiniteSetsExt

CONSTANTS Groups,      \* the groups a trace may hold
          Sets,        \* UOC_SETS
          Levels,      \* of the tree of a set: UOC_WAYS is 2 to the Levels
          PerEntry,    \* UOC_PER_ENTRY
          MaxEvents    \* bound on the length of a trace

TraceUops == UNION {{g.uops[i] : i \in DOMAIN g.uops} : g \in Groups}

\* Instructions lie at even addresses, and a group that is delivered has some.
ASSUME UocAssumption ==
    /\ Sets \in Nat \ {0} /\ Levels \in Nat /\ PerEntry \in Nat /\ MaxEvents \in Nat
    /\ \A g \in Groups : g.uops \in Seq(TraceUops) \ {<<>>}
    /\ \A u \in TraceUops : u.pc \in Nat /\ u.pc % 2 = 0

\* the number of ways under a node that is n levels above them
Power[n \in 0 .. Levels] == IF n = 0 THEN 1 ELSE 2 * Power[n - 1]

UocWays == 0 .. Power[Levels] - 1
Truncating == {0, 1, 4, 5}

VARIABLES tags,      \* set -> way -> {} or the tag
          tree,      \* set -> the nodes whose bit is 1; a node's children are 2n+1, 2n+2
          uops,      \* total_uops
          heads,     \* known_heads: head -> the uops when it was sealed first
          build,     \* the entry being filled: {} or one record
          group,     \* what is left of the group delivered last: {} or [uops, id]
          cut,       \* group_truncslots: group -> empty slots
          recovered, \* the groups a resident entry packs, with that entry
          later,     \* history: set -> way touched -> the ways touched since
          event      \* events of the trace so far

uocVars == <<tags, tree, uops, heads, build, group, cut, recovered, later, event>>

UocInit ==
    /\ tags = [s \in 0 .. Sets - 1 |-> [w \in UocWays |-> {}]]
    /\ tree = [s \in 0 .. Sets - 1 |-> {}]
    /\ later = [s \in 0 .. Sets - 1 |-> << >>]
    /\ heads = << >> /\ build = {} /\ group = {} /\ cut = << >>
    /\ recovered = {} /\ event = 0 /\ uops = 0

\* the lowest bit of a pc taken for a bit of the index
IndexWithBit0(pc) == pc % Sets

Index(pc) == (pc \div 2) % Sets
Tag(pc) == pc \div (2 * Sets)

-----------------------------------------------------------------------------
\* PLRUSet, in the numbering of a heap: the leaf of way w is UOC_WAYS - 1 + w.

Find(s, tag) == {w \in UocWays : tags[s][w] = {tag}}

\* The nodes from the root to the leaf that the bits point to.
Descent(t) ==
    LET node[l \in 0 .. Levels] ==
            IF l = 0 THEN 0
            ELSE 2 * node[l - 1] + 1 + (IF node[l - 1] \in t THEN 1 ELSE 0)
    IN  node

Victim(t) == Descent(t)[Levels] - (Power[Levels] - 1)

Ancestor(way, l) == Power[l] - 1 + (way \div Power[Levels - l])
GoesRight(way, l) == (way \div Power[Levels - l - 1]) % 2 = 1

\* the bits are left to point to the way
TouchTowards(t, way) ==
    {n \in t : \A l \in 0 .. Levels - 1 : n # Ancestor(way, l)}
    \union {Ancestor(way, l) : l \in {x \in 0 .. Levels - 1 : GoesRight(way, x)}}

\* The bits of the path to a way are left to point away from it.
Touch(t, way) ==
    {n \in t : \A l \in 0 .. Levels - 1 : n # Ancestor(way, l)}
    \union {Ancestor(way, l) : l \in {x \in 0 .. Levels - 1 : ~GoesRight(way, x)}}

\* the history of a set once more: the way is the last one touched
Touched(h, way) ==
    [w \in DOMAIN h \union {way} |-> IF w = way THEN {} ELSE h[w] \union {way}]

\* install: the first way that is free, else the victim.
Place(s) ==
    LET free == {w \in UocWays : tags[s][w] = {}}
    IN  IF free # {} THEN Min(free) ELSE Victim(tree[s])

-----------------------------------------------------------------------------
\* run_model.

\* seal(): the entry is touched or installed, and if it was resident when it
\* was opened the cut groups it packs through are recovered.
Seal(b) ==
    LET s == Index(b.head)
        found == Find(s, Tag(b.head))
        way == IF found # {} THEN Min(found) ELSE Place(s)
    IN  /\ tags' = [tags EXCEPT ![s][way] = {Tag(b.head)}]
        /\ tree' = [tree EXCEPT ![s] = Touch(@, way)]
        /\ later' = [later EXCEPT ![s] = Touched(@, way)]
        /\ heads' = IF b.head \in DOMAIN heads THEN heads
                    ELSE [h \in DOMAIN heads \union {b.head} |->
                             IF h = b.head THEN uops' ELSE heads[h]]
        /\ recovered' = recovered \union
              (IF b.resident THEN {[group |-> g, head |-> b.head, opened |-> b.opened,
                                    since |-> b.since] : g \in b.groups \intersect DOMAIN cut}
               ELSE {})
        /\ build' = {}

Deliver(g) ==
    /\ group = {} /\ event < MaxEvents /\ event' = event + 1
    /\ group' = {[uops |-> g.uops, id |-> event']}
    /\ cut' = IF g.cause \in Truncating /\ Len(g.uops) < PerEntry
              THEN [i \in DOMAIN cut \union {event'} |->
                       IF i = event' THEN PerEntry - Len(g.uops) ELSE cut[i]]
              ELSE cut
    /\ UNCHANGED <<tags, tree, uops, heads, build, recovered, later>>

\* a head that was evicted
ResidentOnce(pc) == pc \in DOMAIN heads

Resident(pc) == Find(Index(pc), Tag(pc)) # {} /\ pc \in DOMAIN heads

Packed(u, id) ==
    IF build = {} THEN [head |-> u.pc, n |-> 1, resident |-> Resident(u.pc),
                        groups |-> {id}, opened |-> uops', since |-> id]
    ELSE LET b == CHOOSE x \in build : TRUE
         IN  [b EXCEPT !.n = @ + 1, !.groups = @ \union {id}]

\* A direct branch does not end an entry.
EndsEntry(u) == u.kind \in {"indirect", "serializing"}

\* One uop of the group.
Slot(g) ==
    /\ uops' = uops + 1
    /\ group' = IF Len(g.uops) = 1 THEN {} ELSE {[g EXCEPT !.uops = Tail(@)]}
    /\ LET u == Head(g.uops)
           b == Packed(u, g.id)
       IN  IF EndsEntry(u) \/ b.n >= PerEntry THEN Seal(b)
           ELSE /\ build' = {b}
                /\ UNCHANGED <<tags, tree, heads, recovered, later>>
    /\ UNCHANGED <<cut, event>>

\* The entry under way is lost; what it packed is not recovered.
FlushEntry ==
    /\ group = {} /\ event < MaxEvents /\ event' = event + 1
    /\ build' = {}
    /\ UNCHANGED <<tags, tree, uops, heads, group, cut, recovered, later>>

\* The end of the trace seals what is left.
EndTrace ==
    /\ group = {} /\ build # {} /\ event' = MaxEvents
    /\ UNCHANGED <<uops, group, cut>>
    /\ \E b \in build : Seal(b)

UocNext ==
    \/ \E g \in Groups : Deliver(g)
    \/ \E g \in group : Slot(g)
    \/ FlushEntry \/ EndTrace

UocSpec == UocInit /\ [][UocNext]_uocVars

-----------------------------------------------------------------------------
\* A set never holds a tag twice, and what it holds is the head of an entry
\* that was sealed, of one entry only: a hit is never the hit of another pc.
HitsAreHeads ==
    \A s \in DOMAIN tags :
        \A w \in UocWays : \A t \in tags[s][w] :
            /\ Find(s, t) = {w}
            /\ \E h \in DOMAIN heads :
                  {k \in DOMAIN heads : Index(k) = s /\ Tag(k) = t} = {h}

\* The victim of a full set is none of the ways touched last: as many others
\* as the tree has levels were touched since it was, if it ever was.
VictimIsOld ==
    \A s \in DOMAIN tree :
        Victim(tree[s]) \in DOMAIN later[s]
            => Cardinality(later[s][Victim(tree[s])]) >= Levels

\* What is counted as recovered was cut short when it was delivered, and is
\* credited to an entry that was in the cache all the time since it was opened,
\* and that was sealed for the first time before: no pass recovers from the
\* entry that it fills itself.
RecoveryIsRevisit ==
    /\ \A b \in build : b.resident =>
          heads[b.head] < b.opened /\ Find(Index(b.head), Tag(b.head)) # {}
    /\ \A r \in recovered :
          /\ r.group \in DOMAIN cut /\ r.group >= r.since
          /\ heads[r.head] < r.opened
=============================================================================
