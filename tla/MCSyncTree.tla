----------------------------- MODULE MCSyncTree -----------------------------
(* A row and a row that hangs from it: the runs about foreign keys.         *)
EXTENDS SyncCycle, TLC

CONSTANTS d1, d2, top, leaf

MCParent == (top :> NoRow) @@ (leaf :> top)
MCAncestors == (top :> {}) @@ (leaf :> {top})

\* assets and entities sort before items; items sort after collections.
LeafFirst == (leaf :> 1) @@ (top :> 2)
TopFirst == (top :> 1) @@ (leaf :> 2)

DeviceSymmetry == Permutations(Device)

\* A later start: one device wrote top (1) and leaf (2), and every device has
\* synchronised.  Spec reaches this state; the conflicts between edits of
\* known rows begin here.
Synced ==
    LET at == [r \in Row |-> WireRank[r]]
    IN  /\ log = [i \in 1..2 |-> LET r == CHOOSE q \in Row : at[q] = i
                                     t == IF r = top THEN 1 ELSE 2
                                 IN  [row |-> r, ts |-> t, val |-> t]]
        /\ epoch = 1
        /\ clock = 2
        /\ store = [d \in Device |-> [EmptyStore EXCEPT !.db = (top :> 1) @@ (leaf :> 2),
                                                        !.rv = at,
                                                        !.cursor = 2]]
        /\ cycle = [d \in Device |-> At("idle")]
        /\ judged = {<<top, 1>>, <<leaf, 2>>}

\* Another start, which Spec reaches as well: one device wrote top (1) and leaf
\* (2, 3), its push broke off after the leaf, and the others pulled the leaf,
\* parked it for want of its parent and stopped there.
HalfPushed ==
    \E w \in Device :
        /\ log = <<[row |-> leaf, ts |-> 3, val |-> 3]>>
        /\ epoch = 1
        /\ clock = 3
        /\ store = [d \in Device |->
              IF d = w
              THEN [EmptyStore EXCEPT
                       !.db = (top :> 1) @@ (leaf :> 3),
                       !.oplog = {[row |-> top, op |-> "U", ts |-> 1],
                                  [row |-> leaf, op |-> "U", ts |-> 2],
                                  [row |-> leaf, op |-> "U", ts |-> 3]}]
              ELSE [EmptyStore EXCEPT
                       !.cursor = 1,
                       !.parked = {[row |-> leaf, seq |-> 1, val |-> 3]}]]
        /\ cycle = [d \in Device |-> At("idle")]
        /\ judged = {<<leaf, 3>>}

SyncedSpec == Synced /\ [][Next]_vars
ParkedSpec == (Synced \/ HalfPushed) /\ [][Next]_vars
SyncedFairSpec == SyncedSpec /\ Fairness

=============================================================================
