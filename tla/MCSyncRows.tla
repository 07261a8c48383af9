----------------------------- MODULE MCSyncRows -----------------------------
(* Independent rows: the runs about edits, deletes and lost answers.        *)
EXTENDS SyncCycle, TLC

CONSTANTS d1, d2, r1

MCParent == [r \in Row |-> NoRow]
MCAncestors == [r \in Row |-> {}]
MCRank == [r \in Row |-> 1]

DeviceSymmetry == Permutations(Device)

=============================================================================
