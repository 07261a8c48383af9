---------------------------- MODULE ArchiveTree ----------------------------
(***************************************************************************)
(* The rows the device and the server exchange, and the foreign keys       *)
(* between them (sync/cascade.rs, sync/capture.rs).  A row is a member of  *)
(* Row; its table, and with it the key it holds, is the row's place in the *)
(* forest Parent.  An edge is ON DELETE CASCADE when the child is in       *)
(* CascadeRow (items -> entities, assets -> extractions, ...) and a plain  *)
(* REFERENCES (RESTRICT) otherwise (collections -> items -> assets).       *)
(***************************************************************************)
EXTENDS Naturals, FiniteSets

CONSTANTS
    Row,          \* row ids, of every synced table
    NoRow,        \* "no parent"
    Parent,       \* [Row -> Row \cup {NoRow}]: the row a row's foreign key names
    Ancestors,    \* [Row -> SUBSET Row]: the transitive closure of Parent
    CascadeRow,   \* the rows whose foreign key is ON DELETE CASCADE
    WireRank      \* [Row -> Nat]: a row's place in a push, table name then row id

ASSUME TreeAssumption ==
    /\ IsFiniteSet(Row)
    /\ NoRow \notin Row
    /\ Parent \in [Row -> Row \cup {NoRow}]
    /\ Ancestors \in [Row -> SUBSET Row]
    /\ \A r \in Row :
          /\ r \notin Ancestors[r]
          /\ Ancestors[r] = IF Parent[r] = NoRow
                            THEN {}
                            ELSE {Parent[r]} \cup Ancestors[Parent[r]]
          /\ \A q \in Ancestors[r] : Ancestors[q] \subseteq Ancestors[r]

\* No RESTRICT edge hangs below a CASCADE edge in the synced schema, so the
\* walks over the two kinds of edges reach every descendant between them.
ASSUME CascadeAssumption ==
    /\ CascadeRow \subseteq {r \in Row : Parent[r] # NoRow}
    /\ \A r \in Row : Parent[r] \in CascadeRow => r \in CascadeRow

ASSUME WireAssumption ==
    /\ WireRank \in [Row -> Nat]
    /\ \A r, q \in Row : WireRank[r] = WireRank[q] => r = q

\* Every row a walk over the two kinds of edges can reach from r.
Descendants(r) == {q \in Row : r \in Ancestors[q]}

\* What SQLite deletes together with r: reached by CASCADE edges only.
CascadeBelow(r) ==
    {q \in Descendants(r) : {q} \cup (Ancestors[q] \cap Descendants(r)) \subseteq CascadeRow}

\* What must be deleted by hand before r: reached by RESTRICT edges only.
RestrictBelow(r) == Descendants(r) \ CascadeRow

=============================================================================
