----------------------------- MODULE SyncServer -----------------------------
(***************************************************************************)
(* The account's copy on EntropIA Cloud.  The server is not in this        *)
(* repository: it is modelled from what the client code and its end-to-end *)
(* tests rely on.  The account is one log of accepted row versions; the    *)
(* position in the log is the version's server_seq, and the newest version *)
(* of a row is the only one the server still serves.                       *)
(***************************************************************************)
EXTENDS ArchiveTree, Sequences

\* The content of a row that is absent, and of a tombstone.  Any other content
\* is the stamp of the edit that wrote it.
Gone == 0

\* server_seq of row r's newest version, 0 when the server never saw r.
Newest(log, r) ==
    LET at == {i \in DOMAIN log : log[i].row = r}
    IN  IF at = {} THEN 0 ELSE CHOOSE i \in at : \A j \in at : j <= i

\* A row's newest version, in the shape the client pulls.
PullRow(log, r) ==
    [row |-> r, seq |-> Newest(log, r), val |-> log[Newest(log, r)].val]

\* A change replays a version when it carries the stamp that version was
\* judged by (the same change sent again after its answer was lost).
Replays(log, c) ==
    LET h == Newest(log, c.row) IN h # c.base /\ h # 0 /\ log[h].ts = c.ts

\* A change based on a version that is no longer the newest one is judged by
\* its stamp: the later edit wins.
Loses(log, c) ==
    LET h == Newest(log, c.row) IN h # c.base /\ h # 0 /\ log[h].ts > c.ts

\* The log after a request: its accepted changes, at most one per row, are
\* appended in the order the request lists them.
AcceptAll(log, changes) ==
    LET won   == {c \in changes : ~Replays(log, c) /\ ~Loses(log, c)}
        at(c) == Len(log) + Cardinality({w \in won : WireRank[w.row] <= WireRank[c.row]})
    IN  [i \in 1..(Len(log) + Cardinality(won)) |->
            IF i <= Len(log)
            THEN log[i]
            ELSE LET c == CHOOSE w \in won : at(w) = i
                 IN  [row |-> c.row, ts |-> c.ts, val |-> c.val]]

\* One result per change: whether it lost, and the row's newest version, which
\* is the change itself when it was accepted and the winner when it lost.
Answers(log, changes) ==
    LET after == AcceptAll(log, changes)
    IN  {[lost |-> Loses(log, c), current |-> PullRow(after, c.row)] :
            c \in changes}

\* The page after cursor since: the newest versions above it, oldest first, at
\* most limit of them; the rest is announced by has_more.
Unseen(log, since) == {i \in (since + 1)..Len(log) : Newest(log, log[i].row) = i}

PageEnd(log, since, limit) ==
    LET full == {i \in Unseen(log, since) :
                   Cardinality({j \in Unseen(log, since) : j <= i}) = limit}
    IN  IF full = {} THEN Len(log) ELSE CHOOSE i \in full : TRUE

Page(log, since, limit) ==
    {PullRow(log, log[i].row) : i \in {j \in Unseen(log, since) : j <= PageEnd(log, since, limit)}}

HasMore(log, since, limit) ==
    \E i \in Unseen(log, since) : i > PageEnd(log, since, limit)

=============================================================================
