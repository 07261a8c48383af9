---------------------------- MODULE DeviceStore ----------------------------
(***************************************************************************)
(* One device's archive and its sync bookkeeping, and what each database   *)
(* transaction of the sync engine makes of them (sync/push.rs,             *)
(* sync/apply.rs, sync/pull.rs).  A store s is a record:                   *)
(*   db       row -> content, Gone when the row is absent                  *)
(*   oplog    pending edits; ts stands for both seq and changed_at         *)
(*   rv       row -> server_seq of the version the row is based on         *)
(*   cursor   last_pull_seq                                                *)
(*   parked   sync_pending_rows, pulled rows that wait for their parent    *)
(*   journal  sync_conflicts; val is the content kept, Gone when NULL      *)
(*   epoch    the server epoch the versions and the cursor belong to       *)
(***************************************************************************)
EXTENDS SyncServer

EmptyStore ==
    [db |-> [r \in Row |-> Gone], oplog |-> {}, rv |-> [r \in Row |-> 0],
     cursor |-> 0, parked |-> {}, journal |-> {}, epoch |-> 1]

Present(s, r) == s.db[r] # Gone
Dirty(s, r) == \E o \in s.oplog : o.row = r
\* Mutation: asks for any pending edit, the ones just pushed included.
DirtyAtAll(s, r, snap) == Dirty(s, r)

DirtyAfter(s, r, snap) == \E o \in s.oplog : o.row = r /\ o.ts > snap

-----------------------------------------------------------------------------
(* What the user's statements do: the row, and the capture triggers.       *)

Write(s, r, t) ==
    [s EXCEPT !.db[r] = t, !.oplog = @ \cup {[row |-> r, op |-> "U", ts |-> t]}]

Erase(s, r, t) ==
    LET gone == {r} \cup {q \in CascadeBelow(r) : Present(s, q)}
    IN  [s EXCEPT !.db = [q \in Row |-> IF q \in gone THEN Gone ELSE @[q]],
                  !.oplog = @ \cup {[row |-> q, op |-> "D", ts |-> t] : q \in gone}]

-----------------------------------------------------------------------------
(* The push half: snapshot, coalesce, build.                               *)

\* Mutation: the counter's next value instead of the highest pending one.
NextStamp(s) ==
    IF s.oplog = {} THEN 0
    ELSE (CHOOSE o \in s.oplog : \A p \in s.oplog : p.ts <= o.ts).ts + 1

Snapshot(s) ==
    IF s.oplog = {} THEN 0
    ELSE (CHOOSE o \in s.oplog : \A p \in s.oplog : p.ts <= o.ts).ts

Covered(s, snap) == {r \in Row : \E o \in s.oplog : o.row = r /\ o.ts <= snap}

\* The last edit up to the snapshot decides the operation and the stamp; the
\* content is read from the row as it is now, a missing row being a delete.
Change(s, snap, r) ==
    LET ops  == {o \in s.oplog : o.row = r /\ o.ts <= snap}
        last == CHOOSE o \in ops : \A p \in ops : p.ts <= o.ts
    IN  [row |-> r, base |-> s.rv[r], ts |-> last.ts,
         val |-> IF last.op = "D" THEN Gone ELSE s.db[r]]

\* Mutation: takes the edits made after the snapshot too.
PurgeWhole(oplog, rows, snap) == {o \in oplog : o.row \notin rows}

Purge(oplog, rows, snap) == {o \in oplog : o.row \notin rows \/ o.ts > snap}

\* Changes that cannot travel (no blob, or too large) are journaled and purged.
Refuse(s, snap, changes) ==
    [s EXCEPT !.oplog = Purge(@, {c.row : c \in changes}, snap),
              !.journal = @ \cup {[row |-> c.row, reason |-> "apply_error", val |-> c.val] :
                                    c \in changes}]

-----------------------------------------------------------------------------
(* Applying remote versions.  A version is a PullRow; ups are upserts that  *)
(* go in, tombs tombstones that take effect.                               *)

Fresh(s, w) == s.rv[w.row] < w.seq

\* Mutation: pending edits are overwritten.
UpsertsOverEdits(s, W) == {w \in W : w.val # Gone /\ Fresh(s, w)}

\* Mutation: versions the device has passed go in again.
UpsertsOfAnyAge(s, W) == {w \in W : w.val # Gone /\ ~Dirty(s, w.row)}

Upserts(s, W) == {w \in W : w.val # Gone /\ Fresh(s, w) /\ ~Dirty(s, w.row)}

Wiped(tombs) == UNION {{w.row} \cup Descendants(w.row) : w \in tombs}

Named(W, r) == CHOOSE w \in W : w.row = r

Contents(s, ups, tombs) ==
    [r \in Row |-> IF r \in Wiped(tombs) THEN Gone
                   ELSE IF \E w \in ups : w.row = r THEN Named(ups, r).val
                   ELSE s.db[r]]

\* The versions after the rows of W were taken over: a dependent that goes with
\* a tombstone keeps the version it had.
Based(rv, W) ==
    [r \in Row |-> IF \E w \in W : w.row = r THEN Named(W, r).seq ELSE rv[r]]

\* A RESTRICT dependent that goes with its parent is journaled with its
\* content; a CASCADE child goes silently.
Swept(s, ups, tombs) ==
    LET after == Contents(s, ups, {})
        rows  == {q \in UNION {RestrictBelow(w.row) : w \in tombs} :
                     after[q] # Gone /\ ~\E w \in tombs : w.row = q}
    IN  {[row |-> q, reason |-> "parent_deleted", val |-> after[q]] : q \in rows}

Install(s, ups, tombs) ==
    [s EXCEPT !.db = Contents(s, ups, tombs),
              !.rv = Based(@, ups \cup tombs),
              !.journal = @ \cup Swept(s, ups, tombs)]

-----------------------------------------------------------------------------
(* A page, one transaction.  Upserts go in parents first, tombstones after  *)
(* them, children first; a tombstone over a dirty row or a dirty dependent  *)
(* is skipped.  Upserts left without a parent are parked instead; the       *)
(* cursor moves past everything.                                            *)

\* Mutation: looks at the row itself only.
TombsOverDependents(s, W) == {w \in W : w.val = Gone /\ Fresh(s, w) /\ ~Dirty(s, w.row)}

PageTombs(s, W) ==
    {w \in W : /\ w.val = Gone
               /\ Fresh(s, w)
               /\ ~Dirty(s, w.row)
               /\ \A q \in Descendants(w.row) : Present(s, q) => ~Dirty(s, q)}

\* Mutation: foreign keys are not checked at the end of the page.
OrphansUnchecked(s, W) == {}

Orphans(s, W) ==
    LET ups == Upserts(s, W)
        lands(a) == Present(s, a) \/ \E w \in ups : w.row = a
    IN  {w \in ups : /\ w.row \notin Wiped(PageTombs(s, W))
                     /\ \E a \in Ancestors[w.row] : ~lands(a)}

\* Mutation: what does not fit is forgotten.
ParkNothing(parked, W) == parked

Park(parked, W) == {p \in parked : \A w \in W : w.row # p.row} \cup W

ApplyPage(s, W, next) ==
    LET out == Orphans(s, W)
    IN  [Install(s, Upserts(s, W) \ out, PageTombs(s, W))
            EXCEPT !.parked = Park(@, out), !.cursor = next]

-----------------------------------------------------------------------------
(* The retry of the parked rows, one transaction, oldest server_seq first,  *)
(* foreign keys checked at once: a row goes in when each missing ancestor   *)
(* went in before it.  On the final pass a row whose parent is neither      *)
(* there nor parked any more is journaled and dropped.                      *)

\* Mutation: whatever is parked goes in.
ReadyAnyway(s) == Upserts(s, s.parked)

Ready(s) ==
    LET ups == Upserts(s, s.parked)
        before(a, v) == Present(s, a) \/ \E u \in ups : u.row = a /\ u.seq < v.seq
    IN  {w \in ups : \A b \in {w.row} \cup Ancestors[w.row] :
           Present(s, b) \/ \E v \in ups : v.row = b /\ \A a \in Ancestors[b] : before(a, v)}

Stuck(s) == Upserts(s, s.parked) \ Ready(s)

Abandoned(s) ==
    LET parents(w) == {v \in s.parked : v.row = Parent[w.row]}
        drop[w \in Stuck(s)] ==
            \A v \in parents(w) : v.seq < w.seq /\ (v \in Stuck(s) => drop[v])
    IN  {w \in Stuck(s) : drop[w]}

RetryParked(s, final) ==
    LET out == IF final THEN Abandoned(s) ELSE {}
    IN  [Install(s, Ready(s), {}) EXCEPT
            !.parked = Stuck(s) \ out,
            !.journal = @ \cup {[row |-> w.row, reason |-> "parent_deleted", val |-> w.val] :
                                  w \in out}]

-----------------------------------------------------------------------------
(* The results of a push, one transaction, in the order of the request.  An *)
(* accepted change becomes the row's version.  A lost one is journaled, and *)
(* its winner goes in unless an edit after the snapshot waits.              *)

\* Pending edits of q that the transaction has not purged when it reaches r.
StillDirty(s, snap, answers, r, q) ==
    \E o \in s.oplog : /\ o.row = q
                       /\ \/ o.ts > snap
                          \/ ~\E a \in answers : a.current.row = q /\ WireRank[q] <= WireRank[r]

Winners(s, snap, answers) ==
    {a.current : a \in {b \in answers : /\ b.lost
                                        /\ ~DirtyAfter(s, b.current.row, snap)
                                        /\ Fresh(s, b.current)}}

WinnerUps(s, snap, answers) == {w \in Winners(s, snap, answers) : w.val # Gone}

WinnerTombs(s, snap, answers) ==
    {w \in Winners(s, snap, answers) :
        /\ w.val = Gone
        /\ \A q \in Descendants(w.row) :
              Present(s, q) => ~StillDirty(s, snap, answers, w.row, q)}

\* A winner whose parent is not there when its turn comes fails its foreign
\* key: the error leaves the transaction, which is rolled back whole.
Rejected(s, snap, answers) ==
    LET ups   == WinnerUps(s, snap, answers)
        tombs == WinnerTombs(s, snap, answers)
        first(v, w) == WireRank[v.row] < WireRank[w.row]
        there(p, w) ==
            /\ Present(s, p) \/ \E v \in ups : v.row = p /\ first(v, w)
            /\ ~\E t \in tombs : first(t, w) /\ p \in {t.row} \cup Descendants(t.row)
    IN  \E w \in ups : Parent[w.row] # NoRow /\ ~there(Parent[w.row], w)

ApplyResults(s, snap, answers) ==
    LET kept == {a.current : a \in {b \in answers : ~b.lost}}
        won  == Install(s, WinnerUps(s, snap, answers), WinnerTombs(s, snap, answers))
    IN  [won EXCEPT
            !.oplog = Purge(@, {a.current.row : a \in answers}, snap),
            !.rv = Based(@, kept),
            !.journal = @ \cup {[row |-> a.current.row, reason |-> "lww_lost", val |-> Gone] :
                                  a \in {b \in answers : b.lost}}]

-----------------------------------------------------------------------------
(* The reset before a full reconciliation pull.  The parked rows stay.      *)

\* Mutations: the versions stay; the cursor stays.
ResetCursorOnly(s, epoch) == [s EXCEPT !.cursor = 0, !.epoch = epoch]
ResetVersionsOnly(s, epoch) ==
    [s EXCEPT !.rv = [r \in Row |-> 0], !.epoch = epoch]

Reset(s, epoch) ==
    [s EXCEPT !.cursor = 0, !.rv = [r \in Row |-> 0], !.epoch = epoch]

=============================================================================
