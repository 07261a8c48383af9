-------------------------- MODULE SyncCycle_proofs --------------------------
(***************************************************************************)
(* Proofs about SyncCycle, for every forest of rows, every set of devices  *)
(* and every value of the bounds.                                          *)
(***************************************************************************)
EXTENDS SyncCycle, TLAPS

-----------------------------------------------------------------------------
(* The shape of a store, as much of it as the proofs need: a record with    *)
(* these fields, whose db is a function on Row.                             *)

IsStore(s) ==
    s \in [db : [Row -> {s.db[r] : r \in Row}], oplog : {s.oplog}, rv : {s.rv},
           cursor : {s.cursor}, parked : {s.parked}, journal : {s.journal}, epoch : {s.epoch}]

\* New contents, versions and journal leave a store a store, with the same oplog.
LEMMA PutDb ==
    ASSUME NEW s, IsStore(s), NEW db, db = [r \in Row |-> db[r]], NEW rv, NEW journal
    PROVE  /\ IsStore([s EXCEPT !.db = db, !.rv = rv, !.journal = journal])
           /\ [s EXCEPT !.db = db, !.rv = rv, !.journal = journal].db = db
           /\ [s EXCEPT !.db = db, !.rv = rv, !.journal = journal].oplog = s.oplog
<1> DEFINE n == [s EXCEPT !.db = db, !.rv = rv, !.journal = journal]
           D == [Row -> {db[r] : r \in Row}]
<1>1. db \in D
  OBVIOUS
<1> HIDE DEF D
<1>2. n \in [db : D, oplog : {s.oplog}, rv : {rv}, cursor : {s.cursor},
             parked : {s.parked}, journal : {journal}, epoch : {s.epoch}]
  BY <1>1 DEF IsStore
<1>3. /\ n.db = db /\ n.oplog = s.oplog /\ n.rv = rv /\ n.cursor = s.cursor
      /\ n.parked = s.parked /\ n.journal = journal /\ n.epoch = s.epoch
  BY DEF IsStore
<1> HIDE DEF n
<1>4. IsStore(n)
  BY <1>2, <1>3 DEF IsStore, D
<1> QED
  BY <1>3, <1>4 DEF n

\* A new oplog, versions and journal leave a store a store, with the same contents.
LEMMA PutOplog ==
    ASSUME NEW s, IsStore(s), NEW oplog, NEW rv, NEW journal
    PROVE  /\ IsStore([s EXCEPT !.oplog = oplog, !.rv = rv, !.journal = journal])
           /\ [s EXCEPT !.oplog = oplog, !.rv = rv, !.journal = journal].db = s.db
           /\ [s EXCEPT !.oplog = oplog, !.rv = rv, !.journal = journal].oplog = oplog
<1> DEFINE n == [s EXCEPT !.oplog = oplog, !.rv = rv, !.journal = journal]
           D == [Row -> {s.db[r] : r \in Row}]
<1>1. s.db \in D
  BY DEF IsStore
<1> HIDE DEF D
<1>2. n \in [db : D, oplog : {oplog}, rv : {rv}, cursor : {s.cursor},
             parked : {s.parked}, journal : {journal}, epoch : {s.epoch}]
  BY <1>1 DEF IsStore
<1>3. /\ n.db = s.db /\ n.oplog = oplog /\ n.rv = rv /\ n.cursor = s.cursor
      /\ n.parked = s.parked /\ n.journal = journal /\ n.epoch = s.epoch
  BY DEF IsStore
<1> HIDE DEF n
<1>4. IsStore(n)
  BY <1>2, <1>3 DEF IsStore, D
<1> QED
  BY <1>3, <1>4 DEF n

\* A purge with its journal entries leaves the contents alone.
LEMMA PutJournal ==
    ASSUME NEW s, IsStore(s), NEW oplog, NEW journal
    PROVE  IsStore([s EXCEPT !.oplog = oplog, !.journal = journal])
<1> DEFINE n == [s EXCEPT !.oplog = oplog, !.journal = journal]
           D == [Row -> {s.db[r] : r \in Row}]
<1>1. s.db \in D
  BY DEF IsStore
<1> HIDE DEF D
<1>2. n \in [db : D, oplog : {oplog}, rv : {s.rv}, cursor : {s.cursor},
             parked : {s.parked}, journal : {journal}, epoch : {s.epoch}]
  BY <1>1 DEF IsStore
<1>3. /\ n.db = s.db /\ n.oplog = oplog /\ n.rv = s.rv /\ n.cursor = s.cursor
      /\ n.parked = s.parked /\ n.journal = journal /\ n.epoch = s.epoch
  BY DEF IsStore
<1> HIDE DEF n
<1>4. IsStore(n)
  BY <1>2, <1>3 DEF IsStore, D
<1> QED
  BY <1>4 DEF n

\* New parked rows and journal leave contents and oplog alone.
LEMMA PutParked ==
    ASSUME NEW s, IsStore(s), NEW parked, NEW journal
    PROVE  IsStore([s EXCEPT !.parked = parked, !.journal = journal])
<1> DEFINE n == [s EXCEPT !.parked = parked, !.journal = journal]
           D == [Row -> {s.db[r] : r \in Row}]
<1>1. s.db \in D
  BY DEF IsStore
<1> HIDE DEF D
<1>2. n \in [db : D, oplog : {s.oplog}, rv : {s.rv}, cursor : {s.cursor},
             parked : {parked}, journal : {journal}, epoch : {s.epoch}]
  BY <1>1 DEF IsStore
<1>3. /\ n.db = s.db /\ n.oplog = s.oplog /\ n.rv = s.rv /\ n.cursor = s.cursor
      /\ n.parked = parked /\ n.journal = journal /\ n.epoch = s.epoch
  BY DEF IsStore
<1> HIDE DEF n
<1>4. IsStore(n)
  BY <1>2, <1>3 DEF IsStore, D
<1> QED
  BY <1>4 DEF n

\* New parked rows and cursor leave contents and oplog alone.
LEMMA PutCursor ==
    ASSUME NEW s, IsStore(s), NEW parked, NEW cursor
    PROVE  IsStore([s EXCEPT !.parked = parked, !.cursor = cursor])
<1> DEFINE n == [s EXCEPT !.parked = parked, !.cursor = cursor]
           D == [Row -> {s.db[r] : r \in Row}]
<1>1. s.db \in D
  BY DEF IsStore
<1> HIDE DEF D
<1>2. n \in [db : D, oplog : {s.oplog}, rv : {s.rv}, cursor : {cursor},
             parked : {parked}, journal : {s.journal}, epoch : {s.epoch}]
  BY <1>1 DEF IsStore
<1>3. /\ n.db = s.db /\ n.oplog = s.oplog /\ n.rv = s.rv /\ n.cursor = cursor
      /\ n.parked = parked /\ n.journal = s.journal /\ n.epoch = s.epoch
  BY DEF IsStore
<1> HIDE DEF n
<1>4. IsStore(n)
  BY <1>2, <1>3 DEF IsStore, D
<1> QED
  BY <1>4 DEF n

-----------------------------------------------------------------------------
(* What each transaction makes of a store.                                  *)

\* A user's write changes one row.
LEMMA WriteKeeps ==
    ASSUME NEW s, IsStore(s), NEW r \in Row, NEW t
    PROVE  /\ IsStore(Write(s, r, t))
           /\ Write(s, r, t).db = [q \in Row |-> IF q = r THEN t ELSE s.db[q]]
  BY DEF Write, IsStore

\* A user's delete removes the row and what SQLite cascades to.
LEMMA EraseKeeps ==
    ASSUME NEW s, IsStore(s), NEW r \in Row, NEW t
    PROVE  /\ IsStore(Erase(s, r, t))
           /\ Erase(s, r, t).db =
                [q \in Row |-> IF q \in {r} \cup {p \in CascadeBelow(r) : Present(s, p)}
                               THEN Gone ELSE s.db[q]]
  BY DEF Erase, IsStore

\* The reset before a reconciliation touches neither contents nor oplog.
LEMMA ResetKeeps ==
    ASSUME NEW s, IsStore(s), NEW e
    PROVE  IsStore(Reset(s, e)) /\ Reset(s, e).db = s.db /\ Reset(s, e).oplog = s.oplog
<1> DEFINE n == Reset(s, e)
           D == [Row -> {s.db[r] : r \in Row}]
<1>1. s.db \in D
  BY DEF IsStore
<1> HIDE DEF D
<1>2. n \in [db : D, oplog : {s.oplog}, rv : {n.rv}, cursor : {n.cursor},
             parked : {s.parked}, journal : {s.journal}, epoch : {n.epoch}]
  BY <1>1 DEF IsStore, Reset
<1>3. n.db = s.db /\ n.oplog = s.oplog /\ n.parked = s.parked /\ n.journal = s.journal
  BY DEF IsStore, Reset
<1> HIDE DEF n
<1>4. IsStore(n)
  BY <1>2, <1>3 DEF IsStore, D
<1> QED
  BY <1>3, <1>4 DEF n

\* Refusing changes leaves the contents alone.
LEMMA RefuseKeeps ==
    ASSUME NEW s, IsStore(s), NEW snap, NEW changes
    PROVE  IsStore(Refuse(s, snap, changes)) /\ Refuse(s, snap, changes).db = s.db
<1> DEFINE oplog == Purge(s.oplog, {c.row : c \in changes}, snap)
           journal == s.journal \cup
                        {[row |-> c.row, reason |-> "apply_error", val |-> c.val] : c \in changes}
           n == [s EXCEPT !.oplog = oplog, !.journal = journal]
<1>1. Refuse(s, snap, changes) = n
  BY DEF Refuse
<1> HIDE DEF oplog, journal
<1>2. IsStore(n) /\ n.db = s.db
  <2>1. IsStore(n)
    BY PutJournal, Zenon
  <2>2. n.db = s.db
    BY DEF IsStore
  <2> QED
    BY <2>1, <2>2, Zenon
<1> QED
  BY <1>1, <1>2, Zenon

\* Taking versions over changes the contents to Contents, and no oplog entry.
LEMMA InstallKeeps ==
    ASSUME NEW s, IsStore(s), NEW ups, NEW tombs
    PROVE  /\ IsStore(Install(s, ups, tombs))
           /\ Install(s, ups, tombs).db = Contents(s, ups, tombs)
           /\ Install(s, ups, tombs).oplog = s.oplog
<1> DEFINE db == Contents(s, ups, tombs)
           rv == Based(s.rv, ups \cup tombs)
           journal == s.journal \cup Swept(s, ups, tombs)
           n == [s EXCEPT !.db = db, !.rv = rv, !.journal = journal]
<1>1. db = [r \in Row |-> db[r]]
  BY DEF Contents
<1>2. Install(s, ups, tombs) = n
  BY DEF Install
<1> HIDE DEF db, rv, journal
<1>3. IsStore(n)
  BY <1>1, PutDb, Zenon
<1>4. n.db = db /\ n.oplog = s.oplog
  BY DEF IsStore
<1> QED
  BY <1>2, <1>3, <1>4, Zenon DEF db

\* A page changes the contents by its fitting upserts and its tombstones only.
LEMMA PageKeeps ==
    ASSUME NEW s, IsStore(s), NEW W, NEW next
    PROVE  /\ IsStore(ApplyPage(s, W, next))
           /\ ApplyPage(s, W, next).db
                = Contents(s, Upserts(s, W) \ Orphans(s, W), PageTombs(s, W))
           /\ ApplyPage(s, W, next).oplog = s.oplog
<1> DEFINE i == Install(s, Upserts(s, W) \ Orphans(s, W), PageTombs(s, W))
           parked == Park(i.parked, Orphans(s, W))
           n == [i EXCEPT !.parked = parked, !.cursor = next]
<1>1. /\ IsStore(i)
      /\ i.db = Contents(s, Upserts(s, W) \ Orphans(s, W), PageTombs(s, W))
      /\ i.oplog = s.oplog
  BY InstallKeeps, Zenon
<1>2. ApplyPage(s, W, next) = n
  BY DEF ApplyPage
<1> HIDE DEF i, parked
<1>3. IsStore(n) /\ n.db = i.db /\ n.oplog = i.oplog
  <2>1. IsStore(n)
    BY <1>1, PutCursor, Zenon
  <2>2. n.db = i.db /\ n.oplog = i.oplog
    BY <1>1 DEF IsStore
  <2> QED
    BY <2>1, <2>2, Zenon
<1> QED
  BY <1>1, <1>2, <1>3, Zenon

\* A retry changes the contents by the rows that are ready only.
LEMMA RetryKeeps ==
    ASSUME NEW s, IsStore(s), NEW final
    PROVE  /\ IsStore(RetryParked(s, final))
           /\ RetryParked(s, final).db = Contents(s, Ready(s), {})
           /\ RetryParked(s, final).oplog = s.oplog
<1> DEFINE i == Install(s, Ready(s), {})
           out == IF final THEN Abandoned(s) ELSE {}
           parked == Stuck(s) \ out
           journal == i.journal \cup
                        {[row |-> w.row, reason |-> "parent_deleted", val |-> w.val] : w \in out}
           n == [i EXCEPT !.parked = parked, !.journal = journal]
<1>1. IsStore(i) /\ i.db = Contents(s, Ready(s), {}) /\ i.oplog = s.oplog
  BY InstallKeeps, Zenon
<1>2. RetryParked(s, final) = n
  BY DEF RetryParked
<1> HIDE DEF i, parked, journal
<1>3. IsStore(n) /\ n.db = i.db /\ n.oplog = i.oplog
  <2>1. IsStore(n)
    BY <1>1, PutParked, Zenon
  <2>2. n.db = i.db /\ n.oplog = i.oplog
    BY <1>1 DEF IsStore
  <2> QED
    BY <2>1, <2>2, Zenon
<1> QED
  BY <1>1, <1>2, <1>3, Zenon

\* A push's results change the contents by its winners and purge what was pushed.
LEMMA ResultsKeep ==
    ASSUME NEW s, IsStore(s), NEW snap, NEW answers
    PROVE  /\ IsStore(ApplyResults(s, snap, answers))
           /\ ApplyResults(s, snap, answers).db
                = Contents(s, WinnerUps(s, snap, answers), WinnerTombs(s, snap, answers))
           /\ ApplyResults(s, snap, answers).oplog
                = Purge(s.oplog, {a.current.row : a \in answers}, snap)
<1> DEFINE i == Install(s, WinnerUps(s, snap, answers), WinnerTombs(s, snap, answers))
           kept == {a.current : a \in {b \in answers : ~b.lost}}
           oplog == Purge(i.oplog, {a.current.row : a \in answers}, snap)
           rv == Based(i.rv, kept)
           journal == i.journal \cup
                        {[row |-> a.current.row, reason |-> "lww_lost", val |-> Gone] :
                           a \in {b \in answers : b.lost}}
           n == [i EXCEPT !.oplog = oplog, !.rv = rv, !.journal = journal]
<1>1. /\ IsStore(i)
      /\ i.db = Contents(s, WinnerUps(s, snap, answers), WinnerTombs(s, snap, answers))
      /\ i.oplog = s.oplog
  BY InstallKeeps, Zenon
<1>2. ApplyResults(s, snap, answers) = n
  BY DEF ApplyResults
<1>3. oplog = Purge(s.oplog, {a.current.row : a \in answers}, snap)
  BY <1>1
<1> HIDE DEF i, oplog, rv, journal
<1>4. IsStore(n)
  BY <1>1, PutOplog, Zenon
<1>5. n.db = i.db /\ n.oplog = oplog
  BY <1>1 DEF IsStore
<1> QED
  BY <1>1, <1>2, <1>3, <1>4, <1>5, Zenon

-----------------------------------------------------------------------------
(* Foreign keys.                                                            *)

Upright(s) ==
    \A r \in Row : Present(s, r) /\ Parent[r] # NoRow => Present(s, Parent[r])

\* A row's ancestors are its parent and its parent's ancestors.
LEMMA ParentFacts ==
    ASSUME NEW r \in Row, Parent[r] # NoRow
    PROVE  /\ Parent[r] \in Row
           /\ Parent[r] \in Ancestors[r]
           /\ Ancestors[Parent[r]] \subseteq Ancestors[r]
           /\ Ancestors[r] = {Parent[r]} \cup Ancestors[Parent[r]]
  BY TreeAssumption

\* Tombstones take whole subtrees and upserts bring a row in only beside its
\* parent, so the foreign keys hold in what they leave.
LEMMA ContentsUpright ==
    ASSUME NEW s, Upright(s), NEW ups, NEW tombs,
           \A w \in ups : w.val # Gone,
           \A w \in ups :
               w.row \in Row /\ Parent[w.row] # NoRow /\ w.row \notin Wiped(tombs) =>
                   Present(s, Parent[w.row]) \/ \E v \in ups : v.row = Parent[w.row],
           NEW n, n.db = Contents(s, ups, tombs)
    PROVE  Upright(n)
<1> SUFFICES ASSUME NEW r \in Row, n.db[r] # Gone, Parent[r] # NoRow
             PROVE  n.db[Parent[r]] # Gone
  BY DEF Upright, Present
<1> DEFINE p == Parent[r]
<1>1. p \in Row
  BY ParentFacts
<1>2. r \notin Wiped(tombs)
  BY DEF Contents
<1>3. p \notin Wiped(tombs)
  <2> SUFFICES ASSUME NEW w \in tombs, p \in {w.row} \cup Descendants(w.row)
               PROVE  r \in Descendants(w.row)
    BY <1>2 DEF Wiped
  <2>1. w.row \in Ancestors[r]
    BY ParentFacts DEF Descendants
  <2> QED
    BY <2>1 DEF Descendants
<1>4. Present(s, p) \/ \E v \in ups : v.row = p
  <2>1. CASE \E w \in ups : w.row = r
    BY <2>1, <1>2
  <2>2. CASE ~\E w \in ups : w.row = r
    <3>1. s.db[r] # Gone
      BY <2>2, <1>2 DEF Contents
    <3> QED
      BY <3>1 DEF Upright, Present
  <2> QED
    BY <2>1, <2>2
<1>5. CASE \E v \in ups : v.row = p
  <2>1. Named(ups, p) \in ups
    BY <1>5 DEF Named
  <2>2. n.db[p] = Named(ups, p).val
    BY <1>1, <1>3, <1>5 DEF Contents
  <2> QED
    BY <2>1, <2>2
<1>6. CASE ~\E v \in ups : v.row = p
  BY <1>1, <1>3, <1>4, <1>6 DEF Contents, Present
<1> QED
  BY <1>5, <1>6

\* A page leaves out every upsert whose parent does not land with it.
LEMMA PageUpright ==
    ASSUME NEW s, IsStore(s), Upright(s), NEW W, NEW next
    PROVE  Upright(ApplyPage(s, W, next))
<1> DEFINE ups == Upserts(s, W) \ Orphans(s, W)
<1>1. \A w \in ups : w.val # Gone
  BY DEF Upserts
<1>2. ASSUME NEW w \in ups, w.row \in Row, Parent[w.row] # NoRow,
             w.row \notin Wiped(PageTombs(s, W)), ~Present(s, Parent[w.row])
      PROVE  \E v \in ups : v.row = Parent[w.row]
  <2>1. \A a \in Ancestors[w.row] : Present(s, a) \/ \E v \in Upserts(s, W) : v.row = a
    BY <1>2 DEF Orphans
  <2>2. PICK v \in Upserts(s, W) : v.row = Parent[w.row]
    BY <1>2, <2>1, ParentFacts
  <2>3. v \notin Orphans(s, W)
    BY <1>2, <2>1, <2>2, ParentFacts DEF Orphans
  <2> QED
    BY <2>2, <2>3
<1>3. ApplyPage(s, W, next).db = Contents(s, ups, PageTombs(s, W))
  BY PageKeeps
<1> HIDE DEF ups
<1> QED
  BY <1>1, <1>2, <1>3, ContentsUpright

\* A retried row goes in only after every missing ancestor.
LEMMA RetryUpright ==
    ASSUME NEW s, IsStore(s), Upright(s), NEW final
    PROVE  Upright(RetryParked(s, final))
<1> DEFINE ups == Upserts(s, s.parked)
           before(a, v) == Present(s, a) \/ \E u \in ups : u.row = a /\ u.seq < v.seq
           lands(b) == \/ Present(s, b)
                       \/ \E v \in ups : v.row = b /\ \A a \in Ancestors[b] : before(a, v)
<1>1. Ready(s) = {w \in ups : \A b \in {w.row} \cup Ancestors[w.row] : lands(b)}
  BY DEF Ready
<1>2. \A w \in Ready(s) : w.val # Gone
  BY DEF Ready, Upserts
<1>3. ASSUME NEW w \in Ready(s), w.row \in Row, Parent[w.row] # NoRow,
             ~Present(s, Parent[w.row])
      PROVE  \E v \in Ready(s) : v.row = Parent[w.row]
  <2>1. \A b \in Ancestors[w.row] : lands(b)
    BY <1>1
  <2>2. PICK v \in ups : v.row = Parent[w.row]
    BY <1>3, <2>1, ParentFacts
  <2>3. {v.row} \cup Ancestors[v.row] \subseteq Ancestors[w.row]
    BY <1>3, <2>2, ParentFacts
  <2> HIDE DEF lands, ups
  <2>4. v \in Ready(s)
    BY <1>1, <2>1, <2>2, <2>3
  <2> QED
    BY <2>2, <2>4
<1> QED
  BY <1>2, <1>3, RetryKeeps, ContentsUpright

\* Winners that would break a foreign key are rejected with the whole transaction.
LEMMA ResultsUpright ==
    ASSUME NEW s, IsStore(s), Upright(s), NEW snap, NEW answers,
           ~Rejected(s, snap, answers)
    PROVE  Upright(ApplyResults(s, snap, answers))
<1> DEFINE ups == WinnerUps(s, snap, answers)
<1>1. \A w \in ups : w.val # Gone
  BY DEF WinnerUps
<1>2. \A w \in ups : Parent[w.row] # NoRow =>
          Present(s, Parent[w.row]) \/ \E v \in ups : v.row = Parent[w.row]
  BY DEF Rejected
<1>3. ApplyResults(s, snap, answers).db
        = Contents(s, ups, WinnerTombs(s, snap, answers))
  BY ResultsKeep
<1> HIDE DEF ups
<1> QED
  BY <1>1, <1>2, <1>3, ContentsUpright

\* The user writes a row beside its parent.
LEMMA WriteUpright ==
    ASSUME NEW s, IsStore(s), Upright(s), NEW r \in Row, NEW t, t # Gone,
           Parent[r] # NoRow => Present(s, Parent[r])
    PROVE  Upright(Write(s, r, t))
<1>1. Write(s, r, t).db = [q \in Row |-> IF q = r THEN t ELSE s.db[q]]
  BY WriteKeeps
<1> SUFFICES ASSUME NEW q \in Row, Write(s, r, t).db[q] # Gone, Parent[q] # NoRow
             PROVE  Write(s, r, t).db[Parent[q]] # Gone
  BY DEF Upright, Present
<1>2. Parent[q] \in Row
  BY ParentFacts
<1>3. Present(s, Parent[q])
  BY <1>1 DEF Upright, Present
<1> QED
  BY <1>1, <1>2, <1>3 DEF Present

\* A delete takes its CASCADE subtree, and the guard on RESTRICT rows leaves no
\* other child behind.
LEMMA EraseUpright ==
    ASSUME NEW s, IsStore(s), Upright(s), NEW r \in Row, NEW t,
           \A q \in RestrictBelow(r) : ~Present(s, q)
    PROVE  Upright(Erase(s, r, t))
<1> DEFINE n == Erase(s, r, t)
           gone == {r} \cup {p \in CascadeBelow(r) : Present(s, p)}
<1>1. n.db = [q \in Row |-> IF q \in gone THEN Gone ELSE s.db[q]]
  BY EraseKeeps
<1> SUFFICES ASSUME NEW q \in Row, n.db[q] # Gone, Parent[q] # NoRow
             PROVE  n.db[Parent[q]] # Gone
  BY DEF Upright, Present
<1>2. q \notin gone /\ Present(s, q)
  BY <1>1 DEF Present
<1>3. Parent[q] \in Row /\ Present(s, Parent[q])
  BY <1>2, ParentFacts DEF Upright
<1>4. Parent[q] \notin gone
  <2> SUFFICES ASSUME Parent[q] \in {r} \cup CascadeBelow(r)
               PROVE  FALSE
    OBVIOUS
  <2>1. q \in Descendants(r)
    BY ParentFacts DEF Descendants, CascadeBelow
  <2>2. q \in CascadeRow
    BY <1>2, <2>1 DEF RestrictBelow
  <2>3. Ancestors[q] \cap Descendants(r) \subseteq CascadeRow
    <3>1. CASE Parent[q] = r
      <4>1. Ancestors[r] \cap Descendants(r) = {}
        BY TreeAssumption DEF Descendants
      <4> QED
        BY <3>1, <4>1, ParentFacts, TreeAssumption DEF Descendants
    <3>2. CASE Parent[q] \in CascadeBelow(r)
      BY <3>2, ParentFacts DEF CascadeBelow
    <3> QED
      BY <3>1, <3>2
  <2>4. q \in CascadeBelow(r)
    BY <2>1, <2>2, <2>3 DEF CascadeBelow
  <2> QED
    BY <1>2, <2>4
<1> QED
  BY <1>1, <1>3, <1>4 DEF Present

-----------------------------------------------------------------------------
(* The inductive invariant.  ForeignKeysHold is not inductive alone: that a *)
(* transaction keeps the foreign keys needs stores that are records, and a  *)
(* write that puts in something other than Gone needs a clock that counts.  *)

Shape ==
    /\ clock \in Nat
    /\ store = [d \in Device |-> store[d]]
    /\ \A d \in Device : IsStore(store[d])

Inv == Shape /\ ForeignKeysHold

\* ForeignKeysHold, device by device.
LEMMA ForeignKeysByDevice ==
    ForeignKeysHold <=> \A d \in Device : Upright(store[d])
  BY DEF ForeignKeysHold, Upright

\* A step that leaves the stores alone.
LEMMA StoresStay ==
    ASSUME Inv, UNCHANGED <<clock, store>>
    PROVE  Inv'
  BY DEF Inv, Shape, ForeignKeysHold, IsStore, Present

\* A step that replaces one device's store.
LEMMA OneStoreMoves ==
    ASSUME Inv, NEW d \in Device, NEW n, IsStore(n), Upright(n),
           store' = [store EXCEPT ![d] = n], clock' \in Nat
    PROVE  Inv'
<1>1. store' = [c \in Device |-> IF c = d THEN n ELSE store[c]]
  BY DEF Inv, Shape
<1>2. \A c \in Device : IsStore(store'[c]) /\ Upright(store'[c])
  BY <1>1, ForeignKeysByDevice DEF Inv, Shape
<1>3. Shape'
  BY <1>1, <1>2 DEF Shape, IsStore
<1>4. ForeignKeysHold'
  BY <1>2 DEF ForeignKeysHold, Upright, Present
<1> QED
  BY <1>3, <1>4 DEF Inv

\* Each device starts with the empty archive.
LEMMA InvInit == Init => Inv
  BY DEF Init, Inv, Shape, ForeignKeysHold, EmptyStore, IsStore, Present

\* Every action keeps the invariant.
LEMMA InvStep == Inv /\ [Next]_vars => Inv'
<1> SUFFICES ASSUME Inv, [Next]_vars
             PROVE  Inv'
  OBVIOUS
<1>1. ASSUME NEW d \in Device
      PROVE  d \in DOMAIN store /\ IsStore(store[d]) /\ Upright(store[d]) /\ clock \in Nat
  BY ForeignKeysByDevice DEF Inv, Shape
<1>2. ASSUME NEW s, IsStore(s), Upright(s), NEW e
      PROVE  IsStore(Reset(s, e)) /\ Upright(Reset(s, e))
  BY <1>2, ResetKeeps DEF Upright, Present
<1>3. ASSUME NEW s, IsStore(s), Upright(s), NEW snap, NEW bad
      PROVE  IsStore(Refuse(s, snap, bad)) /\ Upright(Refuse(s, snap, bad))
  BY <1>3, RefuseKeeps DEF Upright, Present
<1>4. ASSUME NEW d \in Device, NEW r \in Row, UserWrite(d, r)
      PROVE  Inv'
  <2> DEFINE n == Write(store[d], r, clock + 1)
  <2>1. IsStore(n) /\ Upright(n)
    <3>1. clock + 1 # Gone
      BY <1>1, <1>4 DEF Gone
    <3> QED
      BY <1>1, <1>4, <3>1, WriteKeeps, WriteUpright DEF UserWrite
  <2>2. store' = [store EXCEPT ![d] = n] /\ clock' \in Nat
    BY <1>1, <1>4 DEF UserWrite
  <2> HIDE DEF n
  <2> QED
    BY <2>1, <2>2, OneStoreMoves
<1>5. ASSUME NEW d \in Device, NEW r \in Deletable, UserDelete(d, r)
      PROVE  Inv'
  <2> DEFINE n == Erase(store[d], r, clock + 1)
  <2>1. r \in Row
    BY BoundsAssumption
  <2>2. IsStore(n) /\ Upright(n)
    BY <1>1, <1>5, <2>1, EraseKeeps, EraseUpright DEF UserDelete
  <2>3. store' = [store EXCEPT ![d] = n] /\ clock' \in Nat
    BY <1>1, <1>5 DEF UserDelete
  <2> HIDE DEF n
  <2> QED
    BY <2>2, <2>3, OneStoreMoves
<1>6. ASSUME NEW d \in Device, FullResync(d)
      PROVE  Inv'
  BY <1>1, <1>2, <1>6, OneStoreMoves DEF FullResync
<1>7. ASSUME NEW d \in Device, Begin(d)
      PROVE  Inv'
  <2> DEFINE s == CheckEpoch(store[d])
  <2>1. IsStore(s) /\ Upright(s)
    BY <1>1, <1>2 DEF CheckEpoch
  <2>2. IsStore(RetryParked(s, FALSE)) /\ Upright(RetryParked(s, FALSE))
    BY <2>1, RetryKeeps, RetryUpright
  <2>3. store' = [store EXCEPT ![d] = RetryParked(s, FALSE)] /\ clock' = clock
    BY <1>7 DEF Begin
  <2> QED
    BY <1>1, <2>2, <2>3, OneStoreMoves
<1>8. ASSUME NEW d \in Device, TakeSnapshot(d)
      PROVE  Inv'
  BY <1>8, StoresStay DEF TakeSnapshot
<1>9. ASSUME NEW d \in Device, PushAnswered(d)
      PROVE  Inv'
  <2>1. PICK bad : store' = [store EXCEPT ![d] = Refuse(@, cycle[d].snap, bad)]
    BY <1>9 DEF PushAnswered
  <2>2. clock' = clock
    BY <1>9 DEF PushAnswered
  <2> QED
    BY <1>1, <1>3, <2>1, <2>2, OneStoreMoves
<1>10. ASSUME NEW d \in Device, PushBroken(d)
       PROVE  Inv'
  <2>1. PICK bad : store' = [store EXCEPT ![d] = Refuse(@, cycle[d].snap, bad)]
    BY <1>10 DEF PushBroken
  <2>2. clock' = clock
    BY <1>10 DEF PushBroken
  <2> QED
    BY <1>1, <1>3, <2>1, <2>2, OneStoreMoves
<1>11. ASSUME NEW d \in Device, ApplyAnswers(d)
       PROVE  Inv'
  <2> DEFINE n == ApplyResults(store[d], cycle[d].snap, cycle[d].answers)
  <2>1. IsStore(n) /\ Upright(n)
    BY <1>1, <1>11, ResultsKeep, ResultsUpright DEF ApplyAnswers
  <2>2. store' = [store EXCEPT ![d] = n] /\ clock' = clock
    BY <1>11 DEF ApplyAnswers
  <2> QED
    BY <1>1, <2>1, <2>2, OneStoreMoves
<1>12. ASSUME NEW d \in Device, FailAnswers(d)
       PROVE  Inv'
  BY <1>12, StoresStay DEF FailAnswers
<1>13. ASSUME NEW d \in Device, Retry(d)
       PROVE  Inv'
  BY <1>1, <1>13, RetryKeeps, RetryUpright, OneStoreMoves DEF Retry
<1>14. ASSUME NEW d \in Device, PullReset(d)
       PROVE  Inv'
  BY <1>1, <1>2, <1>14, OneStoreMoves DEF PullReset
<1>15. ASSUME NEW d \in Device, PullPage(d)
       PROVE  Inv'
  <2> DEFINE since == store[d].cursor
             n == ApplyPage(store[d], Page(log, since, PageLimit), PageEnd(log, since, PageLimit))
  <2>1. IsStore(n) /\ Upright(n)
    BY <1>1, PageKeeps, PageUpright
  <2>2. store' = [store EXCEPT ![d] = n] /\ clock' = clock
    BY <1>15 DEF PullPage
  <2> QED
    BY <1>1, <2>1, <2>2, OneStoreMoves
<1>16. ASSUME NEW d \in Device, FinalRetry(d)
       PROVE  Inv'
  BY <1>1, <1>16, RetryKeeps, RetryUpright, OneStoreMoves DEF FinalRetry
<1>17. ASSUME NEW d \in Device, Stop(d)
       PROVE  Inv'
  BY <1>17, StoresStay DEF Stop
<1>18. CASE Restore
  BY <1>18, StoresStay DEF Restore
<1>19. CASE UNCHANGED vars
  BY <1>19, StoresStay DEF vars
<1> QED
  BY <1>4, <1>5, <1>6, <1>7, <1>8, <1>9, <1>10, <1>11, <1>12, <1>13, <1>14, <1>15, <1>16,
     <1>17, <1>18, <1>19
  DEF Next, Cycle, Fault

\* No committed archive ever holds a row whose parent is missing: whatever pages
\* arrive in whatever order, through the parking, its retries and the winners of
\* a push, on every device and for every forest of rows.
THEOREM ForeignKeysAlwaysHold == Spec => []ForeignKeysHold
<1>1. Inv => ForeignKeysHold
  BY DEF Inv
<1> QED
  BY InvInit, InvStep, <1>1, PTL DEF Spec

-----------------------------------------------------------------------------
(* Pending edits.                                                           *)

\* Store n comes after store s, and no row that changed between them has an edit
\* left to push in n.
Untouched(s, n) == \A r \in Row : n.db[r] # s.db[r] => ~Dirty(n, r)

\* Remote versions go in untouched when none of them lands on a row with an edit
\* left to push, and no tombstone takes one along.
LEMMA ContentsUntouched ==
    ASSUME NEW s, NEW ups, NEW tombs, NEW n, n.db = Contents(s, ups, tombs),
           \A w \in ups : ~Dirty(n, w.row),
           \A w \in tombs : \A q \in {w.row} \cup Descendants(w.row) :
               Present(s, q) => ~Dirty(n, q)
    PROVE  Untouched(s, n)
<1> SUFFICES ASSUME NEW r \in Row, n.db[r] # s.db[r]
             PROVE  ~Dirty(n, r)
  BY DEF Untouched
<1>1. CASE r \in Wiped(tombs)
  <2>1. PICK w \in tombs : r \in {w.row} \cup Descendants(w.row)
    BY <1>1 DEF Wiped
  <2>2. Present(s, r)
    BY <1>1 DEF Contents, Present
  <2> QED
    BY <2>1, <2>2
<1>2. CASE r \notin Wiped(tombs)
  <2>1. PICK w \in ups : w.row = r
    BY <1>2 DEF Contents
  <2> QED
    BY <2>1
<1> QED
  BY <1>1, <1>2

\* A page skips every row that is dirty, and every tombstone over a dirty row.
LEMMA PageUntouched ==
    ASSUME NEW s, IsStore(s), NEW W, NEW next
    PROVE  Untouched(s, ApplyPage(s, W, next))
<1> DEFINE n == ApplyPage(s, W, next)
           ups == Upserts(s, W) \ Orphans(s, W)
<1>1. n.db = Contents(s, ups, PageTombs(s, W)) /\ n.oplog = s.oplog
  BY PageKeeps
<1> HIDE DEF n
<1>2. \A r : Dirty(n, r) <=> Dirty(s, r)
  BY <1>1 DEF Dirty
<1>3. \A w \in ups : ~Dirty(n, w.row)
  BY <1>2 DEF Upserts
<1>4. \A w \in PageTombs(s, W) : \A q \in {w.row} \cup Descendants(w.row) :
          Present(s, q) => ~Dirty(n, q)
  BY <1>2 DEF PageTombs
<1> HIDE DEF ups
<1>5. Untouched(s, n)
  BY <1>1, <1>3, <1>4, ContentsUntouched
<1> QED
  BY <1>5 DEF n

\* A retry puts in no row that is dirty.
LEMMA RetryUntouched ==
    ASSUME NEW s, IsStore(s), NEW final
    PROVE  Untouched(s, RetryParked(s, final))
<1> DEFINE n == RetryParked(s, final)
<1>1. n.db = Contents(s, Ready(s), {}) /\ n.oplog = s.oplog
  BY RetryKeeps
<1> HIDE DEF n
<1>2. \A w \in Ready(s) : ~Dirty(n, w.row)
  BY <1>1 DEF Ready, Upserts, Dirty
<1>3. Untouched(s, n)
  BY <1>1, <1>2, ContentsUntouched
<1> QED
  BY <1>3 DEF n

\* A winner takes a row whose edits the same transaction purges, and takes a
\* dependent along only when its edits are purged too.
LEMMA ResultsUntouched ==
    ASSUME NEW s, IsStore(s), NEW snap, NEW answers
    PROVE  Untouched(s, ApplyResults(s, snap, answers))
<1> DEFINE n == ApplyResults(s, snap, answers)
           rows == {a.current.row : a \in answers}
           ups == WinnerUps(s, snap, answers)
           tombs == WinnerTombs(s, snap, answers)
<1>1. n.db = Contents(s, ups, tombs) /\ n.oplog = Purge(s.oplog, rows, snap)
  BY ResultsKeep
<1> HIDE DEF n
<1>2. \A q \in rows : Dirty(n, q) => DirtyAfter(s, q, snap)
  BY <1>1 DEF Dirty, DirtyAfter, Purge
<1>3. \A w \in Winners(s, snap, answers) : w.row \in rows /\ ~DirtyAfter(s, w.row, snap)
  BY DEF Winners
<1>4. \A w \in ups : ~Dirty(n, w.row)
  BY <1>2, <1>3 DEF WinnerUps
<1>5. ASSUME NEW w \in tombs, NEW q \in {w.row} \cup Descendants(w.row), Present(s, q)
      PROVE  ~Dirty(n, q)
  <2>1. CASE q = w.row
    BY <1>2, <1>3, <2>1 DEF WinnerTombs
  <2>2. CASE q \in Descendants(w.row)
    <3>1. ~StillDirty(s, snap, answers, w.row, q)
      BY <1>5, <2>2 DEF WinnerTombs
    <3>2. ASSUME NEW o \in s.oplog, o.row = q
          PROVE  ~(o.ts > snap) /\ q \in rows
      BY <3>1, <3>2 DEF StillDirty
    <3> HIDE DEF rows
    <3> QED
      BY <1>1, <3>2 DEF Dirty, Purge
  <2> QED
    BY <2>1, <2>2
<1> HIDE DEF ups, tombs
<1>6. Untouched(s, n)
  BY <1>1, <1>4, <1>5, ContentsUntouched
<1> QED
  BY <1>6 DEF n

\* A step that replaces one device's store leaves its pending edits untouched
\* when the store does.
LEMMA OneStoreUntouched ==
    ASSUME Inv, NEW d \in Device, NEW n, Untouched(store[d], n),
           store' = [store EXCEPT ![d] = n]
    PROVE  \A c \in Device : Untouched(store[c], store'[c])
  BY DEF Inv, Shape, Untouched

\* Every step that is not an edit of the user leaves pending edits untouched.
LEMMA UntouchedStep ==
    Inv /\ [Next]_vars /\ clock' = clock => \A d \in Device : Untouched(store[d], store'[d])
<1> SUFFICES ASSUME Inv, [Next]_vars, clock' = clock
             PROVE  \A d \in Device : Untouched(store[d], store'[d])
  OBVIOUS
<1>1. \A d \in Device : IsStore(store[d])
  BY DEF Inv, Shape
<1>2. clock + 1 # clock
  BY DEF Inv, Shape
<1>3. ASSUME NEW s, IsStore(s), NEW n, n.db = s.db
      PROVE  Untouched(s, n)
  BY <1>3 DEF Untouched
<1>4. ASSUME store' = store
      PROVE  \A d \in Device : Untouched(store[d], store'[d])
  BY <1>4 DEF Untouched
<1>5. ASSUME NEW d \in Device, NEW n, IsStore(store[d]), n.db = store[d].db,
             store' = [store EXCEPT ![d] = n]
      PROVE  \A c \in Device : Untouched(store[c], store'[c])
  BY <1>3, <1>5, OneStoreUntouched
<1>6. ASSUME NEW d \in Device, NEW r \in Row, UserWrite(d, r)
      PROVE  FALSE
  BY <1>2, <1>6 DEF UserWrite
<1>7. ASSUME NEW d \in Device, NEW r \in Deletable, UserDelete(d, r)
      PROVE  FALSE
  BY <1>2, <1>7 DEF UserDelete
<1>8. ASSUME NEW d \in Device, FullResync(d)
      PROVE  \A c \in Device : Untouched(store[c], store'[c])
  BY <1>1, <1>5, <1>8, ResetKeeps DEF FullResync
<1>9. ASSUME NEW d \in Device, Begin(d)
      PROVE  \A c \in Device : Untouched(store[c], store'[c])
  <2> DEFINE s == CheckEpoch(store[d])
             n == RetryParked(s, FALSE)
  <2>1. IsStore(s) /\ s.db = store[d].db
    BY <1>1, ResetKeeps DEF CheckEpoch
  <2>2. Untouched(s, n)
    BY <2>1, RetryUntouched
  <2>3. Untouched(store[d], n)
    BY <2>1, <2>2 DEF Untouched
  <2>4. store' = [store EXCEPT ![d] = n]
    BY <1>9 DEF Begin
  <2> HIDE DEF n
  <2> QED
    BY <2>3, <2>4, OneStoreUntouched
<1>10. ASSUME NEW d \in Device, PushAnswered(d) \/ PushBroken(d)
       PROVE  \A c \in Device : Untouched(store[c], store'[c])
  <2>1. PICK bad : store' = [store EXCEPT ![d] = Refuse(@, cycle[d].snap, bad)]
    BY <1>10 DEF PushAnswered, PushBroken
  <2> QED
    BY <1>1, <1>5, <2>1, RefuseKeeps
<1>11. ASSUME NEW d \in Device, ApplyAnswers(d)
       PROVE  \A c \in Device : Untouched(store[c], store'[c])
  <2> DEFINE n == ApplyResults(store[d], cycle[d].snap, cycle[d].answers)
  <2>1. Untouched(store[d], n)
    BY <1>1, ResultsUntouched
  <2>2. store' = [store EXCEPT ![d] = n]
    BY <1>11 DEF ApplyAnswers
  <2> HIDE DEF n
  <2> QED
    BY <2>1, <2>2, OneStoreUntouched
<1>12. ASSUME NEW d \in Device, Retry(d) \/ FinalRetry(d)
       PROVE  \A c \in Device : Untouched(store[c], store'[c])
  <2>1. PICK final : store' = [store EXCEPT ![d] = RetryParked(@, final)]
    BY <1>12 DEF Retry, FinalRetry
  <2> QED
    BY <1>1, <2>1, RetryUntouched, OneStoreUntouched
<1>13. ASSUME NEW d \in Device, PullReset(d)
       PROVE  \A c \in Device : Untouched(store[c], store'[c])
  <2>1. PICK e : store' = [store EXCEPT ![d] = Reset(@, e)]
    BY <1>13 DEF PullReset
  <2> QED
    BY <1>1, <1>5, <2>1, ResetKeeps
<1>14. ASSUME NEW d \in Device, PullPage(d)
       PROVE  \A c \in Device : Untouched(store[c], store'[c])
  <2> DEFINE since == store[d].cursor
             n == ApplyPage(store[d], Page(log, since, PageLimit), PageEnd(log, since, PageLimit))
  <2>1. Untouched(store[d], n)
    BY <1>1, PageUntouched
  <2>2. store' = [store EXCEPT ![d] = n]
    BY <1>14 DEF PullPage
  <2> HIDE DEF n
  <2> QED
    BY <2>1, <2>2, OneStoreUntouched
<1>15. ASSUME NEW d \in Device, TakeSnapshot(d) \/ FailAnswers(d) \/ Stop(d)
       PROVE  store' = store
  BY <1>15 DEF TakeSnapshot, FailAnswers, Stop
<1>16. Restore \/ UNCHANGED vars => store' = store
  BY DEF Restore, vars
<1> QED
  BY <1>4, <1>6, <1>7, <1>8, <1>9, <1>10, <1>11, <1>12, <1>13, <1>14, <1>15, <1>16
  DEF Next, Cycle, Fault

\* Remote versions never overwrite unpushed work: whatever a page, a retry or
\* the winner of a push changes, no edit of that row is left waiting.
THEOREM PendingEditsStayUntouched == Spec => PendingEditsUntouched
<1>1. Inv /\ [Next]_vars =>
        [clock' = clock =>
           \A d \in Device, r \in Row :
              store'[d].db[r] # store[d].db[r] => ~Dirty(store'[d], r)]_vars
  BY UntouchedStep DEF Untouched
<1> QED
  BY InvInit, InvStep, <1>1, PTL DEF Spec, PendingEditsUntouched

=============================================================================
