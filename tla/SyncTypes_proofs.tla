--------------------------- MODULE SyncTypes_proofs ---------------------------
(***************************************************************************)
(* Type correctness of SyncCycle, and what rests on it: edits leave the    *)
(* oplog only when judged.  For every forest of rows, every set of devices *)
(* and every value of the bounds.                                          *)
(***************************************************************************)
EXTENDS SyncCycle, FiniteSetTheorems, SequenceTheorems, TLAPS

-----------------------------------------------------------------------------
(* The types of TypeOK, with the clock c and the epoch e they are bound by.  *)

Entries(c) == [row : Row, op : {"U", "D"}, ts : 1..c]
Versions(c) == [row : Row, seq : Nat \ {0}, val : 0..c]
Conflicts(c) == [row : Row, reason : Reason, val : 0..c]
Stores(c, e) ==
    [db : [Row -> 0..c], oplog : SUBSET Entries(c), rv : [Row -> Nat], cursor : Nat,
     parked : SUBSET Versions(c), journal : SUBSET Conflicts(c), epoch : 1..e]
Logs(c) == Seq([row : Row, ts : 1..c, val : 0..c])
SentChanges(c) == [row : Row, base : Nat, ts : 1..c, val : 0..c]
Results(c) == [lost : BOOLEAN, current : Versions(c)]
Cycles(c) == [stage : Stage, snap : 0..c, answers : SUBSET Results(c), more : BOOLEAN]

\* TypeOK, in these terms.
LEMMA TypeOKByParts ==
    TypeOK <=> /\ log \in Logs(clock)
               /\ epoch \in Nat \ {0}
               /\ clock \in Nat
               /\ store \in [Device -> Stores(clock, epoch)]
               /\ cycle \in [Device -> Cycles(clock)]
               /\ judged \subseteq Row \X (1..clock)
  BY DEF TypeOK, Logs, Stores, Cycles, Results, Versions, Conflicts, Entries,
         StoreType, OplogEntry, Version, Result

\* Types only grow with the clock and the epoch.
LEMMA Growing ==
    ASSUME NEW c \in Nat, NEW d \in Nat, c <= d, NEW e \in Nat, NEW f \in Nat, e <= f
    PROVE  /\ Stores(c, e) \subseteq Stores(d, f)
           /\ Cycles(c) \subseteq Cycles(d)
           /\ Logs(c) \subseteq Logs(d)
           /\ Row \X (1..c) \subseteq Row \X (1..d)
<1>1. 0..c \subseteq 0..d /\ 1..c \subseteq 1..d /\ 1..e \subseteq 1..f
  OBVIOUS
<1>2. Entries(c) \subseteq Entries(d)
  BY <1>1 DEF Entries
<1>3. Versions(c) \subseteq Versions(d)
  BY <1>1 DEF Versions
<1>4. Conflicts(c) \subseteq Conflicts(d)
  BY <1>1 DEF Conflicts
<1>5. [Row -> 0..c] \subseteq [Row -> 0..d]
  BY <1>1
<1>6. Stores(c, e) \subseteq Stores(d, f)
  BY <1>1, <1>2, <1>3, <1>4, <1>5 DEF Stores
<1>7. Results(c) \subseteq Results(d)
  BY <1>3 DEF Results
<1>8. Cycles(c) \subseteq Cycles(d)
  BY <1>1, <1>7 DEF Cycles
<1>9. [row : Row, ts : 1..c, val : 0..c] \subseteq [row : Row, ts : 1..d, val : 0..d]
  BY <1>1
<1>10. Logs(c) \subseteq Logs(d)
  BY <1>9, SeqMonotonic, Zenon DEF Logs
<1> QED
  BY <1>1, <1>6, <1>8, <1>10

-----------------------------------------------------------------------------
(* Numbers.                                                                 *)

\* A bounded set of numbers has a greatest element.
LEMMA Greatest ==
    ASSUME NEW S \in SUBSET Nat, S # {}, NEW m \in Nat, \A x \in S : x <= m
    PROVE  \E x \in S : \A y \in S : y <= x
<1> DEFINE T == {m - x : x \in S}
           R == OpToRel(<, Nat)
<1>1. T \subseteq Nat /\ T # {}
  <2>1. ASSUME NEW x \in S
        PROVE  m - x \in Nat
    BY x \in Nat
  <2>2. T \subseteq Nat
    BY <2>1
  <2>3. PICK x \in S : TRUE
    OBVIOUS
  <2>4. m - x \in T
    OBVIOUS
  <2> QED
    BY <2>2, <2>4
<1>2. \E t \in T : \A u \in T : ~ (<<u, t>> \in R)
  <2>1. IsWellFoundedOn(R, Nat)
    BY NatLessThanWellFounded
  <2> HIDE DEF T, R
  <2> QED
    BY <1>1, <2>1, WFMin, Zenon
<1>3. PICK t \in T : \A u \in T : ~ (<<u, t>> \in R)
  BY <1>2
<1>4. \A u \in T : ~ (u < t)
  BY <1>1, <1>3 DEF OpToRel
<1>5. PICK x \in S : t = m - x
  OBVIOUS
<1>6. ASSUME NEW y \in S
      PROVE  y <= x
  <2>1. m - y \in T /\ x \in Nat /\ y \in Nat
    OBVIOUS
  <2>2. ~ (m - y < t)
    BY <1>4, <2>1
  <2> HIDE DEF T
  <2> QED
    BY <1>5, <2>1, <2>2
<1> QED
  BY <1>6

-----------------------------------------------------------------------------
(* What each transaction makes of a store.                                  *)

\* The parts of a store.
LEMMA StoreParts ==
    ASSUME NEW c, NEW e, NEW s \in Stores(c, e)
    PROVE  /\ s.db \in [Row -> 0..c]
           /\ s.oplog \subseteq Entries(c)
           /\ s.rv \in [Row -> Nat]
           /\ s.cursor \in Nat
           /\ s.parked \subseteq Versions(c)
           /\ s.journal \subseteq Conflicts(c)
           /\ s.epoch \in 1..e
  BY DEF Stores

\* New contents, versions and journal of the right types make a store again.
LEMMA PutRows ==
    ASSUME NEW c, NEW e, NEW s \in Stores(c, e), NEW db \in [Row -> 0..c],
           NEW rv \in [Row -> Nat], NEW journal \in SUBSET Conflicts(c)
    PROVE  [s EXCEPT !.db = db, !.rv = rv, !.journal = journal] \in Stores(c, e)
  BY DEF Stores

\* So do a new oplog, versions and journal.
LEMMA PutPending ==
    ASSUME NEW c, NEW e, NEW s \in Stores(c, e), NEW oplog \in SUBSET Entries(c),
           NEW rv \in [Row -> Nat], NEW journal \in SUBSET Conflicts(c)
    PROVE  [s EXCEPT !.oplog = oplog, !.rv = rv, !.journal = journal] \in Stores(c, e)
  BY DEF Stores

\* So do contents and an oplog.
LEMMA PutEdit ==
    ASSUME NEW c, NEW e, NEW s \in Stores(c, e), NEW db \in [Row -> 0..c],
           NEW oplog \in SUBSET Entries(c)
    PROVE  [s EXCEPT !.db = db, !.oplog = oplog] \in Stores(c, e)
  BY DEF Stores

\* So do an oplog and a journal.
LEMMA PutRefused ==
    ASSUME NEW c, NEW e, NEW s \in Stores(c, e), NEW oplog \in SUBSET Entries(c),
           NEW journal \in SUBSET Conflicts(c)
    PROVE  [s EXCEPT !.oplog = oplog, !.journal = journal] \in Stores(c, e)
  BY DEF Stores

\* So do parked rows and a cursor.
LEMMA PutPaged ==
    ASSUME NEW c, NEW e, NEW s \in Stores(c, e), NEW parked \in SUBSET Versions(c),
           NEW cursor \in Nat
    PROVE  [s EXCEPT !.parked = parked, !.cursor = cursor] \in Stores(c, e)
  BY DEF Stores

\* So do parked rows and a journal.
LEMMA PutRetried ==
    ASSUME NEW c, NEW e, NEW s \in Stores(c, e), NEW parked \in SUBSET Versions(c),
           NEW journal \in SUBSET Conflicts(c)
    PROVE  [s EXCEPT !.parked = parked, !.journal = journal] \in Stores(c, e)
  BY DEF Stores

\* A user's write, at the stamp after c.
LEMMA WriteTyped ==
    ASSUME NEW c \in Nat, NEW e \in Nat, NEW s \in Stores(c, e), NEW r \in Row
    PROVE  Write(s, r, c + 1) \in Stores(c + 1, e)
<1> DEFINE db == [s.db EXCEPT ![r] = c + 1]
           oplog == s.oplog \cup {[row |-> r, op |-> "U", ts |-> c + 1]}
           n == [s EXCEPT !.db = db, !.oplog = oplog]
<1>1. s \in Stores(c + 1, e)
  BY Growing
<1>2. db \in [Row -> 0..(c + 1)]
  BY <1>1, StoreParts
<1>3. oplog \in SUBSET Entries(c + 1)
  BY <1>1, StoreParts DEF Entries
<1>4. Write(s, r, c + 1) = n
  BY DEF Write
<1> HIDE DEF db, oplog
<1>5. n \in Stores(c + 1, e)
  BY <1>1, <1>2, <1>3, PutEdit
<1> HIDE DEF n
<1> QED
  BY <1>4, <1>5

\* A user's delete, at the stamp after c.
LEMMA EraseTyped ==
    ASSUME NEW c \in Nat, NEW e \in Nat, NEW s \in Stores(c, e), NEW r \in Row
    PROVE  Erase(s, r, c + 1) \in Stores(c + 1, e)
<1> DEFINE gone == {r} \cup {q \in CascadeBelow(r) : Present(s, q)}
           db == [q \in Row |-> IF q \in gone THEN Gone ELSE s.db[q]]
           oplog == s.oplog \cup {[row |-> q, op |-> "D", ts |-> c + 1] : q \in gone}
           n == [s EXCEPT !.db = db, !.oplog = oplog]
<1>1. s \in Stores(c + 1, e)
  BY Growing
<1>2. gone \subseteq Row
  BY DEF CascadeBelow, Descendants
<1>3. db \in [Row -> 0..(c + 1)]
  BY <1>1, StoreParts DEF Gone
<1>4. oplog \in SUBSET Entries(c + 1)
  <2> HIDE DEF gone
  <2> QED
    BY <1>1, <1>2, StoreParts DEF Entries
<1>5. Erase(s, r, c + 1) = n
  BY DEF Erase
<1> HIDE DEF db, oplog
<1>6. n \in Stores(c + 1, e)
  BY <1>1, <1>3, <1>4, PutEdit
<1> HIDE DEF n
<1> QED
  BY <1>5, <1>6

\* The reset before a reconciliation.
LEMMA ResetTyped ==
    ASSUME NEW c, NEW e, NEW s \in Stores(c, e), NEW f \in 1..e
    PROVE  Reset(s, f) \in Stores(c, e)
  BY DEF Reset, Stores

\* A purge leaves a part of the oplog.
LEMMA PurgeTyped ==
    ASSUME NEW oplog, NEW rows, NEW snap
    PROVE  Purge(oplog, rows, snap) \subseteq oplog
  BY DEF Purge

\* Refused changes.
LEMMA RefuseTyped ==
    ASSUME NEW c \in Nat, NEW e, NEW s \in Stores(c, e), NEW snap,
           NEW bad \in SUBSET SentChanges(c)
    PROVE  Refuse(s, snap, bad) \in Stores(c, e)
<1> DEFINE oplog == Purge(s.oplog, {b.row : b \in bad}, snap)
           journal == s.journal \cup
                        {[row |-> b.row, reason |-> "apply_error", val |-> b.val] : b \in bad}
           n == [s EXCEPT !.oplog = oplog, !.journal = journal]
<1>1. oplog \in SUBSET Entries(c)
  BY StoreParts, PurgeTyped
<1>2. journal \in SUBSET Conflicts(c)
  BY StoreParts DEF Conflicts, Reason, SentChanges
<1>3. Refuse(s, snap, bad) = n
  BY DEF Refuse
<1> HIDE DEF oplog, journal
<1>4. n \in Stores(c, e)
  BY <1>1, <1>2, PutRefused
<1> HIDE DEF n
<1> QED
  BY <1>3, <1>4

\* Remote versions taken over.
LEMMA InstallTyped ==
    ASSUME NEW c \in Nat, NEW e, NEW s \in Stores(c, e),
           NEW ups \in SUBSET Versions(c), NEW tombs \in SUBSET Versions(c)
    PROVE  Install(s, ups, tombs) \in Stores(c, e)
<1> DEFINE db == Contents(s, ups, tombs)
           rv == Based(s.rv, ups \cup tombs)
           journal == s.journal \cup Swept(s, ups, tombs)
           n == [s EXCEPT !.db = db, !.rv = rv, !.journal = journal]
<1>1. ASSUME NEW W \in SUBSET Versions(c), NEW r \in Row, \E w \in W : w.row = r
      PROVE  Named(W, r) \in Versions(c)
  BY <1>1 DEF Named
<1>2. ASSUME NEW gone \in SUBSET Versions(c)
      PROVE  Contents(s, ups, gone) \in [Row -> 0..c]
  <2>1. ASSUME NEW r \in Row, \E w \in ups : w.row = r
        PROVE  Named(ups, r).val \in 0..c
    BY <1>1, <2>1 DEF Versions
  <2> QED
    BY <2>1, StoreParts DEF Contents, Gone
<1>3. rv \in [Row -> Nat]
  <2>1. ASSUME NEW r \in Row, \E w \in ups \cup tombs : w.row = r
        PROVE  Named(ups \cup tombs, r).seq \in Nat
    BY <1>1, <2>1 DEF Versions
  <2>2. s.rv \in [Row -> Nat]
    BY StoreParts
  <2> QED
    BY <2>1, <2>2 DEF Based
<1>4. Swept(s, ups, tombs) \subseteq Conflicts(c)
  <2>1. UNION {RestrictBelow(w.row) : w \in tombs} \subseteq Row
    BY DEF RestrictBelow, Descendants
  <2>2. Contents(s, ups, {}) \in [Row -> 0..c]
    BY <1>2
  <2> QED
    BY <2>1, <2>2 DEF Swept, Conflicts, Reason
<1>5. journal \in SUBSET Conflicts(c)
  BY <1>4, StoreParts
<1>6. db \in [Row -> 0..c]
  BY <1>2
<1>7. Install(s, ups, tombs) = n
  BY DEF Install
<1> HIDE DEF db, rv, journal
<1>8. n \in Stores(c, e)
  BY <1>3, <1>5, <1>6, PutRows
<1> HIDE DEF n
<1> QED
  BY <1>7, <1>8

\* A page of versions.
LEMMA ApplyPageTyped ==
    ASSUME NEW c \in Nat, NEW e, NEW s \in Stores(c, e), NEW W \in SUBSET Versions(c),
           NEW next \in Nat
    PROVE  ApplyPage(s, W, next) \in Stores(c, e)
<1> DEFINE i == Install(s, Upserts(s, W) \ Orphans(s, W), PageTombs(s, W))
           parked == Park(i.parked, Orphans(s, W))
           n == [i EXCEPT !.parked = parked, !.cursor = next]
<1>1. Upserts(s, W) \subseteq W /\ PageTombs(s, W) \subseteq W /\ Orphans(s, W) \subseteq W
  BY DEF Upserts, PageTombs, Orphans
<1>2. i \in Stores(c, e)
  BY <1>1, InstallTyped
<1>3. ApplyPage(s, W, next) = n
  BY DEF ApplyPage
<1> HIDE DEF i
<1>4. parked \in SUBSET Versions(c)
  BY <1>1, <1>2, StoreParts DEF Park
<1> HIDE DEF parked
<1>5. n \in Stores(c, e)
  BY <1>2, <1>4, PutPaged
<1> HIDE DEF n
<1> QED
  BY <1>3, <1>5

\* A retry of the parked rows.
LEMMA RetryTyped ==
    ASSUME NEW c \in Nat, NEW e, NEW s \in Stores(c, e), NEW final
    PROVE  RetryParked(s, final) \in Stores(c, e)
<1> DEFINE i == Install(s, Ready(s), {})
           out == IF final THEN Abandoned(s) ELSE {}
           parked == Stuck(s) \ out
           journal == i.journal \cup
                        {[row |-> w.row, reason |-> "parent_deleted", val |-> w.val] : w \in out}
           n == [i EXCEPT !.parked = parked, !.journal = journal]
<1>1. s.parked \subseteq Versions(c)
  BY StoreParts
<1>2. Ready(s) \subseteq s.parked /\ Stuck(s) \subseteq s.parked
  BY DEF Ready, Stuck, Upserts
<1>3. out \subseteq Stuck(s)
  BY DEF Abandoned
<1>4. i \in Stores(c, e)
  BY <1>1, <1>2, InstallTyped
<1>5. RetryParked(s, final) = n
  BY DEF RetryParked
<1> HIDE DEF i, out
<1>6. parked \in SUBSET Versions(c)
  BY <1>1, <1>2
<1>7. journal \in SUBSET Conflicts(c)
  <2>1. out \subseteq Versions(c)
    BY <1>1, <1>2, <1>3
  <2>2. i.journal \subseteq Conflicts(c)
    BY <1>4, StoreParts
  <2> QED
    BY <2>1, <2>2 DEF Versions, Conflicts, Reason
<1> HIDE DEF parked, journal
<1>8. n \in Stores(c, e)
  BY <1>4, <1>6, <1>7, PutRetried
<1> HIDE DEF n
<1> QED
  BY <1>5, <1>8

\* The results of a push.
LEMMA ResultsTyped ==
    ASSUME NEW c \in Nat, NEW e, NEW s \in Stores(c, e), NEW snap,
           NEW answers \in SUBSET Results(c)
    PROVE  ApplyResults(s, snap, answers) \in Stores(c, e)
<1> DEFINE won == Winners(s, snap, answers)
           kept == {a.current : a \in {b \in answers : ~b.lost}}
           lost == {[row |-> a.current.row, reason |-> "lww_lost", val |-> Gone] :
                      a \in {b \in answers : b.lost}}
           i == Install(s, WinnerUps(s, snap, answers), WinnerTombs(s, snap, answers))
           oplog == Purge(i.oplog, {a.current.row : a \in answers}, snap)
           rv == Based(i.rv, kept)
           journal == i.journal \cup lost
           n == [i EXCEPT !.oplog = oplog, !.rv = rv, !.journal = journal]
<1>1. won \in SUBSET Versions(c)
  BY DEF Winners, Results
<1>2. WinnerUps(s, snap, answers) \subseteq won /\ WinnerTombs(s, snap, answers) \subseteq won
  BY DEF WinnerUps, WinnerTombs
<1>3. kept \subseteq Versions(c)
  BY DEF Results
<1>4. lost \subseteq Conflicts(c)
  BY DEF Results, Versions, Conflicts, Reason, Gone
<1>5. i \in Stores(c, e)
  BY <1>1, <1>2, InstallTyped
<1>6. ApplyResults(s, snap, answers) = n
  BY DEF ApplyResults
<1> HIDE DEF won, kept, lost, i
<1>7. oplog \in SUBSET Entries(c)
  BY <1>5, StoreParts, PurgeTyped
<1>8. rv \in [Row -> Nat]
  <2>1. ASSUME NEW r \in Row, \E w \in kept : w.row = r
        PROVE  Named(kept, r).seq \in Nat
    BY <1>3, <2>1 DEF Named, Versions
  <2>2. i.rv \in [Row -> Nat]
    BY <1>5, StoreParts
  <2> QED
    BY <2>1, <2>2 DEF Based
<1>9. journal \in SUBSET Conflicts(c)
  BY <1>4, <1>5, StoreParts
<1> HIDE DEF oplog, rv, journal
<1>10. n \in Stores(c, e)
  BY <1>5, <1>7, <1>8, <1>9, PutPending
<1> HIDE DEF n
<1> QED
  BY <1>6, <1>10

-----------------------------------------------------------------------------
(* What a push sends.                                                       *)

\* The snapshot is a stamp of the oplog, or 0.
LEMMA SnapshotTyped ==
    ASSUME NEW c \in Nat, NEW e, NEW s \in Stores(c, e)
    PROVE  Snapshot(s) \in 0..c
<1>1. CASE s.oplog = {}
  BY <1>1 DEF Snapshot
<1>2. CASE s.oplog # {}
  <2> DEFINE T == {o.ts : o \in s.oplog}
  <2>1. \A o \in s.oplog : o.ts \in 1..c
    BY StoreParts DEF Entries
  <2>2. \E t \in T : \A u \in T : u <= t
    <3>1. T \in SUBSET Nat /\ T # {} /\ \A x \in T : x <= c
      BY <1>2, <2>1
    <3> HIDE DEF T
    <3> QED
      BY <3>1, Greatest
  <2>3. \E o \in s.oplog : \A p \in s.oplog : p.ts <= o.ts
    BY <2>2
  <2> QED
    BY <1>2, <2>1, <2>3 DEF Snapshot
<1> QED
  BY <1>1, <1>2

\* A change is well typed.
LEMMA ChangeTyped ==
    ASSUME NEW c \in Nat, NEW e, NEW s \in Stores(c, e), NEW snap, NEW r \in Covered(s, snap)
    PROVE  Change(s, snap, r) \in SentChanges(c) /\ Change(s, snap, r).row = r
<1> DEFINE ops == {o \in s.oplog : o.row = r /\ o.ts <= snap}
           T == {o.ts : o \in ops}
           last == CHOOSE o \in ops : \A p \in ops : p.ts <= o.ts
<1>1. r \in Row /\ ops # {}
  BY DEF Covered
<1>2. \A o \in ops : o.ts \in 1..c
  BY StoreParts DEF Entries
<1>3. \E t \in T : \A u \in T : u <= t
  <2>1. T \in SUBSET Nat /\ T # {} /\ \A x \in T : x <= c
    BY <1>1, <1>2
  <2> HIDE DEF T
  <2> QED
    BY <2>1, Greatest
<1>4. \E o \in ops : \A p \in ops : p.ts <= o.ts
  BY <1>3
<1>5. last \in ops
  BY <1>4
<1>6. last.ts \in 1..c
  BY <1>2, <1>5
<1>7. Change(s, snap, r) = [row |-> r, base |-> s.rv[r], ts |-> last.ts,
                            val |-> IF last.op = "D" THEN Gone ELSE s.db[r]]
  BY DEF Change
<1> HIDE DEF last
<1>8. s.rv[r] \in Nat /\ s.db[r] \in 0..c /\ Gone \in 0..c
  BY <1>1, StoreParts DEF Gone
<1> QED
  BY <1>1, <1>6, <1>7, <1>8 DEF SentChanges

-----------------------------------------------------------------------------
(* What the server makes of it.                                             *)

\* The changes of one request: typed, at most one per row.
Request(changes, c) ==
    /\ changes \subseteq SentChanges(c)
    /\ \A a, b \in changes : a.row = b.row => a = b

\* A request is finite, since the archive is.
LEMMA RequestFinite ==
    ASSUME NEW c, NEW changes, Request(changes, c)
    PROVE  IsFiniteSet(changes)
<1> DEFINE f == [a \in changes |-> a.row]
<1>1. f \in Injection(changes, Row)
  BY DEF Request, SentChanges, Injection, IsInjective
<1> QED
  BY <1>1, TreeAssumption, FS_Injection

\* Counting the changes up to each one numbers the accepted changes.
LEMMA Numbered ==
    ASSUME NEW c, NEW won, Request(won, c)
    PROVE  /\ Cardinality(won) \in Nat
           /\ \A a \in won : Cardinality({w \in won : WireRank[w.row] <= WireRank[a.row]})
                               \in 1..Cardinality(won)
           /\ \A a, b \in won :
                 Cardinality({w \in won : WireRank[w.row] <= WireRank[a.row]})
                   = Cardinality({w \in won : WireRank[w.row] <= WireRank[b.row]}) => a = b
           /\ \A i \in 1..Cardinality(won) : \E a \in won :
                 Cardinality({w \in won : WireRank[w.row] <= WireRank[a.row]}) = i
<1> DEFINE upto(a) == {w \in won : WireRank[w.row] <= WireRank[a.row]}
           f == [a \in won |-> Cardinality(upto(a))]
           n == Cardinality(won)
<1>1. IsFiniteSet(won) /\ n \in Nat
  BY RequestFinite, FS_CardinalityType
<1>2. \A a \in won : WireRank[a.row] \in Nat
  BY WireAssumption DEF Request, SentChanges
<1>3. ASSUME NEW a \in won
      PROVE  IsFiniteSet(upto(a)) /\ Cardinality(upto(a)) \in 1..n
  <2>1. IsFiniteSet(upto(a)) /\ Cardinality(upto(a)) <= n
    BY <1>1, FS_Subset
  <2>2. Cardinality(upto(a)) \in Nat
    BY <2>1, FS_CardinalityType
  <2>3. upto(a) # {}
    BY <1>2
  <2>4. Cardinality(upto(a)) # 0
    BY <2>1, <2>3, FS_EmptySet
  <2> QED
    BY <1>1, <2>1, <2>2, <2>4
<1>4. ASSUME NEW a \in won, NEW b \in won, WireRank[a.row] < WireRank[b.row]
      PROVE  Cardinality(upto(a)) # Cardinality(upto(b))
  <2>1. upto(a) \subseteq upto(b)
    BY <1>2, <1>4
  <2>2. b \in upto(b) /\ b \notin upto(a)
    BY <1>2, <1>4
  <2>3. upto(a) # upto(b)
    BY <2>2
  <2> HIDE DEF upto
  <2> QED
    BY <1>3, <2>1, <2>3, FS_Subset
<1>5. ASSUME NEW a \in won, NEW b \in won, a # b
      PROVE  WireRank[a.row] < WireRank[b.row] \/ WireRank[b.row] < WireRank[a.row]
  <2>1. a.row \in Row /\ b.row \in Row /\ a.row # b.row
    BY <1>5 DEF Request, SentChanges
  <2> QED
    BY <1>2, <2>1, WireAssumption
<1>6. f \in Injection(won, 1..n)
  <2>1. f \in [won -> 1..n]
    BY <1>3
  <2>2. ASSUME NEW a \in won, NEW b \in won, f[a] = f[b]
        PROVE  a = b
    <3> HIDE DEF upto
    <3> QED
      BY <1>4, <1>5, <2>2
  <2> HIDE DEF f
  <2> QED
    BY <2>1, <2>2 DEF Injection, IsInjective
<1>7. IsFiniteSet(1..n) /\ Cardinality(1..n) = n
  BY <1>1, FS_Interval
<1>8. f \in Surjection(won, 1..n)
  <2> HIDE DEF f
  <2> QED
    BY <1>6, <1>7, FS_Injection
<1>9. \A i \in 1..n : \E a \in won : f[a] = i
  <2> HIDE DEF f, n
  <2> QED
    BY <1>8 DEF Surjection
<1> QED
  BY <1>1, <1>3, <1>4, <1>5, <1>9

\* The newest version of a row the log holds is in the log.
LEMMA NewestTyped ==
    ASSUME NEW c \in Nat, NEW l \in Logs(c), NEW r, \E i \in DOMAIN l : l[i].row = r
    PROVE  /\ Newest(l, r) \in DOMAIN l
           /\ l[Newest(l, r)].row = r
           /\ Newest(l, r) \in Nat \ {0}
<1> DEFINE at == {i \in DOMAIN l : l[i].row = r}
<1>1. DOMAIN l = 1..Len(l) /\ Len(l) \in Nat
  BY LenProperties DEF Logs
<1>2. at \in SUBSET Nat /\ at # {} /\ \A i \in at : i <= Len(l)
  BY <1>1
<1>3. \E i \in at : \A j \in at : j <= i
  <2> HIDE DEF at
  <2> QED
    BY <1>1, <1>2, Greatest
<1>4. Newest(l, r) \in at
  BY <1>2, <1>3 DEF Newest
<1> QED
  BY <1>1, <1>4

\* So the version the server serves for it is well typed.
LEMMA PullRowTyped ==
    ASSUME NEW c \in Nat, NEW l \in Logs(c), NEW r \in Row, \E i \in DOMAIN l : l[i].row = r
    PROVE  PullRow(l, r) \in Versions(c)
<1>1. Newest(l, r) \in DOMAIN l /\ Newest(l, r) \in Nat \ {0}
  BY NewestTyped
<1>2. l[Newest(l, r)] \in [row : Row, ts : 1..c, val : 0..c]
  BY <1>1, ElementOfSeq, LenProperties DEF Logs
<1> QED
  BY <1>1, <1>2 DEF PullRow, Versions

\* The log stays well typed, and holds every row the request names.
LEMMA AcceptTyped ==
    ASSUME NEW c \in Nat, NEW l \in Logs(c), NEW changes, Request(changes, c)
    PROVE  /\ AcceptAll(l, changes) \in Logs(c)
           /\ \A a \in changes :
                 \E i \in DOMAIN AcceptAll(l, changes) : AcceptAll(l, changes)[i].row = a.row
<1> DEFINE won == {a \in changes : ~Replays(l, a) /\ ~Loses(l, a)}
           nth(a) == Cardinality({w \in won : WireRank[w.row] <= WireRank[a.row]})
           at(a) == Len(l) + nth(a)
           n == Cardinality(won)
           E == [row : Row, ts : 1..c, val : 0..c]
           new(i) == CHOOSE w \in won : at(w) = i
           after == [i \in 1..(Len(l) + n) |->
                       IF i <= Len(l) THEN l[i]
                       ELSE [row |-> new(i).row, ts |-> new(i).ts, val |-> new(i).val]]
<1>1. AcceptAll(l, changes) = after
  BY DEF AcceptAll
<1>2. Request(won, c)
  BY DEF Request
<1>3. /\ n \in Nat
      /\ \A a \in won : nth(a) \in 1..n
      /\ \A a, b \in won : nth(a) = nth(b) => a = b
      /\ \A i \in 1..n : \E a \in won : nth(a) = i
  <2> HIDE DEF won
  <2> QED
    BY <1>2, Numbered
<1>4. Len(l) \in Nat /\ DOMAIN l = 1..Len(l) /\ \A i \in 1..Len(l) : l[i] \in E
  BY LenProperties, ElementOfSeq DEF Logs
<1> HIDE DEF won, nth, n, E
<1>5. ASSUME NEW i \in 1..(Len(l) + n), ~ (i <= Len(l))
      PROVE  new(i) \in won /\ at(new(i)) = i
  <2>1. i - Len(l) \in 1..n
    BY <1>3, <1>4, <1>5
  <2>2. PICK a \in won : nth(a) = i - Len(l)
    BY <1>3, <2>1
  <2>3. at(a) = i
    BY <1>4, <2>2
  <2> QED
    BY <2>3
<1>6. \A w \in won : [row |-> w.row, ts |-> w.ts, val |-> w.val] \in E
  BY <1>2 DEF Request, SentChanges, E
<1>7. after \in [1..(Len(l) + n) -> E]
  <2> HIDE DEF new
  <2> QED
    BY <1>3, <1>4, <1>5, <1>6
<1>8. after \in Logs(c)
  <2>1. Len(l) + n \in Nat
    BY <1>3, <1>4
  <2> HIDE DEF after
  <2>2. after \in Seq(E)
    <3>1. after \in UNION {[1..k -> E] : k \in Nat}
      BY <1>7, <2>1, Zenon
    <3> QED
      BY <3>1, SeqDef, Zenon
  <2> QED
    BY <2>2 DEF Logs, E
<1>9. ASSUME NEW a \in changes, a \in won
      PROVE  \E i \in DOMAIN after : after[i].row = a.row
  <2>1. at(a) \in 1..(Len(l) + n) /\ ~ (at(a) <= Len(l))
    BY <1>3, <1>4, <1>9
  <2>2. new(at(a)) = a
    <3>1. new(at(a)) \in won /\ at(new(at(a))) = at(a)
      BY <1>5, <2>1
    <3>2. nth(new(at(a))) = nth(a)
      BY <1>3, <1>4, <1>9, <3>1
    <3> QED
      BY <1>3, <1>9, <3>1, <3>2
  <2>3. after[at(a)].row = a.row
    <3> HIDE DEF new, at
    <3> QED
      BY <2>1, <2>2
  <2> QED
    BY <2>1, <2>3
<1>10. ASSUME NEW a \in changes, a \notin won
       PROVE  \E i \in DOMAIN after : after[i].row = a.row
  <2>1. Newest(l, a.row) # 0
    BY <1>10 DEF won, Replays, Loses
  <2>2. PICK i \in 1..Len(l) : l[i].row = a.row
    BY <1>4, <2>1 DEF Newest
  <2>3. i \in 1..(Len(l) + n) /\ i <= Len(l)
    BY <1>3, <1>4
  <2> QED
    BY <2>2, <2>3
<1> HIDE DEF after
<1> QED
  BY <1>1, <1>8, <1>9, <1>10

\* The answers are well typed.
LEMMA AnswersTyped ==
    ASSUME NEW c \in Nat, NEW l \in Logs(c), NEW changes, Request(changes, c)
    PROVE  Answers(l, changes) \subseteq Results(c)
<1> DEFINE after == AcceptAll(l, changes)
<1>1. after \in Logs(c)
  BY AcceptTyped
<1>2. ASSUME NEW a \in changes
      PROVE  PullRow(after, a.row) \in Versions(c)
  <2>1. a.row \in Row
    BY DEF Request, SentChanges
  <2>2. \E i \in DOMAIN after : after[i].row = a.row
    BY AcceptTyped
  <2> HIDE DEF after
  <2> QED
    BY <1>1, <2>1, <2>2, PullRowTyped
<1>3. \A a \in changes : Loses(l, a) \in BOOLEAN
  BY DEF Loses
<1> QED
  BY <1>2, <1>3 DEF Answers, Results

\* A page is well typed, and ends at a position of the log.
LEMMA PageTyped ==
    ASSUME NEW c \in Nat, NEW l \in Logs(c), NEW since \in Nat, NEW limit
    PROVE  Page(l, since, limit) \subseteq Versions(c) /\ PageEnd(l, since, limit) \in Nat
<1>1. Len(l) \in Nat /\ DOMAIN l = 1..Len(l)
  BY LenProperties DEF Logs
<1>2. Unseen(l, since) \subseteq 1..Len(l)
  BY <1>1 DEF Unseen
<1>3. PageEnd(l, since, limit) \in Nat
  <2> DEFINE full == {i \in Unseen(l, since) :
                        Cardinality({j \in Unseen(l, since) : j <= i}) = limit}
  <2>1. full \subseteq Nat
    BY <1>1, <1>2
  <2>2. PageEnd(l, since, limit) = IF full = {} THEN Len(l) ELSE CHOOSE i \in full : TRUE
    BY DEF PageEnd
  <2> HIDE DEF full
  <2> QED
    BY <1>1, <2>1, <2>2
<1>4. ASSUME NEW i \in 1..Len(l)
      PROVE  PullRow(l, l[i].row) \in Versions(c)
  <2>1. l[i] \in [row : Row, ts : 1..c, val : 0..c]
    BY ElementOfSeq DEF Logs
  <2> QED
    BY <1>1, <2>1, PullRowTyped
<1> QED
  BY <1>2, <1>3, <1>4 DEF Page

-----------------------------------------------------------------------------
(* The invariant is TypeOK itself.                                          *)

\* Every device starts with an empty store and no cycle.
LEMMA TypeInit == Init => TypeOK
<1> SUFFICES ASSUME Init
             PROVE  TypeOK
  OBVIOUS
<1>1. clock = 0 /\ epoch = 1 /\ log = <<>> /\ judged = {}
  BY DEF Init
<1>2. log \in Logs(clock)
  BY <1>1, EmptySeq DEF Logs
<1>3. EmptyStore \in Stores(0, 1)
  BY DEF EmptyStore, Stores, Gone
<1>4. At("idle") \in Cycles(0)
  BY DEF At, Cycles, Stage
<1> QED
  BY <1>1, <1>2, <1>3, <1>4, TypeOKByParts DEF Init

\* A step that replaces one device's store and the stage of its cycle.
LEMMA DeviceMoves ==
    ASSUME TypeOK, NEW d \in Device, NEW s \in Stores(clock, epoch), NEW y \in Cycles(clock),
           store' = [store EXCEPT ![d] = s], cycle' = [cycle EXCEPT ![d] = y],
           clock' = clock, epoch' = epoch, log' \in Logs(clock),
           judged' \subseteq Row \X (1..clock)
    PROVE  TypeOK'
<1>1. store' \in [Device -> Stores(clock, epoch)] /\ cycle' \in [Device -> Cycles(clock)]
  BY TypeOKByParts
<1>2. epoch \in Nat \ {0} /\ clock \in Nat
  BY TypeOKByParts
<1>3. /\ log' \in Logs(clock')
      /\ epoch' \in Nat \ {0}
      /\ clock' \in Nat
      /\ store' \in [Device -> Stores(clock', epoch')]
      /\ cycle' \in [Device -> Cycles(clock')]
      /\ judged' \subseteq Row \X (1..clock')
  BY <1>1, <1>2
<1> QED
  BY <1>3 DEF TypeOK, Logs, Stores, Cycles, Results, Versions, Conflicts, Entries,
              StoreType, OplogEntry, Version, Result

\* A cycle at the beginning of a stage.
LEMMA StageTyped ==
    ASSUME NEW c \in Nat, NEW st \in Stage, NEW more \in BOOLEAN, NEW snap \in 0..c
    PROVE  /\ At(st) \in Cycles(c)
           /\ [At(st) EXCEPT !.more = more] \in Cycles(c)
           /\ [At(st) EXCEPT !.snap = snap] \in Cycles(c)
<1>1. At(st) \in Cycles(c)
  <2>1. 0 \in 0..c /\ {} \in SUBSET Results(c) /\ FALSE \in BOOLEAN
    OBVIOUS
  <2> QED
    BY <2>1 DEF At, Cycles
<1>2. [At(st) EXCEPT !.more = more] \in Cycles(c)
  BY <1>1 DEF Cycles
<1>3. [At(st) EXCEPT !.snap = snap] \in Cycles(c)
  BY <1>1 DEF Cycles
<1> QED
  BY <1>1, <1>2, <1>3

\* What StartPull makes of the cycle.
LEMMA StartPullTyped ==
    ASSUME NEW c \in Nat, NEW d, NEW s, StartPull(d, s)
    PROVE  \E y \in Cycles(c) : cycle' = [cycle EXCEPT ![d] = y]
<1> DEFINE st == IF s.parked = {} THEN "pull" ELSE "retry"
<1>1. st \in Stage
  BY DEF Stage
<1>2. cycle' = [cycle EXCEPT ![d] = [At(st) EXCEPT !.more = TRUE]]
  BY DEF StartPull
<1> HIDE DEF st
<1>3. [At(st) EXCEPT !.more = TRUE] \in Cycles(c)
  <2>1. TRUE \in BOOLEAN /\ 0 \in 0..c
    OBVIOUS
  <2> QED
    BY <1>1, <2>1, StageTyped
<1> QED
  BY <1>2, <1>3

\* What Goto makes of it.
LEMMA GotoTyped ==
    ASSUME NEW c \in Nat, NEW d, NEW st \in Stage, Goto(d, st)
    PROVE  \E y \in Cycles(c) : cycle' = [cycle EXCEPT ![d] = y]
<1>1. TRUE \in BOOLEAN /\ 0 \in 0..c
  OBVIOUS
<1>2. At(st) \in Cycles(c)
  BY <1>1, StageTyped
<1> QED
  BY <1>2 DEF Goto

\* The changes a device builds make a request, and so does each part of them.
LEMMA ChangesTyped ==
    ASSUME NEW c \in Nat, NEW e, NEW s \in Stores(c, e), NEW snap
    PROVE  \A part \in SUBSET Changes(s, snap) : Request(part, c)
  BY ChangeTyped DEF Changes, Request

\* What the server judged keeps the log and the history typed.
LEMMA JudgeTyped ==
    ASSUME NEW c \in Nat, log \in Logs(c), judged \subseteq Row \X (1..c),
           NEW part, Request(part, c), Judge(part)
    PROVE  log' \in Logs(c) /\ judged' \subseteq Row \X (1..c)
<1>1. log' \in Logs(c)
  BY AcceptTyped DEF Judge
<1>2. \A a \in part : <<a.row, a.ts>> \in Row \X (1..c)
  BY DEF Request, SentChanges
<1> QED
  BY <1>1, <1>2 DEF Judge

\* The user's edits move the clock with the row.
LEMMA EditTyped ==
    ASSUME TypeOK, NEW d \in Device, NEW s \in Stores(clock + 1, epoch),
           store' = [store EXCEPT ![d] = s], clock' = clock + 1,
           UNCHANGED <<log, epoch, cycle, judged>>
    PROVE  TypeOK'
<1>1. clock \in Nat /\ epoch \in Nat \ {0} /\ clock' \in Nat /\ clock <= clock'
  BY TypeOKByParts
<1>2. /\ Stores(clock, epoch) \subseteq Stores(clock', epoch)
      /\ Cycles(clock) \subseteq Cycles(clock')
      /\ Logs(clock) \subseteq Logs(clock')
      /\ Row \X (1..clock) \subseteq Row \X (1..clock')
  BY <1>1, Growing
<1>3. store' \in [Device -> Stores(clock', epoch)]
  BY <1>2, TypeOKByParts
<1>4. cycle' \in [Device -> Cycles(clock')]
  BY <1>2, TypeOKByParts
<1>5. log' \in Logs(clock') /\ judged' \subseteq Row \X (1..clock')
  BY <1>2, TypeOKByParts
<1>6. epoch' = epoch
  OBVIOUS
<1>7. store' \in [Device -> Stores(clock', epoch')] /\ epoch' \in Nat \ {0}
  BY <1>1, <1>3, <1>6
<1> QED
  BY <1>1, <1>4, <1>5, <1>7
  DEF TypeOK, Logs, Stores, Cycles, Results, Versions, Conflicts, Entries,
      StoreType, OplogEntry, Version, Result

\* Every action keeps the types.
LEMMA TypeStep == TypeOK /\ [Next]_vars => TypeOK'
<1> SUFFICES ASSUME TypeOK, [Next]_vars
             PROVE  TypeOK'
  OBVIOUS
<1>1. /\ log \in Logs(clock)
      /\ epoch \in 1..epoch /\ epoch \in Nat \ {0}
      /\ clock \in Nat
      /\ judged \subseteq Row \X (1..clock)
  BY TypeOKByParts
<1>2. ASSUME NEW d \in Device
      PROVE  /\ store[d] \in Stores(clock, epoch)
             /\ cycle[d] \in Cycles(clock)
             /\ cycle = [cycle EXCEPT ![d] = cycle[d]]
             /\ store = [store EXCEPT ![d] = store[d]]
  BY TypeOKByParts
<1>3. ASSUME NEW d \in Device, NEW r \in Row, UserWrite(d, r)
      PROVE  TypeOK'
  <2>1. Write(store[d], r, clock + 1) \in Stores(clock + 1, epoch)
    BY <1>1, <1>2, WriteTyped
  <2>2. store' = [store EXCEPT ![d] = Write(store[d], r, clock + 1)]
    BY <1>3 DEF UserWrite
  <2> QED
    BY <1>3, <2>1, <2>2, EditTyped DEF UserWrite
<1>4. ASSUME NEW d \in Device, NEW r \in Deletable, UserDelete(d, r)
      PROVE  TypeOK'
  <2>1. Erase(store[d], r, clock + 1) \in Stores(clock + 1, epoch)
    BY <1>1, <1>2, EraseTyped, BoundsAssumption
  <2>2. store' = [store EXCEPT ![d] = Erase(store[d], r, clock + 1)]
    BY <1>4 DEF UserDelete
  <2> QED
    BY <1>4, <2>1, <2>2, EditTyped DEF UserDelete
<1>5. ASSUME NEW d \in Device, FullResync(d)
      PROVE  TypeOK'
  <2>1. Reset(store[d], store[d].epoch) \in Stores(clock, epoch)
    BY <1>2, StoreParts, ResetTyped
  <2>2. store' = [store EXCEPT ![d] = Reset(store[d], store[d].epoch)]
    BY <1>5 DEF FullResync
  <2> QED
    BY <1>1, <1>2, <1>5, <2>1, <2>2, DeviceMoves DEF FullResync
<1>6. ASSUME NEW d \in Device, Begin(d)
      PROVE  TypeOK'
  <2>1. CheckEpoch(store[d]) \in Stores(clock, epoch)
    BY <1>1, <1>2, ResetTyped DEF CheckEpoch
  <2>2. RetryParked(CheckEpoch(store[d]), FALSE) \in Stores(clock, epoch)
    BY <1>1, <2>1, RetryTyped
  <2>3. store' = [store EXCEPT ![d] = RetryParked(CheckEpoch(store[d]), FALSE)]
    BY <1>6 DEF Begin
  <2>4. PICK y \in Cycles(clock) : cycle' = [cycle EXCEPT ![d] = y]
    BY <1>1, <1>6, GotoTyped DEF Begin, Stage
  <2> QED
    BY <1>1, <1>6, <2>2, <2>3, <2>4, DeviceMoves DEF Begin
<1>7. ASSUME NEW d \in Device, TakeSnapshot(d)
      PROVE  TypeOK'
  <2>1. PICK y \in Cycles(clock) : cycle' = [cycle EXCEPT ![d] = y]
    <3>1. CASE Snapshot(store[d]) = 0
      BY <1>1, <1>7, <3>1, StartPullTyped DEF TakeSnapshot
    <3>2. CASE Snapshot(store[d]) # 0
      <4>1. Snapshot(store[d]) \in 0..clock /\ TRUE \in BOOLEAN /\ "push" \in Stage
        BY <1>1, <1>2, SnapshotTyped DEF Stage
      <4>2. [At("push") EXCEPT !.snap = Snapshot(store[d])] \in Cycles(clock)
        BY <1>1, <4>1, StageTyped
      <4> QED
        BY <1>7, <3>2, <4>2 DEF TakeSnapshot
    <3> QED
      BY <3>1, <3>2
  <2> QED
    BY <1>1, <1>2, <1>7, <2>1, DeviceMoves DEF TakeSnapshot
<1>8. ASSUME NEW d \in Device, PushAnswered(d)
      PROVE  TypeOK'
  <2> DEFINE snap == cycle[d].snap
             changes == Changes(store[d], snap)
  <2>1. PICK bad \in SUBSET MayRefuse(changes) :
           /\ Judge(changes \ bad)
           /\ store' = [store EXCEPT ![d] = Refuse(@, snap, bad)]
           /\ IF changes = bad
              THEN StartPull(d, store[d])
              ELSE cycle' = [cycle EXCEPT ![d].stage = "results",
                                          ![d].answers = Answers(log, changes \ bad)]
    BY <1>8 DEF PushAnswered
  <2>2. Request(changes \ bad, clock) /\ Request(bad, clock)
    BY <1>1, <1>2, ChangesTyped DEF MayRefuse
  <2>3. Refuse(store[d], snap, bad) \in Stores(clock, epoch)
    BY <1>1, <1>2, <2>2, RefuseTyped DEF Request
  <2>4. log' \in Logs(clock) /\ judged' \subseteq Row \X (1..clock)
    BY <1>1, <2>1, <2>2, JudgeTyped
  <2>5. PICK y \in Cycles(clock) : cycle' = [cycle EXCEPT ![d] = y]
    <3> HIDE DEF changes
    <3>1. CASE changes = bad
      BY <1>1, <2>1, <3>1, StartPullTyped
    <3>2. CASE changes # bad
      <4> DEFINE y == [cycle[d] EXCEPT !.stage = "results",
                                       !.answers = Answers(log, changes \ bad)]
      <4>1. Answers(log, changes \ bad) \subseteq Results(clock)
        BY <1>1, <2>2, AnswersTyped
      <4>2. y \in Cycles(clock)
        BY <1>2, <4>1 DEF Cycles, Stage
      <4>3. cycle' = [cycle EXCEPT ![d] = y]
        BY <2>1, <3>2
      <4> QED
        BY <4>2, <4>3
    <3> QED
      BY <3>1, <3>2
  <2> HIDE DEF snap, changes
  <2> QED
    BY <1>8, <2>1, <2>3, <2>4, <2>5, DeviceMoves DEF PushAnswered
<1>9. ASSUME NEW d \in Device, PushBroken(d)
      PROVE  TypeOK'
  <2> DEFINE snap == cycle[d].snap
             changes == Changes(store[d], snap)
  <2>1. PICK bad \in SUBSET MayRefuse(changes) :
           /\ \E seen \in SUBSET (changes \ bad) :
                 SentBefore(changes, seen) /\ Judge(seen)
           /\ store' = [store EXCEPT ![d] = Refuse(@, snap, bad)]
    BY <1>9 DEF PushBroken
  <2>2. PICK seen \in SUBSET (changes \ bad) : Judge(seen)
    BY <2>1
  <2>3. Request(seen, clock) /\ Request(bad, clock)
    BY <1>1, <1>2, ChangesTyped DEF MayRefuse
  <2>4. Refuse(store[d], snap, bad) \in Stores(clock, epoch)
    BY <1>1, <1>2, <2>3, RefuseTyped DEF Request
  <2>5. log' \in Logs(clock) /\ judged' \subseteq Row \X (1..clock)
    BY <1>1, <2>2, <2>3, JudgeTyped
  <2>6. PICK y \in Cycles(clock) : cycle' = [cycle EXCEPT ![d] = y]
    BY <1>1, <1>9, GotoTyped DEF PushBroken, Stage
  <2> HIDE DEF snap, changes
  <2> QED
    BY <1>9, <2>1, <2>4, <2>5, <2>6, DeviceMoves DEF PushBroken
<1>10. ASSUME NEW d \in Device, ApplyAnswers(d)
       PROVE  TypeOK'
  <2> DEFINE s == ApplyResults(store[d], cycle[d].snap, cycle[d].answers)
  <2>1. cycle[d].answers \in SUBSET Results(clock)
    BY <1>2 DEF Cycles
  <2>2. s \in Stores(clock, epoch)
    BY <1>1, <1>2, <2>1, ResultsTyped
  <2>3. store' = [store EXCEPT ![d] = s]
    BY <1>10 DEF ApplyAnswers
  <2>4. PICK y \in Cycles(clock) : cycle' = [cycle EXCEPT ![d] = y]
    BY <1>1, <1>10, StartPullTyped DEF ApplyAnswers
  <2> HIDE DEF s
  <2> QED
    BY <1>1, <1>10, <2>2, <2>3, <2>4, DeviceMoves DEF ApplyAnswers
<1>11. ASSUME NEW d \in Device, FailAnswers(d) \/ Stop(d)
       PROVE  TypeOK'
  <2>1. PICK y \in Cycles(clock) : cycle' = [cycle EXCEPT ![d] = y]
    BY <1>1, <1>11, GotoTyped DEF FailAnswers, Stop, Stage
  <2> QED
    BY <1>1, <1>2, <1>11, <2>1, DeviceMoves DEF FailAnswers, Stop
<1>12. ASSUME NEW d \in Device, Retry(d)
       PROVE  TypeOK'
  <2>1. RetryParked(store[d], FALSE) \in Stores(clock, epoch)
    BY <1>1, <1>2, RetryTyped
  <2>2. store' = [store EXCEPT ![d] = RetryParked(store[d], FALSE)]
    BY <1>12 DEF Retry
  <2>3. \E st \in Stage : cycle' = [cycle EXCEPT ![d] = [cycle[d] EXCEPT !.stage = st]]
    BY <1>12 DEF Retry, Stage
  <2>4. PICK y \in Cycles(clock) : cycle' = [cycle EXCEPT ![d] = y]
    BY <1>2, <2>3 DEF Cycles
  <2> QED
    BY <1>1, <1>12, <2>1, <2>2, <2>4, DeviceMoves DEF Retry
<1>13. ASSUME NEW d \in Device, PullReset(d)
       PROVE  TypeOK'
  <2>1. PICK f \in 1..epoch : store' = [store EXCEPT ![d] = Reset(store[d], f)]
    BY <1>1, <1>2, <1>13, StoreParts DEF PullReset
  <2>2. Reset(store[d], f) \in Stores(clock, epoch)
    BY <1>2, ResetTyped
  <2> QED
    BY <1>1, <1>2, <1>13, <2>1, <2>2, DeviceMoves DEF PullReset
<1>14. ASSUME NEW d \in Device, PullPage(d)
       PROVE  TypeOK'
  <2> DEFINE since == store[d].cursor
             next == ApplyPage(store[d], Page(log, since, PageLimit),
                               PageEnd(log, since, PageLimit))
  <2>1. since \in Nat
    BY <1>2, StoreParts
  <2>2. next \in Stores(clock, epoch)
    BY <1>1, <1>2, <2>1, PageTyped, ApplyPageTyped
  <2>3. store' = [store EXCEPT ![d] = next]
    BY <1>14 DEF PullPage
  <2>4. PICK y \in Cycles(clock) : cycle' = [cycle EXCEPT ![d] = y]
    <3>1. StartPull(d, next) \/ \E st \in Stage : Goto(d, st)
      BY <1>14 DEF PullPage, Stage
    <3> HIDE DEF next
    <3> QED
      BY <1>1, <3>1, StartPullTyped, GotoTyped
  <2> HIDE DEF next
  <2> QED
    BY <1>1, <1>14, <2>2, <2>3, <2>4, DeviceMoves DEF PullPage
<1>15. ASSUME NEW d \in Device, FinalRetry(d)
       PROVE  TypeOK'
  <2>1. RetryParked(store[d], TRUE) \in Stores(clock, epoch)
    BY <1>1, <1>2, RetryTyped
  <2>2. store' = [store EXCEPT ![d] = RetryParked(store[d], TRUE)]
    BY <1>15 DEF FinalRetry
  <2>3. PICK y \in Cycles(clock) : cycle' = [cycle EXCEPT ![d] = y]
    BY <1>1, <1>15, GotoTyped DEF FinalRetry, Stage
  <2> QED
    BY <1>1, <1>15, <2>1, <2>2, <2>3, DeviceMoves DEF FinalRetry
<1>16. CASE Restore
  <2>1. PICK k \in 0..Len(log) : log' = [i \in 1..k |-> log[i]]
    BY <1>16 DEF Restore
  <2>2. log' \in Logs(clock)
    <3>1. Len(log) \in Nat
      BY <1>1, LenProperties DEF Logs
    <3>2. k \in Nat /\ 1..k \subseteq 1..Len(log)
      BY <3>1
    <3>3. \A i \in 1..k : log[i] \in [row : Row, ts : 1..clock, val : 0..clock]
      <4>1. \A i \in 1..Len(log) : log[i] \in [row : Row, ts : 1..clock, val : 0..clock]
        BY <1>1, ElementOfSeq DEF Logs
      <4> QED
        BY <3>2, <4>1
    <3> DEFINE E == [row : Row, ts : 1..clock, val : 0..clock]
    <3>4. log' \in [1..k -> E]
      BY <2>1, <3>3
    <3>5. Logs(clock) = Seq(E)
      BY DEF Logs
    <3> HIDE DEF E
    <3> QED
      BY <3>2, <3>4, <3>5, SeqDef
  <2>3. epoch' \in Nat \ {0} /\ epoch <= epoch' /\ clock' = clock
    BY <1>1, <1>16 DEF Restore
  <2>4. Stores(clock, epoch) \subseteq Stores(clock, epoch')
    BY <1>1, <2>3, Growing
  <2>5. store' \in [Device -> Stores(clock', epoch')]
    BY <1>16, <2>3, <2>4, TypeOKByParts DEF Restore
  <2>6. cycle' \in [Device -> Cycles(clock')] /\ judged' \subseteq Row \X (1..clock')
    BY <1>16, <2>3, TypeOKByParts DEF Restore
  <2>7. log' \in Logs(clock') /\ clock' \in Nat
    BY <1>1, <2>2, <2>3
  <2> QED
    BY <2>3, <2>5, <2>6, <2>7
    DEF TypeOK, Logs, Stores, Cycles, Results, Versions, Conflicts, Entries,
        StoreType, OplogEntry, Version, Result
<1>17. CASE UNCHANGED vars
  BY <1>17 DEF vars, TypeOK, StoreType, OplogEntry, Version, Result
<1> QED
  BY <1>3, <1>4, <1>5, <1>6, <1>7, <1>8, <1>9, <1>10, <1>11, <1>12, <1>13, <1>14, <1>15,
     <1>16, <1>17
  DEF Next, Cycle, Fault

\* Every reachable state of the devices and the server has the shape TypeOK
\* gives it: stamps and versions stay within the clock and the log's positions,
\* no matter how pushes, pages and restores interleave.
THEOREM SyncTyped == Spec => []TypeOK
  BY TypeInit, TypeStep, PTL DEF Spec

-----------------------------------------------------------------------------
(* What the transactions make of the oplog.                                 *)

\* Taking remote versions over leaves the oplog alone.
LEMMA InstallOplog ==
    ASSUME NEW c, NEW e, NEW s \in Stores(c, e), NEW ups, NEW tombs
    PROVE  Install(s, ups, tombs).oplog = s.oplog
  BY DEF Install, Stores

\* So does a page.
LEMMA PageOplog ==
    ASSUME NEW c \in Nat, NEW e, NEW s \in Stores(c, e), NEW W \in SUBSET Versions(c), NEW next
    PROVE  ApplyPage(s, W, next).oplog = s.oplog
<1> DEFINE i == Install(s, Upserts(s, W) \ Orphans(s, W), PageTombs(s, W))
<1>1. Upserts(s, W) \subseteq W /\ PageTombs(s, W) \subseteq W
  BY DEF Upserts, PageTombs
<1>2. i \in Stores(c, e) /\ i.oplog = s.oplog
  BY <1>1, InstallTyped, InstallOplog
<1>3. ApplyPage(s, W, next) =
        [i EXCEPT !.parked = Park(i.parked, Orphans(s, W)), !.cursor = next]
  BY DEF ApplyPage
<1> HIDE DEF i
<1> QED
  BY <1>2, <1>3 DEF Stores

\* So does a retry.
LEMMA RetryOplog ==
    ASSUME NEW c \in Nat, NEW e, NEW s \in Stores(c, e), NEW final
    PROVE  RetryParked(s, final).oplog = s.oplog
<1> DEFINE i == Install(s, Ready(s), {})
           out == IF final THEN Abandoned(s) ELSE {}
           journal == i.journal \cup
                        {[row |-> w.row, reason |-> "parent_deleted", val |-> w.val] : w \in out}
<1>1. Ready(s) \subseteq Versions(c)
  BY StoreParts DEF Ready, Upserts
<1>2. i \in Stores(c, e) /\ i.oplog = s.oplog
  BY <1>1, InstallTyped, InstallOplog
<1>3. RetryParked(s, final) = [i EXCEPT !.parked = Stuck(s) \ out, !.journal = journal]
  BY DEF RetryParked
<1> HIDE DEF i, out, journal
<1> QED
  BY <1>2, <1>3 DEF Stores

\* And a reset.
LEMMA ResetOplog ==
    ASSUME NEW c, NEW e, NEW s \in Stores(c, e), NEW f
    PROVE  Reset(s, f).oplog = s.oplog
  BY DEF Reset, Stores

\* An edit adds entries of its own stamp.
LEMMA EditOplog ==
    ASSUME NEW c, NEW e, NEW s \in Stores(c, e), NEW r, NEW t
    PROVE  /\ s.oplog \subseteq Write(s, r, t).oplog
           /\ \A o \in Write(s, r, t).oplog : o \in s.oplog \/ o.ts = t
           /\ s.oplog \subseteq Erase(s, r, t).oplog
           /\ \A o \in Erase(s, r, t).oplog : o \in s.oplog \/ o.ts = t
<1>1. Write(s, r, t).oplog = s.oplog \cup {[row |-> r, op |-> "U", ts |-> t]}
  BY DEF Write, Stores
<1> DEFINE gone == {r} \cup {q \in CascadeBelow(r) : Present(s, q)}
           db == [q \in Row |-> IF q \in gone THEN Gone ELSE s.db[q]]
           more == {[row |-> q, op |-> "D", ts |-> t] : q \in gone}
<1>2. Erase(s, r, t) = [s EXCEPT !.db = db, !.oplog = s.oplog \cup more]
  BY DEF Erase
<1>3. \A o \in more : o.ts = t
  OBVIOUS
<1> HIDE DEF db, more
<1>4. Erase(s, r, t).oplog = s.oplog \cup more
  BY <1>2 DEF Stores
<1> QED
  BY <1>1, <1>3, <1>4

\* A refusal purges entries of refused rows only, and journals each such row.
LEMMA RefuseOplog ==
    ASSUME NEW c, NEW e, NEW s \in Stores(c, e), NEW snap, NEW bad
    PROVE  /\ Refuse(s, snap, bad).oplog \subseteq s.oplog
           /\ \A o \in s.oplog \ Refuse(s, snap, bad).oplog :
                 \E j \in Refuse(s, snap, bad).journal :
                    j.row = o.row /\ j.reason = "apply_error"
<1> DEFINE oplog == Purge(s.oplog, {b.row : b \in bad}, snap)
           more == {[row |-> b.row, reason |-> "apply_error", val |-> b.val] : b \in bad}
<1>1. \A o \in s.oplog \ oplog : \E b \in bad : o.row = b.row
  BY DEF Purge
<1>2. \A o \in s.oplog \ oplog : \E j \in more : j.row = o.row /\ j.reason = "apply_error"
  <2>1. ASSUME NEW o, NEW b \in bad, o.row = b.row
        PROVE  \E j \in more : j.row = o.row /\ j.reason = "apply_error"
    <3> WITNESS [row |-> b.row, reason |-> "apply_error", val |-> b.val] \in more
    <3> QED
      BY <2>1
  <2> HIDE DEF oplog, more
  <2> QED
    BY <1>1, <2>1
<1>3. oplog \subseteq s.oplog
  BY PurgeTyped
<1>4. Refuse(s, snap, bad) = [s EXCEPT !.oplog = oplog, !.journal = s.journal \cup more]
  BY DEF Refuse
<1> HIDE DEF oplog, more
<1>5. /\ Refuse(s, snap, bad).oplog = oplog
      /\ Refuse(s, snap, bad).journal = s.journal \cup more
  BY <1>4 DEF Stores
<1> QED
  BY <1>2, <1>3, <1>5

\* The results purge the answered rows up to the snapshot.
LEMMA ResultsOplog ==
    ASSUME NEW c \in Nat, NEW e, NEW s \in Stores(c, e), NEW snap,
           NEW answers \in SUBSET Results(c)
    PROVE  /\ ApplyResults(s, snap, answers).oplog \subseteq s.oplog
           /\ \A o \in s.oplog \ ApplyResults(s, snap, answers).oplog :
                 /\ ~(o.ts > snap)
                 /\ \E a \in answers : o.row = a.current.row
<1> DEFINE i == Install(s, WinnerUps(s, snap, answers), WinnerTombs(s, snap, answers))
           oplog == Purge(i.oplog, {a.current.row : a \in answers}, snap)
           rv == Based(i.rv, {a.current : a \in {b \in answers : ~b.lost}})
           journal == i.journal \cup
                        {[row |-> a.current.row, reason |-> "lww_lost", val |-> Gone] :
                           a \in {b \in answers : b.lost}}
<1>1. /\ WinnerUps(s, snap, answers) \subseteq Versions(c)
      /\ WinnerTombs(s, snap, answers) \subseteq Versions(c)
  BY DEF WinnerUps, WinnerTombs, Winners, Results
<1>2. i \in Stores(c, e) /\ i.oplog = s.oplog
  BY <1>1, InstallTyped, InstallOplog
<1>3. ApplyResults(s, snap, answers) =
        [i EXCEPT !.oplog = oplog, !.rv = rv, !.journal = journal]
  BY DEF ApplyResults
<1>4. /\ oplog \subseteq s.oplog
      /\ \A o \in s.oplog \ oplog : ~(o.ts > snap) /\ \E a \in answers : o.row = a.current.row
  <2> HIDE DEF i
  <2> QED
    BY <1>2 DEF Purge
<1> HIDE DEF i, oplog, rv, journal
<1>5. ApplyResults(s, snap, answers).oplog = oplog
  BY <1>2, <1>3 DEF Stores
<1> QED
  BY <1>4, <1>5

\* A change carries the stamp of the last edit it covers.
LEMMA ChangeCovers ==
    ASSUME NEW c \in Nat, NEW e, NEW s \in Stores(c, e), NEW snap, NEW r \in Row,
           NEW o \in s.oplog, o.row = r, o.ts <= snap
    PROVE  /\ r \in Covered(s, snap)
           /\ Change(s, snap, r).ts \in o.ts..c
<1> DEFINE ops == {p \in s.oplog : p.row = r /\ p.ts <= snap}
           T == {p.ts : p \in ops}
           last == CHOOSE p \in ops : \A q \in ops : q.ts <= p.ts
<1>1. o \in ops /\ \A p \in ops : p.ts \in 1..c
  BY StoreParts DEF Entries
<1>2. \E t \in T : \A u \in T : u <= t
  <2>1. T \in SUBSET Nat /\ T # {} /\ \A x \in T : x <= c
    BY <1>1
  <2> HIDE DEF T
  <2> QED
    BY <2>1, Greatest
<1>3. \E p \in ops : \A q \in ops : q.ts <= p.ts
  BY <1>2
<1>4. last \in ops /\ \A q \in ops : q.ts <= last.ts
  BY <1>3
<1>5. Change(s, snap, r).ts = last.ts
  BY DEF Change
<1>6. r \in Covered(s, snap)
  BY DEF Covered
<1> HIDE DEF last
<1>7. last.ts \in 1..c /\ o.ts \in 1..c /\ o.ts <= last.ts
  BY <1>1, <1>4
<1> QED
  BY <1>5, <1>6, <1>7

-----------------------------------------------------------------------------
(* Edits leave the oplog only once the server has judged them.              *)

\* While the answers of a push wait to be applied, the edits of the answered
\* rows up to the snapshot have been judged, themselves or a later one.
Answered(d) ==
    cycle[d].stage = "results" =>
        \A a \in cycle[d].answers : \A o \in store[d].oplog :
            (o.row = a.current.row /\ o.ts <= cycle[d].snap) =>
                \E t \in o.ts..clock : <<o.row, t>> \in judged

JudgedInv == TypeOK /\ \A d \in Device : Answered(d)

\* What the step may take from the oplog of d.
Leaves(d) ==
    \A o \in store[d].oplog \ store'[d].oplog :
        \/ \E t \in o.ts..clock : <<o.row, t>> \in judged
        \/ \E j \in store'[d].journal : j.row = o.row /\ j.reason = "apply_error"

\* A step that adds at most later edits and opens no answers.
LEMMA AnsweredStays ==
    ASSUME TypeOK, NEW d \in Device, Answered(d),
           \A o \in store'[d].oplog : o \in store[d].oplog \/ o.ts = clock + 1,
           cycle'[d].stage = "results" => cycle'[d] = cycle[d],
           clock' \in Nat, clock <= clock', judged \subseteq judged'
    PROVE  Answered(d)'
<1> SUFFICES ASSUME cycle'[d].stage = "results",
                    NEW a \in cycle'[d].answers, NEW o \in store'[d].oplog,
                    o.row = a.current.row, o.ts <= cycle'[d].snap
             PROVE  \E t \in o.ts..clock' : <<o.row, t>> \in judged'
  BY DEF Answered
<1>1. cycle[d] \in Cycles(clock) /\ store[d] \in Stores(clock, epoch) /\ clock \in Nat
  BY TypeOKByParts
<1>2. cycle[d].snap \in 0..clock
  BY <1>1 DEF Cycles
<1>3. cycle'[d] = cycle[d]
  OBVIOUS
<1>4. o \in store[d].oplog
  BY <1>1, <1>2, <1>3
<1>5. PICK t \in o.ts..clock : <<o.row, t>> \in judged
  BY <1>3, <1>4 DEF Answered
<1>6. o.ts \in Nat
  BY <1>1, <1>4, StoreParts DEF Entries
<1>7. t \in o.ts..clock'
  BY <1>1, <1>5, <1>6
<1> QED
  BY <1>5, <1>7

\* A step that takes no edit away does both.
LEMMA Quiet ==
    ASSUME JudgedInv, TypeOK', clock \in Nat, clock <= clock', judged \subseteq judged',
           \A d \in Device :
              /\ store[d].oplog \subseteq store'[d].oplog
              /\ \A o \in store'[d].oplog : o \in store[d].oplog \/ o.ts = clock + 1
              /\ cycle'[d].stage = "results" => cycle'[d] = cycle[d]
    PROVE  JudgedInv' /\ \A d \in Device : Leaves(d)
<1>1. clock' \in Nat
  BY DEF TypeOK
<1>2. \A d \in Device : Answered(d)'
  BY <1>1, AnsweredStays DEF JudgedInv
<1> QED
  BY <1>2 DEF JudgedInv, Leaves

\* The stores other devices have, and the cycles they are in.
LEMMA OthersStay ==
    ASSUME TypeOK, NEW d \in Device, NEW q \in Device, q # d, NEW x, NEW y
    PROVE  [store EXCEPT ![d] = x][q] = store[q] /\ [cycle EXCEPT ![d] = y][q] = cycle[q]
  BY DEF TypeOK

\* A step of one device's database that keeps its oplog.
LEMMA QuietStore ==
    ASSUME JudgedInv, TypeOK', NEW d \in Device, NEW s,
           store' = [store EXCEPT ![d] = s], s.oplog = store[d].oplog,
           NEW y, cycle' = [cycle EXCEPT ![d] = y],
           y.stage = "results" => y = cycle[d], UNCHANGED <<clock, judged>>
    PROVE  JudgedInv' /\ \A q \in Device : Leaves(q)
<1>1. clock \in Nat /\ clock <= clock' /\ judged \subseteq judged'
  BY DEF JudgedInv, TypeOK
<1>2. store'[d] = s /\ cycle'[d] = y
  BY DEF JudgedInv, TypeOK
<1>3. \A q \in Device : q # d => store'[q] = store[q] /\ cycle'[q] = cycle[q]
  BY OthersStay DEF JudgedInv
<1>4. \A q \in Device :
         /\ store[q].oplog \subseteq store'[q].oplog
         /\ \A o \in store'[q].oplog : o \in store[q].oplog \/ o.ts = clock + 1
         /\ cycle'[q].stage = "results" => cycle'[q] = cycle[q]
  BY <1>2, <1>3
<1> QED
  BY <1>1, <1>4, Quiet

\* Going on with a pull opens no answers.
LEMMA PullOpensNone ==
    ASSUME NEW d \in Device, NEW s, StartPull(d, s)
    PROVE  \E y : cycle' = [cycle EXCEPT ![d] = y] /\ y.stage # "results"
<1> DEFINE y == [At(IF s.parked = {} THEN "pull" ELSE "retry") EXCEPT !.more = TRUE]
<1>1. cycle' = [cycle EXCEPT ![d] = y]
  BY DEF StartPull
<1>2. y.stage # "results"
  BY DEF At
<1> HIDE DEF y
<1> QED
  BY <1>1, <1>2

\* Nor does going anywhere else.
LEMMA GotoOpensNone ==
    ASSUME NEW d \in Device, NEW st, st # "results", Goto(d, st)
    PROVE  \E y : cycle' = [cycle EXCEPT ![d] = y] /\ y.stage # "results"
<1>1. At(st).stage # "results"
  BY DEF At
<1>2. cycle' = [cycle EXCEPT ![d] = At(st)]
  BY DEF Goto
<1> QED
  BY <1>1, <1>2

\* A push's refusals: its own device, and no answers opened by them.
LEMMA RefusalLeaves ==
    ASSUME TypeOK, NEW d \in Device, NEW snap, NEW bad,
           store' = [store EXCEPT ![d] = Refuse(store[d], snap, bad)]
    PROVE  /\ \A q \in Device : Leaves(q)
           /\ \A q \in Device : store'[q].oplog \subseteq store[q].oplog
<1>1. \A q \in Device : store[q] \in Stores(clock, epoch)
  BY TypeOKByParts
<1>2. store'[d] = Refuse(store[d], snap, bad)
  BY DEF TypeOK
<1>3. \A q \in Device : q # d => store'[q] = store[q]
  BY OthersStay
<1>4. Leaves(d) /\ store'[d].oplog \subseteq store[d].oplog
  BY <1>1, <1>2, RefuseOplog DEF Leaves
<1> QED
  BY <1>3, <1>4 DEF Leaves

\* An answered push: what it answers has been judged, with its stamp.
LEMMA AnsweredByPush ==
    ASSUME JudgedInv, TypeOK', NEW d \in Device, PushAnswered(d)
    PROVE  JudgedInv' /\ \A q \in Device : Leaves(q)
<1> DEFINE snap == cycle[d].snap
           changes == Changes(store[d], snap)
<1>1. PICK bad \in SUBSET MayRefuse(changes) :
         /\ Judge(changes \ bad)
         /\ store' = [store EXCEPT ![d] = Refuse(store[d], snap, bad)]
         /\ IF changes = bad
            THEN StartPull(d, store[d])
            ELSE cycle' = [cycle EXCEPT ![d].stage = "results",
                                        ![d].answers = Answers(log, changes \ bad)]
  BY DEF PushAnswered
<1>2. /\ TypeOK /\ clock \in Nat /\ clock' = clock /\ clock' \in Nat
      /\ store[d] \in Stores(clock, epoch)
      /\ cycle[d] \in Cycles(clock)
  BY TypeOKByParts DEF JudgedInv, PushAnswered
<1>3. judged' = judged \cup {<<c.row, c.ts>> : c \in changes \ bad}
  BY <1>1 DEF Judge
<1>4. /\ \A q \in Device : Leaves(q)
      /\ \A q \in Device : store'[q].oplog \subseteq store[q].oplog
  BY <1>1, <1>2, RefusalLeaves
<1>5. ASSUME NEW q \in Device, cycle'[q].stage = "results" => cycle'[q] = cycle[q]
      PROVE  Answered(q)'
  BY <1>2, <1>3, <1>4, <1>5, AnsweredStays DEF JudgedInv
<1>6. ASSUME NEW q \in Device, q # d
      PROVE  cycle'[q] = cycle[q]
  <2>1. \E y : cycle' = [cycle EXCEPT ![d] = y]
    BY <1>1, PullOpensNone
  <2> QED
    BY <1>2, <1>6, <2>1, OthersStay
<1>7. Answered(d)'
  <2>1. CASE changes = bad
    <3>1. cycle'[d].stage # "results"
      BY <1>1, <1>2, <2>1, PullOpensNone DEF TypeOK
    <3> QED
      BY <1>5, <3>1
  <2>2. CASE changes # bad
    <3>1. /\ cycle'[d].answers = Answers(log, changes \ bad)
          /\ cycle'[d].snap = snap
      <4>1. cycle' = [cycle EXCEPT ![d] = [cycle[d] EXCEPT !.stage = "results",
                                             !.answers = Answers(log, changes \ bad)]]
        BY <1>1, <2>2
      <4> DEFINE n == Answers(log, changes \ bad)
                 y == [cycle[d] EXCEPT !.stage = "results", !.answers = n]
      <4> HIDE DEF n, changes
      <4>2. y.answers = n /\ y.snap = snap
        BY <1>2 DEF Cycles
      <4>3. cycle'[d] = y
        BY <1>2, <4>1 DEF TypeOK, n
      <4> QED
        BY <4>2, <4>3 DEF n
    <3> SUFFICES ASSUME NEW a \in cycle'[d].answers, NEW o \in store'[d].oplog,
                        o.row = a.current.row, o.ts <= snap
                 PROVE  \E t \in o.ts..clock' : <<o.row, t>> \in judged'
      BY <3>1 DEF Answered
    <3>2. PICK c \in changes \ bad : a.current.row = c.row
      <4> HIDE DEF changes
      <4> QED
        BY <3>1 DEF Answers, PullRow
    <3>3. PICK r \in Covered(store[d], snap) : c = Change(store[d], snap, r)
      BY <3>2 DEF Changes
    <3>4. r \in Row /\ c.row = r
      BY <3>3 DEF Covered, Change
    <3>5. o \in store[d].oplog /\ o.row = r
      BY <1>4, <3>2, <3>4
    <3>6. c.ts \in o.ts..clock
      BY <1>2, <3>3, <3>4, <3>5, ChangeCovers
    <3>7. <<c.row, c.ts>> \in judged'
      BY <1>3, <3>2
    <3> QED
      BY <1>2, <3>4, <3>5, <3>6, <3>7
  <2> QED
    BY <2>1, <2>2
<1> QED
  BY <1>4, <1>5, <1>6, <1>7 DEF JudgedInv

\* A broken push opens no answers.
LEMMA BrokenByPush ==
    ASSUME JudgedInv, TypeOK', NEW d \in Device, PushBroken(d)
    PROVE  JudgedInv' /\ \A q \in Device : Leaves(q)
<1>1. PICK bad : store' = [store EXCEPT ![d] = Refuse(store[d], cycle[d].snap, bad)]
  BY DEF PushBroken
<1>2. TypeOK /\ clock \in Nat /\ clock' = clock /\ judged \subseteq judged'
  BY DEF JudgedInv, TypeOK, PushBroken, Judge
<1>3. /\ \A q \in Device : Leaves(q)
      /\ \A q \in Device : store'[q].oplog \subseteq store[q].oplog
  BY <1>1, <1>2, RefusalLeaves
<1>4. PICK y : cycle' = [cycle EXCEPT ![d] = y] /\ y.stage # "results"
  BY GotoOpensNone DEF PushBroken
<1>5. \A q \in Device : cycle'[q].stage = "results" => cycle'[q] = cycle[q]
  <2>1. cycle'[d] = y
    BY <1>2, <1>4 DEF TypeOK
  <2> QED
    BY <1>2, <1>4, <2>1, OthersStay
<1>6. \A q \in Device : Answered(q)'
  BY <1>2, <1>3, <1>5, AnsweredStays DEF JudgedInv
<1> QED
  BY <1>3, <1>6 DEF JudgedInv

\* The answers take away what they answer.
LEMMA LeavesByAnswers ==
    ASSUME JudgedInv, TypeOK', NEW d \in Device, ApplyAnswers(d)
    PROVE  JudgedInv' /\ \A q \in Device : Leaves(q)
<1>1. /\ TypeOK /\ clock \in Nat /\ clock' = clock /\ judged' = judged
      /\ store[d] \in Stores(clock, epoch) /\ cycle[d] \in Cycles(clock)
      /\ cycle[d].stage = "results"
  BY TypeOKByParts DEF JudgedInv, ApplyAnswers
<1>2. store' = [store EXCEPT ![d] = ApplyResults(store[d], cycle[d].snap, cycle[d].answers)]
  BY DEF ApplyAnswers
<1>3. /\ store'[d].oplog \subseteq store[d].oplog
      /\ \A o \in store[d].oplog \ store'[d].oplog :
            /\ ~(o.ts > cycle[d].snap)
            /\ \E a \in cycle[d].answers : o.row = a.current.row
  <2>1. cycle[d].answers \in SUBSET Results(clock)
    BY <1>1 DEF Cycles
  <2>2. store'[d] = ApplyResults(store[d], cycle[d].snap, cycle[d].answers)
    BY <1>1, <1>2 DEF TypeOK
  <2> QED
    BY <1>1, <2>1, <2>2, ResultsOplog
<1>4. \A q \in Device : q # d => store'[q] = store[q]
  BY <1>1, <1>2, OthersStay
<1>5. Leaves(d)
  <2> SUFFICES ASSUME NEW o \in store[d].oplog, o \notin store'[d].oplog
               PROVE  \E t \in o.ts..clock : <<o.row, t>> \in judged
    BY DEF Leaves
  <2>1. (\E a \in cycle[d].answers : o.row = a.current.row) /\ ~(o.ts > cycle[d].snap)
    BY <1>3
  <2>2. o.ts \in Nat /\ cycle[d].snap \in Nat
    BY <1>1, StoreParts DEF Entries, Cycles
  <2>3. o.ts <= cycle[d].snap
    BY <2>1, <2>2
  <2> QED
    BY <1>1, <2>1, <2>3 DEF JudgedInv, Answered
<1>6. PICK y : cycle' = [cycle EXCEPT ![d] = y] /\ y.stage # "results"
  BY PullOpensNone DEF ApplyAnswers
<1>7. \A q \in Device : cycle'[q].stage = "results" => cycle'[q] = cycle[q]
  <2>1. cycle'[d] = y
    BY <1>1, <1>6 DEF TypeOK
  <2> QED
    BY <1>1, <1>6, <2>1, OthersStay
<1>8. \A q \in Device : store'[q].oplog \subseteq store[q].oplog
  BY <1>3, <1>4
<1>9. \A q \in Device : Answered(q)'
  BY <1>1, <1>7, <1>8, AnsweredStays DEF JudgedInv
<1> QED
  BY <1>4, <1>5, <1>9 DEF JudgedInv, Leaves

\* The user's edits only add.
LEMMA LeavesByEdit ==
    ASSUME JudgedInv, TypeOK', NEW d \in Device, NEW r,
           \/ store' = [store EXCEPT ![d] = Write(store[d], r, clock + 1)]
           \/ store' = [store EXCEPT ![d] = Erase(store[d], r, clock + 1)],
           clock' = clock + 1, UNCHANGED <<cycle, judged>>
    PROVE  JudgedInv' /\ \A q \in Device : Leaves(q)
<1>1. TypeOK /\ clock \in Nat /\ clock <= clock' /\ store[d] \in Stores(clock, epoch)
  BY TypeOKByParts DEF JudgedInv
<1>2. \/ store'[d] = Write(store[d], r, clock + 1)
      \/ store'[d] = Erase(store[d], r, clock + 1)
  BY <1>1 DEF TypeOK
<1>3. /\ store[d].oplog \subseteq store'[d].oplog
      /\ \A o \in store'[d].oplog : o \in store[d].oplog \/ o.ts = clock + 1
  BY <1>1, <1>2, EditOplog
<1>4. \A q \in Device : q # d => store'[q] = store[q]
  <2>1. PICK s : store' = [store EXCEPT ![d] = s]
    OBVIOUS
  <2> QED
    BY <1>1, <2>1, OthersStay
<1> QED
  BY <1>1, <1>3, <1>4, Quiet

\* Every step keeps the invariant and takes away only what was judged.
LEMMA JudgedStep ==
    JudgedInv /\ [Next]_vars => JudgedInv' /\ \A d \in Device : Leaves(d)
<1> SUFFICES ASSUME JudgedInv, [Next]_vars
             PROVE  JudgedInv' /\ \A d \in Device : Leaves(d)
  OBVIOUS
<1>1. TypeOK /\ TypeOK'
  BY TypeStep DEF JudgedInv
<1>2. /\ clock \in Nat
      /\ \A d \in Device : store[d] \in Stores(clock, epoch) /\ cycle[d] \in Cycles(clock)
      /\ \A d \in Device : cycle = [cycle EXCEPT ![d] = cycle[d]]
                         /\ store = [store EXCEPT ![d] = store[d]]
  BY <1>1, TypeOKByParts
<1>3. ASSUME NEW d \in Device, NEW r \in Row, UserWrite(d, r) \/ UserDelete(d, r)
      PROVE  JudgedInv' /\ \A q \in Device : Leaves(q)
  BY <1>1, <1>3, LeavesByEdit DEF UserWrite, UserDelete
<1>4. ASSUME NEW d \in Device, FullResync(d)
      PROVE  JudgedInv' /\ \A q \in Device : Leaves(q)
  <2>1. store' = [store EXCEPT ![d] = Reset(store[d], store[d].epoch)]
    BY <1>4 DEF FullResync
  <2>2. Reset(store[d], store[d].epoch).oplog = store[d].oplog
    BY <1>2, ResetOplog
  <2>3. cycle' = [cycle EXCEPT ![d] = cycle[d]] /\ UNCHANGED <<clock, judged>>
    BY <1>2, <1>4 DEF FullResync
  <2> QED
    BY <1>1, <2>1, <2>2, <2>3, QuietStore
<1>5. ASSUME NEW d \in Device, Begin(d)
      PROVE  JudgedInv' /\ \A q \in Device : Leaves(q)
  <2> DEFINE s == CheckEpoch(store[d])
  <2>1. s \in Stores(clock, epoch) /\ s.oplog = store[d].oplog
    BY <1>1, <1>2, ResetTyped, ResetOplog DEF CheckEpoch, TypeOK
  <2>2. RetryParked(s, FALSE).oplog = store[d].oplog
    <3> HIDE DEF s
    <3> QED
      BY <1>2, <2>1, RetryOplog
  <2>3. store' = [store EXCEPT ![d] = RetryParked(s, FALSE)]
    BY <1>5 DEF Begin
  <2>4. PICK y : cycle' = [cycle EXCEPT ![d] = y] /\ y.stage # "results"
    BY <1>5, GotoOpensNone DEF Begin
  <2> HIDE DEF s
  <2> QED
    BY <1>1, <1>5, <2>2, <2>3, <2>4, QuietStore DEF Begin
<1>6. ASSUME NEW d \in Device, TakeSnapshot(d)
      PROVE  JudgedInv' /\ \A q \in Device : Leaves(q)
  <2>1. PICK y : cycle' = [cycle EXCEPT ![d] = y] /\ y.stage # "results"
    <3>1. CASE Snapshot(store[d]) = 0
      BY <1>6, <3>1, PullOpensNone DEF TakeSnapshot
    <3>2. CASE Snapshot(store[d]) # 0
      <4>1. [At("push") EXCEPT !.snap = Snapshot(store[d])].stage # "results"
        BY DEF At
      <4> QED
        BY <1>6, <3>2, <4>1 DEF TakeSnapshot
    <3> QED
      BY <3>1, <3>2
  <2> QED
    BY <1>1, <1>2, <1>6, <2>1, QuietStore DEF TakeSnapshot
<1>7. ASSUME NEW d \in Device, FailAnswers(d) \/ Stop(d)
      PROVE  JudgedInv' /\ \A q \in Device : Leaves(q)
  <2>1. PICK y : cycle' = [cycle EXCEPT ![d] = y] /\ y.stage # "results"
    BY <1>7, GotoOpensNone DEF FailAnswers, Stop
  <2> QED
    BY <1>1, <1>2, <1>7, <2>1, QuietStore DEF FailAnswers, Stop
<1>8. ASSUME NEW d \in Device, Retry(d)
      PROVE  JudgedInv' /\ \A q \in Device : Leaves(q)
  <2>1. RetryParked(store[d], FALSE).oplog = store[d].oplog
    BY <1>2, RetryOplog
  <2>2. store' = [store EXCEPT ![d] = RetryParked(store[d], FALSE)]
    BY <1>8 DEF Retry
  <2> DEFINE st == IF cycle[d].more THEN "pull" ELSE "final"
  <2>3. cycle' = [cycle EXCEPT ![d].stage = st] /\ st # "results"
    BY <1>8 DEF Retry
  <2> HIDE DEF st
  <2>4. PICK y : cycle' = [cycle EXCEPT ![d] = y] /\ y.stage # "results"
    <3> DEFINE y == [cycle[d] EXCEPT !.stage = st]
    <3>1. y.stage = st
      BY <1>2 DEF Cycles
    <3>2. cycle' = [cycle EXCEPT ![d] = y]
      BY <2>3
    <3> HIDE DEF y
    <3> QED
      BY <2>3, <3>1, <3>2
  <2> QED
    BY <1>1, <1>8, <2>1, <2>2, <2>4, QuietStore DEF Retry
<1>9. ASSUME NEW d \in Device, PullReset(d)
      PROVE  JudgedInv' /\ \A q \in Device : Leaves(q)
  <2>1. PICK f : store' = [store EXCEPT ![d] = Reset(store[d], f)]
    BY <1>9 DEF PullReset
  <2>2. Reset(store[d], f).oplog = store[d].oplog
    BY <1>2, ResetOplog
  <2>3. cycle' = [cycle EXCEPT ![d] = cycle[d]] /\ UNCHANGED <<clock, judged>>
    BY <1>2, <1>9 DEF PullReset
  <2> QED
    BY <1>1, <2>1, <2>2, <2>3, QuietStore
<1>10. ASSUME NEW d \in Device, PullPage(d)
       PROVE  JudgedInv' /\ \A q \in Device : Leaves(q)
  <2> DEFINE since == store[d].cursor
             next == ApplyPage(store[d], Page(log, since, PageLimit),
                               PageEnd(log, since, PageLimit))
  <2>1. since \in Nat /\ log \in Logs(clock)
    BY <1>1, <1>2, StoreParts, TypeOKByParts
  <2>2. next.oplog = store[d].oplog
    BY <1>2, <2>1, PageTyped, PageOplog
  <2>3. store' = [store EXCEPT ![d] = next]
    BY <1>10 DEF PullPage
  <2>4. PICK y : cycle' = [cycle EXCEPT ![d] = y] /\ y.stage # "results"
    <3>1. StartPull(d, next) \/ \E st : st # "results" /\ Goto(d, st)
      BY <1>10 DEF PullPage
    <3> HIDE DEF next
    <3> QED
      BY <3>1, PullOpensNone, GotoOpensNone
  <2> HIDE DEF next
  <2> QED
    BY <1>1, <1>10, <2>2, <2>3, <2>4, QuietStore DEF PullPage
<1>11. ASSUME NEW d \in Device, FinalRetry(d)
       PROVE  JudgedInv' /\ \A q \in Device : Leaves(q)
  <2>1. RetryParked(store[d], TRUE).oplog = store[d].oplog
    BY <1>2, RetryOplog
  <2>2. store' = [store EXCEPT ![d] = RetryParked(store[d], TRUE)]
    BY <1>11 DEF FinalRetry
  <2>3. PICK y : cycle' = [cycle EXCEPT ![d] = y] /\ y.stage # "results"
    BY <1>11, GotoOpensNone DEF FinalRetry
  <2> QED
    BY <1>1, <1>11, <2>1, <2>2, <2>3, QuietStore DEF FinalRetry
<1>12. CASE Restore \/ UNCHANGED vars
  <2>1. UNCHANGED <<clock, store, cycle, judged>>
    BY <1>12 DEF Restore, vars
  <2> QED
    BY <1>1, <1>2, <2>1, Quiet
<1> QED
  BY <1>1, <1>3, <1>4, <1>5, <1>6, <1>7, <1>8, <1>9, <1>10, <1>11, <1>12,
     AnsweredByPush, BrokenByPush, LeavesByAnswers, BoundsAssumption
  DEF Next, Cycle, Fault

\* An edit leaves a device's oplog only once the server has judged that edit or
\* a later one of its row, or the change was refused and journaled: an answer
\* lost, a batch that fails half way, a stop or a restore never takes it away
\* (push.rs purges up to the snapshot, with the answers in hand).
THEOREM EditsJudged == Spec => EditsLeaveOnlyWhenJudged
<1>1. Init => JudgedInv
  <2>1. ASSUME Init, NEW d \in Device
        PROVE  Answered(d)
    BY <2>1 DEF Init, Answered, At
  <2> QED
    BY <2>1, TypeInit DEF JudgedInv
<1>2. JudgedInv /\ [Next]_vars => JudgedInv'
  BY JudgedStep
<1>3. JudgedInv /\ [Next]_vars =>
         [\A d \in Device : \A o \in store[d].oplog \ store'[d].oplog :
             \/ \E t \in o.ts..clock : <<o.row, t>> \in judged
             \/ \E j \in store'[d].journal : j.row = o.row /\ j.reason = "apply_error"]_vars
  BY JudgedStep DEF Leaves
<1> QED
  BY <1>1, <1>2, <1>3, PTL DEF Spec, EditsLeaveOnlyWhenJudged

=============================================================================
