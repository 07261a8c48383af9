------------------------- MODULE SyncVersions_proofs -------------------------
(***************************************************************************)
(* What a device's versions say of the server's log: no live row is        *)
(* skipped by the cursor, a row without pending edits is the version it is *)
(* based on, and within an epoch that version only goes forward.  For      *)
(* every forest of rows, every set of devices and every value of the       *)
(* bounds.                                                                 *)
(***************************************************************************)
EXTENDS SyncCycle_proofs, SyncTypes_proofs

-----------------------------------------------------------------------------
(* What each transaction makes of rows and versions.                        *)

\* At most one version of a row.
Distinct(W) == \A v, w \in W : v.row = w.row => v = w

\* A row that hangs from another one is gone.
Vanished(n, r) == Parent[r] # NoRow /\ n.db[r] = Gone

\* Store n is store s with the upserts ups and the tombstones tombs taken over:
\* their rows are at their versions, the others as they were, unless a row
\* went with its parent.
TookOver(s, n, ups, tombs) ==
    /\ \A w \in ups \cup tombs : n.rv[w.row] = w.seq
    /\ \A w \in ups : n.db[w.row] = w.val \/ Vanished(n, w.row)
    /\ \A w \in tombs : n.db[w.row] = Gone
    /\ \A r \in Row : (\A w \in ups \cup tombs : w.row # r) =>
          /\ n.rv[r] = s.rv[r]
          /\ n.db[r] = s.db[r] \/ Vanished(n, r)

\* A typed store has the shape the proofs about foreign keys ask for.
LEMMA StoreShape ==
    ASSUME NEW c, NEW e, NEW s \in Stores(c, e)
    PROVE  IsStore(s)
<1> DEFINE D == [Row -> {s.db[r] : r \in Row}]
<1>1. s.db \in [Row -> 0..c]
  BY StoreParts
<1>2. s.db \in D
  BY <1>1
<1> HIDE DEF D
<1>3. s \in [db : D, oplog : {s.oplog}, rv : {s.rv}, cursor : {s.cursor},
             parked : {s.parked}, journal : {s.journal}, epoch : {s.epoch}]
  BY <1>2 DEF Stores
<1> QED
  BY <1>3 DEF IsStore, D

\* Distinct versions are named by their rows.
LEMMA NamedVersion ==
    ASSUME NEW W, Distinct(W), NEW w \in W
    PROVE  Named(W, w.row) = w
  BY DEF Named, Distinct

\* What hangs below a row has a parent.
LEMMA BelowHasParent ==
    ASSUME NEW r \in Row, NEW q \in Descendants(r)
    PROVE  q \in Row /\ Parent[q] # NoRow
  BY TreeAssumption DEF Descendants

\* Taking versions over: what it leaves alone.
LEMMA InstallLeaves ==
    ASSUME NEW c, NEW e, NEW s \in Stores(c, e), NEW ups, NEW tombs
    PROVE  /\ s.journal \subseteq Install(s, ups, tombs).journal
           /\ Install(s, ups, tombs).oplog = s.oplog
           /\ Install(s, ups, tombs).cursor = s.cursor
           /\ Install(s, ups, tombs).parked = s.parked
           /\ Install(s, ups, tombs).epoch = s.epoch
<1> DEFINE i == Install(s, ups, tombs)
           db == Contents(s, ups, tombs)
           rv == Based(s.rv, ups \cup tombs)
           journal == s.journal \cup Swept(s, ups, tombs)
<1>1. i = [s EXCEPT !.db = db, !.rv = rv, !.journal = journal]
  BY DEF Install
<1>2. s.journal \subseteq journal
  OBVIOUS
<1> HIDE DEF db, rv, journal, i
<1>3. /\ i.journal = journal
      /\ i.oplog = s.oplog /\ i.cursor = s.cursor
      /\ i.parked = s.parked /\ i.epoch = s.epoch
  BY <1>1 DEF Stores
<1> QED
  BY <1>2, <1>3 DEF i

\* And what it takes over.
LEMMA InstallTakes ==
    ASSUME NEW c \in Nat, NEW e, NEW s \in Stores(c, e),
           NEW ups \in SUBSET Versions(c), NEW tombs \in SUBSET Versions(c),
           Distinct(ups \cup tombs), \A w \in ups : w.val # Gone, \A w \in tombs : w.val = Gone
    PROVE  TookOver(s, Install(s, ups, tombs), ups, tombs)
<1> DEFINE i == Install(s, ups, tombs)
           db == Contents(s, ups, tombs)
           rv == Based(s.rv, ups \cup tombs)
           journal == s.journal \cup Swept(s, ups, tombs)
<1>1. i = [s EXCEPT !.db = db, !.rv = rv, !.journal = journal]
  BY DEF Install
<1> HIDE DEF db, rv, journal, i
<1>3. i.db = db /\ i.rv = rv
  BY <1>1 DEF Stores
<1>4. \A w \in ups \cup tombs : w.row \in Row
  BY DEF Versions
<1>5. ASSUME NEW w \in ups \cup tombs
      PROVE  i.rv[w.row] = w.seq
  <2>1. Named(ups \cup tombs, w.row) = w
    BY NamedVersion
  <2>2. rv[w.row] = w.seq
    BY <1>4, <2>1 DEF rv, Based
  <2> QED
    BY <1>3, <2>2
<1>6. ASSUME NEW r \in Row, r \in Wiped(tombs), \A w \in tombs : w.row # r
      PROVE  Vanished(i, r)
  <2>1. PICK w \in tombs : r \in Descendants(w.row)
    BY <1>6 DEF Wiped
  <2>2. Parent[r] # NoRow
    BY <1>4, <2>1, BelowHasParent
  <2>3. db[r] = Gone
    BY <1>6 DEF db, Contents
  <2> QED
    BY <1>3, <2>2, <2>3 DEF Vanished
<1>7. ASSUME NEW w \in ups
      PROVE  i.db[w.row] = w.val \/ Vanished(i, w.row)
  <2>1. \A t \in tombs : t.row # w.row
    BY DEF Distinct
  <2>2. CASE w.row \in Wiped(tombs)
    BY <1>4, <1>6, <2>1, <2>2
  <2>3. CASE w.row \notin Wiped(tombs)
    <3>1. Named(ups, w.row) = w
      BY NamedVersion DEF Distinct
    <3>2. db[w.row] = w.val
      BY <1>4, <2>3, <3>1 DEF db, Contents
    <3> QED
      BY <1>3, <3>2
  <2> QED
    BY <2>2, <2>3
<1>8. ASSUME NEW w \in tombs
      PROVE  i.db[w.row] = Gone
  <2>1. w.row \in Wiped(tombs)
    BY DEF Wiped
  <2>2. db[w.row] = Gone
    BY <1>4, <2>1 DEF db, Contents
  <2> QED
    BY <1>3, <2>2
<1>9. ASSUME NEW r \in Row, \A w \in ups \cup tombs : w.row # r
      PROVE  i.rv[r] = s.rv[r] /\ (i.db[r] = s.db[r] \/ Vanished(i, r))
  <2>1. rv[r] = s.rv[r]
    BY <1>9 DEF rv, Based
  <2>2. CASE r \in Wiped(tombs)
    BY <1>3, <1>6, <1>9, <2>1, <2>2
  <2>3. CASE r \notin Wiped(tombs)
    <3>1. db[r] = s.db[r]
      BY <1>9, <2>3 DEF db, Contents
    <3> QED
      BY <1>3, <2>1, <3>1
  <2> QED
    BY <2>2, <2>3
<1>10. TookOver(s, i, ups, tombs)
  BY <1>5, <1>7, <1>8, <1>9 DEF TookOver
<1> QED
  BY <1>10 DEF i

\* What a page puts in: its upserts that find their parents, and its tombstones.
PageUps(s, W) == Upserts(s, W) \ Orphans(s, W)

\* A page.
LEMMA PageTakes ==
    ASSUME NEW c \in Nat, NEW e, NEW s \in Stores(c, e), NEW W \in SUBSET Versions(c),
           Distinct(W), NEW next
    PROVE  /\ TookOver(s, ApplyPage(s, W, next), PageUps(s, W), PageTombs(s, W))
           /\ s.journal \subseteq ApplyPage(s, W, next).journal
           /\ ApplyPage(s, W, next).oplog = s.oplog
           /\ ApplyPage(s, W, next).cursor = next
           /\ ApplyPage(s, W, next).epoch = s.epoch
           /\ ApplyPage(s, W, next).parked = Park(s.parked, Orphans(s, W))
<1> DEFINE n == ApplyPage(s, W, next)
           ups == PageUps(s, W)
           tombs == PageTombs(s, W)
           i == Install(s, ups, tombs)
           parked == Park(i.parked, Orphans(s, W))
<1>1. /\ ups \in SUBSET Versions(c) /\ tombs \in SUBSET Versions(c)
      /\ Distinct(ups \cup tombs)
      /\ \A w \in ups : w.val # Gone
      /\ \A w \in tombs : w.val = Gone
  BY DEF PageUps, Upserts, PageTombs, Distinct
<1>2. n = [i EXCEPT !.parked = parked, !.cursor = next]
  BY DEF ApplyPage, PageUps
<1> HIDE DEF ups, tombs
<1>3. i \in Stores(c, e)
  BY <1>1, InstallTyped
<1>4. /\ TookOver(s, i, ups, tombs)
      /\ s.journal \subseteq i.journal
      /\ i.oplog = s.oplog /\ i.parked = s.parked /\ i.epoch = s.epoch
  BY <1>1, InstallTakes, InstallLeaves
<1> HIDE DEF i, parked, n
<1>5. /\ n.db = i.db /\ n.rv = i.rv /\ n.journal = i.journal /\ n.oplog = i.oplog
      /\ n.epoch = i.epoch /\ n.parked = parked /\ n.cursor = next
  BY <1>2, <1>3 DEF Stores
<1>6. TookOver(s, n, ups, tombs)
  BY <1>4, <1>5 DEF TookOver, Vanished
<1> QED
  BY <1>4, <1>5, <1>6 DEF parked, n, ups, tombs

\* A retry, of distinct parked rows.
LEMMA RetryTakes ==
    ASSUME NEW c \in Nat, NEW e, NEW s \in Stores(c, e), Distinct(s.parked), NEW final
    PROVE  /\ TookOver(s, RetryParked(s, final), Ready(s), {})
           /\ s.journal \subseteq RetryParked(s, final).journal
           /\ RetryParked(s, final).oplog = s.oplog
           /\ RetryParked(s, final).cursor = s.cursor
           /\ RetryParked(s, final).epoch = s.epoch
           /\ RetryParked(s, final).parked \subseteq Stuck(s)
           /\ \A w \in Stuck(s) \ RetryParked(s, final).parked :
                 [row |-> w.row, reason |-> "parent_deleted", val |-> w.val]
                    \in RetryParked(s, final).journal
<1> DEFINE n == RetryParked(s, final)
           ups == Ready(s)
           i == Install(s, ups, {})
           out == IF final THEN Abandoned(s) ELSE {}
           parked == Stuck(s) \ out
           journal == i.journal \cup
                        {[row |-> w.row, reason |-> "parent_deleted", val |-> w.val] : w \in out}
<1>1. /\ ups \in SUBSET Versions(c) /\ {} \in SUBSET Versions(c)
      /\ Distinct(ups \cup {})
      /\ \A w \in ups : w.val # Gone
      /\ \A w \in {} : w.val = Gone
  BY StoreParts DEF Ready, Upserts, Distinct
<1>2. n = [i EXCEPT !.parked = parked, !.journal = journal]
  BY DEF RetryParked
<1> HIDE DEF ups
<1>3. i \in Stores(c, e)
  BY <1>1, InstallTyped
<1>4. /\ TookOver(s, i, ups, {})
      /\ s.journal \subseteq i.journal
      /\ i.oplog = s.oplog /\ i.cursor = s.cursor /\ i.epoch = s.epoch
  BY <1>1, InstallTakes, InstallLeaves
<1>5. /\ parked \subseteq Stuck(s)
      /\ i.journal \subseteq journal
      /\ \A w \in Stuck(s) \ parked :
            [row |-> w.row, reason |-> "parent_deleted", val |-> w.val] \in journal
  <2> HIDE DEF i, out
  <2> QED
    OBVIOUS
<1> HIDE DEF i, out, parked, journal, n
<1>6. /\ n.db = i.db /\ n.rv = i.rv /\ n.journal = journal /\ n.oplog = i.oplog
      /\ n.epoch = i.epoch /\ n.parked = parked /\ n.cursor = i.cursor
  BY <1>2, <1>3 DEF Stores
<1>7. TookOver(s, n, ups, {})
  BY <1>4, <1>6 DEF TookOver, Vanished
<1> QED
  BY <1>4, <1>5, <1>6, <1>7 DEF n, ups

\* The versions of accepted changes.
KeptVersions(answers) == {a.current : a \in {b \in answers : ~b.lost}}

\* At most one answer for a row.
OneAnswerEach(answers) == \A a, b \in answers : a.current.row = b.current.row => a = b

\* Store n is store s with the answers applied: an accepted change is the row's
\* version, a winner is taken over, and the other rows are as they were.
Settles(s, n, ups, tombs, answers) ==
    /\ \A a \in answers : ~a.lost =>
          /\ n.rv[a.current.row] = a.current.seq
          /\ n.db[a.current.row] = s.db[a.current.row] \/ Vanished(n, a.current.row)
    /\ \A w \in ups :
          n.rv[w.row] = w.seq /\ (n.db[w.row] = w.val \/ Vanished(n, w.row))
    /\ \A w \in tombs : n.rv[w.row] = w.seq /\ n.db[w.row] = Gone
    /\ \A r \in Row :
          (\A a \in answers : ~a.lost => a.current.row # r)
             /\ (\A w \in ups \cup tombs : w.row # r)
          => n.rv[r] = s.rv[r] /\ (n.db[r] = s.db[r] \/ Vanished(n, r))

\* Every loss is journaled.
LossesJournaled(n, answers) ==
    \A a \in answers : a.lost =>
        [row |-> a.current.row, reason |-> "lww_lost", val |-> Gone] \in n.journal

\* Store n is store s without the edits up to the snapshot of certain rows.
Drained(s, n, rows, snap) ==
    /\ n.oplog \subseteq s.oplog
    /\ \A o \in s.oplog : o \in n.oplog <=> o.row \notin rows \/ o.ts > snap

AnsweredRows(answers) == {a.current.row : a \in answers}

\* The results of a push.
LEMMA ResultsTake ==
    ASSUME NEW c \in Nat, NEW e, NEW s \in Stores(c, e), NEW snap,
           NEW answers \in SUBSET Results(c), OneAnswerEach(answers),
           NEW n, n = ApplyResults(s, snap, answers)
    PROVE  /\ Settles(s, n, WinnerUps(s, snap, answers),
                      WinnerTombs(s, snap, answers), answers)
           /\ s.journal \subseteq n.journal
           /\ LossesJournaled(n, answers)
           /\ Drained(s, n, AnsweredRows(answers), snap)
           /\ n.cursor = s.cursor
           /\ n.epoch = s.epoch
           /\ n.parked = s.parked
<1> DEFINE ups == WinnerUps(s, snap, answers)
           tombs == WinnerTombs(s, snap, answers)
           kept == KeptVersions(answers)
           i == Install(s, ups, tombs)
           rows == AnsweredRows(answers)
           oplog == Purge(i.oplog, rows, snap)
           rv == Based(i.rv, kept)
           more == {[row |-> a.current.row, reason |-> "lww_lost", val |-> Gone] :
                      a \in {b \in answers : b.lost}}
           journal == i.journal \cup more
<1>1. /\ \A w \in ups \cup tombs : \E a \in answers : a.lost /\ w = a.current
      /\ \A w \in ups : w.val # Gone
      /\ \A w \in tombs : w.val = Gone
  BY DEF WinnerUps, WinnerTombs, Winners
<1>2. n = [i EXCEPT !.oplog = oplog, !.rv = rv, !.journal = journal]
  BY DEF ApplyResults, KeptVersions, AnsweredRows
<1> HIDE DEF ups, tombs
<1>3. /\ ups \in SUBSET Versions(c) /\ tombs \in SUBSET Versions(c)
      /\ Distinct(ups \cup tombs)
  BY <1>1 DEF Results, Distinct, OneAnswerEach
<1>4. i \in Stores(c, e)
  BY <1>3, InstallTyped
<1>5. /\ TookOver(s, i, ups, tombs)
      /\ s.journal \subseteq i.journal
      /\ i.oplog = s.oplog /\ i.cursor = s.cursor /\ i.epoch = s.epoch /\ i.parked = s.parked
  BY <1>1, <1>3, InstallTakes, InstallLeaves
<1>6. \A a \in answers : a.lost =>
         [row |-> a.current.row, reason |-> "lww_lost", val |-> Gone] \in journal
  <2> HIDE DEF i
  <2> QED
    OBVIOUS
<1>7. s.journal \subseteq journal
  BY <1>5
<1>8. oplog = Purge(s.oplog, rows, snap)
  BY <1>5
<1> HIDE DEF i, oplog, rv, more, journal, rows
<1>9. /\ n.db = i.db /\ n.rv = rv /\ n.journal = journal /\ n.oplog = oplog
      /\ n.epoch = i.epoch /\ n.parked = i.parked /\ n.cursor = i.cursor
  BY <1>2, <1>4 DEF Stores
<1>10. /\ \A w \in kept : \E a \in answers : ~a.lost /\ w = a.current
       /\ \A a \in answers : ~a.lost => a.current \in kept
       /\ Distinct(kept)
  BY DEF KeptVersions, Distinct, OneAnswerEach
<1> HIDE DEF kept
<1>11. \A a \in answers : a.current.row \in Row
  BY DEF Results, Versions
<1>12. ASSUME NEW a \in answers, ~a.lost
       PROVE  /\ n.rv[a.current.row] = a.current.seq
              /\ n.db[a.current.row] = s.db[a.current.row] \/ Vanished(n, a.current.row)
  <2>1. Named(kept, a.current.row) = a.current
    BY <1>10, <1>12, NamedVersion
  <2>2. rv[a.current.row] = a.current.seq
    BY <1>10, <1>11, <1>12, <2>1 DEF rv, Based
  <2>3. \A w \in ups \cup tombs : w.row # a.current.row
    BY <1>1, <1>12 DEF OneAnswerEach
  <2> QED
    BY <1>5, <1>9, <1>11, <2>2, <2>3 DEF TookOver, Vanished
<1>13. ASSUME NEW r \in Row, \A a \in answers : ~a.lost => a.current.row # r
       PROVE  n.rv[r] = i.rv[r]
  <2>1. rv[r] = i.rv[r]
    BY <1>10, <1>13 DEF rv, Based
  <2> QED
    BY <1>9, <2>1
<1>14. ASSUME NEW w \in ups \cup tombs
       PROVE  n.rv[w.row] = w.seq
  <2>1. \A a \in answers : ~a.lost => a.current.row # w.row
    BY <1>1 DEF OneAnswerEach
  <2> QED
    BY <1>1, <1>5, <1>11, <1>13, <2>1 DEF TookOver
<1>15. Settles(s, n, ups, tombs, answers)
  <2>1. \A w \in ups : n.db[w.row] = w.val \/ Vanished(n, w.row)
    BY <1>5, <1>9 DEF TookOver, Vanished
  <2>2. \A w \in tombs : n.db[w.row] = Gone
    BY <1>5, <1>9 DEF TookOver
  <2>3. \A r \in Row :
          (\A a \in answers : ~a.lost => a.current.row # r)
             /\ (\A w \in ups \cup tombs : w.row # r)
          => n.rv[r] = s.rv[r] /\ (n.db[r] = s.db[r] \/ Vanished(n, r))
    BY <1>5, <1>9, <1>13 DEF TookOver, Vanished
  <2> QED
    BY <1>12, <1>14, <2>1, <2>2, <2>3 DEF Settles
<1>16. Drained(s, n, rows, snap)
  BY <1>8, <1>9 DEF Drained, Purge
<1>17. LossesJournaled(n, answers)
  BY <1>6, <1>9 DEF LossesJournaled
<1> QED
  BY <1>5, <1>7, <1>9, <1>15, <1>16, <1>17 DEF ups, tombs, rows

\* Every refusal is journaled, with its content.
RefusalsJournaled(n, bad) ==
    \A b \in bad : [row |-> b.row, reason |-> "apply_error", val |-> b.val] \in n.journal

RefusedRows(bad) == {b.row : b \in bad}

\* Refused changes.
LEMMA RefuseParts ==
    ASSUME NEW c, NEW e, NEW s \in Stores(c, e), NEW snap, NEW bad
    PROVE  /\ Refuse(s, snap, bad).db = s.db
           /\ Refuse(s, snap, bad).rv = s.rv
           /\ Refuse(s, snap, bad).cursor = s.cursor
           /\ Refuse(s, snap, bad).parked = s.parked
           /\ Refuse(s, snap, bad).epoch = s.epoch
           /\ Drained(s, Refuse(s, snap, bad), RefusedRows(bad), snap)
           /\ s.journal \subseteq Refuse(s, snap, bad).journal
           /\ RefusalsJournaled(Refuse(s, snap, bad), bad)
<1> DEFINE n == Refuse(s, snap, bad)
           rows == RefusedRows(bad)
           oplog == Purge(s.oplog, rows, snap)
           more == {[row |-> b.row, reason |-> "apply_error", val |-> b.val] : b \in bad}
           journal == s.journal \cup more
<1>1. n = [s EXCEPT !.oplog = oplog, !.journal = journal]
  BY DEF Refuse, RefusedRows
<1>2. /\ s.journal \subseteq journal
      /\ \A b \in bad : [row |-> b.row, reason |-> "apply_error", val |-> b.val] \in journal
  OBVIOUS
<1> HIDE DEF oplog, more, journal, n, rows
<1>3. /\ n.db = s.db /\ n.rv = s.rv /\ n.cursor = s.cursor /\ n.parked = s.parked
      /\ n.epoch = s.epoch /\ n.oplog = oplog /\ n.journal = journal
  BY <1>1 DEF Stores
<1>4. Drained(s, n, rows, snap)
  BY <1>3 DEF oplog, Drained, Purge
<1>5. RefusalsJournaled(n, bad)
  BY <1>2, <1>3 DEF RefusalsJournaled
<1> QED
  BY <1>2, <1>3, <1>4, <1>5 DEF n, rows

\* A reset.
LEMMA ResetParts ==
    ASSUME NEW c, NEW e, NEW s \in Stores(c, e), NEW f
    PROVE  /\ Reset(s, f).db = s.db /\ Reset(s, f).oplog = s.oplog
           /\ Reset(s, f).parked = s.parked /\ Reset(s, f).journal = s.journal
           /\ \A r \in Row : Reset(s, f).rv[r] = 0
           /\ Reset(s, f).cursor = 0 /\ Reset(s, f).epoch = f
  BY DEF Reset, Stores

\* A user's write.
LEMMA WriteParts ==
    ASSUME NEW c, NEW e, NEW s \in Stores(c, e), NEW r \in Row, NEW t
    PROVE  /\ Write(s, r, t).db[r] = t
           /\ \A q \in Row : q # r => Write(s, r, t).db[q] = s.db[q]
           /\ Write(s, r, t).oplog = s.oplog \cup {[row |-> r, op |-> "U", ts |-> t]}
           /\ Write(s, r, t).rv = s.rv /\ Write(s, r, t).cursor = s.cursor
           /\ Write(s, r, t).parked = s.parked /\ Write(s, r, t).journal = s.journal
           /\ Write(s, r, t).epoch = s.epoch
  BY DEF Write, Stores

\* The rows a delete takes.
Taken(s, r) == {r} \cup {q \in CascadeBelow(r) : Present(s, q)}

\* A user's delete.
LEMMA EraseParts ==
    ASSUME NEW c, NEW e, NEW s \in Stores(c, e), NEW r \in Row, NEW t
    PROVE  /\ \A q \in Row : Erase(s, r, t).db[q] = IF q \in Taken(s, r) THEN Gone ELSE s.db[q]
           /\ Erase(s, r, t).oplog
                = s.oplog \cup {[row |-> q, op |-> "D", ts |-> t] : q \in Taken(s, r)}
           /\ Erase(s, r, t).rv = s.rv /\ Erase(s, r, t).cursor = s.cursor
           /\ Erase(s, r, t).parked = s.parked /\ Erase(s, r, t).journal = s.journal
           /\ Erase(s, r, t).epoch = s.epoch
<1> DEFINE n == Erase(s, r, t)
           db == [q \in Row |-> IF q \in Taken(s, r) THEN Gone ELSE s.db[q]]
           oplog == s.oplog \cup {[row |-> q, op |-> "D", ts |-> t] : q \in Taken(s, r)}
<1>1. n = [s EXCEPT !.db = db, !.oplog = oplog]
  BY DEF Erase, Taken
<1> HIDE DEF db, oplog, n
<1>2. /\ n.db = db /\ n.oplog = oplog /\ n.rv = s.rv /\ n.cursor = s.cursor
      /\ n.parked = s.parked /\ n.journal = s.journal /\ n.epoch = s.epoch
  BY <1>1 DEF Stores
<1> QED
  BY <1>2 DEF db, oplog, n


-----------------------------------------------------------------------------
(* The server's log.                                                        *)

\* The newest version of a row: the last position that holds it, if any does.
LEMMA NewestLast ==
    ASSUME NEW c \in Nat, NEW l \in Logs(c), NEW r
    PROVE  /\ Newest(l, r) \in Nat
           /\ \A i \in DOMAIN l : l[i].row = r => i <= Newest(l, r)
           /\ Newest(l, r) # 0 => Newest(l, r) \in DOMAIN l /\ l[Newest(l, r)].row = r
<1> DEFINE at == {i \in DOMAIN l : l[i].row = r}
<1>1. DOMAIN l = 1..Len(l) /\ Len(l) \in Nat
  BY LenProperties DEF Logs
<1>2. CASE at = {}
  BY <1>2 DEF Newest
<1>3. CASE at # {}
  <2>1. at \in SUBSET Nat /\ \A i \in at : i <= Len(l)
    BY <1>1
  <2>2. \E i \in at : \A j \in at : j <= i
    <3> HIDE DEF at
    <3> QED
      BY <1>1, <1>3, <2>1, Greatest
  <2>3. Newest(l, r) = CHOOSE i \in at : \A j \in at : j <= i
    BY <1>3 DEF Newest
  <2>4. Newest(l, r) \in at /\ \A j \in at : j <= Newest(l, r)
    <3> HIDE DEF at
    <3> QED
      BY <2>2, <2>3
  <2> QED
    BY <2>1, <2>4
<1> QED
  BY <1>2, <1>3

\* A change the server takes: neither a replay nor a loser.
Takes(l, a) == ~Replays(l, a) /\ ~Loses(l, a)

\* Log n is log l with the changes won appended, each at a position of its own.
Extends(n, l, won) ==
    /\ Len(l) <= Len(n)
    /\ \A i \in 1..Len(l) : n[i] = l[i]
    /\ \A i \in 1..Len(n) : i > Len(l) =>
          \E a \in won : n[i].row = a.row /\ n[i].ts = a.ts /\ n[i].val = a.val
    /\ \A a \in won : \E i \in 1..Len(n) :
          i > Len(l) /\ n[i].row = a.row /\ n[i].ts = a.ts /\ n[i].val = a.val

\* What a request makes of the log.
LEMMA AcceptExtends ==
    ASSUME NEW c \in Nat, NEW l \in Logs(c), NEW changes, Request(changes, c)
    PROVE  /\ AcceptAll(l, changes) \in Logs(c)
           /\ Extends(AcceptAll(l, changes), l, {a \in changes : Takes(l, a)})
<1> DEFINE won == {a \in changes : ~Replays(l, a) /\ ~Loses(l, a)}
           nth(a) == Cardinality({w \in won : WireRank[w.row] <= WireRank[a.row]})
           at(a) == Len(l) + nth(a)
           n == Cardinality(won)
           new(i) == CHOOSE w \in won : at(w) = i
           after == [i \in 1..(Len(l) + n) |->
                       IF i <= Len(l) THEN l[i]
                       ELSE [row |-> new(i).row, ts |-> new(i).ts, val |-> new(i).val]]
<1>1. AcceptAll(l, changes) = after
  BY DEF AcceptAll
<1>2. AcceptAll(l, changes) \in Logs(c)
  BY AcceptTyped
<1>3. Request(won, c)
  BY DEF Request
<1>4. /\ n \in Nat
      /\ \A a \in won : nth(a) \in 1..n
      /\ \A a, b \in won : nth(a) = nth(b) => a = b
      /\ \A i \in 1..n : \E a \in won : nth(a) = i
  <2> HIDE DEF won
  <2> QED
    BY <1>3, Numbered
<1>5. Len(l) \in Nat
  BY LenProperties DEF Logs
<1>6. won = {a \in changes : Takes(l, a)}
  BY DEF Takes
<1> HIDE DEF won, nth, n
<1>7. Len(after) = Len(l) + n /\ DOMAIN after = 1..(Len(l) + n)
  <2>1. after \in Logs(c)
    BY <1>1, <1>2
  <2>2. DOMAIN after = 1..Len(after) /\ Len(after) \in Nat
    BY <2>1, LenProperties DEF Logs
  <2> DEFINE k == Len(l) + n
             m == Len(after)
  <2>4. k \in Nat
    BY <1>4, <1>5
  <2>5. DOMAIN after = 1..k
    OBVIOUS
  <2>6. m \in Nat /\ DOMAIN after = 1..m
    BY <2>2
  <2>7. 1..k = 1..m
    <3> HIDE DEF after, k, m
    <3> QED
      BY <2>5, <2>6
  <2> HIDE DEF k, m, after
  <2>8. \A i \in Nat \ {0} : i <= k <=> i <= m
    BY <2>4, <2>6, <2>7
  <2>9. k = m
    BY <2>4, <2>6, <2>8
  <2> QED
    BY <2>5, <2>9 DEF k, m
<1>8. \A i \in 1..Len(l) : after[i] = l[i]
  BY <1>4, <1>5
<1>9. ASSUME NEW i \in 1..(Len(l) + n), i > Len(l)
      PROVE  \E a \in won : /\ at(a) = i
                            /\ after[i] = [row |-> a.row, ts |-> a.ts, val |-> a.val]
  <2>1. i - Len(l) \in 1..n
    BY <1>4, <1>5, <1>9
  <2>2. PICK a \in won : nth(a) = i - Len(l)
    BY <1>4, <2>1
  <2>3. at(a) = i
    BY <1>5, <2>2
  <2>4. new(i) \in won /\ at(new(i)) = i
    BY <2>3
  <2>5. ~ (i <= Len(l))
    BY <1>5, <1>9
  <2>6. after[i] = [row |-> new(i).row, ts |-> new(i).ts, val |-> new(i).val]
    <3> HIDE DEF new
    <3> QED
      BY <2>5
  <2> HIDE DEF new, after, at
  <2> QED
    BY <2>4, <2>6
<1>10. ASSUME NEW a \in won
       PROVE  /\ at(a) \in 1..(Len(l) + n) /\ at(a) > Len(l)
              /\ after[at(a)] = [row |-> a.row, ts |-> a.ts, val |-> a.val]
  <2>1. at(a) \in 1..(Len(l) + n) /\ at(a) > Len(l)
    BY <1>4, <1>5
  <2>2. PICK b \in won : /\ at(b) = at(a)
                         /\ after[at(a)] = [row |-> b.row, ts |-> b.ts, val |-> b.val]
    <3> HIDE DEF after
    <3> QED
      BY <1>9, <2>1
  <2>3. nth(b) = nth(a)
    BY <1>4, <1>5, <2>2
  <2> HIDE DEF after, at
  <2> QED
    BY <1>4, <2>1, <2>2, <2>3
<1>11. ASSUME NEW i \in 1..(Len(l) + n), i > Len(l)
       PROVE  \E a \in won :
                 after[i].row = a.row /\ after[i].ts = a.ts /\ after[i].val = a.val
  <2>1. PICK a \in won : after[i] = [row |-> a.row, ts |-> a.ts, val |-> a.val]
    <3> HIDE DEF after
    <3> QED
      BY <1>9, <1>11
  <2> HIDE DEF after
  <2> QED
    BY <2>1
<1>12. ASSUME NEW a \in won
       PROVE  \E i \in 1..(Len(l) + n) : /\ i > Len(l)
                 /\ after[i].row = a.row /\ after[i].ts = a.ts /\ after[i].val = a.val
  <2>1. after[at(a)] = [row |-> a.row, ts |-> a.ts, val |-> a.val]
    BY <1>10
  <2> HIDE DEF after
  <2> QED
    BY <1>10, <2>1
<1> HIDE DEF after
<1>13. Extends(after, l, won)
  BY <1>4, <1>5, <1>7, <1>8, <1>11, <1>12 DEF Extends
<1> QED
  BY <1>1, <1>2, <1>6, <1>13

\* A longer log keeps the newest version of a row, or has one of its own.
LEMMA NewestGrows ==
    ASSUME NEW c \in Nat, NEW l \in Logs(c), NEW n \in Logs(c), NEW won, Extends(n, l, won), NEW r
    PROVE  Newest(n, r) = Newest(l, r) \/ Newest(n, r) > Len(l)
<1>1. /\ DOMAIN l = 1..Len(l) /\ Len(l) \in Nat
      /\ DOMAIN n = 1..Len(n) /\ Len(n) \in Nat
  BY LenProperties DEF Logs
<1>2. /\ Newest(l, r) \in Nat /\ Newest(n, r) \in Nat
      /\ \A i \in 1..Len(l) : l[i].row = r => i <= Newest(l, r)
      /\ \A i \in 1..Len(n) : n[i].row = r => i <= Newest(n, r)
      /\ Newest(l, r) # 0 => Newest(l, r) \in 1..Len(l) /\ l[Newest(l, r)].row = r
      /\ Newest(n, r) # 0 => Newest(n, r) \in 1..Len(n) /\ n[Newest(n, r)].row = r
  BY <1>1, NewestLast
<1>3. Newest(l, r) <= Newest(n, r)
  <2>1. CASE Newest(l, r) = 0
    BY <1>2, <2>1
  <2>2. CASE Newest(l, r) # 0
    <3>1. Newest(l, r) \in 1..Len(n) /\ n[Newest(l, r)].row = r
      BY <1>1, <1>2, <2>2 DEF Extends
    <3> QED
      BY <1>2, <3>1
  <2> QED
    BY <2>1, <2>2
<1>4. CASE Newest(n, r) = 0
  BY <1>2, <1>3, <1>4
<1>5. CASE Newest(n, r) # 0 /\ Newest(n, r) <= Len(l)
  <2>1. Newest(n, r) \in 1..Len(l) /\ l[Newest(n, r)].row = r
    BY <1>1, <1>2, <1>5 DEF Extends
  <2> QED
    BY <1>2, <1>3, <2>1
<1> QED
  BY <1>1, <1>2, <1>4, <1>5

\* A page: distinct versions, the newest of every row seen from the cursor to
\* its end, which the log has reached.
LEMMA PageHolds ==
    ASSUME NEW c \in Nat, NEW l \in Logs(c), NEW since \in Nat, since <= Len(l), NEW limit
    PROVE  /\ Distinct(Page(l, since, limit))
           /\ PageEnd(l, since, limit) \in Nat /\ PageEnd(l, since, limit) <= Len(l)
           /\ \A w \in Page(l, since, limit) :
                 w.row \in Row /\ w = PullRow(l, w.row) /\ w.seq = Newest(l, w.row)
           /\ \A r \in Row : since < Newest(l, r) /\ Newest(l, r) <= PageEnd(l, since, limit) =>
                 PullRow(l, r) \in Page(l, since, limit)
<1> DEFINE W == Page(l, since, limit)
           end == PageEnd(l, since, limit)
           full == {i \in Unseen(l, since) :
                      Cardinality({j \in Unseen(l, since) : j <= i}) = limit}
<1>1. DOMAIN l = 1..Len(l) /\ Len(l) \in Nat
  BY LenProperties DEF Logs
<1>2. Unseen(l, since) \subseteq 1..Len(l)
  BY <1>1 DEF Unseen
<1>3. end \in Nat /\ end <= Len(l)
  <2>1. end = IF full = {} THEN Len(l) ELSE CHOOSE i \in full : TRUE
    BY DEF PageEnd
  <2>2. full \subseteq 1..Len(l)
    BY <1>2
  <2> HIDE DEF full, end
  <2>3. end = Len(l) \/ end \in 1..Len(l)
    BY <2>1, <2>2
  <2> QED
    BY <1>1, <2>3
<1>4. ASSUME NEW w \in W
      PROVE  w.row \in Row /\ w = PullRow(l, w.row) /\ w.seq = Newest(l, w.row)
  <2>1. PICK i \in Unseen(l, since) : w = PullRow(l, l[i].row)
    BY DEF Page
  <2>2. l[i] \in [row : Row, ts : 1..c, val : 0..c]
    BY <1>1, <1>2, ElementOfSeq DEF Logs
  <2> QED
    BY <2>1, <2>2 DEF PullRow
<1>5. Distinct(W)
  BY <1>4 DEF Distinct
<1>6. ASSUME NEW r \in Row, since < Newest(l, r), Newest(l, r) <= end
      PROVE  PullRow(l, r) \in W
  <2>1. /\ Newest(l, r) \in Nat
        /\ Newest(l, r) # 0 => Newest(l, r) \in 1..Len(l) /\ l[Newest(l, r)].row = r
    BY <1>1, NewestLast
  <2>2. Newest(l, r) \in Unseen(l, since)
    BY <1>1, <1>6, <2>1 DEF Unseen
  <2> HIDE DEF end
  <2>3. PullRow(l, l[Newest(l, r)].row) \in W
    BY <1>6, <2>2 DEF Page, end
  <2> QED
    BY <1>6, <2>1, <2>3
<1> QED
  BY <1>3, <1>4, <1>5, <1>6

-----------------------------------------------------------------------------
(* What a device accounts for.                                              *)

\* Store s accounts for version h of row r: it is based on it or on a later
\* one, it has an edit or the version itself waiting, or it journaled the loss.
Knows(s, r, h) ==
    \/ s.rv[r] >= h
    \/ Dirty(s, r)
    \/ \E w \in s.parked : w.row = r /\ w.seq = h
    \/ \E j \in s.journal : j.row = r /\ j.reason \in {"apply_error", "parent_deleted"}

\* NoUpsertSkipped of one store, under log l.
Accounts(s, l) ==
    \A r \in Row :
        (0 < Newest(l, r) /\ Newest(l, r) <= s.cursor /\ l[Newest(l, r)].val # Gone) =>
            Knows(s, r, Newest(l, r))

\* The parked rows are live, one version a row.
ParksLive(s) == Distinct(s.parked) /\ \A w \in s.parked : w.val # Gone

\* Version w is in log l.
Served(w, l) == w.seq \in DOMAIN l /\ l[w.seq].row = w.row /\ l[w.seq].val = w.val

\* Every answer's version is in log l, and no later one was passed by the cursor.
Holds(answers, s, l) ==
    \A a \in answers :
        /\ Served(a.current, l)
        /\ \A i \in DOMAIN l : l[i].row = a.current.row /\ i <= s.cursor => i <= a.current.seq

\* Taking fresh versions over never makes a store older.
LEMMA NeverOlder ==
    ASSUME NEW c, NEW e, NEW s \in Stores(c, e), NEW n,
           NEW ups, NEW tombs, TookOver(s, n, ups, tombs),
           \A w \in ups \cup tombs : w.seq \in Nat /\ Fresh(s, w),
           NEW r \in Row
    PROVE  s.rv[r] \in Nat /\ n.rv[r] \in Nat /\ n.rv[r] >= s.rv[r]
<1>1. s.rv[r] \in Nat
  BY StoreParts
<1>2. CASE \E w \in ups \cup tombs : w.row = r
  <2>1. PICK w \in ups \cup tombs : w.row = r
    BY <1>2
  <2>2. n.rv[r] = w.seq /\ s.rv[r] < w.seq /\ w.seq \in Nat
    BY <2>1 DEF TookOver, Fresh
  <2> QED
    BY <1>1, <2>2
<1>3. CASE ~\E w \in ups \cup tombs : w.row = r
  BY <1>1, <1>3 DEF TookOver
<1> QED
  BY <1>2, <1>3

\* Pages: what the cursor passes is taken over, parked, or was known.
LEMMA PageAccounts ==
    ASSUME NEW c \in Nat, NEW e, NEW s \in Stores(c, e), NEW l \in Logs(c), NEW limit,
           s.cursor <= Len(l), ParksLive(s), Accounts(s, l),
           NEW n, n = ApplyPage(s, Page(l, s.cursor, limit), PageEnd(l, s.cursor, limit))
    PROVE  ParksLive(n) /\ n.cursor <= Len(l) /\ Accounts(n, l)
<1> DEFINE W == Page(l, s.cursor, limit)
           end == PageEnd(l, s.cursor, limit)
           ups == PageUps(s, W)
           tombs == PageTombs(s, W)
           out == Orphans(s, W)
<1>1. s.cursor \in Nat /\ Len(l) \in Nat
  BY StoreParts, LenProperties DEF Logs
<1>2. /\ Distinct(W) /\ end \in Nat /\ end <= Len(l)
      /\ \A w \in W : w.row \in Row /\ w = PullRow(l, w.row) /\ w.seq = Newest(l, w.row)
      /\ \A r \in Row : s.cursor < Newest(l, r) /\ Newest(l, r) <= end => PullRow(l, r) \in W
      /\ W \in SUBSET Versions(c)
  BY <1>1, PageHolds, PageTyped
<1> HIDE DEF W, end
<1>3. /\ TookOver(s, n, ups, tombs)
      /\ s.journal \subseteq n.journal
      /\ n.oplog = s.oplog /\ n.cursor = end /\ n.parked = Park(s.parked, out)
  BY <1>2, PageTakes DEF W, end
<1>4. /\ \A w \in ups \cup tombs \cup out : w \in W /\ Fresh(s, w)
      /\ \A w \in out : w.val # Gone
  BY DEF PageUps, PageTombs, Orphans, Upserts
<1>5. \A w \in Upserts(s, W) : w \in ups \/ w \in out
  BY DEF PageUps
<1> HIDE DEF ups, tombs, out
<1>6. ParksLive(n)
  BY <1>2, <1>3, <1>4 DEF ParksLive, Distinct, Park
<1>7. ASSUME NEW r \in Row
      PROVE  s.rv[r] \in Nat /\ n.rv[r] \in Nat /\ n.rv[r] >= s.rv[r]
  <2>1. \A w \in ups \cup tombs : w.seq \in Nat /\ Fresh(s, w)
    BY <1>2, <1>4 DEF Versions
  <2> QED
    BY <1>3, <2>1, NeverOlder
<1>8. ASSUME NEW r \in Row, 0 < Newest(l, r), Newest(l, r) <= end, l[Newest(l, r)].val # Gone
      PROVE  Knows(n, r, Newest(l, r))
  <2> DEFINE h == Newest(l, r)
  <2>1. h \in Nat
    BY NewestLast
  <2> HIDE DEF h
  <2>2. CASE s.rv[r] >= h \/ Dirty(s, r)
             \/ \E j \in s.journal : j.row = r /\ j.reason \in {"apply_error", "parent_deleted"}
    <3>1. s.rv[r] >= h => n.rv[r] >= h
      BY <1>7, <2>1
    <3>2. Dirty(s, r) => Dirty(n, r)
      BY <1>3 DEF Dirty
    <3> QED
      BY <1>3, <2>2, <3>1, <3>2 DEF Knows, h
  <2>3. CASE h <= s.cursor /\ \E w \in s.parked : w.row = r /\ w.seq = h
    <3>1. PICK w \in s.parked : w.row = r /\ w.seq = h
      BY <2>3
    <3>2. CASE \E v \in out : v.row = r
      <4>1. PICK v \in out : v.row = r
        BY <3>2
      <4>2. v \in n.parked /\ v.seq = h
        BY <1>2, <1>3, <1>4, <4>1 DEF Park, h
      <4> QED
        BY <4>1, <4>2 DEF Knows, h
    <3>3. CASE ~\E v \in out : v.row = r
      <4>1. w \in n.parked
        BY <1>3, <3>1, <3>3 DEF Park
      <4> QED
        BY <3>1, <4>1 DEF Knows, h
    <3> QED
      BY <3>2, <3>3
  <2>4. CASE s.cursor < h /\ ~(s.rv[r] >= h) /\ ~Dirty(s, r)
    <3> DEFINE w == PullRow(l, r)
    <3>1. w \in W /\ w.row = r /\ w.seq = h /\ w.val # Gone
      BY <1>2, <1>8, <2>4 DEF PullRow, h
    <3> HIDE DEF w
    <3>2. w \in Upserts(s, W)
      BY <1>7, <2>1, <2>4, <3>1 DEF Upserts, Fresh
    <3>3. CASE w \in ups
      <4>1. n.rv[r] = h
        BY <1>3, <3>1, <3>3 DEF TookOver
      <4> QED
        BY <2>1, <4>1 DEF Knows, h
    <3>4. CASE w \in out
      <4>1. w \in n.parked
        BY <1>3, <3>4 DEF Park
      <4> QED
        BY <3>1, <4>1 DEF Knows, h
    <3> QED
      BY <1>5, <3>2, <3>3, <3>4
  <2>5. h <= s.cursor => Knows(s, r, h)
    BY <1>8 DEF Accounts, h
  <2>6. h <= s.cursor \/ s.cursor < h
    BY <1>1, <2>1
  <2> QED
    BY <2>2, <2>3, <2>4, <2>5, <2>6 DEF Knows
<1> QED
  BY <1>2, <1>3, <1>6, <1>8 DEF Accounts

\* Retries keep parked rows live: they only take some out.
LEMMA RetryLive ==
    ASSUME NEW c \in Nat, NEW e, NEW s \in Stores(c, e), NEW final, ParksLive(s)
    PROVE  ParksLive(RetryParked(s, final))
<1>1. RetryParked(s, final).parked \subseteq Stuck(s)
  BY RetryTakes DEF ParksLive
<1>2. Stuck(s) \subseteq s.parked
  BY DEF Stuck, Upserts
<1> QED
  BY <1>1, <1>2 DEF ParksLive, Distinct

\* And a parked row that goes is taken over or journaled.
LEMMA RetryAccounts ==
    ASSUME NEW c \in Nat, NEW e, NEW s \in Stores(c, e), NEW l \in Logs(c), NEW final,
           ParksLive(s), Accounts(s, l)
    PROVE  Accounts(RetryParked(s, final), l)
<1> DEFINE n == RetryParked(s, final)
           ups == Ready(s)
<1>1. /\ TookOver(s, n, ups, {})
      /\ s.journal \subseteq n.journal
      /\ n.oplog = s.oplog /\ n.cursor = s.cursor
      /\ \A w \in Stuck(s) \ n.parked :
            [row |-> w.row, reason |-> "parent_deleted", val |-> w.val] \in n.journal
  BY RetryTakes DEF ParksLive
<1>2. /\ \A w \in ups \cup {} : w \in s.parked /\ Fresh(s, w)
      /\ \A w \in Upserts(s, s.parked) : w \in ups \/ w \in Stuck(s)
  BY DEF Ready, Stuck, Upserts
<1> HIDE DEF n, ups
<1>3. ASSUME NEW r \in Row
      PROVE  s.rv[r] \in Nat /\ n.rv[r] \in Nat /\ n.rv[r] >= s.rv[r]
  <2>1. \A w \in ups \cup {} : w.seq \in Nat /\ Fresh(s, w)
    BY <1>2, StoreParts DEF Versions
  <2> QED
    BY <1>1, <2>1, NeverOlder
<1>4. ASSUME NEW r \in Row, NEW h \in Nat, Knows(s, r, h)
      PROVE  Knows(n, r, h)
  <2>1. CASE s.rv[r] >= h \/ Dirty(s, r)
             \/ \E j \in s.journal : j.row = r /\ j.reason \in {"apply_error", "parent_deleted"}
    <3>1. s.rv[r] >= h => n.rv[r] >= h
      BY <1>3
    <3>2. Dirty(s, r) => Dirty(n, r)
      BY <1>1 DEF Dirty
    <3> QED
      BY <1>1, <2>1, <3>1, <3>2 DEF Knows
  <2>2. CASE ~(s.rv[r] >= h) /\ ~Dirty(s, r) /\ \E w \in s.parked : w.row = r /\ w.seq = h
    <3>1. PICK w \in s.parked : w.row = r /\ w.seq = h
      BY <2>2
    <3>2. w \in Upserts(s, s.parked)
      BY <1>3, <2>2, <3>1 DEF Upserts, Fresh, ParksLive
    <3>3. CASE w \in ups
      <4>1. n.rv[r] = h
        BY <1>1, <3>1, <3>3 DEF TookOver
      <4> QED
        BY <4>1 DEF Knows
    <3>4. CASE w \in n.parked
      BY <3>1, <3>4 DEF Knows
    <3>5. CASE w \in Stuck(s) \ n.parked
      <4> DEFINE j == [row |-> w.row, reason |-> "parent_deleted", val |-> w.val]
      <4>1. j \in n.journal
        BY <1>1, <3>5
      <4>2. j.row = r /\ j.reason = "parent_deleted"
        BY <3>1
      <4> QED
        BY <4>1, <4>2 DEF Knows
    <3> QED
      BY <1>2, <3>2, <3>3, <3>4, <3>5
  <2> QED
    BY <1>4, <2>1, <2>2 DEF Knows
<1>5. \A r \in Row : Newest(l, r) \in Nat
  BY NewestLast
<1>6. Accounts(n, l)
  BY <1>1, <1>4, <1>5 DEF Accounts
<1> QED
  BY <1>6 DEF n

\* The results of a push settle what they answer, and let go of no other row.
LEMMA ResultsAccount ==
    ASSUME NEW c \in Nat, NEW e, NEW s \in Stores(c, e), NEW l \in Logs(c), NEW snap,
           NEW answers \in SUBSET Results(c), OneAnswerEach(answers),
           Holds(answers, s, l), Accounts(s, l),
           NEW n, n = ApplyResults(s, snap, answers)
    PROVE  Accounts(n, l)
<1> DEFINE ups == WinnerUps(s, snap, answers)
           tombs == WinnerTombs(s, snap, answers)
<1>1. /\ Settles(s, n, ups, tombs, answers)
      /\ s.journal \subseteq n.journal
      /\ Drained(s, n, AnsweredRows(answers), snap)
      /\ n.cursor = s.cursor /\ n.parked = s.parked
  BY ResultsTake
<1>2. /\ \A w \in ups \cup tombs :
            Fresh(s, w) /\ \E a \in answers : a.lost /\ w = a.current
      /\ \A a \in answers :
            a.lost /\ ~DirtyAfter(s, a.current.row, snap) /\ Fresh(s, a.current)
               /\ a.current.val # Gone => a.current \in ups
  BY DEF WinnerUps, WinnerTombs, Winners
<1> HIDE DEF ups, tombs
<1>3. \A a \in answers : a.current.row \in Row /\ a.current.seq \in Nat
  BY DEF Results, Versions
<1>4. ASSUME NEW r \in Row
      PROVE  s.rv[r] \in Nat
  BY StoreParts
<1>5. ASSUME NEW r \in Row, NEW h \in DOMAIN l, h \in Nat, l[h].row = r, h <= s.cursor,
             s.rv[r] >= h
      PROVE  n.rv[r] >= h
  <2>1. \A a \in answers : a.current.row = r => a.current.seq >= h
    BY <1>3, <1>5 DEF Holds
  <2>2. n.rv[r] = s.rv[r] \/ \E a \in answers : a.current.row = r /\ n.rv[r] = a.current.seq
    BY <1>1, <1>2 DEF Settles
  <2> QED
    BY <1>5, <2>1, <2>2
<1>6. ASSUME NEW r \in Row, 0 < Newest(l, r), Newest(l, r) <= s.cursor,
             l[Newest(l, r)].val # Gone
      PROVE  Knows(n, r, Newest(l, r))
  <2> DEFINE h == Newest(l, r)
  <2> SUFFICES Knows(n, r, h)
    OBVIOUS
  <2>1. /\ h \in Nat /\ h \in DOMAIN l /\ l[h].row = r
        /\ \A i \in DOMAIN l : l[i].row = r => i <= h
    BY <1>6, NewestLast
  <2>2. h <= s.cursor /\ l[h].val # Gone /\ Knows(s, r, h)
    BY <1>6 DEF Accounts
  <2> HIDE DEF h
  <2>3. CASE s.rv[r] >= h
    BY <1>5, <2>1, <2>2, <2>3 DEF Knows
  <2>4. CASE Dirty(n, r)
    BY <2>4 DEF Knows
  <2>5. CASE Dirty(s, r) /\ ~Dirty(n, r) /\ ~(s.rv[r] >= h)
    <3>1. PICK o \in s.oplog : o.row = r
      BY <2>5 DEF Dirty
    <3>2. PICK a \in answers : a.current.row = r
      BY <1>1, <2>5, <3>1 DEF Dirty, Drained, AnsweredRows
    <3>3. /\ a.current.seq >= h /\ a.current.seq \in DOMAIN l
          /\ l[a.current.seq].row = r /\ l[a.current.seq].val = a.current.val
      BY <1>3, <2>1, <2>2, <3>2 DEF Holds, Served
    <3>4. a.current.seq = h /\ a.current.val # Gone
      BY <1>3, <2>1, <2>2, <3>3
    <3>5. CASE ~a.lost
      <4>1. n.rv[r] = h
        BY <1>1, <3>2, <3>4, <3>5 DEF Settles
      <4> QED
        BY <2>1, <4>1 DEF Knows
    <3>6. CASE a.lost
      <4>1. ~DirtyAfter(s, r, snap)
        BY <1>1, <2>5 DEF Dirty, DirtyAfter, Drained
      <4>2. Fresh(s, a.current)
        BY <1>4, <2>1, <2>5, <3>2, <3>4 DEF Fresh
      <4>3. a.current \in ups
        BY <1>2, <3>2, <3>4, <3>6, <4>1, <4>2
      <4>4. n.rv[r] = h
        BY <1>1, <3>2, <3>4, <4>3 DEF Settles
      <4> QED
        BY <2>1, <4>4 DEF Knows
    <3> QED
      BY <3>5, <3>6
  <2>6. CASE (\E w \in s.parked : w.row = r /\ w.seq = h)
             \/ \E j \in s.journal : j.row = r /\ j.reason \in {"apply_error", "parent_deleted"}
    BY <1>1, <2>6 DEF Knows
  <2> QED
    BY <2>2, <2>3, <2>4, <2>5, <2>6 DEF Knows
<1> QED
  BY <1>1, <1>6 DEF Accounts

\* A store that lets go of a row's edits only with an apply_error, and keeps the
\* rest of its bookkeeping, accounts for what it did; so it does under a longer
\* log, whose new versions its cursor has not passed.
LEMMA LongerAccounts ==
    ASSUME NEW c \in Nat, NEW e, NEW s \in Stores(c, e), NEW l \in Logs(c), NEW n \in Logs(c),
           NEW won, Extends(n, l, won), s.cursor <= Len(l), Accounts(s, l),
           NEW t, t.rv = s.rv, t.cursor = s.cursor, t.parked = s.parked,
           s.journal \subseteq t.journal,
           \A r \in Row : Dirty(s, r) => Dirty(t, r) \/ \E j \in t.journal :
                                              j.row = r /\ j.reason = "apply_error"
    PROVE  t.cursor <= Len(n) /\ Accounts(t, n)
<1>1. s.cursor \in Nat /\ Len(l) \in Nat /\ Len(n) \in Nat /\ DOMAIN l = 1..Len(l)
  BY StoreParts, LenProperties DEF Logs
<1>2. t.cursor <= Len(n)
  BY <1>1 DEF Extends
<1>3. ASSUME NEW r \in Row, 0 < Newest(n, r), Newest(n, r) <= t.cursor,
             n[Newest(n, r)].val # Gone
      PROVE  Knows(t, r, Newest(n, r))
  <2>1. /\ Newest(n, r) \in Nat
        /\ Newest(l, r) # 0 => Newest(l, r) \in DOMAIN l
    BY NewestLast
  <2>2. Newest(n, r) = Newest(l, r)
    BY <1>1, <1>3, <2>1, NewestGrows
  <2>3. n[Newest(n, r)] = l[Newest(l, r)]
    BY <1>1, <1>3, <2>1, <2>2 DEF Extends
  <2>4. Knows(s, r, Newest(n, r))
    BY <1>3, <2>2, <2>3 DEF Accounts
  <2> QED
    BY <2>4 DEF Knows
<1> QED
  BY <1>2, <1>3 DEF Accounts

\* Answers that held go on to hold.
LEMMA LongerHolds ==
    ASSUME NEW c \in Nat, NEW e, NEW s \in Stores(c, e), NEW l \in Logs(c), NEW n \in Logs(c),
           NEW won, Extends(n, l, won), s.cursor <= Len(l),
           NEW answers \in SUBSET Results(c), Holds(answers, s, l)
    PROVE  Holds(answers, s, n)
<1>1. /\ s.cursor \in Nat
      /\ Len(l) \in Nat /\ DOMAIN l = 1..Len(l)
      /\ Len(n) \in Nat /\ DOMAIN n = 1..Len(n)
      /\ Len(l) <= Len(n)
      /\ \A i \in 1..Len(l) : n[i] = l[i] /\ i \in 1..Len(n)
  BY StoreParts, LenProperties DEF Logs, Extends
<1> SUFFICES ASSUME NEW a \in answers
             PROVE  /\ Served(a.current, n)
                    /\ \A i \in DOMAIN n :
                          n[i].row = a.current.row /\ i <= s.cursor => i <= a.current.seq
  BY DEF Holds
<1>2. /\ Served(a.current, l)
      /\ \A i \in DOMAIN l : l[i].row = a.current.row /\ i <= s.cursor => i <= a.current.seq
  BY DEF Holds
<1>3. Served(a.current, n)
  BY <1>1, <1>2 DEF Served
<1>4. ASSUME NEW i \in 1..Len(n), n[i].row = a.current.row, i <= s.cursor
      PROVE  i <= a.current.seq
  <2>1. i \in 1..Len(l)
    BY <1>1, <1>4
  <2> QED
    BY <1>1, <1>2, <1>4, <2>1
<1> QED
  BY <1>1, <1>3, <1>4

\* The answers of a request are the newest versions, one a row, of the log it
\* leaves.
LEMMA AnswersHold ==
    ASSUME NEW c \in Nat, NEW l \in Logs(c), NEW changes, Request(changes, c), NEW s
    PROVE  /\ OneAnswerEach(Answers(l, changes))
           /\ Holds(Answers(l, changes), s, AcceptAll(l, changes))
<1> DEFINE n == AcceptAll(l, changes)
           answers == Answers(l, changes)
<1>1. /\ n \in Logs(c)
      /\ \A a \in changes : \E i \in DOMAIN n : n[i].row = a.row
  BY AcceptTyped
<1>2. answers = {[lost |-> Loses(l, a), current |-> PullRow(n, a.row)] : a \in changes}
  BY DEF Answers
<1> HIDE DEF n, answers
<1>3. \A x \in answers : \E a \in changes :
         x = [lost |-> Loses(l, a), current |-> PullRow(n, a.row)] /\ x.current.row = a.row
  BY <1>2 DEF PullRow
<1>4. OneAnswerEach(answers)
  BY <1>3 DEF OneAnswerEach, Request
<1>5. ASSUME NEW x \in answers
      PROVE  /\ Served(x.current, n)
             /\ \A i \in DOMAIN n : n[i].row = x.current.row => i <= x.current.seq
  <2>1. PICK a \in changes : x.current = PullRow(n, a.row)
    BY <1>3
  <2>2. /\ \E i \in DOMAIN n : n[i].row = a.row
        /\ x.current.row = a.row /\ x.current.seq = Newest(n, a.row)
        /\ x.current.val = n[Newest(n, a.row)].val
    BY <1>1, <2>1 DEF PullRow
  <2>3. Newest(n, a.row) \in DOMAIN n /\ n[Newest(n, a.row)].row = a.row
    BY <1>1, <2>2, NewestTyped
  <2>4. \A i \in DOMAIN n : n[i].row = a.row => i <= Newest(n, a.row)
    BY <1>1, NewestLast
  <2> QED
    BY <2>2, <2>3, <2>4 DEF Served
<1>6. Holds(answers, s, n)
  BY <1>5 DEF Holds
<1> QED
  BY <1>4, <1>6 DEF n, answers

-----------------------------------------------------------------------------
(* No live row is skipped.                                                  *)

\* What holds of a device whatever epoch it is in.
OnDevice(s, y) ==
    ParksLive(s) /\ (y.stage = "results" => OneAnswerEach(y.answers))

\* What holds of it under log l of its own epoch.
WithServer(s, y, l) ==
    /\ s.cursor <= Len(l)
    /\ Accounts(s, l)
    /\ y.stage = "results" => Holds(y.answers, s, l)

Placed(d) ==
    /\ OnDevice(store[d], cycle[d])
    /\ store[d].epoch = epoch => WithServer(store[d], cycle[d], log)

AccountInv == TypeOK /\ \A d \in Device : Placed(d)

\* A log extends itself.
LEMMA ExtendsItself ==
    ASSUME NEW c, NEW l \in Logs(c)
    PROVE  Extends(l, l, {})
<1>1. Len(l) \in Nat
  BY LenProperties DEF Logs
<1> QED
  BY <1>1 DEF Extends

\* One device moves, and the log may grow: the others stay placed.
LEMMA OneMoves ==
    ASSUME AccountInv, TypeOK', NEW d \in Device, NEW s, NEW y,
           store' = [store EXCEPT ![d] = s], cycle' = [cycle EXCEPT ![d] = y],
           epoch' = epoch, clock' = clock, NEW won, Extends(log', log, won),
           OnDevice(s, y), s.epoch = epoch => WithServer(s, y, log')
    PROVE  \A q \in Device : Placed(q)'
<1>1. /\ TypeOK /\ clock \in Nat /\ log \in Logs(clock) /\ log' \in Logs(clock)
      /\ \A q \in Device : store[q] \in Stores(clock, epoch) /\ cycle[q] \in Cycles(clock)
  <2>1. TypeOK /\ clock \in Nat /\ log \in Logs(clock)
    BY TypeOKByParts DEF AccountInv
  <2>2. \A q \in Device : store[q] \in Stores(clock, epoch) /\ cycle[q] \in Cycles(clock)
    BY <2>1, TypeOKByParts
  <2>3. log' \in Logs(clock)
    BY <2>1 DEF TypeOK, Logs
  <2> QED
    BY <2>1, <2>2, <2>3
<1>2. store'[d] = s /\ cycle'[d] = y
  BY <1>1 DEF TypeOK
<1>3. Placed(d)'
  BY <1>2 DEF Placed
<1>4. ASSUME NEW q \in Device, q # d
      PROVE  Placed(q)'
  <2> DEFINE t == store[q]
             answers == cycle[q].answers
  <2>1. store'[q] = t /\ cycle'[q] = cycle[q]
    BY <1>1, <1>4, OthersStay
  <2>2. OnDevice(t, cycle[q]) /\ (t.epoch = epoch => WithServer(t, cycle[q], log))
    BY DEF AccountInv, Placed
  <2>3. t \in Stores(clock, epoch) /\ answers \in SUBSET Results(clock)
    BY <1>1 DEF Cycles
  <2> HIDE DEF t
  <2>4. ASSUME t.epoch = epoch
        PROVE  t.cursor <= Len(log') /\ Accounts(t, log')
    BY <1>1, <2>2, <2>3, <2>4, LongerAccounts DEF WithServer
  <2>5. ASSUME t.epoch = epoch, cycle[q].stage = "results"
        PROVE  Holds(answers, t, log')
    <3>1. t.cursor <= Len(log) /\ Holds(answers, t, log)
      BY <2>2, <2>5 DEF WithServer
    <3> HIDE DEF answers
    <3> QED
      BY <1>1, <2>3, <3>1, LongerHolds
  <2>6. t.epoch = epoch => WithServer(t, cycle[q], log')
    BY <2>4, <2>5 DEF WithServer
  <2> QED
    BY <2>1, <2>2, <2>6 DEF Placed
<1> QED
  BY <1>3, <1>4

\* The same under the same log, for a step that opens no answers.
LEMMA QuietMoves ==
    ASSUME AccountInv, TypeOK', NEW d \in Device, NEW s, NEW y,
           store' = [store EXCEPT ![d] = s], cycle' = [cycle EXCEPT ![d] = y],
           UNCHANGED <<log, epoch, clock>>, y.stage # "results",
           ParksLive(s), s.epoch = epoch => s.cursor <= Len(log) /\ Accounts(s, log)
    PROVE  \A q \in Device : Placed(q)'
<1>1. Extends(log', log, {})
  <2>1. log \in Logs(clock)
    BY TypeOKByParts DEF AccountInv
  <2> QED
    BY <2>1, ExtendsItself
<1>2. OnDevice(s, y) /\ (s.epoch = epoch => WithServer(s, y, log'))
  BY DEF OnDevice, WithServer
<1>3. epoch' = epoch /\ clock' = clock
  OBVIOUS
<1> QED
  BY <1>1, <1>2, <1>3, OneMoves

\* Nothing was passed by a cursor at 0.
LEMMA ResetAccounts ==
    ASSUME NEW c \in Nat, NEW e, NEW s \in Stores(c, e), NEW l \in Logs(c), NEW f, ParksLive(s)
    PROVE  /\ ParksLive(Reset(s, f))
           /\ Reset(s, f).cursor <= Len(l) /\ Accounts(Reset(s, f), l)
<1> DEFINE n == Reset(s, f)
<1>1. n.cursor = 0 /\ n.parked = s.parked
  BY ResetParts
<1> HIDE DEF n
<1>2. Len(l) \in Nat /\ \A r : Newest(l, r) \in Nat
  BY NewestLast, LenProperties DEF Logs
<1>3. n.cursor <= Len(l) /\ Accounts(n, l)
  BY <1>1, <1>2 DEF Accounts
<1>4. ParksLive(n)
  BY <1>1 DEF ParksLive
<1> QED
  BY <1>3, <1>4 DEF n

\* Edits of the user.
LEMMA PlacedByEdit ==
    ASSUME AccountInv, TypeOK', NEW d \in Device, NEW r \in Row,
           \/ store' = [store EXCEPT ![d] = Write(store[d], r, clock + 1)]
           \/ store' = [store EXCEPT ![d] = Erase(store[d], r, clock + 1)],
           UNCHANGED <<log, epoch, cycle>>
    PROVE  \A q \in Device : Placed(q)'
<1>1. TypeOK /\ clock \in Nat /\ log \in Logs(clock) /\ store[d] \in Stores(clock, epoch)
  BY TypeOKByParts DEF AccountInv
<1>2. \/ store'[d] = Write(store[d], r, clock + 1)
      \/ store'[d] = Erase(store[d], r, clock + 1)
  BY <1>1 DEF TypeOK
<1> DEFINE s == store[d]
           n == store'[d]
           y == cycle[d]
<1>3. /\ n.rv = s.rv /\ n.cursor = s.cursor /\ n.parked = s.parked
      /\ n.journal = s.journal /\ n.epoch = s.epoch
  BY <1>1, <1>2, WriteParts, EraseParts
<1>4. s.oplog \subseteq n.oplog
  BY <1>1, <1>2, EditOplog
<1>5. OnDevice(s, y) /\ (s.epoch = epoch => WithServer(s, y, log))
  BY DEF AccountInv, Placed
<1> HIDE DEF s, n
<1>6. OnDevice(n, y)
  BY <1>3, <1>5 DEF OnDevice, ParksLive
<1>7. ASSUME WithServer(s, y, log)
      PROVE  WithServer(n, y, log)
  <2>1. ASSUME NEW q \in Row, NEW h, Knows(s, q, h)
        PROVE  Knows(n, q, h)
    BY <1>3, <1>4, <2>1 DEF Knows, Dirty
  <2>2. Accounts(n, log)
    BY <1>3, <1>7, <2>1 DEF WithServer, Accounts
  <2> QED
    BY <1>3, <1>7, <2>2 DEF WithServer, Holds
<1>8. Placed(d)'
  BY <1>3, <1>5, <1>6, <1>7 DEF Placed, n
<1>9. ASSUME NEW q \in Device, q # d
      PROVE  Placed(q)'
  <2>1. PICK x : store' = [store EXCEPT ![d] = x]
    OBVIOUS
  <2>2. store'[q] = store[q] /\ cycle'[q] = cycle[q]
    BY <1>1, <1>9, <2>1, OthersStay
  <2> QED
    BY <2>2 DEF AccountInv, Placed
<1> QED
  BY <1>8, <1>9

\* What a push leaves of its device, whatever part of it was judged.
LEMMA RefusedPlaced ==
    ASSUME AccountInv, TypeOK', clock' = clock, NEW d \in Device, NEW snap,
           NEW bad \in SUBSET Changes(store[d], snap), NEW won, Extends(log', log, won)
    PROVE  LET n == Refuse(store[d], snap, bad) IN
             /\ n.epoch = store[d].epoch
             /\ ParksLive(n)
             /\ n.epoch = epoch => n.cursor <= Len(log') /\ Accounts(n, log')
<1> DEFINE s == store[d]
           n == Refuse(s, snap, bad)
<1>1. /\ clock \in Nat /\ log \in Logs(clock) /\ s \in Stores(clock, epoch)
      /\ log' \in Logs(clock)
  BY TypeOKByParts DEF AccountInv, TypeOK, Logs
<1>2. /\ n.rv = s.rv /\ n.cursor = s.cursor /\ n.parked = s.parked /\ n.epoch = s.epoch
      /\ Drained(s, n, RefusedRows(bad), snap)
      /\ s.journal \subseteq n.journal
      /\ RefusalsJournaled(n, bad)
  BY <1>1, RefuseParts
<1>3. ParksLive(s) /\ (s.epoch = epoch => s.cursor <= Len(log) /\ Accounts(s, log))
  BY DEF AccountInv, Placed, OnDevice, WithServer
<1> HIDE DEF s, n
<1>4. ASSUME NEW r \in Row, Dirty(s, r), ~Dirty(n, r)
      PROVE  \E j \in n.journal : j.row = r /\ j.reason = "apply_error"
  <2>1. PICK o \in s.oplog : o.row = r /\ o \notin n.oplog
    BY <1>4 DEF Dirty
  <2>2. PICK b \in bad : b.row = r
    BY <1>2, <2>1 DEF Drained, RefusedRows
  <2> DEFINE j == [row |-> b.row, reason |-> "apply_error", val |-> b.val]
  <2>3. j \in n.journal /\ j.row = r /\ j.reason = "apply_error"
    BY <1>2, <2>2 DEF RefusalsJournaled
  <2> HIDE DEF j
  <2> QED
    BY <2>3
<1>5. ASSUME s.epoch = epoch
      PROVE  n.cursor <= Len(log') /\ Accounts(n, log')
  BY <1>1, <1>2, <1>3, <1>4, <1>5, LongerAccounts
<1>6. ParksLive(n)
  BY <1>2, <1>3 DEF ParksLive
<1> QED
  BY <1>2, <1>5, <1>6 DEF n, s

\* A push that is answered.
LEMMA PlacedByPush ==
    ASSUME AccountInv, TypeOK', NEW d \in Device, PushAnswered(d)
    PROVE  \A q \in Device : Placed(q)'
<1> DEFINE snap == cycle[d].snap
           changes == Changes(store[d], snap)
<1>1. PICK bad \in SUBSET MayRefuse(changes) :
         /\ Judge(changes \ bad)
         /\ store' = [store EXCEPT ![d] = Refuse(store[d], snap, bad)]
         /\ IF changes = bad
            THEN StartPull(d, store[d])
            ELSE cycle' = [cycle EXCEPT ![d].stage = "results",
                                        ![d].answers = Answers(log, changes \ bad)]
  BY DEF PushAnswered
<1> DEFINE s == store[d]
           n == Refuse(s, snap, bad)
           sent == changes \ bad
           won == {a \in sent : Takes(log, a)}
<1>2. /\ TypeOK /\ clock \in Nat /\ log \in Logs(clock)
      /\ s \in Stores(clock, epoch) /\ cycle[d] \in Cycles(clock)
      /\ epoch' = epoch /\ clock' = clock
  BY TypeOKByParts DEF AccountInv, PushAnswered
<1>3. Request(sent, clock) /\ bad \in SUBSET changes
  BY <1>2, ChangesTyped DEF MayRefuse
<1>4. log' = AcceptAll(log, sent)
  BY <1>1 DEF Judge
<1> HIDE DEF changes, sent
<1>5. Extends(log', log, won)
  BY <1>2, <1>3, <1>4, AcceptExtends
<1>6. /\ n.epoch = s.epoch /\ ParksLive(n)
      /\ n.epoch = epoch => n.cursor <= Len(log') /\ Accounts(n, log')
  BY <1>2, <1>3, <1>5, RefusedPlaced DEF changes
<1>7. CASE changes = bad
  <2>1. PICK y : cycle' = [cycle EXCEPT ![d] = y] /\ y.stage # "results"
    BY <1>1, <1>7, PullOpensNone
  <2> HIDE DEF n, won
  <2>2. OnDevice(n, y) /\ (n.epoch = epoch => WithServer(n, y, log'))
    BY <1>6, <2>1 DEF OnDevice, WithServer
  <2> QED
    BY <1>1, <1>2, <1>5, <2>1, <2>2, OneMoves DEF n
<1>8. CASE changes # bad
  <2> DEFINE answers == Answers(log, sent)
             y == [cycle[d] EXCEPT !.stage = "results", !.answers = answers]
  <2>1. cycle' = [cycle EXCEPT ![d] = y]
    BY <1>1, <1>8 DEF sent
  <2>2. y.answers = answers
    <3> HIDE DEF answers
    <3> QED
      BY <1>2 DEF Cycles
  <2>3. OneAnswerEach(answers) /\ Holds(answers, n, log')
    BY <1>2, <1>3, <1>4, AnswersHold
  <2> HIDE DEF n, won, y, answers
  <2>4. OnDevice(n, y) /\ (n.epoch = epoch => WithServer(n, y, log'))
    BY <1>6, <2>2, <2>3 DEF OnDevice, WithServer
  <2> QED
    BY <1>1, <1>2, <1>5, <2>1, <2>4, OneMoves DEF n
<1> QED
  BY <1>7, <1>8

\* A push that breaks.
LEMMA PlacedByBrokenPush ==
    ASSUME AccountInv, TypeOK', NEW d \in Device, PushBroken(d)
    PROVE  \A q \in Device : Placed(q)'
<1> DEFINE snap == cycle[d].snap
           changes == Changes(store[d], snap)
<1>1. PICK bad \in SUBSET MayRefuse(changes) :
         /\ \E seen \in SUBSET (changes \ bad) :
               SentBefore(changes, seen) /\ Judge(seen)
         /\ store' = [store EXCEPT ![d] = Refuse(store[d], snap, bad)]
  BY DEF PushBroken
<1>2. PICK seen \in SUBSET (changes \ bad) : Judge(seen)
  BY <1>1
<1> DEFINE s == store[d]
           n == Refuse(s, snap, bad)
           won == {a \in seen : Takes(log, a)}
<1>3. /\ TypeOK /\ clock \in Nat /\ log \in Logs(clock)
      /\ s \in Stores(clock, epoch)
      /\ epoch' = epoch /\ clock' = clock
  BY TypeOKByParts DEF AccountInv, PushBroken
<1>4. Request(seen, clock) /\ bad \in SUBSET changes
  BY <1>3, ChangesTyped DEF MayRefuse
<1>5. log' = AcceptAll(log, seen)
  BY <1>2 DEF Judge
<1>6. PICK y : cycle' = [cycle EXCEPT ![d] = y] /\ y.stage # "results"
  BY GotoOpensNone DEF PushBroken
<1> HIDE DEF changes
<1>7. Extends(log', log, won)
  BY <1>3, <1>4, <1>5, AcceptExtends
<1>8. /\ n.epoch = s.epoch /\ ParksLive(n)
      /\ n.epoch = epoch => n.cursor <= Len(log') /\ Accounts(n, log')
  BY <1>3, <1>4, <1>7, RefusedPlaced DEF changes
<1> HIDE DEF n, won
<1>9. OnDevice(n, y) /\ (n.epoch = epoch => WithServer(n, y, log'))
  BY <1>6, <1>8 DEF OnDevice, WithServer
<1> QED
  BY <1>1, <1>3, <1>6, <1>7, <1>9, OneMoves DEF n

\* The results of a push.
LEMMA PlacedByAnswers ==
    ASSUME AccountInv, TypeOK', NEW d \in Device, ApplyAnswers(d)
    PROVE  \A q \in Device : Placed(q)'
<1> DEFINE s == store[d]
           answers == cycle[d].answers
           snap == cycle[d].snap
           n == ApplyResults(s, snap, answers)
<1>1. /\ clock \in Nat /\ log \in Logs(clock)
      /\ s \in Stores(clock, epoch) /\ cycle[d] \in Cycles(clock)
      /\ answers \in SUBSET Results(clock)
  BY TypeOKByParts DEF AccountInv, Cycles
<1>2. /\ store' = [store EXCEPT ![d] = n] /\ UNCHANGED <<log, epoch, clock>>
      /\ cycle[d].stage = "results"
  BY DEF ApplyAnswers
<1>3. PICK y : cycle' = [cycle EXCEPT ![d] = y] /\ y.stage # "results"
  BY PullOpensNone DEF ApplyAnswers
<1>4. /\ ParksLive(s) /\ OneAnswerEach(answers)
      /\ s.epoch = epoch => s.cursor <= Len(log) /\ Accounts(s, log) /\ Holds(answers, s, log)
  BY <1>2 DEF AccountInv, Placed, OnDevice, WithServer
<1> HIDE DEF s, answers, snap
<1>5. n.parked = s.parked /\ n.cursor = s.cursor /\ n.epoch = s.epoch
  BY <1>1, <1>4, ResultsTake
<1>6. s.epoch = epoch => Accounts(n, log)
  BY <1>1, <1>4, ResultsAccount
<1> HIDE DEF n
<1>7. ParksLive(n)
  BY <1>4, <1>5 DEF ParksLive
<1>8. n.epoch = epoch => n.cursor <= Len(log) /\ Accounts(n, log)
  BY <1>4, <1>5, <1>6
<1> QED
  BY <1>2, <1>3, <1>7, <1>8, QuietMoves DEF s

\* Every step keeps the devices placed.
LEMMA AccountStep == AccountInv /\ [Next]_vars => AccountInv'
<1> SUFFICES ASSUME AccountInv, [Next]_vars
             PROVE  \A q \in Device : Placed(q)'
  BY TypeStep DEF AccountInv
<1>1. /\ TypeOK /\ TypeOK'
      /\ clock \in Nat /\ log \in Logs(clock) /\ epoch \in Nat \ {0} /\ epoch \in 1..epoch
      /\ \A d \in Device : store[d] \in Stores(clock, epoch) /\ cycle[d] \in Cycles(clock)
  <2>1. TypeOK /\ TypeOK'
    BY TypeStep DEF AccountInv
  <2>2. clock \in Nat /\ log \in Logs(clock) /\ epoch \in Nat \ {0} /\ epoch \in 1..epoch
    BY <2>1, TypeOKByParts
  <2>3. \A d \in Device : store[d] \in Stores(clock, epoch) /\ cycle[d] \in Cycles(clock)
    BY <2>1, TypeOKByParts
  <2> QED
    BY <2>1, <2>2, <2>3
<1>2. ASSUME NEW d \in Device
      PROVE  /\ cycle = [cycle EXCEPT ![d] = cycle[d]]
             /\ store = [store EXCEPT ![d] = store[d]]
             /\ ParksLive(store[d])
             /\ store[d].epoch = epoch => store[d].cursor <= Len(log) /\ Accounts(store[d], log)
  <2>1. cycle = [cycle EXCEPT ![d] = cycle[d]] /\ store = [store EXCEPT ![d] = store[d]]
    BY <1>1 DEF TypeOK
  <2> QED
    BY <2>1 DEF AccountInv, Placed, OnDevice, WithServer
<1>3. ASSUME NEW d \in Device, NEW r \in Row, UserWrite(d, r) \/ UserDelete(d, r)
      PROVE  \A q \in Device : Placed(q)'
  BY <1>1, <1>3, PlacedByEdit DEF UserWrite, UserDelete
<1>4. ASSUME NEW d \in Device, NEW f,
             store' = [store EXCEPT ![d] = Reset(store[d], f)],
             UNCHANGED <<log, epoch, clock, cycle>>, cycle[d].stage # "results"
      PROVE  \A q \in Device : Placed(q)'
  <2> DEFINE n == Reset(store[d], f)
  <2>1. ParksLive(n) /\ n.cursor <= Len(log) /\ Accounts(n, log)
    BY <1>1, <1>2, ResetAccounts
  <2>2. cycle' = [cycle EXCEPT ![d] = cycle[d]]
    BY <1>2, <1>4
  <2> HIDE DEF n
  <2> QED
    BY <1>1, <1>4, <2>1, <2>2, QuietMoves DEF n
<1>5. ASSUME NEW d \in Device, FullResync(d) \/ PullReset(d)
      PROVE  \A q \in Device : Placed(q)'
  BY <1>4, <1>5 DEF FullResync, PullReset
<1>6. ASSUME NEW d \in Device, NEW s, NEW final, s \in Stores(clock, epoch), ParksLive(s),
             s.epoch = epoch => s.cursor <= Len(log) /\ Accounts(s, log),
             store' = [store EXCEPT ![d] = RetryParked(s, final)],
             NEW y, cycle' = [cycle EXCEPT ![d] = y], y.stage # "results",
             UNCHANGED <<log, epoch, clock>>
      PROVE  \A q \in Device : Placed(q)'
  <2> DEFINE n == RetryParked(s, final)
  <2>1. ParksLive(n)
    BY <1>1, <1>6, RetryLive
  <2>2. n.epoch = s.epoch /\ n.cursor = s.cursor
    BY <1>1, <1>6, RetryTakes DEF ParksLive
  <2>3. Accounts(s, log) => Accounts(n, log)
    BY <1>1, <1>6, RetryAccounts
  <2> HIDE DEF n
  <2> QED
    BY <1>1, <1>6, <2>1, <2>2, <2>3, QuietMoves DEF n
<1>7. ASSUME NEW d \in Device, Begin(d)
      PROVE  \A q \in Device : Placed(q)'
  <2> DEFINE s == CheckEpoch(store[d])
  <2>1. s \in Stores(clock, epoch) /\ ParksLive(s)
    BY <1>1, <1>2, ResetTyped, ResetAccounts DEF CheckEpoch
  <2>2. s.epoch = epoch => s.cursor <= Len(log) /\ Accounts(s, log)
    BY <1>1, <1>2, ResetAccounts DEF CheckEpoch
  <2>3. store' = [store EXCEPT ![d] = RetryParked(s, FALSE)]
    BY <1>7 DEF Begin
  <2>4. PICK y : cycle' = [cycle EXCEPT ![d] = y] /\ y.stage # "results"
    BY <1>7, GotoOpensNone DEF Begin
  <2>5. UNCHANGED <<log, epoch, clock>>
    BY <1>7 DEF Begin
  <2> HIDE DEF s
  <2> QED
    BY <1>6, <2>1, <2>2, <2>3, <2>4, <2>5
<1>8. ASSUME NEW d \in Device, Retry(d)
      PROVE  \A q \in Device : Placed(q)'
  <2> DEFINE st == IF cycle[d].more THEN "pull" ELSE "final"
             y == [cycle[d] EXCEPT !.stage = st]
  <2>1. cycle' = [cycle EXCEPT ![d] = y]
    BY <1>8 DEF Retry
  <2>2. y.stage # "results"
    BY <1>1 DEF Cycles
  <2>3. /\ store' = [store EXCEPT ![d] = RetryParked(store[d], FALSE)]
        /\ UNCHANGED <<log, epoch, clock>>
    BY <1>8 DEF Retry
  <2> HIDE DEF y
  <2> QED
    BY <1>1, <1>2, <1>6, <2>1, <2>2, <2>3
<1>9. ASSUME NEW d \in Device, FinalRetry(d)
      PROVE  \A q \in Device : Placed(q)'
  <2>1. PICK y : cycle' = [cycle EXCEPT ![d] = y] /\ y.stage # "results"
    BY <1>9, GotoOpensNone DEF FinalRetry
  <2>2. /\ store' = [store EXCEPT ![d] = RetryParked(store[d], TRUE)]
        /\ UNCHANGED <<log, epoch, clock>>
    BY <1>9 DEF FinalRetry
  <2> QED
    BY <1>1, <1>2, <1>6, <2>1, <2>2
<1>10. ASSUME NEW d \in Device, PullPage(d)
       PROVE  \A q \in Device : Placed(q)'
  <2> DEFINE s == store[d]
             n == ApplyPage(s, Page(log, s.cursor, PageLimit), PageEnd(log, s.cursor, PageLimit))
  <2>1. /\ store' = [store EXCEPT ![d] = n] /\ UNCHANGED <<log, epoch, clock>>
        /\ s.epoch = epoch /\ s.cursor <= Len(log)
    BY <1>10 DEF PullPage
  <2>2. ParksLive(n) /\ n.cursor <= Len(log) /\ Accounts(n, log)
    BY <1>1, <1>2, <2>1, PageAccounts
  <2>3. PICK y : cycle' = [cycle EXCEPT ![d] = y] /\ y.stage # "results"
    <3>1. StartPull(d, n) \/ \E st : st # "results" /\ Goto(d, st)
      BY <1>10 DEF PullPage
    <3> HIDE DEF n
    <3> QED
      BY <3>1, PullOpensNone, GotoOpensNone
  <2> HIDE DEF n
  <2> QED
    BY <1>1, <2>1, <2>2, <2>3, QuietMoves
<1>11. ASSUME NEW d \in Device, TakeSnapshot(d) \/ FailAnswers(d) \/ Stop(d)
       PROVE  \A q \in Device : Placed(q)'
  <2>1. PICK y : cycle' = [cycle EXCEPT ![d] = y] /\ y.stage # "results"
    <3>1. CASE TakeSnapshot(d) /\ Snapshot(store[d]) = 0
      BY <3>1, PullOpensNone DEF TakeSnapshot
    <3>2. CASE TakeSnapshot(d) /\ Snapshot(store[d]) # 0
      <4>1. [At("push") EXCEPT !.snap = Snapshot(store[d])].stage # "results"
        BY DEF At
      <4> QED
        BY <3>2, <4>1 DEF TakeSnapshot
    <3>3. CASE FailAnswers(d) \/ Stop(d)
      BY <3>3, GotoOpensNone DEF FailAnswers, Stop
    <3> QED
      BY <1>11, <3>1, <3>2, <3>3
  <2>2. UNCHANGED <<log, epoch, clock, store>>
    BY <1>11 DEF TakeSnapshot, FailAnswers, Stop
  <2> QED
    BY <1>1, <1>2, <2>1, <2>2, QuietMoves
<1>12. CASE Restore
  <2>1. /\ epoch' = epoch + 1 /\ UNCHANGED <<store, cycle>>
    BY <1>12 DEF Restore
  <2>2. ASSUME NEW q \in Device
        PROVE  store[q].epoch # epoch'
    BY <1>1, <2>1, StoreParts
  <2> QED
    BY <2>1, <2>2 DEF AccountInv, Placed
<1>13. CASE UNCHANGED vars
  BY <1>13 DEF AccountInv, Placed, vars
<1> QED
  BY <1>1, <1>3, <1>5, <1>7, <1>8, <1>9, <1>10, <1>11, <1>12, <1>13,
     PlacedByPush, PlacedByBrokenPush, PlacedByAnswers, BoundsAssumption
  DEF Next, Cycle, Fault

\* Every device starts with nothing passed and nothing parked.
LEMMA AccountInit == Init => AccountInv
<1> SUFFICES ASSUME Init
             PROVE  \A d \in Device : Placed(d)
  BY TypeInit DEF AccountInv
<1>1. log = <<>> /\ TypeOK
  BY TypeInit DEF Init
<1>2. log \in Logs(clock)
  BY <1>1, TypeOKByParts
<1>3. Len(log) \in Nat /\ \A r : Newest(log, r) \in Nat
  BY <1>1, <1>2, TypeOKByParts, NewestLast, LenProperties DEF Logs
<1>4. ASSUME NEW d \in Device
      PROVE  /\ store[d].cursor = 0 /\ store[d].parked = {}
             /\ cycle[d].stage # "results"
  BY DEF Init, EmptyStore, At
<1> QED
  BY <1>3, <1>4 DEF Placed, OnDevice, WithServer, ParksLive, Distinct, Accounts

\* The cursor never passes a live row that the device does not account for:
\* whatever pages, retries, results, refusals, stops, resets and restores come
\* in which order, the row is based on that version or a later one, has an edit
\* or the version itself waiting, or its loss is in the journal (pull.rs moves
\* the cursor past a whole page, apply.rs parks what does not fit).
THEOREM NothingSkipped == Spec => []NoUpsertSkipped
<1>1. AccountInv => NoUpsertSkipped
  BY DEF AccountInv, Placed, WithServer, Accounts, Knows, NoUpsertSkipped
<1> QED
  BY AccountInit, AccountStep, <1>1, PTL DEF Spec

-----------------------------------------------------------------------------
(* A row without pending edits is the version it is based on.               *)

\* A row's content, and what excuses one that is not the version's.
Fits(s, l, r) ==
    \/ s.db[r] = l[s.rv[r]].val
    \/ [row |-> r, reason |-> "apply_error", val |-> s.db[r]] \in s.journal
    \/ Parent[r] # NoRow /\ s.db[r] = Gone
    \/ /\ Descendants(r) # {}
       /\ [row |-> r, reason |-> "lww_lost", val |-> Gone] \in s.journal
       /\ \E h \in DOMAIN l : h > s.rv[r] /\ l[h].row = r /\ l[h].val = Gone

\* The store is based on no version of the row.
Unbased(s, r) == s.rv[r] = 0

\* CleanRowsMatchTheirVersion of one store, under log l: versions are in the
\* log, under their rows, and clean rows fit them.
Versioned(s, l) ==
    \A r \in Row : ~Unbased(s, r) => s.rv[r] \in DOMAIN l /\ l[s.rv[r]].row = r
Clean(s, l) == \A r \in Row : ~Unbased(s, r) /\ ~Dirty(s, r) => Fits(s, l, r)

\* Parked rows are versions of the log.
ParksServed(s, l) == \A w \in s.parked : Served(w, l)

\* The last pending edit of a row.
Latest(s, o) == \A p \in s.oplog : p.row = o.row => p.ts <= o.ts

\* It holds the row's content: a delete left the row gone, and a version that
\* carries its stamp, which it replays when it is pushed again, has its content.
LastsHeld(s, l) ==
    \A o \in s.oplog : Latest(s, o) =>
        /\ o.op = "D" => s.db[o.row] = Gone
        /\ \A i \in DOMAIN l : l[i].row = o.row /\ l[i].ts = o.ts => l[i].val = s.db[o.row]

\* Answers that wait: an accepted change is the row's content unless a later
\* edit waits; none is older than what the row is based on, a winner is newer.
AnswersFit(s, answers, snap) ==
    \A a \in answers :
        /\ s.rv[a.current.row] <= a.current.seq
        /\ ~a.lost /\ ~DirtyAfter(s, a.current.row, snap) =>
              s.db[a.current.row] = a.current.val
        /\ a.lost => s.rv[a.current.row] < a.current.seq

\* Taking over versions of the log.
LEMMA TakingFits ==
    ASSUME NEW l, NEW s, NEW n, NEW ups, NEW tombs, TookOver(s, n, ups, tombs),
           \A w \in ups \cup tombs : Served(w, l), \A w \in tombs : w.val = Gone,
           s.journal \subseteq n.journal, n.oplog = s.oplog, Versioned(s, l), Clean(s, l)
    PROVE  Versioned(n, l) /\ Clean(n, l)
<1>1. ASSUME NEW r \in Row, NEW w \in ups \cup tombs, w.row = r
      PROVE  /\ n.rv[r] \in DOMAIN l /\ l[n.rv[r]].row = r
             /\ Fits(n, l, r)
  <2>1. n.rv[r] = w.seq /\ w.seq \in DOMAIN l /\ l[w.seq].row = r /\ l[w.seq].val = w.val
    BY <1>1 DEF TookOver, Served
  <2>2. n.db[r] = w.val \/ Vanished(n, r)
    BY <1>1 DEF TookOver
  <2> QED
    BY <2>1, <2>2 DEF Fits, Vanished
<1>2. ASSUME NEW r \in Row, \A w \in ups \cup tombs : w.row # r, Fits(s, l, r)
      PROVE  Fits(n, l, r)
  <2>1. n.rv[r] = s.rv[r] /\ (n.db[r] = s.db[r] \/ Vanished(n, r))
    BY <1>2 DEF TookOver
  <2> QED
    BY <1>2, <2>1 DEF Fits, Vanished
<1>3. \A r \in Row : (\A w \in ups \cup tombs : w.row # r) => n.rv[r] = s.rv[r]
  BY DEF TookOver
<1>4. Versioned(n, l)
  BY <1>1, <1>3 DEF Versioned, Unbased
<1>5. Clean(n, l)
  BY <1>1, <1>2, <1>3 DEF Clean, Unbased, Dirty
<1> QED
  BY <1>4, <1>5

\* A purge that leaves the contents of dirty rows alone keeps the last edits.
LEMMA LastsStay ==
    ASSUME NEW c \in Nat, NEW e, NEW s \in Stores(c, e), NEW n, NEW rows, NEW snap \in Nat,
           Drained(s, n, rows, snap), Untouched(s, n), NEW l, LastsHeld(s, l)
    PROVE  LastsHeld(n, l)
<1> SUFFICES ASSUME NEW o \in n.oplog, Latest(n, o)
             PROVE  o \in s.oplog /\ Latest(s, o) /\ n.db[o.row] = s.db[o.row]
  BY DEF LastsHeld
<1>1. o \in s.oplog /\ \A p \in s.oplog : p.row \in Row /\ p.ts \in Nat
  BY StoreParts DEF Entries, Drained
<1>2. ASSUME NEW p \in s.oplog, p.row = o.row
      PROVE  p.ts <= o.ts
  <2>1. CASE p \in n.oplog
    BY <1>2, <2>1 DEF Latest
  <2>2. CASE p \notin n.oplog
    <3>1. o.row \in rows /\ ~(p.ts > snap)
      BY <1>2, <2>2 DEF Drained
    <3>2. o.ts > snap
      BY <1>1, <3>1 DEF Drained
    <3> QED
      BY <1>1, <3>1, <3>2
  <2> QED
    BY <2>1, <2>2
<1>3. n.db[o.row] = s.db[o.row]
  BY <1>1 DEF Untouched, Dirty
<1> QED
  BY <1>1, <1>2, <1>3 DEF Latest

\* The same when the oplog stays.
LEMMA LastsOfSameOplog ==
    ASSUME NEW c \in Nat, NEW e, NEW s \in Stores(c, e), NEW n,
           n.oplog = s.oplog, Untouched(s, n), NEW l, LastsHeld(s, l)
    PROVE  LastsHeld(n, l)
<1>1. Drained(s, n, {}, 0)
  BY DEF Drained
<1> QED
  BY <1>1, LastsStay

\* Pages.
LEMMA PageMatches ==
    ASSUME NEW c \in Nat, NEW e, NEW s \in Stores(c, e), NEW l \in Logs(c), NEW limit,
           s.cursor <= Len(l), Versioned(s, l), Clean(s, l), ParksServed(s, l), LastsHeld(s, l),
           NEW n, n = ApplyPage(s, Page(l, s.cursor, limit), PageEnd(l, s.cursor, limit))
    PROVE  Versioned(n, l) /\ Clean(n, l) /\ ParksServed(n, l) /\ LastsHeld(n, l)
<1> DEFINE W == Page(l, s.cursor, limit)
           end == PageEnd(l, s.cursor, limit)
           ups == PageUps(s, W)
           tombs == PageTombs(s, W)
           out == Orphans(s, W)
<1>1. s.cursor \in Nat /\ IsStore(s)
  BY StoreParts, StoreShape
<1>2. /\ Distinct(W) /\ W \in SUBSET Versions(c)
      /\ \A w \in W : w.row \in Row /\ w = PullRow(l, w.row) /\ w.seq = Newest(l, w.row)
  BY <1>1, PageHolds, PageTyped
<1>3. \A w \in W : Served(w, l)
  <2> SUFFICES ASSUME NEW w \in W
               PROVE  Served(w, l)
    OBVIOUS
  <2>1. w.seq \in Nat \ {0} /\ w.seq = Newest(l, w.row) /\ w = PullRow(l, w.row)
    BY <1>2 DEF Versions
  <2>2. w.seq \in DOMAIN l /\ l[w.seq].row = w.row
    BY <2>1, NewestLast
  <2>3. w.val = l[w.seq].val
    BY <2>1 DEF PullRow
  <2> QED
    BY <2>2, <2>3 DEF Served
<1> HIDE DEF W, end
<1>4. /\ TookOver(s, n, ups, tombs)
      /\ s.journal \subseteq n.journal
      /\ n.oplog = s.oplog /\ n.parked = Park(s.parked, out)
  BY <1>2, PageTakes DEF W, end
<1>5. Untouched(s, n)
  BY <1>1, PageUntouched DEF W, end
<1>6. /\ \A w \in ups \cup tombs \cup out : w \in W
      /\ \A w \in tombs : w.val = Gone
  BY DEF PageUps, PageTombs, Orphans, Upserts
<1> HIDE DEF ups, tombs, out
<1>7. \A w \in ups \cup tombs : Served(w, l)
  BY <1>3, <1>6
<1>8. Versioned(n, l) /\ Clean(n, l)
  BY <1>4, <1>6, <1>7, TakingFits
<1>9. ParksServed(n, l)
  BY <1>3, <1>4, <1>6 DEF ParksServed, Park
<1>10. LastsHeld(n, l)
  BY <1>4, <1>5, LastsOfSameOplog
<1> QED
  BY <1>8, <1>9, <1>10

\* Retries, what they leave of the last edits.
LEMMA RetryLasts ==
    ASSUME NEW c \in Nat, NEW e, NEW s \in Stores(c, e), NEW final, ParksLive(s),
           NEW l, LastsHeld(s, l)
    PROVE  LastsHeld(RetryParked(s, final), l)
<1> DEFINE n == RetryParked(s, final)
<1>1. n.oplog = s.oplog
  BY RetryTakes DEF ParksLive
<1>2. Untouched(s, n)
  BY StoreShape, RetryUntouched
<1> HIDE DEF n
<1>3. LastsHeld(n, l)
  BY <1>1, <1>2, LastsOfSameOplog
<1> QED
  BY <1>3 DEF n

\* And of rows and versions.
LEMMA RetryMatches ==
    ASSUME NEW c \in Nat, NEW e, NEW s \in Stores(c, e), NEW final, ParksLive(s),
           NEW l, Versioned(s, l), Clean(s, l), ParksServed(s, l)
    PROVE  LET n == RetryParked(s, final)
           IN  Versioned(n, l) /\ Clean(n, l) /\ ParksServed(n, l)
<1> DEFINE n == RetryParked(s, final)
           ups == Ready(s)
<1>1. /\ TookOver(s, n, ups, {})
      /\ s.journal \subseteq n.journal /\ n.oplog = s.oplog /\ n.parked \subseteq Stuck(s)
  BY RetryTakes DEF ParksLive
<1>2. \A w \in ups \cup {} \cup Stuck(s) : Served(w, l)
  BY DEF ParksServed, Ready, Stuck, Upserts
<1> HIDE DEF n, ups
<1>3. Versioned(n, l) /\ Clean(n, l)
  BY <1>1, <1>2, TakingFits
<1>4. ParksServed(n, l)
  BY <1>1, <1>2 DEF ParksServed
<1> QED
  BY <1>3, <1>4 DEF n

\* The results of a push.
LEMMA ResultsMatch ==
    ASSUME NEW c \in Nat, NEW e, NEW s \in Stores(c, e), NEW snap \in Nat,
           NEW answers \in SUBSET Results(c), OneAnswerEach(answers),
           NEW l, Versioned(s, l), Clean(s, l), AnswersFit(s, answers, snap),
           \A a \in answers : Served(a.current, l),
           NEW n, n = ApplyResults(s, snap, answers)
    PROVE  Versioned(n, l) /\ Clean(n, l)
<1> DEFINE ups == WinnerUps(s, snap, answers)
           tombs == WinnerTombs(s, snap, answers)
<1>1. /\ Settles(s, n, ups, tombs, answers)
      /\ s.journal \subseteq n.journal
      /\ LossesJournaled(n, answers)
      /\ Drained(s, n, AnsweredRows(answers), snap)
  BY ResultsTake
<1>2. /\ \A w \in ups \cup tombs : \E a \in answers : a.lost /\ w = a.current
      /\ \A w \in tombs : w.val = Gone
      /\ \A a \in answers :
            a.lost /\ ~DirtyAfter(s, a.current.row, snap) /\ Fresh(s, a.current) =>
               \/ a.current \in ups
               \/ a.current \in tombs
               \/ a.current.val = Gone /\ Descendants(a.current.row) # {}
  BY DEF WinnerUps, WinnerTombs, Winners
<1> HIDE DEF ups, tombs
<1>3. ASSUME NEW r \in Row, \A a \in answers : a.current.row # r
      PROVE  /\ n.rv[r] = s.rv[r]
             /\ n.db[r] = s.db[r] \/ Vanished(n, r)
             /\ Dirty(s, r) => Dirty(n, r)
  <2>1. n.rv[r] = s.rv[r] /\ (n.db[r] = s.db[r] \/ Vanished(n, r))
    BY <1>1, <1>2, <1>3 DEF Settles
  <2>2. Dirty(s, r) => Dirty(n, r)
    BY <1>1, <1>3 DEF Dirty, Drained, AnsweredRows
  <2> QED
    BY <2>1, <2>2
<1>4. ASSUME NEW a \in answers
      PROVE  n.rv[a.current.row] = s.rv[a.current.row] \/ n.rv[a.current.row] = a.current.seq
  <2>1. a.current.row \in Row
    BY DEF Results, Versions
  <2>2. CASE ~a.lost
    BY <1>1, <2>2 DEF Settles
  <2>3. CASE a.current \in ups \cup tombs
    BY <1>1, <2>3 DEF Settles
  <2>4. CASE a.lost /\ a.current \notin ups \cup tombs
    <3>1. \A b \in answers : ~b.lost => b.current.row # a.current.row
      BY <2>4 DEF OneAnswerEach
    <3>2. \A w \in ups \cup tombs : w.row # a.current.row
      BY <1>2, <2>4 DEF OneAnswerEach
    <3> QED
      BY <1>1, <2>1, <3>1, <3>2 DEF Settles
  <2> QED
    BY <2>2, <2>3, <2>4
<1>5. Versioned(n, l)
  <2> SUFFICES ASSUME NEW r \in Row, n.rv[r] # 0
               PROVE  n.rv[r] \in DOMAIN l /\ l[n.rv[r]].row = r
    BY DEF Versioned, Unbased
  <2>1. CASE n.rv[r] = s.rv[r]
    BY <2>1 DEF Versioned, Unbased
  <2>2. CASE n.rv[r] # s.rv[r]
    <3>1. PICK a \in answers : a.current.row = r
      BY <1>3, <2>2
    <3>2. n.rv[r] = a.current.seq
      BY <1>4, <2>2, <3>1
    <3> QED
      BY <3>1, <3>2 DEF Served
  <2> QED
    BY <2>1, <2>2
<1>6. ASSUME NEW r \in Row, n.rv[r] # 0, ~Dirty(n, r), \A a \in answers : a.current.row # r
      PROVE  Fits(n, l, r)
  <2>1. /\ n.rv[r] = s.rv[r] /\ ~Dirty(s, r)
        /\ n.db[r] = s.db[r] \/ Vanished(n, r)
    BY <1>3, <1>6
  <2>2. Fits(s, l, r)
    BY <1>6, <2>1 DEF Clean, Unbased
  <2> QED
    BY <1>1, <2>1, <2>2 DEF Fits, Vanished
<1>7. ASSUME NEW a \in answers, ~Dirty(n, a.current.row)
      PROVE  Fits(n, l, a.current.row)
  <2> DEFINE w == a.current
             r == a.current.row
  <2>1. r \in Row /\ w.seq \in DOMAIN l /\ l[w.seq].row = r /\ l[w.seq].val = w.val
    BY DEF Results, Versions, Served
  <2>2. ~DirtyAfter(s, r, snap)
    BY <1>1, <1>7 DEF Dirty, DirtyAfter, Drained
  <2>3. /\ ~a.lost => s.db[r] = w.val
        /\ a.lost => s.rv[r] < w.seq
    BY <2>2 DEF AnswersFit
  <2>4. CASE ~a.lost
    <3>1. n.rv[r] = w.seq /\ (n.db[r] = w.val \/ Vanished(n, r))
      BY <1>1, <2>3, <2>4 DEF Settles
    <3> QED
      BY <2>1, <3>1 DEF Fits, Vanished
  <2>5. CASE a.lost /\ w \in ups
    <3>1. n.rv[r] = w.seq /\ (n.db[r] = w.val \/ Vanished(n, r))
      BY <1>1, <2>5 DEF Settles
    <3> QED
      BY <2>1, <3>1 DEF Fits, Vanished
  <2>6. CASE a.lost /\ w \in tombs
    <3>1. n.rv[r] = w.seq /\ n.db[r] = w.val
      BY <1>1, <1>2, <2>6 DEF Settles
    <3> QED
      BY <2>1, <3>1 DEF Fits
  <2>7. CASE a.lost /\ w \notin ups /\ w \notin tombs
    <3>1. w.val = Gone /\ Descendants(r) # {}
      BY <1>2, <2>2, <2>3, <2>7 DEF Fresh
    <3>2. [row |-> r, reason |-> "lww_lost", val |-> Gone] \in n.journal
      BY <1>1, <2>7 DEF LossesJournaled
    <3>3. n.rv[r] = s.rv[r]
      <4>1. \A b \in answers : ~b.lost => b.current.row # r
        BY <2>7 DEF OneAnswerEach
      <4>2. \A v \in ups \cup tombs : v.row # r
        BY <1>2, <2>7 DEF OneAnswerEach
      <4> QED
        BY <1>1, <2>1, <4>1, <4>2 DEF Settles
    <3>4. s.rv[r] \in Nat /\ w.seq \in Nat
      BY <2>1, StoreParts DEF Results, Versions
    <3>5. w.seq \in DOMAIN l /\ w.seq > n.rv[r] /\ l[w.seq].row = r /\ l[w.seq].val = Gone
      BY <2>1, <2>3, <2>7, <3>1, <3>3, <3>4
    <3> QED
      BY <3>1, <3>2, <3>5 DEF Fits
  <2> QED
    BY <2>4, <2>5, <2>6, <2>7
<1>8. Clean(n, l)
  BY <1>6, <1>7 DEF Clean, Unbased
<1> QED
  BY <1>5, <1>8

\* What is sent: the content of each row, under the stamp of its last edit that
\* the snapshot covers.
LEMMA ChangeIs ==
    ASSUME NEW c \in Nat, NEW e, NEW s \in Stores(c, e), NEW snap, NEW a \in Changes(s, snap)
    PROVE  /\ a.row \in Row /\ a.base = s.rv[a.row]
           /\ a.val # Gone => a.val = s.db[a.row]
           /\ \E o \in s.oplog :
                 /\ o.row = a.row /\ o.ts = a.ts /\ o.ts <= snap
                 /\ \A p \in s.oplog : p.row = a.row /\ p.ts <= snap => p.ts <= o.ts
                 /\ a.val = IF o.op = "D" THEN Gone ELSE s.db[a.row]
<1>1. PICK r \in Covered(s, snap) : a = Change(s, snap, r)
  BY DEF Changes
<1> DEFINE ops == {o \in s.oplog : o.row = r /\ o.ts <= snap}
           T == {o.ts : o \in ops}
           last == CHOOSE o \in ops : \A p \in ops : p.ts <= o.ts
<1>2. r \in Row /\ ops # {}
  BY DEF Covered
<1>3. \A o \in ops : o.ts \in 1..c
  BY StoreParts DEF Entries
<1>4. \E t \in T : \A u \in T : u <= t
  <2>1. T \in SUBSET Nat /\ T # {} /\ \A x \in T : x <= c
    BY <1>2, <1>3
  <2> HIDE DEF T
  <2> QED
    BY <2>1, Greatest
<1>5. last \in ops /\ \A p \in ops : p.ts <= last.ts
  BY <1>4
<1>6. a = [row |-> r, base |-> s.rv[r], ts |-> last.ts,
           val |-> IF last.op = "D" THEN Gone ELSE s.db[r]]
  BY <1>1 DEF Change
<1>7. /\ last \in s.oplog /\ last.row = r /\ last.ts <= snap
      /\ \A p \in s.oplog : p.row = r /\ p.ts <= snap => p.ts <= last.ts
  BY <1>5
<1> HIDE DEF last
<1>8. /\ a.row = r /\ a.base = s.rv[r] /\ a.ts = last.ts
      /\ a.val = IF last.op = "D" THEN Gone ELSE s.db[r]
  BY <1>6
<1> QED
  BY <1>2, <1>7, <1>8

\* Under a longer log versions, clean rows and parked rows are what they were.
LEMMA LongerMatches ==
    ASSUME NEW c, NEW l \in Logs(c), NEW n \in Logs(c), NEW won, Extends(n, l, won),
           NEW s, Versioned(s, l), Clean(s, l), ParksServed(s, l)
    PROVE  Versioned(s, n) /\ Clean(s, n) /\ ParksServed(s, n)
<1>1. /\ DOMAIN l = 1..Len(l) /\ Len(l) \in Nat
      /\ DOMAIN n = 1..Len(n) /\ Len(n) \in Nat
  BY LenProperties DEF Logs
<1>2. \A i \in DOMAIN l : i \in DOMAIN n /\ n[i] = l[i]
  BY <1>1 DEF Extends
<1>3. Versioned(s, n)
  BY <1>2 DEF Versioned
<1>4. ASSUME NEW r \in Row, ~Unbased(s, r), Fits(s, l, r)
      PROVE  Fits(s, n, r)
  <2>1. s.rv[r] \in DOMAIN l /\ n[s.rv[r]] = l[s.rv[r]]
    BY <1>2, <1>4 DEF Versioned
  <2> QED
    BY <1>2, <1>4, <2>1 DEF Fits
<1>5. Clean(s, n)
  BY <1>4 DEF Clean
<1>6. ParksServed(s, n)
  BY <1>2 DEF ParksServed, Served
<1> QED
  BY <1>3, <1>5, <1>6

\* And last edits hold what they held when its new versions carry other stamps,
\* or that content.
LEMMA LongerLasts ==
    ASSUME NEW c, NEW l \in Logs(c), NEW n \in Logs(c), NEW won, Extends(n, l, won),
           NEW s, LastsHeld(s, l),
           \A a \in won : \A o \in s.oplog :
               o.row = a.row /\ o.ts = a.ts /\ Latest(s, o) => a.val = s.db[o.row]
    PROVE  LastsHeld(s, n)
<1>1. /\ DOMAIN l = 1..Len(l) /\ Len(l) \in Nat
      /\ DOMAIN n = 1..Len(n) /\ Len(n) \in Nat
  BY LenProperties DEF Logs
<1> SUFFICES ASSUME NEW o \in s.oplog, Latest(s, o), NEW i \in 1..Len(n),
                    n[i].row = o.row, n[i].ts = o.ts
             PROVE  n[i].val = s.db[o.row]
  BY <1>1 DEF LastsHeld
<1>2. CASE i <= Len(l)
  <2>1. i \in DOMAIN l /\ n[i] = l[i]
    BY <1>1, <1>2 DEF Extends
  <2> QED
    BY <2>1 DEF LastsHeld
<1>3. CASE i > Len(l)
  <2>1. PICK a \in won : n[i].row = a.row /\ n[i].ts = a.ts /\ n[i].val = a.val
    BY <1>3 DEF Extends
  <2> QED
    BY <2>1
<1> QED
  BY <1>1, <1>2, <1>3

\* A refused change is journaled with the content the row has.
LEMMA RefuseMatches ==
    ASSUME NEW c \in Nat, NEW e, NEW s \in Stores(c, e), NEW snap,
           NEW bad \in SUBSET MayRefuse(Changes(s, snap)),
           NEW l, Versioned(s, l), Clean(s, l), ParksServed(s, l)
    PROVE  LET n == Refuse(s, snap, bad)
           IN  Versioned(n, l) /\ Clean(n, l) /\ ParksServed(n, l)
<1> DEFINE n == Refuse(s, snap, bad)
<1>1. /\ n.db = s.db /\ n.rv = s.rv /\ n.parked = s.parked
      /\ Drained(s, n, RefusedRows(bad), snap)
      /\ s.journal \subseteq n.journal
      /\ RefusalsJournaled(n, bad)
  BY RefuseParts
<1>2. \A b \in bad : b.val = s.db[b.row]
  BY ChangeIs DEF MayRefuse
<1> HIDE DEF n
<1>3. Versioned(n, l) /\ ParksServed(n, l)
  BY <1>1 DEF Versioned, ParksServed, Unbased
<1>4. ASSUME NEW r \in Row, Fits(s, l, r)
      PROVE  Fits(n, l, r)
  BY <1>1, <1>4 DEF Fits
<1>5. ASSUME NEW r \in Row, Dirty(s, r), ~Dirty(n, r)
      PROVE  Fits(n, l, r)
  <2>1. PICK o \in s.oplog : o.row = r
    BY <1>5 DEF Dirty
  <2>2. PICK b \in bad : b.row = r
    BY <1>1, <1>5, <2>1 DEF Dirty, Drained, RefusedRows
  <2>3. [row |-> r, reason |-> "apply_error", val |-> n.db[r]] \in n.journal
    BY <1>1, <1>2, <2>2 DEF RefusalsJournaled
  <2> QED
    BY <2>3 DEF Fits
<1>6. Clean(n, l)
  BY <1>1, <1>4, <1>5 DEF Clean, Unbased
<1> QED
  BY <1>3, <1>6 DEF n

\* And its purge keeps the last edits of the other rows.
LEMMA RefuseLasts ==
    ASSUME NEW c \in Nat, NEW e, NEW s \in Stores(c, e), NEW snap \in Nat, NEW bad,
           NEW l, LastsHeld(s, l)
    PROVE  LastsHeld(Refuse(s, snap, bad), l)
<1> DEFINE n == Refuse(s, snap, bad)
<1>1. n.db = s.db /\ Drained(s, n, RefusedRows(bad), snap)
  BY RefuseParts
<1> HIDE DEF n
<1>2. Untouched(s, n)
  BY <1>1 DEF Untouched
<1>3. LastsHeld(n, l)
  BY <1>1, <1>2, LastsStay
<1> QED
  BY <1>3 DEF n

\* The newest version of a row whose change the server took is that change, and
\* of a row whose change it did not take, the one that was.
LEMMA NewestAfter ==
    ASSUME NEW c \in Nat, NEW l \in Logs(c), NEW changes, Request(changes, c),
           NEW a \in changes, NEW n, n = AcceptAll(l, changes)
    PROVE  /\ Takes(l, a) => PullRow(n, a.row).val = a.val
           /\ ~Takes(l, a) /\ Newest(l, a.row) # 0 =>
                 PullRow(n, a.row).seq = Newest(l, a.row)
                    /\ PullRow(n, a.row).val = l[Newest(l, a.row)].val
           /\ PullRow(n, a.row).seq \in Nat /\ Newest(l, a.row) <= PullRow(n, a.row).seq
<1> DEFINE won == {b \in changes : Takes(l, b)}
           h == Newest(n, a.row)
<1>1. n \in Logs(c) /\ Extends(n, l, won)
  BY AcceptExtends
<1>2. /\ DOMAIN l = 1..Len(l) /\ Len(l) \in Nat
      /\ DOMAIN n = 1..Len(n) /\ Len(n) \in Nat
  BY <1>1, LenProperties DEF Logs
<1>3. /\ h \in Nat
      /\ \A i \in DOMAIN n : n[i].row = a.row => i <= h
      /\ h # 0 => h \in DOMAIN n /\ n[h].row = a.row
      /\ Newest(l, a.row) # 0 => Newest(l, a.row) \in DOMAIN l
  BY <1>1, NewestLast
<1>4. PullRow(n, a.row).seq = h /\ PullRow(n, a.row).val = n[h].val
  BY DEF PullRow
<1>5. \A b \in won : b.row = a.row => b = a
  BY DEF Request
<1>6. a \in won <=> Takes(l, a)
  OBVIOUS
<1>7. h = Newest(l, a.row) \/ h > Len(l)
  BY <1>1, NewestGrows
<1> HIDE DEF won, h
<1>8. ASSUME Takes(l, a)
      PROVE  PullRow(n, a.row).val = a.val
  <2>1. PICK i \in 1..Len(n) : i > Len(l) /\ n[i].row = a.row
    BY <1>1, <1>6, <1>8 DEF Extends
  <2>2. i <= h
    BY <1>2, <1>3, <2>1
  <2>3. h \in 1..Len(n) /\ h > Len(l) /\ n[h].row = a.row
    BY <1>2, <1>3, <2>1, <2>2
  <2>4. PICK b \in won : n[h].row = b.row /\ n[h].val = b.val
    BY <1>1, <2>3 DEF Extends
  <2>5. n[h].val = a.val
    BY <1>5, <2>3, <2>4
  <2> QED
    BY <1>4, <1>8, <2>5
<1>9. ASSUME ~Takes(l, a), Newest(l, a.row) # 0
      PROVE  h = Newest(l, a.row) /\ PullRow(n, a.row).val = l[Newest(l, a.row)].val
  <2>1. ~(h > Len(l))
    <3> SUFFICES ASSUME h > Len(l)
                 PROVE  FALSE
      OBVIOUS
    <3>1. h \in 1..Len(n) /\ n[h].row = a.row
      BY <1>2, <1>3
    <3>2. PICK b \in won : n[h].row = b.row
      BY <1>1, <3>1 DEF Extends
    <3> QED
      BY <1>5, <1>6, <1>9, <3>1, <3>2
  <2>2. h = Newest(l, a.row) /\ h \in 1..Len(l)
    BY <1>2, <1>3, <1>7, <1>9, <2>1
  <2>3. n[h] = l[h]
    BY <1>1, <2>2 DEF Extends
  <2> QED
    BY <1>4, <1>9, <2>2, <2>3
<1>10. h \in Nat /\ Newest(l, a.row) <= h
  <2>1. Newest(l, a.row) = 0 \/ Newest(l, a.row) \in 1..Len(l)
    BY <1>2, <1>3
  <2> QED
    BY <1>2, <1>3, <1>7, <2>1
<1> QED
  BY <1>4, <1>8, <1>9, <1>10

\* The answers of a push fit the store it leaves.
LEMMA AnswersFitPush ==
    ASSUME NEW c \in Nat, NEW e, NEW s \in Stores(c, e), NEW snap \in Nat, NEW l \in Logs(c),
           NEW bad \in SUBSET Changes(s, snap), Versioned(s, l), LastsHeld(s, l)
    PROVE  AnswersFit(Refuse(s, snap, bad), Answers(l, Changes(s, snap) \ bad), snap)
<1> DEFINE t == Refuse(s, snap, bad)
           changes == Changes(s, snap)
           sent == changes \ bad
           n == AcceptAll(l, sent)
<1>1. Request(changes, c) /\ Request(sent, c)
  BY ChangesTyped
<1>2. /\ t.db = s.db /\ t.rv = s.rv
      /\ Drained(s, t, RefusedRows(bad), snap)
  BY RefuseParts
<1> HIDE DEF t
<1> SUFFICES ASSUME NEW x \in Answers(l, sent)
             PROVE  /\ ~x.lost /\ ~DirtyAfter(t, x.current.row, snap) =>
                          s.db[x.current.row] = x.current.val
                    /\ x.lost => s.rv[x.current.row] < x.current.seq
                    /\ s.rv[x.current.row] <= x.current.seq
  BY <1>2 DEF AnswersFit, t
<1>3. PICK a \in sent : x = [lost |-> Loses(l, a), current |-> PullRow(n, a.row)]
  BY DEF Answers
<1>4. /\ (x.lost <=> Loses(l, a)) /\ x.current.row = a.row
      /\ x.current.seq = PullRow(n, a.row).seq /\ x.current.val = PullRow(n, a.row).val
  BY <1>3 DEF PullRow
<1>5. /\ Takes(l, a) => PullRow(n, a.row).val = a.val
      /\ ~Takes(l, a) /\ Newest(l, a.row) # 0 =>
            PullRow(n, a.row).seq = Newest(l, a.row)
               /\ PullRow(n, a.row).val = l[Newest(l, a.row)].val
      /\ PullRow(n, a.row).seq \in Nat /\ Newest(l, a.row) <= PullRow(n, a.row).seq
  <2> HIDE DEF sent
  <2> QED
    BY <1>1, NewestAfter
<1>6. /\ a.row \in Row /\ a.base = s.rv[a.row] /\ s.rv[a.row] \in Nat
      /\ Newest(l, a.row) \in Nat
      /\ \A i \in DOMAIN l : l[i].row = a.row => i <= Newest(l, a.row)
      /\ Newest(l, a.row) # 0 => Newest(l, a.row) \in DOMAIN l /\ l[Newest(l, a.row)].row = a.row
  BY ChangeIs, NewestLast, StoreParts
<1>7. PICK o \in s.oplog :
         /\ o.row = a.row /\ o.ts = a.ts /\ o.ts <= snap
         /\ \A p \in s.oplog : p.row = a.row /\ p.ts <= snap => p.ts <= o.ts
         /\ a.val = IF o.op = "D" THEN Gone ELSE s.db[a.row]
  BY ChangeIs
<1>8. \A b \in bad : b.row # a.row
  BY <1>1 DEF Request
<1> HIDE DEF n, sent, changes
<1>9. ASSUME Loses(l, a)
      PROVE  s.rv[a.row] < PullRow(n, a.row).seq
  <2>1. ~Takes(l, a) /\ Newest(l, a.row) # 0 /\ Newest(l, a.row) # s.rv[a.row]
    BY <1>6, <1>9 DEF Takes, Loses
  <2>2. s.rv[a.row] <= Newest(l, a.row)
    BY <1>6 DEF Versioned, Unbased
  <2> QED
    BY <1>5, <1>6, <2>1, <2>2
<1>10. ASSUME ~Loses(l, a), ~DirtyAfter(t, a.row, snap)
       PROVE  s.db[a.row] = PullRow(n, a.row).val
  <2>1. Latest(s, o)
    <3> SUFFICES ASSUME NEW p \in s.oplog, p.row = a.row
                 PROVE  p.ts <= o.ts
      BY <1>7 DEF Latest
    <3>1. ~(p.ts > snap)
      BY <1>2, <1>8, <1>10 DEF DirtyAfter, Drained, RefusedRows
    <3>2. p.ts \in Nat
      BY StoreParts DEF Entries
    <3> QED
      BY <1>7, <3>1, <3>2
  <2>2. /\ a.val = s.db[a.row]
        /\ \A i \in DOMAIN l : l[i].row = a.row /\ l[i].ts = a.ts => l[i].val = s.db[a.row]
    BY <1>7, <2>1 DEF LastsHeld
  <2>3. CASE Takes(l, a)
    BY <1>5, <2>2, <2>3
  <2>4. CASE ~Takes(l, a)
    <3>1. Newest(l, a.row) # 0 /\ l[Newest(l, a.row)].ts = a.ts
      BY <1>10, <2>4 DEF Takes, Replays
    <3> QED
      BY <1>5, <1>6, <2>2, <2>4, <3>1
  <2> QED
    BY <2>3, <2>4
<1>11. s.rv[a.row] <= PullRow(n, a.row).seq
  <2>1. s.rv[a.row] <= Newest(l, a.row)
    BY <1>6 DEF Versioned, Unbased
  <2> QED
    BY <1>5, <1>6, <2>1
<1> QED
  BY <1>4, <1>9, <1>10, <1>11

\* The rows R of store s were edited under stamp t, each once.
Edited(s, n, R, t) ==
    /\ \A q \in Row : q \notin R => n.db[q] = s.db[q]
    /\ s.oplog \subseteq n.oplog
    /\ \A o \in n.oplog : o \notin s.oplog =>
          o.row \in R /\ o.ts = t /\ (o.op = "D" => n.db[o.row] = Gone)
    /\ \A o, p \in n.oplog : o \notin s.oplog /\ p \notin s.oplog /\ o.row = p.row => o = p
    /\ \A q \in R : \E o \in n.oplog : o.row = q /\ o.ts = t
    /\ n.rv = s.rv /\ n.parked = s.parked /\ n.journal = s.journal /\ n.epoch = s.epoch

\* The user's edits.
LEMMA EditEdits ==
    ASSUME NEW c, NEW e, NEW s \in Stores(c, e), NEW r \in Row, NEW t,
           NEW n, n = Write(s, r, t) \/ n = Erase(s, r, t)
    PROVE  \E R \in SUBSET Row : Edited(s, n, R, t)
<1>1. CASE n = Write(s, r, t)
  <2>1. /\ n.db[r] = t
        /\ \A q \in Row : q # r => n.db[q] = s.db[q]
        /\ n.oplog = s.oplog \cup {[row |-> r, op |-> "U", ts |-> t]}
        /\ n.rv = s.rv /\ n.parked = s.parked /\ n.journal = s.journal /\ n.epoch = s.epoch
    BY <1>1, WriteParts
  <2> DEFINE o == [row |-> r, op |-> "U", ts |-> t]
             R == {r}
  <2>2. o.row = r /\ o.op = "U" /\ o.ts = t /\ n.oplog = s.oplog \cup {o}
    BY <2>1
  <2>3. R \in SUBSET Row /\ \A q : q \in R <=> q = r
    OBVIOUS
  <2> HIDE DEF o, R
  <2>4. Edited(s, n, R, t)
    BY <2>1, <2>2, <2>3 DEF Edited
  <2> QED
    BY <2>3, <2>4
<1>2. CASE n = Erase(s, r, t)
  <2>1. /\ \A q \in Row : n.db[q] = IF q \in Taken(s, r) THEN Gone ELSE s.db[q]
        /\ n.oplog = s.oplog \cup {[row |-> q, op |-> "D", ts |-> t] : q \in Taken(s, r)}
        /\ n.rv = s.rv /\ n.parked = s.parked /\ n.journal = s.journal /\ n.epoch = s.epoch
    BY <1>2, EraseParts
  <2>2. Taken(s, r) \in SUBSET Row
    BY DEF Taken, CascadeBelow, Descendants
  <2> DEFINE new(q) == [row |-> q, op |-> "D", ts |-> t]
  <2>3. \A q : new(q).row = q /\ new(q).ts = t
    OBVIOUS
  <2>4. /\ s.oplog \subseteq n.oplog
        /\ \A q \in Taken(s, r) : new(q) \in n.oplog
        /\ \A o \in n.oplog : o \notin s.oplog => \E q \in Taken(s, r) : o = new(q)
    BY <2>1
  <2> HIDE DEF new
  <2>5. /\ \A o \in n.oplog : o \notin s.oplog =>
              o.row \in Taken(s, r) /\ o.ts = t /\ n.db[o.row] = Gone
        /\ \A o, p \in n.oplog :
              o \notin s.oplog /\ p \notin s.oplog /\ o.row = p.row => o = p
        /\ \A q \in Taken(s, r) : \E o \in n.oplog : o.row = q /\ o.ts = t
    BY <2>1, <2>2, <2>3, <2>4
  <2>6. Edited(s, n, Taken(s, r), t)
    BY <2>1, <2>4, <2>5 DEF Edited
  <2> QED
    BY <2>2, <2>6
<1> QED
  BY <1>1, <1>2

\* What they leave.
LEMMA EditMatches ==
    ASSUME NEW c \in Nat, NEW e, NEW s \in Stores(c, e), NEW n, NEW R \in SUBSET Row,
           NEW t \in Nat, t > c, Edited(s, n, R, t), NEW l
    PROVE  /\ l \in Logs(c) /\ LastsHeld(s, l) => LastsHeld(n, l)
           /\ Versioned(s, l) /\ Clean(s, l) /\ ParksServed(s, l) =>
                 Versioned(n, l) /\ Clean(n, l) /\ ParksServed(n, l)
           /\ \A answers \in SUBSET Results(c), snap \in 0..c :
                 AnswersFit(s, answers, snap) => AnswersFit(n, answers, snap)
<1>1. \A o \in s.oplog : o.row \in Row /\ o.ts \in 1..c
  BY StoreParts DEF Entries
<1>2. ASSUME l \in Logs(c), LastsHeld(s, l)
      PROVE  LastsHeld(n, l)
  <2>1. \A i \in DOMAIN l : l[i].ts \in 1..c
    <3> SUFFICES ASSUME NEW i \in DOMAIN l
                 PROVE  l[i].ts \in 1..c
      OBVIOUS
    <3>1. l[i] \in [row : Row, ts : 1..c, val : 0..c]
      BY <1>2, ElementOfSeq, LenProperties DEF Logs
    <3> QED
      BY <3>1
  <2> SUFFICES ASSUME NEW o \in n.oplog, Latest(n, o)
               PROVE  /\ o.op = "D" => n.db[o.row] = Gone
                      /\ \A i \in DOMAIN l : l[i].row = o.row /\ l[i].ts = o.ts =>
                            l[i].val = n.db[o.row]
    BY DEF LastsHeld
  <2>2. CASE o \notin s.oplog
    BY <2>1, <2>2 DEF Edited
  <2>3. CASE o \in s.oplog
    <3>1. o.row \notin R
      <4> SUFFICES ASSUME o.row \in R
                   PROVE  FALSE
        OBVIOUS
      <4>1. PICK p \in n.oplog : p.row = o.row /\ p.ts = t
        BY DEF Edited
      <4>2. t <= o.ts
        BY <4>1 DEF Latest
      <4> QED
        BY <1>1, <2>3, <4>2
    <3>2. Latest(s, o) /\ n.db[o.row] = s.db[o.row]
      BY <1>1, <2>3, <3>1 DEF Latest, Edited
    <3> QED
      BY <1>2, <2>3, <3>2 DEF LastsHeld
  <2> QED
    BY <2>2, <2>3
<1>3. ASSUME Versioned(s, l), Clean(s, l), ParksServed(s, l)
      PROVE  Versioned(n, l) /\ Clean(n, l) /\ ParksServed(n, l)
  <2>1. Versioned(n, l) /\ ParksServed(n, l)
    BY <1>3 DEF Versioned, ParksServed, Unbased, Edited
  <2>2. ASSUME NEW r \in Row, ~Dirty(n, r)
        PROVE  ~Dirty(s, r) /\ n.db[r] = s.db[r]
    BY <2>2 DEF Dirty, Edited
  <2>3. ASSUME NEW r \in Row, n.db[r] = s.db[r], Fits(s, l, r)
        PROVE  Fits(n, l, r)
    BY <2>3 DEF Fits, Edited
  <2>4. \A r \in Row : Unbased(n, r) <=> Unbased(s, r)
    BY DEF Unbased, Edited
  <2>5. Clean(n, l)
    BY <1>3, <2>2, <2>3, <2>4 DEF Clean
  <2> QED
    BY <2>1, <2>5
<1>4. ASSUME NEW answers \in SUBSET Results(c), NEW snap \in 0..c, AnswersFit(s, answers, snap)
      PROVE  AnswersFit(n, answers, snap)
  <2>1. ASSUME NEW r \in Row, ~DirtyAfter(n, r, snap)
        PROVE  ~DirtyAfter(s, r, snap) /\ n.db[r] = s.db[r]
    <3>1. r \notin R
      BY <2>1 DEF DirtyAfter, Edited
    <3> QED
      BY <2>1, <3>1 DEF DirtyAfter, Edited
  <2>2. \A a \in answers : a.current.row \in Row
    BY DEF Results, Versions
  <2>3. n.rv = s.rv
    BY DEF Edited
  <2> QED
    BY <1>4, <2>1, <2>2, <2>3 DEF AnswersFit
<1> QED
  BY <1>2, <1>3, <1>4

-----------------------------------------------------------------------------
(* The invariant.                                                           *)

\* Two pending edits under one stamp are of one device, and of different rows.
StampsApart ==
    \A d, e \in Device : \A o \in store[d].oplog, p \in store[e].oplog :
        o.ts = p.ts => d = e /\ (o.row = p.row => o = p)

\* What holds of a device under log l of its own epoch.
Matches(s, y, l) ==
    /\ Versioned(s, l) /\ Clean(s, l) /\ ParksServed(s, l)
    /\ y.stage = "results" => AnswersFit(s, y.answers, y.snap)

Matched(d) ==
    /\ LastsHeld(store[d], log)
    /\ store[d].epoch = epoch => Matches(store[d], cycle[d], log)

MatchInv == AccountInv /\ StampsApart /\ \A d \in Device : Matched(d)

\* No device takes up a new epoch with rows of the old one parked.
NothingCarried ==
    \A d \in Device : store'[d].epoch # store[d].epoch => store[d].parked = {}

\* One device moves without an edit, and the log may grow by changes that carry
\* stamps of its oplog: the others stay matched.
LEMMA OneMatches ==
    ASSUME MatchInv, TypeOK', NEW d \in Device, NEW s, NEW y,
           store' = [store EXCEPT ![d] = s], cycle' = [cycle EXCEPT ![d] = y],
           epoch' = epoch, clock' = clock, NEW won, Extends(log', log, won),
           \A a \in won : \E o \in store[d].oplog : o.ts = a.ts,
           s.oplog \subseteq store[d].oplog, LastsHeld(s, log'),
           s.epoch = epoch => Matches(s, y, log')
    PROVE  StampsApart' /\ \A q \in Device : Matched(q)'
<1>1. TypeOK /\ log \in Logs(clock) /\ log' \in Logs(clock)
  <2>1. TypeOK /\ log \in Logs(clock)
    BY TypeOKByParts DEF MatchInv, AccountInv
  <2> QED
    BY <2>1 DEF TypeOK, Logs
<1>2. store'[d] = s /\ cycle'[d] = y
  BY <1>1 DEF TypeOK
<1>3. \A q \in Device : q # d => store'[q] = store[q] /\ cycle'[q] = cycle[q]
  BY <1>1, OthersStay
<1>4. \A q \in Device : store'[q].oplog \subseteq store[q].oplog
  BY <1>2, <1>3
<1>5. StampsApart'
  BY <1>4 DEF MatchInv, StampsApart
<1>6. Matched(d)'
  BY <1>2 DEF Matched
<1>7. ASSUME NEW q \in Device, q # d
      PROVE  Matched(q)'
  <2> DEFINE t == store[q]
  <2>1. store'[q] = t /\ cycle'[q] = cycle[q]
    BY <1>3, <1>7
  <2>2. LastsHeld(t, log) /\ (t.epoch = epoch => Matches(t, cycle[q], log))
    BY DEF MatchInv, Matched
  <2>3. \A a \in won : \A o \in t.oplog : o.ts # a.ts
    BY <1>7 DEF MatchInv, StampsApart
  <2> HIDE DEF t
  <2>4. LastsHeld(t, log')
    BY <1>1, <2>2, <2>3, LongerLasts
  <2>5. t.epoch = epoch => Matches(t, cycle[q], log')
    BY <1>1, <2>2, LongerMatches DEF Matches
  <2> QED
    BY <2>1, <2>4, <2>5 DEF Matched
<1> QED
  BY <1>5, <1>6, <1>7

\* The same under the same log, for a step that opens no answers.
LEMMA QuietMatches ==
    ASSUME MatchInv, TypeOK', NEW d \in Device, NEW s, NEW y,
           store' = [store EXCEPT ![d] = s], cycle' = [cycle EXCEPT ![d] = y],
           UNCHANGED <<log, epoch, clock>>, y.stage # "results",
           s.oplog \subseteq store[d].oplog, LastsHeld(s, log),
           s.epoch = epoch => Versioned(s, log) /\ Clean(s, log) /\ ParksServed(s, log)
    PROVE  StampsApart' /\ \A q \in Device : Matched(q)'
<1>1. Extends(log', log, {})
  <2>1. log \in Logs(clock)
    BY TypeOKByParts DEF MatchInv, AccountInv
  <2> QED
    BY <2>1, ExtendsItself
<1>2. s.epoch = epoch => Matches(s, y, log')
  BY DEF Matches
<1>3. epoch' = epoch /\ clock' = clock /\ LastsHeld(s, log')
  OBVIOUS
<1>4. PICK won : won = {}
  OBVIOUS
<1>5. \A a \in won : \E o \in store[d].oplog : o.ts = a.ts
  BY <1>4
<1>6. Extends(log', log, won)
  BY <1>1, <1>4
<1> QED
  BY <1>2, <1>3, <1>5, <1>6, OneMatches

\* Edits of the user.
LEMMA MatchedByEdit ==
    ASSUME MatchInv, TypeOK', NEW d \in Device, NEW r \in Row,
           \/ store' = [store EXCEPT ![d] = Write(store[d], r, clock + 1)]
           \/ store' = [store EXCEPT ![d] = Erase(store[d], r, clock + 1)],
           UNCHANGED <<log, epoch, cycle>>
    PROVE  StampsApart' /\ \A q \in Device : Matched(q)'
<1> DEFINE t == clock + 1
           s == store[d]
           n == store'[d]
           y == cycle[d]
<1>1. /\ TypeOK /\ clock \in Nat /\ log \in Logs(clock) /\ t \in Nat /\ t > clock
      /\ \A q \in Device : store[q] \in Stores(clock, epoch) /\ cycle[q] \in Cycles(clock)
  <2>1. TypeOK /\ clock \in Nat /\ log \in Logs(clock) /\ t \in Nat /\ t > clock
    BY TypeOKByParts DEF MatchInv, AccountInv
  <2>2. \A q \in Device : store[q] \in Stores(clock, epoch) /\ cycle[q] \in Cycles(clock)
    BY <2>1, TypeOKByParts
  <2> QED
    BY <2>1, <2>2
<1>2. n = Write(s, r, t) \/ n = Erase(s, r, t)
  BY <1>1 DEF TypeOK
<1>3. PICK R \in SUBSET Row : Edited(s, n, R, t)
  BY <1>1, <1>2, EditEdits
<1>4. \A q \in Device : q # d => store'[q] = store[q]
  <2>1. PICK x : store' = [store EXCEPT ![d] = x]
    OBVIOUS
  <2> QED
    BY <1>1, <2>1, OthersStay
<1>5. \A q \in Device : \A o \in store[q].oplog : o.ts \in 1..clock
  BY <1>1, StoreParts DEF Entries
<1>6. LastsHeld(s, log) /\ (s.epoch = epoch => Matches(s, y, log))
  BY DEF MatchInv, Matched
<1>7. s \in Stores(clock, epoch) /\ y.answers \in SUBSET Results(clock) /\ y.snap \in 0..clock
  BY <1>1 DEF Cycles
<1> HIDE DEF t, s, n, y
<1>8. LastsHeld(n, log)
  BY <1>1, <1>3, <1>6, <1>7, EditMatches
<1>9. s.epoch = epoch => Matches(n, y, log)
  <2>1. Versioned(s, log) /\ Clean(s, log) /\ ParksServed(s, log) =>
           Versioned(n, log) /\ Clean(n, log) /\ ParksServed(n, log)
    BY <1>1, <1>3, <1>7, EditMatches
  <2>2. AnswersFit(s, y.answers, y.snap) => AnswersFit(n, y.answers, y.snap)
    BY <1>1, <1>3, <1>7, EditMatches
  <2> QED
    BY <1>6, <2>1, <2>2 DEF Matches
<1>10. n.epoch = s.epoch
  BY <1>3 DEF Edited
<1>11. Matched(d)'
  BY <1>8, <1>9, <1>10 DEF Matched, s, n, y
<1>12. ASSUME NEW q \in Device, q # d
       PROVE  Matched(q)'
  BY <1>4, <1>12 DEF MatchInv, Matched
<1>13. StampsApart'
  <2> SUFFICES ASSUME NEW p \in Device, NEW q \in Device,
                      NEW a \in store'[p].oplog, NEW b \in store'[q].oplog, a.ts = b.ts
               PROVE  p = q /\ (a.row = b.row => a = b)
    BY DEF StampsApart
  <2>1. /\ a \notin store[p].oplog => p = d /\ a.ts = t
        /\ b \notin store[q].oplog => q = d /\ b.ts = t
    BY <1>3, <1>4 DEF Edited, n, s
  <2>2. CASE a \in store[p].oplog /\ b \in store[q].oplog
    BY <2>2 DEF MatchInv, StampsApart
  <2>3. CASE a \notin store[p].oplog /\ b \notin store[q].oplog
    BY <1>3, <2>1, <2>3 DEF Edited, n, s
  <2>4. ~(a \in store[p].oplog /\ b \notin store[q].oplog)
    BY <1>1, <1>5, <2>1
  <2>5. ~(a \notin store[p].oplog /\ b \in store[q].oplog)
    BY <1>1, <1>5, <2>1
  <2> QED
    BY <2>2, <2>3, <2>4, <2>5
<1> QED
  BY <1>11, <1>12, <1>13

\* A refusal shrinks the oplog.
LEMMA RefuseShrinks ==
    ASSUME NEW c, NEW e, NEW s \in Stores(c, e), NEW snap, NEW bad
    PROVE  Refuse(s, snap, bad).oplog \subseteq s.oplog
  BY RefuseParts DEF Drained

\* A push, whatever part of it was judged.
LEMMA MatchedByRequest ==
    ASSUME MatchInv, TypeOK', NEW d \in Device, NEW snap \in Nat,
           NEW bad \in SUBSET MayRefuse(Changes(store[d], snap)),
           NEW sent \in SUBSET (Changes(store[d], snap) \ bad),
           log' = AcceptAll(log, sent), clock' = clock, epoch' = epoch,
           NEW n, n = Refuse(store[d], snap, bad), store' = [store EXCEPT ![d] = n],
           NEW y, cycle' = [cycle EXCEPT ![d] = y],
           y.stage = "results" =>
               y.snap = snap /\ y.answers = Answers(log, Changes(store[d], snap) \ bad)
    PROVE  StampsApart' /\ \A q \in Device : Matched(q)'
<1> DEFINE s == store[d]
           changes == Changes(s, snap)
           won == {a \in sent : Takes(log, a)}
<1>1. /\ TypeOK /\ clock \in Nat /\ log \in Logs(clock) /\ log' \in Logs(clock)
      /\ s \in Stores(clock, epoch)
  <2>1. TypeOK /\ clock \in Nat /\ log \in Logs(clock) /\ s \in Stores(clock, epoch)
    BY TypeOKByParts DEF MatchInv, AccountInv
  <2> QED
    BY <2>1 DEF TypeOK, Logs
<1>2. Request(sent, clock) /\ bad \in SUBSET changes
  BY <1>1, ChangesTyped DEF MayRefuse
<1>3. Extends(log', log, won)
  BY <1>1, <1>2, AcceptExtends
<1>4. \A a \in won : a \in changes
  OBVIOUS
<1> HIDE DEF won, changes
<1>5. \A a \in won : \E o \in s.oplog : o.ts = a.ts
  BY <1>1, <1>4, ChangeIs DEF changes
<1>6. n.oplog \subseteq s.oplog /\ n.db = s.db /\ n.rv = s.rv /\ n.epoch = s.epoch
  <2>1. n.oplog \subseteq s.oplog
    BY <1>1, RefuseShrinks
  <2>2. n.db = s.db /\ n.rv = s.rv /\ n.epoch = s.epoch
    BY <1>1, RefuseParts
  <2> QED
    BY <2>1, <2>2
<1>7. LastsHeld(s, log) /\ (s.epoch = epoch => Matches(s, cycle[d], log))
  BY DEF MatchInv, Matched
<1>8. LastsHeld(n, log')
  <2>1. LastsHeld(n, log)
    BY <1>1, <1>7, RefuseLasts
  <2>2. ASSUME NEW a \in won, NEW o \in n.oplog, o.row = a.row, o.ts = a.ts, Latest(n, o)
        PROVE  a.val = n.db[o.row]
    <3>1. PICK p \in s.oplog :
             /\ p.row = a.row /\ p.ts = a.ts /\ p.ts <= snap
             /\ a.val = IF p.op = "D" THEN Gone ELSE s.db[a.row]
      BY <1>1, <1>4, ChangeIs DEF changes
    <3>2. p = o
      BY <1>6, <2>2, <3>1 DEF MatchInv, StampsApart
    <3>3. o.op = "D" => n.db[o.row] = Gone
      BY <2>1, <2>2 DEF LastsHeld
    <3> QED
      BY <1>6, <2>2, <3>1, <3>2, <3>3
  <2> QED
    BY <1>1, <1>3, <2>1, <2>2, LongerLasts
<1>9. ASSUME n.epoch = epoch
      PROVE  Matches(n, y, log')
  <2>1. Versioned(s, log) /\ Clean(s, log) /\ ParksServed(s, log)
    BY <1>6, <1>7, <1>9 DEF Matches
  <2>2. Versioned(n, log) /\ Clean(n, log) /\ ParksServed(n, log)
    BY <1>1, <2>1, RefuseMatches
  <2>3. Versioned(n, log') /\ Clean(n, log') /\ ParksServed(n, log')
    BY <1>1, <1>3, <2>2, LongerMatches
  <2>4. AnswersFit(n, Answers(log, changes \ bad), snap)
    BY <1>1, <1>2, <1>7, <2>1, AnswersFitPush DEF changes
  <2> QED
    BY <2>3, <2>4 DEF Matches, changes
<1> QED
  BY <1>3, <1>5, <1>6, <1>8, <1>9, OneMatches

\* A push that is answered.
LEMMA MatchedByPush ==
    ASSUME MatchInv, TypeOK', NEW d \in Device, PushAnswered(d)
    PROVE  StampsApart' /\ \A q \in Device : Matched(q)'
<1> DEFINE snap == cycle[d].snap
           changes == Changes(store[d], snap)
<1>1. PICK bad \in SUBSET MayRefuse(changes) :
         /\ Judge(changes \ bad)
         /\ store' = [store EXCEPT ![d] = Refuse(store[d], snap, bad)]
         /\ IF changes = bad
            THEN StartPull(d, store[d])
            ELSE cycle' = [cycle EXCEPT ![d].stage = "results",
                                        ![d].answers = Answers(log, changes \ bad)]
  BY DEF PushAnswered
<1> DEFINE sent == changes \ bad
           n == Refuse(store[d], snap, bad)
<1>2. cycle[d] \in Cycles(clock) /\ epoch' = epoch /\ clock' = clock
  BY TypeOKByParts DEF MatchInv, AccountInv, PushAnswered
<1>3. log' = AcceptAll(log, sent)
  BY <1>1 DEF Judge
<1>4. snap \in Nat
  BY <1>2, TypeOKByParts DEF Cycles, MatchInv, AccountInv
<1>5. \E y : /\ cycle' = [cycle EXCEPT ![d] = y]
             /\ y.stage = "results" => y.snap = snap /\ y.answers = Answers(log, sent)
  <2>1. CASE changes = bad
    BY <1>1, <2>1, PullOpensNone
  <2>2. CASE changes # bad
    <3> DEFINE answers == Answers(log, sent)
               y == [cycle[d] EXCEPT !.stage = "results", !.answers = answers]
    <3>1. cycle' = [cycle EXCEPT ![d] = y]
      BY <1>1, <2>2
    <3> HIDE DEF answers
    <3>2. y.answers = answers /\ y.snap = snap
      BY <1>2 DEF Cycles
    <3> HIDE DEF y
    <3> QED
      BY <3>1, <3>2 DEF answers
  <2> QED
    BY <2>1, <2>2
<1>6. PICK y : /\ cycle' = [cycle EXCEPT ![d] = y]
               /\ y.stage = "results" => y.snap = snap /\ y.answers = Answers(log, sent)
  BY <1>5
<1>7. sent \in SUBSET (Changes(store[d], snap) \ bad)
  OBVIOUS
<1>8. bad \in SUBSET MayRefuse(Changes(store[d], snap))
  OBVIOUS
<1>9. store' = [store EXCEPT ![d] = n]
  BY <1>1
<1> QED
  BY <1>2, <1>3, <1>4, <1>6, <1>7, <1>8, <1>9, MatchedByRequest

\* A push that breaks.
LEMMA MatchedByBrokenPush ==
    ASSUME MatchInv, TypeOK', NEW d \in Device, PushBroken(d)
    PROVE  StampsApart' /\ \A q \in Device : Matched(q)'
<1> DEFINE snap == cycle[d].snap
           changes == Changes(store[d], snap)
<1>1. PICK bad \in SUBSET MayRefuse(changes) :
         /\ \E seen \in SUBSET (changes \ bad) :
               SentBefore(changes, seen) /\ Judge(seen)
         /\ store' = [store EXCEPT ![d] = Refuse(store[d], snap, bad)]
  BY DEF PushBroken
<1>2. PICK seen \in SUBSET (changes \ bad) : Judge(seen)
  BY <1>1
<1>3. log' = AcceptAll(log, seen) /\ epoch' = epoch /\ clock' = clock
  BY <1>2 DEF Judge, PushBroken
<1>4. PICK y : cycle' = [cycle EXCEPT ![d] = y] /\ y.stage # "results"
  BY GotoOpensNone DEF PushBroken
<1>5. snap \in Nat
  BY TypeOKByParts DEF Cycles, MatchInv, AccountInv
<1> QED
  BY <1>1, <1>2, <1>3, <1>4, <1>5, MatchedByRequest

\* The results of a push.
LEMMA MatchedByAnswers ==
    ASSUME MatchInv, TypeOK', NEW d \in Device, ApplyAnswers(d)
    PROVE  StampsApart' /\ \A q \in Device : Matched(q)'
<1> DEFINE s == store[d]
           answers == cycle[d].answers
           snap == cycle[d].snap
           n == ApplyResults(s, snap, answers)
<1>1. /\ clock \in Nat /\ s \in Stores(clock, epoch)
      /\ answers \in SUBSET Results(clock) /\ snap \in Nat
  BY TypeOKByParts DEF MatchInv, AccountInv, Cycles
<1>2. /\ store' = [store EXCEPT ![d] = n] /\ UNCHANGED <<log, epoch, clock>>
      /\ cycle[d].stage = "results"
  BY DEF ApplyAnswers
<1>3. PICK y : cycle' = [cycle EXCEPT ![d] = y] /\ y.stage # "results"
  BY PullOpensNone DEF ApplyAnswers
<1>4. /\ OneAnswerEach(answers)
      /\ s.epoch = epoch => \A a \in answers : Served(a.current, log)
  BY <1>2 DEF MatchInv, AccountInv, Placed, OnDevice, WithServer, Holds
<1>5. /\ LastsHeld(s, log)
      /\ s.epoch = epoch => /\ Versioned(s, log) /\ Clean(s, log) /\ ParksServed(s, log)
                            /\ AnswersFit(s, answers, snap)
  BY <1>2 DEF MatchInv, Matched, Matches
<1>6. Drained(s, n, AnsweredRows(answers), snap) /\ n.epoch = s.epoch /\ n.parked = s.parked
  BY <1>1, <1>4, ResultsTake
<1>7. Untouched(s, n)
  BY <1>1, StoreShape, ResultsUntouched
<1>8. s.epoch = epoch => Versioned(n, log) /\ Clean(n, log)
  BY <1>1, <1>4, <1>5, ResultsMatch
<1> HIDE DEF n, answers, snap
<1>9. LastsHeld(n, log)
  BY <1>1, <1>5, <1>6, <1>7, LastsStay
<1>10. n.oplog \subseteq s.oplog
  BY <1>6 DEF Drained
<1>11. s.epoch = epoch => ParksServed(n, log)
  BY <1>5, <1>6 DEF ParksServed
<1> QED
  BY <1>2, <1>3, <1>6, <1>8, <1>9, <1>10, <1>11, QuietMatches DEF s

\* A reset leaves a device based on nothing.
LEMMA ResetMatches ==
    ASSUME NEW c \in Nat, NEW e, NEW s \in Stores(c, e), NEW f, NEW l, LastsHeld(s, l),
           s.parked = {} \/ ParksServed(s, l)
    PROVE  LET n == Reset(s, f)
           IN  /\ Versioned(n, l) /\ Clean(n, l) /\ ParksServed(n, l) /\ LastsHeld(n, l)
               /\ n.oplog = s.oplog /\ n.parked = s.parked /\ n.epoch = f
<1> DEFINE n == Reset(s, f)
<1>1. /\ n.db = s.db /\ n.oplog = s.oplog /\ n.parked = s.parked /\ n.epoch = f
      /\ \A r \in Row : Unbased(n, r)
  BY ResetParts DEF Unbased
<1> HIDE DEF n
<1>2. Versioned(n, l) /\ Clean(n, l)
  BY <1>1 DEF Versioned, Clean
<1>3. ParksServed(n, l)
  BY <1>1 DEF ParksServed
<1>4. LastsHeld(n, l)
  BY <1>1, LastsOfSameOplog DEF Untouched
<1> QED
  BY <1>1, <1>2, <1>3, <1>4 DEF n

\* A log that goes back keeps the last edits: what it still holds it held.
LEMMA ShorterLasts ==
    ASSUME NEW c, NEW l \in Logs(c), NEW k \in 0..Len(l), NEW s, LastsHeld(s, l)
    PROVE  LastsHeld(s, [i \in 1..k |-> l[i]])
<1> DEFINE m == [i \in 1..k |-> l[i]]
<1>1. Len(l) \in Nat /\ DOMAIN l = 1..Len(l)
  BY LenProperties DEF Logs
<1>2. DOMAIN m = 1..k /\ \A i \in 1..k : m[i] = l[i] /\ i \in DOMAIN l
  BY <1>1
<1> HIDE DEF m
<1>3. LastsHeld(s, m)
  BY <1>2 DEF LastsHeld
<1> QED
  BY <1>3 DEF m

\* Every step that carries no parked row into a new epoch keeps the devices
\* matched.
LEMMA MatchStep == MatchInv /\ [Next]_vars /\ [NothingCarried]_vars => MatchInv'
<1> SUFFICES ASSUME MatchInv, [Next]_vars, [NothingCarried]_vars
             PROVE  StampsApart' /\ \A q \in Device : Matched(q)'
  BY AccountStep DEF MatchInv
<1>1. /\ TypeOK /\ TypeOK'
      /\ clock \in Nat /\ log \in Logs(clock) /\ epoch \in Nat \ {0}
      /\ \A d \in Device : store[d] \in Stores(clock, epoch) /\ cycle[d] \in Cycles(clock)
  <2>1. TypeOK /\ TypeOK'
    BY TypeStep DEF MatchInv, AccountInv
  <2>2. clock \in Nat /\ log \in Logs(clock) /\ epoch \in Nat \ {0}
    BY <2>1, TypeOKByParts
  <2>3. \A d \in Device : store[d] \in Stores(clock, epoch) /\ cycle[d] \in Cycles(clock)
    BY <2>1, TypeOKByParts
  <2> QED
    BY <2>1, <2>2, <2>3
<1>2. ASSUME NEW d \in Device
      PROVE  /\ cycle = [cycle EXCEPT ![d] = cycle[d]]
             /\ store = [store EXCEPT ![d] = store[d]]
             /\ ParksLive(store[d]) /\ LastsHeld(store[d], log)
             /\ store[d].epoch = epoch =>
                   /\ Versioned(store[d], log) /\ Clean(store[d], log)
                   /\ ParksServed(store[d], log)
  <2>1. cycle = [cycle EXCEPT ![d] = cycle[d]] /\ store = [store EXCEPT ![d] = store[d]]
    BY <1>1 DEF TypeOK
  <2>2. ParksLive(store[d])
    BY DEF MatchInv, AccountInv, Placed, OnDevice
  <2> QED
    BY <2>1, <2>2 DEF MatchInv, Matched, Matches
<1>3. ASSUME NEW d \in Device, NEW n, store' = [store EXCEPT ![d] = n], n.epoch = epoch
      PROVE  store[d].parked = {} \/ ParksServed(store[d], log)
  <2>1. store'[d] = n
    BY <1>1, <1>3 DEF TypeOK
  <2>2. CASE store[d].epoch = epoch
    BY <1>2, <2>2
  <2>3. CASE store[d].epoch # epoch
    <3>1. store'[d].epoch # store[d].epoch
      BY <1>3, <2>1, <2>3
    <3>2. NothingCarried
      BY <3>1 DEF vars
    <3> QED
      BY <3>1, <3>2 DEF NothingCarried
  <2> QED
    BY <2>2, <2>3
<1>4. ASSUME NEW d \in Device, NEW r \in Row, UserWrite(d, r) \/ UserDelete(d, r)
      PROVE  StampsApart' /\ \A q \in Device : Matched(q)'
  BY <1>1, <1>4, MatchedByEdit DEF UserWrite, UserDelete
<1>5. ASSUME NEW d \in Device, NEW f,
             store' = [store EXCEPT ![d] = Reset(store[d], f)],
             UNCHANGED <<log, epoch, clock, cycle>>, cycle[d].stage # "results"
      PROVE  StampsApart' /\ \A q \in Device : Matched(q)'
  <2> DEFINE s == store[d]
             n == Reset(s, f)
  <2>1. /\ LastsHeld(n, log)
        /\ n.oplog = s.oplog /\ n.epoch = f
    <3>1. n.db = s.db /\ n.oplog = s.oplog /\ n.epoch = f
      BY <1>1, ResetParts
    <3> HIDE DEF n
    <3> QED
      BY <1>1, <1>2, <3>1, LastsOfSameOplog DEF Untouched
  <2>2. ASSUME n.epoch = epoch
        PROVE  Versioned(n, log) /\ Clean(n, log) /\ ParksServed(n, log)
    <3>1. s.parked = {} \/ ParksServed(s, log)
      BY <1>3, <1>5, <2>2
    <3> QED
      BY <1>1, <1>2, <3>1, ResetMatches
  <2>3. cycle' = [cycle EXCEPT ![d] = cycle[d]]
    BY <1>2, <1>5
  <2>4. store' = [store EXCEPT ![d] = n] /\ n.oplog \subseteq store[d].oplog
    BY <1>5, <2>1
  <2> HIDE DEF n
  <2> QED
    BY <1>1, <1>5, <2>1, <2>2, <2>3, <2>4, QuietMatches
<1>6. ASSUME NEW d \in Device, FullResync(d) \/ PullReset(d)
      PROVE  StampsApart' /\ \A q \in Device : Matched(q)'
  BY <1>5, <1>6 DEF FullResync, PullReset
<1>7. ASSUME NEW d \in Device, NEW s, NEW final, s \in Stores(clock, epoch), ParksLive(s),
             LastsHeld(s, log), s.oplog \subseteq store[d].oplog,
             s.epoch = epoch =>
                 Versioned(s, log) /\ Clean(s, log) /\ ParksServed(s, log),
             store' = [store EXCEPT ![d] = RetryParked(s, final)],
             NEW y, cycle' = [cycle EXCEPT ![d] = y], y.stage # "results",
             UNCHANGED <<log, epoch, clock>>
      PROVE  StampsApart' /\ \A q \in Device : Matched(q)'
  <2> DEFINE n == RetryParked(s, final)
  <2>1. n.oplog = s.oplog /\ n.epoch = s.epoch
    BY <1>1, <1>7, RetryTakes DEF ParksLive
  <2>2. LastsHeld(n, log)
    BY <1>1, <1>7, RetryLasts
  <2>3. Versioned(s, log) /\ Clean(s, log) /\ ParksServed(s, log) =>
           Versioned(n, log) /\ Clean(n, log) /\ ParksServed(n, log)
    BY <1>1, <1>7, RetryMatches
  <2>4. store' = [store EXCEPT ![d] = n]
    BY <1>7
  <2> HIDE DEF n
  <2>5. /\ n.oplog \subseteq store[d].oplog
        /\ n.epoch = epoch => Versioned(n, log) /\ Clean(n, log) /\ ParksServed(n, log)
    BY <1>7, <2>1, <2>3
  <2> QED
    BY <1>1, <1>7, <2>2, <2>4, <2>5, QuietMatches
<1>8. ASSUME NEW d \in Device, Begin(d)
      PROVE  StampsApart' /\ \A q \in Device : Matched(q)'
  <2> DEFINE s == CheckEpoch(store[d])
             n == RetryParked(s, FALSE)
  <2>1. store' = [store EXCEPT ![d] = n] /\ UNCHANGED <<log, epoch, clock>>
    BY <1>8 DEF Begin
  <2>2. PICK y : cycle' = [cycle EXCEPT ![d] = y] /\ y.stage # "results"
    BY <1>8, GotoOpensNone DEF Begin
  <2>3. s \in Stores(clock, epoch) /\ ParksLive(s) /\ s.epoch = epoch
    BY <1>1, <1>2, ResetTyped, ResetAccounts, ResetParts DEF CheckEpoch
  <2>4. n.epoch = epoch
    BY <1>1, <2>3, RetryTakes DEF ParksLive
  <2>5. store[d].parked = {} \/ ParksServed(store[d], log)
    BY <1>3, <2>1, <2>4
  <2>6. /\ LastsHeld(s, log) /\ s.oplog = store[d].oplog
        /\ Versioned(s, log) /\ Clean(s, log) /\ ParksServed(s, log)
    BY <1>1, <1>2, <2>5, ResetMatches DEF CheckEpoch
  <2> HIDE DEF s
  <2> QED
    BY <1>7, <2>1, <2>2, <2>3, <2>6
<1>9. ASSUME NEW d \in Device, Retry(d)
      PROVE  StampsApart' /\ \A q \in Device : Matched(q)'
  <2> DEFINE st == IF cycle[d].more THEN "pull" ELSE "final"
             y == [cycle[d] EXCEPT !.stage = st]
  <2>1. cycle' = [cycle EXCEPT ![d] = y]
    BY <1>9 DEF Retry
  <2>2. y.stage # "results"
    BY <1>1 DEF Cycles
  <2>3. /\ store' = [store EXCEPT ![d] = RetryParked(store[d], FALSE)]
        /\ UNCHANGED <<log, epoch, clock>>
    BY <1>9 DEF Retry
  <2> HIDE DEF y
  <2> QED
    BY <1>1, <1>2, <1>7, <2>1, <2>2, <2>3
<1>10. ASSUME NEW d \in Device, FinalRetry(d)
       PROVE  StampsApart' /\ \A q \in Device : Matched(q)'
  <2>1. PICK y : cycle' = [cycle EXCEPT ![d] = y] /\ y.stage # "results"
    BY <1>10, GotoOpensNone DEF FinalRetry
  <2>2. /\ store' = [store EXCEPT ![d] = RetryParked(store[d], TRUE)]
        /\ UNCHANGED <<log, epoch, clock>>
    BY <1>10 DEF FinalRetry
  <2> QED
    BY <1>1, <1>2, <1>7, <2>1, <2>2
<1>11. ASSUME NEW d \in Device, PullPage(d)
       PROVE  StampsApart' /\ \A q \in Device : Matched(q)'
  <2> DEFINE s == store[d]
             W == Page(log, s.cursor, PageLimit)
             end == PageEnd(log, s.cursor, PageLimit)
             n == ApplyPage(s, W, end)
  <2>1. /\ store' = [store EXCEPT ![d] = n] /\ UNCHANGED <<log, epoch, clock>>
        /\ s.epoch = epoch /\ s.cursor <= Len(log)
    BY <1>11 DEF PullPage
  <2>2. Versioned(n, log) /\ Clean(n, log) /\ ParksServed(n, log) /\ LastsHeld(n, log)
    BY <1>1, <1>2, <2>1, PageMatches
  <2>3. n.oplog \subseteq store[d].oplog
    <3>1. s.cursor \in Nat /\ IsStore(s)
      BY <1>1, StoreParts, StoreShape
    <3>2. s \in Stores(clock, epoch) /\ clock \in Nat /\ log \in Logs(clock)
      BY <1>1
    <3>3. Distinct(W)
      BY <2>1, <3>1, <3>2, PageHolds
    <3>4. W \in SUBSET Versions(clock)
      BY <3>1, <3>2, PageTyped
    <3> HIDE DEF W, end
    <3> QED
      BY <3>2, <3>3, <3>4, PageTakes
  <2>4. PICK y : cycle' = [cycle EXCEPT ![d] = y] /\ y.stage # "results"
    <3>1. StartPull(d, n) \/ \E st : st # "results" /\ Goto(d, st)
      BY <1>11 DEF PullPage
    <3> HIDE DEF n
    <3> QED
      BY <3>1, PullOpensNone, GotoOpensNone
  <2> HIDE DEF n
  <2> QED
    BY <1>1, <2>1, <2>2, <2>3, <2>4, QuietMatches
<1>12. ASSUME NEW d \in Device, TakeSnapshot(d) \/ FailAnswers(d) \/ Stop(d)
       PROVE  StampsApart' /\ \A q \in Device : Matched(q)'
  <2>1. PICK y : cycle' = [cycle EXCEPT ![d] = y] /\ y.stage # "results"
    <3>1. CASE TakeSnapshot(d) /\ Snapshot(store[d]) = 0
      BY <3>1, PullOpensNone DEF TakeSnapshot
    <3>2. CASE TakeSnapshot(d) /\ Snapshot(store[d]) # 0
      <4>1. [At("push") EXCEPT !.snap = Snapshot(store[d])].stage # "results"
        BY DEF At
      <4> QED
        BY <3>2, <4>1 DEF TakeSnapshot
    <3>3. CASE FailAnswers(d) \/ Stop(d)
      BY <3>3, GotoOpensNone DEF FailAnswers, Stop
    <3> QED
      BY <1>12, <3>1, <3>2, <3>3
  <2>2. UNCHANGED <<log, epoch, clock, store>>
    BY <1>12 DEF TakeSnapshot, FailAnswers, Stop
  <2>3. store' = [store EXCEPT ![d] = store[d]]
    BY <1>2, <2>2
  <2> QED
    BY <1>1, <1>2, <2>1, <2>2, <2>3, QuietMatches
<1>13. CASE Restore
  <2>1. PICK k \in 0..Len(log) : log' = [i \in 1..k |-> log[i]]
    BY <1>13 DEF Restore
  <2>2. epoch' = epoch + 1 /\ UNCHANGED <<store, cycle>>
    BY <1>13 DEF Restore
  <2>3. ASSUME NEW q \in Device
        PROVE  store[q].epoch # epoch' /\ LastsHeld(store[q], log')
    <3>1. store[q].epoch # epoch'
      BY <1>1, <2>2, StoreParts
    <3> QED
      BY <1>1, <1>2, <2>1, <3>1, ShorterLasts
  <2> QED
    BY <2>2, <2>3 DEF MatchInv, Matched, StampsApart
<1>14. CASE UNCHANGED vars
  BY <1>14 DEF MatchInv, Matched, StampsApart, vars
<1>15. \A r \in Deletable : r \in Row
  BY BoundsAssumption
<1> QED
  BY <1>1, <1>4, <1>6, <1>8, <1>9, <1>10, <1>11, <1>12, <1>13, <1>14, <1>15,
     MatchedByPush, MatchedByBrokenPush, MatchedByAnswers
  DEF Next, Cycle, Fault

\* Every device starts without edits, versions or parked rows.
LEMMA MatchInit == Init => MatchInv
<1> SUFFICES ASSUME Init
             PROVE  StampsApart /\ \A d \in Device : Matched(d)
  BY AccountInit DEF MatchInv
<1>1. ASSUME NEW d \in Device
      PROVE  /\ store[d].oplog = {} /\ store[d].parked = {}
             /\ \A r \in Row : store[d].rv[r] = 0
             /\ cycle[d].stage # "results"
  BY DEF Init, EmptyStore, At
<1> QED
  BY <1>1 DEF StampsApart, Matched, LastsHeld, Matches, Versioned, Clean, ParksServed, Unbased

\* What the invariant says of the rows that are left clean.
LEMMA MatchedRows == MatchInv => CleanRowsMatchTheirVersion
<1> SUFFICES ASSUME MatchInv, NEW d \in Device, NEW r \in Row,
                    store[d].epoch = epoch, store[d].rv[r] # 0, ~Dirty(store[d], r)
             PROVE  /\ store[d].rv[r] \in DOMAIN log
                    /\ log[store[d].rv[r]].row = r
                    /\ Fits(store[d], log, r)
  BY DEF CleanRowsMatchTheirVersion, Fits
<1> QED
  BY DEF MatchInv, Matched, Matches, Versioned, Clean, Unbased

\* As long as no device takes up a new epoch with rows of the old one parked, a
\* row without pending edits is the server version its row_version names:
\* apply_push_results records an accepted version only for the content it was
\* accepted for, and a pull or a retry writes content and version together.  The
\* premise is about reset_for_reconciliation (pull.rs), which takes up the
\* restored server's epoch and keeps sync_pending_rows: a later retry writes the
\* parked row under a version number of the old log, which the restored server
\* may have given to something else or to nothing.
THEOREM CleanRowsMatch ==
    Spec /\ [][NothingCarried]_vars => []CleanRowsMatchTheirVersion
<1> QED
  BY MatchInit, MatchStep, MatchedRows, PTL DEF Spec

-----------------------------------------------------------------------------
(* Within an epoch a row's version only goes forward.                       *)

\* No row of store n is based on an older version than in store s.
Advances(s, n) == \A r \in Row : ~(n.rv[r] < s.rv[r])

\* A step under which a device of the server's epoch advances or is reset.
Forward ==
    \A d \in Device : store[d].epoch = epoch =>
        Advances(store[d], store'[d]) \/ \A r \in Row : store'[d].rv[r] = 0

\* Taking fresh versions over.
LEMMA TakingAdvances ==
    ASSUME NEW c, NEW e, NEW s \in Stores(c, e), NEW n,
           NEW ups, NEW tombs, TookOver(s, n, ups, tombs),
           \A w \in ups \cup tombs : w.seq \in Nat /\ Fresh(s, w)
    PROVE  Advances(s, n)
<1> SUFFICES ASSUME NEW r \in Row
             PROVE  ~(n.rv[r] < s.rv[r])
  BY DEF Advances
<1>1. s.rv[r] \in Nat /\ n.rv[r] \in Nat /\ n.rv[r] >= s.rv[r]
  BY NeverOlder
<1> QED
  BY <1>1

LEMMA PageAdvances ==
    ASSUME NEW c \in Nat, NEW e, NEW s \in Stores(c, e), NEW W \in SUBSET Versions(c),
           Distinct(W), NEW next, NEW n, n = ApplyPage(s, W, next)
    PROVE  Advances(s, n)
<1>1. TookOver(s, n, PageUps(s, W), PageTombs(s, W))
  BY PageTakes
<1>2. \A w \in PageUps(s, W) \cup PageTombs(s, W) : w.seq \in Nat /\ Fresh(s, w)
  BY DEF PageUps, PageTombs, Upserts, Versions
<1> QED
  BY <1>1, <1>2, TakingAdvances

LEMMA RetryAdvances ==
    ASSUME NEW c \in Nat, NEW e, NEW s \in Stores(c, e), Distinct(s.parked), NEW final,
           NEW n, n = RetryParked(s, final)
    PROVE  Advances(s, n)
<1>1. TookOver(s, n, Ready(s), {})
  BY RetryTakes
<1>2. \A w \in Ready(s) \cup {} : w.seq \in Nat /\ Fresh(s, w)
  BY StoreParts DEF Ready, Upserts, Versions
<1> QED
  BY <1>1, <1>2, TakingAdvances

\* The results of a push.
LEMMA ResultsAdvance ==
    ASSUME NEW c \in Nat, NEW e, NEW s \in Stores(c, e), NEW snap,
           NEW answers \in SUBSET Results(c), OneAnswerEach(answers),
           AnswersFit(s, answers, snap),
           NEW n, n = ApplyResults(s, snap, answers)
    PROVE  Advances(s, n)
<1> DEFINE ups == WinnerUps(s, snap, answers)
           tombs == WinnerTombs(s, snap, answers)
<1>1. Settles(s, n, ups, tombs, answers)
  BY ResultsTake
<1>2. \A w \in ups \cup tombs : \E a \in answers : w = a.current
  BY DEF WinnerUps, WinnerTombs, Winners
<1> HIDE DEF ups, tombs
<1>3. ASSUME NEW a \in answers
      PROVE  ~(a.current.seq < s.rv[a.current.row])
  <2>1. a.current.row \in Row /\ a.current.seq \in Nat
    BY DEF Results, Versions
  <2>2. s.rv[a.current.row] \in Nat
    BY <2>1, StoreParts
  <2> QED
    BY <2>1, <2>2 DEF AnswersFit
<1> SUFFICES ASSUME NEW r \in Row
             PROVE  ~(n.rv[r] < s.rv[r])
  BY DEF Advances
<1>4. CASE \E a \in answers : ~a.lost /\ a.current.row = r
  BY <1>1, <1>3, <1>4 DEF Settles
<1>5. CASE \E w \in ups \cup tombs : w.row = r
  <2>1. PICK w \in ups \cup tombs : w.row = r
    BY <1>5
  <2>2. n.rv[r] = w.seq
    BY <1>1, <2>1 DEF Settles
  <2> QED
    BY <1>2, <1>3, <2>1, <2>2
<1>6. CASE (\A a \in answers : ~a.lost => a.current.row # r)
              /\ (\A w \in ups \cup tombs : w.row # r)
  <2>1. n.rv[r] = s.rv[r] /\ s.rv[r] \in Nat
    BY <1>1, <1>6, StoreParts DEF Settles
  <2> QED
    BY <2>1
<1> QED
  BY <1>4, <1>5, <1>6

\* Every step from a matched state.
LEMMA ForwardStep == MatchInv /\ [Next]_vars => Forward
<1> SUFFICES ASSUME MatchInv, [Next]_vars
             PROVE  Forward
  OBVIOUS
<1>1. /\ TypeOK /\ clock \in Nat /\ log \in Logs(clock)
      /\ \A d \in Device : store[d] \in Stores(clock, epoch) /\ cycle[d] \in Cycles(clock)
  <2>1. TypeOK /\ clock \in Nat /\ log \in Logs(clock)
    BY TypeOKByParts DEF MatchInv, AccountInv
  <2>2. \A d \in Device : store[d] \in Stores(clock, epoch) /\ cycle[d] \in Cycles(clock)
    BY <2>1, TypeOKByParts
  <2> QED
    BY <2>1, <2>2
<1>2. \A d \in Device : Distinct(store[d].parked)
  BY DEF MatchInv, AccountInv, Placed, OnDevice, ParksLive
<1>3. ASSUME NEW s, NEW n, NEW e, s \in Stores(clock, e), n.rv = s.rv
      PROVE  Advances(s, n)
  BY <1>3, StoreParts DEF Advances
<1>4. ASSUME NEW d \in Device, NEW n, store' = [store EXCEPT ![d] = n],
             store[d].epoch = epoch => Advances(store[d], n) \/ \A r \in Row : n.rv[r] = 0
      PROVE  Forward
  <2>1. store'[d] = n
    BY <1>1, <1>4 DEF TypeOK
  <2>2. \A q \in Device : q # d => store'[q] = store[q]
    BY <1>1, <1>4, OthersStay
  <2>3. \A q \in Device : q # d => Advances(store[q], store'[q])
    BY <1>1, <1>3, <2>2
  <2> QED
    BY <1>4, <2>1, <2>3 DEF Forward
<1>5. ASSUME NEW d \in Device, NEW r \in Row, UserWrite(d, r) \/ UserDelete(d, r)
      PROVE  Forward
  <2>1. /\ Advances(store[d], Write(store[d], r, clock + 1))
        /\ Advances(store[d], Erase(store[d], r, clock + 1))
    BY <1>1, <1>3, WriteParts, EraseParts
  <2>2. \/ store' = [store EXCEPT ![d] = Write(store[d], r, clock + 1)]
        \/ store' = [store EXCEPT ![d] = Erase(store[d], r, clock + 1)]
    BY <1>5 DEF UserWrite, UserDelete
  <2> QED
    BY <1>4, <2>1, <2>2
<1>6. ASSUME NEW d \in Device, FullResync(d) \/ PullReset(d)
      PROVE  Forward
  <2>1. PICK f : store' = [store EXCEPT ![d] = Reset(store[d], f)]
    BY <1>6 DEF FullResync, PullReset
  <2>2. \A r \in Row : Reset(store[d], f).rv[r] = 0
    BY <1>1, ResetParts
  <2> QED
    BY <1>4, <2>1, <2>2
<1>7. ASSUME NEW d \in Device, Begin(d) \/ Retry(d) \/ FinalRetry(d)
      PROVE  Forward
  <2>1. store[d].epoch = epoch => CheckEpoch(store[d]) = store[d]
    BY DEF CheckEpoch
  <2>2. \A final : Advances(store[d], RetryParked(store[d], final))
    BY <1>1, <1>2, RetryAdvances
  <2>3. CASE Begin(d)
    <3>1. store' = [store EXCEPT ![d] = RetryParked(CheckEpoch(store[d]), FALSE)]
      BY <2>3 DEF Begin
    <3>2. store[d].epoch = epoch => Advances(store[d], RetryParked(CheckEpoch(store[d]), FALSE))
      BY <2>1, <2>2
    <3> QED
      BY <1>4, <3>1, <3>2
  <2>4. CASE Retry(d) \/ FinalRetry(d)
    <3>1. \/ store' = [store EXCEPT ![d] = RetryParked(store[d], FALSE)]
          \/ store' = [store EXCEPT ![d] = RetryParked(store[d], TRUE)]
      BY <2>4 DEF Retry, FinalRetry
    <3> QED
      BY <1>4, <2>2, <3>1
  <2> QED
    BY <1>7, <2>3, <2>4
<1>8. ASSUME NEW d \in Device, PullPage(d)
      PROVE  Forward
  <2> DEFINE s == store[d]
             W == Page(log, s.cursor, PageLimit)
             end == PageEnd(log, s.cursor, PageLimit)
  <2>1. store' = [store EXCEPT ![d] = ApplyPage(s, W, end)] /\ s.cursor <= Len(log)
    BY <1>8 DEF PullPage
  <2>2. s \in Stores(clock, epoch) /\ s.cursor \in Nat
    BY <1>1, StoreParts
  <2>3. W \in SUBSET Versions(clock)
    BY <1>1, <2>2, PageTyped
  <2>4. Distinct(W)
    BY <1>1, <2>1, <2>2, PageHolds
  <2> HIDE DEF W, end
  <2>5. Advances(s, ApplyPage(s, W, end))
    BY <1>1, <2>2, <2>3, <2>4, PageAdvances
  <2> QED
    BY <1>4, <2>1, <2>5
<1>9. ASSUME NEW d \in Device, PushAnswered(d) \/ PushBroken(d)
      PROVE  Forward
  <2> DEFINE snap == cycle[d].snap
             changes == Changes(store[d], snap)
  <2>1. PICK bad \in SUBSET changes : store' = [store EXCEPT ![d] = Refuse(store[d], snap, bad)]
    BY <1>9 DEF PushAnswered, PushBroken, MayRefuse
  <2>2. Refuse(store[d], snap, bad).rv = store[d].rv
    BY <1>1, RefuseParts
  <2>3. Advances(store[d], Refuse(store[d], snap, bad))
    BY <1>1, <1>3, <2>2
  <2> QED
    BY <1>4, <2>1, <2>3
<1>10. ASSUME NEW d \in Device, ApplyAnswers(d)
       PROVE  Forward
  <2> DEFINE s == store[d]
             answers == cycle[d].answers
             snap == cycle[d].snap
  <2>1. store' = [store EXCEPT ![d] = ApplyResults(s, snap, answers)] /\ cycle[d].stage = "results"
    BY <1>10 DEF ApplyAnswers
  <2>2. s \in Stores(clock, epoch) /\ answers \in SUBSET Results(clock) /\ clock \in Nat
    BY <1>1 DEF Cycles
  <2>3. OneAnswerEach(answers) /\ (s.epoch = epoch => AnswersFit(s, answers, snap))
    BY <2>1 DEF MatchInv, AccountInv, Placed, OnDevice, Matched, Matches
  <2> HIDE DEF answers, snap
  <2>4. s.epoch = epoch => Advances(s, ApplyResults(s, snap, answers))
    BY <2>2, <2>3, ResultsAdvance
  <2> QED
    BY <1>4, <2>1, <2>4
<1>11. CASE UNCHANGED store
  BY <1>1, <1>3, <1>11 DEF Forward
<1>12. \A r \in Deletable : r \in Row
  BY BoundsAssumption
<1> QED
  BY <1>5, <1>6, <1>7, <1>8, <1>9, <1>10, <1>11, <1>12
  DEF Next, Cycle, Fault, TakeSnapshot, FailAnswers, Stop, Restore, vars

\* As long as no device takes up a new epoch with rows of the old one parked,
\* nothing but a reset takes a row back to an older version, or to none: not the
\* page that passes a version the push has just recorded, not a row that waited
\* in the parking while the device moved on (apply_row's known_version), not an
\* answer that was replayed (apply_push_results).
THEOREM VersionsAdvance ==
    Spec /\ [][NothingCarried]_vars => VersionsOnlyAdvance
<1>1. MatchInv /\ [Next]_vars =>
         [\A d \in Device, r \in Row :
             store[d].epoch = epoch /\ store'[d].rv[r] < store[d].rv[r] =>
                \A q \in Row : store'[d].rv[q] = 0]_vars
  BY ForwardStep DEF Forward, Advances
<1> QED
  BY MatchInit, MatchStep, <1>1, PTL DEF Spec, VersionsOnlyAdvance

-----------------------------------------------------------------------------
(* Where the premise holds.                                                 *)

\* The server is never restored, or no row has a parent to wait for.
Unparked == MaxEpoch = 1 \/ \A r \in Row : Parent[r] = NoRow

ParksNothing ==
    /\ TypeOK
    /\ MaxEpoch = 1 => epoch = 1
    /\ (\A r \in Row : Parent[r] = NoRow) => \A d \in Device : store[d].parked = {}

\* Without parents no page holds an orphan.
LEMMA NoOrphans ==
    ASSUME \A r \in Row : Parent[r] = NoRow, NEW c, NEW s, NEW W \in SUBSET Versions(c)
    PROVE  Orphans(s, W) = {}
<1>1. \A w \in W : w.row \in Row
  BY DEF Versions
<1>2. \A r \in Row : Ancestors[r] = {}
  BY TreeAssumption
<1> QED
  BY <1>1, <1>2 DEF Orphans, Upserts

\* And nothing is ever parked.
LEMMA ParksStayEmpty ==
    ASSUME TypeOK, [Next]_vars, \A r \in Row : Parent[r] = NoRow,
           \A d \in Device : store[d].parked = {}
    PROVE  \A d \in Device : store'[d].parked = {}
<1>1. /\ clock \in Nat /\ log \in Logs(clock) /\ epoch \in Nat \ {0}
      /\ \A d \in Device : store[d] \in Stores(clock, epoch)
  <2>1. clock \in Nat /\ log \in Logs(clock) /\ epoch \in Nat \ {0}
    BY TypeOKByParts
  <2>2. \A d \in Device : store[d] \in Stores(clock, epoch)
    BY TypeOKByParts
  <2> QED
    BY <2>1, <2>2
<1>2. ASSUME NEW d \in Device, NEW n, store' = [store EXCEPT ![d] = n], n.parked = {}
      PROVE  \A q \in Device : store'[q].parked = {}
  <2>1. store'[d] = n
    BY <1>2 DEF TypeOK
  <2>2. \A q \in Device : q # d => store'[q] = store[q]
    BY <1>2, OthersStay
  <2> QED
    BY <1>2, <2>1, <2>2
<1>3. ASSUME NEW d \in Device, NEW r \in Row, UserWrite(d, r) \/ UserDelete(d, r)
      PROVE  \A q \in Device : store'[q].parked = {}
  <2>1. /\ Write(store[d], r, clock + 1).parked = {}
        /\ Erase(store[d], r, clock + 1).parked = {}
    BY <1>1, WriteParts, EraseParts
  <2>2. \/ store' = [store EXCEPT ![d] = Write(store[d], r, clock + 1)]
        \/ store' = [store EXCEPT ![d] = Erase(store[d], r, clock + 1)]
    BY <1>3 DEF UserWrite, UserDelete
  <2> QED
    BY <1>2, <2>1, <2>2
<1>4. ASSUME NEW d \in Device, FullResync(d) \/ PullReset(d)
      PROVE  \A q \in Device : store'[q].parked = {}
  <2>1. \A f : Reset(store[d], f).parked = {}
    BY <1>1, ResetParts
  <2>2. PICK f : store' = [store EXCEPT ![d] = Reset(store[d], f)]
    BY <1>4 DEF FullResync, PullReset
  <2> QED
    BY <1>2, <2>1, <2>2
<1>5. ASSUME NEW s, s \in Stores(clock, epoch), s.parked = {}, NEW final
      PROVE  RetryParked(s, final).parked = {}
  <2>1. Distinct(s.parked) /\ Stuck(s) = {}
    BY <1>5 DEF Distinct, Stuck, Upserts
  <2>2. RetryParked(s, final).parked \subseteq Stuck(s)
    BY <1>1, <1>5, <2>1, RetryTakes
  <2> QED
    BY <2>1, <2>2
<1>6. ASSUME NEW d \in Device, Begin(d) \/ Retry(d) \/ FinalRetry(d)
      PROVE  \A q \in Device : store'[q].parked = {}
  <2>1. CheckEpoch(store[d]) \in Stores(clock, epoch) /\ CheckEpoch(store[d]).parked = {}
    BY <1>1, ResetTyped, ResetParts DEF CheckEpoch
  <2>2. PICK s \in Stores(clock, epoch), final \in BOOLEAN :
           s.parked = {} /\ store' = [store EXCEPT ![d] = RetryParked(s, final)]
    BY <1>1, <1>6, <2>1 DEF Begin, Retry, FinalRetry
  <2>3. RetryParked(s, final).parked = {}
    BY <1>5, <2>2
  <2> QED
    BY <1>2, <2>2, <2>3
<1>7. ASSUME NEW d \in Device, PullPage(d)
      PROVE  \A q \in Device : store'[q].parked = {}
  <2> DEFINE s == store[d]
             W == Page(log, s.cursor, PageLimit)
             end == PageEnd(log, s.cursor, PageLimit)
             n == ApplyPage(s, W, end)
  <2>1. store' = [store EXCEPT ![d] = n] /\ s.cursor <= Len(log)
    BY <1>7 DEF PullPage
  <2>2. s \in Stores(clock, epoch) /\ s.cursor \in Nat
    BY <1>1, StoreParts
  <2>3. W \in SUBSET Versions(clock)
    BY <1>1, <2>2, PageTyped
  <2>4. Distinct(W)
    BY <1>1, <2>1, <2>2, PageHolds
  <2> HIDE DEF W, end
  <2>5. n.parked = Park(s.parked, Orphans(s, W))
    BY <1>1, <2>2, <2>3, <2>4, PageTakes
  <2>6. n.parked = {}
    BY <2>3, <2>5, NoOrphans DEF Park
  <2> QED
    BY <1>2, <2>1, <2>6
<1>8. ASSUME NEW d \in Device, PushAnswered(d) \/ PushBroken(d)
      PROVE  \A q \in Device : store'[q].parked = {}
  <2> DEFINE snap == cycle[d].snap
             changes == Changes(store[d], snap)
  <2>1. PICK bad \in SUBSET changes : store' = [store EXCEPT ![d] = Refuse(store[d], snap, bad)]
    BY <1>8 DEF PushAnswered, PushBroken, MayRefuse
  <2>2. Refuse(store[d], snap, bad).parked = {}
    BY <1>1, RefuseParts
  <2> QED
    BY <1>2, <2>1, <2>2
<1>9. ASSUME NEW d \in Device, ApplyAnswers(d)
      PROVE  \A q \in Device : store'[q].parked = {}
  <2> DEFINE n == ApplyResults(store[d], cycle[d].snap, cycle[d].answers)
  <2>1. n.parked = store[d].parked
    BY DEF ApplyResults, Install
  <2>2. store' = [store EXCEPT ![d] = n]
    BY <1>9 DEF ApplyAnswers
  <2> HIDE DEF n
  <2> QED
    BY <1>2, <2>1, <2>2
<1>10. ASSUME UNCHANGED store
       PROVE  \A q \in Device : store'[q].parked = {}
  BY <1>10
<1>11. \A r \in Deletable : r \in Row
  BY BoundsAssumption
<1> QED
  BY <1>3, <1>4, <1>6, <1>7, <1>8, <1>9, <1>10, <1>11
  DEF Next, Cycle, Fault, TakeSnapshot, FailAnswers, Stop, Restore, vars

LEMMA ParksNothingInit == Init => ParksNothing
<1> SUFFICES ASSUME Init
             PROVE  ParksNothing
  OBVIOUS
<1>1. epoch = 1 /\ \A d \in Device : store[d].parked = {}
  BY DEF Init, EmptyStore
<1> QED
  BY <1>1, TypeInit DEF ParksNothing

LEMMA ParksNothingStep == ParksNothing /\ [Next]_vars => ParksNothing'
<1> SUFFICES ASSUME ParksNothing, [Next]_vars
             PROVE  ParksNothing'
  OBVIOUS
<1>1. TypeOK /\ TypeOK'
  BY TypeStep DEF ParksNothing
<1>2. MaxEpoch = 1 => epoch' = 1
  <2>1. CASE Restore
    BY <2>1 DEF ParksNothing, Restore
  <2>2. CASE ~Restore
    BY <2>2 DEF ParksNothing, Next, Cycle, Fault, FullResync, UserWrite, UserDelete, Begin,
                TakeSnapshot, PushAnswered, PushBroken, ApplyAnswers, FailAnswers, Retry,
                PullReset, PullPage, FinalRetry, Stop, vars
  <2> QED
    BY <2>1, <2>2
<1>3. (\A r \in Row : Parent[r] = NoRow) => \A d \in Device : store'[d].parked = {}
  BY ParksStayEmpty DEF ParksNothing
<1> QED
  BY <1>1, <1>2, <1>3 DEF ParksNothing

\* A device that stays in the only epoch, or has nothing parked, carries nothing.
LEMMA NothingToCarry ==
    ASSUME Unparked
    PROVE  ParksNothing /\ ParksNothing' => NothingCarried
<1> SUFFICES ASSUME ParksNothing, ParksNothing', NEW d \in Device
             PROVE  store'[d].epoch # store[d].epoch => store[d].parked = {}
  BY DEF NothingCarried
<1>1. CASE MaxEpoch = 1
  <2>1. epoch = 1 /\ epoch' = 1
    BY <1>1 DEF ParksNothing
  <2>2. store[d].epoch \in 1..epoch /\ store'[d].epoch \in 1..epoch'
    BY DEF ParksNothing, TypeOK, StoreType
  <2>3. store'[d].epoch = store[d].epoch
    BY <2>1, <2>2
  <2> QED
    BY <2>3
<1>2. CASE \A r \in Row : Parent[r] = NoRow
  BY <1>2 DEF ParksNothing
<1> QED
  BY <1>1, <1>2 DEF Unparked

LEMMA NothingEverCarried ==
    ASSUME Unparked
    PROVE  Spec => [][NothingCarried]_vars
<1>1. ParksNothing /\ ParksNothing' => [NothingCarried]_vars
  BY NothingToCarry
<1> QED
  BY ParksNothingInit, ParksNothingStep, <1>1, PTL DEF Spec

\* With a server that is never restored, or rows without parents, a row without
\* pending edits is the version it names, with no premise on the steps: the
\* settings of the runs.
THEOREM UnparkedRowsMatch ==
    ASSUME Unparked
    PROVE  Spec => []CleanRowsMatchTheirVersion
<1> QED
  BY NothingEverCarried, CleanRowsMatch, PTL

\* And a row's version only goes forward.
THEOREM UnparkedVersionsAdvance ==
    ASSUME Unparked
    PROVE  Spec => VersionsOnlyAdvance
<1> QED
  BY NothingEverCarried, VersionsAdvance, PTL
=============================================================================
