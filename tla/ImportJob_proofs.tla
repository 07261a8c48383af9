-------------------------- MODULE ImportJob_proofs --------------------------
(***************************************************************************)
(* Proofs about ImportJob, for every set of jobs and documents, whichever  *)
(* jobs share a document, and whatever may go wrong.                       *)
(***************************************************************************)
EXTENDS ImportJob, NaturalsInduction, WellFoundedInduction, TLAPS

FileRow == [state : FileState, staged : BOOLEAN]
FileTyped ==
    /\ DOMAIN file = Job
    /\ \A j \in Job : file[j] \in [Files[j] -> FileRow]
JobTyped == job \in [Job -> JobState]
ItemTyped == item \in [Item -> [doc : Maybe(Doc), whole : BOOLEAN]]
RunType == [job : Maybe(Job), at : RunStage, doc : Maybe(Doc), cancel : BOOLEAN]
UiType == [job : Maybe(Job), at : UiStage, list : SUBSET Doc, doc : Maybe(Doc),
           item : Item \cup {NoItem}, fresh : BOOLEAN, tried : SUBSET Doc, cancel : BOOLEAN]
RecType == [listed : BOOLEAN, left : SUBSET (Job \X Doc \X (Item \cup {NoItem}))]

\* The same file, in the same state.
Same(j, d) == file'[j][d] = file[j][d]

-----------------------------------------------------------------------------
(* What the moves of job.json do.                                          *)

LEMMA FilesAreDocs == \A j \in Job : Files[j] \subseteq Doc
  BY ImportAssumption

LEMMA MovedEffect ==
    ASSUME FileTyped, NEW j \in Job, NEW d \in Files[j], NEW state \in FileState,
           NEW staged \in BOOLEAN, Moved(j, d, state, staged)
    PROVE  /\ FileTyped'
           /\ file'[j][d] = [state |-> state, staged |-> staged]
           /\ \A k \in Job : \A e \in Files[k] : k # j \/ e # d => Same(k, e)
<1>1. [state |-> state, staged |-> staged] \in FileRow
  BY DEF FileRow
<1>2. /\ file' = [file EXCEPT ![j] = [file[j] EXCEPT ![d] = [state |-> state, staged |-> staged]]]
      /\ file[j] \in [Files[j] -> FileRow]
  BY DEF Moved, FileTyped
<1>3. [file[j] EXCEPT ![d] = [state |-> state, staged |-> staged]] \in [Files[j] -> FileRow]
  BY <1>1, <1>2
<1>4. FileTyped'
  BY <1>2, <1>3 DEF FileTyped
<1> QED
  BY <1>2, <1>4 DEF FileTyped, Same

LEMMA CancelledEffect ==
    ASSUME FileTyped, NEW j \in Job
    PROVE  /\ CancelledFiles(job[j], file[j]) \in [Files[j] -> FileRow]
           /\ \A e \in Files[j] :
                \/ CancelledFiles(job[j], file[j])[e] = file[j][e]
                \/ /\ file[j][e].state \in {"queued", "verified"}
                   /\ Cancellable(job[j])
                   /\ CancelledFiles(job[j], file[j])[e] = [state |-> "cancelled", staged |-> FALSE]
<1>1. file[j] \in [Files[j] -> FileRow]
  BY DEF FileTyped
<1>2. [state |-> "cancelled", staged |-> FALSE] \in FileRow
  BY DEF FileRow, FileState, Done
<1> QED
  BY <1>1, <1>2 DEF CancelledFiles

\* A job that was cancelled is, or will be when its files have ended.
LEMMA FinishedTyped ==
    ASSUME NEW state \in JobState, NEW files
    PROVE  /\ Finished(Requested(state), files) \in JobState
           /\ Settled(state, files) \in JobState
           /\ state # "none" => Finished(Requested(state), files) \in Terminal \cup {"cancelling"}
  BY DEF Finished, Requested, Settled, JobState, Terminal

LEMMA CancelEffect ==
    ASSUME FileTyped, JobTyped, NEW j \in Job, Cancel(j)
    PROVE  /\ FileTyped' /\ JobTyped'
           /\ \A k \in Job : k # j => job'[k] = job[k]
           /\ job[j] # "none" => job'[j] \in Terminal \cup {"cancelling"}
           /\ \A k \in Job : \A e \in Files[k] :
                \/ Same(k, e)
                \/ /\ k = j /\ file[k][e].state \in {"queued", "verified"}
                   /\ Cancellable(job[j])
                   /\ file'[k][e] = [state |-> "cancelled", staged |-> FALSE]
<1>1. /\ file' = [file EXCEPT ![j] = CancelledFiles(job[j], file[j])]
      /\ job' = [job EXCEPT ![j] = Finished(Requested(job[j]), file'[j])]
  BY DEF Cancel
<1>2. FileTyped'
  BY <1>1, CancelledEffect DEF FileTyped
<1>3. job[j] \in JobState
  BY DEF JobTyped
<1>4. /\ Finished(Requested(job[j]), file'[j]) \in JobState
      /\ job[j] # "none" => Finished(Requested(job[j]), file'[j]) \in Terminal \cup {"cancelling"}
  BY <1>3, FinishedTyped
<1>5. JobTyped' /\ job'[j] = Finished(Requested(job[j]), file'[j])
  BY <1>1, <1>4 DEF JobTyped
<1>6. \A k \in Job : k # j => job'[k] = job[k]
  BY <1>1 DEF JobTyped
<1>7. file'[j] = CancelledFiles(job[j], file[j])
  BY <1>1 DEF FileTyped
<1>8. \A k \in Job : k # j => file'[k] = file[k]
  BY <1>1 DEF FileTyped
<1>9. \A k \in Job : \A e \in Files[k] :
        \/ Same(k, e)
        \/ /\ k = j /\ file[k][e].state \in {"queued", "verified"}
           /\ Cancellable(job[j])
           /\ file'[k][e] = [state |-> "cancelled", staged |-> FALSE]
  BY <1>7, <1>8, CancelledEffect DEF Same
<1> QED
  BY <1>2, <1>4, <1>5, <1>6, <1>9

LEMMA InterruptedEffect ==
    ASSUME FileTyped, JobTyped, NEW j \in Job, NEW d \in Files[j], Interrupted(j, d)
    PROVE  /\ FileTyped' /\ JobTyped'
           /\ \A k \in Job : k # j => job'[k] = job[k]
           /\ job[j] # "none" => job'[j] \in Terminal \cup {"cancelling"}
           /\ file'[j][d] = [state |-> "cancelled", staged |-> FALSE]
           /\ \A k \in Job : \A e \in Files[k] :
                k # j \/ e # d =>
                  \/ Same(k, e)
                  \/ /\ k = j /\ file[k][e].state \in {"queued", "verified"}
                     /\ Cancellable(job[j])
                     /\ file'[k][e] = [state |-> "cancelled", staged |-> FALSE]
<1> DEFINE row == [state |-> "cancelled", staged |-> FALSE]
           files == CancelledFiles(job[j], file[j])
<1>1. /\ file' = [file EXCEPT ![j] = [files EXCEPT ![d] = row]]
      /\ job' = [job EXCEPT ![j] = Finished(Requested(job[j]), file'[j])]
  BY DEF Interrupted
<1>2. row \in FileRow
  BY DEF FileRow, FileState, Done
<1>3. /\ files \in [Files[j] -> FileRow]
      /\ \A e \in Files[j] :
           \/ files[e] = file[j][e]
           \/ /\ file[j][e].state \in {"queued", "verified"}
              /\ Cancellable(job[j])
              /\ files[e] = row
  BY CancelledEffect
<1> HIDE DEF files, row
<1>4. /\ [files EXCEPT ![d] = row] \in [Files[j] -> FileRow]
      /\ [files EXCEPT ![d] = row][d] = row
      /\ \A e \in Files[j] : e # d => [files EXCEPT ![d] = row][e] = files[e]
  BY <1>2, <1>3
<1>5. file'[j] = [files EXCEPT ![d] = row] /\ \A k \in Job : k # j => file'[k] = file[k]
  BY <1>1 DEF FileTyped
<1>6. FileTyped'
  BY <1>1, <1>4, <1>5 DEF FileTyped
<1>7. job[j] \in JobState
  BY DEF JobTyped
<1>8. /\ Finished(Requested(job[j]), file'[j]) \in JobState
      /\ job[j] # "none" => Finished(Requested(job[j]), file'[j]) \in Terminal \cup {"cancelling"}
  BY <1>7, FinishedTyped
<1>9. /\ JobTyped' /\ job'[j] = Finished(Requested(job[j]), file'[j])
      /\ \A k \in Job : k # j => job'[k] = job[k]
  BY <1>1, <1>8 DEF JobTyped
<1>10. ASSUME NEW k \in Job, NEW e \in Files[k], k # j \/ e # d
       PROVE  \/ Same(k, e)
              \/ /\ k = j /\ file[k][e].state \in {"queued", "verified"}
                 /\ Cancellable(job[j])
                 /\ file'[k][e] = row
  <2>1. CASE k # j
    BY <1>5, <2>1 DEF Same
  <2>2. CASE k = j
    <3>1. e \in Files[j] /\ e # d
      BY <1>10, <2>2
    <3>2. file'[j][e] = files[e]
      BY <1>4, <1>5, <3>1
    <3> QED
      BY <1>3, <2>2, <3>1, <3>2 DEF Same
  <2> QED
    BY <2>1, <2>2
<1>11. file'[j][d] = row
  BY <1>4, <1>5
<1>12. job[j] # "none" => job'[j] \in Terminal \cup {"cancelling"}
  BY <1>8, <1>9
<1> QED
  BY <1>6, <1>9, <1>10, <1>12, <1>11, Zenon DEF row

\* The end of a file and of its job.
LEMMA EndsEffect ==
    ASSUME FileTyped, JobTyped, NEW j \in Job, NEW d \in Files[j], NEW state \in FileState,
           Ends(j, d, state)
    PROVE  /\ FileTyped' /\ JobTyped'
           /\ file'[j][d] = [state |-> state, staged |-> FALSE]
           /\ \A k \in Job : \A e \in Files[k] : k # j \/ e # d => Same(k, e)
           /\ \A k \in Job : job'[k] = job[k] \/ job'[k] \in Terminal
<1>1. Moved(j, d, state, FALSE) /\ job' = [job EXCEPT ![j] = Settled(job[j], file'[j])]
  BY DEF Ends
<1>2. job[j] \in JobState /\ Settled(job[j], file'[j]) \in JobState
  BY FinishedTyped DEF JobTyped
<1>3. Settled(job[j], file'[j]) = job[j] \/ Settled(job[j], file'[j]) \in Terminal
  BY DEF Settled, Terminal
<1>4. JobTyped' /\ \A k \in Job : job'[k] = job[k] \/ job'[k] \in Terminal
  BY <1>1, <1>2, <1>3 DEF JobTyped
<1>5. FALSE \in BOOLEAN
  OBVIOUS
<1>6. /\ FileTyped'
      /\ file'[j][d] = [state |-> state, staged |-> FALSE]
      /\ \A k \in Job : \A e \in Files[k] : k # j \/ e # d => Same(k, e)
  BY <1>1, <1>5, MovedEffect
<1> QED
  BY <1>1, <1>4, <1>6

-----------------------------------------------------------------------------
(* What each sort of step leaves alone.                                    *)

LEMMA UserLeaves == ASSUME User PROVE UNCHANGED <<item, rec, up>>
  BY DEF User, Prepare, DiscardDraft, Start, CancelImport

LEMMA RunnerLeaves == ASSUME Runner PROVE UNCHANGED <<item, ui, rec, up>>
<1>1. ASSUME NEW j \in Job, Select(j) \/ Look(j) \/ Between(j) \/ SettleRun(j) \/ End(j)
      PROVE  UNCHANGED <<item, ui, rec, up>>
  BY <1>1 DEF Select, Look, Between, SettleRun, End
<1>2. ASSUME NEW j \in Job, NEW d \in Files[j],
             \/ Take(j, d) \/ Stream(j, d) \/ Fetched(j, d) \/ FetchFails(j, d)
             \/ Interrupted(j, d) \/ Passed(j, d) \/ Verify(j, d) \/ Verified(j, d)
      PROVE  UNCHANGED <<item, ui, rec, up>>
  BY <1>2 DEF Take, Stream, Fetched, FetchFails, Interrupted, Passed, Verify, Verified
<1> QED
  BY <1>1, <1>2 DEF Runner

\* The steps of the importer that touch the collection.
Collects(j, d) ==
    DiscardRemnant(j, d) \/ CreateItem(j, d) \/ RecordFiles(j, d) \/ ImportFails(j, d) \/ Drop(j, d)

LEMMA ImporterLeaves ==
    ASSUME Importer
    PROVE  /\ UNCHANGED <<run, rec, up>>
           /\ UNCHANGED item \/ \E j \in Job : \E d \in Files[j] : Collects(j, d)
<1> DEFINE goal == /\ UNCHANGED <<run, rec, up>>
                   /\ UNCHANGED item \/ \E k \in Job : \E e \in Files[k] : Collects(k, e)
<1>1. ASSUME NEW j \in Job, ListVerified(j) \/ ListDone(j) \/ CloseDialog(j)
      PROVE  goal
  BY <1>1 DEF ListVerified, ListDone, CloseDialog
<1>2. ASSUME NEW j \in Job, NEW d \in Files[j],
             \/ Begin(j, d) \/ BeginAgain(j, d) \/ Importing(j, d) \/ Report(j, d)
             \/ Validate(j, d) \/ Accept(j, d) \/ Refuse(j, d)
      PROVE  goal
  BY <1>2 DEF Begin, BeginAgain, Importing, Report, Validate, Accept, Refuse
<1>3. ASSUME NEW j \in Job, NEW d \in Files[j], Collects(j, d)
      PROVE  goal
  <2>1. UNCHANGED <<run, rec, up>>
    BY <1>3 DEF Collects, DiscardRemnant, CreateItem, RecordFiles, ImportFails, Drop
  <2> QED
    BY <1>3, <2>1
<1>4. PICK j \in Job :
         \/ ListVerified(j) \/ ListDone(j) \/ CloseDialog(j)
         \/ \E d \in Files[j] :
              \/ Begin(j, d) \/ BeginAgain(j, d) \/ Importing(j, d) \/ Report(j, d)
              \/ Validate(j, d) \/ Accept(j, d) \/ Refuse(j, d) \/ Collects(j, d)
  BY DEF Importer, Collects
<1> HIDE DEF goal
<1>5. goal
  BY <1>1, <1>2, <1>3, <1>4
<1> QED
  BY <1>5 DEF goal

\* The steps of the importer that move a file.
LEMMA ImporterFiles ==
    ASSUME Importer
    PROVE  \/ UNCHANGED file
           \/ \E j \in Job : \E d \in Files[j] :
                 Importing(j, d) \/ Refuse(j, d) \/ Report(j, d) \/ Accept(j, d)
<1>1. ASSUME NEW j \in Job, ListVerified(j) \/ ListDone(j) \/ CloseDialog(j)
      PROVE  UNCHANGED file
  BY <1>1 DEF ListVerified, ListDone, CloseDialog, manifest
<1>2. ASSUME NEW j \in Job, NEW d \in Files[j],
             Begin(j, d) \/ BeginAgain(j, d) \/ Validate(j, d) \/ Collects(j, d)
      PROVE  UNCHANGED file
  BY <1>2 DEF Begin, BeginAgain, Validate, Collects, DiscardRemnant, CreateItem, RecordFiles,
              ImportFails, Drop, manifest
<1> QED
  BY <1>1, <1>2 DEF Importer, Collects

\* Only the reconcile and a crash touch what the reconcile holds.
LEMMA RecSteps ==
    ASSUME [Next]_vars
    PROVE  \/ UNCHANGED rec
           \/ ListReconcile
           \/ Crash
           \/ \E j \in Job : \E d \in Files[j] : DiscardLeftover(j, d) \/ Release(j, d)
<1>1. CASE UNCHANGED vars \/ Damage \/ Recover
  BY <1>1 DEF vars, Damage, Recover
<1>2. CASE User \/ Runner \/ Importer
  BY <1>2, UserLeaves, RunnerLeaves, ImporterLeaves
<1>3. CASE Reconcile
  BY <1>3 DEF Reconcile
<1> QED
  BY <1>1, <1>2, <1>3 DEF Next

\* Only the user, the runner and a crash touch the run.
LEMMA RunSteps ==
    ASSUME [Next]_vars
    PROVE  \/ UNCHANGED run
           \/ Runner
           \/ Crash
           \/ \E j \in Job : Start(j) \/ CancelImport(j)
<1>1. CASE UNCHANGED vars \/ Damage \/ Recover
  BY <1>1 DEF vars, Damage, Recover
<1>2. CASE User
  BY <1>2 DEF User, Prepare, DiscardDraft
<1>3. CASE Importer
  BY <1>3, ImporterLeaves
<1>4. CASE Reconcile
  BY <1>4 DEF Reconcile, ListReconcile, DiscardLeftover, Release
<1> QED
  BY <1>1, <1>2, <1>3, <1>4 DEF Next

\* Only the importer, the reconcile and what damages a document touch the collection.
LEMMA CollectionSteps ==
    ASSUME [Next]_vars
    PROVE  \/ UNCHANGED item
           \/ Damage
           \/ \E j \in Job : \E d \in Files[j] : Collects(j, d) \/ DiscardLeftover(j, d)
<1>1. CASE UNCHANGED vars \/ Crash \/ Recover
  BY <1>1 DEF vars, Crash, Recover
<1>2. CASE User \/ Runner \/ Importer
  BY <1>2, UserLeaves, RunnerLeaves, ImporterLeaves
<1>3. CASE Reconcile
  BY <1>3 DEF Reconcile, ListReconcile, Release
<1> QED
  BY <1>1, <1>2, <1>3 DEF Next

-----------------------------------------------------------------------------
(* The collection.                                                         *)

LEMMA LeastIsOne == ASSUME NEW S \in SUBSET Nat, S # {} PROVE Least(S) \in S
<1> DEFINE R == OpToRel(<, Nat)
<1>1. \E i \in S : \A k \in S : ~ (<<k, i>> \in R)
  <2>1. IsWellFoundedOn(R, Nat)
    BY NatLessThanWellFounded
  <2> HIDE DEF R
  <2> QED
    BY <2>1, WFMin, Zenon
<1>2. PICK i \in S : \A k \in S : ~ (<<k, i>> \in R)
  BY <1>1
<1>3. \A k \in S : ~ (k < i)
  BY <1>2 DEF OpToRel
<1>4. \A k \in S : i <= k
  BY <1>3
<1> QED
  BY <1>4 DEF Least

LEMMA ItemsAreItems == \A d : Whole(d) \subseteq Items(d) /\ Items(d) \subseteq Item /\ Item \subseteq Nat \ {NoItem}
  BY ImportAssumption DEF Whole, Items, Item, NoItem

LEMMA ExistingIsOne ==
    ASSUME NEW d
    PROVE  /\ Existing(d) \in Item \cup {NoItem}
           /\ Existing(d) = NoItem => Items(d) = {} /\ Whole(d) = {}
           /\ Existing(d) # NoItem => Existing(d) \in Items(d)
<1>1. Whole(d) \subseteq Items(d) /\ Items(d) \subseteq Item /\ Item \subseteq Nat \ {NoItem}
  BY ItemsAreItems
<1>2. /\ Whole(d) # {} => Least(Whole(d)) \in Whole(d)
      /\ Items(d) # {} => Least(Items(d)) \in Items(d)
  BY <1>1, LeastIsOne
<1> QED
  BY <1>1, <1>2 DEF Existing

LEMMA DiscardsEffect ==
    ASSUME ItemTyped, NEW i \in Item \cup {NoItem}, Discards(i)
    PROVE  /\ ItemTyped'
           /\ \A k \in Item : k # i => item'[k] = item[k]
           /\ UNCHANGED item
              \/ (i \in Item /\ ~item'[i].whole /\ item'[i].doc \in {{}, item[i].doc})
<1>1. NoDocument \in [doc : Maybe(Doc), whole : BOOLEAN] /\ ~NoDocument.whole /\ NoDocument.doc = {}
  BY DEF NoDocument, Maybe
<1>2. CASE UNCHANGED item
  BY <1>2 DEF ItemTyped
<1>3. CASE i # NoItem /\ ~UNCHANGED item
  <2>1. i \in Item /\ item[i] \in [doc : Maybe(Doc), whole : BOOLEAN]
    BY <1>3 DEF ItemTyped
  <2>2. CASE item' = [item EXCEPT ![i] = NoDocument]
    BY <1>1, <2>1, <2>2 DEF ItemTyped
  <2>3. CASE item' = [item EXCEPT ![i].whole = FALSE]
    <3>1. [item[i] EXCEPT !.whole = FALSE] \in [doc : Maybe(Doc), whole : BOOLEAN]
      BY <2>1
    <3>2. /\ [item[i] EXCEPT !.whole = FALSE].whole = FALSE
          /\ [item[i] EXCEPT !.whole = FALSE].doc = item[i].doc
      BY <2>1
    <3> QED
      BY <2>1, <2>3, <3>1, <3>2 DEF ItemTyped
  <2> QED
    BY <1>3, <2>2, <2>3 DEF Discards
<1> QED
  BY <1>2, <1>3 DEF Discards

LEMMA ImporterTyped ==
    ASSUME ui \in UiType, NEW d \in Doc
    PROVE  /\ Tried(d) \in UiType
           /\ \A j \in Job, again \in BOOLEAN : Classified(j, d, again) \in UiType
<1>1. Tried(d) \in UiType
  <2>1. ui.tried \cup {d} \in SUBSET Doc
    BY DEF UiType
  <2> QED
    BY <2>1 DEF Tried, UiType, UiStage, Maybe
<1>2. Existing(d) \in Item \cup {NoItem}
  BY ExistingIsOne
<1>3. {d} \in Maybe(Doc)
  BY DEF Maybe
<1>4. ASSUME NEW at \in UiStage, NEW i \in Item \cup {NoItem}
      PROVE  [ui EXCEPT !.at = at, !.doc = {d}, !.item = i] \in UiType
  BY <1>3 DEF UiType
<1>5. NoItem \in Item \cup {NoItem} /\ "begin" \in UiStage /\ "discard" \in UiStage
  BY DEF UiStage
<1>6. ASSUME NEW j \in Job, NEW again \in BOOLEAN
      PROVE  Classified(j, d, again) \in UiType
  <2>1. /\ \A i \in Item \cup {NoItem} :
              [ui EXCEPT !.at = "begin", !.doc = {d}, !.item = i] \in UiType
        /\ [ui EXCEPT !.at = "discard", !.doc = {d}, !.item = Existing(d)] \in UiType
    BY <1>2, <1>4, <1>5
  <2>2. (IF again THEN NoItem ELSE Existing(d)) \in Item \cup {NoItem}
    BY <1>2
  <2> QED
    BY <1>1, <2>1, <2>2, Zenon DEF Classified
<1> QED
  BY <1>1, <1>6

-----------------------------------------------------------------------------
(* Types, and what is staged.                                              *)

\* Nothing runs while the program is down, and what runs was started.
Down == ~up => run = NoRun /\ ui = Closed
Started == \A j \in run.job : job[j] \in {"running", "cancelling"} \cup Terminal

\* What waits has nothing staged; what is downloaded is named before it is there, and
\* the runner holds a file from its selection until it is done with it.
WaitsUnstaged == \A j \in Job : \A d \in Files[j] : file[j][d].state = "queued" => ~file[j][d].staged
Hands ==
    /\ run.at \in Working => \A j \in run.job : \A d \in run.doc : file[j][d].staged
    /\ run.doc # {} => run.at \in Working \cup {"look", "take"}
BytesNamed == up => \A e \in bytes : file[e[1]][e[2]].staged

BytesTyped ==
    /\ bytes \subseteq Job \X Doc
    /\ \A e \in bytes : e[2] \in Files[e[1]]

Typed ==
    /\ FileTyped /\ JobTyped /\ BytesTyped /\ ItemTyped
    /\ run \in RunType /\ ui \in UiType /\ rec \in RecType /\ up \in BOOLEAN
    /\ InRunnersHands /\ InImportersHands
Ground == Typed /\ Down /\ Started /\ WaitsUnstaged /\ Hands /\ BytesNamed

LEMMA GroundInit == Init => Ground
<1> SUFFICES ASSUME Init PROVE Ground
  OBVIOUS
<1>1. NoFile \in FileRow /\ ~NoFile.staged /\ NoFile.state = "queued"
  BY DEF NoFile, FileRow, FileState
<1>2. FileTyped /\ WaitsUnstaged
  BY <1>1 DEF Init, FileTyped, WaitsUnstaged
<1>3. JobTyped /\ ItemTyped
  BY DEF Init, JobTyped, ItemTyped, JobState, NoDocument, Maybe
<1>4. run \in RunType /\ ui \in UiType /\ rec \in RecType
  BY DEF Init, RunType, UiType, RecType, NoRun, Closed, NotListed, Maybe, RunStage, UiStage
<1>5. /\ InRunnersHands /\ InImportersHands /\ Started /\ Hands /\ Down
  BY DEF Init, InRunnersHands, InImportersHands, Started, Hands, Down, NoRun, Closed
<1>6. bytes = {} /\ up \in BOOLEAN
  BY DEF Init
<1> QED
  BY <1>2, <1>3, <1>4, <1>5, <1>6 DEF Ground, Typed, BytesTyped, BytesNamed

\* Commands of the user.
LEMMA GroundUser ==
    ASSUME Ground, NEW j \in Job
    PROVE  /\ Prepare(j) => Ground'
           /\ DiscardDraft(j) => Ground'
           /\ Start(j) => Ground'
           /\ CancelImport(j) => Ground'
<1> USE DEF Ground
<1>1. ASSUME Prepare(j) \/ DiscardDraft(j) PROVE Ground'
  <2>1. JobTyped' /\ \A k \in Job : k # j => job'[k] = job[k]
    BY <1>1 DEF Prepare, DiscardDraft, Typed, JobTyped, JobState
  <2>2. j \notin run.job
    BY <1>1 DEF Prepare, DiscardDraft, Started, Terminal
  <2>3. run.job \subseteq Job
    BY DEF Typed, RunType, Maybe
  <2>4. Started'
    BY <1>1, <2>1, <2>2, <2>3 DEF Prepare, DiscardDraft, Started
  <2> QED
    BY <1>1, <2>1, <2>4 DEF Prepare, DiscardDraft, Typed, BytesTyped, FileTyped, ItemTyped, InRunnersHands,
       InImportersHands, Down, WaitsUnstaged, Hands, BytesNamed, disk
<1>2. ASSUME Start(j) PROVE Ground'
  <2>1. JobTyped' /\ job'[j] = "running"
    BY <1>2 DEF Start, Typed, JobTyped, JobState
  <2>2. {j} \in Maybe(Job) /\ {} \in Maybe(Doc)
    BY DEF Maybe
  <2>3. run' \in RunType /\ run'.job = {j} /\ run'.doc = {}
    BY <1>2, <2>2 DEF Start, RunType, RunStage, NoRun
  <2>4. ui' \in UiType /\ ui'.at = "idle"
    BY <1>2, <2>2 DEF Start, UiType, UiStage, Closed
  <2> QED
    BY <1>2, <2>1, <2>3, <2>4 DEF Start, Typed, BytesTyped, FileTyped, ItemTyped, InRunnersHands,
       InImportersHands, Down, Started, WaitsUnstaged, Hands, BytesNamed, disk
<1>3. ASSUME CancelImport(j) PROVE Ground'
  <2>1. ui' \in UiType /\ ui'.at = ui.at /\ ui'.job = ui.job /\ ui'.doc = ui.doc
    BY <1>3 DEF CancelImport, Typed, UiType
  <2>2. up
    BY <1>3 DEF CancelImport, Down, Closed
  <2>3. CASE run.job = {j} /\ run' = [run EXCEPT !.cancel = TRUE] /\ UNCHANGED <<manifest, disk>>
    <3>1. run' \in RunType /\ run'.job = run.job /\ run'.doc = run.doc /\ run'.at = run.at
      BY <2>3 DEF Typed, RunType
    <3> QED
      BY <1>3, <2>1, <2>2, <2>3, <3>1 DEF CancelImport, manifest, disk, Typed, BytesTyped, FileTyped,
         JobTyped, ItemTyped, InRunnersHands, InImportersHands, Down, Started, WaitsUnstaged, Hands, BytesNamed
  <2>4. CASE run.job # {j} /\ Cancel(j) /\ UNCHANGED run
    <3>1. /\ FileTyped' /\ JobTyped'
          /\ \A k \in Job : k # j => job'[k] = job[k]
          /\ \A k \in Job : \A e \in Files[k] :
               \/ Same(k, e)
               \/ /\ k = j /\ file[k][e].state \in {"queued", "verified"}
                  /\ Cancellable(job[j])
                  /\ file'[k][e] = [state |-> "cancelled", staged |-> FALSE]
      BY <2>4, CancelEffect DEF Typed
    <3>2. run.job \subseteq Job /\ j \notin run.job
      BY <2>4 DEF Typed, RunType, Maybe
    <3>3. bytes' = bytes \ Unstaged(j) /\ BytesTyped'
      BY <2>4 DEF Cancel, Deleted, Typed, BytesTyped
    <3>4. ASSUME NEW e \in bytes' PROVE file'[e[1]][e[2]].staged
      <4>1. e \in bytes /\ e[1] \in Job /\ e[2] \in Files[e[1]] /\ e = <<e[1], e[2]>>
        BY <3>3 DEF Typed, BytesTyped
      <4>2. file[e[1]][e[2]].staged
        BY <2>2, <4>1 DEF BytesNamed
      <4>3. file[e[1]][e[2]].state # "queued"
        BY <4>1, <4>2 DEF WaitsUnstaged
      <4>4. Cancellable(job[j]) /\ e[1] = j => file[e[1]][e[2]].state # "verified"
        BY <3>3, <4>1, <4>2 DEF Unstaged
      <4> QED
        BY <3>1, <4>1, <4>2, <4>3, <4>4 DEF Same
    <3>5. InImportersHands' /\ InRunnersHands'
      BY <1>3, <2>1, <2>4, <3>1, <3>2 DEF InImportersHands, InRunnersHands, Same, Typed, UiType, Maybe
    <3> QED
      BY <1>3, <2>1, <2>2, <2>4, <3>1, <3>2, <3>3, <3>4, <3>5 DEF CancelImport, Typed, ItemTyped, Down,
         BytesNamed, Started, WaitsUnstaged, Hands, Same, InRunnersHands
  <2> QED
    BY <1>3, <2>3, <2>4 DEF CancelImport
<1> QED
  BY <1>1, <1>2, <1>3

\* A step that leaves alone what is being imported.
LEMMA ImporterKept ==
    ASSUME Ground, UNCHANGED ui,
           \A k \in Job : \A e \in Files[k] : file[k][e].state = "importing" => Same(k, e)
    PROVE  InImportersHands'
  BY DEF Ground, Typed, InImportersHands, UiType, Maybe, Same

\* A step that keeps the name of every staged file it leaves.
LEMMA NamesKept ==
    ASSUME Ground, up, bytes' \subseteq bytes,
           \A e \in bytes' : Same(e[1], e[2]) \/ file'[e[1]][e[2]].staged
    PROVE  BytesTyped' /\ BytesNamed'
  BY DEF Ground, Typed, BytesTyped, BytesNamed, Same

\* What the runner is, and who else has its file.
LEMMA RunnerIs ==
    ASSUME Ground, NEW j \in Job, run.job = {j}
    PROVE  /\ up
           /\ job[j] \in {"running", "cancelling"} \cup Terminal
           /\ \A d \in run.doc :
                /\ d \in Files[j]
                /\ file[j][d].state \in {"queued", "downloading", "verifying"}
                /\ run.at \in Working => /\ file[j][d].state \in {"downloading", "verifying"}
                                        /\ file[j][d].staged
                /\ run.at \notin Working => file[j][d].state = "queued"
           /\ run.doc # {} => run.at \in Working \cup {"look", "take"}
<1>1. j \in run.job
  OBVIOUS
<1>2. up
  BY <1>1 DEF Ground, Down, NoRun
<1>3. job[j] \in {"running", "cancelling"} \cup Terminal
  BY <1>1 DEF Ground, Started
<1>4. \A d \in run.doc :
        /\ d \in Files[j]
        /\ run.at \in Working => file[j][d].state \in {"downloading", "verifying"}
        /\ run.at \notin Working => file[j][d].state = "queued"
  BY <1>1 DEF Ground, Typed, InRunnersHands
<1>5. /\ run.at \in Working => \A d \in run.doc : file[j][d].staged
      /\ run.doc # {} => run.at \in Working \cup {"look", "take"}
  BY <1>1 DEF Ground, Hands
<1> QED
  BY <1>2, <1>3, <1>4, <1>5

\* The runner moves one file.
LEMMA RunnerMoves ==
    ASSUME Ground, NEW j \in Job, NEW d \in Files[j], run.job = {j},
           d \in run.doc,
           NEW state \in {"downloading", "verifying", "verified", "failed"}, NEW staged \in BOOLEAN,
           Moved(j, d, state, staged), staged \/ <<j, d>> \notin bytes',
           bytes' \subseteq bytes, UNCHANGED <<job, item, ui, rec, up>>,
           run' \in RunType, run'.job = run.job,
           \/ run'.doc = {}
           \/ /\ run'.doc = {d} /\ run'.at \in Working
              /\ staged /\ state \in {"downloading", "verifying"}
    PROVE  Ground'
<1>1. state \in FileState /\ state # "queued"
  BY DEF FileState, Done
<1>2. /\ FileTyped'
      /\ file'[j][d] = [state |-> state, staged |-> staged]
      /\ \A k \in Job : \A e \in Files[k] : k # j \/ e # d => Same(k, e)
  BY <1>1, MovedEffect DEF Ground, Typed
<1>3. up /\ file[j][d].state # "importing"
  BY RunnerIs
<1>4. InImportersHands'
  <2>1. \A k \in Job : \A e \in Files[k] : file[k][e].state = "importing" => Same(k, e)
    BY <1>2, <1>3
  <2> QED
    BY <2>1, ImporterKept
<1>5. BytesTyped' /\ BytesNamed'
  <2>1. ASSUME NEW e \in bytes' PROVE Same(e[1], e[2]) \/ file'[e[1]][e[2]].staged
    <3>1. e[1] \in Job /\ e[2] \in Files[e[1]] /\ e = <<e[1], e[2]>>
      BY DEF Ground, Typed, BytesTyped
    <3>2. CASE e[1] = j /\ e[2] = d
      BY <1>2, <3>1, <3>2
    <3> QED
      BY <1>2, <3>1, <3>2
  <2> QED
    BY <1>3, <2>1, NamesKept
<1>6. InRunnersHands' /\ Hands' /\ Started'
  BY <1>2 DEF InRunnersHands, Hands, Ground, Started
<1>7. WaitsUnstaged'
  BY <1>1, <1>2 DEF WaitsUnstaged, Ground, Same
<1>8. Down'
  BY <1>3 DEF Down
<1> QED
  BY <1>2, <1>4, <1>5, <1>6, <1>7, <1>8 DEF Ground, Typed, JobTyped, ItemTyped

\* The runner moves on, and the files stay as they are.
LEMMA RunnerGoesOn ==
    ASSUME Ground, NEW j \in Job, run.job = {j}, UNCHANGED <<file, bytes, item, ui, rec, up>>,
           JobTyped', \A k \in Job : job'[k] = job[k] \/ job'[k] \in Terminal,
           run' \in RunType, run'.job \subseteq run.job,
           \/ run'.doc = {}
           \/ run'.doc = run.doc /\ run.at \in Working /\ run'.at \in Working
           \/ run'.doc = run.doc /\ run.at = "look" /\ run'.at = "take"
           \/ \E d \in Files[j] :
                 file[j][d].state = "queued" /\ run'.doc = {d} /\ run'.at = "look"
    PROVE  Ground'
<1>1. up
  BY RunnerIs
<1>2. BytesTyped' /\ FileTyped' /\ ItemTyped' /\ BytesNamed' /\ WaitsUnstaged' /\ InImportersHands'
  BY DEF Ground, Typed, BytesTyped, FileTyped, ItemTyped, BytesNamed, WaitsUnstaged, InImportersHands
<1>3. "look" \notin Working /\ "take" \notin Working
  BY DEF Working
<1>4. InRunnersHands' /\ Hands'
  <2>1. CASE run'.doc = {}
    BY <2>1 DEF InRunnersHands, Hands
  <2>2. CASE \E d \in Files[j] :
               file[j][d].state = "queued" /\ run'.doc = {d} /\ run'.at = "look"
    BY <1>3, <2>2 DEF InRunnersHands, Hands
  <2>3. CASE /\ run'.doc = run.doc
             /\ \/ run.at \in Working /\ run'.at \in Working
                \/ run.at = "look" /\ run'.at = "take"
    <3>1. \A d \in run.doc :
            /\ d \in Files[j]
            /\ run.at \in Working => file[j][d].state \in {"downloading", "verifying"} /\ file[j][d].staged
            /\ run.at \notin Working => file[j][d].state = "queued"
      BY RunnerIs
    <3> QED
      BY <1>3, <2>3, <3>1 DEF InRunnersHands, Hands
  <2> QED
    BY <2>1, <2>2, <2>3
<1>5. Started'
  BY DEF Ground, Started
<1> QED
  BY <1>1, <1>2, <1>4, <1>5 DEF Ground, Typed, Down

\* The runner, or whoever ends it, cancels the job.
LEMMA RunnerCancels ==
    ASSUME Ground, NEW j \in Job, run.job = {j}, Cancel(j), UNCHANGED <<item, ui, rec, up>>,
           run' \in RunType, run'.job \subseteq run.job, run'.doc = {}
    PROVE  Ground' /\ job'[j] \in Terminal \cup {"cancelling"}
<1>1. up /\ job[j] \in {"running", "cancelling"} \cup Terminal
  BY RunnerIs
<1>2. /\ FileTyped' /\ JobTyped'
      /\ job[j] # "none" => job'[j] \in Terminal \cup {"cancelling"}
      /\ \A k \in Job : \A e \in Files[k] :
           \/ Same(k, e)
           \/ /\ k = j /\ file[k][e].state \in {"queued", "verified"}
              /\ Cancellable(job[j])
              /\ file'[k][e] = [state |-> "cancelled", staged |-> FALSE]
  BY CancelEffect DEF Ground, Typed
<1>3. job'[j] \in Terminal \cup {"cancelling"}
  BY <1>1, <1>2 DEF Terminal
<1>4. bytes' = bytes \ Unstaged(j)
  BY DEF Cancel, Deleted
<1>5. ASSUME NEW e \in bytes' PROVE Same(e[1], e[2]) \/ file'[e[1]][e[2]].staged
  <2>1. e \in bytes /\ e[1] \in Job /\ e[2] \in Files[e[1]] /\ e = <<e[1], e[2]>>
    BY <1>4 DEF Ground, Typed, BytesTyped
  <2>2. file[e[1]][e[2]].staged
    BY <1>1, <2>1 DEF Ground, BytesNamed
  <2>3. file[e[1]][e[2]].state # "queued"
    BY <2>1, <2>2 DEF Ground, WaitsUnstaged
  <2>4. Cancellable(job[j]) /\ e[1] = j => file[e[1]][e[2]].state # "verified"
    BY <1>4, <2>1, <2>2 DEF Unstaged
  <2> QED
    BY <1>2, <2>1, <2>3, <2>4
<1>6. BytesTyped' /\ BytesNamed'
  BY <1>1, <1>4, <1>5, NamesKept
<1>7. InImportersHands'
  <2>1. \A k \in Job : \A e \in Files[k] : file[k][e].state = "importing" => Same(k, e)
    BY <1>2
  <2> QED
    BY <2>1, ImporterKept
<1>8. InRunnersHands' /\ Hands'
  BY DEF InRunnersHands, Hands
<1>9. Started' /\ Down' /\ WaitsUnstaged'
  BY <1>1, <1>2, <1>3 DEF Ground, Started, Down, WaitsUnstaged, Same
<1> QED
  BY <1>2, <1>3, <1>6, <1>7, <1>8, <1>9 DEF Ground, Typed, ItemTyped

\* The runner's locals.
LEMMA RunTyped ==
    ASSUME run \in RunType, NEW at \in RunStage
    PROVE  /\ RunMoves(at) =>
                run' \in RunType /\ run'.job = run.job /\ run'.doc = run.doc /\ run'.at = at
           /\ RunDrops(at) => run' \in RunType /\ run'.job = run.job /\ run'.doc = {}
           /\ \A d \in Doc : run' = [run EXCEPT !.at = at, !.doc = {d}]
                => run' \in RunType /\ run'.job = run.job /\ run'.doc = {d} /\ run'.at = at
<1>1. {} \in Maybe(Doc) /\ \A d \in Doc : {d} \in Maybe(Doc)
  BY DEF Maybe
<1> QED
  BY <1>1 DEF RunMoves, RunDrops, RunType

LEMMA GroundRunnerFile ==
    ASSUME Ground, NEW j \in Job, NEW d \in Files[j]
    PROVE  /\ Take(j, d) => Ground'
           /\ Stream(j, d) => Ground'
           /\ Fetched(j, d) => Ground'
           /\ FetchFails(j, d) => Ground'
           /\ Interrupted(j, d) => Ground'
           /\ Passed(j, d) => Ground'
           /\ Verify(j, d) => Ground'
           /\ Verified(j, d) => Ground'
<1>1. run \in RunType /\ d \in Doc
  BY FilesAreDocs DEF Ground, Typed
<1>2. /\ {"select", "fetch", "fetched", "passed", "next", "settle", "verify"} \subseteq RunStage
      /\ Working = {"fetch", "fetched", "passed", "verify"}
  BY DEF RunStage, Working
<1>3. ASSUME Fetched(j, d) PROVE Ground'
  <2>1. run.job = {j} /\ run.doc = {d} /\ run.at \in Working
    BY <1>2, <1>3 DEF Fetched, Works, Runs
  <2>2. run' \in RunType /\ run'.job = run.job /\ run'.doc = run.doc /\ run'.at \in Working
    BY <1>1, <1>2, <1>3, RunTyped DEF Fetched
  <2>3. up /\ file[j][d].staged
    BY <2>1, RunnerIs
  <2>4. bytes' = bytes \cup {<<j, d>>} /\ UNCHANGED <<job, file, item, ui, rec, up>>
    BY <1>3 DEF Fetched, manifest
  <2>5. BytesTyped' /\ BytesNamed'
    BY <1>1, <2>3, <2>4 DEF Ground, Typed, BytesTyped, BytesNamed
  <2>6. InRunnersHands' /\ Hands'
    BY <2>1, <2>2, <2>4 DEF Ground, Typed, InRunnersHands, Hands
  <2> QED
    BY <2>2, <2>3, <2>4, <2>5, <2>6 DEF Ground, Typed, FileTyped, JobTyped, ItemTyped,
       InImportersHands, Down, Started, WaitsUnstaged
<1>4. ASSUME FetchFails(j, d) PROVE Ground'
  <2>1. run.job = {j} /\ run.doc = {d} /\ <<j, d>> \notin bytes' /\ bytes' \subseteq bytes
    BY <1>4 DEF FetchFails, Works, Runs, Deleted
  <2>2. run' \in RunType /\ run'.job = run.job /\ run'.doc = {}
    BY <1>1, <1>2, <1>4, RunTyped DEF FetchFails
  <2>3. Moved(j, d, "failed", FALSE) /\ UNCHANGED <<job, item, ui, rec, up>>
    BY <1>4 DEF FetchFails
  <2> QED
    BY <2>1, <2>2, <2>3, RunnerMoves
<1>5. ASSUME Verify(j, d) PROVE Ground'
  <2>1. run.job = {j} /\ run.doc = {d}
    BY <1>5 DEF Verify, Works, Runs
  <2>2. run' \in RunType /\ run'.job = run.job /\ run'.doc = run.doc /\ run'.at \in Working
    BY <1>1, <1>2, <1>5, RunTyped DEF Verify
  <2>3. Moved(j, d, "verifying", TRUE) /\ bytes' \subseteq bytes /\ UNCHANGED <<job, item, ui, rec, up>>
    BY <1>5 DEF Verify, disk
  <2> QED
    BY <2>1, <2>2, <2>3, RunnerMoves
<1>6. ASSUME Verified(j, d) PROVE Ground'
  <2>1. run.job = {j} /\ run.doc = {d} /\ UNCHANGED <<job, item, ui, rec, up>>
    BY <1>6 DEF Verified, Works, Runs
  <2>2. run' \in RunType /\ run'.job = run.job /\ run'.doc = {}
    BY <1>1, <1>2, <1>6, RunTyped DEF Verified
  <2>3. CASE Moved(j, d, "verified", TRUE) /\ UNCHANGED disk
    <3>1. bytes' \subseteq bytes
      BY <2>3 DEF disk
    <3> QED
      BY <2>1, <2>2, <2>3, <3>1, RunnerMoves
  <2>4. CASE Moved(j, d, "failed", FALSE) /\ Deleted({<<j, d>>})
    <3>1. <<j, d>> \notin bytes' /\ bytes' \subseteq bytes
      BY <2>4 DEF Deleted
    <3> QED
      BY <2>1, <2>2, <2>4, <3>1, RunnerMoves
  <2> QED
    BY <1>6, <2>3, <2>4 DEF Verified
<1>7. ASSUME Interrupted(j, d) PROVE Ground'
  <2>1. run.job = {j} /\ run.doc = {d}
    BY <1>7 DEF Interrupted, Works, Runs
  <2>2. run' \in RunType /\ run'.job = run.job /\ run'.doc = {}
    BY <1>1, <1>2, <1>7, RunTyped DEF Interrupted
  <2>3. /\ up /\ job[j] \in {"running", "cancelling"} \cup Terminal
        /\ file[j][d].state \in {"queued", "downloading", "verifying"}
    BY <2>1, RunnerIs
  <2>4. /\ FileTyped' /\ JobTyped'
        /\ \A k \in Job : k # j => job'[k] = job[k]
        /\ job[j] # "none" => job'[j] \in Terminal \cup {"cancelling"}
        /\ file'[j][d] = [state |-> "cancelled", staged |-> FALSE]
        /\ \A k \in Job : \A e \in Files[k] :
             k # j \/ e # d =>
               \/ Same(k, e)
               \/ /\ k = j /\ file[k][e].state \in {"queued", "verified"}
                  /\ Cancellable(job[j])
                  /\ file'[k][e] = [state |-> "cancelled", staged |-> FALSE]
    BY <1>7, InterruptedEffect DEF Ground, Typed
  <2>5. bytes' = bytes \ (Unstaged(j) \cup {<<j, d>>}) /\ UNCHANGED <<item, ui, rec, up>>
    BY <1>7 DEF Interrupted, Deleted
  <2>6. ASSUME NEW e \in bytes' PROVE Same(e[1], e[2]) \/ file'[e[1]][e[2]].staged
    <3>1. /\ e \in bytes /\ e[1] \in Job /\ e[2] \in Files[e[1]] /\ e = <<e[1], e[2]>>
          /\ e[1] # j \/ e[2] # d
      BY <2>5 DEF Ground, Typed, BytesTyped
    <3>2. file[e[1]][e[2]].staged
      BY <2>3, <3>1 DEF Ground, BytesNamed
    <3>3. file[e[1]][e[2]].state # "queued"
      BY <3>1, <3>2 DEF Ground, WaitsUnstaged
    <3>4. Cancellable(job[j]) /\ e[1] = j => file[e[1]][e[2]].state # "verified"
      BY <2>5, <3>1, <3>2 DEF Unstaged
    <3> QED
      BY <2>4, <3>1, <3>3, <3>4
  <2>7. BytesTyped' /\ BytesNamed'
    BY <2>3, <2>5, <2>6, NamesKept
  <2>8. InImportersHands'
    <3>1. \A k \in Job : \A e \in Files[k] : file[k][e].state = "importing" => Same(k, e)
      BY <2>3, <2>4
    <3> QED
      BY <2>5, <3>1, ImporterKept
  <2>9. Started' /\ Down' /\ WaitsUnstaged' /\ InRunnersHands' /\ Hands'
    BY <2>1, <2>2, <2>3, <2>4, <2>5 DEF Ground, Started, Down, WaitsUnstaged, InRunnersHands,
       Hands, Same, Terminal
  <2> QED
    BY <2>2, <2>4, <2>5, <2>7, <2>8, <2>9 DEF Ground, Typed, ItemTyped
<1>8. ASSUME UNCHANGED <<job, file, bytes, item, ui, rec, up>>, run.job = {j}, run' \in RunType,
             run'.job = run.job,
             \/ run'.doc = {}
             \/ run'.doc = run.doc /\ run.at \in Working /\ run'.at \in Working
      PROVE  Ground'
  <2>1. JobTyped' /\ \A k \in Job : job'[k] = job[k]
    BY <1>8 DEF Ground, Typed, JobTyped
  <2> QED
    BY <1>8, <2>1, RunnerGoesOn
<1>9. ASSUME Stream(j, d) PROVE Ground'
  <2>1. run.job = {j} /\ run.at \in Working /\ UNCHANGED <<job, file, bytes, item, run, ui, rec, up>>
    BY <1>2, <1>9 DEF Stream, Works, Runs, manifest
  <2> QED
    BY <1>1, <1>8, <2>1
<1>10. ASSUME Passed(j, d) PROVE Ground'
  <2>1. run.job = {j} /\ run.at \in Working /\ UNCHANGED <<job, file, bytes, item, ui, rec, up>>
    BY <1>2, <1>10 DEF Passed, Works, Runs, manifest, disk
  <2>2. run' \in RunType /\ run'.job = run.job /\ run'.doc = run.doc /\ run'.at \in Working
    BY <1>1, <1>2, <1>10, RunTyped DEF Passed
  <2> QED
    BY <1>8, <2>1, <2>2
<1>11. ASSUME Take(j, d) PROVE Ground'
  <2>1. run.job = {j} /\ run.doc = {d} /\ UNCHANGED <<job, bytes, item, ui, rec, up>>
    BY <1>11 DEF Take, Works, Runs, disk
  <2>2. CASE Moved(j, d, "downloading", TRUE) /\ RunMoves("fetch")
    <3>1. run' \in RunType /\ run'.job = run.job /\ run'.doc = run.doc /\ run'.at \in Working
      BY <1>1, <1>2, <2>2, RunTyped
    <3> QED
      BY <2>1, <2>2, <3>1, RunnerMoves
  <2>3. CASE RunDrops("select") /\ UNCHANGED file
    <3>1. run' \in RunType /\ run'.job = run.job /\ run'.doc = {}
      BY <1>1, <1>2, <2>3, RunTyped
    <3> QED
      BY <1>8, <2>1, <2>3, <3>1
  <2> QED
    BY <1>11, <2>2, <2>3 DEF Take
<1> QED
  BY <1>3, <1>4, <1>5, <1>6, <1>7, <1>9, <1>10, <1>11

LEMMA GroundRunner ==
    ASSUME Ground, NEW j \in Job
    PROVE  /\ Select(j) => Ground'
           /\ Look(j) => Ground'
           /\ Between(j) => Ground'
           /\ SettleRun(j) => Ground'
           /\ End(j) => Ground'
<1>1. run \in RunType /\ JobTyped /\ Files[j] \subseteq Doc
  BY FilesAreDocs DEF Ground, Typed
<1>2. /\ {"select", "look", "take", "settle", "next", "end"} \subseteq RunStage
      /\ {"select", "settle", "next", "end"} \cap (Working \cup {"look", "take"}) = {}
  BY DEF RunStage, Working
<1>3. ASSUME run.job = {j}, UNCHANGED <<manifest, disk, item, ui, rec, up>>
      PROVE  /\ UNCHANGED <<file, bytes, item, ui, rec, up>>
             /\ JobTyped' /\ \A k \in Job : job'[k] = job[k]
  BY <1>1, <1>3 DEF JobTyped, manifest, disk
<1>4. ASSUME Select(j) PROVE Ground'
  <2>1. run.job = {j} /\ run.doc = {} /\ UNCHANGED <<manifest, disk, item, ui, rec, up>>
    <3>1. run.job = {j} /\ run.at = "select"
      BY <1>4 DEF Select, Runs
    <3> QED
      BY <1>2, <1>4, <3>1, RunnerIs DEF Select
  <2>2. CASE RunMoves("end") \/ RunMoves("settle")
    <3>1. run' \in RunType /\ run'.job = run.job /\ run'.doc = {}
      BY <1>1, <1>2, <2>1, <2>2, RunTyped
    <3> QED
      BY <1>3, <2>1, <3>1, RunnerGoesOn
  <2>3. CASE \E d \in Files[j] : /\ file[j][d].state = "queued"
                               /\ run' = [run EXCEPT !.at = "look", !.doc = {d}]
    <3>1. PICK d \in Files[j] : /\ file[j][d].state = "queued"
                               /\ run' = [run EXCEPT !.at = "look", !.doc = {d}]
      BY <2>3
    <3>2. run' \in RunType /\ run'.job = run.job /\ run'.doc = {d} /\ run'.at = "look"
      BY <1>1, <1>2, <3>1, RunTyped
    <3> QED
      BY <1>3, <2>1, <3>1, <3>2, RunnerGoesOn
  <2> QED
    BY <1>4, <2>2, <2>3 DEF Select
<1>5. ASSUME Look(j) PROVE Ground'
  <2>1. run.job = {j} /\ run.at = "look" /\ UNCHANGED <<item, ui, rec, up>>
    BY <1>5 DEF Look, Runs
  <2>2. CASE Cancel(j) /\ RunDrops("settle")
    <3>1. run' \in RunType /\ run'.job = run.job /\ run'.doc = {}
      BY <1>1, <1>2, <2>2, RunTyped
    <3> QED
      BY <2>1, <2>2, <3>1, RunnerCancels
  <2>3. CASE RunMoves("take") /\ UNCHANGED <<manifest, disk>>
    <3>1. run' \in RunType /\ run'.job = run.job /\ run'.doc = run.doc /\ run'.at = "take"
      BY <1>1, <1>2, <2>3, RunTyped
    <3> QED
      BY <1>3, <2>1, <2>3, <3>1, RunnerGoesOn
  <2> QED
    BY <1>5, <2>2, <2>3 DEF Look
<1>6. ASSUME Between(j) PROVE Ground'
  <2>1. run.job = {j} /\ run.at = "next" /\ UNCHANGED <<item, ui, rec, up>>
    BY <1>6 DEF Between, Runs
  <2>2. run.doc = {}
    BY <1>2, <2>1, RunnerIs
  <2>3. CASE Cancel(j) /\ RunMoves("settle")
    <3>1. run' \in RunType /\ run'.job = run.job /\ run'.doc = {}
      BY <1>1, <1>2, <2>2, <2>3, RunTyped
    <3> QED
      BY <2>1, <2>3, <3>1, RunnerCancels
  <2>4. CASE RunMoves("select") /\ UNCHANGED <<manifest, disk>>
    <3>1. run' \in RunType /\ run'.job = run.job /\ run'.doc = {}
      BY <1>1, <1>2, <2>2, <2>4, RunTyped
    <3> QED
      BY <1>3, <2>1, <2>4, <3>1, RunnerGoesOn
  <2> QED
    BY <1>6, <2>3, <2>4 DEF Between
<1>7. ASSUME SettleRun(j) PROVE Ground'
  <2>1. run.job = {j} /\ run.at = "settle" /\ UNCHANGED <<file, bytes, item, ui, rec, up>>
    BY <1>7 DEF SettleRun, Runs, disk
  <2>2. run' \in RunType /\ run'.job = run.job /\ run'.doc = {}
    <3>1. run.doc = {}
      BY <1>2, <2>1, RunnerIs
    <3> QED
      BY <1>1, <1>2, <1>7, <3>1, RunTyped DEF SettleRun
  <2>3. job[j] \in JobState /\ Settled(job[j], file[j]) \in JobState
    BY <1>1, FinishedTyped DEF JobTyped
  <2>4. Settled(job[j], file[j]) = job[j] \/ Settled(job[j], file[j]) \in Terminal
    BY DEF Settled, Terminal
  <2>5. job' = [job EXCEPT ![j] = Settled(job[j], file[j])]
    BY <1>7 DEF SettleRun
  <2>6. JobTyped' /\ \A k \in Job : job'[k] = job[k] \/ job'[k] \in Terminal
    BY <1>1, <2>3, <2>4, <2>5 DEF JobTyped
  <2> QED
    BY <2>1, <2>2, <2>6, RunnerGoesOn
<1>8. ASSUME End(j) PROVE Ground'
  <2>1. run.job = {j} /\ UNCHANGED <<item, ui, rec, up>>
    BY <1>8 DEF End, Runs
  <2>2. run' \in RunType /\ run'.job = {} /\ run'.doc = {}
    BY <1>8 DEF End, NoRun, RunType, RunStage, Maybe
  <2>3. CASE Cancel(j)
    BY <2>1, <2>2, <2>3, RunnerCancels
  <2>4. CASE UNCHANGED <<manifest, disk>>
    BY <1>3, <2>1, <2>2, <2>4, RunnerGoesOn
  <2> QED
    BY <1>8, <2>3, <2>4 DEF End
<1> QED
  BY <1>4, <1>5, <1>6, <1>7, <1>8

\* The importer goes on, and job.json and what is staged stay as they are, or lose
\* the bytes of a file that was to end.
LEMMA ImporterGoesOn ==
    ASSUME Ground, up, UNCHANGED <<job, file, run, rec, up>>, bytes' \subseteq bytes,
           ItemTyped', ui' \in UiType, InImportersHands'
    PROVE  Ground'
<1>1. BytesTyped' /\ BytesNamed'
  BY NamesKept DEF Same
<1> QED
  BY <1>1 DEF Ground, Typed, FileTyped, JobTyped, InRunnersHands, Down, Started, WaitsUnstaged,
     Hands

\* The importer moves a file.
LEMMA ImporterMoves ==
    ASSUME Ground, up, NEW j \in Job, NEW d \in Files[j],
           file[j][d].state \in {"verified", "importing"},
           NEW state \in {"importing", "verified", "imported", "failed"}, NEW staged \in BOOLEAN,
           Moved(j, d, state, staged), bytes' \subseteq bytes,
           staged = file[j][d].staged \/ <<j, d>> \notin bytes',
           JobTyped', \A k \in Job : job'[k] = job[k] \/ job'[k] \in Terminal,
           UNCHANGED <<item, run, rec, up>>, ui' \in UiType, ui'.job = ui.job,
           \/ ui'.at \in {"list", "drop"}
           \/ state = "importing" /\ ui'.doc = {d} /\ ui'.job = {j}
    PROVE  Ground'
<1>1. state \in FileState /\ state # "queued"
  BY DEF FileState, Done
<1>2. /\ FileTyped'
      /\ file'[j][d] = [state |-> state, staged |-> staged]
      /\ \A k \in Job : \A e \in Files[k] : k # j \/ e # d => Same(k, e)
  BY <1>1, MovedEffect DEF Ground, Typed
<1>3. BytesTyped' /\ BytesNamed'
  <2>1. ASSUME NEW e \in bytes' PROVE Same(e[1], e[2]) \/ file'[e[1]][e[2]].staged
    <3>1. e \in bytes /\ e[1] \in Job /\ e[2] \in Files[e[1]] /\ e = <<e[1], e[2]>>
      BY DEF Ground, Typed, BytesTyped
    <3>2. file[e[1]][e[2]].staged
      BY <3>1 DEF Ground, BytesNamed
    <3>3. CASE e[1] = j /\ e[2] = d
      BY <1>2, <3>1, <3>2, <3>3
    <3> QED
      BY <1>2, <3>1, <3>3
  <2> QED
    BY <2>1, NamesKept
<1>4. InRunnersHands' /\ Hands'
  <2>1. \A k \in run.job : \A e \in run.doc : k \in Job /\ e \in Files[k] /\ (k # j \/ e # d)
    BY DEF Ground, Typed, InRunnersHands, RunType, Maybe
  <2> QED
    BY <1>2, <2>1 DEF Ground, Typed, InRunnersHands, Hands, Same
<1>5. InImportersHands'
  BY <1>2 DEF InImportersHands
<1>6. Started' /\ Down' /\ WaitsUnstaged'
  BY <1>1, <1>2 DEF Ground, Typed, RunType, Maybe, Started, Down, WaitsUnstaged, Same
<1> QED
  BY <1>2, <1>3, <1>4, <1>5, <1>6 DEF Ground, Typed, ItemTyped

\* The importer's locals.
LEMMA UiTyped ==
    ASSUME ui \in UiType
    PROVE  /\ \A at \in UiStage : /\ [ui EXCEPT !.at = at] \in UiType
                                 /\ [ui EXCEPT !.at = at].at = at
                                 /\ [ui EXCEPT !.at = at].doc = ui.doc
                                 /\ [ui EXCEPT !.at = at].job = ui.job
                                 /\ [ui EXCEPT !.at = at].item = ui.item
                                 /\ [ui EXCEPT !.at = at].fresh = ui.fresh
           /\ \A d \in Doc : /\ Tried(d) \in UiType
                            /\ Tried(d).at = "list" /\ Tried(d).job = ui.job
                            /\ Tried(d).doc = {} /\ Tried(d).item = NoItem /\ ~Tried(d).fresh
<1>1. \A at \in UiStage : [ui EXCEPT !.at = at] \in UiType
  BY DEF UiType
<1>2. \A d \in Doc : Tried(d) \in UiType
  BY ImporterTyped
<1> QED
  BY <1>1, <1>2 DEF UiType, Tried

LEMMA ImporterIs ==
    ASSUME Ground, NEW j \in Job, ui.job = {j}
    PROVE  up /\ ui \in UiType
  BY DEF Ground, Typed, Down, Closed

\* The importer between two writes of job.json.
LEMMA GroundDialog ==
    ASSUME Ground, NEW j \in Job
    PROVE  /\ ListVerified(j) => Ground'
           /\ ListDone(j) => Ground'
           /\ CloseDialog(j) => Ground'
           /\ \A d \in Files[j] : Begin(j, d) \/ BeginAgain(j, d) \/ DiscardRemnant(j, d) => Ground'
<1>1. Files[j] \subseteq Doc /\ ItemTyped
  BY FilesAreDocs DEF Ground, Typed
<1>2. ASSUME ListVerified(j) \/ ListDone(j) \/ CloseDialog(j) PROVE Ground'
  <2>1. up /\ ui \in UiType
    BY <1>2, ImporterIs DEF ListVerified, ListDone, CloseDialog
  <2>2. ui' \in UiType /\ ui'.at \in {"list", "idle", "closed"}
    <3>1. CASE ListVerified(j)
      <4>1. {d \in Files[j] : file[j][d].state = "verified"} \in SUBSET Doc
        BY <1>1
      <4>2. ui' = [ui EXCEPT !.at = "list", !.list = {d \in Files[j] : file[j][d].state = "verified"}]
        BY <3>1 DEF ListVerified
      <4> QED
        BY <2>1, <4>1, <4>2 DEF UiType, UiStage
    <3>2. CASE ListDone(j)
      BY <2>1, <3>2 DEF ListDone, UiType, UiStage
    <3>3. CASE CloseDialog(j)
      BY <3>3 DEF CloseDialog, UiType, UiStage, Closed, Maybe
    <3> QED
      BY <1>2, <3>1, <3>2, <3>3
  <2>3. UNCHANGED <<job, file, bytes, item, run, rec, up>>
    BY <1>2 DEF ListVerified, ListDone, CloseDialog, manifest, disk
  <2>4. InImportersHands'
    BY <2>2 DEF InImportersHands
  <2> QED
    BY <1>1, <2>1, <2>2, <2>3, <2>4, ImporterGoesOn DEF ItemTyped
<1>3. ASSUME NEW d \in Files[j], Begin(j, d) \/ BeginAgain(j, d) \/ DiscardRemnant(j, d) PROVE Ground'
  <2>1. up /\ ui \in UiType /\ d \in Doc
    BY <1>1, <1>3, ImporterIs DEF Begin, BeginAgain, DiscardRemnant, Imports
  <2>2. \A again \in BOOLEAN : /\ Classified(j, d, again) \in UiType
                              /\ Classified(j, d, again).at \in {"list", "begin", "discard"}
    <3>1. \A again \in BOOLEAN : Classified(j, d, again) \in UiType
      BY <2>1, ImporterTyped
    <3> QED
      BY <2>1, <3>1, UiTyped DEF Classified, UiType
  <2>3. ui' \in UiType /\ ui'.at \in {"list", "begin", "discard", "again"}
    <3>1. CASE Begin(j, d)
      BY <2>2, <3>1 DEF Begin, UiType
    <3>2. CASE BeginAgain(j, d)
      BY <2>2, <3>2 DEF BeginAgain
    <3>3. CASE DiscardRemnant(j, d)
      BY <2>1, <3>3 DEF DiscardRemnant, UiType, UiStage
    <3> QED
      BY <1>3, <3>1, <3>2, <3>3
  <2>4. UNCHANGED <<job, file, bytes, run, rec, up>>
    BY <1>3 DEF Begin, BeginAgain, DiscardRemnant, manifest, disk
  <2>5. ItemTyped'
    <3>1. CASE UNCHANGED item
      BY <1>1, <3>1 DEF ItemTyped
    <3>2. CASE Discards(ui.item)
      BY <1>1, <2>1, <3>2, DiscardsEffect DEF UiType
    <3> QED
      BY <1>3, <3>1, <3>2 DEF Begin, BeginAgain, DiscardRemnant
  <2>6. InImportersHands'
    BY <2>3 DEF InImportersHands
  <2> QED
    BY <2>1, <2>3, <2>4, <2>5, <2>6, ImporterGoesOn
<1> QED
  BY <1>2, <1>3

\* The importer at work on the collection.
LEMMA GroundCollection ==
    ASSUME Ground, NEW j \in Job, NEW d \in Files[j]
    PROVE  /\ CreateItem(j, d) => Ground'
           /\ RecordFiles(j, d) => Ground'
           /\ ImportFails(j, d) => Ground'
           /\ Validate(j, d) => Ground'
           /\ Drop(j, d) => Ground'
<1>1. d \in Doc /\ ItemTyped
  BY FilesAreDocs DEF Ground, Typed
<1>2. {"create", "record", "report", "confirm", "accept", "refuse", "drop"} \subseteq UiStage
  BY DEF UiStage
<1>3. SUFFICES ASSUME \/ CreateItem(j, d) \/ RecordFiles(j, d) \/ ImportFails(j, d)
                      \/ Validate(j, d) \/ Drop(j, d)
               PROVE  Ground'
  OBVIOUS
<1>4. /\ ui.job = {j} /\ ui.doc = {d} /\ ui.at \in {"create", "record", "confirm", "drop"}
      /\ UNCHANGED <<job, file, bytes, run, rec, up>>
  BY <1>3 DEF CreateItem, RecordFiles, ImportFails, Validate, Drop, Imports, manifest, disk
<1>5. up /\ ui \in UiType
  BY <1>4, ImporterIs
<1>6. CASE Drop(j, d)
  <2>1. ui' = Tried(d)
    BY <1>6 DEF Drop
  <2>2. ItemTyped'
    <3>1. CASE UNCHANGED item
      BY <1>1, <3>1 DEF ItemTyped
    <3>2. CASE Discards(ui.item)
      BY <1>1, <1>5, <3>2, DiscardsEffect DEF UiType
    <3> QED
      BY <1>6, <3>1, <3>2 DEF Drop
  <2>3. ui' \in UiType /\ InImportersHands'
    BY <1>1, <1>5, <2>1, UiTyped DEF InImportersHands
  <2> QED
    BY <1>4, <1>5, <2>2, <2>3, ImporterGoesOn
<1>7. CASE ~Drop(j, d)
  <2>1. ui.at # "drop"
    BY <1>3, <1>7 DEF CreateItem, RecordFiles, ImportFails, Validate, Imports
  <2>2. file[j][d].state = "importing"
    BY <1>4, <2>1 DEF Ground, Typed, InImportersHands
  <2>3. ui' \in UiType /\ ui'.job = {j} /\ ui'.doc = {d}
    <3>1. CASE CreateItem(j, d)
      <4>1. PICK i \in Item : ui' = [ui EXCEPT !.at = "record", !.item = i, !.fresh = TRUE]
        BY <3>1 DEF CreateItem
      <4> QED
        BY <1>2, <1>4, <1>5, <4>1 DEF UiType
    <3>2. CASE \E at \in UiStage : UiMoves(at)
      BY <1>4, <1>5, <3>2, UiTyped DEF UiMoves
    <3> QED
      BY <1>2, <1>3, <1>7, <3>1, <3>2 DEF RecordFiles, ImportFails, Validate
  <2>4. ItemTyped'
    <3>1. CASE UNCHANGED item
      BY <1>1, <3>1 DEF ItemTyped
    <3>2. CASE Discards(ui.item)
      BY <1>1, <1>5, <3>2, DiscardsEffect DEF UiType
    <3>3. CASE CreateItem(j, d)
      BY <1>1, <3>3 DEF CreateItem, ItemTyped, Maybe
    <3>4. CASE RecordFiles(j, d)
      <4>1. /\ item' = [item EXCEPT ![ui.item] = [item[ui.item] EXCEPT !.whole = TRUE]]
            /\ \A i \in Item : [item[i] EXCEPT !.whole = TRUE] \in [doc : Maybe(Doc), whole : BOOLEAN]
        BY <1>1, <3>4 DEF RecordFiles, ItemTyped
      <4> QED
        BY <1>1, <4>1 DEF ItemTyped
    <3> QED
      BY <1>3, <1>7, <3>1, <3>2, <3>3, <3>4 DEF ImportFails, Validate
  <2>5. InImportersHands'
    BY <1>4, <2>2, <2>3 DEF InImportersHands
  <2> QED
    BY <1>4, <1>5, <2>3, <2>4, <2>5, ImporterGoesOn
<1> QED
  BY <1>6, <1>7

\* The importer writes job.json.
LEMMA GroundImporter ==
    ASSUME Ground, NEW j \in Job, NEW d \in Files[j]
    PROVE  /\ Importing(j, d) => Ground'
           /\ Report(j, d) => Ground'
           /\ Accept(j, d) => Ground'
           /\ Refuse(j, d) => Ground'
<1>1. d \in Doc /\ ItemTyped /\ JobTyped /\ file[j][d] \in FileRow
  BY FilesAreDocs DEF Ground, Typed, FileTyped
<1>2. {"create", "confirm", "drop", "list"} \subseteq UiStage
  BY DEF UiStage
<1>3. SUFFICES ASSUME Importing(j, d) \/ Report(j, d) \/ Accept(j, d) \/ Refuse(j, d) PROVE Ground'
  OBVIOUS
<1>4. ui.job = {j} /\ ui.doc = {d} /\ UNCHANGED <<item, run, rec, up>>
  BY <1>3 DEF Importing, Report, Accept, Refuse, Imports
<1>5. up /\ ui \in UiType
  BY <1>4, ImporterIs
<1>6. JobTyped' /\ \A k \in Job : job'[k] = job[k] \/ job'[k] \in Terminal
  <2>1. CASE UNCHANGED job
    BY <1>1, <2>1 DEF JobTyped
  <2>2. CASE \E state \in {"imported", "failed"} : Ends(j, d, state)
    <3>1. {"imported", "failed"} \subseteq FileState
      BY DEF FileState, Done
    <3> QED
      BY <2>2, <3>1, EndsEffect DEF Ground, Typed
  <2> QED
    BY <1>3, <2>1, <2>2 DEF Importing, Report, Accept, Refuse, NotSaved, manifest
<1>7. CASE UNCHANGED file /\ bytes' \subseteq bytes /\ UNCHANGED job /\ ui' \in UiType
              /\ ui'.at \in {"list", "drop"}
  <2>1. InImportersHands' /\ ItemTyped'
    BY <1>1, <1>4, <1>7 DEF InImportersHands, ItemTyped
  <2> QED
    BY <1>4, <1>5, <1>7, <2>1, ImporterGoesOn
<1>8. Tried(d) \in UiType /\ Tried(d).at = "list" /\ Tried(d).job = ui.job
  BY <1>1, <1>5, UiTyped
<1>9. \A at \in UiStage : UiMoves(at) => /\ ui' \in UiType /\ ui'.at = at
                                        /\ ui'.job = {j} /\ ui'.doc = {d}
  BY <1>4, <1>5, UiTyped DEF UiMoves
<1>10. CASE Importing(j, d)
  <2>1. CASE /\ file[j][d].state = "verified"
             /\ Moved(j, d, "importing", file[j][d].staged)
             /\ UiMoves(IF ui.item = NoItem THEN "create" ELSE "confirm")
    <3>1. ui' \in UiType /\ ui'.job = {j} /\ ui'.doc = {d}
      BY <1>2, <1>9, <2>1
    <3> QED
      <4>1. /\ file[j][d].staged \in BOOLEAN /\ bytes' \subseteq bytes
            /\ file[j][d].state \in {"verified", "importing"}
            /\ "importing" \in {"importing", "verified", "imported", "failed"}
        BY <1>1, <1>10, <2>1 DEF Importing, FileRow, disk
      <4> QED
        BY <1>4, <1>5, <1>6, <2>1, <3>1, <4>1, ImporterMoves
  <2> QED
    BY <1>7, <1>8, <1>10, <2>1 DEF Importing, disk
<1>11. ASSUME NEW state \in {"imported", "failed"}, Ends(j, d, state), file[j][d].state = "importing",
              ui' \in UiType, ui'.at = "list", ui'.job = ui.job
       PROVE  Ground'
  <2>1. Moved(j, d, state, FALSE) /\ bytes' = bytes \ {<<j, d>>}
    BY <1>11 DEF Ends
  <2> QED
    BY <1>4, <1>5, <1>6, <1>11, <2>1, ImporterMoves
<1>12. CASE Report(j, d)
  <2>1. ui' = Tried(d)
    BY <1>12 DEF Report
  <2>2. CASE file[j][d].state = "importing" /\ Ends(j, d, "failed")
    BY <1>8, <1>11, <2>1, <2>2
  <2>3. CASE NotSaved(j, d) \/ UNCHANGED <<manifest, disk>>
    BY <1>7, <1>8, <2>1, <2>3 DEF NotSaved, manifest, disk
  <2> QED
    BY <1>12, <2>2, <2>3 DEF Report
<1>13. CASE Accept(j, d)
  <2>1. CASE file[j][d].state = "importing" /\ Ends(j, d, "imported") /\ ui' = Tried(d)
    BY <1>8, <1>11, <2>1
  <2>2. CASE (NotSaved(j, d) \/ UNCHANGED <<manifest, disk>>) /\ UiMoves("drop")
    BY <1>2, <1>7, <1>9, <2>2 DEF NotSaved, manifest, disk
  <2> QED
    BY <1>13, <2>1, <2>2 DEF Accept
<1>14. CASE Refuse(j, d)
  <2>1. ui' \in UiType /\ ui'.at = "drop" /\ ui'.job = ui.job /\ UNCHANGED <<job, bytes>>
    BY <1>2, <1>4, <1>9, <1>14 DEF Refuse, disk
  <2>2. CASE file[j][d].state = "importing" /\ Moved(j, d, "verified", file[j][d].staged)
    <3>1. /\ file[j][d].staged \in BOOLEAN /\ bytes' \subseteq bytes
          /\ "verified" \in {"importing", "verified", "imported", "failed"}
      BY <1>1, <2>1 DEF FileRow
    <3>2. /\ file[j][d].state \in {"verified", "importing"}
          /\ ui'.at \in {"list", "drop"}
      BY <2>1, <2>2
    <3> QED
      BY <1>4, <1>5, <1>6, <2>1, <2>2, <3>1, <3>2, ImporterMoves
  <2>3. CASE UNCHANGED file
    BY <1>7, <2>1, <2>3
  <2> QED
    BY <1>14, <2>2, <2>3 DEF Refuse
<1> QED
  BY <1>3, <1>10, <1>12, <1>13, <1>14

LEMMA GroundDamage == ASSUME Ground, Damage PROVE Ground'
<1>1. /\ item' = [item EXCEPT ![ui.item] = [item[ui.item] EXCEPT !.whole = FALSE]]
      /\ UNCHANGED <<job, file, bytes, run, ui, rec, up>>
      /\ ui.at = "confirm"
  BY DEF Damage, manifest, disk
<1>2. \A i \in Item : [item[i] EXCEPT !.whole = FALSE] \in [doc : Maybe(Doc), whole : BOOLEAN]
  BY DEF Ground, Typed, ItemTyped
<1>3. ItemTyped'
  BY <1>1, <1>2 DEF Ground, Typed, ItemTyped
<1>4. up /\ ui' \in UiType /\ InImportersHands'
  BY <1>1 DEF Ground, Typed, Down, Closed, InImportersHands
<1> QED
  BY <1>1, <1>3, <1>4, ImporterGoesOn

-----------------------------------------------------------------------------
(* Restarts.                                                               *)

LEMMA GroundCrash == ASSUME Ground, Crash PROVE Ground'
<1>1. /\ up' = FALSE /\ run' = NoRun /\ ui' = Closed /\ rec' = NotListed
      /\ bytes' \subseteq bytes /\ UNCHANGED <<job, file, item>>
  BY DEF Crash, Deleted, manifest
<1>2. run' \in RunType /\ ui' \in UiType /\ rec' \in RecType
  BY <1>1 DEF RunType, UiType, RecType, NoRun, Closed, NotListed, Maybe, RunStage, UiStage
<1>3. FileTyped' /\ JobTyped' /\ ItemTyped' /\ BytesTyped' /\ WaitsUnstaged'
  BY <1>1 DEF Ground, Typed, FileTyped, JobTyped, ItemTyped, BytesTyped, WaitsUnstaged
<1>4. InRunnersHands' /\ InImportersHands' /\ Started' /\ Hands' /\ Down' /\ BytesNamed'
  BY <1>1 DEF InRunnersHands, InImportersHands, Started, Hands, Down, BytesNamed,
     NoRun, Closed
<1> QED
  BY <1>1, <1>2, <1>3, <1>4 DEF Ground, Typed

\* What a restart makes of one file.
LEMMA NormalizedEffect ==
    ASSUME FileTyped, NEW j \in Job
    PROVE  /\ Normalized(job[j], file[j]) \in [Files[j] -> FileRow]
           /\ \A e \in Files[j] :
                LET row == Normalized(job[j], file[j])[e]
                IN  \/ row = file[j][e]
                    \/ row.state = "queued" /\ ~row.staged /\ file[j][e].state \notin Done
                    \/ row.state \in {"verified", "cancelled"} /\ file[j][e].state \notin Done
<1>1. file[j] \in [Files[j] -> FileRow] /\ DOMAIN file[j] = Files[j]
  BY DEF FileTyped
<1>2. /\ NoFile \in FileRow /\ ~NoFile.staged /\ NoFile.state = "queued"
      /\ {"verified", "cancelled"} \subseteq FileState
      /\ Done \cap {"downloading", "verifying", "importing"} = {}
  BY DEF NoFile, FileRow, FileState, Done
<1>3. ASSUME NEW e \in Files[j]
      PROVE  LET row == Normalized(job[j], file[j])[e]
             IN  /\ row \in FileRow
                 /\ \/ row = file[j][e]
                    \/ row.state = "queued" /\ ~row.staged /\ file[j][e].state \notin Done
                    \/ row.state \in {"verified", "cancelled"} /\ file[j][e].state \notin Done
  <2>1. file[j][e] \in FileRow
    BY <1>1
  <2>2. /\ [file[j][e] EXCEPT !.state = "verified"] \in FileRow
        /\ [file[j][e] EXCEPT !.state = "cancelled"] \in FileRow
        /\ [file[j][e] EXCEPT !.state = "verified"].state = "verified"
        /\ [file[j][e] EXCEPT !.state = "cancelled"].state = "cancelled"
    BY <1>2, <2>1 DEF FileRow
  <2> QED
    BY <1>1, <1>2, <2>1, <2>2 DEF Normalized
<1> QED
  BY <1>1, <1>3 DEF Normalized

LEMMA GroundRecover == ASSUME Ground, Recover PROVE Ground'
<1>1. /\ file' = [j \in Job |-> Normalized(job[j], file[j])]
      /\ job' = [j \in Job |-> CASE job[j] = "running" -> "ready"
                                 [] job[j] = "cancelling" -> "cancelled"
                                 [] OTHER -> job[j]]
      /\ up' = TRUE /\ UNCHANGED <<item, run, ui, rec>>
  BY DEF Recover
<1>2. run = NoRun /\ ui = Closed
  BY DEF Recover, Ground, Down
<1>3. FileTyped /\ JobTyped /\ ItemTyped /\ BytesTyped
  BY DEF Ground, Typed
<1>4. FileTyped'
  BY <1>1, <1>3, NormalizedEffect DEF FileTyped
<1>5. JobTyped'
  BY <1>1, <1>3 DEF JobTyped, JobState, Terminal
<1>6. bytes' \subseteq bytes /\ \A e \in bytes' : file'[e[1]][e[2]].staged
  BY DEF Recover
<1>7. BytesTyped' /\ BytesNamed' /\ ItemTyped'
  BY <1>1, <1>3, <1>6 DEF BytesTyped, BytesNamed, ItemTyped
<1>8. WaitsUnstaged'
  <2>1. ASSUME NEW j \in Job, NEW d \in Files[j], file'[j][d].state = "queued"
        PROVE  ~file'[j][d].staged
    <3>1. file'[j][d] = Normalized(job[j], file[j])[d]
      BY <1>1
    <3> QED
      BY <1>3, <2>1, <3>1, NormalizedEffect DEF Ground, WaitsUnstaged
  <2> QED
    BY <2>1 DEF WaitsUnstaged
<1>9. InRunnersHands' /\ InImportersHands' /\ Started' /\ Hands' /\ Down'
  BY <1>1, <1>2 DEF InRunnersHands, InImportersHands, Started, Hands, Down, NoRun, Closed
<1> QED
  BY <1>1, <1>4, <1>5, <1>7, <1>8, <1>9 DEF Ground, Typed

\* What the reconcile has left is cancelled for good.
Left ==
    \A e \in rec.left : /\ e[1] \in Job /\ e[2] \in Files[e[1]]
                        /\ file[e[1]][e[2]].state = "cancelled"

LEMMA RemnantTyped == \A d : Remnant(d) \in Item \cup {NoItem}
  BY ExistingIsOne DEF Remnant

LEMMA GroundReconcile ==
    ASSUME Ground, Left, NEW j \in Job, NEW d \in Files[j]
    PROVE  /\ DiscardLeftover(j, d) => Ground'
           /\ Release(j, d) => Ground'
<1>1. /\ FileTyped /\ JobTyped /\ ItemTyped /\ BytesTyped /\ d \in Doc
      /\ rec \in RecType /\ NoItem \in Item \cup {NoItem}
  BY FilesAreDocs DEF Ground, Typed
<1>2. <<j, d, NoItem>> \in Job \X Doc \X (Item \cup {NoItem})
  BY <1>1
<1>3. ASSUME DiscardLeftover(j, d) PROVE Ground'
  <2>1. PICK i \in Item : /\ <<j, d, i>> \in rec.left
                          /\ Discards(i)
                          /\ rec' = [rec EXCEPT !.left = (rec.left \ {<<j, d, i>>}) \cup {<<j, d, NoItem>>}]
    BY <1>3 DEF DiscardLeftover
  <2>2. UNCHANGED <<job, file, bytes, run, ui, up>>
    BY <1>3 DEF DiscardLeftover, manifest, disk
  <2>3. ItemTyped'
    BY <1>1, <2>1, DiscardsEffect
  <2>4. rec' \in RecType
    BY <1>1, <1>2, <2>1 DEF RecType
  <2> QED
    BY <2>2, <2>3, <2>4 DEF Ground, Typed, FileTyped, JobTyped, BytesTyped, InRunnersHands, InImportersHands,
       Down, Started, WaitsUnstaged, Hands, BytesNamed
<1>4. ASSUME Release(j, d) PROVE Ground'
  <2>1. /\ <<j, d, NoItem>> \in rec.left
        /\ rec' = [rec EXCEPT !.left = rec.left \ {<<j, d, NoItem>>}]
        /\ UNCHANGED <<job, item, run, ui, up>>
    BY <1>4 DEF Release
  <2>2. rec' \in RecType
    BY <1>1, <2>1 DEF RecType
  <2>3. file[j][d] \in FileRow /\ file[j][d].state = "cancelled"
    BY <1>1, <2>1 DEF Left, FileTyped
  <2>4. CASE UNCHANGED <<file, disk>>
    BY <2>1, <2>2, <2>4 DEF Ground, Typed, FileTyped, JobTyped, ItemTyped, BytesTyped, InRunnersHands,
       InImportersHands, Down, Started, WaitsUnstaged, Hands, BytesNamed, disk
  <2>5. CASE file' = [file EXCEPT ![j][d].staged = FALSE] /\ bytes' = bytes \ {<<j, d>>}
    <3>1. /\ [file[j][d] EXCEPT !.staged = FALSE] \in FileRow
          /\ [file[j][d] EXCEPT !.staged = FALSE].state = "cancelled"
          /\ [file[j][d] EXCEPT !.staged = FALSE].staged = FALSE
      BY <2>3 DEF FileRow
    <3>2. file' = [file EXCEPT ![j] = [file[j] EXCEPT ![d] = [file[j][d] EXCEPT !.staged = FALSE]]]
      BY <2>5
    <3>3. /\ FileTyped'
          /\ file'[j][d].state = "cancelled" /\ ~file'[j][d].staged
          /\ \A k \in Job : \A e \in Files[k] : k # j \/ e # d => Same(k, e)
      BY <1>1, <3>1, <3>2 DEF FileTyped, Same
    <3>4. BytesTyped' /\ BytesNamed'
      <4>1. BytesTyped'
        BY <1>1, <2>5 DEF BytesTyped
      <4>2. ASSUME up, NEW e \in bytes' PROVE file'[e[1]][e[2]].staged
        <5>1. e \in bytes /\ e[1] \in Job /\ e[2] \in Files[e[1]] /\ e = <<e[1], e[2]>> /\ e # <<j, d>>
          BY <1>1, <2>5 DEF BytesTyped
        <5> QED
          BY <3>3, <4>2, <5>1 DEF Ground, BytesNamed, Same
      <4> QED
        BY <2>1, <4>1, <4>2 DEF BytesNamed
    <3>5. InRunnersHands' /\ Hands' /\ Started'
      BY <2>1, <2>3, <3>3 DEF Ground, Typed, RunType, Maybe, InRunnersHands, Hands, Started, Same
    <3>6. InImportersHands'
      BY <2>1, <2>3, <3>3 DEF Ground, Typed, UiType, Maybe, InImportersHands, Same
    <3>7. WaitsUnstaged' /\ Down' /\ JobTyped' /\ ItemTyped'
      BY <2>1, <3>3 DEF Ground, Typed, WaitsUnstaged, Down, JobTyped, ItemTyped, Same
    <3> QED
      BY <2>1, <2>2, <3>3, <3>4, <3>5, <3>6, <3>7 DEF Ground, Typed
  <2> QED
    BY <1>4, <2>4, <2>5 DEF Release, Deleted
<1> QED
  BY <1>3, <1>4

LEMMA GroundListing == ASSUME Ground, ListReconcile PROVE Ground' /\ Left'
<1>1. /\ rec' = [listed |-> TRUE, left |-> {<<e[1], e[2], Remnant(e[2])>> : e \in Open}]
      /\ UNCHANGED <<job, file, bytes, item, run, ui, up>>
  BY DEF ListReconcile, manifest, disk
<1>2. Open \subseteq Job \X Doc
  BY DEF Open
<1>3. rec' \in RecType
  BY <1>1, <1>2, RemnantTyped DEF RecType
<1>4. Left'
  BY <1>1 DEF Left, Open
<1> QED
  BY <1>1, <1>3, <1>4 DEF Ground, Typed, FileTyped, JobTyped, ItemTyped, BytesTyped, InRunnersHands,
     InImportersHands, Down, Started, WaitsUnstaged, Hands, BytesNamed

-----------------------------------------------------------------------------
(* How a file moves: what is done is done, only the end of Accept makes a  *)
(* file imported, only the runner has a file downloaded or verified, and   *)
(* only a restart queues one again.                                        *)

Handled == {"downloading", "verifying"}

MovesOn(k, e) ==
    \/ file'[k][e].state = file[k][e].state
    \/ /\ file[k][e].state \notin Done
       /\ \/ /\ file[k][e].state \notin Handled
             /\ file'[k][e].state \notin Handled \cup {"queued", "imported"}
          \/ /\ Runner /\ run.job = {k} /\ run.doc = {e}
             /\ file'[k][e].state \notin {"queued", "imported"}
          \/ /\ Accept(k, e)
             /\ file[k][e].state = "importing" /\ file'[k][e].state = "imported"
          \/ Recover /\ file'[k][e].state \notin Handled \cup {"imported"}
AllMove == \A k \in Job : \A e \in Files[k] : MovesOn(k, e)

LEMMA CancelMoves == ASSUME Ground, NEW j \in Job, Cancel(j) PROVE AllMove
  BY CancelEffect DEF Ground, Typed, AllMove, MovesOn, Same, Done, Handled

LEMMA OneMoves ==
    ASSUME Ground, NEW j \in Job, NEW d \in Files[j], NEW state \in FileState, NEW staged \in BOOLEAN,
           Moved(j, d, state, staged), file[j][d].state \notin Done,
           \/ file[j][d].state \notin Handled /\ state \notin Handled \cup {"queued", "imported"}
           \/ Runner /\ run.job = {j} /\ run.doc = {d} /\ state \notin {"queued", "imported"}
           \/ Accept(j, d) /\ file[j][d].state = "importing" /\ state = "imported"
    PROVE  AllMove
<1>1. /\ file'[j][d] = [state |-> state, staged |-> staged]
      /\ \A k \in Job : \A e \in Files[k] : k # j \/ e # d => Same(k, e)
  BY MovedEffect DEF Ground, Typed
<1>2. MovesOn(j, d)
  <2>1. file'[j][d].state = state
    BY <1>1
  <2> QED
    BY <2>1 DEF MovesOn
<1> QED
  BY <1>1, <1>2 DEF AllMove, MovesOn, Same

LEMMA UserMoves == ASSUME Ground, User PROVE AllMove
<1>1. CASE UNCHANGED file
  BY <1>1 DEF AllMove, MovesOn
<1>2. CASE \E j \in Job : Cancel(j)
  BY <1>2, CancelMoves
<1> QED
  BY <1>1, <1>2 DEF User, Prepare, DiscardDraft, Start, CancelImport, manifest

LEMMA RunnerStepMoves == ASSUME Ground, Runner PROVE AllMove
<1>1. CASE UNCHANGED file
  BY <1>1 DEF AllMove, MovesOn
<1>2. CASE \E j \in Job : Cancel(j)
  BY <1>2, CancelMoves
<1>3. ASSUME NEW j \in Job, NEW d \in Files[j], Interrupted(j, d) PROVE AllMove
  <2>1. run.job = {j} /\ run.doc = {d}
    BY <1>3 DEF Interrupted, Works, Runs
  <2>2. file[j][d].state \notin Done
    BY <2>1, RunnerIs DEF Done
  <2>3. /\ file'[j][d].state = "cancelled"
        /\ \A k \in Job : \A e \in Files[k] :
             k # j \/ e # d =>
               \/ Same(k, e)
               \/ /\ file[k][e].state \in {"queued", "verified"}
                  /\ file'[k][e].state = "cancelled"
    BY <1>3, InterruptedEffect DEF Ground, Typed
  <2>4. MovesOn(j, d)
    BY <2>1, <2>2, <2>3 DEF MovesOn
  <2> QED
    BY <2>3, <2>4 DEF AllMove, MovesOn, Same, Done, Handled
<1>4. ASSUME NEW j \in Job, NEW d \in Files[j],
             NEW state \in {"downloading", "failed", "verifying", "verified"},
             NEW staged \in BOOLEAN, Moved(j, d, state, staged), run.job = {j}, run.doc = {d}
      PROVE  AllMove
  <2>1. state \in FileState /\ state \notin {"queued", "imported"}
    BY DEF FileState, Done
  <2>2. file[j][d].state \notin Done
    BY <1>4, RunnerIs DEF Done
  <2> QED
    BY <1>4, <2>1, <2>2, OneMoves
<1>5. PICK j \in Job :
        \/ Select(j) \/ Look(j) \/ Between(j) \/ SettleRun(j) \/ End(j)
        \/ \E d \in Files[j] :
             \/ Take(j, d) \/ Stream(j, d) \/ Fetched(j, d) \/ FetchFails(j, d)
             \/ Interrupted(j, d) \/ Passed(j, d) \/ Verify(j, d) \/ Verified(j, d)
  BY DEF Runner
<1>6. CASE Select(j) \/ Look(j) \/ Between(j) \/ SettleRun(j) \/ End(j)
  BY <1>1, <1>2, <1>6 DEF Select, Look, Between, SettleRun, End, manifest
<1>7. ASSUME NEW d \in Files[j], Stream(j, d) \/ Fetched(j, d) \/ Passed(j, d)
      PROVE  AllMove
  BY <1>1, <1>7 DEF Stream, Fetched, Passed, manifest
<1>8. ASSUME NEW d \in Files[j],
             Take(j, d) \/ FetchFails(j, d) \/ Verify(j, d) \/ Verified(j, d)
      PROVE  AllMove
  <2>1. run.job = {j} /\ run.doc = {d}
    BY <1>8 DEF Take, FetchFails, Verify, Verified, Works, Runs
  <2>2. \/ UNCHANGED file
        \/ Moved(j, d, "downloading", TRUE) \/ Moved(j, d, "failed", FALSE)
        \/ Moved(j, d, "verifying", TRUE) \/ Moved(j, d, "verified", TRUE)
    BY <1>8 DEF Take, FetchFails, Verify, Verified
  <2> QED
    BY <1>1, <1>4, <2>1, <2>2
<1> QED
  BY <1>3, <1>5, <1>6, <1>7, <1>8

LEMMA ImporterStepMoves == ASSUME Ground, Importer PROVE AllMove
<1>1. CASE UNCHANGED file
  BY <1>1 DEF AllMove, MovesOn
<1>2. ASSUME NEW j \in Job, NEW d \in Files[j], NEW state \in {"importing", "failed", "imported", "verified"},
             NEW staged \in BOOLEAN, Moved(j, d, state, staged),
             file[j][d].state \in {"verified", "importing"},
             state = "imported" => Accept(j, d) /\ file[j][d].state = "importing"
      PROVE  AllMove
  <2>1. /\ state \in FileState /\ file[j][d].state \notin Done \cup Handled
        /\ state \notin Handled \cup {"queued", "imported"} \/ state = "imported"
    BY <1>2 DEF FileState, Done, Handled
  <2> QED
    BY <1>2, <2>1, OneMoves
<1>3. ASSUME NEW j \in Job, NEW d \in Files[j], Importing(j, d) \/ Refuse(j, d) PROVE AllMove
  <2>1. file[j][d].staged \in BOOLEAN
    BY DEF Ground, Typed, FileTyped, FileRow
  <2>2. CASE Moved(j, d, "importing", file[j][d].staged) /\ file[j][d].state = "verified"
    BY <1>2, <2>1, <2>2
  <2>3. CASE Moved(j, d, "verified", file[j][d].staged) /\ file[j][d].state = "importing"
    BY <1>2, <2>1, <2>3
  <2> QED
    BY <1>1, <1>3, <2>2, <2>3 DEF Importing, Refuse
<1>4. ASSUME NEW j \in Job, NEW d \in Files[j], Report(j, d) \/ Accept(j, d) PROVE AllMove
  <2>1. CASE UNCHANGED file
    BY <1>1, <2>1
  <2>2. CASE Report(j, d) /\ file[j][d].state = "importing" /\ Moved(j, d, "failed", FALSE)
    BY <1>2, <2>2
  <2>3. CASE Accept(j, d) /\ file[j][d].state = "importing" /\ Moved(j, d, "imported", FALSE)
    BY <1>2, <2>3
  <2> QED
    BY <1>4, <2>1, <2>2, <2>3 DEF Report, Accept, Ends, NotSaved, manifest
<1>5. \/ UNCHANGED file
      \/ \E j \in Job : \E d \in Files[j] :
            Importing(j, d) \/ Refuse(j, d) \/ Report(j, d) \/ Accept(j, d)
  BY ImporterFiles
<1> QED
  BY <1>1, <1>3, <1>4, <1>5

LEMMA RestMoves ==
    ASSUME Ground, Left, Reconcile \/ Damage \/ Crash \/ Recover PROVE AllMove
<1>1. CASE UNCHANGED file
  BY <1>1 DEF AllMove, MovesOn
<1>2. ASSUME NEW j \in Job, NEW d \in Files[j], Release(j, d) PROVE AllMove
  <2>1. file[j][d].state = "cancelled"
    BY <1>2 DEF Release, Left
  <2>2. CASE file' = [file EXCEPT ![j][d].staged = FALSE]
    <3>1. \A k \in Job : \A e \in Files[k] : file'[k][e].state = file[k][e].state
      BY <2>2 DEF Ground, Typed, FileTyped, FileRow
    <3> QED
      BY <3>1 DEF AllMove, MovesOn
  <2> QED
    BY <1>1, <1>2, <2>2 DEF Release
<1>3. CASE Recover
  <2>1. \A k \in Job : file'[k] = Normalized(job[k], file[k])
    BY <1>3 DEF Recover
  <2>2. \A k \in Job : \A e \in Files[k] :
          \/ file'[k][e] = file[k][e]
          \/ /\ file[k][e].state \notin Done
             /\ file'[k][e].state \in {"queued", "verified", "cancelled"}
    BY <2>1, NormalizedEffect DEF Ground, Typed
  <2> QED
    BY <1>3, <2>2 DEF AllMove, MovesOn, Handled
<1> QED
  BY <1>1, <1>2, <1>3 DEF Reconcile, ListReconcile, DiscardLeftover, Damage, Crash, manifest

\* Every step.
LEMMA FilesMove == ASSUME Ground, Left, [Next]_vars PROVE AllMove
<1>1. CASE UNCHANGED vars
  BY <1>1 DEF vars, AllMove, MovesOn
<1> QED
  BY <1>1, UserMoves, RunnerStepMoves, ImporterStepMoves, RestMoves DEF Next

LEMMA LeftStep == ASSUME Ground, Left, [Next]_vars PROVE Left'
<1>1. \A k \in Job : \A e \in Files[k] : file[k][e].state = "cancelled" => file'[k][e].state = "cancelled"
  BY FilesMove DEF AllMove, MovesOn, Done
<1>2. CASE UNCHANGED rec
  BY <1>1, <1>2 DEF Left
<1>3. CASE ListReconcile
  BY <1>3, GroundListing
<1>4. CASE Crash
  BY <1>4 DEF Crash, NotListed, Left
<1>5. ASSUME NEW j \in Job, NEW d \in Files[j], DiscardLeftover(j, d) \/ Release(j, d) PROVE Left'
  <2>1. rec'.left \subseteq rec.left \cup {<<j, d, NoItem>>}
    <3>1. rec \in RecType
      BY DEF Ground, Typed
    <3> QED
      BY <1>5, <3>1 DEF DiscardLeftover, Release, RecType
  <2>2. file[j][d].state = "cancelled"
    BY <1>5 DEF DiscardLeftover, Release, Left
  <2> QED
    BY <1>1, <2>1, <2>2 DEF Left
<1> QED
  BY <1>2, <1>3, <1>4, <1>5, RecSteps

\* Every action leaves the ground as it found it.
LEMMA GroundStep == ASSUME Ground, Left, [Next]_vars PROVE Ground'
<1>1. CASE UNCHANGED vars
  BY <1>1 DEF vars, Ground, Typed, FileTyped, JobTyped, ItemTyped, BytesTyped, InRunnersHands,
     InImportersHands, Down, Started, WaitsUnstaged, Hands, BytesNamed, disk, partials
<1>2. User => Ground'
  BY GroundUser DEF User
<1>3. Runner => Ground'
  BY GroundRunner, GroundRunnerFile DEF Runner
<1>4. Importer => Ground'
  BY GroundDialog, GroundCollection, GroundImporter DEF Importer
<1>5. Reconcile => Ground'
  BY GroundListing, GroundReconcile DEF Reconcile
<1> QED
  BY <1>1, <1>2, <1>3, <1>4, <1>5, GroundDamage, GroundCrash, GroundRecover DEF Next

-----------------------------------------------------------------------------
(* What waits, who has a file downloaded, and what is only partly there.   *)

\* Only the runner's own file is downloaded or verified, and its job is running.
OnlyRunner ==
    up => \A k \in Job : \A e \in Files[k] :
        file[k][e].state \in Handled => run.job = {k} /\ run.doc = {e}
BusyRuns == \A k \in Job : \A e \in Files[k] : file[k][e].state \in Handled => job[k] = "running"

\* A job that is being cancelled or has ended has no file that waits for the runner.
Stopped == Terminal \cup {"cancelling"}
StopsQueue ==
    \A k \in Job : job[k] \in Stopped => \A e \in Files[k] : file[k][e].state # "queued"

\* What is partly downloaded is of the file that is downloaded now, or was when the
\* program stopped.
PartialHeld ==
    /\ stray \in BOOLEAN
    /\ \A e \in partial : /\ e \in Job \X Doc
                          /\ e[2] \in Files[e[1]] /\ file[e[1]][e[2]].state \in Handled
                          /\ up => Works("fetch", e[1], e[2])

Waits == OnlyRunner /\ BusyRuns /\ StopsQueue /\ PartialHeld

\* A step that is not the runner's leaves its locals alone, unless it stops it.
LEMMA RunKept ==
    ASSUME Ground, [Next]_vars, ~Runner, up', NEW j \in Job, run.job = {j}
    PROVE  run'.job = run.job /\ run'.doc = run.doc /\ run'.at = run.at
<1>1. run \in RunType
  BY DEF Ground, Typed
<1>2. ~Crash
  BY DEF Crash
<1>3. ASSUME NEW k \in Job, Start(k) PROVE FALSE
  BY <1>3 DEF Start, NoRun
<1>4. ASSUME NEW k \in Job, CancelImport(k)
      PROVE  run'.job = run.job /\ run'.doc = run.doc /\ run'.at = run.at
  BY <1>1, <1>4 DEF CancelImport, RunType
<1> QED
  BY <1>2, <1>3, <1>4, RunSteps

\* Only a stop and a recovery change whether the program is up.
LEMMA UpSteps == ASSUME [Next]_vars PROVE UNCHANGED up \/ Crash \/ Recover
<1>1. CASE UNCHANGED vars \/ Damage \/ Reconcile
  BY <1>1 DEF vars, Damage, Reconcile, ListReconcile, DiscardLeftover, Release
<1>2. CASE User \/ Runner \/ Importer
  BY <1>2, UserLeaves, RunnerLeaves, ImporterLeaves
<1> QED
  BY <1>1, <1>2 DEF Next

LEMMA RunnerUp == ASSUME Ground, Runner PROVE up
<1>1. ASSUME NEW j \in Job, Select(j) \/ Look(j) \/ Between(j) \/ SettleRun(j) \/ End(j)
      PROVE  run.job = {j}
  BY <1>1 DEF Select, Look, Between, SettleRun, End, Runs
<1>2. ASSUME NEW j \in Job, NEW d \in Files[j],
             \/ Take(j, d) \/ Stream(j, d) \/ Fetched(j, d) \/ FetchFails(j, d)
             \/ Interrupted(j, d) \/ Passed(j, d) \/ Verify(j, d) \/ Verified(j, d)
      PROVE  run.job = {j}
  BY <1>2 DEF Take, Stream, Fetched, FetchFails, Interrupted, Passed, Verify, Verified, Works, Runs
<1>3. \E j \in Job : run.job = {j}
  BY <1>1, <1>2 DEF Runner
<1> QED
  BY <1>3, RunnerIs

\* What a step makes of a job.
JobMoves(k) ==
    \/ job'[k] = job[k]
    \/ Start(k)
    \/ job[k] \in {"none", "draft"} /\ job'[k] \in {"none", "draft"}
    \/ up /\ (run.job # {k} \/ run.at \notin Working) /\ Cancel(k)
    \/ \E d \in Files[k] : Interrupted(k, d)
    \/ \A e \in Files[k] : file'[k][e].state \in Done

LEMMA SettledMoves ==
    ASSUME Ground, NEW j \in Job, NEW files, DOMAIN files = Files[j],
           job' = [job EXCEPT ![j] = Settled(job[j], files)]
    PROVE  \A k \in Job : \/ job'[k] = job[k]
                          \/ k = j /\ \A e \in Files[k] : files[e].state \in Done
<1>1. JobTyped
  BY DEF Ground, Typed
<1>2. Settled(job[j], files) = job[j] \/ AllDone(files)
  BY DEF Settled
<1>3. \A k \in Job : job'[k] = IF k = j THEN Settled(job[j], files) ELSE job[k]
  BY <1>1 DEF JobTyped
<1> QED
  BY <1>2, <1>3 DEF AllDone

LEMMA UserJobs == ASSUME Ground, User PROVE \A k \in Job : JobMoves(k)
<1>1. JobTyped /\ FileTyped
  BY DEF Ground, Typed
<1>2. ASSUME NEW j \in Job, Prepare(j) \/ DiscardDraft(j) PROVE \A k \in Job : JobMoves(k)
  BY <1>1, <1>2 DEF Prepare, DiscardDraft, JobMoves, JobTyped
<1>3. ASSUME NEW j \in Job, Start(j) PROVE \A k \in Job : JobMoves(k)
  <2>1. \A k \in Job : k # j => job'[k] = job[k]
    BY <1>1, <1>3 DEF Start, JobTyped
  <2> QED
    BY <1>3, <2>1 DEF JobMoves
<1>4. ASSUME NEW j \in Job, CancelImport(j) PROVE \A k \in Job : JobMoves(k)
  <2>1. CASE UNCHANGED job
    BY <2>1 DEF JobMoves
  <2>2. CASE run.job # {j} /\ Cancel(j)
    <3>1. up
      BY <1>4 DEF CancelImport, Ground, Down, Closed
    <3>2. \A k \in Job : k # j => job'[k] = job[k]
      BY <1>1, <2>2, CancelEffect
    <3> QED
      BY <2>2, <3>1, <3>2 DEF JobMoves
  <2> QED
    BY <1>4, <2>1, <2>2 DEF CancelImport, manifest
<1> QED
  BY <1>2, <1>3, <1>4 DEF User

LEMMA RunnerJobs == ASSUME Ground, Runner PROVE \A k \in Job : JobMoves(k)
<1>1. JobTyped /\ FileTyped
  BY DEF Ground, Typed
<1>2. CASE UNCHANGED job
  BY <1>2 DEF JobMoves
<1>3. ASSUME NEW j \in Job, run.job = {j}, run.at \notin Working, Cancel(j)
      PROVE  \A k \in Job : JobMoves(k)
  <2>1. up
    BY <1>3, RunnerIs
  <2>2. \A k \in Job : k # j => job'[k] = job[k]
    BY <1>1, <1>3, CancelEffect
  <2> QED
    BY <1>3, <2>1, <2>2 DEF JobMoves
<1>4. ASSUME NEW j \in Job, NEW d \in Files[j], Interrupted(j, d)
      PROVE  \A k \in Job : JobMoves(k)
  <2>1. \A k \in Job : k # j => job'[k] = job[k]
    BY <1>1, <1>4, InterruptedEffect
  <2> QED
    BY <1>4, <2>1 DEF JobMoves
<1>5. ASSUME NEW j \in Job, SettleRun(j) PROVE \A k \in Job : JobMoves(k)
  <2>1. job' = [job EXCEPT ![j] = Settled(job[j], file[j])] /\ UNCHANGED file
    BY <1>5 DEF SettleRun
  <2>2. DOMAIN file[j] = Files[j]
    BY <1>1 DEF FileTyped
  <2>3. \A k \in Job : \/ job'[k] = job[k]
                       \/ k = j /\ \A e \in Files[k] : file[j][e].state \in Done
    BY <2>1, <2>2, SettledMoves
  <2> QED
    BY <2>1, <2>3 DEF JobMoves
<1>6. {"look", "next", "end"} \cap Working = {}
  BY DEF Working
<1>7. ASSUME NEW j \in Job, Look(j) \/ Between(j) \/ End(j) PROVE \A k \in Job : JobMoves(k)
  <2>1. run.job = {j} /\ run.at \notin Working
    BY <1>6, <1>7 DEF Look, Between, End, Runs
  <2>2. UNCHANGED job \/ Cancel(j)
    BY <1>7 DEF Look, Between, End, manifest
  <2> QED
    BY <1>2, <1>3, <2>1, <2>2
<1>8. ASSUME NEW j \in Job, Select(j) PROVE UNCHANGED job
  BY <1>8 DEF Select, manifest
<1>9. ASSUME NEW j \in Job, NEW d \in Files[j],
             \/ Take(j, d) \/ Stream(j, d) \/ Fetched(j, d) \/ FetchFails(j, d)
             \/ Passed(j, d) \/ Verify(j, d) \/ Verified(j, d)
      PROVE  UNCHANGED job
  BY <1>9 DEF Take, Stream, Fetched, FetchFails, Passed, Verify, Verified, manifest
<1> QED
  BY <1>2, <1>4, <1>5, <1>7, <1>8, <1>9 DEF Runner

LEMMA ImporterJobs == ASSUME Ground, Importer PROVE \A k \in Job : JobMoves(k)
<1>1. JobTyped /\ FileTyped
  BY DEF Ground, Typed
<1>2. CASE UNCHANGED job
  BY <1>2 DEF JobMoves
<1>3. ASSUME NEW j \in Job, NEW d \in Files[j], NEW state \in {"imported", "failed"}, Ends(j, d, state)
      PROVE  \A k \in Job : JobMoves(k)
  <2>1. job' = [job EXCEPT ![j] = Settled(job[j], file'[j])]
    BY <1>3 DEF Ends
  <2>2. state \in FileState
    BY DEF FileState, Done
  <2>3. DOMAIN file'[j] = Files[j]
    BY <1>1, <1>3, <2>2, EndsEffect DEF FileTyped
  <2>4. \A k \in Job : \/ job'[k] = job[k]
                       \/ k = j /\ \A e \in Files[k] : file'[j][e].state \in Done
    BY <2>1, <2>3, SettledMoves
  <2> QED
    BY <2>4 DEF JobMoves
<1>4. ASSUME NEW j \in Job, ListVerified(j) \/ ListDone(j) \/ CloseDialog(j) PROVE UNCHANGED job
  BY <1>4 DEF ListVerified, ListDone, CloseDialog, manifest
<1>5. ASSUME NEW j \in Job, NEW d \in Files[j],
             \/ Begin(j, d) \/ DiscardRemnant(j, d) \/ BeginAgain(j, d) \/ Importing(j, d)
             \/ CreateItem(j, d) \/ RecordFiles(j, d) \/ ImportFails(j, d)
             \/ Validate(j, d) \/ Refuse(j, d) \/ Drop(j, d)
      PROVE  UNCHANGED job
  BY <1>5 DEF Begin, DiscardRemnant, BeginAgain, Importing, CreateItem, RecordFiles, ImportFails,
     Validate, Refuse, Drop, manifest
<1>6. ASSUME NEW j \in Job, NEW d \in Files[j], Report(j, d) \/ Accept(j, d)
      PROVE  UNCHANGED job \/ \E state \in {"imported", "failed"} : Ends(j, d, state)
  BY <1>6 DEF Report, Accept, NotSaved, manifest
<1> QED
  BY <1>2, <1>3, <1>4, <1>5, <1>6 DEF Importer

LEMMA JobsMove == ASSUME Ground, [Next]_vars, ~Recover PROVE \A k \in Job : JobMoves(k)
<1>1. CASE UNCHANGED vars \/ Damage \/ Crash \/ Reconcile
  <2>1. UNCHANGED job
    BY <1>1 DEF vars, Damage, Crash, Reconcile, ListReconcile, DiscardLeftover, Release, manifest
  <2> QED
    BY <2>1 DEF JobMoves
<1> QED
  BY <1>1, UserJobs, RunnerJobs, ImporterJobs DEF Next

\* A file is downloaded or verified by the runner that had it already.
LEMMA HandledBefore ==
    ASSUME Ground, Left, OnlyRunner, [Next]_vars, ~Recover, up,
           NEW k \in Job, NEW e \in Files[k], file'[k][e].state \in Handled
    PROVE  run.job = {k} /\ run.doc = {e}
<1>1. MovesOn(k, e)
  BY FilesMove DEF AllMove
<1> QED
  BY <1>1 DEF MovesOn, OnlyRunner, Handled

\* What a cancel leaves, of the files the runner has and of those that wait for it.
LEMMA CancelLeaves ==
    ASSUME Ground, StopsQueue, NEW j \in Job, NEW e \in Files[j],
           job' = [job EXCEPT ![j] = Finished(Requested(job[j]), file'[j])],
           \/ file'[j][e].state = "cancelled"
           \/ file'[j][e] = CancelledFiles(job[j], file[j])[e]
    PROVE  /\ file'[j][e].state \in Handled => file[j][e].state \in Handled
           /\ file'[j][e].state = "queued" => job'[j] \notin Stopped
<1>1. FileTyped /\ JobTyped
  BY DEF Ground, Typed
<1>2. /\ file'[j][e].state \in Handled => file[j][e].state \in Handled
      /\ file'[j][e].state = "queued" => ~Cancellable(job[j]) /\ file[j][e].state = "queued"
  BY <1>1 DEF CancelledFiles, FileTyped, Handled
<1>3. job[j] \in Stopped => file[j][e].state # "queued"
  BY DEF StopsQueue
<1>4. ASSUME ~Cancellable(job[j]), job[j] \notin Stopped PROVE job'[j] = job[j]
  <2>1. Requested(job[j]) = job[j] /\ job[j] # "cancelling"
    BY <1>4 DEF Requested, Cancellable, Stopped
  <2> QED
    BY <1>1, <2>1 DEF Finished, JobTyped
<1> QED
  BY <1>2, <1>3, <1>4

LEMMA CancelJob ==
    ASSUME Ground, NEW j \in Job, Cancel(j)
    PROVE  /\ job' = [job EXCEPT ![j] = Finished(Requested(job[j]), file'[j])]
           /\ \A e \in Files[j] : file'[j][e] = CancelledFiles(job[j], file[j])[e]
  BY DEF Cancel, Ground, Typed, FileTyped

LEMMA InterruptedJob ==
    ASSUME Ground, NEW j \in Job, NEW d \in Files[j], Interrupted(j, d)
    PROVE  /\ job' = [job EXCEPT ![j] = Finished(Requested(job[j]), file'[j])]
           /\ run.job = {j} /\ run.doc = {d} /\ run.at \in Working
           /\ \A e \in Files[j] : /\ e = d => file'[j][e].state = "cancelled"
                                 /\ \/ file'[j][e].state = "cancelled"
                                    \/ file'[j][e] = CancelledFiles(job[j], file[j])[e]
<1> DEFINE files == CancelledFiles(job[j], file[j])
           row == [state |-> "cancelled", staged |-> FALSE]
<1>1. FileTyped /\ JobTyped
  BY DEF Ground, Typed
<1>2. /\ file' = [file EXCEPT ![j] = [files EXCEPT ![d] = row]]
      /\ job' = [job EXCEPT ![j] = Finished(Requested(job[j]), file'[j])]
      /\ run.job = {j} /\ run.doc = {d} /\ run.at \in Working
  BY DEF Interrupted, Works, Runs, Working
<1>3. files \in [Files[j] -> FileRow]
  BY <1>1, CancelledEffect
<1>4. row.state = "cancelled"
  OBVIOUS
<1> HIDE DEF files, row
<1>5. file'[j] = [files EXCEPT ![d] = row]
  BY <1>1, <1>2 DEF FileTyped
<1>6. \A e \in Files[j] : IF e = d THEN file'[j][e] = row ELSE file'[j][e] = files[e]
  BY <1>3, <1>5
<1> QED
  BY <1>2, <1>4, <1>6 DEF files

LEMMA StopsQueueStep ==
    ASSUME Ground, Left, StopsQueue, [Next]_vars, ~Recover PROVE StopsQueue'
<1> SUFFICES ASSUME NEW k \in Job, NEW e \in Files[k], file'[k][e].state = "queued"
             PROVE  job'[k] \notin Stopped
  BY DEF StopsQueue
<1>1. file[k][e].state = "queued"
  BY FilesMove DEF AllMove, MovesOn
<1>2. job[k] \notin Stopped
  BY <1>1 DEF StopsQueue
<1>3. CASE Start(k)
  BY <1>3 DEF Start, Ground, Typed, JobTyped, Stopped, Terminal
<1>4. CASE Cancel(k)
  BY <1>4, CancelJob, CancelLeaves
<1>5. CASE \E d \in Files[k] : Interrupted(k, d)
  BY <1>5, InterruptedJob, CancelLeaves
<1>6. ~\A d \in Files[k] : file'[k][d].state \in Done
  BY DEF Done
<1>7. "none" \notin Stopped /\ "draft" \notin Stopped
  BY DEF Stopped, Terminal
<1> QED
  BY <1>2, <1>3, <1>4, <1>5, <1>6, <1>7, JobsMove DEF JobMoves

LEMMA BusyRunsStep ==
    ASSUME Ground, Left, OnlyRunner, BusyRuns, StopsQueue, [Next]_vars, ~Recover PROVE BusyRuns'
<1> SUFFICES ASSUME NEW k \in Job, NEW e \in Files[k], file'[k][e].state \in Handled
             PROVE  job'[k] = "running"
  BY DEF BusyRuns
<1>1. file[k][e].state = file'[k][e].state \/ (run.job = {k} /\ run.doc = {e})
  BY FilesMove DEF AllMove, MovesOn, Handled
<1>2. job[k] = "running"
  <2>1. CASE file[k][e].state \in Handled
    BY <2>1 DEF BusyRuns
  <2>2. CASE file[k][e].state \notin Handled
    <3>1. run.job = {k} /\ run.doc = {e}
      BY <1>1, <2>2
    <3>2. job[k] \in {"running", "cancelling"} \cup Terminal /\ file[k][e].state = "queued"
      BY <2>2, <3>1, RunnerIs DEF Handled
    <3> QED
      BY <3>2 DEF StopsQueue, Stopped
  <2> QED
    BY <2>1, <2>2
<1>3. CASE Start(k)
  BY <1>3 DEF Start, Ground, Typed, JobTyped
<1>4. CASE up /\ (run.job # {k} \/ run.at \notin Working) /\ Cancel(k)
  <2>1. file[k][e].state \in Handled
    BY <1>4, CancelJob, CancelLeaves
  <2>2. run.job = {k} /\ run.doc = {e}
    BY <1>4, <2>1 DEF OnlyRunner
  <2>3. run.at \in Working
    BY <2>1, <2>2, RunnerIs DEF Handled
  <2> QED
    BY <1>4, <2>2, <2>3
<1>5. CASE \E d \in Files[k] : Interrupted(k, d)
  <2>1. PICK d \in Files[k] : Interrupted(k, d)
    BY <1>5
  <2>2. up
    BY <2>1, InterruptedJob, RunnerIs
  <2>3. e = d
    BY <2>1, <2>2, HandledBefore, InterruptedJob
  <2> QED
    BY <2>1, <2>3, InterruptedJob DEF Handled
<1>6. ~\A d \in Files[k] : file'[k][d].state \in Done
  BY DEF Done, Handled
<1> QED
  BY <1>2, <1>3, <1>4, <1>5, <1>6, JobsMove DEF JobMoves

\* The runner holds on to what it has downloaded or verified.
LEMMA RunnerHolds ==
    ASSUME Ground, StopsQueue, Runner, NEW k \in Job, NEW e \in Files[k],
           run.job = {k}, run.doc = {e}, file'[k][e].state \in Handled
    PROVE  run'.job = {k} /\ run'.doc = {e}
<1>1. run \in RunType /\ FileTyped
  BY DEF Ground, Typed
<1>2. /\ file[k][e].state \in {"queued", "downloading", "verifying"}
      /\ run.at \notin Working => file[k][e].state = "queued"
      /\ run.at \in Working \cup {"look", "take"}
  BY RunnerIs
<1>3. \A at : RunMoves(at) => run'.job = {k} /\ run'.doc = {e}
  BY <1>1 DEF RunMoves, RunType
<1>4. \A at \in {"select", "next", "settle", "end"} : run.at # at
  BY <1>2 DEF Working
<1>5. ASSUME NEW j \in Job, Select(j) \/ Between(j) \/ SettleRun(j) \/ End(j) PROVE FALSE
  BY <1>4, <1>5 DEF Select, Between, SettleRun, End, Runs
<1>6. ASSUME NEW j \in Job, Look(j) PROVE FALSE
  <2>1. j = k /\ run.at = "look"
    BY <1>6 DEF Look, Runs
  <2>2. file[k][e].state = "queued"
    BY <1>2, <2>1 DEF Working
  <2>3. UNCHANGED file \/ Cancel(k)
    BY <1>6, <2>1 DEF Look, manifest
  <2> QED
    BY <2>2, <2>3, CancelJob, CancelLeaves DEF Handled
<1>7. ASSUME NEW j \in Job, NEW d \in Files[j], Take(j, d) PROVE run'.job = {k} /\ run'.doc = {e}
  <2>1. j = k /\ d = e /\ run.at = "take"
    BY <1>7 DEF Take, Works, Runs
  <2>2. file[k][e].state = "queued"
    BY <1>2, <2>1 DEF Working
  <2> QED
    BY <1>3, <1>7, <2>1, <2>2 DEF Take
<1>8. ASSUME NEW j \in Job, NEW d \in Files[j],
             Stream(j, d) \/ Fetched(j, d) \/ Passed(j, d) \/ Verify(j, d)
      PROVE  run'.job = {k} /\ run'.doc = {e}
  BY <1>3, <1>8 DEF Stream, Fetched, Passed, Verify
<1>9. ASSUME NEW j \in Job, NEW d \in Files[j], FetchFails(j, d) \/ Verified(j, d)
      PROVE  run'.job = {k} /\ run'.doc = {e}
  <2>1. j = k /\ d = e
    BY <1>9 DEF FetchFails, Verified, Works, Runs
  <2>2. PICK state \in {"failed", "verified"}, staged \in BOOLEAN : Moved(k, e, state, staged)
    BY <1>9, <2>1 DEF FetchFails, Verified
  <2>3. state \in FileState /\ state \notin Handled
    BY DEF FileState, Done, Handled
  <2>4. file'[k][e] = [state |-> state, staged |-> staged]
    BY <1>1, <2>2, <2>3, MovedEffect
  <2> QED
    BY <2>3, <2>4
<1>10. ASSUME NEW j \in Job, NEW d \in Files[j], Interrupted(j, d) PROVE FALSE
  <2>1. j = k /\ d = e
    BY <1>10, InterruptedJob
  <2> QED
    BY <1>10, <2>1, InterruptedJob DEF Handled
<1> QED
  BY <1>5, <1>6, <1>7, <1>8, <1>9, <1>10 DEF Runner

LEMMA OnlyRunnerStep ==
    ASSUME Ground, Left, OnlyRunner, StopsQueue, [Next]_vars, ~Recover PROVE OnlyRunner'
<1> SUFFICES ASSUME up', NEW k \in Job, NEW e \in Files[k], file'[k][e].state \in Handled
             PROVE  run'.job = {k} /\ run'.doc = {e}
  BY DEF OnlyRunner
<1>1. up
  BY UpSteps DEF Crash
<1>2. run.job = {k} /\ run.doc = {e}
  BY <1>1, HandledBefore
<1>3. CASE Runner
  BY <1>2, <1>3, RunnerHolds
<1>4. CASE ~Runner
  BY <1>2, <1>4, RunKept
<1> QED
  BY <1>3, <1>4

\* Only a stream adds a partial file, only a recovery loses sight of one.
LEMMA PartialSteps ==
    ASSUME [Next]_vars, ~Recover
    PROVE  /\ UNCHANGED stray
           /\ \/ partial' \subseteq partial
              \/ \E j \in Job : \E d \in Files[j] :
                   Stream(j, d) /\ partial' \subseteq partial \cup {<<j, d>>}
<1> DEFINE less == UNCHANGED stray /\ partial' \subseteq partial
<1>1. \A j \in Job : Cancel(j) => less
  BY DEF Cancel, Deleted
<1>2. CASE UNCHANGED disk \/ UNCHANGED partials
  BY <1>2 DEF disk, partials
<1>3. ASSUME NEW j \in Job, Prepare(j) \/ DiscardDraft(j) \/ Start(j) \/ CancelImport(j) PROVE less
  <2>1. UNCHANGED disk \/ Cancel(j)
    BY <1>3 DEF Prepare, DiscardDraft, Start, CancelImport
  <2> QED
    BY <1>1, <2>1 DEF disk, partials
<1>4. ASSUME NEW j \in Job, Select(j) \/ Look(j) \/ Between(j) \/ SettleRun(j) \/ End(j) PROVE less
  <2>1. UNCHANGED disk \/ Cancel(j)
    BY <1>4 DEF Select, Look, Between, SettleRun, End
  <2> QED
    BY <1>1, <2>1 DEF disk, partials
<1>5. ASSUME NEW j \in Job, NEW d \in Files[j],
             \/ Take(j, d) \/ Fetched(j, d) \/ FetchFails(j, d) \/ Interrupted(j, d)
             \/ Passed(j, d) \/ Verify(j, d) \/ Verified(j, d)
      PROVE  less
  BY <1>5 DEF Take, Fetched, FetchFails, Interrupted, Passed, Verify, Verified, Deleted, disk, partials
<1>6. ASSUME NEW j \in Job, NEW d \in Files[j], Stream(j, d)
      PROVE  UNCHANGED stray /\ partial' \subseteq partial \cup {<<j, d>>}
  BY <1>6 DEF Stream
<1>7. ASSUME NEW j \in Job, ListVerified(j) \/ ListDone(j) \/ CloseDialog(j) PROVE less
  BY <1>7 DEF ListVerified, ListDone, CloseDialog, disk, partials
<1>8. ASSUME NEW j \in Job, NEW d \in Files[j],
             \/ Begin(j, d) \/ DiscardRemnant(j, d) \/ BeginAgain(j, d) \/ Importing(j, d)
             \/ CreateItem(j, d) \/ RecordFiles(j, d) \/ ImportFails(j, d)
             \/ Validate(j, d) \/ Refuse(j, d) \/ Drop(j, d)
      PROVE  less
  BY <1>8 DEF Begin, DiscardRemnant, BeginAgain, Importing, CreateItem, RecordFiles, ImportFails,
     Validate, Refuse, Drop, disk, partials
<1>9. ASSUME NEW j \in Job, NEW d \in Files[j], Report(j, d) \/ Accept(j, d) PROVE less
  BY <1>9 DEF Report, Accept, Ends, NotSaved, disk, partials
<1>10. ASSUME Reconcile PROVE less
  BY <1>10 DEF Reconcile, ListReconcile, DiscardLeftover, Release, Deleted, disk, partials
<1>11. ASSUME UNCHANGED vars \/ Damage \/ Crash PROVE less
  BY <1>11 DEF vars, Damage, Crash, Deleted, disk, partials
<1> HIDE DEF less
<1>12. User => less
  BY <1>3 DEF User
<1>13. Importer => less
  BY <1>7, <1>8, <1>9 DEF Importer
<1>14. Runner => less \/ \E j \in Job : \E d \in Files[j] : Stream(j, d)
  BY <1>4, <1>5 DEF Runner
<1>15. less \/ \E j \in Job : \E d \in Files[j] : Stream(j, d)
  BY <1>10, <1>11, <1>12, <1>13, <1>14 DEF Next
<1> QED
  BY <1>6, <1>15 DEF less

\* What is partly downloaded is whole, or gone, when the runner goes on from it.
LEMMA RunnerFetches ==
    ASSUME Ground, Runner, NEW k \in Job, NEW e \in Files[k], Works("fetch", k, e),
           <<k, e>> \in partial'
    PROVE  Stream(k, e)
<1>1. run.job = {k} /\ run.doc = {e} /\ run.at = "fetch"
  BY DEF Works, Runs
<1>2. ASSUME NEW j \in Job, Select(j) \/ Look(j) \/ Between(j) \/ SettleRun(j) \/ End(j) PROVE FALSE
  BY <1>1, <1>2 DEF Select, Look, Between, SettleRun, End, Runs
<1>3. ASSUME NEW j \in Job, NEW d \in Files[j],
             Take(j, d) \/ Passed(j, d) \/ Verify(j, d) \/ Verified(j, d)
      PROVE  FALSE
  BY <1>1, <1>3 DEF Take, Passed, Verify, Verified, Works, Runs
<1>4. ASSUME NEW j \in Job, NEW d \in Files[j], Fetched(j, d) \/ FetchFails(j, d) \/ Interrupted(j, d)
      PROVE  FALSE
  <2>1. j = k /\ d = e
    BY <1>1, <1>4 DEF Fetched, FetchFails, Interrupted, Works, Runs
  <2> QED
    BY <1>4, <2>1 DEF Fetched, FetchFails, Interrupted, Deleted
<1>5. ASSUME NEW j \in Job, NEW d \in Files[j], Stream(j, d) PROVE Stream(k, e)
  <2>1. j = k /\ d = e
    BY <1>1, <1>5 DEF Stream, Works, Runs
  <2> QED
    BY <1>5, <2>1
<1> QED
  BY <1>2, <1>3, <1>4, <1>5 DEF Runner

LEMMA PartialHeldStep ==
    ASSUME Ground, Left, PartialHeld, [Next]_vars, ~Recover PROVE PartialHeld'
<1>1. UNCHANGED stray
  BY PartialSteps
<1>2. ASSUME NEW j \in Job, NEW d \in Files[j], Stream(j, d)
      PROVE  /\ <<j, d>> \in Job \X Doc
             /\ file'[j][d].state \in Handled /\ Works("fetch", j, d)'
             /\ UNCHANGED <<file, run, up>>
  <2>1. UNCHANGED <<file, run, up>> /\ Works("fetch", j, d)
    BY <1>2 DEF Stream, manifest
  <2>2. file[j][d].state \in Handled
    BY <2>1, RunnerIs DEF Works, Runs, Working, Handled
  <2> QED
    BY <2>1, <2>2, FilesAreDocs DEF Works, Runs
<1>3. ASSUME NEW j \in Job, NEW d \in Files[j], <<j, d>> \in partial, <<j, d>> \in partial'
      PROVE  file'[j][d].state \in Handled /\ (up' => Works("fetch", j, d)')
  <2>1. file[j][d].state \in Handled /\ (up => Works("fetch", j, d))
    BY <1>3 DEF PartialHeld
  <2>2. CASE Runner
    <3>1. Works("fetch", j, d)
      BY <2>1, <2>2, RunnerUp
    <3>2. Stream(j, d)
      BY <1>3, <2>2, <3>1, RunnerFetches
    <3> QED
      BY <1>2, <3>2
  <2>3. CASE ~Runner
    <3>1. file'[j][d].state = file[j][d].state
      BY <2>1, <2>3, FilesMove DEF AllMove, MovesOn, Handled
    <3>2. ASSUME up' PROVE Works("fetch", j, d)'
      <4>1. up
        BY <3>2, UpSteps DEF Crash
      <4>2. run.job = {j} /\ run.at = "fetch" /\ run.doc = {d}
        BY <2>1, <4>1 DEF Works, Runs
      <4> QED
        BY <2>3, <3>2, <4>2, RunKept DEF Works, Runs
    <3> QED
      BY <2>1, <3>1, <3>2
  <2> QED
    BY <2>2, <2>3
<1>4. ASSUME NEW e \in partial'
      PROVE  /\ e \in Job \X Doc
             /\ e[2] \in Files[e[1]] /\ file'[e[1]][e[2]].state \in Handled
             /\ up' => Works("fetch", e[1], e[2])'
  <2>1. CASE e \in partial
    <3>1. e[1] \in Job /\ e[2] \in Files[e[1]] /\ e = <<e[1], e[2]>> /\ e \in Job \X Doc
      BY <2>1 DEF PartialHeld
    <3> QED
      BY <1>3, <1>4, <2>1, <3>1
  <2>2. CASE e \notin partial
    <3>1. PICK j, d : j \in Job /\ d \in Files[j] /\ Stream(j, d) /\ e = <<j, d>>
      BY <1>4, <2>2, PartialSteps
    <3>2. e[1] = j /\ e[2] = d
      BY <3>1
    <3> QED
      BY <1>2, <3>1, <3>2
  <2> QED
    BY <2>1, <2>2
<1> QED
  BY <1>1, <1>4 DEF PartialHeld

\* A restart queues what was downloaded, and its partial files are lost sight of.
LEMMA RecoverWaits == ASSUME Ground, Waits, Recover PROVE Waits'
<1>1. FileTyped /\ JobTyped
  BY DEF Ground, Typed
<1>2. ASSUME NEW k \in Job, NEW e \in Files[k]
      PROVE  /\ file'[k][e].state \notin Handled
             /\ job'[k] \in Stopped => file'[k][e].state # "queued"
             /\ file[k][e].state \in Handled => ~file'[k][e].staged
  <2>1. file'[k][e] = Normalized(job[k], file[k])[e] /\ DOMAIN file[k] = Files[k]
    BY <1>1 DEF Recover, FileTyped
  <2>2. file[k][e] \in FileRow
    BY <1>1 DEF FileTyped
  <2>3. file[k][e].state \in Handled => job[k] = "running"
    BY DEF Waits, BusyRuns
  <2>4. job'[k] \in Stopped => job[k] \in Stopped
    BY <1>1 DEF Recover, JobTyped, JobState, Stopped, Terminal
  <2>5. job[k] \in Stopped => file[k][e].state # "queued"
    BY DEF Waits, StopsQueue
  <2>6. CASE job[k] = "running"
    <3>1. job'[k] = "ready"
      BY <2>6 DEF Recover
    <3>2. \/ file'[k][e] = NoFile
          \/ file[k][e].state = "importing" /\ file'[k][e] = [file[k][e] EXCEPT !.state = "verified"]
          \/ file[k][e].state \notin Handled \cup {"importing"} /\ file'[k][e] = file[k][e]
      BY <2>1, <2>6 DEF Normalized, Handled
    <3> QED
      BY <2>2, <3>1, <3>2 DEF Handled, NoFile, FileRow, Stopped, Terminal
  <2>7. CASE job[k] # "running"
    <3>1. \/ file'[k][e] = [file[k][e] EXCEPT !.state = "cancelled"]
          \/ file'[k][e] = file[k][e]
      BY <2>1, <2>7 DEF Normalized
    <3> QED
      BY <2>2, <2>3, <2>4, <2>5, <2>7, <3>1 DEF Handled, FileRow
  <2> QED
    BY <2>6, <2>7
<1>3. OnlyRunner' /\ BusyRuns' /\ StopsQueue'
  BY <1>2 DEF OnlyRunner, BusyRuns, StopsQueue
<1>4. partial' = {}
  <2>1. ASSUME NEW e \in partial' PROVE FALSE
    <3>1. e \in partial /\ file'[e[1]][e[2]].staged
      BY <2>1 DEF Recover
    <3>2. e[1] \in Job /\ e[2] \in Files[e[1]] /\ file[e[1]][e[2]].state \in Handled
      BY <3>1 DEF Waits, PartialHeld
    <3> QED
      BY <1>2, <3>1, <3>2
  <2> QED
    BY <2>1
<1>5. stray' \in BOOLEAN
  BY DEF Recover, Waits, PartialHeld
<1> QED
  BY <1>3, <1>4, <1>5 DEF Waits, PartialHeld

LEMMA WaitsStep == ASSUME Ground, Left, Waits, [Next]_vars PROVE Waits'
<1>1. CASE Recover
  BY <1>1, RecoverWaits
<1>2. CASE ~Recover
  BY <1>2, OnlyRunnerStep, BusyRunsStep, StopsQueueStep, PartialHeldStep DEF Waits
<1> QED
  BY <1>1, <1>2

-----------------------------------------------------------------------------
(* Theorems.                                                               *)

LEMMA AlwaysGround == Spec => [](Ground /\ Left /\ Waits)
<1>1. Init => Ground /\ Left
  BY GroundInit DEF Init, Left, NotListed
<1>2. ASSUME Init PROVE Waits
  <2>1. \A k \in Job : \A e \in Files[k] : file[k][e].state = "queued" /\ job[k] = "none"
    BY <1>2 DEF Init, NoFile
  <2>2. OnlyRunner /\ BusyRuns /\ StopsQueue
    BY <2>1 DEF OnlyRunner, BusyRuns, StopsQueue, Handled, Stopped, Terminal
  <2>3. PartialHeld
    BY <1>2 DEF Init, PartialHeld
  <2> QED
    BY <2>2, <2>3 DEF Waits
<1>3. Ground /\ Left /\ Waits /\ [Next]_vars => (Ground /\ Left /\ Waits)'
  BY GroundStep, LeftStep, WaitsStep
<1> QED
  BY <1>1, <1>2, <1>3, PTL DEF Spec

\* No cancel and no restart takes a file out of the hands of the runner or of the
\* importer, and every variable keeps its type (job.rs, runner.rs, import.rs).
THEOREM ImportTyped == Spec => []TypeOK
<1>1. Ground /\ Waits => TypeOK
  <2> SUFFICES ASSUME Ground, Waits PROVE TypeOK
    OBVIOUS
  <2>1. bytes \cup partial \subseteq Job \X Doc /\ stray \in BOOLEAN
    BY DEF Ground, Typed, BytesTyped, Waits, PartialHeld
  <2> QED
    BY <2>1 DEF Ground, Typed, TypeOK, FileTyped, JobTyped, ItemTyped, RunType, UiType, RecType, FileRow
<1> QED
  BY <1>1, AlwaysGround, PTL

\* Whatever ends, is cancelled, forgotten by a restart or reconciled, the program has no
\* staged file, whole or partly downloaded, that no file of job.json names (store.rs,
\* recover_all; runner.rs, delete_dest_and_partial), but for the partial files of
\* downloads that a stop of the program interrupted: those are not in the set, they are
\* what stray stands for.
THEOREM StagingNamed == Spec => []StagingIsNamed
<1>1. Ground /\ Waits => StagingIsNamed
  <2> SUFFICES ASSUME Ground, Waits, up, NEW e \in bytes \cup partial
               PROVE  file[e[1]][e[2]].staged
    BY DEF StagingIsNamed
  <2>1. CASE e \in bytes
    BY <2>1 DEF Ground, BytesNamed
  <2>2. CASE e \in partial
    <3>1. e[1] \in Job /\ Works("fetch", e[1], e[2])
      BY <2>2 DEF Waits, PartialHeld
    <3>2. run.job = {e[1]} /\ run.doc = {e[2]} /\ run.at \in Working
      BY <3>1 DEF Works, Runs, Working
    <3> QED
      BY <3>1, <3>2, RunnerIs
  <2> QED
    BY <2>1, <2>2
<1> QED
  BY <1>1, AlwaysGround, PTL

\* A run ends by its own last step.
LEMMA RunEnds ==
    ASSUME Ground, [Next]_vars, NEW j \in Job, run.job = {j}, run'.job = {}, up'
    PROVE  End(j)
<1>1. CASE ~Runner
  BY <1>1, RunKept
<1>2. run \in RunType
  BY DEF Ground, Typed
<1>3. ASSUME NEW k \in Job, Select(k) \/ Look(k) \/ Between(k) \/ SettleRun(k) PROVE FALSE
  BY <1>2, <1>3 DEF Select, Look, Between, SettleRun, RunMoves, RunDrops, RunType
<1>4. ASSUME NEW k \in Job, NEW d \in Files[k],
             \/ Take(k, d) \/ Stream(k, d) \/ Fetched(k, d) \/ FetchFails(k, d)
             \/ Interrupted(k, d) \/ Passed(k, d) \/ Verify(k, d) \/ Verified(k, d)
      PROVE  FALSE
  BY <1>2, <1>4 DEF Take, Stream, Fetched, FetchFails, Interrupted, Passed, Verify, Verified,
     RunMoves, RunDrops, RunType
<1>5. ASSUME NEW k \in Job, End(k) PROVE End(j)
  BY <1>5 DEF End, Runs
<1> QED
  BY <1>1, <1>3, <1>4, <1>5 DEF Runner

\* A run told to cancel is heard, whenever it is told, also while it takes a file: it
\* does not end before nothing of its job waits or is downloaded (runner.rs, run_job and
\* apply_end_of_run_cancel).
THEOREM CancelHeard == Spec => CancelIsHeard
<1> DEFINE Heard(j) ==
      /\ \A d \in Files[j] : file'[j][d].state \notin {"queued", "downloading", "verifying"}
      /\ \/ job'[j] \in Terminal
         \/ job'[j] = "cancelling" /\ \E d \in Files[j] : file'[j][d].state = "importing"
<1>1. ASSUME Ground, Left, Waits, [Next]_vars, NEW j \in run.job, run.cancel, run'.job = {}, up'
      PROVE  Heard(j)
  <2>1. run \in RunType /\ j \in Job /\ run.job = {j}
    BY <1>1 DEF Ground, Typed, RunType, Maybe
  <2>2. End(j)
    BY <1>1, <2>1, RunEnds
  <2>3. Waits' /\ Ground'
    BY <1>1, WaitsStep, GroundStep
  <2>4. \A d \in Files[j] : file'[j][d].state \notin Handled
    BY <1>1, <2>1, <2>3 DEF Waits, OnlyRunner
  <2>5. \/ job'[j] \in Terminal
        \/ job'[j] = "cancelling" /\ \E d \in Files[j] : file'[j][d].state = "importing"
    <3>1. CASE job[j] \in Terminal
      BY <2>2, <3>1 DEF End, manifest
    <3>2. CASE job[j] \notin Terminal
      <4>1. Cancel(j) /\ UNCHANGED <<item, ui, rec, up>> /\ run' = NoRun
        BY <1>1, <2>2, <3>2 DEF End
      <4>2. run' \in RunType /\ run'.job = {} /\ run'.doc = {}
        BY <4>1 DEF RunType, NoRun, Maybe, RunStage
      <4>3. job'[j] \in Terminal \cup {"cancelling"}
        BY <1>1, <2>1, <4>1, <4>2, RunnerCancels
      <4>4. job'[j] = Finished(Requested(job[j]), file'[j])
        BY <1>1, <2>1, <4>1 DEF Cancel, Ground, Typed, JobTyped
      <4>5. ASSUME job'[j] = "cancelling"
            PROVE  \E d \in Files[j] : file'[j][d].state \in Busy
        <5>1. DOMAIN file'[j] = Files[j]
          BY <2>1, <2>3 DEF Ground, Typed, FileTyped
        <5> QED
          BY <4>4, <4>5, <5>1 DEF Finished
      <4> QED
        BY <2>4, <4>3, <4>5 DEF Busy, Handled
    <3> QED
      BY <3>1, <3>2
  <2>6. \A d \in Files[j] : file'[j][d].state # "queued"
    BY <2>1, <2>3, <2>5 DEF Waits, StopsQueue, Stopped
  <2> QED
    BY <2>4, <2>5, <2>6 DEF Handled
<1>2. [Next]_vars /\ Ground /\ Left /\ Waits
        => [\A j \in run.job : run.cancel /\ run'.job = {} /\ up' => Heard(j)]_vars
  BY <1>1
<1> QED
  BY <1>2, AlwaysGround, PTL DEF Spec, CancelIsHeard

-----------------------------------------------------------------------------
(* The collection: each document once, and whole while a job says so.      *)

\* Between two files the importer holds nothing; until it has begun one, it has created
\* nothing.
Rests ==
    /\ ui.at \in {"closed", "idle", "list", "again"} => ui.item = NoItem
    /\ ui.fresh => /\ ui.item # NoItem
                   /\ ui.at \notin {"closed", "idle", "list", "again", "begin", "discard", "create"}

\* Who is about to create a document found none that is whole.
Creates ==
    \/ ui.at \in {"discard", "again", "create", "record"}
    \/ ui.at = "begin" /\ ui.item = NoItem
Absent == Creates => \A d \in ui.doc : Whole(d) = {}

\* The importer's item, and those the reconcile has left, are of their documents.
OwnItem == ui.item # NoItem => item[ui.item].doc \subseteq ui.doc
LeftItems == \A e \in rec.left : e[3] # NoItem => item[e[3]].doc \subseteq {e[2]}

\* What the importer may still remove is no other job's import, but for the exception.
FreshGivenUp ==
    ui.fresh => \A d \in ui.doc : \A k \in Job :
        d \in Files[k] /\ file[k][d].state = "imported" => GivenUpElsewhere(k, d)

\* What was validated is there, but for the exception.
Acceptable ==
    ui.at = "accept" => \A j \in ui.job : \A d \in ui.doc :
        Whole(d) # {} \/ GivenUpElsewhere(j, d)

Sound ==
    /\ Rests /\ Absent /\ OwnItem /\ LeftItems /\ FreshGivenUp /\ Acceptable
    /\ ImportedOnce /\ ImportedIsWhole

\* One item is removed, or left without its files.
Loses(i) ==
    /\ ItemTyped'
    /\ \A k \in Item : k # i => item'[k] = item[k]
    /\ ~item'[i].whole /\ item'[i].doc \in {{}, item[i].doc}

LEMMA LosesEffect ==
    ASSUME ItemTyped, NEW i \in Item, Loses(i)
    PROVE  /\ \A d : Whole(d)' = Whole(d) \ {i}
           /\ \A k \in Item : item'[k].doc \subseteq item[k].doc
<1>1. \A d : Whole(d)' = Whole(d) \ {i}
  BY DEF Loses, Whole, Items
<1>2. \A k \in Item : item'[k].doc \subseteq item[k].doc
  BY DEF Loses
<1> QED
  BY <1>1, <1>2

\* Who removes an item.
Removes(i) ==
    \/ \E j \in Job : \E d \in Files[j] :
         /\ i = ui.item
         /\ \/ DiscardRemnant(j, d) \/ ImportFails(j, d)
            \/ Drop(j, d) /\ ui.fresh
    \/ i = ui.item /\ Damage
    \/ \E j \in Job : \E d \in Files[j] : DiscardLeftover(j, d) /\ <<j, d, i>> \in rec.left

LEMMA DiscardLoses ==
    ASSUME ItemTyped, NEW i \in Item \cup {NoItem}, Discards(i)
    PROVE  UNCHANGED item \/ (i \in Item /\ Loses(i))
  BY DiscardsEffect DEF Loses

\* What may happen to the items in a step.
LEMMA ItemSteps ==
    ASSUME Ground, Left, Rests, [Next]_vars
    PROVE  \/ UNCHANGED item
           \/ \E j \in Job : \E d \in Files[j] : RecordFiles(j, d)
           \/ \E j \in Job : \E d \in Files[j] : CreateItem(j, d)
           \/ \E i \in Item : Loses(i) /\ Removes(i)
<1>1. ItemTyped /\ ui \in UiType
  BY DEF Ground, Typed
<1>2. ui.item \in Item \cup {NoItem}
  BY <1>1 DEF UiType
<1>3. ASSUME NEW j \in Job, NEW d \in Files[j], DiscardRemnant(j, d) \/ ImportFails(j, d)
      PROVE  UNCHANGED item \/ \E i \in Item : Loses(i) /\ Removes(i)
  BY <1>1, <1>2, <1>3, DiscardLoses DEF DiscardRemnant, ImportFails, Removes
<1>4. ASSUME NEW j \in Job, NEW d \in Files[j], Drop(j, d)
      PROVE  UNCHANGED item \/ \E i \in Item : Loses(i) /\ Removes(i)
  BY <1>1, <1>2, <1>4, DiscardLoses DEF Drop, Removes
<1>5. ASSUME NEW j \in Job, NEW d \in Files[j], DiscardLeftover(j, d)
      PROVE  UNCHANGED item \/ \E i \in Item : Loses(i) /\ Removes(i)
  BY <1>1, <1>5, DiscardLoses DEF DiscardLeftover, Removes
<1>6. ASSUME Damage PROVE \E i \in Item : Loses(i) /\ Removes(i)
  <2>1. /\ item' = [item EXCEPT ![ui.item] = [item[ui.item] EXCEPT !.whole = FALSE]]
        /\ item[ui.item].whole /\ ui.at = "confirm" /\ ui.fresh
    BY <1>6 DEF Damage
  <2>2. CASE ui.item \in Item
    <3>1. /\ [item[ui.item] EXCEPT !.whole = FALSE] \in [doc : Maybe(Doc), whole : BOOLEAN]
          /\ [item[ui.item] EXCEPT !.whole = FALSE].whole = FALSE
          /\ [item[ui.item] EXCEPT !.whole = FALSE].doc = item[ui.item].doc
      BY <1>1, <2>2 DEF ItemTyped
    <3>2. Loses(ui.item)
      BY <1>1, <2>1, <2>2, <3>1 DEF ItemTyped, Loses
    <3> QED
      BY <1>6, <2>2, <3>2 DEF Removes
  <2> QED
    BY <1>2, <2>1, <2>2 DEF Rests
<1> QED
  BY <1>3, <1>4, <1>5, <1>6, CollectionSteps DEF Collects

\* What may happen to the importer's item in a step.
UiKeeps == ui'.doc = ui.doc /\ ui'.item = ui.item /\ ui'.fresh = ui.fresh
Classifies(d) ==
    /\ ui'.doc = {d} /\ ~ui'.fresh /\ UNCHANGED item
    /\ \/ ui'.at = "begin" /\ (ui'.item = NoItem => Whole(d) = {})
       \/ ui'.at = "discard" /\ Whole(d) = {}
    /\ ui'.item \in {NoItem, Existing(d)}
Resting == ui.at \in {"closed", "idle", "list"} /\ ui.item = NoItem /\ ~ui.fresh

LEMMA TriedRests == ASSUME ui \in UiType, NEW d, ui' = Tried(d) PROVE Resting'
  BY DEF UiType, Tried, Resting

LEMMA ClassifiedEffect ==
    ASSUME Ground, NEW j \in Job, NEW d \in Files[j], NEW again \in BOOLEAN, UNCHANGED item, ~ui.fresh,
           again => Whole(d) = {}, NEW list \in SUBSET Doc,
           \/ ui' = Classified(j, d, again)
           \/ ui' = [Classified(j, d, again) EXCEPT !.list = list]
    PROVE  Classifies(d) \/ Resting'
<1> DEFINE found == Existing(d)
           begun == [ui EXCEPT !.at = "begin", !.doc = {d}, !.item = IF again THEN NoItem ELSE found]
           stale == [ui EXCEPT !.at = "discard", !.doc = {d}, !.item = found]
<1>1. ui \in UiType /\ d \in Doc
  BY FilesAreDocs DEF Ground, Typed
<1>2. /\ begun.at = "begin" /\ begun.doc = {d} /\ ~begun.fresh
      /\ begun.item = IF again THEN NoItem ELSE found
      /\ stale.at = "discard" /\ stale.doc = {d} /\ ~stale.fresh /\ stale.item = found
  BY <1>1 DEF UiType
<1>3. Tried(d).at = "list" /\ Tried(d).item = NoItem /\ ~Tried(d).fresh
  BY <1>1 DEF UiType, Tried
<1>4. /\ found = NoItem => Whole(d) = {}
      /\ found \notin Whole(d) => Whole(d) = {}
  BY ExistingIsOne, ItemsAreItems, LeastIsOne, SMT DEF Existing
<1>5. \/ Classified(j, d, again) = Tried(d)
      \/ Classified(j, d, again) = begun /\ (again \/ found = NoItem => Whole(d) = {})
      \/ Classified(j, d, again) = stale /\ Whole(d) = {}
  BY <1>4, Zenon DEF Classified
<1>6. Classified(j, d, again) \in UiType
  BY <1>1, ImporterTyped
<1>7. /\ ui'.at = Classified(j, d, again).at /\ ui'.doc = Classified(j, d, again).doc
      /\ ui'.item = Classified(j, d, again).item /\ ui'.fresh = Classified(j, d, again).fresh
  BY <1>6 DEF UiType
<1> HIDE DEF found, begun, stale
<1>8. CASE Classified(j, d, again) = Tried(d)
  BY <1>3, <1>7, <1>8 DEF Resting
<1>9. CASE Classified(j, d, again) = begun /\ (again \/ found = NoItem => Whole(d) = {})
  BY <1>2, <1>7, <1>9 DEF Classifies, found
<1>10. CASE Classified(j, d, again) = stale /\ Whole(d) = {}
  BY <1>2, <1>7, <1>10 DEF Classifies, found
<1> QED
  BY <1>5, <1>8, <1>9, <1>10

UiStep ==
    \/ UiKeeps /\ ui'.at = ui.at /\ ui'.job = ui.job
    \/ Resting'
    \/ \E d \in Doc : Classifies(d)
    \/ /\ ui.at = "discard" /\ ui'.at = "again"
       /\ ui'.doc = ui.doc /\ ui'.item = NoItem /\ ~ui'.fresh
    \/ UiKeeps /\ ui.at = "begin" /\ ui.item = NoItem /\ ui'.at = "create"
    \/ \E j \in Job : \E d \in Files[j] : CreateItem(j, d)
    \/ UiKeeps /\ ui'.at \in {"confirm", "report", "refuse", "drop"}
    \/ \E j \in Job : \E d \in Files[j] :
         Validate(j, d) /\ Valid(d) /\ UiKeeps /\ ui'.job = ui.job /\ ui'.at = "accept"

LEMMA UiMovesKeeps ==
    ASSUME ui \in UiType, NEW at, UiMoves(at)
    PROVE  UiKeeps /\ ui'.job = ui.job /\ ui'.at = at
  BY DEF UiType, UiMoves, UiKeeps

LEMMA UiStepDialog ==
    ASSUME Ground, Rests, Absent, NEW j \in Job
    PROVE  /\ ListVerified(j) \/ ListDone(j) \/ CloseDialog(j) => UiStep
           /\ \A d \in Files[j] : Begin(j, d) \/ BeginAgain(j, d) \/ DiscardRemnant(j, d) => UiStep
<1>1. ui \in UiType /\ Files[j] \subseteq Doc
  BY FilesAreDocs DEF Ground, Typed
<1>2. ASSUME ListVerified(j) \/ ListDone(j) PROVE UiStep
  <2>1. /\ ui.at \in {"idle", "list"} /\ ui'.at \in {"idle", "list"}
        /\ ui'.item = ui.item /\ ui'.fresh = ui.fresh
    BY <1>1, <1>2 DEF ListVerified, ListDone, UiType
  <2>2. Resting'
    BY <2>1 DEF Rests, Resting
  <2> QED
    BY <2>2 DEF UiStep
<1>3. ASSUME CloseDialog(j) PROVE UiStep
  BY <1>3 DEF CloseDialog, UiStep, Resting, Closed
<1>4. ASSUME NEW d \in Files[j], Begin(j, d) PROVE UiStep
  <2>1. ~ui.fresh /\ UNCHANGED item
    BY <1>4 DEF Begin, Rests
  <2>2. /\ Classified(j, d, FALSE) \in UiType
        /\ Classified(j, d, FALSE).list \ {d} \in SUBSET Doc
    BY <1>1, ImporterTyped DEF UiType
  <2>3. ui' = [Classified(j, d, FALSE) EXCEPT !.list = Classified(j, d, FALSE).list \ {d}]
    BY <1>4, <2>2 DEF Begin
  <2>4. Classifies(d) \/ Resting'
    BY <2>1, <2>2, <2>3, ClassifiedEffect
  <2> QED
    BY <1>1, <2>4 DEF UiStep
<1>5. ASSUME NEW d \in Files[j], BeginAgain(j, d) PROVE UiStep
  <2>1. ~ui.fresh /\ UNCHANGED item /\ Whole(d) = {} /\ ui' = Classified(j, d, TRUE)
    BY <1>5 DEF BeginAgain, Rests, Imports, Absent, Creates
  <2>2. Classifies(d) \/ Resting'
    BY <2>1, ClassifiedEffect
  <2> QED
    BY <1>1, <2>2 DEF UiStep
<1>6. ASSUME NEW d \in Files[j], DiscardRemnant(j, d) PROVE UiStep
  BY <1>1, <1>6 DEF DiscardRemnant, Imports, Rests, UiStep, UiType
<1> QED
  BY <1>2, <1>3, <1>4, <1>5, <1>6

LEMMA UiStepImporter ==
    ASSUME Ground, NEW j \in Job, NEW d \in Files[j]
    PROVE  /\ Importing(j, d) => UiStep
           /\ CreateItem(j, d) => UiStep
           /\ RecordFiles(j, d) \/ ImportFails(j, d) \/ Refuse(j, d) => UiStep
           /\ Report(j, d) \/ Drop(j, d) \/ Accept(j, d) => UiStep
           /\ Validate(j, d) => UiStep
<1>1. ui \in UiType
  BY DEF Ground, Typed
<1>2. ASSUME Importing(j, d) PROVE UiStep
  <2>1. ui.at = "begin"
    BY <1>2 DEF Importing, Imports
  <2>2. CASE UiMoves(IF ui.item = NoItem THEN "create" ELSE "confirm")
    <3>1. UiKeeps /\ ui'.at = IF ui.item = NoItem THEN "create" ELSE "confirm"
      BY <1>1, <2>2, UiMovesKeeps
    <3> QED
      BY <2>1, <3>1 DEF UiStep
  <2>3. CASE ui' = Tried(d)
    BY <1>1, <2>3, TriedRests DEF UiStep
  <2> QED
    BY <1>2, <2>2, <2>3 DEF Importing
<1>3. ASSUME CreateItem(j, d) PROVE UiStep
  BY <1>3 DEF UiStep
<1>4. ASSUME RecordFiles(j, d) \/ ImportFails(j, d) \/ Refuse(j, d) PROVE UiStep
  <2>1. \E at \in {"confirm", "report", "drop"} : UiMoves(at)
    BY <1>4 DEF RecordFiles, ImportFails, Refuse
  <2> QED
    BY <1>1, <2>1, UiMovesKeeps DEF UiStep
<1>5. ASSUME Report(j, d) \/ Drop(j, d) \/ Accept(j, d) PROVE UiStep
  <2>1. CASE ui' = Tried(d)
    BY <1>1, <2>1, TriedRests DEF UiStep
  <2>2. CASE UiMoves("drop")
    BY <1>1, <2>2, UiMovesKeeps DEF UiStep
  <2> QED
    BY <1>5, <2>1, <2>2 DEF Report, Drop, Accept
<1>6. ASSUME Validate(j, d) PROVE UiStep
  <2>1. \/ Valid(d) /\ UiMoves("accept")
        \/ UiMoves("refuse") \/ UiMoves("drop")
    BY <1>6 DEF Validate
  <2>2. CASE Valid(d) /\ UiMoves("accept")
    BY <1>1, <1>6, <2>2, UiMovesKeeps DEF UiStep
  <2>3. CASE UiMoves("refuse") \/ UiMoves("drop")
    BY <1>1, <2>3, UiMovesKeeps DEF UiStep
  <2> QED
    BY <2>1, <2>2, <2>3
<1> QED
  BY <1>2, <1>3, <1>4, <1>5, <1>6

LEMMA UiSteps == ASSUME Ground, Rests, Absent, [Next]_vars PROVE UiStep
<1>1. ui \in UiType
  BY DEF Ground, Typed
<1>2. CASE UNCHANGED ui
  BY <1>2 DEF UiStep, UiKeeps
<1>3. ASSUME NEW j \in Job, Start(j) PROVE UiStep
  BY <1>3 DEF Start, UiStep, Resting, Closed
<1>4. ASSUME NEW j \in Job, CancelImport(j) PROVE UiStep
  BY <1>1, <1>4 DEF CancelImport, UiStep, UiKeeps, UiType
<1>5. ASSUME Crash PROVE UiStep
  BY <1>5 DEF Crash, UiStep, Resting, Closed
<1>6. ASSUME Importer PROVE UiStep
  BY <1>6, UiStepDialog, UiStepImporter DEF Importer
<1>7. ASSUME UNCHANGED vars \/ Damage \/ Recover \/ Reconcile PROVE UNCHANGED ui
  BY <1>7 DEF vars, Damage, Recover, Reconcile, ListReconcile, DiscardLeftover, Release
<1>8. ASSUME NEW j \in Job, Prepare(j) \/ DiscardDraft(j) PROVE UNCHANGED ui
  BY <1>8 DEF Prepare, DiscardDraft
<1>9. User => UiStep
  BY <1>2, <1>3, <1>4, <1>8 DEF User
<1> QED
  BY <1>2, <1>5, <1>6, <1>7, <1>9, RunnerLeaves DEF Next

LEMMA RestsStep == ASSUME Ground, Rests, Absent, [Next]_vars PROVE Rests'
<1>1. CASE \E j \in Job : \E d \in Files[j] : CreateItem(j, d)
  <2>1. PICK j, d : j \in Job /\ d \in Files[j] /\ CreateItem(j, d)
    BY <1>1
  <2>2. ui'.at = "record" /\ ui'.item # NoItem
    BY <2>1, ItemsAreItems DEF CreateItem, Ground, Typed, UiType
  <2> QED
    BY <2>2 DEF Rests
<1>2. CASE ~\E j \in Job : \E d \in Files[j] : CreateItem(j, d)
  BY <1>2, UiSteps DEF UiStep, UiKeeps, Resting, Classifies, Rests
<1> QED
  BY <1>1, <1>2

\* A document becomes whole only where it was not, by the import that created it.
LEMMA WholeSteps ==
    ASSUME Ground, Left, Rests, Absent, [Next]_vars
    PROVE  \/ \A d : Whole(d)' \subseteq Whole(d)
           \/ /\ ui'.at = "confirm"
              /\ \E d : /\ Whole(d) = {} /\ Whole(d)' \subseteq {ui.item}
                        /\ \A e : e # d => Whole(e)' \subseteq Whole(e)
<1>1. ItemTyped /\ ui \in UiType
  BY DEF Ground, Typed
<1>2. CASE UNCHANGED item
  BY <1>2 DEF Whole, Items
<1>3. CASE \E i \in Item : Loses(i) /\ Removes(i)
  BY <1>1, <1>3, LosesEffect
<1>4. ASSUME NEW j \in Job, NEW d \in Files[j], CreateItem(j, d)
      PROVE  \A e : Whole(e)' \subseteq Whole(e)
  <2>1. PICK i \in Item : item' = [item EXCEPT ![i] = [doc |-> {d}, whole |-> FALSE]]
    BY <1>4 DEF CreateItem
  <2>2. ~item'[i].whole /\ \A k \in Item : k # i => item'[k] = item[k]
    BY <1>1, <2>1 DEF ItemTyped
  <2> QED
    BY <2>2 DEF Whole, Items
<1>5. ASSUME NEW j \in Job, NEW d \in Files[j], RecordFiles(j, d)
      PROVE  /\ ui'.at = "confirm"
             /\ Whole(d) = {} /\ Whole(d)' \subseteq {ui.item}
             /\ \A e : e # d => Whole(e)' \subseteq Whole(e)
  <2>1. /\ ui.at = "record" /\ ui.doc = {d} /\ item[ui.item].doc = {d}
        /\ item' = [item EXCEPT ![ui.item].whole = TRUE] /\ UiMoves("confirm")
    BY <1>5 DEF RecordFiles, Imports
  <2>2. ui'.at = "confirm" /\ Whole(d) = {}
    BY <1>1, <2>1, UiMovesKeeps DEF Absent, Creates
  <2>3. \A k \in Item : k # ui.item => item'[k] = item[k]
    BY <1>1, <2>1 DEF ItemTyped
  <2>4. ui.item \in Item => item'[ui.item].doc = {d}
    BY <1>1, <2>1 DEF ItemTyped
  <2> QED
    BY <2>2, <2>3, <2>4 DEF Whole, Items
<1> QED
  BY <1>2, <1>3, <1>4, <1>5, ItemSteps

LEMMA AbsentStep == ASSUME Ground, Left, Rests, Absent, [Next]_vars PROVE Absent'
<1>1. SUFFICES ASSUME Creates' PROVE \A d \in ui'.doc : Whole(d)' = {}
  BY DEF Absent
<1>2. \A d : Whole(d)' \subseteq Whole(d)
  BY <1>1, WholeSteps DEF Creates
<1>3. CASE \E d \in Doc : Classifies(d)
  <2>1. PICK d \in Doc : Classifies(d)
    BY <1>3
  <2> QED
    BY <1>1, <1>2, <2>1 DEF Classifies, Creates
<1>4. CASE \E j \in Job : \E d \in Files[j] : CreateItem(j, d)
  <2>1. PICK j, d : j \in Job /\ d \in Files[j] /\ CreateItem(j, d)
    BY <1>4
  <2>2. ui'.doc = ui.doc /\ Creates
    BY <2>1 DEF CreateItem, Imports, Creates, Ground, Typed, UiType
  <2> QED
    BY <1>2, <2>2 DEF Absent
<1>5. CASE ui'.doc = ui.doc /\ Creates
  BY <1>2, <1>5 DEF Absent
<1> QED
  BY <1>1, <1>3, <1>4, <1>5, UiSteps DEF UiStep, UiKeeps, Resting, Creates

LEMMA OnceStep ==
    ASSUME Ground, Left, Rests, Absent, ImportedOnce, [Next]_vars PROVE ImportedOnce'
<1>1. CASE \A d : Whole(d)' \subseteq Whole(d)
  BY <1>1 DEF ImportedOnce
<1>2. CASE \E d : /\ Whole(d) = {} /\ Whole(d)' \subseteq {ui.item}
                  /\ \A e : e # d => Whole(e)' \subseteq Whole(e)
  <2>1. PICK d : /\ Whole(d) = {} /\ Whole(d)' \subseteq {ui.item}
                 /\ \A e : e # d => Whole(e)' \subseteq Whole(e)
    BY <1>2
  <2>2. ASSUME NEW e \in Doc, NEW i \in Whole(e)', NEW k \in Whole(e)' PROVE i = k
    BY <2>1, <2>2 DEF ImportedOnce
  <2> QED
    BY <2>2 DEF ImportedOnce
<1> QED
  BY <1>1, <1>2, WholeSteps

\* No item passes to another document while somebody holds it.
LEMMA DocSteps ==
    ASSUME Ground, Left, Rests, [Next]_vars
    PROVE  \/ \A k \in Item : item'[k].doc \subseteq item[k].doc
           \/ \E j \in Job : \E d \in Files[j] :
                /\ CreateItem(j, d)
                /\ ui'.item \in Item /\ item'[ui'.item].doc = {d}
                /\ \A e \in rec.left : e[3] # ui'.item
                /\ \A k \in Item : k # ui'.item => item'[k].doc \subseteq item[k].doc
<1>1. ItemTyped /\ ui \in UiType
  BY DEF Ground, Typed
<1>2. CASE UNCHANGED item
  BY <1>2
<1>3. CASE \E i \in Item : Loses(i) /\ Removes(i)
  BY <1>1, <1>3, LosesEffect
<1>4. ASSUME NEW j \in Job, NEW d \in Files[j], CreateItem(j, d)
      PROVE  /\ ui'.item \in Item /\ item'[ui'.item].doc = {d}
             /\ \A e \in rec.left : e[3] # ui'.item
             /\ \A k \in Item : k # ui'.item => item'[k].doc \subseteq item[k].doc
  <2>1. PICK i \in Item : /\ \A e \in rec.left : e[3] # i
                          /\ item' = [item EXCEPT ![i] = [doc |-> {d}, whole |-> FALSE]]
                          /\ ui' = [ui EXCEPT !.at = "record", !.item = i, !.fresh = TRUE]
    BY <1>4 DEF CreateItem
  <2>2. item'[i].doc = {d} /\ \A k \in Item : k # i => item'[k] = item[k]
    BY <1>1, <2>1 DEF ItemTyped
  <2>3. ui'.item = i
    BY <1>1, <2>1 DEF UiType
  <2> QED
    BY <2>1, <2>2, <2>3
<1>5. ASSUME NEW j \in Job, NEW d \in Files[j], RecordFiles(j, d)
      PROVE  \A k \in Item : item'[k].doc \subseteq item[k].doc
  <2>1. item' = [item EXCEPT ![ui.item] = [item[ui.item] EXCEPT !.whole = TRUE]]
    BY <1>5 DEF RecordFiles
  <2>2. \A k \in Item : [item[k] EXCEPT !.whole = TRUE].doc = item[k].doc
    BY <1>1 DEF ItemTyped
  <2> QED
    BY <1>1, <2>1, <2>2 DEF ItemTyped
<1> QED
  BY <1>2, <1>3, <1>4, <1>5, ItemSteps

LEMMA OwnItemStep ==
    ASSUME Ground, Left, Rests, Absent, OwnItem, [Next]_vars PROVE OwnItem'
<1>1. ui \in UiType /\ ui.item \in Item \cup {NoItem}
  BY DEF Ground, Typed, UiType
<1>2. CASE \E j \in Job : \E d \in Files[j] : CreateItem(j, d)
  <2>1. PICK j, d : j \in Job /\ d \in Files[j] /\ CreateItem(j, d)
    BY <1>2
  <2>2. ui'.doc = {d} /\ item' = [item EXCEPT ![ui'.item] = [doc |-> {d}, whole |-> FALSE]] /\ ui'.item \in Item
    BY <1>1, <2>1 DEF CreateItem, Imports, UiType
  <2> QED
    BY <2>2 DEF OwnItem, Ground, Typed, ItemTyped
<1>3. CASE ~\E j \in Job : \E d \in Files[j] : CreateItem(j, d)
  <2>1. \A k \in Item : item'[k].doc \subseteq item[k].doc
    BY <1>3, DocSteps
  <2>2. ASSUME NEW d \in Doc, Classifies(d) PROVE OwnItem'
    <3>1. ui'.doc = {d} /\ ui'.item \in {NoItem, Existing(d)} /\ UNCHANGED item
      BY <2>2 DEF Classifies
    <3> QED
      BY <3>1, ExistingIsOne DEF OwnItem, Items
  <2>3. CASE UiKeeps
    BY <1>1, <2>1, <2>3 DEF UiKeeps, OwnItem
  <2> QED
    BY <1>3, <2>2, <2>3, UiSteps DEF UiStep, Resting, OwnItem
<1> QED
  BY <1>2, <1>3

LEMMA LeftItemsStep ==
    ASSUME Ground, Left, Rests, LeftItems, [Next]_vars PROVE LeftItems'
<1>1. rec \in RecType
  BY DEF Ground, Typed
<1>2. ASSUME NEW e \in rec.left, e[3] # NoItem PROVE item'[e[3]].doc \subseteq {e[2]}
  <2>1. e[3] \in Item /\ item[e[3]].doc \subseteq {e[2]}
    BY <1>1, <1>2 DEF LeftItems, RecType
  <2> QED
    BY <2>1, DocSteps
<1>3. CASE UNCHANGED rec
  BY <1>2, <1>3 DEF LeftItems
<1>4. CASE Crash
  BY <1>4 DEF Crash, NotListed, LeftItems
<1>5. CASE ListReconcile
  <2>1. rec'.left = {<<e[1], e[2], Remnant(e[2])>> : e \in Open} /\ UNCHANGED item
    BY <1>5 DEF ListReconcile
  <2>2. \A d : Remnant(d) # NoItem => item[Remnant(d)].doc = {d}
    BY ExistingIsOne DEF Remnant, Items
  <2> QED
    BY <2>1, <2>2 DEF LeftItems
<1>6. ASSUME NEW j \in Job, NEW d \in Files[j], DiscardLeftover(j, d) \/ Release(j, d) PROVE LeftItems'
  <2>1. rec'.left \subseteq rec.left \cup {<<j, d, NoItem>>}
    BY <1>1, <1>6 DEF DiscardLeftover, Release, RecType
  <2> QED
    BY <1>2, <2>1 DEF LeftItems
<1> QED
  BY <1>3, <1>4, <1>5, <1>6, RecSteps

\* What was given up stays so.
LEMMA GivenUpStays ==
    ASSUME Ground, Left, [Next]_vars, NEW j, NEW d, GivenUpElsewhere(j, d)
    PROVE  GivenUpElsewhere(j, d)'
<1>1. PICK k \in Job \ {j} : d \in Files[k] /\ file[k][d].state = "cancelled"
  BY DEF GivenUpElsewhere
<1>2. file'[k][d].state = "cancelled"
  BY <1>1, FilesMove DEF AllMove, MovesOn, Done
<1> QED
  BY <1>1, <1>2 DEF GivenUpElsewhere

\* The importer is done with what it made imported.
LEMMA AcceptRests ==
    ASSUME Ground, NEW j \in Job, NEW d \in Files[j], Accept(j, d), file'[j][d].state = "imported"
    PROVE  Resting' /\ ui.at = "accept" /\ ui.job = {j} /\ ui.doc = {d} /\ UNCHANGED item
<1>1. ui.at = "accept" /\ ui.job = {j} /\ ui.doc = {d} /\ ui \in UiType /\ UNCHANGED item
  BY DEF Accept, Imports, Ground, Typed
<1>2. file[j][d].state = "importing"
  BY <1>1 DEF Ground, Typed, InImportersHands
<1>3. file' # file
  BY <1>2
<1>4. ui' = Tried(d)
  BY <1>3 DEF Accept, NotSaved, manifest
<1> QED
  BY <1>1, <1>4, TriedRests

LEMMA FreshStep ==
    ASSUME Ground, Left, Rests, Absent, FreshGivenUp, ImportedIsWhole, [Next]_vars
    PROVE  FreshGivenUp'
<1>1. SUFFICES ASSUME ui'.fresh, NEW d \in ui'.doc, NEW k \in Job, d \in Files[k],
                      file'[k][d].state = "imported"
               PROVE  GivenUpElsewhere(k, d)'
  BY DEF FreshGivenUp
<1>2. file[k][d].state = "imported"
  <2>1. ~Accept(k, d)
    BY <1>1, AcceptRests DEF Resting
  <2> QED
    BY <1>1, <2>1, FilesMove DEF AllMove, MovesOn
<1>3. CASE ui.fresh /\ ui'.doc = ui.doc
  BY <1>1, <1>2, <1>3, GivenUpStays DEF FreshGivenUp
<1>4. CASE \E j \in Job : \E e \in Files[j] : CreateItem(j, e)
  <2>1. PICK j, e : j \in Job /\ e \in Files[j] /\ CreateItem(j, e)
    BY <1>4
  <2>2. ui'.doc = ui.doc /\ Creates
    BY <2>1 DEF CreateItem, Imports, Creates, Ground, Typed, UiType
  <2>3. Whole(d) = {}
    BY <1>1, <2>2 DEF Absent
  <2>4. GivenUpElsewhere(k, d)
    BY <1>1, <1>2, <2>3 DEF ImportedIsWhole
  <2> QED
    BY <2>4, GivenUpStays
<1> QED
  BY <1>1, <1>3, <1>4, UiSteps DEF UiStep, UiKeeps, Resting, Classifies

\* A whole document goes only if another job gave it up, or if the importer that made
\* it takes it back before it is imported.
LEMMA WholeGoes ==
    ASSUME Ground, Left, Rests, Absent, OwnItem, LeftItems, [Next]_vars,
           NEW d, Whole(d) # {}, Whole(d)' = {}
    PROVE  \/ ui.fresh /\ d \in ui.doc /\ ui.at # "accept"
           \/ \E k \in Job : d \in Files[k] /\ file[k][d].state = "cancelled"
<1>1. ItemTyped /\ ui \in UiType
  BY DEF Ground, Typed
<1>2. PICK i \in Item : Loses(i) /\ Removes(i)
  <2>1. ~UNCHANGED item
    BY DEF Whole, Items
  <2>2. ASSUME NEW j \in Job, NEW e \in Files[j], CreateItem(j, e) PROVE FALSE
    <3>1. PICK i \in Item : item[i] = NoDocument /\ item' = [item EXCEPT ![i] = [doc |-> {e}, whole |-> FALSE]]
      BY <2>2 DEF CreateItem
    <3>2. \A k \in Item : k # i => item'[k] = item[k]
      BY <1>1, <3>1 DEF ItemTyped
    <3>3. ~item[i].whole
      BY <3>1 DEF NoDocument
    <3> QED
      BY <3>2, <3>3 DEF Whole, Items
  <2>3. ASSUME NEW j \in Job, NEW e \in Files[j], RecordFiles(j, e) PROVE FALSE
    <3>1. item' = [item EXCEPT ![ui.item] = [item[ui.item] EXCEPT !.whole = TRUE]]
      BY <2>3 DEF RecordFiles
    <3>2. \A k \in Item : /\ [item[k] EXCEPT !.whole = TRUE].whole
                          /\ [item[k] EXCEPT !.whole = TRUE].doc = item[k].doc
      BY <1>1 DEF ItemTyped
    <3>3. \A k \in Item : item'[k].doc = item[k].doc /\ (item[k].whole => item'[k].whole)
      BY <1>1, <3>1, <3>2 DEF ItemTyped
    <3> QED
      BY <3>3 DEF Whole, Items
  <2> QED
    BY <2>1, <2>2, <2>3, ItemSteps
<1>3. i \in Whole(d)
  BY <1>1, <1>2, LosesEffect
<1>4. item[i].doc = {d} /\ i # NoItem
  BY <1>3, ItemsAreItems DEF Whole, Items
<1>5. CASE i = ui.item
  <2>1. ui.doc = {d}
    <3>1. {d} \subseteq ui.doc
      BY <1>4, <1>5 DEF OwnItem
    <3> QED
      BY <1>1, <3>1 DEF UiType, Maybe
  <2>2. ~Creates
    BY <1>3, <2>1 DEF Absent
  <2>3. CASE ui.fresh /\ ui.at # "accept"
    BY <2>1, <2>3
  <2>4. CASE Damage
    BY <2>1, <2>4 DEF Damage
  <2>5. CASE \E j \in Job : \E e \in Files[j] : DiscardLeftover(j, e) /\ <<j, e, i>> \in rec.left
    BY <1>4, <2>5 DEF Left, LeftItems
  <2> QED
    BY <1>2, <2>2, <2>3, <2>4, <2>5 DEF Removes, DiscardRemnant, ImportFails, Drop, Imports, Creates
<1>6. CASE i # ui.item
  <2>1. PICK j, e : /\ j \in Job /\ e \in Files[j] /\ <<j, e, i>> \in rec.left
    BY <1>2, <1>6 DEF Removes
  <2>2. file[j][e].state = "cancelled" /\ item[i].doc \subseteq {e}
    BY <1>4, <2>1 DEF Left, LeftItems
  <2> QED
    BY <1>4, <2>1, <2>2
<1> QED
  BY <1>5, <1>6

LEMMA AcceptableStep ==
    ASSUME Ground, Left, Rests, Absent, OwnItem, LeftItems, Acceptable, [Next]_vars
    PROVE  Acceptable'
<1>1. SUFFICES ASSUME ui'.at = "accept", NEW j \in ui'.job, NEW d \in ui'.doc
               PROVE  Whole(d)' # {} \/ GivenUpElsewhere(j, d)'
  BY DEF Acceptable
<1>2. CASE \E k \in Job : \E e \in Files[k] : Validate(k, e) /\ Valid(e)
  <2>1. PICK k, e : k \in Job /\ e \in Files[k] /\ Validate(k, e) /\ Valid(e)
    BY <1>2
  <2>2. UNCHANGED item /\ ui'.doc = ui.doc /\ ui.doc = {e}
    BY <2>1, UiMovesKeeps DEF Validate, Imports, Ground, Typed, UiType, UiKeeps
  <2> QED
    BY <1>1, <2>1, <2>2 DEF Valid, Whole, Items
<1>3. CASE UiKeeps /\ ui.at = "accept" /\ ui'.job = ui.job
  <2>1. Whole(d) # {} \/ GivenUpElsewhere(j, d)
    BY <1>1, <1>3 DEF Acceptable, UiKeeps
  <2>2. j \in Job /\ d \in Files[j] /\ file[j][d].state = "importing"
    BY <1>1, <1>3 DEF UiKeeps, Ground, Typed, InImportersHands, UiType, Maybe
  <2>3. CASE Whole(d) # {} /\ Whole(d)' = {}
    <3>1. \E k \in Job : d \in Files[k] /\ file[k][d].state = "cancelled"
      BY <1>3, <2>3, WholeGoes
    <3>2. GivenUpElsewhere(j, d)
      BY <2>2, <3>1 DEF GivenUpElsewhere
    <3> QED
      BY <3>2, GivenUpStays
  <2> QED
    BY <2>1, <2>3, GivenUpStays
<1>4. CASE \E k \in Job : \E e \in Files[k] : CreateItem(k, e)
  BY <1>1, <1>4 DEF CreateItem, Ground, Typed, UiType
<1> QED
  BY <1>1, <1>2, <1>3, <1>4, UiSteps DEF UiStep, Resting, Classifies

LEMMA WholeStep ==
    ASSUME Ground, Left, Sound, [Next]_vars PROVE ImportedIsWhole'
<1>1. SUFFICES ASSUME NEW j \in Job, NEW d \in Files[j], file'[j][d].state = "imported"
               PROVE  Whole(d)' # {} \/ GivenUpElsewhere(j, d)'
  BY DEF ImportedIsWhole
<1>2. CASE Accept(j, d)
  <2>1. Resting' /\ ui.at = "accept" /\ ui.job = {j} /\ ui.doc = {d} /\ UNCHANGED item
    BY <1>1, <1>2, AcceptRests
  <2>2. Whole(d) # {} \/ GivenUpElsewhere(j, d)
    BY <2>1 DEF Sound, Acceptable
  <2>3. Whole(d)' = Whole(d)
    BY <2>1 DEF Whole, Items
  <2> QED
    BY <2>2, <2>3, GivenUpStays
<1>3. CASE file[j][d].state = "imported"
  <2>1. Whole(d) # {} \/ GivenUpElsewhere(j, d)
    BY <1>3 DEF Sound, ImportedIsWhole
  <2>2. CASE Whole(d) # {} /\ Whole(d)' = {}
    <3>1. \/ ui.fresh /\ d \in ui.doc
          \/ \E k \in Job : d \in Files[k] /\ file[k][d].state = "cancelled"
      BY <2>2, WholeGoes DEF Sound
    <3>2. GivenUpElsewhere(j, d)
      BY <1>3, <3>1 DEF Sound, FreshGivenUp, GivenUpElsewhere
    <3> QED
      BY <3>2, GivenUpStays
  <2> QED
    BY <2>1, <2>2, GivenUpStays
<1> QED
  BY <1>1, <1>2, <1>3, FilesMove DEF AllMove, MovesOn

LEMMA AlwaysSound == Spec => []Sound
<1>1. Init => Sound
  <2> SUFFICES ASSUME Init PROVE Sound
    OBVIOUS
  <2>1. \A d : Whole(d) = {}
    BY DEF Init, Whole, Items, NoDocument
  <2>2. \A j \in Job : \A d \in Files[j] : file[j][d].state # "imported"
    BY DEF Init, NoFile
  <2> QED
    BY <2>1, <2>2 DEF Init, Closed, NotListed, Sound, Rests, Absent, Creates, OwnItem, LeftItems,
       FreshGivenUp, Acceptable, ImportedOnce, ImportedIsWhole
<1>2. ASSUME Ground, Left, Sound, [Next]_vars PROVE Sound'
  <2>1. Rests' /\ Absent' /\ OwnItem' /\ LeftItems'
    BY <1>2, RestsStep, AbsentStep, OwnItemStep, LeftItemsStep DEF Sound
  <2>2. FreshGivenUp' /\ Acceptable' /\ ImportedOnce' /\ ImportedIsWhole'
    BY <1>2, FreshStep, AcceptableStep, OnceStep, WholeStep DEF Sound
  <2> QED
    BY <2>1, <2>2 DEF Sound
<1>3. Ground /\ Left /\ Sound /\ [Next]_vars => Sound'
  BY <1>2
<1> QED
  BY <1>1, <1>3, AlwaysGround, PTL DEF Spec

\* A document is in the collection once: the importer creates none while a whole one is
\* there (import.rs, existing_import).
THEOREM OnceImported == Spec => []ImportedOnce
<1>1. Sound => ImportedOnce
  BY DEF Sound
<1> QED
  BY <1>1, AlwaysSound, PTL

\* What a job says it imported is in the collection, whole, unless another job gave it
\* up (import.rs, validate_confirm).
THEOREM WholeImported == Spec => []ImportedIsWhole
<1>1. Sound => ImportedIsWhole
  BY DEF Sound
<1> QED
  BY <1>1, AlwaysSound, PTL
=============================================================================
