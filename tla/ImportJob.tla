----------------------------- MODULE ImportJob -----------------------------
(***************************************************************************)
(* Importing documents from the Internet Archive into a collection: jobs   *)
(* and their files (crates/internet-archive/src/job.rs), kept in job.json; *)
(* the runner that downloads and verifies them (internet_archive/          *)
(* runner.rs); the importer of the dialog, which asks Rust to begin, runs  *)
(* the collection's own import and has it confirmed (import.rs,            *)
(* internet-archive-import.ts, corpus/ingest.rs); and what a restart       *)
(* recovers (store.rs) and reconciles.                                     *)
(*                                                                         *)
(* Every action is one write of job.json under its lock, one transaction   *)
(* of the archive, or one file operation.  All jobs import into the same   *)
(* collection.  One dialog is open at a time, and stays until its job has  *)
(* ended.                                                                  *)
(***************************************************************************)
EXTENDS Naturals, FiniteSets

CONSTANTS
    Job,
    Doc,        \* the remote files
    Files,      \* [Job -> SUBSET Doc]: what a job imports
    MaxItem,    \* the largest id of an item
    Faults      \* what may go wrong: download, verify, import, storage (an error of
                \* the disk or the database), damage (an item loses a file)

ASSUME ImportAssumption ==
    /\ Files \in [Job -> (SUBSET Doc) \ {{}}]
    /\ MaxItem \in Nat

VARIABLES
    job,     \* [Job -> the job's state]
    file,    \* [Job -> [Doc -> the file's state, and whether it names a staged file]]
    bytes,   \* staged files on disk, whole, by job and doc
    partial, \* staged files on disk that are still downloaded (<staging>.partial)
    stray,   \* partial files are on disk whose staging name no file has any more
    item,    \* [Item -> a document of the collection: which one, and if it is whole]
    run,     \* the active run: the runner's locals and the cancel signal
    ui,      \* the dialog and its importer
    rec,     \* the startup reconcile
    up       \* the program runs, and its recovery is over

vars == <<job, file, bytes, partial, stray, item, run, ui, rec, up>>
manifest == <<job, file>>
partials == <<partial, stray>>
disk == <<bytes, partials>>

Item == 1 .. MaxItem
NoItem == 0

Terminal == {"completed", "partial", "failed", "cancelled"}
\* "failed" stands for unavailable files too; no code makes a file skipped_duplicate.
Done == {"imported", "failed", "cancelled"}
JobState == Terminal \cup {"none", "draft", "ready", "running", "cancelling"}
FileState == Done \cup {"queued", "downloading", "verifying", "verified", "importing"}
Busy == {"downloading", "verifying", "importing"}

RunStage == {"none", "select", "look", "take", "fetch", "fetched", "passed", "verify",
             "next", "settle", "end"}
\* The stages in which the runner's file has been taken from the queue.
Working == {"fetch", "fetched", "passed", "verify"}
UiStage == {"closed", "idle", "list", "discard", "again", "begin", "create", "record",
            "confirm", "accept", "refuse", "report", "drop"}

\* A document of the collection, when doc is not empty.
NoDocument == [doc |-> {}, whole |-> FALSE]

NoRun == [job |-> {}, at |-> "none", doc |-> {}, cancel |-> FALSE]
Closed == [job |-> {}, at |-> "closed", list |-> {}, doc |-> {}, item |-> NoItem,
           fresh |-> FALSE, tried |-> {}, cancel |-> FALSE]
NotListed == [listed |-> FALSE, left |-> {}]

NoFile == [state |-> "queued", staged |-> FALSE]

Init ==
    /\ job = [j \in Job |-> "none"]
    /\ file = [j \in Job |-> [d \in Files[j] |-> NoFile]]
    /\ bytes = {} /\ partial = {} /\ stray = FALSE
    /\ item = [i \in Item |-> NoDocument]
    /\ run = NoRun
    /\ ui = Closed
    /\ rec = NotListed
    /\ up = TRUE

-----------------------------------------------------------------------------
(* The job's own rules (job.rs), as functions of its state and files.      *)

AllDone(files) == \A d \in DOMAIN files : files[d].state \in Done

\* settle.
Settled(state, files) ==
    IF state # "running" \/ ~AllDone(files) THEN state
    ELSE IF \A d \in DOMAIN files : files[d].state = "imported" THEN "completed"
    ELSE IF \E d \in DOMAIN files : files[d].state = "imported" THEN "partial"
    ELSE "failed"

Cancellable(state) == state \in {"draft", "ready", "running"}
\* Mutation: a file that is being imported is cancelled too.
CancelledImports(state, files) ==
    [d \in DOMAIN files |->
        IF Cancellable(state) /\ files[d].state \in {"queued", "verified", "importing"}
        THEN [state |-> "cancelled", staged |-> FALSE]
        ELSE files[d]]

\* request_cancel and apply_cancel_locked: what waits is cancelled, and what was
\* staged for it is deleted.
CancelledFiles(state, files) ==
    [d \in DOMAIN files |->
        IF Cancellable(state) /\ files[d].state \in {"queued", "verified"}
        THEN [state |-> "cancelled", staged |-> FALSE]
        ELSE files[d]]
Unstaged(j) ==
    IF Cancellable(job[j])
    THEN {<<j, d>> : d \in {e \in Files[j] : file[j][e].state = "verified" /\ file[j][e].staged}}
    ELSE {}

\* request_cancel and finish_cancel_if_idle.
Requested(state) ==
    CASE state \in {"draft", "ready"} -> "cancelled"
      [] state = "running" -> "cancelling"
      [] OTHER -> state
Finished(state, files) ==
    IF state = "cancelling" /\ ~\E d \in DOMAIN files : files[d].state \in Busy
    THEN "cancelled" ELSE state

\* delete_dest_and_partial.
Deleted(entries) ==
    /\ bytes' = bytes \ entries
    /\ partial' = partial \ entries
    /\ UNCHANGED stray

Cancel(j) ==
    /\ file' = [file EXCEPT ![j] = CancelledFiles(job[j], file[j])]
    /\ job' = [job EXCEPT ![j] = Finished(Requested(job[j]), file'[j])]
    /\ Deleted(Unstaged(j))

\* One file moves; its job is looked at when the move is an end.
Moved(j, d, state, staged) ==
    file' = [file EXCEPT ![j][d] = [state |-> state, staged |-> staged]]

-----------------------------------------------------------------------------
(* Commands of the user.                                                   *)

\* ia_prepare_import.
Prepare(j) ==
    /\ up /\ job[j] = "none"
    /\ job' = [job EXCEPT ![j] = "draft"]
    /\ UNCHANGED <<file, disk, item, run, ui, rec, up>>

\* ia_discard_draft.
DiscardDraft(j) ==
    /\ up /\ job[j] = "draft"
    /\ job' = [job EXCEPT ![j] = "none"]
    /\ UNCHANGED <<file, disk, item, run, ui, rec, up>>

\* ia_start_import, from the summary or to resume a job, and the dialog's running
\* phase.
Start(j) ==
    /\ up /\ run = NoRun /\ ui = Closed
    /\ job[j] \in {"draft", "ready", "running"}
    /\ job' = [job EXCEPT ![j] = "running"]
    /\ run' = [NoRun EXCEPT !.job = {j}, !.at = "select"]
    /\ ui' = [Closed EXCEPT !.job = {j}, !.at = "idle"]
    /\ UNCHANGED <<file, disk, item, rec, up>>

\* ia_cancel_import: the runner of the job is told, or the job is cancelled here.
CancelImport(j) ==
    /\ ui.job = {j} /\ job[j] \notin Terminal
    /\ ui' = [ui EXCEPT !.cancel = TRUE]
    /\ \/ /\ run.job = {j}
          /\ run' = [run EXCEPT !.cancel = TRUE]
          /\ UNCHANGED <<manifest, disk>>
       \/ /\ run.job # {j}
          /\ Cancel(j)
          /\ UNCHANGED run
    /\ UNCHANGED <<item, rec, up>>

-----------------------------------------------------------------------------
(* The runner (run_job).  j is its job, d the file it works on.            *)

Runs(at, j) == run.job = {j} /\ run.at = at
Works(at, j, d) == Runs(at, j) /\ run.doc = {d}

RunMoves(at) == run' = [run EXCEPT !.at = at]
RunDrops(at) == run' = [run EXCEPT !.at = at, !.doc = {}]

\* A queued file is chosen under the lock: the first one, of files in any order.
Select(j) ==
    /\ Runs("select", j)
    /\ \/ job[j] \in Terminal /\ RunMoves("end")
       \/ /\ job[j] \notin Terminal
          /\ \E d \in Files[j] :
               /\ file[j][d].state = "queued"
               /\ run' = [run EXCEPT !.at = "look", !.doc = {d}]
       \/ /\ job[j] \notin Terminal
          /\ ~\E d \in Files[j] : file[j][d].state = "queued"
          /\ RunMoves("settle")
    /\ UNCHANGED <<manifest, disk, item, ui, rec, up>>

\* The signal is looked at without a lock.
Look(j) ==
    /\ Runs("look", j)
    /\ \/ run.cancel /\ Cancel(j) /\ RunDrops("settle")
       \/ ~run.cancel /\ RunMoves("take") /\ UNCHANGED <<manifest, disk>>
    /\ UNCHANGED <<item, ui, rec, up>>

\* The chosen file gets a fresh staging name and is downloaded, also when a cancel was
\* sent since the look.
Take(j, d) ==
    /\ Works("take", j, d)
    /\ IF file[j][d].state = "queued"
       THEN Moved(j, d, "downloading", TRUE) /\ RunMoves("fetch")
       ELSE RunDrops("select") /\ UNCHANGED file
    /\ UNCHANGED <<job, disk, item, ui, rec, up>>

\* The download streams into <staging>.partial; an attempt that fails and is made again
\* deletes it first.
Stream(j, d) ==
    /\ Works("fetch", j, d)
    /\ \/ partial' = partial \cup {<<j, d>>}
       \/ "download" \in Faults /\ partial' = partial \ {<<j, d>>}
    /\ UNCHANGED <<manifest, bytes, stray, item, run, ui, rec, up>>

\* The download ends and its partial is renamed; with the cancel signal up its future
\* may be dropped.
Fetched(j, d) ==
    /\ Works("fetch", j, d)
    /\ <<j, d>> \in partial
    /\ bytes' = bytes \cup {<<j, d>>}
    /\ partial' = partial \ {<<j, d>>}
    /\ RunMoves("fetched")
    /\ UNCHANGED <<manifest, stray, item, ui, rec, up>>

FetchFails(j, d) ==
    /\ Works("fetch", j, d)
    /\ "download" \in Faults
    /\ Moved(j, d, "failed", FALSE)
    /\ Deleted({<<j, d>>})
    /\ RunDrops("next")
    /\ UNCHANGED <<job, item, ui, rec, up>>

\* cancel_with_interrupted_via_update.
Interrupted(j, d) ==
    /\ run.cancel
    /\ Works("fetch", j, d) \/ Works("fetched", j, d)
    /\ file' = [file EXCEPT ![j] = [CancelledFiles(job[j], file[j]) EXCEPT
                                      ![d] = [state |-> "cancelled", staged |-> FALSE]]]
    /\ job' = [job EXCEPT ![j] = Finished(Requested(job[j]), file'[j])]
    /\ Deleted(Unstaged(j) \cup {<<j, d>>})
    /\ RunDrops("settle")
    /\ UNCHANGED <<item, ui, rec, up>>

\* Nobody cancelled yet: the downloaded file is going to be verified.
Passed(j, d) ==
    /\ Works("fetched", j, d)
    /\ ~run.cancel
    /\ RunMoves("passed")
    /\ UNCHANGED <<manifest, disk, item, ui, rec, up>>

Verify(j, d) ==
    /\ Works("passed", j, d)
    /\ Moved(j, d, "verifying", TRUE)
    /\ RunMoves("verify")
    /\ UNCHANGED <<job, disk, item, ui, rec, up>>

Verified(j, d) ==
    /\ Works("verify", j, d)
    /\ \/ Moved(j, d, "verified", TRUE) /\ UNCHANGED disk
       \/ /\ "verify" \in Faults
          /\ Moved(j, d, "failed", FALSE)
          /\ Deleted({<<j, d>>})
    /\ RunDrops("next")
    /\ UNCHANGED <<job, item, ui, rec, up>>

\* Between two files the signal is looked at.
Between(j) ==
    /\ Runs("next", j)
    /\ \/ run.cancel /\ Cancel(j) /\ RunMoves("settle")
       \/ ~run.cancel /\ RunMoves("select") /\ UNCHANGED <<manifest, disk>>
    /\ UNCHANGED <<item, ui, rec, up>>

SettleRun(j) ==
    /\ Runs("settle", j)
    /\ job' = [job EXCEPT ![j] = Settled(@, file[j])]
    /\ RunMoves("end")
    /\ UNCHANGED <<file, disk, item, ui, rec, up>>

\* Mutation: the run is unregistered without a last look at its signal.
EndDeaf(j) ==
    /\ Runs("end", j)
    /\ run' = NoRun
    /\ UNCHANGED <<manifest, disk, item, ui, rec, up>>

\* The run is unregistered; a signal that came too late for it is obeyed first
\* (apply_end_of_run_cancel).
End(j) ==
    /\ Runs("end", j)
    /\ IF run.cancel /\ job[j] \notin Terminal THEN Cancel(j)
       ELSE UNCHANGED <<manifest, disk>>
    /\ run' = NoRun
    /\ UNCHANGED <<item, ui, rec, up>>

-----------------------------------------------------------------------------
(* The collection.                                                         *)

Items(d) == {i \in Item : item[i].doc = {d}}
Whole(d) == {i \in Items(d) : item[i].whole}
Least(items) == CHOOSE i \in items : \A k \in items : i <= k

\* Mutation: a document that is already whole is not found.
ExistingRemnant(d) ==
    LET remnants == Items(d) \ Whole(d)
    IN  IF remnants # {} THEN Least(remnants) ELSE NoItem

\* existing_import: the first whole item of the document, or its first remnant.
Existing(d) ==
    IF Whole(d) # {} THEN Least(Whole(d))
    ELSE IF Items(d) # {} THEN Least(Items(d)) ELSE NoItem

\* discard and discardFailedImport: the assets and the item, then the item's files; an
\* error of either half, or of both, is only logged.
Discards(i) ==
    \/ i # NoItem /\ item' = [item EXCEPT ![i] = NoDocument]
    \/ i # NoItem /\ "storage" \in Faults /\ item' = [item EXCEPT ![i].whole = FALSE]
    \/ (i = NoItem \/ "storage" \in Faults) /\ UNCHANGED item

-----------------------------------------------------------------------------
(* The importer of the dialog.                                             *)

Imports(at, j, d) == ui.job = {j} /\ ui.at = at /\ ui.doc = {d}

UiMoves(at) == ui' = [ui EXCEPT !.at = at]

\* The importer is done with the file, for this run of the dialog.
Tried(d) == [ui EXCEPT !.at = "list", !.doc = {}, !.item = NoItem, !.fresh = FALSE,
                       !.tried = @ \cup {d}]

\* maybeImport and importVerifiedFiles: once a verified file was not tried yet, all
\* that are verified are gone through.
ListVerified(j) ==
    LET verified == {d \in Files[j] : file[j][d].state = "verified"}
    IN  /\ ui.job = {j} /\ ui.at = "idle"
        /\ ~(verified \subseteq ui.tried)
        /\ ui' = [ui EXCEPT !.at = "list", !.list = verified]
        /\ UNCHANGED <<manifest, disk, item, run, rec, up>>

ListDone(j) ==
    /\ ui.job = {j} /\ ui.at = "list"
    /\ ui.list = {} \/ ui.cancel
    /\ ui' = [ui EXCEPT !.at = "idle", !.list = {}]
    /\ UNCHANGED <<manifest, disk, item, run, rec, up>>

\* begin_file_import, up to its classification.  Asked again, the importer takes
\* any answer but a remnant for a fresh import.
Classified(j, d, again) ==
    IF file[j][d].state # "verified" \/ <<j, d>> \notin bytes THEN Tried(d)
    ELSE LET found == Existing(d)
         IN  IF found = NoItem \/ found \in Whole(d)
             THEN [ui EXCEPT !.at = "begin", !.doc = {d}, !.item = IF again THEN NoItem ELSE found]
             ELSE IF again THEN Tried(d)
             ELSE [ui EXCEPT !.at = "discard", !.doc = {d}, !.item = found]

Begin(j, d) ==
    /\ ui.job = {j} /\ ui.at = "list"
    /\ ~ui.cancel
    /\ d \in ui.list
    /\ ui' = [Classified(j, d, FALSE) EXCEPT !.list = @ \ {d}]
    /\ UNCHANGED <<manifest, disk, item, run, rec, up>>

\* The remnant is removed and the file begun once more.
DiscardRemnant(j, d) ==
    /\ Imports("discard", j, d)
    /\ Discards(ui.item)
    /\ ui' = [ui EXCEPT !.at = "again", !.item = NoItem]
    /\ UNCHANGED <<manifest, disk, run, rec, up>>

BeginAgain(j, d) ==
    /\ Imports("again", j, d)
    /\ ui' = Classified(j, d, TRUE)
    /\ UNCHANGED <<manifest, disk, item, run, rec, up>>

\* begin_file_import, its write.
Importing(j, d) ==
    /\ Imports("begin", j, d)
    /\ \/ /\ file[j][d].state = "verified"
          /\ Moved(j, d, "importing", file[j][d].staged)
          /\ UiMoves(IF ui.item = NoItem THEN "create" ELSE "confirm")
       \/ /\ file[j][d].state # "verified"
          /\ ui' = Tried(d)
          /\ UNCHANGED file
    /\ UNCHANGED <<job, disk, item, run, rec, up>>

\* import_file: the item with its provenance, then its files.
CreateItem(j, d) ==
    /\ Imports("create", j, d)
    /\ \E i \in Item :
         /\ item[i] = NoDocument
         /\ \A e \in rec.left : e[3] # i
         /\ item' = [item EXCEPT ![i] = [doc |-> {d}, whole |-> FALSE]]
         /\ ui' = [ui EXCEPT !.at = "record", !.item = i, !.fresh = TRUE]
    /\ UNCHANGED <<manifest, disk, run, rec, up>>

RecordFiles(j, d) ==
    /\ Imports("record", j, d)
    /\ item[ui.item].doc = {d}
    /\ item' = [item EXCEPT ![ui.item].whole = TRUE]
    /\ UiMoves("confirm")
    /\ UNCHANGED <<manifest, disk, run, rec, up>>

\* A failed import removes what it created.
ImportFails(j, d) ==
    /\ \/ Imports("create", j, d) /\ "import" \in Faults
       \/ Imports("record", j, d) /\ ("import" \in Faults \/ item[ui.item].doc # {d})
    /\ Discards(ui.item)
    /\ UiMoves("report")
    /\ UNCHANGED <<manifest, disk, run, rec, up>>

\* Mutation: what was staged for a file that ends is left where it is.
EndsStaged(j, d, state) ==
    /\ Moved(j, d, state, FALSE)
    /\ job' = [job EXCEPT ![j] = Settled(@, file'[j])]
    /\ UNCHANGED disk

\* The file ends, what was staged for it is deleted and its job looked at.  An error
\* when it is saved comes after the delete.
Ends(j, d, state) ==
    /\ Moved(j, d, state, FALSE)
    /\ job' = [job EXCEPT ![j] = Settled(@, file'[j])]
    /\ bytes' = bytes \ {<<j, d>>}
    /\ UNCHANGED partials
NotSaved(j, d) ==
    /\ "storage" \in Faults
    /\ bytes' = bytes \ {<<j, d>>}
    /\ UNCHANGED <<manifest, partials>>

\* fail_file_import.
Report(j, d) ==
    /\ Imports("report", j, d)
    /\ IF file[j][d].state = "importing" THEN Ends(j, d, "failed") \/ NotSaved(j, d)
       ELSE UNCHANGED <<manifest, disk>>
    /\ ui' = Tried(d)
    /\ UNCHANGED <<item, run, rec, up>>

\* Mutation: any item of the document is good enough.
ValidAtAll(d) == ui.item \in Items(d)

\* validate_confirm.
Valid(d) == ui.item \in Whole(d)

\* confirm_file_imported, its validation.
Validate(j, d) ==
    /\ Imports("confirm", j, d)
    /\ \/ UiMoves(IF Valid(d) THEN "accept" ELSE "refuse")
       \/ "storage" \in Faults /\ UiMoves("drop")
    /\ UNCHANGED <<manifest, disk, item, run, rec, up>>

\* confirm_file_imported, its write: the file is imported, or goes back to verified.
Accept(j, d) ==
    /\ Imports("accept", j, d)
    /\ IF file[j][d].state = "importing"
       THEN \/ Ends(j, d, "imported") /\ ui' = Tried(d)
            \/ NotSaved(j, d) /\ UiMoves("drop")
       ELSE UiMoves("drop") /\ UNCHANGED <<manifest, disk>>
    /\ UNCHANGED <<item, run, rec, up>>

Refuse(j, d) ==
    /\ Imports("refuse", j, d)
    /\ IF file[j][d].state = "importing" THEN Moved(j, d, "verified", file[j][d].staged)
       ELSE UNCHANGED file
    /\ UiMoves("drop")
    /\ UNCHANGED <<job, disk, item, run, rec, up>>

\* dropUnconfirmed: an item that was there before is kept.
Drop(j, d) ==
    /\ Imports("drop", j, d)
    /\ IF ui.fresh THEN Discards(ui.item) ELSE UNCHANGED item
    /\ ui' = Tried(d)
    /\ UNCHANGED <<manifest, disk, run, rec, up>>

\* checkDone: the dialog's job has ended.
CloseDialog(j) ==
    /\ ui.job = {j} /\ ui.at = "idle"
    /\ job[j] \in Terminal
    /\ ui' = Closed
    /\ UNCHANGED <<manifest, disk, item, run, rec, up>>

\* A page of the new document is gone from disk before its import is confirmed.
Damage ==
    /\ "damage" \in Faults
    /\ ui.at = "confirm" /\ ui.fresh /\ item[ui.item].whole
    /\ item' = [item EXCEPT ![ui.item].whole = FALSE]
    /\ UNCHANGED <<manifest, disk, run, ui, rec, up>>

-----------------------------------------------------------------------------
(* Restarts.                                                               *)

\* Staged files a write of job.json is about to forget: they are deleted before it is
\* saved.
Forgotten ==
    UNION {Unstaged(j) : j \in ui.job \cup run.job}
    \cup IF run.at \in Working THEN run.job \X run.doc ELSE {}
    \cup IF ui.at \in {"accept", "report"} THEN ui.job \X ui.doc ELSE {}

\* The runner, the importer and the reconcile are gone, maybe in such a write.  What was
\* downloaded of a file stays on disk.
Crash ==
    /\ up
    /\ up' = FALSE
    /\ \E deleted \in SUBSET Forgotten : Deleted(deleted)
    /\ run' = NoRun
    /\ ui' = Closed
    /\ rec' = NotListed
    /\ UNCHANGED <<manifest, item>>

\* normalize_after_restart.
Normalized(state, files) ==
    [d \in DOMAIN files |->
        CASE state = "running" /\ files[d].state \in {"downloading", "verifying"} -> NoFile
          [] state = "running" /\ files[d].state = "importing" ->
               [files[d] EXCEPT !.state = "verified"]
          [] state = "cancelling" /\ files[d].state \notin Done ->
               [files[d] EXCEPT !.state = "cancelled"]
          [] OTHER -> files[d]]

\* recover_all: the jobs are normalized, and the whole staged files that no file names,
\* or only a file that was just cancelled does, are deleted.  No partial file is, not
\* even one of a name that a file just lost.
Recover ==
    /\ ~up
    /\ file' = [j \in Job |-> Normalized(job[j], file[j])]
    /\ job' = [j \in Job |-> CASE job[j] = "running" -> "ready"
                               [] job[j] = "cancelling" -> "cancelled"
                               [] OTHER -> job[j]]
    /\ bytes' = {e \in bytes :
                   /\ file'[e[1]][e[2]].staged
                   /\ job[e[1]] = "cancelling" => file[e[1]][e[2]].state \in Done \cup {"importing"}}
    /\ partial' = {e \in partial : file'[e[1]][e[2]].staged}
    /\ stray' = (stray \/ partial' # partial)
    /\ up' = TRUE
    /\ UNCHANGED <<item, run, ui, rec>>

\* durable_entries: a cancelled file that names a staged file is an import that was
\* under way.
Open == {e \in Job \X Doc : /\ e[2] \in Files[e[1]]
                           /\ file[e[1]][e[2]].state = "cancelled"
                           /\ file[e[1]][e[2]].staged}

Remnant(d) == IF Whole(d) = {} THEN Existing(d) ELSE NoItem

\* list_reconcile, once in a session.
ListReconcile ==
    /\ up /\ ~rec.listed
    /\ rec' = [listed |-> TRUE, left |-> {<<e[1], e[2], Remnant(e[2])>> : e \in Open}]
    /\ UNCHANGED <<manifest, disk, item, run, ui, up>>

\* resolveReconcileLeftovers: the remnant of an entry is removed, by the listing.
DiscardLeftover(j, d) ==
    /\ \E i \in Item :
         /\ <<j, d, i>> \in rec.left
         /\ i # NoItem
         /\ Discards(i)
         /\ rec' = [rec EXCEPT !.left = (@ \ {<<j, d, i>>}) \cup {<<j, d, NoItem>>}]
    /\ UNCHANGED <<manifest, disk, run, ui, up>>

\* finish_reconcile: the entry is released unless a remnant is still there.
Release(j, d) ==
    /\ <<j, d, NoItem>> \in rec.left
    /\ rec' = [rec EXCEPT !.left = @ \ {<<j, d, NoItem>>}]
    /\ IF Items(d) # {} /\ Whole(d) = {} THEN UNCHANGED <<file, disk>>
       ELSE /\ file' = [file EXCEPT ![j][d].staged = FALSE]
            /\ Deleted({<<j, d>>})
    /\ UNCHANGED <<job, item, run, ui, up>>

-----------------------------------------------------------------------------
User ==
    \E j \in Job : Prepare(j) \/ DiscardDraft(j) \/ Start(j) \/ CancelImport(j)

Runner ==
    \E j \in Job :
        \/ Select(j) \/ Look(j) \/ Between(j) \/ SettleRun(j) \/ End(j)
        \/ \E d \in Files[j] :
             \/ Take(j, d) \/ Stream(j, d) \/ Fetched(j, d) \/ FetchFails(j, d)
             \/ Interrupted(j, d) \/ Passed(j, d) \/ Verify(j, d) \/ Verified(j, d)

Importer ==
    \E j \in Job :
        \/ ListVerified(j) \/ ListDone(j) \/ CloseDialog(j)
        \/ \E d \in Files[j] :
             \/ Begin(j, d) \/ DiscardRemnant(j, d) \/ BeginAgain(j, d) \/ Importing(j, d)
             \/ CreateItem(j, d) \/ RecordFiles(j, d) \/ ImportFails(j, d) \/ Report(j, d)
             \/ Validate(j, d) \/ Accept(j, d) \/ Refuse(j, d) \/ Drop(j, d)

Reconcile ==
    \/ ListReconcile
    \/ \E j \in Job : \E d \in Files[j] : DiscardLeftover(j, d) \/ Release(j, d)

Next == User \/ Runner \/ Importer \/ Reconcile \/ Damage \/ Crash \/ Recover

Spec == Init /\ [][Next]_vars

-----------------------------------------------------------------------------
Maybe(S) == {{}} \cup {{x} : x \in S}

InRunnersHands ==
    \A j \in run.job : \A d \in run.doc :
        /\ d \in Files[j]
        /\ file[j][d].state \in IF run.at \in Working THEN {"downloading", "verifying"}
                                                      ELSE {"queued"}
InImportersHands ==
    ui.at \in {"create", "record", "confirm", "accept", "refuse", "report"} =>
        \A j \in ui.job : \A d \in ui.doc :
            d \in Files[j] /\ file[j][d].state = "importing"

\* Types.  And whoever works on a file has it in the state that says so: no cancel or
\* restart takes a file out of the hands of the runner or the importer.
TypeOK ==
    /\ job \in [Job -> JobState]
    /\ DOMAIN file = Job
    /\ \A j \in Job : file[j] \in [Files[j] -> [state : FileState, staged : BOOLEAN]]
    /\ bytes \cup partial \subseteq Job \X Doc
    /\ stray \in BOOLEAN
    /\ item \in [Item -> [doc : Maybe(Doc), whole : BOOLEAN]]
    /\ run \in [job : Maybe(Job), at : RunStage, doc : Maybe(Doc), cancel : BOOLEAN]
    /\ ui \in [job : Maybe(Job), at : UiStage, list : SUBSET Doc, doc : Maybe(Doc),
               item : Item \cup {NoItem}, fresh : BOOLEAN, tried : SUBSET Doc,
               cancel : BOOLEAN]
    /\ rec \in [listed : BOOLEAN, left : SUBSET (Job \X Doc \X (Item \cup {NoItem}))]
    /\ up \in BOOLEAN
    /\ InRunnersHands
    /\ InImportersHands

\* A document is in the collection once, although the importer tells the collection
\* not to look for duplicates, imports stop anywhere and are begun again, and two jobs
\* may hold the same file.
ImportedOnce == \A d \in Doc : \A i, k \in Whole(d) : i = k

\* The one exception: another job gave the document up, and the reconcile that follows
\* removes its remnant by a listing that may be old.
GivenUpElsewhere(j, d) ==
    \E k \in Job \ {j} : d \in Files[k] /\ file[k][d].state = "cancelled"

\* A file that says it was imported has its document, whole, in the collection.
ImportedIsWhole ==
    \A j \in Job : \A d \in Files[j] :
        file[j][d].state = "imported" => Whole(d) # {} \/ GivenUpElsewhere(j, d)

\* While the program is up, whatever is staged, whole or partly downloaded, is named by
\* the file it was staged for, and so is found by its end, its cancel or the reconcile.
\* The exception is stray: the partial of a download that the program's stop interrupted.
StagingIsNamed == up => \A e \in bytes \cup partial : file[e[1]][e[2]].staged

\* A run that was told to cancel, whenever it was told, does not end with work left to
\* its job: no file waits for the runner or is in its hands, not even one it took after
\* it was told, and the job has ended or waits for a file that is being imported.
CancelIsHeard ==
    [][\A j \in run.job : run.cancel /\ run'.job = {} /\ up' =>
          /\ \A d \in Files[j] : file'[j][d].state \notin {"queued", "downloading", "verifying"}
          /\ \/ job'[j] \in Terminal
             \/ job'[j] = "cancelling" /\ \E d \in Files[j] : file'[j][d].state = "importing"]_vars
=============================================================================
