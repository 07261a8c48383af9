------------------------- MODULE QueueIntent_proofs -------------------------
(***************************************************************************)
(* Nothing runs after a restart that the user did not ask for again.  It   *)
(* rests on what a batch's state says of the user's intent: a batch at     *)
(* rest is to be paused and one being cancelled is to be cancelled, so a   *)
(* restart, which puts every other open batch at rest, forgets no wish to  *)
(* run.                                                                    *)
(***************************************************************************)
EXTENDS ProcessingQueue_proofs

Resting == {"none", "paused", "pausing", "interrupted"}

\* A batch's state agrees with the intent, and no command is pending that was
\* judged for another state.
Intent ==
    /\ \A b \in Batch :
          /\ batch[b].state \in Resting => batch[b].desired = "pause"
          /\ batch[b].state = "cancelling" => batch[b].desired = "cancel"
    /\ \A b \in Batch, action \in {"pause", "resume"} :
          call = Judged(b, action) => batch[b].state \notin {"none", "cancelling"}

IInv == TypeOK /\ Intent /\ RunsOnlyWhenAsked

-----------------------------------------------------------------------------
(* The steps that leave the intent alone.                                  *)

\* The supervisor moves a batch along the way its intent allows, or ends it.
Moves(bt, new) ==
    \A b \in Batch :
        /\ new[b].desired = bt[b].desired
        /\ \/ new[b].state = bt[b].state
           \/ new[b].state \in Ended
           \/ new[b].state \in {"ready", "running"} /\ bt[b].state \in {"preparing", "ready"}
           \/ new[b].state = "paused" /\ bt[b].state = "pausing" /\ bt[b].desired = "pause"

LEMMA MovesSame == ASSUME NEW bt PROVE Moves(bt, bt)
  BY DEF Moves

LEMMA MovesThenMoves ==
    ASSUME NEW bt, NEW mid, NEW new, Moves(bt, mid), Moves(mid, new)
    PROVE  Moves(bt, new)
  BY DEF Moves, Ended

\* The supervisor's statements about batches.
LEMMA StatementsMove ==
    ASSUME NEW bt \in [Batch -> BatchRow], NEW lk, NEW tk
    PROVE  /\ Moves(bt, PromotePrepared(bt))
           /\ Moves(bt, PromoteReady(bt))
           /\ Moves(bt, ObservePaused(bt, lk, tk))
<1>1. ASSUME NEW b \in Batch, NEW state
      PROVE  /\ [bt[b] EXCEPT !.state = state].state = state
             /\ [bt[b] EXCEPT !.state = state].desired = bt[b].desired
  BY DEF BatchRow
<1> QED
  BY <1>1 DEF Moves, PromotePrepared, PromoteReady, ObservePaused

\* A step that moves batches along, keeps the wishes and takes up no command
\* keeps the invariant.
LEMMA MovesKeepIntent ==
    ASSUME IInv, Moves(batch, batch'), asked' = asked, call' \in {call, NoCall},
           worker'.at # "down" => worker.at # "down"
    PROVE  Intent' /\ RunsOnlyWhenAsked'
<1>1. \A b \in Batch, action \in {"pause", "resume"} : NoCall # Judged(b, action)
  BY DEF NoCall, Judged
<1>2. Intent'
  BY <1>1 DEF IInv, Intent, Moves, Resting, Ended, Judged
<1>3. RunsOnlyWhenAsked'
  BY DEF IInv, RunsOnlyWhenAsked, Moves, Ended
<1> QED
  BY <1>2, <1>3

\* What the supervisor's steps, the watcher and a stop do to batches.
LEMMA WorkMoves ==
    IInv /\ (Supervisor \/ Watch \/ Crash \/ UNCHANGED vars) =>
        /\ Moves(batch, batch')
        /\ asked' = asked /\ call' \in {call, NoCall}
        /\ worker'.at # "down" => worker.at # "down"
<1> SUFFICES ASSUME IInv, Supervisor \/ Watch \/ Crash \/ UNCHANGED vars
             PROVE  /\ Moves(batch, batch')
                    /\ asked' = asked /\ call' \in {call, NoCall}
                    /\ worker'.at # "down" => worker.at # "down"
  OBVIOUS
<1>0. /\ batch \in [Batch -> BatchRow] /\ (\A b \in Batch : batch[b] \in BatchRow)
      /\ worker \in WorkerType
  BY DEF IInv, TypeOK, WorkerType, Places
<1>1. CASE Plan
  <2>1. ASSUME Tick \/ \E b \in Batch : ClassifyPage(b) PROVE Moves(batch, batch')
    BY <2>1, MovesSame DEF Tick, ClassifyPage, tables
  <2>2. ASSUME AdmitPage \/ \E b \in Batch : ClosePlanning(b) PROVE Moves(batch, batch')
    <3>1. \E b : \/ \E left : batch' = [batch EXCEPT ![b].left = left]
                 \/ batch' = [batch EXCEPT ![b].planned = TRUE]
      BY <2>2 DEF AdmitPage, ClosePlanning
    <3>2. ASSUME NEW b \in Batch
          PROVE  batch'[b].desired = batch[b].desired /\ batch'[b].state = batch[b].state
      BY <1>0, <3>1 DEF BatchRow
    <3> QED
      BY <3>2 DEF Moves
  <2>3. ASSUME Promote PROVE Moves(batch, batch')
    <3> DEFINE bt1 == PromotePrepared(batch)
               bt2 == PromoteReady(bt1)
    <3>1. bt1 \in [Batch -> BatchRow] /\ bt2 \in [Batch -> BatchRow]
      BY <1>0, BatchTyped
    <3>2. Moves(batch, bt1)
      BY <1>0, StatementsMove
    <3> HIDE DEF bt1
    <3>3. Moves(bt1, bt2)
      BY <3>1, StatementsMove
    <3> HIDE DEF bt2
    <3>4. Moves(bt2, ObservePaused(bt2, link, task))
      BY <3>1, StatementsMove
    <3>5. batch' = ObservePaused(bt2, link, task)
      BY <2>3 DEF Promote, bt1, bt2
    <3> QED
      BY <3>2, <3>3, <3>4, <3>5, MovesThenMoves
  <2>4. ASSUME PlanningDone PROVE Moves(batch, batch')
    BY <1>0, <2>4, StatementsMove DEF PlanningDone
  <2>5. asked' = asked /\ call' = call /\ worker.at \in {"idle", "plan", "admit", "promote"}
    BY <1>1 DEF Plan, Tick, AdmitPage, Promote, PlanningDone, ClassifyPage, ClosePlanning
  <2> QED
    BY <1>1, <2>1, <2>2, <2>3, <2>4, <2>5 DEF Plan
<1>2. CASE Work
  <2>1. batch' = batch /\ asked' = asked /\ call' = call
    BY <1>2 DEF Work, Claim, NothingToClaim, CheckDemand, ExecutorEnds, Commit, SourceMoved,
               ContractMoved, AttemptFails, Parks, Interrupt, tables
  <2>2. worker.at # "down"
    BY <1>2 DEF Work, Claim, NothingToClaim, CheckDemand, ExecutorEnds, Commit, SourceMoved,
               ContractMoved, AttemptFails, Parks, Interrupt
  <2> QED
    BY <2>1, <2>2, MovesSame
<1>3. CASE Settle
  <2>1. ASSUME NEW b \in Batch, LookAt(b) PROVE Moves(batch, batch')
    <3>1. batch' = batch \/ batch' = ObservePaused(batch, link, task)
      BY <2>1 DEF LookAt
    <3> QED
      BY <1>0, <3>1, MovesSame, StatementsMove
  <2>2. ASSUME Finalize PROVE Moves(batch, batch') /\ worker'.at = worker.at
    <3>1. worker.fate \in Batch \X Ended
      BY <1>0, <2>2 DEF Finalize, WorkerType
    <3>2. worker.fate[1] \in Batch /\ worker.fate[2] \in Ended
      BY <3>1
    <3>3. \A b \in Batch : /\ batch'[b].desired = batch[b].desired
                           /\ \/ batch'[b].state = batch[b].state
                              \/ batch'[b].state = worker.fate[2]
      BY <1>0, <2>2, <3>2 DEF Finalize, BatchRow
    <3>4. worker'.at = worker.at
      BY <1>0, <2>2 DEF Finalize, WorkerType
    <3> QED
      BY <3>2, <3>3, <3>4 DEF Moves
  <2>3. ASSUME LinksDone \/ Sweep PROVE Moves(batch, batch')
    BY <2>3, MovesSame DEF LinksDone, Sweep, tables
  <2>4. /\ asked' = asked /\ call' = call
        /\ (~Finalize => worker.at \in {"links", "open", "sweep"})
    BY <1>3 DEF Settle, LookAt, Finalize, LinksDone, Sweep, tables
  <2> QED
    BY <1>3, <2>1, <2>2, <2>3, <2>4 DEF Settle
<1>4. CASE Watch \/ Crash \/ UNCHANGED vars
  <2>1. batch' = batch /\ asked' = asked /\ call' \in {call, NoCall}
    BY <1>4 DEF Watch, Crash, tables, vars
  <2>2. worker'.at # "down" => worker.at # "down"
    BY <1>0, <1>4 DEF Watch, Crash, At, vars, WorkerType
  <2> QED
    BY <2>1, <2>2, MovesSame
<1> QED
  BY <1>1, <1>2, <1>3, <1>4 DEF Supervisor

-----------------------------------------------------------------------------
(* The commands of the user, and the restart.                              *)

\* A command writes one batch's row; the others keep the invariant.
LEMMA OneRowKeepsIntent ==
    ASSUME IInv, NEW b \in Batch, NEW row, batch' = [batch EXCEPT ![b] = row],
           row.state \in Resting => row.desired = "pause",
           row.state = "cancelling" => row.desired = "cancel",
           row.desired = "run" /\ row.state \notin Ended => b \in asked',
           asked \ {b} \subseteq asked', call' = NoCall, worker' = worker
    PROVE  Intent' /\ RunsOnlyWhenAsked'
<1>1. batch \in [Batch -> BatchRow]
  BY DEF IInv, TypeOK
<1>2. batch'[b] = row /\ \A c \in Batch \ {b} : batch'[c] = batch[c]
  BY <1>1
<1>3. \A c \in Batch, action \in {"pause", "resume"} : NoCall # Judged(c, action)
  BY DEF NoCall, Judged
<1>4. Intent'
  <2>1. ASSUME NEW c \in Batch
        PROVE  /\ batch'[c].state \in Resting => batch'[c].desired = "pause"
               /\ batch'[c].state = "cancelling" => batch'[c].desired = "cancel"
    BY <1>2 DEF IInv, Intent
  <2> QED
    BY <1>3, <2>1 DEF Intent, Judged
<1>5. RunsOnlyWhenAsked'
  BY <1>2 DEF IInv, RunsOnlyWhenAsked
<1> QED
  BY <1>4, <1>5

\* A command that is only judged, or only touches tasks, changes no intent.
LEMMA JudgingKeepsIntent ==
    ASSUME IInv, batch' = batch, asked \subseteq asked', worker' = worker,
           \A b \in Batch, action \in {"pause", "resume"} :
              call' = Judged(b, action) => batch[b].state \notin {"none", "cancelling"}
    PROVE  Intent' /\ RunsOnlyWhenAsked'
  BY DEF IInv, Intent, RunsOnlyWhenAsked, Judged

\* What pausing and resuming write for is a batch the user may still pause.
LEMMA WritableBatch ==
    ASSUME IInv, NEW b \in Batch, NEW action \in {"pause", "resume"}, MayWrite(b, action)
    PROVE  batch[b].state \notin {"none", "cancelling"}
  BY DEF MayWrite, Allows, IInv, Intent

LEMMA UserIntent == IInv /\ User => Intent' /\ RunsOnlyWhenAsked'
<1> SUFFICES ASSUME IInv, User PROVE Intent' /\ RunsOnlyWhenAsked'
  OBVIOUS
<1>0. batch \in [Batch -> BatchRow] /\ \A b \in Batch : batch[b] \in BatchRow
  BY DEF IInv, TypeOK
<1>a. \A b \in Batch, action \in {"pause", "resume"} : NoCall # Judged(b, action)
  BY DEF NoCall, Judged
<1>1. ASSUME NEW b \in Batch, Prepare(b) PROVE Intent' /\ RunsOnlyWhenAsked'
  <2> DEFINE row(scope) == [state |-> "preparing", desired |-> "pause",
                            left |-> scope, planned |-> scope = {}]
  <2>1. PICK scope \in SUBSET Page : batch' = [batch EXCEPT ![b] = row(scope)]
    BY <1>1 DEF Prepare
  <2>2. batch'[b].state = "preparing" /\ batch'[b].desired = "pause"
        /\ \A c \in Batch \ {b} : batch'[c] = batch[c]
    BY <1>0, <2>1
  <2>3. batch[b].state = "none" /\ call' = call /\ asked' = asked /\ worker' = worker
    BY <1>1 DEF Prepare
  <2>4. Intent'
    <3>1. ASSUME NEW c \in Batch
          PROVE  /\ batch'[c].state \in Resting => batch'[c].desired = "pause"
                 /\ batch'[c].state = "cancelling" => batch'[c].desired = "cancel"
      BY <2>2 DEF IInv, Intent
    <3>2. ASSUME NEW c \in Batch, NEW action \in {"pause", "resume"}, call' = Judged(c, action)
          PROVE  batch'[c].state \notin {"none", "cancelling"}
      BY <2>2, <2>3, <3>2 DEF IInv, Intent
    <3> QED
      BY <3>1, <3>2 DEF Intent, Judged
  <2>5. RunsOnlyWhenAsked'
    BY <2>2, <2>3 DEF IInv, RunsOnlyWhenAsked
  <2> QED
    BY <2>4, <2>5
<1>2. ASSUME NEW b \in Batch, Start(b) PROVE Intent' /\ RunsOnlyWhenAsked'
  <2>1. /\ batch'[b].state = "ready" /\ batch'[b].desired = "run"
        /\ \A c \in Batch \ {b} : batch'[c] = batch[c]
        /\ batch[b].state = "ready"
    BY <1>0, <1>2 DEF Start, BatchRow
  <2>2. call' = call /\ asked' = asked \cup {b} /\ worker' = worker
    BY <1>2 DEF Start
  <2>3. Intent'
    <3>1. ASSUME NEW c \in Batch
          PROVE  /\ batch'[c].state \in Resting => batch'[c].desired = "pause"
                 /\ batch'[c].state = "cancelling" => batch'[c].desired = "cancel"
      BY <2>1 DEF IInv, Intent, Resting
    <3>2. ASSUME NEW c \in Batch, NEW action \in {"pause", "resume"}, call' = Judged(c, action)
          PROVE  batch'[c].state \notin {"none", "cancelling"}
      BY <2>1, <2>2, <3>2 DEF IInv, Intent
    <3> QED
      BY <3>1, <3>2 DEF Intent, Judged
  <2>4. RunsOnlyWhenAsked'
    BY <2>1, <2>2 DEF IInv, RunsOnlyWhenAsked
  <2> QED
    BY <2>3, <2>4
<1>3. ASSUME NEW b \in Batch, NEW action \in {"pause", "resume", "cancel"}, ReadBatch(b, action)
      PROVE  Intent' /\ RunsOnlyWhenAsked'
  <2>1. /\ batch' = batch /\ asked' = asked /\ worker' = worker
        /\ call' = Judged(b, action) /\ Allows(b, action)
    BY <1>3 DEF ReadBatch, tables
  <2>2. \A c \in Batch, other \in {"pause", "resume"} :
           call' = Judged(c, other) => c = b /\ action = other
    BY <2>1 DEF Judged
  <2>3. \A c \in Batch, other \in {"pause", "resume"} :
           call' = Judged(c, other) => batch[c].state \notin {"none", "cancelling"}
    BY <2>1, <2>2 DEF Allows
  <2> QED
    BY <2>1, <2>3, JudgingKeepsIntent
<1>4. ASSUME NEW b \in Batch, Pause(b) PROVE Intent' /\ RunsOnlyWhenAsked'
  <2> DEFINE row == [batch[b] EXCEPT !.desired = "pause",
                                     !.state = IF @ = "running" THEN "pausing" ELSE @]
  <2>1. batch[b].state # "cancelling"
    BY <1>4, WritableBatch DEF Pause
  <2>2. row.desired = "pause" /\ row.state # "cancelling"
    BY <1>0, <2>1 DEF BatchRow
  <2>3. /\ batch' = [batch EXCEPT ![b] = row]
        /\ asked \ {b} \subseteq asked' /\ call' = NoCall /\ worker' = worker
    BY <1>0, <1>4 DEF Pause, BatchRow
  <2> HIDE DEF row
  <2> QED
    BY <2>2, <2>3, OneRowKeepsIntent
<1>5. ASSUME NEW b \in Batch, Resume(b) PROVE Intent' /\ RunsOnlyWhenAsked'
  <2> DEFINE row == [batch[b] EXCEPT !.desired = "run",
                                     !.state = IF @ \in {"paused", "pausing", "interrupted"}
                                               THEN IF batch[b].planned THEN "ready"
                                                    ELSE "preparing"
                                               ELSE @]
  <2>1. batch[b].state \notin {"none", "cancelling"}
    BY <1>5, WritableBatch DEF Resume
  <2>2. row.desired = "run" /\ row.state \notin Resting \cup {"cancelling"}
    BY <1>0, <2>1 DEF BatchRow, Resting
  <2>3. /\ batch' = [batch EXCEPT ![b] = row]
        /\ asked' = asked \cup {b} /\ call' = NoCall /\ worker' = worker
    BY <1>0, <1>5 DEF Resume, BatchRow
  <2> HIDE DEF row
  <2> QED
    BY <2>2, <2>3, OneRowKeepsIntent
<1>6. ASSUME NEW b \in Batch, Cancel(b) PROVE Intent' /\ RunsOnlyWhenAsked'
  <2> DEFINE row(state) == [batch[b] EXCEPT !.desired = "cancel", !.state = state]
             cancelling == [batch EXCEPT ![b].desired = "cancel", ![b].state = "cancelling"]
  <2>1. \A bt, tk : Verdict(bt, link', tk, b) \in Ended
    BY DEF Verdict, Ended
  <2>2. \/ batch' = cancelling
        \/ batch' = [cancelling EXCEPT ![b].state = Verdict(cancelling, link', task', b)]
    BY <1>6 DEF Cancel
  <2>3. cancelling = [batch EXCEPT ![b] = row("cancelling")]
    BY <1>0
  <2>4. \A state : /\ [row("cancelling") EXCEPT !.state = state] = row(state)
                   /\ row(state).state = state /\ row(state).desired = "cancel"
    BY <1>0 DEF BatchRow
  <2>5. asked \ {b} \subseteq asked' /\ call' = NoCall /\ worker' = worker
    BY <1>6 DEF Cancel
  <2> HIDE DEF row
  <2>6. \A state : [cancelling EXCEPT ![b].state = state] = [batch EXCEPT ![b] = row(state)]
    BY <1>0, <2>3, <2>4
  <2> HIDE DEF cancelling
  <2>7. PICK state \in Ended \cup {"cancelling"} : batch' = [batch EXCEPT ![b] = row(state)]
    BY <2>1, <2>2, <2>3, <2>6
  <2>8. state \notin Resting
    BY DEF Ended, Resting
  <2> QED
    BY <2>4, <2>5, <2>7, <2>8, OneRowKeepsIntent
<1>7. ASSUME NEW b \in Batch, RetryBatch(b) PROVE Intent' /\ RunsOnlyWhenAsked'
  <2>1. worker' = worker /\ call' = NoCall
    BY <1>7 DEF RetryBatch
  <2>2. CASE batch' = batch /\ asked \subseteq asked'
    BY <1>a, <2>1, <2>2, JudgingKeepsIntent
  <2>3. CASE /\ batch' = [batch EXCEPT ![b] = [batch[b] EXCEPT !.state = "ready",
                                                               !.desired = "run"]]
             /\ asked' = asked \cup {b}
    <3> DEFINE row == [batch[b] EXCEPT !.state = "ready", !.desired = "run"]
    <3>1. row.state = "ready" /\ row.desired = "run"
      BY <1>0 DEF BatchRow
    <3>2. batch' = [batch EXCEPT ![b] = row]
      BY <2>3
    <3> HIDE DEF row
    <3> QED
      BY <2>1, <2>3, <3>1, <3>2, OneRowKeepsIntent DEF Resting
  <2>4. \/ batch' = batch /\ asked \subseteq asked'
        \/ /\ batch' = [batch EXCEPT ![b] = [batch[b] EXCEPT !.state = "ready",
                                                             !.desired = "run"]]
           /\ asked' = asked \cup {b}
    BY <1>0, <1>7 DEF RetryBatch, RunAgain
  <2> QED
    BY <2>2, <2>3, <2>4
<1>8. ASSUME NEW b \in Batch, ListFailed(b) PROVE Intent' /\ RunsOnlyWhenAsked'
  <2>1. /\ batch' = batch /\ asked' = asked /\ worker' = worker
        /\ call'.action = "links"
    BY <1>8 DEF ListFailed, tables
  <2>2. \A c \in Batch, action \in {"pause", "resume"} : call' # Judged(c, action)
    BY <2>1 DEF Judged
  <2> QED
    BY <2>1, <2>2, JudgingKeepsIntent
<1>9. ASSUME ConfigurationFixed PROVE Intent' /\ RunsOnlyWhenAsked'
  <2>1. batch' = batch /\ asked' = asked /\ worker' = worker /\ call' = call
    BY <1>9 DEF ConfigurationFixed
  <2> QED
    BY <2>1, JudgingKeepsIntent DEF IInv, Intent
<1>b. ASSUME NEW b \in Batch, NEW t \in Task, RetryLink(b, t) \/ RetryTask(b, t)
      PROVE  Intent' /\ RunsOnlyWhenAsked'
  <2>1. /\ batch' = batch /\ asked' = asked /\ worker' = worker
        /\ call'= NoCall \/ Written(t, "tasks") \/ Written(t, "batch")
        /\ call.action \in {"links", "tasks"}
    BY <1>b DEF RetryLink, RetryTask, Retrying
  <2>2. call \in [batch : SUBSET Batch, targets : SUBSET Task, left : SUBSET Task,
                 action : {"none", "pause", "resume", "cancel", "links", "tasks", "batch"}]
    BY DEF IInv, TypeOK
  <2>3. call' = NoCall \/ call'.action \in {"links", "tasks", "batch"}
    BY <2>1, <2>2 DEF Written
  <2>4. \A c \in Batch, action \in {"pause", "resume"} : call' # Judged(c, action)
    BY <1>a, <2>3 DEF Judged
  <2> QED
    BY <2>1, <2>4, JudgingKeepsIntent
<1> QED
  BY <1>1, <1>2, <1>3, <1>4, <1>5, <1>6, <1>7, <1>8, <1>9, <1>b DEF User

\* A restart leaves a wish to run on no open batch.
LEMMA RecoverIntent == IInv /\ Recover => Intent' /\ RunsOnlyWhenAsked'
<1> SUFFICES ASSUME IInv, Recover PROVE Intent' /\ RunsOnlyWhenAsked'
  OBVIOUS
<1>0. \A b \in Batch : batch[b] \in BatchRow
  BY DEF IInv, TypeOK
<1>1. batch' = [b \in Batch |-> AfterRestart(batch[b])] /\ call' = call
  BY DEF Recover
<1>2. ASSUME NEW b \in Batch
      PROVE  /\ batch'[b].state \in Resting => batch'[b].desired = "pause"
             /\ batch'[b].state = "cancelling" => batch'[b].desired = "cancel"
             /\ batch'[b].desired = "run" => batch'[b].state \in Ended
             /\ batch'[b].state \in {"none", "cancelling"} =>
                  batch[b].state = batch'[b].state
  <2>1. /\ batch[b].state \in Resting => batch[b].desired = "pause"
        /\ batch[b].state = "cancelling" => batch[b].desired = "cancel"
    BY DEF IInv, Intent
  <2>2. batch'[b] = AfterRestart(batch[b])
    BY <1>1
  <2>3. CASE batch[b].state \in {"running", "ready", "preparing"}
    <3>1. batch'[b].state = "interrupted" /\ batch'[b].desired = "pause"
      BY <1>0, <2>2, <2>3 DEF AfterRestart, BatchRow
    <3> QED
      BY <3>1
  <2>4. CASE batch[b].state = "pausing"
    <3>1. batch'[b].state = "paused" /\ batch'[b].desired = "pause"
      BY <1>0, <2>1, <2>2, <2>4 DEF AfterRestart, BatchRow, Resting
    <3> QED
      BY <3>1
  <2>5. CASE batch[b].state \notin {"running", "ready", "preparing", "pausing"}
    <3>1. batch'[b] = batch[b]
      BY <2>2, <2>5 DEF AfterRestart
    <3>2. batch[b].state \in Resting \cup {"cancelling"} \cup Ended
      BY <1>0, <2>5 DEF BatchRow, Resting
    <3> QED
      BY <2>1, <3>1, <3>2
  <2> QED
    BY <2>3, <2>4, <2>5
<1>3. Intent'
  <2>1. ASSUME NEW b \in Batch, NEW action \in {"pause", "resume"}, call' = Judged(b, action)
        PROVE  batch'[b].state \notin {"none", "cancelling"}
    BY <1>1, <1>2, <2>1 DEF IInv, Intent
  <2> QED
    BY <1>2, <2>1 DEF Intent, Judged
<1>4. RunsOnlyWhenAsked'
  BY <1>2 DEF RunsOnlyWhenAsked
<1> QED
  BY <1>3, <1>4

LEMMA InitIntent == Init => IInv
<1> SUFFICES ASSUME Init PROVE IInv
  OBVIOUS
<1>1. \A b \in Batch : batch[b].state = "none" /\ batch[b].desired = "pause"
  BY DEF Init
<1>2. \A b \in Batch, action \in {"pause", "resume"} : call # Judged(b, action)
  BY DEF Init, NoCall, Judged
<1> QED
  BY <1>1, <1>2, InitTyped DEF IInv, Intent, RunsOnlyWhenAsked

LEMMA NextIntent == IInv /\ [Next]_vars => IInv'
<1> SUFFICES ASSUME IInv, [Next]_vars PROVE IInv'
  OBVIOUS
<1>1. TypeOK'
  BY NextTyped DEF IInv
<1>2. Intent' /\ RunsOnlyWhenAsked'
  BY UserIntent, RecoverIntent, WorkMoves, MovesKeepIntent DEF Next
<1> QED
  BY <1>1, <1>2 DEF IInv

\* After a restart nothing is run, or will be, that the user did not ask for
\* again, however the restart falls between a command's reads and writes
\* (recover_session, control_batch).
THEOREM OnlyAskedRuns == Spec => []RunsOnlyWhenAsked
<1>1. Init => IInv
  BY InitIntent
<1>2. IInv /\ [Next]_vars => IInv'
  BY NextIntent
<1>3. IInv => RunsOnlyWhenAsked
  BY DEF IInv
<1> QED
  BY <1>1, <1>2, <1>3, PTL DEF Spec
=============================================================================
