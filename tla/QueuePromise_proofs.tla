------------------------ MODULE QueuePromise_proofs ------------------------
(***************************************************************************)
(* The processing queue keeps UnitWork's promise, and what that rests on:  *)
(* the running task is the one in the worker's hands, a unit has one live  *)
(* task, and a page a batch has still to plan has no task of that batch.   *)
(* Each step of the system is first put into one of six sorts; the         *)
(* invariants and the promise are then shown sort by sort.                 *)
(***************************************************************************)
EXTENDS ProcessingQueue_proofs

-----------------------------------------------------------------------------
(* The inductive invariant.                                                *)

\* A page left to plan was not planned, and the page classified is left.
Fresh ==
    /\ \A b \in Batch : batch[b].state = "none" => batch[b].left = {}
    /\ \A b \in Batch, p \in Page, k \in Kind :
          batch[b].state = "none" \/ p \in batch[b].left => task[<<b, <<p, k>>>>].state = "absent"
    /\ worker.at = "admit" => worker.page[2] \in batch[worker.page[1]].left

IInv == TypeOK /\ HolderIsCurrent /\ OneFlight /\ Fresh

-----------------------------------------------------------------------------
(* The sorts of steps.                                                     *)

SameHands ==
    /\ worker'.at \in Holding <=> worker.at \in Holding
    /\ worker.at \in Holding => worker'.task = worker.task
    /\ worker'.at = "down" <=> worker.at = "down"

CalmBut(t) ==
    \A d \in Task \ {t} :
        /\ task'[d].state = "running" <=> task[d].state = "running"
        /\ task'[d].state = "succeeded" <=> task[d].state = "succeeded"
        /\ task'[d].state = "absent" <=> task[d].state = "absent"
        /\ task'[d].state \in Live => task[d].state \in Live

Quiet == SameHands /\ Calm(task, task')

Grows ==
    /\ SameHands
    /\ \A t \in Task : /\ task'[t].state = "running" <=> task[t].state = "running"
                       /\ task'[t].state = "succeeded" <=> task[t].state = "succeeded"
                       /\ task[t].state \in Live => task'[t].state \in Live
    /\ UniqueIndexHolds(task')

PicksUp(t) ==
    /\ worker.at = "claim" /\ worker'.at = "check" /\ worker'.task = t
    /\ task[t].state \in {"pending", "retry_wait"} /\ task'[t].state = "running"
    /\ \A d \in Task \ {t} : task'[d] = task[d]
    /\ ExecutionWanted(batch, link, t)

Drops ==
    /\ worker.at \in Holding /\ worker'.at \in {"links", "sweep"}
    /\ task'[worker.task].state \in Waiting \cup {"failed"}
    /\ CalmBut(worker.task)

Publishes ==
    /\ worker.at \in Holding /\ worker'.at \in {"links", "sweep"}
    /\ task'[worker.task].state = "succeeded"
    /\ CalmBut(worker.task)
    /\ StillWanted

Stops == worker.at # "down" /\ worker'.at = "down" /\ task' = task

Restarts ==
    /\ worker.at = "down" /\ worker'.at = "idle"
    /\ \A t \in Task : /\ task'[t].state # "running"
                       /\ task'[t].state = "succeeded" <=> task[t].state = "succeeded"
                       /\ task'[t].state = "absent" <=> task[t].state = "absent"
                       /\ task'[t].state \in Live => task[t].state \in Live

Sorts == \/ Quiet \/ Grows \/ Drops \/ Publishes \/ Stops \/ Restarts
         \/ \E t \in Task : PicksUp(t)

\* A step that leaves the tasks alone, and the worker where it is, is quiet.
LEMMA StillQuiet ==
    ASSUME task' = task, worker'.at = worker.at, worker'.task = worker.task
    PROVE  Quiet
  BY DEF Quiet, SameHands, Calm

\* So is one between two places where the worker holds nothing.
LEMMA IdleQuiet ==
    ASSUME worker.at \in Idle \ {"down"}, worker'.at \in Idle \ {"down"}, Calm(task, task')
    PROVE  Quiet
  BY DEF Quiet, SameHands, Idle, Holding

\* And one between two places where it holds the same unit.
LEMMA HeldQuiet ==
    ASSUME worker.at \in Holding, worker'.at \in Holding, worker'.task = worker.task, task' = task
    PROVE  Quiet
  BY DEF Quiet, SameHands, Calm, Idle, Holding

LEMMA CalmSame == Calm(task, task)
  BY DEF Calm

\* The task in the worker's hands is running.
LEMMA HeldRuns ==
    ASSUME IInv, worker.at \in Holding
    PROVE  worker.task \in Task /\ task[worker.task].state = "running"
  BY DEF IInv, TypeOK, HolderIsCurrent, Holding

-----------------------------------------------------------------------------
(* Every step is of one of the sorts.                                      *)

LEMMA ReopenGrows ==
    ASSUME IInv, NEW b \in Batch, NEW u \in Task, RetryTask(b, u)
    PROVE  Grows
<1>1. task \in [Task -> TaskRow] /\ UniqueIndexHolds(task) /\ worker' = worker
  BY DEF IInv, TypeOK, OneFlight, RetryTask
<1>2. /\ task' = task \/ task' = Reopened({u})
      /\ UniqueIndexHolds(task')
  BY <1>1 DEF RetryTask
<1>3. task' = task \/ task' = Reopened({u})
  BY <1>2
<1>4. \A t \in Task : \/ task'[t] = task[t]
                      \/ task[t].state = "failed" /\ task'[t].state = "pending"
  BY <1>1, <1>3, NewTaskTyped DEF Reopened
<1> QED
  BY <1>1, <1>2, <1>4 DEF Grows, SameHands, Live, Waiting

\* The other commands set nothing up and hold nothing.
LEMMA UserQuiet == IInv /\ User /\ (~\E b \in Batch, t \in Task : RetryTask(b, t)) => Quiet
<1> SUFFICES ASSUME IInv, User, ~\E b \in Batch, t \in Task : RetryTask(b, t) PROVE Quiet
  OBVIOUS
<1>0. task \in [Task -> TaskRow]
  BY DEF IInv, TypeOK
<1>1. ASSUME NEW b \in Batch,
             \/ Prepare(b) \/ Start(b) \/ Pause(b) \/ ListFailed(b) \/ RetryBatch(b)
             \/ \E t \in Task : RetryLink(b, t)
             \/ \E action \in {"pause", "resume", "cancel"} : ReadBatch(b, action)
      PROVE  Quiet
  BY <1>1, StillQuiet DEF Prepare, Start, Pause, ListFailed, RetryBatch, RetryLink,
                              ReadBatch, tables
<1>2. ASSUME NEW b \in Batch, Resume(b) PROVE Quiet
  <2>1. \A t \in Task : \/ task'[t] = task[t]
                        \/ /\ task[t].state \in {"interrupted", "blocked"}
                           /\ task'[t].state = "pending"
    <3>1. \A t \in Task : /\ Requeued(task[t]) \in TaskRow
                          /\ Requeued(task[t]).state = "pending"
      BY <1>0, RequeuedTyped
    <3>2. \A t \in Task : \A n : [Requeued(task[t]) EXCEPT !.changes = n].state = "pending"
      BY <3>1 DEF TaskRow
    <3> QED
      BY <1>0, <1>2, <3>2 DEF Resume, ResumedTasks
  <2> QED
    BY <1>2, <2>1 DEF Resume, Quiet, SameHands, Calm, Live, Waiting
<1>3. ASSUME NEW b \in Batch, Cancel(b) PROVE Quiet
  <2>1. Calm(task, task')
    BY <1>0, <1>3, CancelOrphansCalm DEF Cancel
  <2> QED
    BY <1>3, <2>1 DEF Cancel, Quiet, SameHands
<1>4. ASSUME ConfigurationFixed PROVE Quiet
  <2>1. \A t \in Task : \/ task'[t] = task[t]
                        \/ task[t].state = "blocked" /\ task'[t].state = "pending"
    BY <1>0, <1>4, RequeuedTyped DEF ConfigurationFixed
  <2> QED
    BY <1>4, <2>1 DEF ConfigurationFixed, Quiet, SameHands, Calm, Live, Waiting
<1> QED
  BY <1>1, <1>2, <1>3, <1>4 DEF User

LEMMA UserSort == IInv /\ User => Quiet \/ Grows
<1>1. ASSUME IInv, NEW b \in Batch, NEW t \in Task, RetryTask(b, t) PROVE Grows
  BY <1>1, ReopenGrows
<1> QED
  BY <1>1, UserQuiet

\* Planning admits a unit only where none is live, and never over a settled one.
LEMMA AdmitGrows == IInv /\ AdmitPage => Grows
<1> SUFFICES ASSUME IInv, AdmitPage PROVE Grows
  OBVIOUS
<1> DEFINE b == worker.page[1]
           p == worker.page[2]
           plan == worker.page[3]
<1>0. task \in [Task -> TaskRow] /\ UniqueIndexHolds(task)
  BY DEF IInv, TypeOK, OneFlight
<1>1. worker.at = "admit" /\ worker'.at = "promote" /\ task' = NewTasks(task, b, p, plan)
  <2>1. worker' = [worker EXCEPT !.at = "promote", !.page = <<>>, !.todo = @ \ {worker.page[1]}]
    BY DEF AdmitPage
  <2>2. worker \in WorkerType
    BY DEF IInv, TypeOK, WorkerType, Places
  <2> QED
    BY <2>1, <2>2 DEF AdmitPage, WorkerType
<1>2. /\ worker.page \in Batch \X Page \X [Kind -> {"no", "free"} \cup Kind]
      /\ p \in batch[b].left
  BY <1>1 DEF IInv, TypeOK, Fresh
<1>3. b \in Batch /\ p \in Page /\ plan \in [Kind -> {"no", "free"} \cup Kind]
  BY <1>2
<1>4. \A k \in Kind : task[<<b, <<p, k>>>>].state = "absent"
  BY <1>2, <1>3 DEF IInv, Fresh
<1> HIDE DEF b, p, plan
<1>5. \A t \in Task : \/ task'[t] = task[t]
                      \/ /\ t[1] = b /\ t[2][1] = p
                         /\ LiveTasks(task, t[2]) = {}
                         /\ task'[t].state \in {"pending", "blocked"}
  <2> DEFINE new == NewTasks(task, b, p, plan)
  <2>1. \A t \in Task : \/ new[t] = task[t]
                        \/ /\ t[1] = b /\ t[2][1] = p
                           /\ LiveTasks(task, t[2]) = {}
                           /\ new[t].state \in {"pending", "blocked"}
    BY <1>0, <1>3, NewTasksRows
  <2> HIDE DEF new
  <2> QED
    BY <1>1, <2>1 DEF new
<1>6. \A t \in Task : t = <<t[1], <<t[2][1], t[2][2]>>>> /\ t[2][2] \in Kind
  BY DEF Task, Unit
<1>7. \A t \in Task : t[1] = b /\ t[2][1] = p => task[t].state = "absent"
  BY <1>4, <1>6
<1>8. UniqueIndexHolds(task')
  <2> SUFFICES ASSUME NEW t \in Task, NEW s \in Task, t[2] = s[2],
                      task'[t].state \in Live, task'[s].state \in Live
               PROVE  t = s
    BY DEF UniqueIndexHolds
  <2>1. \A d \in Task : task[d].state \in Live => d \in LiveTasks(task, d[2])
    BY DEF LiveTasks
  <2>2. CASE task'[t] = task[t] /\ task'[s] = task[s]
    BY <1>0, <2>2 DEF UniqueIndexHolds
  <2>3. CASE task'[t] # task[t]
    <3>1. t[1] = b /\ LiveTasks(task, t[2]) = {}
      BY <1>5, <2>3
    <3>2. task'[s] # task[s]
      BY <2>1, <3>1
    <3>3. s[1] = b
      BY <1>5, <3>2
    <3> QED
      BY <1>6, <3>1, <3>3
  <2>4. CASE task'[s] # task[s]
    <3>1. s[1] = b /\ LiveTasks(task, s[2]) = {}
      BY <1>5, <2>4
    <3>2. task'[t] # task[t]
      BY <2>1, <3>1
    <3>3. t[1] = b
      BY <1>5, <3>2
    <3> QED
      BY <1>6, <3>1, <3>3
  <2> QED
    BY <2>2, <2>3, <2>4
<1>9. SameHands
  BY <1>1 DEF SameHands, Holding
<1> QED
  BY <1>5, <1>7, <1>8, <1>9 DEF Grows, Live, Waiting

LEMMA PlanQuiet == IInv /\ Plan /\ ~AdmitPage => Quiet
<1> SUFFICES ASSUME IInv, Plan, ~AdmitPage PROVE Quiet
  OBVIOUS
<1>0. task \in [Task -> TaskRow] /\ worker \in WorkerType
  BY DEF IInv, TypeOK, WorkerType, Places
<1>1. ASSUME Tick PROVE Quiet
  <2>1. worker'.at = "plan" /\ worker.at = "idle"
    BY <1>1 DEF Tick, At
  <2>2. \A t \in Task : \/ task'[t] = task[t]
                        \/ /\ task[t].state \in {"pending", "retry_wait"}
                           /\ task'[t].state = "blocked"
    <3>1. \A t \in Task : [task[t] EXCEPT !.state = "blocked", !.why = "moved"].state = "blocked"
      BY <1>0 DEF TaskRow
    <3> QED
      BY <1>0, <1>1, <3>1 DEF Tick
  <2>3. Calm(task, task')
    BY <2>2 DEF Calm, Live, Waiting
  <2> QED
    BY <2>1, <2>3, IdleQuiet DEF Idle
<1>2. ASSUME Promote \/ PlanningDone
             \/ \E b \in Batch : ClassifyPage(b) \/ ClosePlanning(b)
      PROVE  Quiet
  <2>1. ASSUME Promote PROVE worker.at = "promote" /\ worker'.at = "plan" /\ task' = task
    BY <1>0, <2>1 DEF Promote, WorkerType
  <2>2. ASSUME PlanningDone PROVE worker.at = "plan" /\ worker'.at = "claim" /\ task' = task
    BY <2>2 DEF PlanningDone, At
  <2>3. ASSUME NEW b \in Batch, ClassifyPage(b)
        PROVE  worker.at = "plan" /\ worker'.at = "admit" /\ task' = task
    BY <1>0, <2>3 DEF ClassifyPage, WorkerType, tables
  <2>4. ASSUME NEW b \in Batch, ClosePlanning(b)
        PROVE  worker.at = "plan" /\ worker'.at = "promote" /\ task' = task
    BY <1>0, <2>4 DEF ClosePlanning, WorkerType
  <2> QED
    BY <1>2, <2>1, <2>2, <2>3, <2>4, CalmSame, IdleQuiet DEF Idle
<1> QED
  BY <1>1, <1>2 DEF Plan

LEMMA PlanSort == IInv /\ Plan => Quiet \/ Grows
  BY PlanQuiet, AdmitGrows

\* Letting a unit go, or setting it aside, touches no other unit but a blocked one.
LEMMA CloseButCalm ==
    ASSUME IInv, NEW t \in Task, NEW state \in Closed, task[t].state # "blocked",
           task' = Close(link, task, t, state)
    PROVE  task'[t].state = state /\ CalmBut(t)
<1>1. task \in [Task -> TaskRow]
  BY DEF IInv, TypeOK
<1> DEFINE new == Close(link, task, t, state)
<1>2. /\ new \in [Task -> TaskRow]
      /\ new[t].state = state
      /\ \A d \in Task \ {t} : \/ new[d] = task[d]
                               \/ /\ task[d].state = "blocked"
                                  /\ new[d].state \in {"failed", "pending"}
  BY <1>1, CloseRows, Zenon
<1> HIDE DEF new
<1> QED
  BY <1>2 DEF new, CalmBut, Live, Waiting

LEMMA OneRowButCalm ==
    ASSUME IInv, NEW t \in Task, NEW row, task' = [task EXCEPT ![t] = row]
    PROVE  task'[t] = row /\ CalmBut(t)
<1>1. task \in [Task -> TaskRow]
  BY DEF IInv, TypeOK
<1> QED
  BY <1>1 DEF CalmBut

LEMMA ClaimSort ==
    ASSUME IInv, NEW t \in Task, Claim(t)
    PROVE  Quiet \/ PicksUp(t)
<1>0. task \in [Task -> TaskRow] /\ task[t] \in TaskRow
  BY DEF IInv, TypeOK
<1>1. /\ worker.at = "claim"
      /\ task[t].state \in {"pending", "retry_wait"}
      /\ ExecutionWanted(batch, link, t)
  BY DEF Claim, Claimable, ExecutionWanted, AskedFor
<1>2. CASE /\ task' = [task EXCEPT ![t] = Closing(@, "running")]
           /\ worker' = [At("check") EXCEPT !.task = t]
  <2>1. Closing(task[t], "running").state = "running"
    BY <1>0, ClosingTyped DEF Live
  <2>2. worker'.at = "check" /\ worker'.task = t
    BY <1>2 DEF At
  <2> QED
    BY <1>0, <1>1, <1>2, <2>1, <2>2 DEF PicksUp
<1>3. CASE task' = Close(link, task, t, "skipped") /\ worker' = At("sweep")
  <2>1. task'[t].state = "skipped" /\ CalmBut(t)
    BY <1>1, <1>3, CloseButCalm DEF Closed, Satisfied
  <2>2. Calm(task, task')
    BY <1>1, <2>1 DEF CalmBut, Calm, Live, Waiting
  <2> QED
    BY <1>1, <1>3, <2>2, IdleQuiet DEF At, Idle
<1>4. CASE /\ task' = [task EXCEPT ![t].state = "blocked", ![t].why = "moved"]
           /\ worker' = At("sweep")
  <2>1. \A d \in Task : \/ task'[d] = task[d]
                        \/ d = t /\ task'[d].state = "blocked"
    BY <1>0, <1>4 DEF TaskRow
  <2>2. Calm(task, task')
    BY <1>1, <2>1 DEF Calm, Live, Waiting
  <2> QED
    BY <1>1, <1>4, <2>2, IdleQuiet DEF At, Idle
<1> QED
  BY <1>2, <1>3, <1>4 DEF Claim

LEMMA CommitSort == IInv /\ Commit => Quiet \/ Publishes
<1> SUFFICES ASSUME IInv, Commit PROVE Quiet \/ Publishes
  OBVIOUS
<1>0. worker \in WorkerType /\ worker.at = "settle"
  BY DEF IInv, TypeOK, WorkerType, Places, Commit
<1>1. worker.task \in Task /\ task[worker.task].state = "running"
  BY <1>0, HeldRuns DEF Holding
<1>2. CASE \E at \in {"interrupt", "moved", "config", "publish"} :
             worker' = [worker EXCEPT !.at = at] /\ task' = task
  <2>1. worker'.at \in Holding /\ worker'.task = worker.task
    BY <1>0, <1>2 DEF WorkerType, Holding
  <2> QED
    BY <1>0, <1>2, <2>1, HeldQuiet DEF Holding
<1>3. CASE /\ StillWanted
           /\ task' = Close(link, task, worker.task, "succeeded")
           /\ worker' = LetGo
  <2>1. task'[worker.task].state = "succeeded" /\ CalmBut(worker.task)
    BY <1>1, <1>3, CloseButCalm DEF Closed, Satisfied
  <2>2. worker'.at = "links"
    BY <1>3 DEF LetGo, At
  <2> QED
    BY <1>0, <1>3, <2>1, <2>2 DEF Publishes, Holding
<1> QED
  BY <1>2, <1>3 DEF Commit

LEMMA DropSort ==
    IInv /\ (SourceMoved \/ ContractMoved \/ AttemptFails \/ Parks \/ Interrupt) => Drops
<1> SUFFICES ASSUME IInv, SourceMoved \/ ContractMoved \/ AttemptFails \/ Parks \/ Interrupt
             PROVE  Drops
  OBVIOUS
<1> DEFINE t == worker.task
<1>1. worker.at \in Holding
  BY DEF SourceMoved, ContractMoved, AttemptFails, Parks, Interrupt, Holding
<1>2. t \in Task /\ task[t].state = "running"
  BY <1>1, HeldRuns
<1>3. task \in [Task -> TaskRow] /\ task[t] \in TaskRow
  BY <1>2 DEF IInv, TypeOK
<1>4. worker'.at \in {"links", "sweep"}
  BY DEF SourceMoved, ContractMoved, AttemptFails, Parks, Interrupt, LetGo, At
<1> HIDE DEF t
<1>5. CASE task' = Close(link, task, t, "failed")
  <2>1. task'[t].state = "failed" /\ CalmBut(t)
    BY <1>2, <1>5, CloseButCalm DEF Closed
  <2> QED
    BY <1>1, <1>4, <2>1 DEF Drops, t
<1>6. CASE \A d \in Task : \/ task'[d] = task[d] /\ d # t
                           \/ d = t /\ task'[d].state \in Waiting
  BY <1>1, <1>2, <1>4, <1>6 DEF Drops, CalmBut, t
<1>7. ASSUME SourceMoved PROVE Drops
  BY <1>3, <1>6, <1>7 DEF SourceMoved, TaskRow, Waiting, t
<1>8. ASSUME ContractMoved PROVE Drops
  BY <1>3, <1>6, <1>8 DEF ContractMoved, TaskRow, Waiting, t
<1>9. ASSUME AttemptFails PROVE Drops
  <2>1. CASE task' = [task EXCEPT ![t].state = "retry_wait", ![t].retries = @ + 1]
    BY <1>3, <1>6, <2>1 DEF TaskRow, Waiting
  <2>2. CASE task' = [task EXCEPT ![t].state = "retry_wait"]
    BY <1>3, <1>6, <2>2 DEF TaskRow, Waiting
  <2> QED
    BY <1>5, <1>9, <2>1, <2>2 DEF AttemptFails, t
<1>10. ASSUME Parks PROVE Drops
  BY <1>3, <1>6, <1>10 DEF Parks, TaskRow, Waiting, t
<1>11. ASSUME Interrupt PROVE Drops
  <2>1. Closing(task[t], "interrupted").state = "interrupted"
    BY <1>3, ClosingTyped DEF Live, Waiting
  <2> QED
    BY <1>3, <1>6, <1>11, <2>1 DEF Interrupt, Waiting, t
<1> QED
  BY <1>7, <1>8, <1>9, <1>10, <1>11

LEMMA WorkSort == IInv /\ Work => Quiet \/ Drops \/ Publishes \/ \E t \in Task : PicksUp(t)
<1> SUFFICES ASSUME IInv, Work
             PROVE  Quiet \/ Drops \/ Publishes \/ \E t \in Task : PicksUp(t)
  OBVIOUS
<1>0. worker \in WorkerType
  BY DEF IInv, TypeOK, WorkerType, Places
<1>1. ASSUME NothingToClaim PROVE Quiet
  <2>1. worker.at = "claim" /\ worker'.at = "sweep" /\ task' = task
    BY <1>1 DEF NothingToClaim, At, tables
  <2> QED
    BY <2>1, CalmSame, IdleQuiet DEF Idle
<1>2. ASSUME CheckDemand \/ ExecutorEnds PROVE Quiet
  <2>1. /\ worker.at \in Holding /\ worker'.at \in Holding
        /\ worker'.task = worker.task /\ task' = task
    BY <1>0, <1>2 DEF CheckDemand, ExecutorEnds, Holding, WorkerType, tables
  <2> QED
    BY <2>1, HeldQuiet
<1> QED
  BY <1>1, <1>2, ClaimSort, CommitSort, DropSort DEF Work

LEMMA SettleSort == IInv /\ Settle => Quiet
<1> SUFFICES ASSUME IInv, Settle PROVE Quiet
  OBVIOUS
<1>0. worker \in WorkerType /\ task \in [Task -> TaskRow]
  BY DEF IInv, TypeOK, WorkerType, Places
<1>1. ASSUME NEW b \in Batch, LookAt(b) PROVE Quiet
  BY <1>0, <1>1, StillQuiet DEF LookAt, WorkerType
<1>2. ASSUME Finalize PROVE Quiet
  BY <1>0, <1>2, StillQuiet DEF Finalize, WorkerType
<1>3. ASSUME LinksDone PROVE Quiet
  <2>1. worker.at \in {"links", "open"} /\ worker'.at \in {"sweep", "idle"} /\ task' = task
    BY <1>3 DEF LinksDone, At, tables
  <2> QED
    BY <2>1, CalmSame, IdleQuiet DEF Idle
<1>4. ASSUME Sweep PROVE Quiet
  <2>1. worker.at = "sweep" /\ worker'.at = "open"
    BY <1>4 DEF Sweep, At
  <2>2. Calm(task, task')
    BY <1>0, <1>4, CancelOrphansCalm DEF Sweep
  <2> QED
    BY <2>1, <2>2, IdleQuiet DEF Idle
<1> QED
  BY <1>1, <1>2, <1>3, <1>4 DEF Settle

LEMMA RestartSort == IInv /\ (Watch \/ Crash \/ Recover) => Quiet \/ Stops \/ Restarts
<1> SUFFICES ASSUME IInv, Watch \/ Crash \/ Recover PROVE Quiet \/ Stops \/ Restarts
  OBVIOUS
<1>0. worker \in WorkerType
  BY DEF IInv, TypeOK, WorkerType, Places
<1>1. ASSUME Watch PROVE Quiet
  BY <1>0, <1>1, StillQuiet DEF Watch, WorkerType, tables
<1>2. ASSUME Crash PROVE Stops
  BY <1>2 DEF Crash, Stops, At, tables
<1>3. ASSUME Recover PROVE Restarts
  <2>1. worker.at = "down" /\ worker'.at = "idle"
    BY <1>3 DEF Recover, At
  <2>2. PICK mid \in [Task -> TaskRow] :
          /\ Calm(mid, task')
          /\ \A t \in Task : /\ mid[t].state # "running"
                             /\ task[t].state # "running" => mid[t] = task[t]
                             /\ task[t].state = "running" => mid[t].state = "interrupted"
    BY <1>3, RecoverRows DEF IInv
  <2> QED
    BY <2>1, <2>2 DEF Restarts, Calm, Live, Waiting
<1> QED
  BY <1>1, <1>2, <1>3

LEMMA EverySort == IInv /\ [Next]_vars => Sorts
<1>1. UNCHANGED vars => Quiet
  BY StillQuiet DEF vars
<1> QED
  BY <1>1, UserSort, PlanSort, WorkSort, SettleSort, RestartSort DEF Next, Supervisor, Sorts

-----------------------------------------------------------------------------
(* The worker and the running task.                                        *)

LEMMA HolderStep == IInv /\ Sorts => HolderIsCurrent'
<1> SUFFICES ASSUME IInv, Sorts PROVE HolderIsCurrent'
  OBVIOUS
<1>0. HolderIsCurrent
  BY DEF IInv
<1>a. worker.at \in Holding => worker.task \in Task /\ worker.at # "down"
  BY HeldRuns DEF Holding
<1>1. CASE Quiet
  BY <1>0, <1>1, <1>a DEF Quiet, SameHands, Calm, HolderIsCurrent
<1>2. CASE Grows
  BY <1>0, <1>2, <1>a DEF Grows, SameHands, HolderIsCurrent
<1>3. CASE Drops
  <2>1. worker'.at \notin Holding /\ task'[worker.task].state # "running"
    BY <1>3 DEF Drops, Holding, Waiting
  <2>2. \A t \in Task : t # worker.task => task'[t].state # "running"
    BY <1>0, <1>3, <1>a DEF Drops, CalmBut, HolderIsCurrent
  <2> QED
    BY <2>1, <2>2 DEF HolderIsCurrent
<1>4. CASE Publishes
  <2>1. worker'.at \notin Holding /\ task'[worker.task].state # "running"
    BY <1>4 DEF Publishes, Holding
  <2>2. \A t \in Task : t # worker.task => task'[t].state # "running"
    BY <1>0, <1>4, <1>a DEF Publishes, CalmBut, HolderIsCurrent
  <2> QED
    BY <2>1, <2>2 DEF HolderIsCurrent
<1>5. CASE Stops
  BY <1>5 DEF Stops, HolderIsCurrent
<1>6. CASE Restarts
  BY <1>6 DEF Restarts, HolderIsCurrent, Holding
<1>7. ASSUME NEW t \in Task, PicksUp(t) PROVE HolderIsCurrent'
  BY <1>0, <1>7 DEF PicksUp, HolderIsCurrent, Holding
<1> QED
  BY <1>1, <1>2, <1>3, <1>4, <1>5, <1>6, <1>7 DEF Sorts

-----------------------------------------------------------------------------
(* One live task for each unit.                                            *)

LEMMA OneFlightStep == IInv /\ Sorts => OneFlight'
<1> SUFFICES ASSUME IInv, Sorts PROVE UniqueIndexHolds(task')
  BY DEF OneFlight
<1>0. UniqueIndexHolds(task)
  BY DEF IInv, OneFlight
<1>1. ASSUME \A t \in Task : task'[t].state \in Live => task[t].state \in Live
      PROVE  UniqueIndexHolds(task')
  BY <1>0, <1>1 DEF UniqueIndexHolds
<1>2. CASE Quiet
  BY <1>1, <1>2 DEF Quiet, Calm
<1>3. CASE Grows
  BY <1>3 DEF Grows
<1>4. CASE Drops \/ Publishes
  <2>1. worker.task \in Task /\ task[worker.task].state = "running"
    BY <1>4, HeldRuns DEF Drops, Publishes
  <2>2. CalmBut(worker.task)
    BY <1>4 DEF Drops, Publishes
  <2> QED
    BY <1>1, <2>1, <2>2 DEF CalmBut, Live
<1>5. CASE Stops \/ Restarts
  BY <1>0, <1>1, <1>5 DEF Stops, Restarts
<1>6. ASSUME NEW t \in Task, PicksUp(t) PROVE UniqueIndexHolds(task')
  BY <1>1, <1>6 DEF PicksUp, Live, Waiting
<1> QED
  BY <1>2, <1>3, <1>4, <1>5, <1>6 DEF Sorts

-----------------------------------------------------------------------------
(* A page is planned once.                                                 *)

\* No step but a page's admission makes a task where there was none.
LEMMA AbsentStays ==
    ASSUME IInv, [Next]_vars, ~AdmitPage
    PROVE  \A t \in Task : task[t].state = "absent" => task'[t].state = "absent"
<1>1. CASE \E b \in Batch, t \in Task : RetryTask(b, t)
  <2>1. PICK some : task' = task \/ task' = Reopened(some)
    BY <1>1 DEF RetryTask
  <2> QED
    BY <2>1 DEF Reopened
<1>2. ASSUME Quiet \/ Drops \/ Publishes \/ Stops \/ Restarts \/ \E t \in Task : PicksUp(t)
      PROVE  \A t \in Task : task[t].state = "absent" => task'[t].state = "absent"
  <2>1. CASE Quiet \/ Stops \/ Restarts
    BY <2>1 DEF Quiet, Calm, Stops, Restarts
  <2>2. CASE Drops \/ Publishes
    <3>1. task[worker.task].state = "running"
      BY <2>2, HeldRuns DEF Drops, Publishes
    <3> QED
      BY <2>2, <3>1 DEF Drops, Publishes, CalmBut
  <2>3. ASSUME NEW t \in Task, PicksUp(t)
        PROVE  \A d \in Task : task[d].state = "absent" => task'[d].state = "absent"
    BY <2>3 DEF PicksUp
  <2> QED
    BY <1>2, <2>1, <2>2, <2>3
<1>3. CASE ~\E b \in Batch, t \in Task : RetryTask(b, t)
  <2>1. CASE User \/ Plan
    <3>1. Quiet
      BY <1>3, <2>1, UserQuiet, PlanQuiet
    <3> QED
      BY <1>2, <3>1
  <2>2. CASE ~(User \/ Plan)
    <3>1. UNCHANGED vars => Quiet
      BY StillQuiet DEF vars
    <3>2. Quiet \/ Drops \/ Publishes \/ Stops \/ Restarts \/ \E t \in Task : PicksUp(t)
      BY <2>2, <3>1, WorkSort, SettleSort, RestartSort DEF Next, Supervisor
    <3> QED
      BY <1>2, <3>2
  <2> QED
    BY <2>1, <2>2
<1> QED
  BY <1>1, <1>3

\* The statements of a pass move states of batches only, and none to "none".
LEMMA StatementsKeep ==
    ASSUME NEW bt \in [Batch -> BatchRow], NEW lk, NEW tk, NEW b \in Batch,
           NEW new \in {PromotePrepared(bt), PromoteReady(bt), ObservePaused(bt, lk, tk)}
    PROVE  new[b].left = bt[b].left /\ (new[b].state = "none" => bt[b].state = "none")
<1>1. bt[b] \in BatchRow
  OBVIOUS
<1>2. ASSUME NEW state \in {"ready", "running", "paused"}
      PROVE  /\ [bt[b] EXCEPT !.state = state].left = bt[b].left
             /\ [bt[b] EXCEPT !.state = state].state # "none"
  BY <1>1, <1>2 DEF BatchRow
<1>3. \/ new[b] = bt[b]
      \/ \E state \in {"ready", "running", "paused"} : new[b] = [bt[b] EXCEPT !.state = state]
  BY DEF PromotePrepared, PromoteReady, ObservePaused
<1> QED
  BY <1>2, <1>3

\* Planning is where it was for every batch, and none goes back to being no batch.
BatchKept ==
    \A b \in Batch : /\ batch'[b].left = batch[b].left
                     /\ batch'[b].state = "none" => batch[b].state = "none"

LEMMA SameBatchKept == batch' = batch => BatchKept
  BY DEF BatchKept

\* A row that keeps its place in the planning, among rows that stay.
LEMMA OneBatchKept ==
    ASSUME IInv, NEW b \in Batch, NEW row, batch' = [batch EXCEPT ![b] = row],
           row.left = batch[b].left, row.state = "none" => batch[b].state = "none"
    PROVE  BatchKept
  BY DEF BatchKept, IInv, TypeOK

LEMMA UserKeeps == IInv /\ User /\ (~\E b \in Batch : Prepare(b)) => BatchKept
<1> SUFFICES ASSUME IInv, User, ~\E b \in Batch : Prepare(b) PROVE BatchKept
  OBVIOUS
<1>0. \A b \in Batch : batch[b] \in BatchRow
  BY DEF IInv, TypeOK
<1>1. ASSUME NEW b \in Batch, Start(b) PROVE BatchKept
  <2>1. /\ [batch[b] EXCEPT !.desired = "run"].left = batch[b].left
        /\ [batch[b] EXCEPT !.desired = "run"].state = batch[b].state
    BY <1>0 DEF BatchRow
  <2> QED
    BY <1>1, <2>1, OneBatchKept DEF Start
<1>2. ASSUME NEW b \in Batch, Pause(b) PROVE BatchKept
  <2> DEFINE row == [batch[b] EXCEPT !.desired = "pause",
                                     !.state = IF @ = "running" THEN "pausing" ELSE @]
  <2>1. row.left = batch[b].left /\ (row.state = "none" => batch[b].state = "none")
    BY <1>0 DEF BatchRow
  <2>2. batch' = [batch EXCEPT ![b] = row]
    BY <1>0, <1>2 DEF Pause, BatchRow
  <2> HIDE DEF row
  <2> QED
    BY <2>1, <2>2, OneBatchKept
<1>3. ASSUME NEW b \in Batch, Resume(b) PROVE BatchKept
  <2> DEFINE row == [batch[b] EXCEPT !.desired = "run",
                                     !.state = IF @ \in {"paused", "pausing", "interrupted"}
                                               THEN IF batch[b].planned THEN "ready"
                                                    ELSE "preparing"
                                               ELSE @]
  <2>1. row.left = batch[b].left /\ (row.state = "none" => batch[b].state = "none")
    BY <1>0 DEF BatchRow
  <2>2. batch' = [batch EXCEPT ![b] = row]
    BY <1>0, <1>3 DEF Resume, BatchRow
  <2> HIDE DEF row
  <2> QED
    BY <2>1, <2>2, OneBatchKept
<1>4. ASSUME NEW b \in Batch, Cancel(b) PROVE BatchKept
  <2> DEFINE row(state) == [batch[b] EXCEPT !.desired = "cancel", !.state = state]
  <2>1. \A bt, tk : Verdict(bt, link', tk, b) \in Ended
    BY DEF Verdict, Ended
  <2>2. \E state \in Ended \cup {"cancelling"} : batch' = [batch EXCEPT ![b] = row(state)]
    <3> DEFINE cancelling == [batch EXCEPT ![b].desired = "cancel", ![b].state = "cancelling"]
    <3>1. \/ batch' = cancelling
          \/ batch' = [cancelling EXCEPT ![b].state = Verdict(cancelling, link', task', b)]
      BY <1>4 DEF Cancel
    <3>2. cancelling = [batch EXCEPT ![b] = row("cancelling")]
      BY <1>0
    <3>3. \A state : [row("cancelling") EXCEPT !.state = state] = row(state)
      BY <1>0 DEF BatchRow
    <3>4. batch \in [Batch -> BatchRow]
      BY DEF IInv, TypeOK
    <3> HIDE DEF row
    <3>5. \A state : [cancelling EXCEPT ![b].state = state] = [batch EXCEPT ![b] = row(state)]
      BY <3>2, <3>3, <3>4
    <3> HIDE DEF cancelling
    <3> QED
      BY <2>1, <3>1, <3>2, <3>5
  <2>3. \A state : row(state).left = batch[b].left /\ row(state).state = state
    BY <1>0 DEF BatchRow
  <2> HIDE DEF row
  <2> QED
    BY <2>2, <2>3, OneBatchKept DEF Ended
<1>5. ASSUME NEW b \in Batch, RetryBatch(b) PROVE BatchKept
  <2> DEFINE row == IF batch[b].state = "completed_with_errors"
                    THEN [batch[b] EXCEPT !.state = "ready", !.desired = "run"] ELSE batch[b]
  <2>1. row.left = batch[b].left /\ (row.state = "none" => batch[b].state = "none")
    BY <1>0 DEF BatchRow
  <2>2. batch' = [batch EXCEPT ![b] = row]
    BY <1>0, <1>5 DEF RetryBatch, RunAgain
  <2> HIDE DEF row
  <2> QED
    BY <2>1, <2>2, OneBatchKept
<1>6. ASSUME ConfigurationFixed \/ \E b \in Batch : ListFailed(b)
               \/ (\E t \in Task : RetryLink(b, t) \/ RetryTask(b, t))
               \/ \E action \in {"pause", "resume", "cancel"} : ReadBatch(b, action)
      PROVE  BatchKept
  BY <1>6, SameBatchKept DEF ConfigurationFixed, ListFailed, RetryLink, RetryTask, ReadBatch,
                             tables
<1> QED
  BY <1>1, <1>2, <1>3, <1>4, <1>5, <1>6 DEF User

LEMMA PassKeeps ==
    IInv /\ ((Plan /\ ~AdmitPage) \/ Work \/ Settle \/ Watch \/ Crash \/ Recover) => BatchKept
<1> SUFFICES ASSUME IInv, (Plan /\ ~AdmitPage) \/ Work \/ Settle \/ Watch \/ Crash \/ Recover
             PROVE  BatchKept
  OBVIOUS
<1>0. batch \in [Batch -> BatchRow] /\ \A b \in Batch : batch[b] \in BatchRow
  BY DEF IInv, TypeOK
<1>1. ASSUME Plan /\ ~AdmitPage PROVE BatchKept
  <2>1. ASSUME NEW b \in Batch, ClosePlanning(b) PROVE BatchKept
    <3>1. /\ [batch[b] EXCEPT !.planned = TRUE].left = batch[b].left
          /\ [batch[b] EXCEPT !.planned = TRUE].state = batch[b].state
      BY <1>0 DEF BatchRow
    <3> QED
      BY <2>1, <3>1, OneBatchKept DEF ClosePlanning
  <2>2. ASSUME Promote PROVE BatchKept
    <3> DEFINE bt1 == PromotePrepared(batch)
               bt2 == PromoteReady(bt1)
               bt3 == ObservePaused(bt2, link, task)
    <3>1. bt1 \in [Batch -> BatchRow] /\ bt2 \in [Batch -> BatchRow]
      BY <1>0, BatchTyped
    <3>2. \A b \in Batch : /\ bt1[b].left = batch[b].left
                           /\ bt1[b].state = "none" => batch[b].state = "none"
      BY <1>0, StatementsKeep
    <3>3. \A b \in Batch : /\ bt2[b].left = bt1[b].left
                           /\ bt2[b].state = "none" => bt1[b].state = "none"
      <4> HIDE DEF bt1
      <4> QED
        BY <3>1, StatementsKeep
    <3>4. \A b \in Batch : /\ bt3[b].left = bt2[b].left
                           /\ bt3[b].state = "none" => bt2[b].state = "none"
      <4> HIDE DEF bt2
      <4> QED
        BY <3>1, StatementsKeep
    <3>5. batch' = bt3
      BY <2>2 DEF Promote
    <3> HIDE DEF bt1, bt2, bt3
    <3> QED
      BY <3>2, <3>3, <3>4, <3>5 DEF BatchKept
  <2>3. ASSUME PlanningDone PROVE BatchKept
    BY <1>0, <2>3, StatementsKeep DEF PlanningDone, BatchKept
  <2>4. ASSUME Tick \/ \E b \in Batch : ClassifyPage(b) PROVE BatchKept
    BY <2>4, SameBatchKept DEF Tick, ClassifyPage, tables
  <2> QED
    BY <1>1, <2>1, <2>2, <2>3, <2>4 DEF Plan
<1>2. ASSUME Work PROVE BatchKept
  BY <1>2, SameBatchKept
     DEF Work, Claim, NothingToClaim, CheckDemand, ExecutorEnds, Commit, SourceMoved,
         ContractMoved, AttemptFails, Parks, Interrupt, tables
<1>3. ASSUME Settle PROVE BatchKept
  <2>1. ASSUME NEW b \in Batch, LookAt(b) PROVE BatchKept
    <3>1. batch' = batch \/ batch' = ObservePaused(batch, link, task)
      BY <2>1 DEF LookAt
    <3> QED
      BY <1>0, <3>1, SameBatchKept, StatementsKeep DEF BatchKept
  <2>2. ASSUME Finalize PROVE BatchKept
    <3>1. worker.fate \in Batch \X Ended
      BY <2>2 DEF Finalize, IInv, TypeOK
    <3>2. worker.fate[1] \in Batch /\ worker.fate[2] \in Ended
      BY <3>1
    <3>3. /\ [batch[worker.fate[1]] EXCEPT !.state = worker.fate[2]].left
               = batch[worker.fate[1]].left
          /\ [batch[worker.fate[1]] EXCEPT !.state = worker.fate[2]].state # "none"
      BY <1>0, <3>2 DEF BatchRow, Ended
    <3> QED
      BY <2>2, <3>2, <3>3, OneBatchKept DEF Finalize
  <2>3. ASSUME LinksDone \/ Sweep PROVE BatchKept
    BY <2>3, SameBatchKept DEF LinksDone, Sweep, tables
  <2> QED
    BY <1>3, <2>1, <2>2, <2>3 DEF Settle
<1>4. ASSUME Watch \/ Crash PROVE BatchKept
  BY <1>4, SameBatchKept DEF Watch, Crash, tables
<1>5. ASSUME Recover PROVE BatchKept
  <2>1. \A row \in BatchRow : /\ AfterRestart(row).left = row.left
                              /\ AfterRestart(row).state = "none" => row.state = "none"
    BY DEF AfterRestart, BatchRow
  <2> QED
    BY <1>0, <1>5, <2>1 DEF Recover, BatchKept
<1> QED
  BY <1>1, <1>2, <1>3, <1>4, <1>5

\* Only classifying puts a page in the worker's mind.
LEMMA PageKept ==
    ASSUME IInv, [Next]_vars, ~\E b \in Batch : ClassifyPage(b), worker'.at = "admit"
    PROVE  worker.at = "admit" /\ worker'.page = worker.page
<1>0. worker \in WorkerType
  BY DEF IInv, TypeOK, WorkerType, Places
<1>1. CASE User
  BY <1>1 DEF User, Prepare, Start, Pause, Resume, Cancel, ListFailed, RetryLink, RetryTask,
              RetryBatch, ReadBatch, ConfigurationFixed
<1>2. CASE Plan
  <2>1. ASSUME Tick \/ AdmitPage \/ Promote \/ PlanningDone PROVE worker'.at # "admit"
    <3>1. CASE Tick \/ PlanningDone
      <4>1. \A todo : [At("plan") EXCEPT !.todo = todo].at = "plan"
        BY DEF At
      <4>2. At("claim").at = "claim"
        BY DEF At
      <4> QED
        BY <3>1, <4>1, <4>2 DEF Tick, PlanningDone
    <3>2. CASE AdmitPage
      BY <1>0, <3>2 DEF AdmitPage, WorkerType
    <3>3. CASE Promote
      BY <1>0, <3>3 DEF Promote, WorkerType
    <3> QED
      BY <2>1, <3>1, <3>2, <3>3
  <2>2. ASSUME NEW b \in Batch, ClosePlanning(b) PROVE worker'.at # "admit"
    BY <1>0, <2>2 DEF ClosePlanning, WorkerType
  <2> QED
    BY <1>2, <2>1, <2>2 DEF Plan
<1>3. CASE Work
  <2>1. ASSUME NEW t \in Task, Claim(t) PROVE worker'.at # "admit"
    BY <2>1 DEF Claim, At
  <2>2. ASSUME NothingToClaim \/ CheckDemand \/ ExecutorEnds \/ Commit PROVE worker'.at # "admit"
    <3>1. CASE NothingToClaim
      BY <3>1 DEF NothingToClaim, At
    <3>2. CASE CheckDemand \/ ExecutorEnds
      <4>1. ASSUME CheckDemand PROVE worker'.at \in {"run", "interrupt"}
        BY <1>0, <4>1 DEF CheckDemand, WorkerType
      <4>2. ASSUME ExecutorEnds PROVE worker'.at \in {"settle", "interrupt"}
        BY <1>0, <4>2 DEF ExecutorEnds, WorkerType
      <4> QED
        BY <3>2, <4>1, <4>2
    <3>3. CASE Commit
      <4>1. LetGo.at # "admit"
        BY DEF LetGo, At
      <4>2. \A at \in {"interrupt", "moved", "config", "publish"} :
               [worker EXCEPT !.at = at].at # "admit"
        BY <1>0 DEF WorkerType
      <4> QED
        <5>1. \/ worker' = LetGo
              \/ worker' = [worker EXCEPT !.at = "interrupt"]
              \/ worker' = [worker EXCEPT !.at = "moved"]
              \/ worker' = [worker EXCEPT !.at = "config"]
              \/ worker' = [worker EXCEPT !.at = "publish"]
          BY <3>3, Zenon DEF Commit
        <5> QED
          BY <4>1, <4>2, <5>1
    <3> QED
      BY <2>2, <3>1, <3>2, <3>3
  <2>3. ASSUME SourceMoved \/ ContractMoved \/ AttemptFails \/ Parks \/ Interrupt
        PROVE  worker'.at # "admit"
    BY <2>3 DEF SourceMoved, ContractMoved, AttemptFails, Parks, Interrupt, LetGo, At
  <2> QED
    BY <1>3, <2>1, <2>2, <2>3 DEF Work
<1>4. CASE Settle
  <2>1. ASSUME NEW b \in Batch, LookAt(b)
        PROVE  worker'.at = worker.at /\ worker'.page = worker.page
    BY <1>0, <2>1 DEF LookAt, WorkerType
  <2>2. ASSUME Finalize PROVE worker'.at = worker.at /\ worker'.page = worker.page
    BY <1>0, <2>2 DEF Finalize, WorkerType
  <2>3. ASSUME LinksDone \/ Sweep PROVE worker'.at # "admit"
    BY <2>3 DEF LinksDone, Sweep, At
  <2> QED
    BY <1>4, <2>1, <2>2, <2>3 DEF Settle
<1>5. CASE Watch \/ Crash \/ Recover \/ UNCHANGED vars
  BY <1>0, <1>5 DEF Watch, Crash, Recover, At, WorkerType, vars
<1> QED
  BY <1>1, <1>2, <1>3, <1>4, <1>5 DEF Next, Supervisor

LEMMA FreshStep == IInv /\ [Next]_vars => Fresh'
<1> SUFFICES ASSUME IInv, [Next]_vars PROVE Fresh'
  OBVIOUS
<1>0. /\ batch \in [Batch -> BatchRow] /\ worker \in WorkerType
      /\ task \in [Task -> TaskRow]
      /\ (worker.at = "admit" => worker.page # <<>>)
      /\ Fresh
  BY DEF IInv, TypeOK, WorkerType, Places
<1>a. \A b \in Batch, p \in Page, k \in Kind : <<b, <<p, k>>>> \in Task
  BY DEF Task, Unit
<1>b. worker.at = "admit" =>
        worker.page \in Batch \X Page \X [Kind -> {"no", "free"} \cup Kind]
  BY <1>0 DEF WorkerType
<1>1. CASE AdmitPage
  <2> DEFINE b == worker.page[1]
             p == worker.page[2]
             plan == worker.page[3]
  <2>1. worker.at = "admit" /\ worker'.at = "promote"
    BY <1>0, <1>1 DEF AdmitPage, WorkerType
  <2>2. b \in Batch /\ p \in Page /\ plan \in [Kind -> {"no", "free"} \cup Kind]
    BY <1>b, <2>1
  <2>3. task' = NewTasks(task, b, p, plan) /\ batch' = [batch EXCEPT ![b].left = @ \ {p}]
    BY <1>1 DEF AdmitPage
  <2> HIDE DEF b, p, plan
  <2>4. \A t \in Task : task'[t] = task[t] \/ (t[1] = b /\ t[2][1] = p)
    <3> DEFINE new == NewTasks(task, b, p, plan)
    <3>1. \A t \in Task : \/ new[t] = task[t]
                          \/ /\ t[1] = b /\ t[2][1] = p
                             /\ LiveTasks(task, t[2]) = {}
                             /\ new[t].state \in {"pending", "blocked"}
      BY <1>0, <2>2, NewTasksRows, Zenon
    <3> HIDE DEF new
    <3> QED
      BY <2>3, <3>1 DEF new
  <2>5. \A c \in Batch : /\ batch'[c].state = batch[c].state
                         /\ batch'[c].left = IF c = b THEN batch[c].left \ {p} ELSE batch[c].left
    BY <1>0, <2>2, <2>3 DEF BatchRow
  <2>6. p \in batch[b].left
    BY <1>0, <2>1 DEF Fresh, b, p
  <2>7. batch[b].state # "none"
    BY <1>0, <2>2, <2>6 DEF Fresh
  <2>8. ASSUME NEW c \in Batch, NEW q \in Page, NEW k \in Kind,
               batch'[c].state = "none" \/ q \in batch'[c].left
        PROVE  task'[<<c, <<q, k>>>>].state = "absent"
    <3>1. batch[c].state = "none" \/ q \in batch[c].left
      BY <2>5, <2>8
    <3>2. ~(c = b /\ q = p)
      BY <2>5, <2>7, <2>8
    <3>3. task'[<<c, <<q, k>>>>] = task[<<c, <<q, k>>>>]
      BY <1>a, <2>4, <3>2
    <3> QED
      BY <1>0, <3>1, <3>3 DEF Fresh
  <2>9. \A c \in Batch : batch'[c].state = "none" => batch'[c].left = {}
    BY <1>0, <2>5, <2>7 DEF Fresh
  <2> QED
    BY <2>1, <2>8, <2>9 DEF Fresh
<1>2. ASSUME ~AdmitPage
      PROVE  \A t \in Task : task[t].state = "absent" => task'[t].state = "absent"
  BY <1>2, AbsentStays
<1>3. ASSUME NEW b \in Batch, Prepare(b) PROVE Fresh'
  <2>1. /\ batch[b].state = "none" /\ batch[b].left = {}
        /\ task' = task /\ worker' = worker
    BY <1>0, <1>3 DEF Prepare, Fresh
  <2>2. PICK scope \in SUBSET Page :
          batch' = [batch EXCEPT ![b] = [state |-> "preparing", desired |-> "pause",
                                         left |-> scope, planned |-> scope = {}]]
    BY <1>3 DEF Prepare
  <2>3. /\ batch'[b].state = "preparing"
        /\ \A c \in Batch \ {b} : batch'[c] = batch[c]
    BY <1>0, <2>2
  <2>4. worker.at = "admit" => worker.page[1] \in Batch \ {b}
    BY <1>0, <1>b, <2>1 DEF Fresh
  <2> QED
    BY <1>0, <2>1, <2>3, <2>4 DEF Fresh
<1>4. ASSUME NEW b \in Batch, ClassifyPage(b) PROVE Fresh'
  <2>1. batch' = batch /\ task' = task
    BY <1>4 DEF ClassifyPage, tables
  <2>2. worker'.page[1] = b /\ worker'.page[2] \in batch[b].left
    BY <1>0, <1>4 DEF ClassifyPage, WorkerType
  <2> QED
    BY <1>0, <2>1, <2>2 DEF Fresh
<1>5. CASE /\ ~AdmitPage
           /\ ~\E b \in Batch : Prepare(b)
           /\ ~\E b \in Batch : ClassifyPage(b)
  <2>1. BatchKept
    BY <1>5, UserKeeps, PassKeeps, SameBatchKept DEF Next, Supervisor, vars
  <2>2. worker'.at = "admit" => worker.at = "admit" /\ worker'.page = worker.page
    BY <1>5, PageKept
  <2>3. worker.at = "admit" => worker.page[1] \in Batch
    BY <1>b
  <2>4. ASSUME NEW c \in Batch, NEW q \in Page, NEW k \in Kind,
               batch'[c].state = "none" \/ q \in batch'[c].left
        PROVE  task'[<<c, <<q, k>>>>].state = "absent"
    <3>1. task[<<c, <<q, k>>>>].state = "absent"
      BY <1>0, <2>1, <2>4 DEF BatchKept, Fresh
    <3> QED
      BY <1>2, <1>5, <1>a, <3>1
  <2>5. \A c \in Batch : batch'[c].state = "none" => batch'[c].left = {}
    BY <1>0, <2>1 DEF BatchKept, Fresh
  <2>6. worker'.at = "admit" => worker'.page[2] \in batch'[worker'.page[1]].left
    BY <1>0, <2>1, <2>2, <2>3 DEF BatchKept, Fresh
  <2> QED
    BY <2>4, <2>5, <2>6 DEF Fresh
<1> QED
  BY <1>1, <1>3, <1>4, <1>5

-----------------------------------------------------------------------------
(* The invariants.                                                         *)

LEMMA InitIInv == Init => IInv
<1> SUFFICES ASSUME Init PROVE IInv
  OBVIOUS
<1>1. /\ \A t \in Task : task[t].state = "absent"
      /\ worker.at = "idle"
      /\ \A b \in Batch : batch[b].left = {}
  BY DEF Init, NewTask, At
<1>2. \A b \in Batch, p \in Page, k \in Kind : <<b, <<p, k>>>> \in Task
  BY DEF Task, Unit
<1>3. Fresh
  BY <1>1, <1>2 DEF Fresh
<1>4. HolderIsCurrent /\ OneFlight
  BY <1>1 DEF HolderIsCurrent, OneFlight, UniqueIndexHolds, Holding, Live, Waiting
<1> QED
  BY <1>3, <1>4, InitTyped DEF IInv

LEMMA NextIInv == IInv /\ [Next]_vars => IInv'
  BY NextTyped, EverySort, HolderStep, OneFlightStep, FreshStep DEF IInv

LEMMA AlwaysIInv == Spec => []IInv
  BY InitIInv, NextIInv, PTL DEF Spec

\* While the process is up, the running task is the one in the worker's hands,
\* however attempts end and whatever the user commands meanwhile (run_one).
THEOREM HolderHeld == Spec => []HolderIsCurrent
<1>1. IInv => HolderIsCurrent
  BY DEF IInv
<1> QED
  BY <1>1, AlwaysIInv, PTL

\* However many batches ask for a unit, and however often it is retried, it has
\* one live task: planning and resuming never run into the unique index.
THEOREM OneFlightHeld == Spec => []OneFlight
<1>1. IInv => OneFlight
  BY DEF IInv
<1> QED
  BY <1>1, AlwaysIInv, PTL

-----------------------------------------------------------------------------
(* The promise.                                                            *)

\* What a unit's flight says of its tasks.
LEMMA FlightMeans ==
    /\ Flight \in [Unit -> {"idle", "queued", "held"}]
    /\ \A u \in Unit :
         /\ Flight[u] = "held" <=> \E t \in Task : t[2] = u /\ task[t].state = "running"
         /\ Flight[u] = "idle" <=> \A t \in Task : t[2] = u => task[t].state \notin Live
  BY DEF Flight, Live

LEMMA FlightMeansNext ==
    /\ Flight' \in [Unit -> {"idle", "queued", "held"}]
    /\ \A u \in Unit :
         /\ Flight'[u] = "held" <=> \E t \in Task : t[2] = u /\ task'[t].state = "running"
         /\ Flight'[u] = "idle" <=> \A t \in Task : t[2] = u => task'[t].state \notin Live
  BY DEF Flight, Live

\* Giving work up, or setting it back, recedes.
LEMMA Recedes ==
    ASSUME \A t \in Task : /\ task'[t].state = "running" => task[t].state = "running"
                           /\ task'[t].state = "succeeded" <=> task[t].state = "succeeded"
                           /\ task'[t].state \in Live => task[t].state \in Live
    PROVE  Promise!Recede
<1>1. Published' = Published
  BY DEF Published
<1>2. ASSUME NEW u \in Unit
      PROVE  \/ Flight'[u] = Flight[u]
             \/ Flight[u] = "queued" /\ Flight'[u] = "idle"
             \/ Flight[u] = "held" /\ Flight'[u] \in {"queued", "idle"}
  <2>1. Flight'[u] = "held" => Flight[u] = "held"
    BY FlightMeans, FlightMeansNext
  <2>2. Flight[u] = "idle" => Flight'[u] = "idle"
    BY FlightMeans, FlightMeansNext
  <2>3. {Flight[u], Flight'[u]} \subseteq {"idle", "queued", "held"}
    BY FlightMeans, FlightMeansNext
  <2> QED
    BY <2>1, <2>2, <2>3
<1> QED
  BY <1>1, <1>2, FlightMeansNext DEF Promise!Recede

\* Work set up where there was none is admitted.
LEMMA GrowsAdmits == Grows => Promise!Admit
<1> SUFFICES ASSUME Grows PROVE Promise!Admit
  OBVIOUS
<1> DEFINE units == {u \in Unit : Flight[u] = "idle" /\ Flight'[u] = "queued"}
<1>1. Published' = Published
  BY DEF Published, Grows
<1>2. ASSUME NEW u \in Unit
      PROVE  Flight'[u] = IF u \in units THEN "queued" ELSE Flight[u]
  <2>1. Flight'[u] = "held" <=> Flight[u] = "held"
    BY FlightMeans, FlightMeansNext DEF Grows
  <2>2. Flight'[u] = "idle" => Flight[u] = "idle"
    BY FlightMeans, FlightMeansNext DEF Grows
  <2>3. {Flight[u], Flight'[u]} \subseteq {"idle", "queued", "held"}
    BY FlightMeans, FlightMeansNext
  <2> QED
    BY <2>1, <2>2, <2>3
<1>3. units \in SUBSET Unit /\ units \subseteq Promise!In("idle")
  BY DEF Promise!In
<1> HIDE DEF units
<1>4. Flight' = [u \in Unit |-> IF u \in units THEN "queued" ELSE Flight[u]]
  BY <1>2, FlightMeansNext
<1> QED
  BY <1>1, <1>3, <1>4 DEF Promise!Admit, Promise!Move

\* A claim holds a queued unit that some batch wants, and no other is held.
LEMMA PicksUpHolds ==
    ASSUME IInv, NEW t \in Task, PicksUp(t)
    PROVE  Promise!Hold(t[2])
<1>0. /\ \A d \in Task : task[d].state # "running"
      /\ t[2] \in Unit
  BY DEF IInv, HolderIsCurrent, PicksUp, Holding, Task
<1>1. Promise!In("held") = {}
  BY <1>0, FlightMeans DEF Promise!In
<1>2. t[2] \in Wanted
  BY <1>0 DEF Wanted, PicksUp
<1>3. Published' = Published
  BY DEF Published, PicksUp
<1>4. t[2] \in Promise!In("queued")
  <2>1. Flight[t[2]] # "held" /\ Flight[t[2]] # "idle"
    BY <1>0, FlightMeans DEF PicksUp, Live, Waiting
  <2> QED
    BY <1>0, <2>1, FlightMeans DEF Promise!In
<1>5. ASSUME NEW u \in Unit PROVE Flight'[u] = IF u \in {t[2]} THEN "held" ELSE Flight[u]
  <2>1. CASE u = t[2]
    BY <2>1, FlightMeansNext DEF PicksUp
  <2>2. CASE u # t[2]
    <3>1. \A d \in Task : d[2] = u => task'[d] = task[d]
      BY <2>2 DEF PicksUp
    <3>2. (Flight'[u] = "held" <=> Flight[u] = "held")
          /\ (Flight'[u] = "idle" <=> Flight[u] = "idle")
      BY <3>1, FlightMeans, FlightMeansNext
    <3> QED
      BY <2>2, <3>2, FlightMeans, FlightMeansNext
  <2> QED
    BY <2>1, <2>2
<1>6. Flight' = [u \in Unit |-> IF u \in {t[2]} THEN "held" ELSE Flight[u]]
  BY <1>5, FlightMeansNext
<1> QED
  BY <1>1, <1>2, <1>3, <1>4, <1>6 DEF Promise!Hold, Promise!Move

\* The commit publishes the held unit's one result while a batch wants the unit.
LEMMA PublishesOnce ==
    ASSUME IInv, Publishes
    PROVE  Promise!Publish(worker.task[2], worker.task)
<1> DEFINE t == worker.task
           u == t[2]
<1>0. t \in Task /\ task[t].state = "running" /\ task'[t].state = "succeeded"
      /\ worker.at \in Holding /\ worker.at # "down"
  BY HeldRuns DEF Publishes, Holding
<1>1. u \in Unit
  BY <1>0 DEF Task
<1> HIDE DEF t
<1>2. CalmBut(t) /\ ExecutionWanted(batch, link, t)
  BY DEF Publishes, StillWanted, t
<1>3. Flight[u] = "held"
  BY <1>0, <1>1, FlightMeans
<1>4. u \in Wanted
  BY <1>0, <1>1, <1>2 DEF Wanted
<1>5. t \notin Published /\ Published' = Published \cup {t}
  BY <1>0, <1>2 DEF Published, CalmBut
<1>6. Flight'[u] = "idle"
  <2>1. \A d \in Task \ {t} : d[2] = u => task[d].state \notin Live
    BY <1>0 DEF IInv, OneFlight, UniqueIndexHolds, Live
  <2>2. \A d \in Task : d[2] = u => task'[d].state \notin Live
    BY <1>0, <1>2, <2>1 DEF CalmBut, Live, Waiting
  <2> QED
    BY <1>1, <2>2, FlightMeansNext
<1>7. ASSUME NEW v \in Unit \ {u} PROVE Flight'[v] \in {Flight[v], "idle"}
  <2>1. \A d \in Task : d[2] = v => task[d].state # "running" /\ task'[d].state # "running"
    BY <1>0, <1>2 DEF IInv, HolderIsCurrent, CalmBut, t
  <2>2. \A d \in Task : d[2] = v => (task'[d].state \in Live => task[d].state \in Live)
    BY <1>2 DEF CalmBut
  <2>3. Flight[v] # "held" /\ Flight'[v] # "held" /\ (Flight[v] = "idle" => Flight'[v] = "idle")
    BY <2>1, <2>2, FlightMeans, FlightMeansNext
  <2> QED
    BY <2>3, FlightMeans, FlightMeansNext
<1> QED
  BY <1>3, <1>4, <1>5, <1>6, <1>7, FlightMeansNext DEF Promise!Publish, t

LEMMA PromiseStep == IInv /\ Sorts => Promise!Next
<1> SUFFICES ASSUME IInv, Sorts PROVE Promise!Next
  OBVIOUS
<1>1. CASE Quiet \/ Stops \/ Restarts
  BY <1>1, Recedes DEF Quiet, Calm, Stops, Restarts, Promise!Next
<1>2. CASE Grows
  BY <1>2, GrowsAdmits DEF Promise!Next
<1>3. CASE Drops
  <2>1. task[worker.task].state = "running" /\ worker.task \in Task
    BY <1>3, HeldRuns DEF Drops
  <2>2. \A t \in Task : /\ task'[t].state = "running" => task[t].state = "running"
                        /\ task'[t].state = "succeeded" <=> task[t].state = "succeeded"
                        /\ task'[t].state \in Live => task[t].state \in Live
    BY <1>3, <2>1 DEF Drops, CalmBut, Live, Waiting
  <2> QED
    BY <2>2, Recedes DEF Promise!Next
<1>4. CASE Publishes
  <2>1. worker.task \in Task /\ worker.task[2] \in Unit
    BY <1>4, HeldRuns DEF Publishes, Task
  <2> QED
    BY <1>4, <2>1, PublishesOnce DEF Promise!Next
<1>5. ASSUME NEW t \in Task, PicksUp(t) PROVE Promise!Next
  <2>1. t[2] \in Unit
    BY DEF Task
  <2> QED
    BY <1>5, <2>1, PicksUpHolds DEF Promise!Next
<1> QED
  BY <1>1, <1>2, <1>3, <1>4, <1>5 DEF Sorts

LEMMA PromiseInit == Init => Promise!Init
<1> SUFFICES ASSUME Init PROVE Promise!Init
  OBVIOUS
<1>1. \A t \in Task : task[t].state = "absent"
  BY DEF Init, NewTask
<1>2. Flight = [u \in Unit |-> "idle"]
  BY <1>1, FlightMeans DEF Live, Waiting
<1>3. Published = {}
  BY <1>1 DEF Published
<1>4. \A b \in Batch, t \in Task : link[b][t[2]].req = "none"
  BY DEF Init, NoLink, Task
<1>5. Wanted = {}
  BY <1>4 DEF Wanted, ExecutionWanted, AskedFor
<1> QED
  BY <1>2, <1>3, <1>5 DEF Promise!Init

\* The queue keeps UnitWork's promise: whatever batches share, pause, cancel or
\* retry, and wherever it stops, a unit is picked up and published only while a
\* batch asks for it, by the one that holds it, and no result published is lost.
THEOREM QueueKeepsPromise == Spec => KeepsItsPromise
<1>1. Init => Promise!Init
  BY PromiseInit
<1>2. IInv /\ [Next]_vars => [Promise!Next]_(Promise!vars)
  BY EverySort, PromiseStep
<1> QED
  BY <1>1, <1>2, AlwaysIInv, PTL DEF Spec, KeepsItsPromise, Promise!Spec
=============================================================================
