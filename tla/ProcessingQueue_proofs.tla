----------------------- MODULE ProcessingQueue_proofs -----------------------
(***************************************************************************)
(* Proofs about ProcessingQueue, for every set of batches and pages, every *)
(* choice of operations, and every value of the bounds.                    *)
(***************************************************************************)
EXTENDS ProcessingQueue, TLAPS

-----------------------------------------------------------------------------
(* What the statements of the queue do to the tasks (QueueTables).          *)

\* Tasks are set back or closed, none is picked up, published, admitted or reopened.
Calm(tk, new) ==
    \A t \in Task :
        /\ new[t].state = "running" <=> tk[t].state = "running"
        /\ new[t].state = "succeeded" <=> tk[t].state = "succeeded"
        /\ new[t].state = "absent" <=> tk[t].state = "absent"
        /\ new[t].state \in Live => tk[t].state \in Live

\* Giving a unit another try keeps the shape of its row.
LEMMA RequeuedTyped ==
    ASSUME NEW row \in TaskRow
    PROVE  Requeued(row) \in TaskRow /\ Requeued(row).state = "pending"
  BY DEF Requeued, TaskRow, Live, Waiting

\* Setting back or closing a unit keeps the shape of its row.
LEMMA ClosingTyped ==
    ASSUME NEW row \in TaskRow, NEW state \in Live \cup Closed
    PROVE  Closing(row, state) \in TaskRow /\ Closing(row, state).state = state
  BY DEF Closing, TaskRow

\* A newly admitted unit has the shape of a row.
LEMMA NewTaskTyped ==
    ASSUME NEW state \in {"absent", "pending", "blocked"}
    PROVE  NewTask(state) \in TaskRow /\ NewTask(state).state = state
<1>1. 0 \in 0 .. MaxAttempts - 1 /\ 0 \in 0 .. MaxChanges
  BY TablesAssumption
<1> QED
  BY <1>1 DEF NewTask, TaskRow, Live, Waiting

\* The trigger only ever touches blocked tasks, and fails or releases them.
LEMMA SettleRows ==
    ASSUME NEW lk, NEW tk \in [Task -> TaskRow], NEW ends, NEW d \in Task
    PROVE  LET new == SettleDependents(lk, tk, ends)
           IN  \/ new[d] = tk[d]
               \/ /\ tk[d].state = "blocked"
                  /\ new[d] \in TaskRow
                  /\ new[d].state \in {"failed", "pending"}
<1>1. tk[d] \in TaskRow
  OBVIOUS
<1>2. /\ Closing(tk[d], "failed") \in TaskRow /\ Closing(tk[d], "failed").state = "failed"
      /\ Requeued(tk[d]) \in TaskRow /\ Requeued(tk[d]).state = "pending"
  BY <1>1, RequeuedTyped, ClosingTyped DEF Closed
<1> QED
  BY <1>2 DEF SettleDependents

LEMMA SettleTyped ==
    ASSUME NEW lk, NEW tk \in [Task -> TaskRow], NEW ends
    PROVE  SettleDependents(lk, tk, ends) \in [Task -> TaskRow]
<1> DEFINE new == SettleDependents(lk, tk, ends)
<1>1. new = [d \in Task |-> new[d]]
  BY DEF SettleDependents
<1>2. \A d \in Task : new[d] \in TaskRow
  BY SettleRows
<1> HIDE DEF new
<1>3. new \in [Task -> TaskRow]
  BY <1>1, <1>2
<1> QED
  BY <1>3 DEF new

LEMMA SettleCalm ==
    ASSUME NEW lk, NEW tk \in [Task -> TaskRow], NEW ends
    PROVE  Calm(tk, SettleDependents(lk, tk, ends))
<1> SUFFICES ASSUME NEW d \in Task
             PROVE  LET new == SettleDependents(lk, tk, ends)
                    IN  /\ new[d].state = "running" <=> tk[d].state = "running"
                        /\ new[d].state = "succeeded" <=> tk[d].state = "succeeded"
                        /\ new[d].state = "absent" <=> tk[d].state = "absent"
                        /\ new[d].state \in Live => tk[d].state \in Live
  BY DEF Calm
<1> QED
  BY SettleRows DEF Live, Waiting

\* A statement that changes rows calmly, followed by the trigger, is calm.
LEMMA CalmThenCalm ==
    ASSUME NEW tk, NEW mid, NEW new, Calm(tk, mid), Calm(mid, new)
    PROVE  Calm(tk, new)
  BY DEF Calm

\* Sweeping closes waiting tasks only.
LEMMA CancelOrphansCalm ==
    ASSUME NEW lk, NEW tk \in [Task -> TaskRow]
    PROVE  /\ CancelOrphans(lk, tk) \in [Task -> TaskRow]
           /\ Calm(tk, CancelOrphans(lk, tk))
<1> DEFINE orphans == Orphans(lk, tk)
           mid == [t \in Task |-> IF t \in orphans THEN Closing(tk[t], "cancelled") ELSE tk[t]]
<1>1. \A t \in Task : /\ Closing(tk[t], "cancelled") \in TaskRow
                      /\ Closing(tk[t], "cancelled").state = "cancelled"
  BY ClosingTyped DEF Closed
<1>2. mid \in [Task -> TaskRow]
  BY <1>1
<1>3. Calm(tk, mid)
  <2>1. \A t \in orphans : tk[t].state \in Waiting
    BY DEF Orphans
  <2> HIDE DEF orphans
  <2> QED
    BY <1>1, <2>1 DEF Calm, Waiting, Live
<1>4. CancelOrphans(lk, tk) = SettleDependents(lk, mid, orphans)
  BY DEF CancelOrphans
<1> HIDE DEF mid, orphans
<1> QED
  BY <1>2, <1>3, <1>4, SettleTyped, SettleCalm, CalmThenCalm

\* Closing one task leaves every other one calm.
LEMMA CloseRows ==
    ASSUME NEW lk, NEW tk \in [Task -> TaskRow], NEW t \in Task,
           NEW state \in Closed, tk[t].state # "blocked"
    PROVE  LET new == Close(lk, tk, t, state)
           IN  /\ new \in [Task -> TaskRow]
               /\ new[t].state = state
               /\ \A d \in Task \ {t} : \/ new[d] = tk[d]
                                        \/ /\ tk[d].state = "blocked"
                                           /\ new[d].state \in {"failed", "pending"}
<1> DEFINE mid == [tk EXCEPT ![t] = Closing(@, state)]
           new == SettleDependents(lk, mid, {t})
<1>1. Closing(tk[t], state) \in TaskRow /\ Closing(tk[t], state).state = state
  BY ClosingTyped
<1>2. mid \in [Task -> TaskRow] /\ mid[t].state = state
      /\ \A d \in Task \ {t} : mid[d] = tk[d]
  BY <1>1
<1>3. state # "blocked"
  BY DEF Closed, Satisfied
<1> HIDE DEF mid
<1>4. new \in [Task -> TaskRow]
  BY <1>2, SettleTyped
<1>5. \A d \in Task : \/ new[d] = mid[d]
                      \/ mid[d].state = "blocked" /\ new[d].state \in {"failed", "pending"}
  BY <1>2, SettleRows
<1>6. new = Close(lk, tk, t, state)
  BY DEF Close, mid
<1> HIDE DEF new
<1> QED
  BY <1>2, <1>3, <1>4, <1>5, <1>6

LEMMA CloseTyped ==
    ASSUME NEW lk, NEW tk \in [Task -> TaskRow], NEW t \in Task, NEW state \in Closed
    PROVE  Close(lk, tk, t, state) \in [Task -> TaskRow]
<1>1. Closing(tk[t], state) \in TaskRow
  BY ClosingTyped
<1>2. [tk EXCEPT ![t] = Closing(@, state)] \in [Task -> TaskRow]
  BY <1>1
<1> QED
  BY <1>2, SettleTyped DEF Close

\* A unit without a live task gets one, of the batch that plans it; one with a
\* live task is attached to.
LEMMA NewTasksRows ==
    ASSUME NEW tk \in [Task -> TaskRow], NEW b \in Batch, NEW p \in Page,
           NEW plan \in [Kind -> {"no", "free"} \cup Kind]
    PROVE  LET new == NewTasks(tk, b, p, plan)
           IN  /\ new \in [Task -> TaskRow]
               /\ \A t \in Task : \/ new[t] = tk[t]
                                  \/ /\ t[1] = b /\ t[2][1] = p
                                     /\ LiveTasks(tk, t[2]) = {}
                                     /\ new[t].state \in {"pending", "blocked"}
<1> DEFINE new == NewTasks(tk, b, p, plan)
<1>1. /\ NewTask("pending") \in TaskRow /\ NewTask("pending").state = "pending"
      /\ NewTask("blocked") \in TaskRow /\ NewTask("blocked").state = "blocked"
  BY NewTaskTyped
<1>2. \A t \in Task : \/ new[t] = tk[t]
                      \/ /\ t = <<b, t[2]>> /\ t[2][1] = p /\ LiveTasks(tk, t[2]) = {}
                         /\ new[t] \in {NewTask("pending"), NewTask("blocked")}
  BY DEF NewTasks
<1>3. new = [t \in Task |-> new[t]]
  BY DEF NewTasks
<1> HIDE DEF new
<1>4. \A t \in Task : new[t] \in TaskRow
  BY <1>1, <1>2
<1>5. \A t \in Task : t = <<b, t[2]>> => t[1] = b
  OBVIOUS
<1>6. new \in [Task -> TaskRow]
  BY <1>3, <1>4
<1> QED
  BY <1>1, <1>2, <1>5, <1>6 DEF new

\* Links made by planning name tasks.
LEMMA NewLinksTyped ==
    ASSUME NEW lk \in [Batch -> [Unit -> LinkRow]], NEW tk, NEW b \in Batch, NEW p \in Page,
           NEW plan \in [Kind -> {"no", "free"} \cup Kind]
    PROVE  NewLinks(lk, tk, b, p, plan) \in [Batch -> [Unit -> LinkRow]]
<1>1. \A u \in Unit : Admitted(tk, b, u) \in Task
  BY DEF Admitted, LiveTasks, Task
<1>2. \A u \in Unit : plan[u[2]] \in Kind => <<p, plan[u[2]]>> \in Unit
  BY DEF Unit
<1>3. \A u \in Unit :
         [task |-> Admitted(tk, b, u), req |-> "active",
          dep |-> IF plan[u[2]] \in Kind THEN Admitted(tk, b, <<p, plan[u[2]]>>) ELSE NoTask]
         \in LinkRow
  BY <1>1, <1>2 DEF LinkRow
<1> QED
  BY <1>3 DEF NewLinks

-----------------------------------------------------------------------------
(* Types.                                                                  *)

Places == Idle \cup Holding
WorkerType ==
    [at : Places, task : Task \cup {NoTask}, stop : BOOLEAN,
     result : {"none", "stopped"} \cup AnyAnswer, todo : SUBSET Batch,
     page : {<<>>} \cup (Batch \X Page \X [Kind -> {"no", "free"} \cup Kind]),
     fate : {<<>>} \cup (Batch \X Ended)]
CallType == [batch : SUBSET Batch, targets : SUBSET Task, left : SUBSET Task,
             action : {"none", "pause", "resume", "cancel", "links", "tasks", "batch"}]

\* A worker between units holds none and has nothing in mind.
LEMMA AtTyped ==
    ASSUME NEW at \in Idle, NEW todo \in SUBSET Batch
    PROVE  /\ At(at) \in WorkerType
           /\ [At(at) EXCEPT !.todo = todo] \in WorkerType
  BY DEF At, WorkerType, Places

LEMMA InitTyped == Init => TypeOK
<1> SUFFICES ASSUME Init PROVE TypeOK
  OBVIOUS
<1>1. batch \in [Batch -> BatchRow]
  BY DEF Init, BatchRow
<1>2. link \in [Batch -> [Unit -> LinkRow]]
  BY DEF Init, NoLink, LinkRow
<1>3. task \in [Task -> TaskRow]
  BY NewTaskTyped DEF Init
<1>4. worker \in WorkerType /\ worker.at \notin Holding /\ worker.at # "admit"
  BY AtTyped DEF Init, At, Idle, Holding
<1>5. call \in CallType /\ asked \subseteq Batch
  BY DEF Init, NoCall, CallType
<1> QED
  BY <1>1, <1>2, <1>3, <1>4, <1>5 DEF TypeOK, WorkerType, CallType, Places

\* A row of a batch that the user's intent or the supervisor moves stays a row.
LEMMA BatchTyped ==
    ASSUME NEW bt \in [Batch -> BatchRow], NEW lk, NEW tk
    PROVE  /\ PromotePrepared(bt) \in [Batch -> BatchRow]
           /\ PromoteReady(bt) \in [Batch -> BatchRow]
           /\ ObservePaused(bt, lk, tk) \in [Batch -> BatchRow]
<1>1. \A b \in Batch : bt[b] \in BatchRow
  OBVIOUS
<1>2. \A b \in Batch : /\ [bt[b] EXCEPT !.state = "ready"] \in BatchRow
                       /\ [bt[b] EXCEPT !.state = "running"] \in BatchRow
                       /\ [bt[b] EXCEPT !.state = "paused"] \in BatchRow
  BY <1>1 DEF BatchRow
<1> QED
  BY <1>1, <1>2 DEF PromotePrepared, PromoteReady, ObservePaused

LEMMA BatchRowTyped ==
    ASSUME NEW row \in BatchRow
    PROVE  /\ \A state \in Ended : [row EXCEPT !.state = state] \in BatchRow
           /\ \A p : [row EXCEPT !.left = @ \ {p}] \in BatchRow
<1>1. \A state \in Ended : [row EXCEPT !.state = state] \in BatchRow
  BY DEF BatchRow
<1>2. ASSUME NEW p PROVE [row EXCEPT !.left = @ \ {p}] \in BatchRow
  <2>1. row.left \ {p} \in SUBSET Page
    BY DEF BatchRow
  <2> QED
    BY <2>1 DEF BatchRow
<1> QED
  BY <1>1, <1>2

LEMMA LinksOfTyped ==
    ASSUME TypeOK, NEW b \in Batch, NEW from, NEW to \in {"active", "paused", "cancelled"}
    PROVE  LinksOf(b, from, to) \in [Batch -> [Unit -> LinkRow]]
<1>1. \A u \in Unit : link[b][u] \in LinkRow
  BY DEF TypeOK
<1>2. \A u \in Unit : [link[b][u] EXCEPT !.req = to] \in LinkRow
  BY <1>1 DEF LinkRow
<1> QED
  BY <1>1, <1>2 DEF LinksOf, TypeOK

\* What resuming, retrying and saving the settings do to the tasks.
LEMMA ResumedTyped ==
    ASSUME TypeOK, NEW b \in Batch
    PROVE  ResumedTasks(b) \in [Task -> TaskRow]
<1>1. \A t \in Task : task[t] \in TaskRow /\ Requeued(task[t]) \in TaskRow
  BY RequeuedTyped DEF TypeOK
<1>2. 0 \in 0 .. MaxChanges
  BY TablesAssumption
<1>3. \A t \in Task : /\ [Requeued(task[t]) EXCEPT !.changes = 0] \in TaskRow
                      /\ [Requeued(task[t]) EXCEPT !.changes = @] \in TaskRow
  BY <1>1, <1>2 DEF TaskRow
<1> QED
  BY <1>1, <1>3 DEF ResumedTasks

LEMMA ReopenedTyped ==
    ASSUME TypeOK, NEW targets
    PROVE  Reopened(targets) \in [Task -> TaskRow]
  BY NewTaskTyped DEF Reopened, TypeOK

LEMMA FixedTyped ==
    ASSUME NEW tk \in [Task -> TaskRow], NEW chosen
    PROVE  [t \in Task |-> IF t \in chosen THEN Requeued(tk[t]) ELSE tk[t]] \in [Task -> TaskRow]
  BY RequeuedTyped

LEMMA RepairsTyped ==
    ASSUME NEW tk \in [Task -> TaskRow], NEW repaired \in Repairs(tk)
    PROVE  repaired \in [Task -> TaskRow] /\ Calm(tk, repaired)
<1> DEFINE blocked == {t \in Task : tk[t].state = "blocked"}
           over(t, states) == \E d \in Task : DependsOn(link, t, d) /\ tk[d].state \in states
           dead == {t \in blocked : over(t, {"failed", "cancelled"})}
           clear == {t \in blocked : over(t, Satisfied)}
           mid(lost) == [t \in Task |-> IF t \in lost THEN Closing(tk[t], "failed")
                                        ELSE IF t \in clear THEN Requeued(tk[t]) ELSE tk[t]]
<1>1. PICK lost \in SUBSET dead : repaired = SettleDependents(link, mid(lost), lost)
  BY DEF Repairs
<1>2. \A t \in Task : /\ Closing(tk[t], "failed") \in TaskRow
                      /\ Closing(tk[t], "failed").state = "failed"
                      /\ Requeued(tk[t]) \in TaskRow
                      /\ Requeued(tk[t]).state = "pending"
  BY ClosingTyped, RequeuedTyped DEF Closed
<1>3. mid(lost) \in [Task -> TaskRow]
  BY <1>2
<1>4. Calm(tk, mid(lost))
  <2>1. \A t \in lost \cup clear : tk[t].state = "blocked"
    OBVIOUS
  <2> HIDE DEF clear, dead
  <2> QED
    BY <1>2, <2>1 DEF Calm, Live, Waiting
<1> HIDE DEF mid
<1> QED
  BY <1>1, <1>3, <1>4, SettleTyped, SettleCalm, CalmThenCalm

-----------------------------------------------------------------------------
(* Every step keeps the types.                                             *)

\* The types, table by table.
LEMMA TypeParts ==
    TypeOK <=> /\ batch \in [Batch -> BatchRow] /\ link \in [Batch -> [Unit -> LinkRow]]
               /\ task \in [Task -> TaskRow]
               /\ worker \in WorkerType /\ (worker.at \in Holding => worker.task \in Task)
      /\ (worker.at = "admit" => worker.page # <<>>)
               /\ (worker.at = "admit" => worker.page # <<>>)
               /\ call \in CallType /\ asked \subseteq Batch
  BY DEF TypeOK, WorkerType, CallType, Places

LEMMA TypePartsNext ==
    TypeOK' <=> /\ batch' \in [Batch -> BatchRow] /\ link' \in [Batch -> [Unit -> LinkRow]]
                /\ task' \in [Task -> TaskRow]
                /\ worker' \in WorkerType /\ (worker'.at \in Holding => worker'.task \in Task)
                /\ (worker'.at = "admit" => worker'.page # <<>>)
                /\ call' \in CallType /\ asked' \subseteq Batch
  BY DEF TypeOK, WorkerType, CallType, Places

LEMMA NoCallTyped == NoCall \in CallType
  BY DEF NoCall, CallType

LEMMA WrittenTyped ==
    ASSUME call \in CallType, NEW t \in Task, NEW next \in {"tasks", "batch"}, Written(t, next)
    PROVE  call' \in CallType
  BY DEF Written, CallType

LEMMA UserTyped == TypeOK /\ User => TypeOK'
<1> SUFFICES ASSUME TypeOK, User PROVE TypeOK'
  OBVIOUS
<1>0. /\ batch \in [Batch -> BatchRow] /\ link \in [Batch -> [Unit -> LinkRow]]
      /\ task \in [Task -> TaskRow]
      /\ worker \in WorkerType /\ (worker.at \in Holding => worker.task \in Task)
      /\ (worker.at = "admit" => worker.page # <<>>)
      /\ call \in CallType /\ asked \subseteq Batch
  BY TypeParts
<1>1. ASSUME NEW b \in Batch, Prepare(b) PROVE TypeOK'
  <2>1. PICK scope \in SUBSET Page :
          batch' = [batch EXCEPT ![b] = [state |-> "preparing", desired |-> "pause",
                                         left |-> scope, planned |-> scope = {}]]
    BY <1>1 DEF Prepare
  <2>2. [state |-> "preparing", desired |-> "pause", left |-> scope, planned |-> scope = {}]
          \in BatchRow
    BY DEF BatchRow
  <2>3. batch' \in [Batch -> BatchRow]
    BY <1>0, <2>1, <2>2
  <2> QED
    BY <1>0, <1>1, <2>3, TypePartsNext DEF Prepare
<1>2. ASSUME NEW b \in Batch, Start(b) PROVE TypeOK'
  <2>1. [batch[b] EXCEPT !.desired = "run"] \in BatchRow
    BY <1>0 DEF BatchRow
  <2>2. batch' \in [Batch -> BatchRow]
    BY <1>0, <1>2, <2>1 DEF Start
  <2> QED
    BY <1>0, <1>2, <2>2, TypePartsNext DEF Start
<1>3. ASSUME NEW b \in Batch, Pause(b) PROVE TypeOK'
  <2>1. [batch[b] EXCEPT !.desired = "pause",
                         !.state = IF @ = "running" THEN "pausing" ELSE @] \in BatchRow
    BY <1>0 DEF BatchRow
  <2>2. batch' \in [Batch -> BatchRow]
    BY <1>0, <1>3, <2>1 DEF Pause
  <2>3. link' \in [Batch -> [Unit -> LinkRow]]
    BY <1>3, LinksOfTyped DEF Pause
  <2> QED
    BY <1>0, <1>3, <2>2, <2>3, TypePartsNext, NoCallTyped DEF Pause
<1>4. ASSUME NEW b \in Batch, Resume(b) PROVE TypeOK'
  <2>1. [batch[b] EXCEPT !.desired = "run",
                         !.state = IF @ \in {"paused", "pausing", "interrupted"}
                                   THEN IF batch[b].planned THEN "ready" ELSE "preparing"
                                   ELSE @] \in BatchRow
    BY <1>0 DEF BatchRow
  <2>2. batch' \in [Batch -> BatchRow]
    BY <1>0, <1>4, <2>1 DEF Resume
  <2>3. link' \in [Batch -> [Unit -> LinkRow]] /\ task' \in [Task -> TaskRow]
    BY <1>4, LinksOfTyped, ResumedTyped DEF Resume
  <2> QED
    BY <1>0, <1>4, <2>2, <2>3, TypePartsNext, NoCallTyped DEF Resume
<1>5. ASSUME NEW b \in Batch, Cancel(b) PROVE TypeOK'
  <2> DEFINE cancelling == [batch EXCEPT ![b].desired = "cancel", ![b].state = "cancelling"]
  <2>1. [batch[b] EXCEPT !.desired = "cancel", !.state = "cancelling"] \in BatchRow
    BY <1>0 DEF BatchRow
  <2>2. cancelling \in [Batch -> BatchRow]
    BY <1>0, <2>1
  <2>a. \A lk, tk : Verdict(cancelling, lk, tk, b) \in Ended
    BY DEF Verdict, Ended
  <2> HIDE DEF cancelling
  <2>b. \A state \in Ended : [cancelling[b] EXCEPT !.state = state] \in BatchRow
    BY <2>2, BatchRowTyped
  <2>3. \A lk, tk : [cancelling[b] EXCEPT !.state = Verdict(cancelling, lk, tk, b)] \in BatchRow
    BY <2>a, <2>b
  <2>4. batch' \in [Batch -> BatchRow]
    BY <1>5, <2>2, <2>3 DEF Cancel, cancelling
  <2>5. link' \in [Batch -> [Unit -> LinkRow]] /\ task' \in [Task -> TaskRow]
    BY <1>0, <1>5, LinksOfTyped, CancelOrphansCalm DEF Cancel
  <2> QED
    BY <1>0, <1>5, <2>4, <2>5, TypePartsNext, NoCallTyped DEF Cancel
<1>6. ASSUME NEW b \in Batch, NEW action \in {"pause", "resume", "cancel"}, ReadBatch(b, action)
      PROVE  TypeOK'
  <2>1. Judged(b, action) \in CallType
    BY DEF Judged, CallType
  <2> QED
    BY <1>0, <1>6, <2>1, TypePartsNext DEF ReadBatch, tables
<1>7. ASSUME NEW b \in Batch, ListFailed(b) PROVE TypeOK'
  <2>1. PICK targets \in Targets(b) :
          call' = [batch |-> {b}, action |-> "links", targets |-> targets, left |-> targets]
    BY <1>7 DEF ListFailed
  <2>2. targets \subseteq Task
    BY DEF Targets, FailedOf, FailedDependencies
  <2>3. call' \in CallType
    BY <2>1, <2>2 DEF CallType
  <2> QED
    BY <1>0, <1>7, <2>3, TypePartsNext DEF ListFailed, tables
<1>8. ASSUME NEW b \in Batch, RetryBatch(b) PROVE TypeOK'
  <2>1. /\ batch[b] \in BatchRow
        /\ [batch[b] EXCEPT !.state = "ready", !.desired = "run"] \in BatchRow
    BY <1>0 DEF BatchRow
  <2>2. batch' \in [Batch -> BatchRow] /\ asked' \subseteq Batch
    BY <1>0, <1>8, <2>1 DEF RetryBatch, RunAgain
  <2> QED
    BY <1>0, <1>8, <2>2, TypePartsNext, NoCallTyped DEF RetryBatch
<1>a. ASSUME NEW b \in Batch, NEW t \in Task, RetryLink(b, t) PROVE TypeOK'
  <2>1. \A row \in LinkRow : [row EXCEPT !.req = "active"] \in LinkRow
    BY DEF LinkRow
  <2>2. link' \in [Batch -> [Unit -> LinkRow]]
    BY <1>0, <1>a, <2>1 DEF RetryLink, Reactivated
  <2>3. call' \in CallType
    BY <1>0, <1>a, WrittenTyped DEF RetryLink
  <2> QED
    BY <1>0, <1>a, <2>2, <2>3, TypePartsNext DEF RetryLink
<1>b. ASSUME NEW b \in Batch, NEW t \in Task, RetryTask(b, t) PROVE TypeOK'
  <2>1. task' \in [Task -> TaskRow]
    BY <1>0, <1>b, ReopenedTyped DEF RetryTask
  <2>2. call' \in CallType
    BY <1>0, <1>b, WrittenTyped, NoCallTyped DEF RetryTask
  <2> QED
    BY <1>0, <1>b, <2>1, <2>2, TypePartsNext DEF RetryTask
<1>9. ASSUME ConfigurationFixed PROVE TypeOK'
  <2>1. task' \in [Task -> TaskRow]
    BY <1>0, <1>9, FixedTyped DEF ConfigurationFixed
  <2> QED
    BY <1>0, <1>9, <2>1, TypePartsNext DEF ConfigurationFixed
<1> QED
  BY <1>1, <1>2, <1>3, <1>4, <1>5, <1>6, <1>7, <1>8, <1>9, <1>a, <1>b DEF User

LEMMA PlanTyped == TypeOK /\ Plan => TypeOK'
<1> SUFFICES ASSUME TypeOK, Plan PROVE TypeOK'
  OBVIOUS
<1>0. /\ batch \in [Batch -> BatchRow] /\ link \in [Batch -> [Unit -> LinkRow]]
      /\ task \in [Task -> TaskRow]
      /\ worker \in WorkerType /\ (worker.at \in Holding => worker.task \in Task)
      /\ (worker.at = "admit" => worker.page # <<>>)
      /\ call \in CallType /\ asked \subseteq Batch
  BY TypeParts
<1>1. ASSUME Tick PROVE TypeOK'
  <2>1. worker' \in WorkerType /\ worker'.at = "plan"
    BY <1>1, AtTyped DEF Tick, PlanningBatches, At, Idle
  <2>2. \A t \in Task : [task[t] EXCEPT !.state = "blocked", !.why = "moved"] \in TaskRow
    BY <1>0 DEF TaskRow, Live, Waiting
  <2>3. task' \in [Task -> TaskRow]
    BY <1>0, <1>1, <2>2 DEF Tick
  <2> QED
    BY <1>0, <1>1, <2>1, <2>3, TypePartsNext DEF Tick, Holding
<1>2. ASSUME NEW b \in Batch, ClassifyPage(b) PROVE TypeOK'
  <2>1. PICK p \in batch[b].left, plan \in PagePlans(b) :
          worker' = [worker EXCEPT !.at = "admit", !.page = <<b, p, plan>>]
    BY <1>2 DEF ClassifyPage
  <2>2. p \in Page /\ plan \in [Kind -> {"no", "free"} \cup Kind]
    BY <1>0 DEF BatchRow, PagePlans
  <2>3. worker' \in WorkerType /\ worker'.at = "admit"
    BY <1>0, <2>1, <2>2 DEF WorkerType, Places, Idle
  <2> QED
    BY <1>0, <1>2, <2>3, TypePartsNext DEF ClassifyPage, tables, Holding
<1>3. ASSUME NEW b \in Batch, ClosePlanning(b) PROVE TypeOK'
  <2>1. [batch[b] EXCEPT !.planned = TRUE] \in BatchRow
    BY <1>0 DEF BatchRow
  <2>2. batch' \in [Batch -> BatchRow]
    BY <1>0, <1>3, <2>1 DEF ClosePlanning
  <2>3. worker' \in WorkerType /\ worker'.at = "promote"
    BY <1>0, <1>3 DEF ClosePlanning, WorkerType, Places, Idle
  <2> QED
    BY <1>0, <1>3, <2>2, <2>3, TypePartsNext DEF ClosePlanning, Holding
<1>4. ASSUME Promote PROVE TypeOK'
  <2>1. batch' \in [Batch -> BatchRow]
    BY <1>0, <1>4, BatchTyped DEF Promote
  <2>2. worker' \in WorkerType /\ worker'.at = "plan"
    BY <1>0, <1>4 DEF Promote, WorkerType, Places, Idle
  <2> QED
    BY <1>0, <1>4, <2>1, <2>2, TypePartsNext DEF Promote, Holding
<1>5. ASSUME PlanningDone PROVE TypeOK'
  <2>1. batch' \in [Batch -> BatchRow]
    BY <1>0, <1>5, BatchTyped DEF PlanningDone
  <2>2. worker' \in WorkerType /\ worker'.at = "claim"
    BY <1>5, AtTyped DEF PlanningDone, At, Idle
  <2> QED
    BY <1>0, <1>5, <2>1, <2>2, TypePartsNext DEF PlanningDone, Holding
<1>6. ASSUME AdmitPage PROVE TypeOK'
  <2> DEFINE b == worker.page[1]
             p == worker.page[2]
             plan == worker.page[3]
  <2>1. b \in Batch /\ p \in Page /\ plan \in [Kind -> {"no", "free"} \cup Kind]
    BY <1>0, <1>6 DEF AdmitPage, WorkerType
  <2>a. /\ batch' = [batch EXCEPT ![b].left = @ \ {p}]
        /\ task' = NewTasks(task, b, p, plan)
        /\ link' = NewLinks(link, task, b, p, plan)
    BY <1>6 DEF AdmitPage
  <2> HIDE DEF b, p, plan
  <2>2. [batch[b] EXCEPT !.left = @ \ {p}] \in BatchRow
    BY <1>0, <2>1, BatchRowTyped
  <2>3. batch' \in [Batch -> BatchRow]
    BY <1>0, <2>a, <2>1, <2>2
  <2>4. task' \in [Task -> TaskRow] /\ link' \in [Batch -> [Unit -> LinkRow]]
    BY <1>0, <2>a, <2>1, NewTasksRows, NewLinksTyped
  <2>5. worker' \in WorkerType /\ worker'.at = "promote"
    BY <1>0, <1>6 DEF AdmitPage, WorkerType, Places, Idle
  <2> QED
    BY <1>0, <1>6, <2>3, <2>4, <2>5, TypePartsNext DEF AdmitPage, Holding
<1> QED
  BY <1>1, <1>2, <1>3, <1>4, <1>5, <1>6 DEF Plan

\* What an attempt's end does to the row of its task.
LEMMA AttemptRows ==
    ASSUME NEW row \in TaskRow
    PROVE  /\ \A why \in {"required", "moved"} :
                [row EXCEPT !.state = "blocked", !.why = why] \in TaskRow
           /\ [row EXCEPT !.state = "retry_wait"] \in TaskRow
           /\ row.retries + 1 < MaxAttempts =>
                [row EXCEPT !.state = "retry_wait", !.retries = @ + 1] \in TaskRow
           /\ [row EXCEPT !.state = "blocked", !.why = "moved", !.changes = MaxChanges] \in TaskRow
           /\ row.changes + 1 < MaxChanges =>
                [row EXCEPT !.state = "pending", !.why = "none", !.changes = @ + 1] \in TaskRow
<1>1. \A why \in {"required", "moved"} :
         [row EXCEPT !.state = "blocked", !.why = why] \in TaskRow
  BY DEF TaskRow, Live, Waiting
<1>2. [row EXCEPT !.state = "retry_wait"] \in TaskRow
  BY DEF TaskRow, Live, Waiting
<1>3. ASSUME row.retries + 1 < MaxAttempts
      PROVE  [row EXCEPT !.state = "retry_wait", !.retries = @ + 1] \in TaskRow
  <2>1. row.retries + 1 \in 0 .. MaxAttempts - 1
    BY <1>3, TablesAssumption DEF TaskRow
  <2> QED
    BY <2>1 DEF TaskRow, Live, Waiting
<1>4. [row EXCEPT !.state = "blocked", !.why = "moved", !.changes = MaxChanges] \in TaskRow
  <2>1. MaxChanges \in 0 .. MaxChanges
    BY TablesAssumption
  <2> QED
    BY <2>1 DEF TaskRow, Live, Waiting
<1>5. ASSUME row.changes + 1 < MaxChanges
      PROVE  [row EXCEPT !.state = "pending", !.why = "none", !.changes = @ + 1] \in TaskRow
  <2>1. row.changes + 1 \in 0 .. MaxChanges
    BY <1>5, TablesAssumption DEF TaskRow
  <2> QED
    BY <2>1 DEF TaskRow, Live, Waiting
<1> QED
  BY <1>1, <1>2, <1>3, <1>4, <1>5

LEMMA WorkTyped == TypeOK /\ Work => TypeOK'
<1> SUFFICES ASSUME TypeOK, Work PROVE TypeOK'
  OBVIOUS
<1>0. /\ batch \in [Batch -> BatchRow] /\ link \in [Batch -> [Unit -> LinkRow]]
      /\ task \in [Task -> TaskRow]
      /\ worker \in WorkerType /\ (worker.at \in Holding => worker.task \in Task)
      /\ (worker.at = "admit" => worker.page # <<>>)
      /\ call \in CallType /\ asked \subseteq Batch
  BY TypeParts
<1>a. /\ At("sweep") \in WorkerType /\ At("sweep").at = "sweep"
      /\ LetGo \in WorkerType /\ LetGo.at = "links"
  BY AtTyped DEF LetGo, At, Idle
<1>b. \A at \in Holding : [worker EXCEPT !.at = at] \in WorkerType
  BY <1>0 DEF WorkerType, Places
<1>c. /\ {"sweep", "links"} \cap (Holding \cup {"admit"}) = {}
      /\ {"check", "run", "settle", "moved", "config", "publish", "interrupt"} \subseteq Holding
      /\ "admit" \notin Holding
  BY DEF Holding
<1>1. ASSUME NEW t \in Task, Claim(t) PROVE TypeOK'
  <2>1. /\ Closing(task[t], "running") \in TaskRow
        /\ [task[t] EXCEPT !.state = "blocked", !.why = "moved"] \in TaskRow
    BY <1>0, ClosingTyped, AttemptRows DEF Live
  <2>2. "skipped" \in Closed
    BY DEF Closed, Satisfied
  <2>3. Close(link, task, t, "skipped") \in [Task -> TaskRow]
    BY <1>0, <2>2, CloseTyped
  <2>4. task' \in [Task -> TaskRow]
    BY <1>0, <1>1, <2>1, <2>3 DEF Claim
  <2>5. [At("check") EXCEPT !.task = t] \in WorkerType
    BY DEF At, WorkerType, Places, Holding
  <2>6. /\ worker' \in WorkerType
        /\ worker'.at \in Holding => worker'.task \in Task
        /\ worker'.at # "admit"
    BY <1>1, <1>a, <1>c, <2>5 DEF Claim, At
  <2> QED
    BY <1>0, <1>1, <2>4, <2>6, TypePartsNext DEF Claim
<1>2. ASSUME NothingToClaim PROVE TypeOK'
  BY <1>0, <1>2, <1>a, <1>c, TypePartsNext DEF NothingToClaim, tables
<1>3. ASSUME CheckDemand PROVE TypeOK'
  <2>1. worker' \in WorkerType /\ worker'.task = worker.task /\ worker.at \in Holding
        /\ worker'.at # "admit"
    BY <1>0, <1>3, <1>b, <1>c DEF CheckDemand, WorkerType
  <2> QED
    BY <1>0, <1>3, <2>1, TypePartsNext DEF CheckDemand, tables
<1>4. ASSUME ExecutorEnds PROVE TypeOK'
  <2>a. worker.at \in Holding
    BY <1>4, <1>c DEF ExecutorEnds
  <2>b. CASE \E result \in Answers \cup {"stopped"} :
               worker' = [worker EXCEPT !.at = "settle", !.stop = FALSE, !.result = result]
    <3>1. PICK result \in AnyAnswer \cup {"stopped"} :
            worker' = [worker EXCEPT !.at = "settle", !.stop = FALSE, !.result = result]
      BY <2>b DEF Answers, AnyAnswer
    <3>2. worker' \in WorkerType /\ worker'.task = worker.task /\ worker'.at = "settle"
      BY <1>0, <1>c, <3>1 DEF WorkerType, Places
    <3> QED
      BY <1>0, <1>4, <2>a, <3>2, TypePartsNext DEF ExecutorEnds, tables
  <2>c. CASE worker' = [worker EXCEPT !.at = "interrupt", !.stop = FALSE]
    <3>1. worker' \in WorkerType /\ worker'.task = worker.task /\ worker'.at = "interrupt"
      BY <1>0, <1>c, <2>c DEF WorkerType, Places
    <3> QED
      BY <1>0, <1>4, <2>a, <3>1, TypePartsNext DEF ExecutorEnds, tables
  <2> QED
    BY <1>4, <2>b, <2>c DEF ExecutorEnds
<1>5. ASSUME Commit PROVE TypeOK'
  <2>1. worker.task \in Task /\ "succeeded" \in Closed
    BY <1>0, <1>5, <1>c DEF Commit, Closed, Satisfied
  <2>2. CASE /\ ~StillWanted
             /\ worker' = [worker EXCEPT !.at = "interrupt"] /\ task' = task
    <3>1. worker' \in WorkerType /\ worker'.task = worker.task /\ worker'.at = "interrupt"
      BY <1>0, <1>b, <1>c, <2>2 DEF WorkerType
    <3> QED
      BY <1>0, <1>5, <2>1, <2>2, <3>1, TypePartsNext DEF Commit
  <2>3. CASE \E at \in {"moved", "config", "publish"} :
               worker' = [worker EXCEPT !.at = at] /\ task' = task
    <3>1. worker' \in WorkerType /\ worker'.task = worker.task /\ worker'.at # "admit"
      BY <1>0, <1>b, <1>c, <2>3 DEF WorkerType
    <3> QED
      BY <1>0, <1>5, <2>1, <2>3, <3>1, TypePartsNext DEF Commit
  <2>4. CASE /\ task' = Close(link, task, worker.task, "succeeded")
             /\ worker' = LetGo
    <3>1. task' \in [Task -> TaskRow]
      BY <1>0, <2>1, <2>4, CloseTyped
    <3> QED
      BY <1>0, <1>5, <1>a, <1>c, <2>4, <3>1, TypePartsNext DEF Commit
  <2> QED
    BY <1>5, <2>2, <2>3, <2>4 DEF Commit
<1>6. ASSUME SourceMoved PROVE TypeOK'
  <2>1. worker.task \in Task
    BY <1>0, <1>6, <1>c DEF SourceMoved
  <2> DEFINE row == task[worker.task]
             blocks == row.changes + 1 >= MaxChanges
  <2>2. row.changes \in Nat /\ MaxChanges \in Nat
    BY <1>0, <2>1, TablesAssumption DEF TaskRow
  <2>3. CASE blocks
    <3>1. [row EXCEPT !.state = "blocked", !.why = "moved", !.changes = MaxChanges] \in TaskRow
      BY <1>0, <2>1, AttemptRows
    <3>2. task' = [task EXCEPT ![worker.task] =
                     [row EXCEPT !.state = "blocked", !.why = "moved", !.changes = MaxChanges]]
      BY <1>6, <2>3 DEF SourceMoved
    <3>3. task' \in [Task -> TaskRow]
      BY <1>0, <3>1, <3>2
    <3> QED
      BY <1>0, <1>6, <1>a, <1>c, <3>3, TypePartsNext DEF SourceMoved
  <2>4. CASE ~blocks
    <3>1. row.changes + 1 < MaxChanges /\ row \in TaskRow
      BY <1>0, <2>1, <2>2, <2>4
    <3>2. task' = [task EXCEPT ![worker.task] =
                     [row EXCEPT !.state = "pending", !.why = "none", !.changes = @ + 1]]
      BY <1>6, <2>4 DEF SourceMoved
    <3> HIDE DEF row
    <3>3. [row EXCEPT !.state = "pending", !.why = "none", !.changes = @ + 1] \in TaskRow
      BY <3>1, AttemptRows
    <3>4. task' \in [Task -> TaskRow]
      BY <1>0, <3>2, <3>3
    <3> QED
      BY <1>0, <1>6, <1>a, <1>c, <2>4, <3>4, TypePartsNext DEF SourceMoved
  <2> QED
    BY <2>3, <2>4
<1>7. ASSUME ContractMoved PROVE TypeOK'
  <2>1. worker.task \in Task
    BY <1>0, <1>7, <1>c DEF ContractMoved
  <2>2. [task[worker.task] EXCEPT !.state = "blocked", !.why = "moved"] \in TaskRow
    BY <1>0, <2>1, AttemptRows
  <2>3. task' \in [Task -> TaskRow]
    BY <1>0, <1>7, <2>1, <2>2 DEF ContractMoved
  <2> QED
    BY <1>0, <1>7, <1>a, <1>c, <2>3, TypePartsNext DEF ContractMoved
<1>8. ASSUME AttemptFails PROVE TypeOK'
  <2>1. worker.task \in Task /\ "failed" \in Closed
    BY <1>0, <1>8, <1>c DEF AttemptFails, Closed
  <2>2. WithinBudget(worker.task) =>
          [task[worker.task] EXCEPT !.state = "retry_wait", !.retries = @ + 1] \in TaskRow
    BY <1>0, <2>1, AttemptRows DEF WithinBudget
  <2>3. Close(link, task, worker.task, "failed") \in [Task -> TaskRow]
    BY <1>0, <2>1, CloseTyped
  <2>4. task' \in [Task -> TaskRow]
    <3>1. CASE worker.result # "fatal" /\ WithinBudget(worker.task)
      <4>1. task' = [task EXCEPT ![worker.task] =
                       [task[worker.task] EXCEPT !.state = "retry_wait", !.retries = @ + 1]]
        BY <1>8, <3>1 DEF AttemptFails
      <4> QED
        BY <1>0, <2>2, <3>1, <4>1
    <3>2. CASE worker.result = "limited" /\ ~WithinBudget(worker.task)
      <4>1. task' = [task EXCEPT ![worker.task] =
                       [task[worker.task] EXCEPT !.state = "retry_wait"]]
        BY <1>8, <3>2 DEF AttemptFails
      <4>2. [task[worker.task] EXCEPT !.state = "retry_wait"] \in TaskRow
        BY <1>0, <2>1, AttemptRows
      <4> QED
        BY <1>0, <4>1, <4>2
    <3>3. CASE /\ ~(worker.result # "fatal" /\ WithinBudget(worker.task))
               /\ ~(worker.result = "limited" /\ ~WithinBudget(worker.task))
      BY <1>8, <2>3, <3>3 DEF AttemptFails
    <3> QED
      BY <3>1, <3>2, <3>3
  <2> QED
    BY <1>0, <1>8, <1>a, <1>c, <2>4, TypePartsNext DEF AttemptFails
<1>9. ASSUME Parks PROVE TypeOK'
  <2>1. worker.task \in Task
    BY <1>0, <1>9, <1>c DEF Parks
  <2>2. /\ [task[worker.task] EXCEPT !.state = "blocked", !.why = "required"] \in TaskRow
        /\ [task[worker.task] EXCEPT !.state = "retry_wait"] \in TaskRow
    BY <1>0, <2>1, AttemptRows
  <2>3. task' \in [Task -> TaskRow]
    BY <1>0, <1>9, <2>1, <2>2 DEF Parks
  <2> QED
    BY <1>0, <1>9, <1>a, <1>c, <2>3, TypePartsNext DEF Parks
<1>10. ASSUME Interrupt PROVE TypeOK'
  <2>1. worker.task \in Task /\ "interrupted" \in Live
    BY <1>0, <1>10, <1>c DEF Interrupt, Live, Waiting
  <2>2. Closing(task[worker.task], "interrupted") \in TaskRow
    BY <1>0, <2>1, ClosingTyped
  <2>3. task' \in [Task -> TaskRow]
    BY <1>0, <1>10, <2>1, <2>2 DEF Interrupt
  <2> QED
    BY <1>0, <1>10, <1>a, <1>c, <2>3, TypePartsNext DEF Interrupt
<1> QED
  BY <1>1, <1>2, <1>3, <1>4, <1>5, <1>6, <1>7, <1>8, <1>9, <1>10 DEF Work

LEMMA SettleTyped_ == TypeOK /\ Settle => TypeOK'
<1> SUFFICES ASSUME TypeOK, Settle PROVE TypeOK'
  OBVIOUS
<1>0. /\ batch \in [Batch -> BatchRow] /\ link \in [Batch -> [Unit -> LinkRow]]
      /\ task \in [Task -> TaskRow]
      /\ worker \in WorkerType /\ (worker.at \in Holding => worker.task \in Task)
      /\ (worker.at = "admit" => worker.page # <<>>)
      /\ call \in CallType /\ asked \subseteq Batch
  BY TypeParts
<1>1. ASSUME NEW b \in Batch, LookAt(b) PROVE TypeOK'
  <2>1. Verdict(batch, link, task, b) \in Ended
    BY DEF Verdict, Ended
  <2>2. <<b, Verdict(batch, link, task, b)>> \in Batch \X Ended
    BY <2>1
  <2>3. /\ worker' \in WorkerType /\ worker'.at = worker.at /\ worker'.task = worker.task
        /\ worker'.page = worker.page
    BY <1>0, <1>1, <2>2 DEF LookAt, WorkerType
  <2>a. ObservePaused(batch, link, task) \in [Batch -> BatchRow]
    BY <1>0, BatchTyped
  <2>b. batch' = batch \/ batch' = ObservePaused(batch, link, task)
    BY <1>1 DEF LookAt
  <2>4. batch' \in [Batch -> BatchRow]
    BY <1>0, <2>a, <2>b
  <2> QED
    BY <1>0, <1>1, <2>3, <2>4, TypePartsNext DEF LookAt
<1>2. ASSUME Finalize PROVE TypeOK'
  <2>1. worker.fate \in Batch \X Ended
    BY <1>0, <1>2 DEF Finalize, WorkerType
  <2>2. worker.fate[1] \in Batch /\ worker.fate[2] \in Ended
    BY <2>1
  <2>3. [batch[worker.fate[1]] EXCEPT !.state = worker.fate[2]] \in BatchRow
    BY <1>0, <2>2, BatchRowTyped
  <2>4. batch' \in [Batch -> BatchRow]
    BY <1>0, <1>2, <2>2, <2>3 DEF Finalize
  <2>5. /\ worker' \in WorkerType /\ worker'.at = worker.at /\ worker'.task = worker.task
        /\ worker'.page = worker.page
    BY <1>0, <1>2 DEF Finalize, WorkerType
  <2> QED
    BY <1>0, <1>2, <2>4, <2>5, TypePartsNext DEF Finalize
<1>3. ASSUME LinksDone PROVE TypeOK'
  <2>1. worker' \in WorkerType /\ worker'.at \in {"sweep", "idle"}
    BY <1>3, AtTyped DEF LinksDone, At, Idle
  <2> QED
    BY <1>0, <1>3, <2>1, TypePartsNext DEF LinksDone, tables, Holding
<1>4. ASSUME Sweep PROVE TypeOK'
  <2>1. worker' \in WorkerType /\ worker'.at = "open"
    BY <1>4, AtTyped DEF Sweep, OpenBatches, At, Idle
  <2>2. task' \in [Task -> TaskRow]
    BY <1>0, <1>4, CancelOrphansCalm DEF Sweep
  <2> QED
    BY <1>0, <1>4, <2>1, <2>2, TypePartsNext DEF Sweep, Holding
<1> QED
  BY <1>1, <1>2, <1>3, <1>4 DEF Settle

\* Whatever ran is interrupted; the rest of the recovery is calm.
LEMMA RecoverRows ==
    ASSUME TypeOK, Recover
    PROVE  /\ task' \in [Task -> TaskRow]
           /\ \E mid \in [Task -> TaskRow] :
                /\ Calm(mid, task')
                /\ \A t \in Task : /\ mid[t].state # "running"
                                   /\ task[t].state # "running" => mid[t] = task[t]
                                   /\ task[t].state = "running" => mid[t].state = "interrupted"
<1> DEFINE mid == [t \in Task |-> IF task[t].state = "running"
                                  THEN Closing(task[t], "interrupted") ELSE task[t]]
           again(tk, fixed) == [t \in Task |-> IF t \in fixed THEN Requeued(tk[t]) ELSE tk[t]]
<1>1. task \in [Task -> TaskRow] /\ "interrupted" \in Live
  BY DEF TypeOK, Live, Waiting
<1>2. \A t \in Task : /\ Closing(task[t], "interrupted") \in TaskRow
                      /\ Closing(task[t], "interrupted").state = "interrupted"
  BY <1>1, ClosingTyped
<1>3. /\ mid \in [Task -> TaskRow]
      /\ \A t \in Task : /\ mid[t].state # "running"
                         /\ task[t].state # "running" => mid[t] = task[t]
                         /\ task[t].state = "running" => mid[t].state = "interrupted"
  BY <1>1, <1>2
<1>4. PICK repaired \in Repairs(mid) :
        \E fixed \in SUBSET {t \in Task : /\ t[2][2] = "derived"
                                         /\ repaired[t].state = "blocked"
                                         /\ repaired[t].why = "required"} :
          task' = again(repaired, fixed)
  BY DEF Recover
<1> HIDE DEF mid
<1>5. repaired \in [Task -> TaskRow] /\ Calm(mid, repaired)
  BY <1>3, RepairsTyped
<1>6. PICK fixed \in SUBSET {t \in Task : repaired[t].state = "blocked"} :
        task' = again(repaired, fixed)
  <2> HIDE DEF again
  <2> QED
    BY <1>4
<1>7. again(repaired, fixed) \in [Task -> TaskRow] /\ Calm(repaired, again(repaired, fixed))
  <2>1. \A t \in Task : /\ Requeued(repaired[t]) \in TaskRow
                        /\ Requeued(repaired[t]).state = "pending"
    BY <1>5, RequeuedTyped
  <2> QED
    BY <1>5, <1>6, <2>1 DEF Calm, Live, Waiting
<1> HIDE DEF again
<1>8. Calm(mid, task') /\ task' \in [Task -> TaskRow]
  BY <1>5, <1>6, <1>7, CalmThenCalm
<1> QED
  BY <1>3, <1>8

LEMMA RestartTyped == TypeOK /\ (Watch \/ Crash \/ Recover) => TypeOK'
<1> SUFFICES ASSUME TypeOK, Watch \/ Crash \/ Recover PROVE TypeOK'
  OBVIOUS
<1>0. /\ batch \in [Batch -> BatchRow] /\ link \in [Batch -> [Unit -> LinkRow]]
      /\ task \in [Task -> TaskRow]
      /\ worker \in WorkerType /\ (worker.at \in Holding => worker.task \in Task)
      /\ (worker.at = "admit" => worker.page # <<>>)
      /\ call \in CallType /\ asked \subseteq Batch
  BY TypeParts
<1>1. ASSUME Watch PROVE TypeOK'
  <2>1. worker' \in WorkerType /\ worker'.at = worker.at /\ worker'.task = worker.task
        /\ worker'.page = worker.page
    BY <1>0, <1>1 DEF Watch, WorkerType
  <2> QED
    BY <1>0, <1>1, <2>1, TypePartsNext DEF Watch, tables
<1>2. ASSUME Crash PROVE TypeOK'
  <2>1. worker' \in WorkerType /\ worker'.at = "down"
    BY <1>2, AtTyped DEF Crash, At, Idle
  <2> QED
    BY <1>0, <1>2, <2>1, NoCallTyped, TypePartsNext DEF Crash, tables, Holding
<1>3. ASSUME Recover PROVE TypeOK'
  <2>1. worker' \in WorkerType /\ worker'.at = "idle"
    BY <1>3, AtTyped DEF Recover, At, Idle
  <2>2. \A row \in BatchRow : AfterRestart(row) \in BatchRow
    BY DEF AfterRestart, BatchRow
  <2>3. batch' \in [Batch -> BatchRow]
    BY <1>0, <1>3, <2>2 DEF Recover
  <2> QED
    BY <1>0, <1>3, <2>1, <2>3, RecoverRows, TypePartsNext DEF Recover, Holding
<1> QED
  BY <1>1, <1>2, <1>3

LEMMA StutterTyped == TypeOK /\ UNCHANGED vars => TypeOK'
  BY DEF TypeOK, vars

LEMMA NextTyped == TypeOK /\ [Next]_vars => TypeOK'
  BY UserTyped, PlanTyped, WorkTyped, SettleTyped_, RestartTyped, StutterTyped
     DEF Next, Supervisor

\* Every table, the worker and the pending command keep their shape, and no unit
\* goes beyond its attempts, for every set of batches and every budget.
THEOREM QueueTyped == Spec => []TypeOK
<1>1. Init => TypeOK
  BY InitTyped
<1>2. TypeOK /\ [Next]_vars => TypeOK'
  BY NextTyped
<1> QED
  BY <1>1, <1>2, PTL DEF Spec

=============================================================================
