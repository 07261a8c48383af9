-------------------------- MODULE ProcessingQueue --------------------------
(***************************************************************************)
(* The supervisor of the processing queue (processing/scheduler.rs), the   *)
(* commands of the user (processing/commands.rs), which run on connections *)
(* of their own at any moment, and what a restart recovers                 *)
(* (processing/recovery.rs).  One supervisor thread works on an archive:   *)
(* it lives in the process that holds the archive's lock.                  *)
(*                                                                         *)
(* Every action is one transaction, or one statement where the code opens  *)
(* none.  worker.at names the one that comes next:                         *)
(*   idle      a pass is over                                              *)
(*   plan      planning the batches in worker.todo                         *)
(*   admit     a page was classified; its tasks are admitted next          *)
(*   promote   the page is in; batches are promoted next                   *)
(*   claim     claim_next is next                                          *)
(*   check     a unit is claimed; is it still wanted                       *)
(*   run       the executor works on it, the watcher beside it             *)
(*   settle    worker.result is applied next                               *)
(*   moved, config, publish   the commit was refused for that reason       *)
(*   interrupt the unit is given back next                                 *)
(*   links     the batches of worker.todo are looked at, for the unit      *)
(*   sweep     orphans are cancelled next                                  *)
(*   open      the batches of worker.todo are looked at, for the pass      *)
(*   down      the process is not running, or has not recovered yet: a     *)
(*             command may come first                                      *)
(***************************************************************************)
EXTENDS QueueTables

CONSTANTS
    Controls,     \* the controls the user may use: pause, resume, cancel, retry
    Overtaken,    \* those that others may get in between the reads and the writes of;
                  \* a retry always is
    Faults        \* what may go wrong with a unit: retry, limited (by the provider),
                  \* fatal, required, deferred, stale (the source moves), drift (the
                  \* contract does), publish

VARIABLES
    batch,        \* processing_batches
    link,         \* processing_batch_tasks, by batch and unit
    task,         \* processing_tasks
    worker,       \* the supervisor thread
    call,         \* a control command that read its batch and has not written all yet
    asked         \* history: batches the user wants run, since the process last started

vars == <<batch, link, task, worker, call, asked>>
tables == <<batch, link, task>>

\* The locals of the supervisor: the unit it works on, whether the watcher said
\* stop, what the executor answered, the batches of the loop it is in, the page
\* it classified and the end it read for a batch.
At(at) == [at |-> at, task |-> NoTask, stop |-> FALSE, result |-> "none",
           todo |-> {}, page |-> <<>>, fate |-> <<>>]
Idle == {"idle", "plan", "admit", "promote", "claim", "links", "sweep", "open", "down"}
Holding == {"check", "run", "settle", "moved", "config", "publish", "interrupt"}
NoCall == [batch |-> {}, action |-> "none", targets |-> {}, left |-> {}]

Init ==
    /\ batch = [b \in Batch |-> [state |-> "none", desired |-> "pause",
                                 left |-> {}, planned |-> FALSE]]
    /\ link = [b \in Batch |-> [u \in Unit |-> NoLink]]
    /\ task = [t \in Task |-> NewTask("absent")]
    /\ worker = At("idle")
    /\ call = NoCall
    /\ asked = {}

-----------------------------------------------------------------------------
(* Commands.                                                               *)

\* prepare_batch: a draft over some pages; an empty one needs no planning.
Prepare(b) ==
    /\ batch[b].state = "none"
    /\ \E scope \in SUBSET Page :
         batch' = [batch EXCEPT ![b] = [state |-> "preparing", desired |-> "pause",
                                        left |-> scope, planned |-> scope = {}]]
    /\ UNCHANGED <<link, task, worker, call, asked>>

\* start_batch: the update is conditional on what was read, so it is one step.
Start(b) ==
    /\ batch[b].state = "ready"
    /\ batch' = [batch EXCEPT ![b].desired = "run"]
    /\ asked' = asked \cup {b}
    /\ UNCHANGED <<link, task, worker, call>>

\* control_batch reads and judges the batch before it opens its transaction.
Allows(b, action) ==
    /\ batch[b].state \notin Ended \cup {"none"}
    /\ batch[b].state # "cancelling" \/ action = "cancel"

Judged(b, action) == [batch |-> {b}, action |-> action, targets |-> {}, left |-> {}]

ReadBatch(b, action) ==
    /\ action \in Controls \cap Overtaken
    /\ call = NoCall
    /\ Allows(b, action)
    /\ call' = Judged(b, action)
    /\ UNCHANGED <<tables, worker, asked>>

MayWrite(b, action) ==
    /\ action \in Controls
    /\ \/ call = Judged(b, action)
       \/ action \notin Overtaken /\ call = NoCall /\ Allows(b, action)

LinksOf(b, from, to) ==
    [link EXCEPT ![b] = [u \in Unit |-> IF link[b][u].req \in from
                                        THEN [link[b][u] EXCEPT !.req = to]
                                        ELSE link[b][u]]]
AnyRequest == {"active", "paused", "cancelled"}

Pause(b) ==
    /\ MayWrite(b, "pause")
    /\ batch' = [batch EXCEPT ![b].desired = "pause",
                              ![b].state = IF @ = "running" THEN "pausing" ELSE @]
    /\ link' = LinksOf(b, AnyRequest, "paused")
    /\ asked' = asked \ {b}
    /\ call' = NoCall
    /\ UNCHANGED <<task, worker>>

\* Interrupted units, and those blocked on what resuming re-evaluates, go back.
ResumedTasks(b) ==
    [t \in Task |->
        IF Links(link, b, t) /\ (\/ task[t].state = "interrupted"
                                 \/ task[t].state = "blocked" /\ task[t].why = "moved")
        THEN [Requeued(task[t]) EXCEPT !.changes = IF task[t].state = "blocked" THEN 0 ELSE @]
        ELSE task[t]]

Resume(b) ==
    /\ MayWrite(b, "resume")
    /\ batch' = [batch EXCEPT ![b].desired = "run",
                              ![b].state = IF @ \in {"paused", "pausing", "interrupted"}
                                           THEN IF batch[b].planned THEN "ready" ELSE "preparing"
                                           ELSE @]
    /\ link' = LinksOf(b, {"paused"}, "active")
    /\ task' = ResumedTasks(b)
    /\ asked' = asked \cup {b}
    /\ call' = NoCall
    /\ UNCHANGED worker

\* The intent, the links, the orphans and the end of the batch are one transaction.
Cancel(b) ==
    /\ MayWrite(b, "cancel")
    /\ link' = LinksOf(b, AnyRequest, "cancelled")
    /\ task' = CancelOrphans(link', task)
    /\ LET cancelling == [batch EXCEPT ![b].desired = "cancel", ![b].state = "cancelling"]
       IN  batch' = IF IsOver(cancelling, link', task', b)
                    THEN [cancelling EXCEPT ![b].state = Verdict(cancelling, link', task', b)]
                    ELSE cancelling
    /\ asked' = asked \ {b}
    /\ call' = NoCall
    /\ UNCHANGED worker

FailedOf(b) == {t \in Task : Links(link, b, t) /\ task[t].state = "failed"}
FailedDependencies(b, targets) ==
    {d \in Task : task[d].state = "failed" /\ \E t \in targets : link[b][t[2]].dep = d}

\* retry_failed opens no transaction: it lists its targets first, one failed unit
\* or all of them, with the failed dependencies of each.
Targets(b) ==
    {targets \cup FailedDependencies(b, targets) :
       targets \in ({FailedOf(b)} \cup {{t} : t \in FailedOf(b)}) \ {{}}}

MayRetry(b) ==
    /\ "retry" \in Controls
    /\ call = NoCall
    /\ batch[b].state \notin {"none", "cancelling", "cancelled"}

ListFailed(b) ==
    /\ MayRetry(b)
    /\ \E targets \in Targets(b) :
         call' = [batch |-> {b}, action |-> "links", targets |-> targets, left |-> targets]
    /\ UNCHANGED <<tables, worker, asked>>

\* Then it writes, one statement after the other: the links of all targets, the
\* targets that failed, the batch.
Retrying(b, action) == call.batch = {b} /\ call.action = action
Written(t, next) ==
    call' = IF call.left = {t} THEN [call EXCEPT !.action = next, !.left = call.targets]
            ELSE [call EXCEPT !.left = @ \ {t}]

Reactivated(b, targets) ==
    [link EXCEPT ![b] = [u \in Unit |->
        IF \E t \in targets : t[2] = u /\ Links(link, b, t)
        THEN [link[b][u] EXCEPT !.req = "active"] ELSE link[b][u]]]
Reopened(targets) ==
    [t \in Task |-> IF t \in targets /\ task[t].state = "failed" THEN NewTask("pending")
                    ELSE task[t]]
RunAgain(b) ==
    /\ batch' = [batch EXCEPT ![b] = IF @.state = "completed_with_errors"
                                     THEN [@ EXCEPT !.state = "ready", !.desired = "run"] ELSE @]
    /\ asked' = asked \cup {b}

RetryLink(b, t) ==
    /\ Retrying(b, "links")
    /\ t \in call.left
    /\ link' = Reactivated(b, {t})
    /\ Written(t, "tasks")
    /\ UNCHANGED <<batch, task, worker, asked>>

\* A target whose unit has a newer live task trips the unique index: what was written
\* before it stays, and the batch is not touched.
RetryTask(b, t) ==
    /\ Retrying(b, "tasks")
    /\ t \in call.left
    /\ \/ UniqueIndexHolds(Reopened({t})) /\ task' = Reopened({t}) /\ Written(t, "batch")
       \/ ~UniqueIndexHolds(Reopened({t})) /\ call' = NoCall /\ UNCHANGED task
    /\ UNCHANGED <<batch, link, worker, asked>>

RetryBatch(b) ==
    /\ Retrying(b, "batch")
    /\ RunAgain(b)
    /\ call' = NoCall
    /\ UNCHANGED <<link, task, worker>>

\* resume_embedding_configuration_blocked and its kin, when settings are saved:
\* each frees the units of its own engine.
ConfigurationFixed ==
    /\ \E fixed \in SUBSET {t \in Task : task[t].state = "blocked" /\ task[t].why = "required"} :
         /\ fixed # {}
         /\ task' = [t \in Task |-> IF t \in fixed THEN Requeued(task[t]) ELSE task[t]]
    /\ UNCHANGED <<batch, link, worker, call, asked>>

-----------------------------------------------------------------------------
(* A pass of the supervisor: planning.                                     *)

\* reconcile_contracts parks the waiting embeddings whose contract drifted.
Tick ==
    /\ worker.at = "idle"
    /\ worker' = [At("plan") EXCEPT !.todo = PlanningBatches(batch)]
    /\ \/ UNCHANGED task
       \/ /\ "drift" \in Faults
          /\ \E drifted \in SUBSET {t \in Task : /\ t[2][2] = "derived"
                                               /\ task[t].state \in {"pending", "retry_wait"}} :
               task' = [t \in Task |->
                          IF t \in drifted
                          THEN [task[t] EXCEPT !.state = "blocked", !.why = "moved"]
                          ELSE task[t]]
    /\ UNCHANGED <<batch, link, call, asked>>

\* classify_batch_page, the read phase: no lock is held, the batch's own state is
\* not looked at.
ClassifyPage(b) ==
    /\ worker.at = "plan"
    /\ b \in worker.todo
    /\ batch[b].left # {}
    /\ \E p \in batch[b].left, plan \in PagePlans(b) :
         worker' = [worker EXCEPT !.at = "admit", !.page = <<b, p, plan>>]
    /\ UNCHANGED <<tables, call, asked>>

\* classify_batch_page, the write phase: tasks, links and cursor commit together.
AdmitPage ==
    /\ worker.at = "admit"
    /\ LET b == worker.page[1]
           p == worker.page[2]
           plan == worker.page[3]
       IN  /\ task' = NewTasks(task, b, p, plan)
           /\ link' = NewLinks(link, task, b, p, plan)
           /\ batch' = [batch EXCEPT ![b].left = @ \ {p}]
           /\ worker' = [worker EXCEPT !.at = "promote", !.page = <<>>, !.todo = @ \ {b}]
    /\ UNCHANGED <<call, asked>>

\* A page past the last member closes the planning.
ClosePlanning(b) ==
    /\ worker.at = "plan"
    /\ b \in worker.todo
    /\ batch[b].left = {}
    /\ batch' = [batch EXCEPT ![b].planned = TRUE]
    /\ worker' = [worker EXCEPT !.at = "promote", !.todo = @ \ {b}]
    /\ UNCHANGED <<link, task, call, asked>>

\* promote_batches, after each batch's page.
Promote ==
    /\ worker.at = "promote"
    /\ batch' = ObservePaused(PromoteReady(PromotePrepared(batch)), link, task)
    /\ worker' = [worker EXCEPT !.at = "plan"]
    /\ UNCHANGED <<link, task, call, asked>>

\* promote_ready_batches, on every pass.
PlanningDone ==
    /\ worker.at = "plan"
    /\ worker.todo = {}
    /\ batch' = PromoteReady(batch)
    /\ worker' = At("claim")
    /\ UNCHANGED <<link, task, call, asked>>

-----------------------------------------------------------------------------
(* A pass of the supervisor: one unit.                                     *)

\* claim_next: the unit's input is looked at again, and the unit may turn out to
\* be settled already or to be parked on a contract that moved.
Claim(t) ==
    /\ worker.at = "claim"
    /\ Claimable(batch, link, task, t)
    /\ \/ /\ task' = [task EXCEPT ![t] = Closing(@, "running")]
          /\ worker' = [At("check") EXCEPT !.task = t]
       \/ /\ task' = Close(link, task, t, "skipped")
          /\ worker' = At("sweep")
       \/ /\ "drift" \in Faults
          /\ t[2][2] = "derived"
          /\ task' = [task EXCEPT ![t].state = "blocked", ![t].why = "moved"]
          /\ worker' = At("sweep")
    /\ UNCHANGED <<batch, link, call, asked>>

NothingToClaim ==
    /\ worker.at = "claim"
    /\ ~\E t \in Task : task[t].state = "pending" /\ Claimable(batch, link, task, t)
    /\ worker' = At("sweep")
    /\ UNCHANGED <<tables, call, asked>>

\* Mutation: nobody looks again once the unit is claimed.
WantedOnceClaimed == TRUE

StillWanted == ExecutionWanted(batch, link, worker.task)

CheckDemand ==
    /\ worker.at = "check"
    /\ worker' = [worker EXCEPT !.at = IF StillWanted THEN "run" ELSE "interrupt"]
    /\ UNCHANGED <<tables, call, asked>>

\* The watcher thread looks every half second and is gone once it said stop.
Watch ==
    /\ worker.at = "run" /\ ~worker.stop /\ ~StillWanted
    /\ worker' = [worker EXCEPT !.stop = TRUE]
    /\ UNCHANGED <<tables, call, asked>>

AnyAnswer == {"success", "retry", "limited", "fatal", "required", "deferred"}
Answers == {"success"} \cup (Faults \cap AnyAnswer)

\* The executor ends and its checkpoints are saved; with one to save and nobody
\* left who wants it, the unit is given back.
ExecutorEnds ==
    /\ worker.at = "run"
    /\ \/ \E result \in Answers \cup (IF worker.stop THEN {"stopped"} ELSE {}) :
            worker' = [worker EXCEPT !.at = "settle", !.stop = FALSE, !.result = result]
       \/ ~StillWanted /\ worker' = [worker EXCEPT !.at = "interrupt", !.stop = FALSE]
    /\ UNCHANGED <<tables, call, asked>>

\* The unit is off the worker's hands; the batches that link it are looked at.
LetGo == [At("links") EXCEPT !.todo = {b \in Batch : Links(link, b, worker.task)}]

\* commit_success_with: demand, source and contract are checked, the result is
\* published and the task succeeds in one transaction, or it is refused.
Commit ==
    /\ worker.at = "settle" /\ worker.result = "success"
    /\ \/ /\ ~StillWanted
          /\ worker' = [worker EXCEPT !.at = "interrupt"]
          /\ UNCHANGED task
       \/ /\ StillWanted
          /\ \/ "stale" \in Faults /\ worker' = [worker EXCEPT !.at = "moved"]
             \/ "drift" \in Faults /\ worker' = [worker EXCEPT !.at = "config"]
             \/ "publish" \in Faults /\ worker' = [worker EXCEPT !.at = "publish"]
          /\ UNCHANGED task
       \/ /\ StillWanted
          /\ task' = Close(link, task, worker.task, "succeeded")
          /\ worker' = LetGo
    /\ UNCHANGED <<batch, link, call, asked>>

\* record_source_change: the third time the unit is blocked until resumed.
SourceMoved ==
    /\ worker.at = "moved"
    /\ LET t == worker.task
           blocks == task[t].changes + 1 >= MaxChanges
       IN  /\ task' = [task EXCEPT ![t].state = IF blocks THEN "blocked" ELSE "pending",
                                   ![t].why = IF blocks THEN "moved" ELSE "none",
                                   ![t].changes = IF blocks THEN MaxChanges ELSE @ + 1]
           /\ worker' = IF blocks THEN LetGo ELSE At("sweep")
    /\ UNCHANGED <<batch, link, call, asked>>

ContractMoved ==
    /\ worker.at = "config"
    /\ task' = [task EXCEPT ![worker.task].state = "blocked", ![worker.task].why = "moved"]
    /\ worker' = At("sweep")
    /\ UNCHANGED <<batch, link, call, asked>>

\* Mutation: one attempt too many.
OneMoreAttempt(t) == task[t].retries < MaxAttempts

WithinBudget(t) == task[t].retries + 1 < MaxAttempts

\* fail_attempt: within its budget the unit waits for another attempt; a rate
\* limit is waited out whatever the budget, and a count past it tells nothing.
AttemptFails ==
    /\ \/ worker.at = "publish"
       \/ worker.at = "settle" /\ worker.result \in {"retry", "limited", "fatal"}
    /\ LET t == worker.task
       IN  task' = CASE worker.result # "fatal" /\ WithinBudget(t) ->
                          [task EXCEPT ![t].state = "retry_wait", ![t].retries = @ + 1]
                     [] worker.result = "limited" /\ ~WithinBudget(t) ->
                          [task EXCEPT ![t].state = "retry_wait"]
                     [] OTHER -> Close(link, task, t, "failed")
    /\ worker' = LetGo
    /\ UNCHANGED <<batch, link, call, asked>>

\* block_running_task and defer_task: no attempt is used up.
Parks ==
    /\ worker.at = "settle"
    /\ \/ /\ worker.result = "required"
          /\ task' = [task EXCEPT ![worker.task].state = "blocked",
                                  ![worker.task].why = "required"]
       \/ /\ worker.result = "deferred"
          /\ task' = [task EXCEPT ![worker.task].state = "retry_wait"]
    /\ worker' = LetGo
    /\ UNCHANGED <<batch, link, call, asked>>

\* interrupt_task.
Interrupt ==
    /\ worker.at = "interrupt" \/ (worker.at = "settle" /\ worker.result = "stopped")
    /\ task' = [task EXCEPT ![worker.task] = Closing(@, "interrupted")]
    /\ worker' = At("sweep")
    /\ UNCHANGED <<batch, link, call, asked>>

-----------------------------------------------------------------------------
(* A pass of the supervisor: settling.  maybe_finalize_batch runs outside  *)
(* any transaction here, so the end it read may be late when it is written.*)

LookAt(b) ==
    /\ worker.at \in {"links", "open"}
    /\ worker.fate = <<>>
    /\ b \in worker.todo
    /\ \/ /\ IsOver(batch, link, task, b)
          /\ worker' = [worker EXCEPT !.fate = <<b, Verdict(batch, link, task, b)>>]
          /\ UNCHANGED batch
       \/ /\ ~IsOver(batch, link, task, b)
          /\ worker' = [worker EXCEPT !.todo = @ \ {b}]
          /\ batch' = IF batch[b].desired = "pause" THEN ObservePaused(batch, link, task)
                      ELSE batch
    /\ UNCHANGED <<link, task, call, asked>>

Finalize ==
    /\ worker.fate # <<>>
    /\ batch' = [batch EXCEPT ![worker.fate[1]].state = worker.fate[2]]
    /\ worker' = [worker EXCEPT !.fate = <<>>, !.todo = @ \ {worker.fate[1]}]
    /\ UNCHANGED <<link, task, call, asked>>

LinksDone ==
    /\ worker.at \in {"links", "open"}
    /\ worker.todo = {}
    /\ worker' = IF worker.at = "links" THEN At("sweep") ELSE At("idle")
    /\ UNCHANGED <<tables, call, asked>>

Sweep ==
    /\ worker.at = "sweep"
    /\ task' = CancelOrphans(link, task)
    /\ worker' = [At("open") EXCEPT !.todo = OpenBatches(batch)]
    /\ UNCHANGED <<batch, link, call, asked>>

-----------------------------------------------------------------------------
(* Restarts.                                                               *)

Crash ==
    /\ worker.at # "down"
    /\ worker' = At("down")
    /\ call' = NoCall
    /\ UNCHANGED <<tables, asked>>

\* settle_blocked_dependents goes over the blocked tasks in an unspecified order:
\* some of those with a dead dependency are failed, by it or by the trigger.
Repairs(tk) ==
    LET blocked == {t \in Task : tk[t].state = "blocked"}
        over(t, states) == \E d \in Task : DependsOn(link, t, d) /\ tk[d].state \in states
        dead == {t \in blocked : over(t, {"failed", "cancelled"})}
        clear == {t \in blocked : over(t, Satisfied)}
    IN  {SettleDependents(link, [t \in Task |->
            IF t \in lost THEN Closing(tk[t], "failed")
            ELSE IF t \in clear THEN Requeued(tk[t]) ELSE tk[t]], lost) :
         lost \in {s \in SUBSET dead : dead \ clear \subseteq s}}

\* Mutation: what was only about to run is forgotten.
RunningAfterRestart(row) ==
    IF row.state = "running" THEN [row EXCEPT !.state = "interrupted", !.desired = "pause"]
    ELSE row

AfterRestart(row) ==
    CASE row.state \in {"running", "ready", "preparing"} ->
           [row EXCEPT !.state = "interrupted", !.desired = "pause"]
      [] row.state = "pausing" -> [row EXCEPT !.state = "paused"]
      [] OTHER -> row

\* recover_session: whatever ran is interrupted, and what the user had running
\* waits to be resumed.
Recover ==
    /\ worker.at = "down"
    /\ \E repaired \in Repairs([t \in Task |-> IF task[t].state = "running"
                                               THEN Closing(task[t], "interrupted")
                                               ELSE task[t]]) :
         \E fixed \in SUBSET {t \in Task : /\ t[2][2] = "derived"
                                          /\ repaired[t].state = "blocked"
                                          /\ repaired[t].why = "required"} :
           task' = [t \in Task |-> IF t \in fixed THEN Requeued(repaired[t]) ELSE repaired[t]]
    /\ batch' = [b \in Batch |-> AfterRestart(batch[b])]
    /\ worker' = At("idle")
    /\ asked' = {}
    /\ UNCHANGED <<link, call>>

-----------------------------------------------------------------------------
User ==
    \/ \E b \in Batch :
         \/ Prepare(b) \/ Start(b) \/ Pause(b) \/ Resume(b) \/ Cancel(b)
         \/ ListFailed(b) \/ RetryBatch(b)
         \/ \E t \in Task : RetryLink(b, t) \/ RetryTask(b, t)
         \/ \E action \in {"pause", "resume", "cancel"} : ReadBatch(b, action)
    \/ ConfigurationFixed

Plan == \/ Tick \/ AdmitPage \/ Promote \/ PlanningDone
        \/ \E b \in Batch : ClassifyPage(b) \/ ClosePlanning(b)

Work == \/ \E t \in Task : Claim(t)
        \/ NothingToClaim \/ CheckDemand \/ ExecutorEnds
        \/ Commit \/ SourceMoved \/ ContractMoved \/ AttemptFails \/ Parks \/ Interrupt

Settle == \/ \E b \in Batch : LookAt(b)
          \/ Finalize \/ LinksDone \/ Sweep

Supervisor == Plan \/ Work \/ Settle

Next == User \/ Supervisor \/ Watch \/ Crash \/ Recover

\* The supervisor's thread keeps going, an executor ends, a process is started again.
Spec == Init /\ [][Next]_vars /\ WF_vars(Supervisor) /\ WF_vars(Recover)

-----------------------------------------------------------------------------
(* Properties.                                                             *)

\* The state's shape; a unit that used up its attempts is not tried again, rate
\* limits apart (fail_attempt).
TypeOK ==
    /\ batch \in [Batch -> BatchRow]
    /\ link \in [Batch -> [Unit -> LinkRow]]
    /\ task \in [Task -> TaskRow]
    /\ worker \in [at : Idle \cup Holding, task : Task \cup {NoTask}, stop : BOOLEAN,
                   result : {"none", "stopped"} \cup AnyAnswer, todo : SUBSET Batch,
                   page : {<<>>} \cup (Batch \X Page \X [Kind -> {"no", "free"} \cup Kind]),
                   fate : {<<>>} \cup (Batch \X Ended)]
    /\ worker.at \in Holding => worker.task \in Task
    /\ worker.at = "admit" => worker.page # <<>>
    /\ call \in [batch : SUBSET Batch, targets : SUBSET Task, left : SUBSET Task,
                 action : {"none", "pause", "resume", "cancel", "links", "tasks", "batch"}]
    /\ asked \subseteq Batch

\* While the process is up, the task that is running is the one in the worker's
\* hands: every path out of an attempt hands the task back, and no command of
\* the user, sweep or contract check takes it away (run_one).
HolderIsCurrent ==
    worker.at # "down" =>
        \A t \in Task : task[t].state = "running" <=> worker.at \in Holding /\ worker.task = t

\* A unit has one live task, whoever admits, attaches to or reopens it: planning
\* and resuming never trip the unique index (admit_subject_or_attach).
OneFlight == UniqueIndexHolds(task)

\* After a restart nothing is run, or will be, that the user did not ask for
\* again: "No se reinician llamadas potencialmente facturables sin una accion
\* Reanudar" (plan-lote.md; recover_session).
RunsOnlyWhenAsked ==
    worker.at # "down" =>
        \A b \in Batch : batch[b].desired = "run" /\ batch[b].state \notin Ended => b \in asked

\* The queue keeps UnitWork's promise: one unit is worked on at a time, picked
\* up and published only while a batch asks for it, and published once; no
\* restart, retry, pause or cancel takes a published result back or lets a late
\* one in (claim_next, commit_success_with).
Flight == [u \in Unit |->
             IF \E t \in Task : t[2] = u /\ task[t].state = "running" THEN "held"
             ELSE IF \E t \in Task : t[2] = u /\ task[t].state \in Live THEN "queued"
             ELSE "idle"]
Published == {t \in Task : task[t].state = "succeeded"}
Wanted == {u \in Unit : \E t \in Task : t[2] = u /\ ExecutionWanted(batch, link, t)}

Promise == INSTANCE UnitWork WITH
            Result <- Task, flight <- Flight, results <- Published, wanted <- Wanted
KeepsItsPromise == Promise!Spec

\* A pause is reached: whatever unit is held, shared or retried, a batch does not
\* stay "pausing" (observe_paused_batches).
PauseIsReached == \A b \in Batch : batch[b].state = "pausing" ~> batch[b].state # "pausing"

\* Work nobody asks for any more does not stay queued or running: unless the
\* process stops first, it is let go and swept, or somebody asks for it again
\* (cancel_orphaned_tasks).
Forsaken(t) ==
    /\ task[t].state \in Live
    /\ ~\E b \in Batch : Links(link, b, t) /\ link[b][t[2]].req \in {"active", "paused"}
WithdrawnIsLetGo ==
    \A t \in {x \in Task : x[2][2] \in Ops[x[1]]} :   \* the tasks that may ever exist
        Forsaken(t) ~> ~Forsaken(t) \/ worker.at = "down"

\* The dependents of a task that failed or was cancelled are settled the moment
\* it ends, so that a batch left with failed dependencies can finish with errors
\* (migration 0038, settle_blocked_dependents, plan-lote.md).
DeadDependenciesSettled ==
    \A t, d \in Task :
        DependsOn(link, t, d) /\ task[d].state \in {"failed", "cancelled"}
            => task[t].state # "blocked"

\* A unit that a running batch asks for is not left interrupted: resuming sends
\* the interrupted units back (control_batch), and nothing but resuming does.
ResumedUnitsGoOn ==
    \A t \in Task : task[t].state = "interrupted" => ~AskedFor(batch, link, t, {"running"})

=============================================================================
