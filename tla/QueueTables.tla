---------------------------- MODULE QueueTables ----------------------------
(***************************************************************************)
(* The tables of the processing queue (processing/repository.rs) and what  *)
(* its statements compute from them: batches ask for units of work, tasks  *)
(* do them, links say which batch asks for which task and what it waits    *)
(* for.                                                                    *)
(*                                                                         *)
(* A unit is one kind of work on one page.  A task is named by the batch   *)
(* that first admitted it and its unit: a batch plans a page once, so the  *)
(* pair names one row.  Embeddings, extractions and summaries only differ  *)
(* in what they compute, and are all of kind "derived".                    *)
(***************************************************************************)
EXTENDS Naturals, FiniteSets

CONSTANTS
    Batch,        \* the batches of the user
    Page,         \* the pages in their scope
    Ops,          \* [Batch -> SUBSET Kind]: the operations a batch asks for
    NoTask,       \* no dependency, no task held
    MaxAttempts,  \* failed attempts of a cycle (MAX_ATTEMPTS_PER_CYCLE)
    MaxChanges    \* source changes that block a unit (3)

Kind == {"ocr", "correction", "derived"}
Unit == Page \X Kind
Task == Batch \X Unit

ASSUME TablesAssumption ==
    /\ Ops \in [Batch -> SUBSET Kind]
    /\ NoTask \notin Task
    /\ MaxAttempts \in Nat \ {0}
    /\ MaxChanges \in Nat \ {0}

-----------------------------------------------------------------------------
(* Rows.                                                                   *)

Waiting == {"pending", "blocked", "retry_wait", "interrupted"}
Live == Waiting \cup {"running"}
Satisfied == {"succeeded", "skipped"}
Closed == Satisfied \cup {"failed", "cancelled"}
Ended == {"completed", "completed_with_errors", "cancelled"}

BatchRow == [state : Ended \cup {"none", "preparing", "ready", "running", "pausing",
                                 "paused", "interrupted", "cancelling"},
             desired : {"run", "pause", "cancel"},
             left : SUBSET Page,    \* members past the planning cursor
             planned : BOOLEAN]     \* planning_done

\* why: the outcome of a blocked task, as far as resuming tells outcomes apart.
TaskRow == [state : Live \cup Closed \cup {"absent"},
            why : {"none", "required", "moved"},
            retries : 0 .. MaxAttempts - 1,
            changes : 0 .. MaxChanges]

LinkRow == [task : Task \cup {NoTask},
            req : {"none", "active", "paused", "cancelled"},
            dep : Task \cup {NoTask}]

NewTask(state) == [state |-> state, why |-> "none", retries |-> 0, changes |-> 0]
NoLink == [task |-> NoTask, req |-> "none", dep |-> NoTask]

\* Another try at the unit, keeping what the cycle has used up.
Requeued(row) == [row EXCEPT !.state = "pending", !.why = "none"]
Closing(row, state) == [row EXCEPT !.state = state, !.why = "none"]

-----------------------------------------------------------------------------
(* Queries.  b's links are lk[b]; a task is linked under its own unit.     *)

Links(lk, b, t) == lk[b][t[2]].task = t

DependsOn(lk, d, t) == \E b \in Batch : Links(lk, b, d) /\ lk[b][d[2]].dep = t

\* Some active link of t belongs to a batch that runs, or is about to.
AskedFor(bt, lk, t, states) ==
    \E b \in Batch :
        /\ Links(lk, b, t)
        /\ lk[b][t[2]].req = "active"
        /\ bt[b].state \in states
        /\ bt[b].desired = "run"

\* execution_wanted.
ExecutionWanted(bt, lk, t) == AskedFor(bt, lk, t, {"running", "ready"})

\* The candidates of claim_next.  A retry's wake time passes at some moment, so
\* a task in retry_wait may or may not be picked; priorities only order the picks.
Claimable(bt, lk, tk, t) ==
    /\ tk[t].state \in {"pending", "retry_wait"}
    /\ AskedFor(bt, lk, t, {"running"})
    /\ \A d \in Task : DependsOn(lk, t, d) => tk[d].state \in Satisfied

LiveTasks(tk, u) == {t \in Task : t[2] = u /\ tk[t].state \in Live}

\* idx_processing_tasks_subject_active_unique.
UniqueIndexHolds(tk) ==
    \A t, s \in Task :
        (t[2] = s[2] /\ tk[t].state \in Live /\ tk[s].state \in Live) => t = s

PlanningBatches(bt) ==
    {b \in Batch : /\ bt[b].state \in {"preparing", "ready"}
                   /\ ~bt[b].planned
                   /\ bt[b].desired # "cancel"}

\* Mutation: a batch on its way to a pause is not looked at.
OpenWhileWanted(bt) ==
    {b \in Batch : bt[b].state \in {"running", "ready", "cancelling"} /\ bt[b].planned}

OpenBatches(bt) ==
    {b \in Batch : /\ bt[b].state \in {"running", "pausing", "ready", "cancelling"}
                   /\ bt[b].planned}

\* Mutation: a unit given back on its way out is not swept.
OrphansNotStopped(lk, tk) ==
    {t \in Task : /\ tk[t].state \in Waiting \ {"interrupted"}
                  /\ ~\E b \in Batch : Links(lk, b, t) /\ lk[b][t[2]].req \in {"active", "paused"}}

\* Mutation: the running task is swept from under the worker.
OrphansAtAll(lk, tk) ==
    {t \in Task : /\ tk[t].state \in Live
                  /\ ~\E b \in Batch : Links(lk, b, t) /\ lk[b][t[2]].req \in {"active", "paused"}}

\* Nobody's link keeps these waiting tasks alive.
Orphans(lk, tk) ==
    {t \in Task : /\ tk[t].state \in Waiting
                  /\ ~\E b \in Batch : Links(lk, b, t) /\ lk[b][t[2]].req \in {"active", "paused"}}

-----------------------------------------------------------------------------
(* Statements.                                                             *)

\* The trigger of migration 0038, and mark_skipped for the tasks it ignores: the
\* blocked dependents of the tasks in ends are released or failed.  Triggers do
\* not fire triggers here, so the dependents of a task failed this way stay put.
SettleDependents(lk, tk, ends) ==
    [d \in Task |->
        LET over == {t \in ends : DependsOn(lk, d, t)}
        IN  IF tk[d].state # "blocked" \/ over = {} THEN tk[d]
            ELSE IF \E t \in over : tk[t].state \notin Satisfied THEN Closing(tk[d], "failed")
            ELSE Requeued(tk[d])]

\* One task reaches an end.
Close(lk, tk, t, state) ==
    SettleDependents(lk, [tk EXCEPT ![t] = Closing(@, state)], {t})

\* cancel_orphaned_tasks.
CancelOrphans(lk, tk) ==
    LET orphans == Orphans(lk, tk)
    IN  SettleDependents(lk, [t \in Task |-> IF t \in orphans THEN Closing(tk[t], "cancelled")
                                             ELSE tk[t]], orphans)

PromotePrepared(bt) ==
    [b \in Batch |-> IF bt[b].state = "preparing" /\ bt[b].planned /\ bt[b].desired # "cancel"
                     THEN [bt[b] EXCEPT !.state = "ready"] ELSE bt[b]]

PromoteReady(bt) ==
    [b \in Batch |-> IF bt[b].state = "ready" /\ bt[b].planned /\ bt[b].desired = "run"
                     THEN [bt[b] EXCEPT !.state = "running"] ELSE bt[b]]

ObservePaused(bt, lk, tk) ==
    [b \in Batch |-> IF /\ bt[b].state = "pausing" /\ bt[b].desired = "pause"
                        /\ ~\E t \in Task : Links(lk, b, t) /\ tk[t].state = "running"
                     THEN [bt[b] EXCEPT !.state = "paused"] ELSE bt[b]]

\* The states of the tasks b still asks for.
AskedStates(lk, tk, b) ==
    {tk[t].state : t \in {s \in Task : Links(lk, b, s) /\ lk[b][s[2]].req # "cancelled"}}

\* maybe_finalize_batch reads that b is over, and how.
IsOver(bt, lk, tk, b) ==
    /\ bt[b].desired # "pause"
    /\ bt[b].state \in {"running", "pausing", "cancelling", "ready"}
    /\ bt[b].planned \/ bt[b].desired = "cancel" \/ bt[b].state = "cancelling"
    /\ AskedStates(lk, tk, b) \cap Live = {}

Verdict(bt, lk, tk, b) ==
    IF bt[b].desired = "cancel" \/ bt[b].state = "cancelling" THEN "cancelled"
    ELSE IF "failed" \in AskedStates(lk, tk, b) THEN "completed_with_errors"
    ELSE "completed"

\* What plan_member may decide for a page of batch b, by kind: the kind is not
\* needed ("no"), it is admitted at once ("free") or behind an earlier kind of
\* the same page.  Which of these depends on the page's text only: a page with
\* text takes derived work from it even while its OCR is redone, but a
\* correction about to rewrite the text always comes first.
PagePlans(b) ==
    {plan \in [Kind -> {"no", "free"} \cup Kind] :
        /\ \A k \in Kind : plan[k] # "no" => k \in Ops[b]
        /\ plan["ocr"] \in {"no", "free"}
        /\ plan["correction"] \in {"no", IF plan["ocr"] = "no" THEN "free" ELSE "ocr"}
        /\ plan["derived"] \in
             {"no"} \cup CASE plan["correction"] # "no" -> {"correction"}
                           [] plan["correction"] = "no" /\ plan["ocr"] = "no" -> {"free"}
                           [] OTHER -> {"free", "ocr"}}

\* admit_subject_or_attach: the live task of the unit, or b's own new one.
Admitted(tk, b, u) ==
    IF LiveTasks(tk, u) # {} THEN CHOOSE t \in LiveTasks(tk, u) : TRUE ELSE <<b, u>>

NewLinks(lk, tk, b, p, plan) ==
    [lk EXCEPT ![b] = [u \in Unit |->
        IF u[1] # p \/ plan[u[2]] = "no" THEN lk[b][u]
        ELSE [task |-> Admitted(tk, b, u),
              req |-> "active",
              dep |-> IF plan[u[2]] \in Kind THEN Admitted(tk, b, <<p, plan[u[2]]>>)
                      ELSE NoTask]]]

\* Mutation: every batch gets tasks of its own.
NewTasksForEach(tk, b, p, plan) ==
    [t \in Task |->
        IF t[1] = b /\ t[2][1] = p /\ plan[t[2][2]] # "no"
        THEN NewTask(IF plan[t[2][2]] \in Kind THEN "blocked" ELSE "pending") ELSE tk[t]]

NewTasks(tk, b, p, plan) ==
    [t \in Task |->
        LET u == t[2]
        IN  IF t = <<b, u>> /\ u[1] = p /\ plan[u[2]] # "no" /\ LiveTasks(tk, u) = {}
            THEN NewTask(IF plan[u[2]] \in Kind THEN "blocked" ELSE "pending")
            ELSE tk[t]]

=============================================================================
