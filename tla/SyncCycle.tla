----------------------------- MODULE SyncCycle -----------------------------
(***************************************************************************)
(* The devices of one account and the server they meet at                  *)
(* (sync/engine.rs run_cycle and push_cycle, sync/pull.rs pull_loop).      *)
(* Each device runs one cycle at a time on the engine's own connection;    *)
(* the user goes on editing through other connections, so an edit can land *)
(* between any two transactions of a cycle but never inside one.           *)
(*                                                                         *)
(* A device's stage names the transaction or request its cycle does next:  *)
(*   idle     no cycle is running                                          *)
(*   begun    health answered, parked rows retried; the snapshot is next   *)
(*   push     the snapshot is taken; build the changes and send them       *)
(*   results  the server answered; apply its results                       *)
(*   retry    a retry of the parked rows is next                           *)
(*   pull     a page is next                                               *)
(*   final    the last page is in; the final retry is next                 *)
(*                                                                         *)
(* A page is fetched and applied in one step: its content depends on the   *)
(* server and the cursor only, which no user edit changes, so an edit that *)
(* lands between the two is the same as one that lands before the fetch.   *)
(* In the same way the changes are built and judged in one step.           *)
(***************************************************************************)
EXTENDS DeviceStore

CONSTANTS
    Device,       \* the devices signed in to the account
    Deletable,    \* rows the user may delete
    Refusable,    \* rows whose change may turn out impossible to push
    Resyncs,      \* whether the user may ask for a full resync
    PageLimit,    \* rows per page (PULL_LIMIT)
    MaxClock,     \* bound: edits in a behaviour
    MaxEpoch      \* bound: the epoch of the server's last restore

ASSUME BoundsAssumption ==
    /\ Deletable \subseteq Row
    /\ Refusable \subseteq Row
    /\ Resyncs \in BOOLEAN
    /\ PageLimit \in Nat \ {0}
    /\ MaxClock \in Nat
    /\ MaxEpoch \in Nat \ {0}

VARIABLES
    log,          \* the server's log of accepted versions
    epoch,        \* the server's epoch
    clock,        \* the stamp of the last edit anywhere
    store,        \* [Device -> store]: what a device's database holds
    cycle,        \* [Device -> cycle]: where a device's engine is
    judged        \* history: <<row, stamp>> of every change the server judged

vars == <<log, epoch, clock, store, cycle, judged>>

Stage == {"idle", "begun", "push", "results", "retry", "pull", "final"}

\* The locals of a cycle: the snapshot and the answer of its push, and has_more
\* of its last page.  They end with the cycle.
At(st) == [stage |-> st, snap |-> 0, answers |-> {}, more |-> FALSE]

Init ==
    /\ log = <<>>
    /\ epoch = 1
    /\ clock = 0
    /\ store = [d \in Device |-> EmptyStore]
    /\ cycle = [d \in Device |-> At("idle")]
    /\ judged = {}

-----------------------------------------------------------------------------
(* The user.                                                               *)

UserWrite(d, r) ==
    /\ clock < MaxClock
    /\ Parent[r] # NoRow => Present(store[d], Parent[r])
    /\ clock' = clock + 1
    /\ store' = [store EXCEPT ![d] = Write(@, r, clock + 1)]
    /\ UNCHANGED <<log, epoch, cycle, judged>>

UserDelete(d, r) ==
    /\ clock < MaxClock
    /\ Present(store[d], r)
    /\ \A q \in RestrictBelow(r) : ~Present(store[d], q)
    /\ clock' = clock + 1
    /\ store' = [store EXCEPT ![d] = Erase(@, r, clock + 1)]
    /\ UNCHANGED <<log, epoch, cycle, judged>>

\* A full resync resets the device before the cycle it asks for.
FullResync(d) ==
    /\ Resyncs
    /\ cycle[d].stage = "idle"
    /\ store' = [store EXCEPT ![d] = Reset(@, @.epoch)]
    /\ UNCHANGED <<log, epoch, clock, cycle, judged>>

-----------------------------------------------------------------------------
(* The cycle.                                                              *)

Goto(d, st) == cycle' = [cycle EXCEPT ![d] = At(st)]

\* pull_loop starts, and goes on after a page, with the parked rows when there
\* are any.
StartPull(d, s) ==
    cycle' = [cycle EXCEPT ![d] = [At(IF s.parked = {} THEN "pull" ELSE "retry")
                                       EXCEPT !.more = TRUE]]

CheckEpoch(s) == IF s.epoch = epoch THEN s ELSE Reset(s, epoch)

\* Health answers; the epoch is compared and the inherited parked rows retried.
Begin(d) ==
    /\ cycle[d].stage = "idle"
    /\ store' = [store EXCEPT ![d] = RetryParked(CheckEpoch(@), FALSE)]
    /\ Goto(d, "begun")
    /\ UNCHANGED <<log, epoch, clock, judged>>

TakeSnapshot(d) ==
    /\ cycle[d].stage = "begun"
    /\ IF Snapshot(store[d]) = 0
       THEN StartPull(d, store[d])
       ELSE cycle' = [cycle EXCEPT ![d] = [At("push") EXCEPT !.snap = Snapshot(store[d])]]
    /\ UNCHANGED <<log, epoch, clock, store, judged>>

Changes(s, snap) == {Change(s, snap, r) : r \in Covered(s, snap)}

\* The upserts a push may have to leave out.
MayRefuse(changes) == {c \in changes : c.val # Gone /\ c.row \in Refusable}

Judge(changes) ==
    /\ log' = AcceptAll(log, changes)
    /\ judged' = judged \cup {<<c.row, c.ts>> : c \in changes}

PushAnswered(d) ==
    LET snap    == cycle[d].snap
        changes == Changes(store[d], snap)
    IN  /\ cycle[d].stage = "push"
        /\ \E bad \in SUBSET MayRefuse(changes) :
              /\ Judge(changes \ bad)
              /\ store' = [store EXCEPT ![d] = Refuse(@, snap, bad)]
              /\ IF changes = bad
                 THEN StartPull(d, store[d])
                 ELSE cycle' = [cycle EXCEPT ![d].stage = "results",
                                             ![d].answers = Answers(log, changes \ bad)]
        /\ UNCHANGED <<epoch, clock>>

\* The answer is lost, or a later batch of the push fails: the server judged
\* the changes up to some point of the order they travel in, past the ones it
\* refused, and the device learns of none.
SentBefore(changes, seen) ==
    \A c \in seen, b \in changes \ MayRefuse(changes) :
        WireRank[b.row] < WireRank[c.row] => b \in seen

PushBroken(d) ==
    LET snap    == cycle[d].snap
        changes == Changes(store[d], snap)
    IN  /\ cycle[d].stage = "push"
        /\ \E bad \in SUBSET MayRefuse(changes) :
              /\ \E seen \in SUBSET (changes \ bad) :
                    SentBefore(changes, seen) /\ Judge(seen)
              /\ store' = [store EXCEPT ![d] = Refuse(@, snap, bad)]
        /\ Goto(d, "idle")
        /\ UNCHANGED <<epoch, clock>>

ApplyAnswers(d) ==
    /\ cycle[d].stage = "results"
    /\ ~Rejected(store[d], cycle[d].snap, cycle[d].answers)
    /\ store' = [store EXCEPT ![d] = ApplyResults(@, cycle[d].snap, cycle[d].answers)]
    /\ StartPull(d, store[d])
    /\ UNCHANGED <<log, epoch, clock, judged>>

\* The transaction fails and with it the cycle, before any pull.
FailAnswers(d) ==
    /\ cycle[d].stage = "results"
    /\ Rejected(store[d], cycle[d].snap, cycle[d].answers)
    /\ Goto(d, "idle")
    /\ UNCHANGED <<log, epoch, clock, store, judged>>

Retry(d) ==
    /\ cycle[d].stage = "retry"
    /\ store' = [store EXCEPT ![d] = RetryParked(@, FALSE)]
    /\ cycle' = [cycle EXCEPT ![d].stage = IF cycle[d].more THEN "pull" ELSE "final"]
    /\ UNCHANGED <<log, epoch, clock, judged>>

\* A cursor ahead of a restored server is answered 409, a page of another
\* epoch is thrown away: both reset the device and pull again.
PullReset(d) ==
    /\ cycle[d].stage = "pull"
    /\ \/ /\ store[d].cursor > Len(log)
          /\ store' = [store EXCEPT ![d] = Reset(@, @.epoch)]
       \/ /\ store[d].cursor <= Len(log)
          /\ store[d].epoch # epoch
          /\ store' = [store EXCEPT ![d] = Reset(@, epoch)]
    /\ UNCHANGED <<log, epoch, clock, cycle, judged>>

PullPage(d) ==
    LET since == store[d].cursor
        next  == ApplyPage(store[d], Page(log, since, PageLimit), PageEnd(log, since, PageLimit))
    IN  /\ cycle[d].stage = "pull"
        /\ since <= Len(log)
        /\ store[d].epoch = epoch
        /\ store' = [store EXCEPT ![d] = next]
        /\ IF HasMore(log, since, PageLimit) THEN StartPull(d, next)
           ELSE Goto(d, IF next.parked = {} THEN "idle" ELSE "retry")
        /\ UNCHANGED <<log, epoch, clock, judged>>

FinalRetry(d) ==
    /\ cycle[d].stage = "final"
    /\ store' = [store EXCEPT ![d] = RetryParked(@, TRUE)]
    /\ Goto(d, "idle")
    /\ UNCHANGED <<log, epoch, clock, judged>>

\* The network fails or the program stops between two transactions.
Stop(d) ==
    /\ cycle[d].stage # "idle"
    /\ Goto(d, "idle")
    /\ UNCHANGED <<log, epoch, clock, store, judged>>

\* The server goes back to a backup and takes a new epoch.
Restore ==
    /\ epoch < MaxEpoch
    /\ \E k \in 0..Len(log) : log' = [i \in 1..k |-> log[i]]
    /\ epoch' = epoch + 1
    /\ UNCHANGED <<clock, store, cycle, judged>>

-----------------------------------------------------------------------------
Cycle(d) ==
    \/ Begin(d) \/ TakeSnapshot(d) \/ PushAnswered(d) \/ ApplyAnswers(d) \/ FailAnswers(d)
    \/ Retry(d) \/ PullReset(d) \/ PullPage(d) \/ FinalRetry(d)

Fault == \E d \in Device : PushBroken(d) \/ Stop(d)

Next ==
    \/ \E d \in Device :
          \/ Cycle(d) \/ FullResync(d)
          \/ \E r \in Row : UserWrite(d, r)
          \/ \E r \in Deletable : UserDelete(d, r)
    \/ Restore
    \/ Fault

Spec == Init /\ [][Next]_vars

\* The ticker starts a cycle whatever the last one did.  A cycle that runs
\* always has a next step, so its weak fairness is that steps go on.  From some
\* time on the network and the program stay up: a step that looks like a fault
\* is the step of a cycle.
Fairness ==
    /\ \A d \in Device : WF_vars(Begin(d)) /\ []<><<Cycle(d)>>_vars
    /\ <>[][Fault => \E d \in Device : Cycle(d)]_vars

FairSpec == Spec /\ Fairness

-----------------------------------------------------------------------------
(* Properties.                                                             *)

OplogEntry == [row : Row, op : {"U", "D"}, ts : 1..clock]
Version == [row : Row, seq : Nat \ {0}, val : 0..clock]
Result == [lost : BOOLEAN, current : Version]
Reason == {"apply_error", "lww_lost", "parent_deleted"}

StoreType ==
    [db : [Row -> 0..clock], oplog : SUBSET OplogEntry, rv : [Row -> Nat], cursor : Nat,
     parked : SUBSET Version, journal : SUBSET [row : Row, reason : Reason, val : 0..clock],
     epoch : 1..epoch]

\* The state's shape.
TypeOK ==
    /\ log \in Seq([row : Row, ts : 1..clock, val : 0..clock])
    /\ epoch \in Nat \ {0}
    /\ clock \in Nat
    /\ store \in [Device -> StoreType]
    /\ cycle \in [Device -> [stage : Stage, snap : 0..clock, answers : SUBSET Result,
                             more : BOOLEAN]]
    /\ judged \subseteq Row \X (1..clock)

\* No committed archive holds a row whose parent is missing, however pages,
\* retries and winners arrive (apply_page parks what would violate it).
ForeignKeysHold ==
    \A d \in Device, r \in Row :
        Present(store[d], r) /\ Parent[r] # NoRow => Present(store[d], Parent[r])

\* A row without pending edits is exactly the server version it claims to be
\* based on, unless its own change was refused and journaled, it went with its
\* parent, or it lost to a tombstone that its dependents hold back.  A version
\* recorded ahead of the content would make every later pull skip the row
\* (apply_push_results explains the order this guards).
CleanRowsMatchTheirVersion ==
    \A d \in Device, r \in Row :
        LET s == store[d] IN
        (s.epoch = epoch /\ s.rv[r] # 0 /\ ~Dirty(s, r)) =>
            /\ s.rv[r] \in DOMAIN log
            /\ log[s.rv[r]].row = r
            /\ \/ s.db[r] = log[s.rv[r]].val
               \/ [row |-> r, reason |-> "apply_error", val |-> s.db[r]] \in s.journal
               \/ Parent[r] # NoRow /\ s.db[r] = Gone
               \/ /\ Descendants(r) # {}
                  /\ [row |-> r, reason |-> "lww_lost", val |-> Gone] \in s.journal
                  /\ \E h \in DOMAIN log : h > s.rv[r] /\ log[h].row = r /\ log[h].val = Gone

\* The cursor never passes a live row the device does not account for: the row
\* is based on that version, waits in the oplog or in the parking, or its
\* discarded side is in the journal.
NoUpsertSkipped ==
    \A d \in Device, r \in Row :
        LET s == store[d]
            h == Newest(log, r)
        IN  (s.epoch = epoch /\ 0 < h /\ h <= s.cursor /\ log[h].val # Gone) =>
                \/ s.rv[r] >= h
                \/ Dirty(s, r)
                \/ \E w \in s.parked : w.row = r /\ w.seq = h
                \/ \E j \in s.journal : j.row = r /\ j.reason \in {"apply_error", "parent_deleted"}

\* A tombstone the cursor has passed is applied, or something it would destroy
\* is still waiting to be pushed.
TombstonesDeferredNotDropped ==
    \A d \in Device, r \in Row :
        LET s == store[d]
            h == Newest(log, r)
        IN  (s.epoch = epoch /\ 0 < h /\ h <= s.cursor /\ log[h].val = Gone) =>
                \/ ~Present(s, r)
                \/ Dirty(s, r)
                \/ \E q \in Descendants(r) : Dirty(s, q)
                \/ \E j \in s.journal : j.row = r /\ j.reason = "apply_error"

\* No transaction of the cycle changes a row that still has a pending edit
\* when it commits: remote versions never overwrite unpushed work.
PendingEditsUntouched ==
    [][clock' = clock =>
         \A d \in Device, r \in Row :
            store'[d].db[r] # store[d].db[r] => ~Dirty(store'[d], r)]_vars

\* An edit leaves the oplog only once the server has judged that edit or a
\* later one of the row, or the change was refused and journaled.
EditsLeaveOnlyWhenJudged ==
    [][\A d \in Device : \A o \in store[d].oplog \ store'[d].oplog :
          \/ \E t \in o.ts..clock : <<o.row, t>> \in judged
          \/ \E j \in store'[d].journal : j.row = o.row /\ j.reason = "apply_error"]_vars

\* Within an epoch nothing but a reset takes a row back to an older version, or
\* to none: not the page that passes a version the push has just recorded, not a
\* row that waited in the parking while the device moved on, not a replayed
\* answer (apply_row asks known_version first).
VersionsOnlyAdvance ==
    [][\A d \in Device, r \in Row :
          store[d].epoch = epoch /\ store'[d].rv[r] < store[d].rv[r] =>
             \A q \in Row : store'[d].rv[q] = 0]_vars

Settled ==
    \A d \in Device :
        /\ store[d].oplog = {}
        /\ store[d].parked = {}
        /\ \A r \in Row :
              LET h == Newest(log, r)
              IN  store[d].db[r] = (IF h = 0 THEN Gone ELSE log[h].val)

\* Once the edits stop, every device ends with the server's content and with
\* nothing left to push.
Converges == <>[]Settled

\* Whatever the devices do to each other's rows, every device gets its pending
\* edits through again and again.
PushesGetThrough == \A d \in Device : []<>(store[d].oplog = {})

=============================================================================
