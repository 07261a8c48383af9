---------------------------- MODULE SyncRequests ----------------------------
(***************************************************************************)
(* How a sync cycle is asked for (sync/engine.rs).  Commands, the ticker   *)
(* and the backoff timers offer requests to a channel of one slot and never *)
(* wait; the engine takes what is there, folds it into one batch and runs  *)
(* at most one cycle for it.  What the cycle does is SyncCycle's subject:  *)
(* here it only takes time and ends one of three ways.                     *)
(***************************************************************************)
EXTENDS Naturals, Sequences

CONSTANTS
    Capacity,     \* slots of the request channel (1)
    AutoChoices,  \* what the user may set auto-sync to
    MaxTimers     \* bound: backoff timers that run at the same time

ASSUME RequestsAssumption ==
    /\ Capacity \in Nat \ {0}
    /\ AutoChoices \subseteq BOOLEAN
    /\ MaxTimers \in Nat

VARIABLES
    queue,        \* the channel
    engine,       \* where engine_loop is
    batch,        \* the requests it has taken, folded
    state,        \* the SyncState it last published
    gate,         \* capture installed and signed in
    auto,         \* auto-sync is on
    due,          \* the interval elapsed, or an incremental pull was asked for
    timers,       \* backoff timers that will poke the engine
    taken,        \* history: manual requests the channel accepted, not yet answered for
    stopping      \* history: shutdown was called

vars == <<queue, engine, batch, state, gate, auto, due, timers, taken, stopping>>

Request == {"SyncNow", "FullResync", "Tick", "Shutdown"}
Manual == {"SyncNow", "FullResync"}

EmptyBatch == [manual |-> FALSE, resync |-> FALSE, stop |-> FALSE]

Init ==
    /\ queue = <<>>
    /\ engine = "waiting"
    /\ batch = EmptyBatch
    /\ state = "disabled"
    /\ gate \in BOOLEAN
    /\ auto \in AutoChoices
    /\ due = TRUE
    /\ timers = 0
    /\ taken = {}
    /\ stopping = FALSE

-----------------------------------------------------------------------------
(* The senders.                                                            *)

\* Mutation: one slot too many.
RoomForOneMore == engine # "stopped" /\ Len(queue) <= Capacity

Room == engine # "stopped" /\ Len(queue) < Capacity

\* try_send: a request that finds the channel full, or closed, is dropped.
Offer(r) == queue' = IF Room THEN Append(queue, r) ELSE queue

\* sync_now and sync_full_resync.
Ask(r) ==
    /\ Offer(r)
    /\ taken' = IF Room THEN taken \cup {r} ELSE taken
    /\ UNCHANGED <<engine, batch, state, gate, auto, due, timers, stopping>>

TickerFires ==
    /\ Offer("Tick")
    /\ UNCHANGED <<engine, batch, state, gate, auto, due, timers, taken, stopping>>

RetryFires ==
    /\ timers > 0
    /\ Offer("SyncNow")
    /\ timers' = timers - 1
    /\ UNCHANGED <<engine, batch, state, gate, auto, due, taken, stopping>>

\* sync_set_auto pokes the engine when it turns auto-sync on.
SetAuto(on) ==
    /\ auto' = on
    /\ IF on THEN Offer("Tick") ELSE UNCHANGED queue
    /\ UNCHANGED <<engine, batch, state, gate, due, timers, taken, stopping>>

\* Called when the program exits and before the archive is compacted.
CallShutdown ==
    /\ ~stopping
    /\ Offer("Shutdown")
    /\ stopping' = TRUE
    /\ UNCHANGED <<engine, batch, state, gate, auto, due, timers, taken>>

\* The user signs in or out.
SwitchGate ==
    /\ gate' = ~gate
    /\ UNCHANGED <<queue, engine, batch, state, auto, due, timers, taken, stopping>>

IntervalElapses ==
    /\ ~due
    /\ due' = TRUE
    /\ UNCHANGED <<queue, engine, batch, state, gate, auto, timers, taken, stopping>>

-----------------------------------------------------------------------------
(* The engine.                                                             *)

\* Mutation: the last request replaces what the batch already asks for.
ApplyLast(b, r) ==
    [manual |-> r \in Manual, resync |-> r = "FullResync", stop |-> b.stop \/ r = "Shutdown"]

Apply(b, r) ==
    [manual |-> b.manual \/ r \in Manual,
     resync |-> b.resync \/ r = "FullResync",
     stop   |-> b.stop \/ r = "Shutdown"]

\* recv takes the first request, try_recv every other one that is there.
Take(b) ==
    /\ queue # <<>>
    /\ batch' = Apply(b, Head(queue))
    /\ queue' = Tail(queue)
    /\ engine' = "draining"
    /\ UNCHANGED <<state, gate, auto, due, timers, taken, stopping>>

Receive == engine = "waiting" /\ Take(EmptyBatch)
DrainOne == engine = "draining" /\ Take(batch)

\* The manual requests a batch stands for.
Covers(b) ==
    (IF b.manual THEN {"SyncNow"} ELSE {}) \cup (IF b.resync THEN {"FullResync"} ELSE {})

Drained == engine = "draining" /\ queue = <<>>

\* A batch that is refused, and the state published for it, answers for what it
\* stands for as much as a cycle does.
Answer(to, published) ==
    /\ engine' = to
    /\ state' = published
    /\ batch' = EmptyBatch
    /\ taken' = taken \ Covers(batch)
    /\ UNCHANGED <<queue, gate, auto, due, timers, stopping>>

Stop == Drained /\ batch.stop /\ Answer("stopped", state)

Refuse == Drained /\ ~batch.stop /\ ~gate /\ Answer("waiting", "disabled")

\* Mutation: ticks never start a cycle.
WorthWhenAsked == batch.manual

Worth == batch.manual \/ (auto /\ due)

SkipTick == Drained /\ ~batch.stop /\ gate /\ ~Worth /\ Answer("waiting", state)

\* The reset fails, or the server address or the token is not usable.
CannotStart == Drained /\ ~batch.stop /\ gate /\ Worth /\ Answer("waiting", "error")

Start == Drained /\ ~batch.stop /\ gate /\ Worth /\ Answer("cycling", "syncing")

End(published) ==
    /\ engine = "cycling"
    /\ engine' = "waiting"
    /\ state' = published
    /\ UNCHANGED <<queue, batch, gate, auto, taken, stopping>>

CycleSucceeds == End("idle") /\ due' = FALSE /\ UNCHANGED timers

CycleOffline ==
    /\ timers < MaxTimers
    /\ End("offline")
    /\ timers' = timers + 1
    /\ UNCHANGED due

\* A fatal error schedules no retry.
CycleFails == End("error") /\ UNCHANGED <<due, timers>>

-----------------------------------------------------------------------------
Engine ==
    \/ Receive \/ DrainOne \/ Stop \/ Refuse \/ SkipTick \/ CannotStart \/ Start
    \/ CycleSucceeds \/ CycleOffline \/ CycleFails

Next ==
    \/ Engine
    \/ \E r \in Manual : Ask(r)
    \/ \E on \in AutoChoices : SetAuto(on)
    \/ TickerFires \/ RetryFires \/ CallShutdown \/ SwitchGate \/ IntervalElapses

Spec == Init /\ [][Next]_vars

\* The engine's thread runs and drains faster than the senders fill, a cycle's
\* requests time out, and the timers fire.
Fairness ==
    /\ WF_vars(Engine)
    /\ SF_vars(Stop \/ Refuse \/ SkipTick \/ CannotStart \/ Start)
    /\ WF_vars(TickerFires) /\ WF_vars(RetryFires) /\ WF_vars(IntervalElapses)

FairSpec == Spec /\ Fairness

-----------------------------------------------------------------------------
(* Properties.                                                             *)

\* The state's shape.
TypeOK ==
    /\ queue \in Seq(Request) /\ Len(queue) <= Capacity
    /\ engine \in {"waiting", "draining", "cycling", "stopped"}
    /\ batch \in [manual : BOOLEAN, resync : BOOLEAN, stop : BOOLEAN]
    /\ state \in {"disabled", "idle", "syncing", "offline", "error"}
    /\ gate \in BOOLEAN /\ auto \in BOOLEAN /\ due \in BOOLEAN
    /\ timers \in 0..MaxTimers
    /\ taken \subseteq Manual
    /\ stopping \in BOOLEAN

Queued(r) == \E i \in DOMAIN queue : queue[i] = r

\* A manual request the channel accepted is carried to the cycle that answers
\* for it, however the batch is folded: it waits in the channel or is part of
\* the batch (drain_batch keeps what every request asks for).
AcceptedStaysCovered == \A r \in taken : Queued(r) \/ r \in Covers(batch)

\* A network failure does not leave the device offline for good: the backoff
\* timer or the ticker starts another attempt, although either poke may be
\* dropped.
OfflineRetried == state = "offline" ~> state # "offline" \/ engine = "stopped"

=============================================================================
