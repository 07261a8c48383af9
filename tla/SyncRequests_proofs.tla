------------------------ MODULE SyncRequests_proofs ------------------------
(***************************************************************************)
(* Proofs about SyncRequests, for a channel of any capacity and any number *)
(* of backoff timers.                                                      *)
(***************************************************************************)
EXTENDS SyncRequests, TLAPS

\* Between two batches the engine holds no folded request.
BatchEndsWithItsAnswer == engine # "draining" => batch = EmptyBatch

Inv == TypeOK /\ BatchEndsWithItsAnswer /\ AcceptedStaysCovered

-----------------------------------------------------------------------------
(* Offering, taking and folding.                                            *)

\* An offer keeps what the channel holds, and the channel's bound; an accepted
\* request is in it.
LEMMA OfferFacts ==
    ASSUME queue \in Seq(Request), Len(queue) <= Capacity, NEW r \in Request, Offer(r)
    PROVE  /\ queue' \in Seq(Request)
           /\ Len(queue') <= Capacity
           /\ \A q : Queued(q) => Queued(q)'
           /\ Room => Queued(r)'
<1>1. Capacity \in Nat
  BY RequestsAssumption
<1>2. CASE Room
  <2>1. queue' = Append(queue, r)
    BY <1>2 DEF Offer
  <2>2. Len(queue) \in Nat /\ Len(queue') = Len(queue) + 1
    BY <2>1
  <2>3. queue'[Len(queue) + 1] = r /\ \A i \in DOMAIN queue : queue'[i] = queue[i]
    BY <2>1
  <2>4. queue' \in Seq(Request) /\ Len(queue') <= Capacity
    BY <1>1, <1>2, <2>1, <2>2 DEF Room
  <2> QED
    BY <2>2, <2>3, <2>4 DEF Queued
<1>3. CASE ~Room
  BY <1>3 DEF Offer, Queued
<1> QED
  BY <1>2, <1>3

\* Folding a request into a batch loses nothing the batch stood for, and the
\* batch stands for the request when it is a manual one.
LEMMA ApplyFacts ==
    ASSUME NEW b \in [manual : BOOLEAN, resync : BOOLEAN, stop : BOOLEAN], NEW r \in Request
    PROVE  /\ Apply(b, r) \in [manual : BOOLEAN, resync : BOOLEAN, stop : BOOLEAN]
           /\ Covers(b) \subseteq Covers(Apply(b, r))
           /\ r \in Manual => r \in Covers(Apply(b, r))
  BY DEF Apply, Covers, Manual, Request

\* A batch stands for manual requests only.
LEMMA CoversManual ==
    ASSUME NEW b
    PROVE  Covers(b) \subseteq Manual
  BY DEF Covers, Manual

\* What the channel holds is its first request and what its tail holds.
LEMMA TakeFacts ==
    ASSUME queue \in Seq(Request), Len(queue) <= Capacity, queue # <<>>, queue' = Tail(queue)
    PROVE  /\ Head(queue) \in Request
           /\ queue' \in Seq(Request)
           /\ Len(queue') <= Capacity
           /\ \A q : Queued(q) => q = Head(queue) \/ Queued(q)'
<1>1. Capacity \in Nat
  BY RequestsAssumption
<1>2. Len(queue) \in Nat \ {0} /\ Len(queue') = Len(queue) - 1
  OBVIOUS
<1>3. \A i \in 1..Len(queue') : queue'[i] = queue[i + 1]
  OBVIOUS
<1>4. ASSUME NEW i \in DOMAIN queue, i # 1
      PROVE  i - 1 \in DOMAIN queue' /\ queue'[i - 1] = queue[i]
  BY <1>2, <1>3, <1>4
<1>5. \A q : Queued(q) => q = Head(queue) \/ Queued(q)'
  BY <1>4 DEF Queued
<1> QED
  BY <1>1, <1>2, <1>5

-----------------------------------------------------------------------------
(* The invariant.                                                           *)

\* The engine starts with an empty channel and an empty batch.
LEMMA InvInit == Init => Inv
<1> SUFFICES ASSUME Init
             PROVE  Inv
  OBVIOUS
<1>1. queue \in Seq(Request) /\ Len(queue) <= Capacity
  BY RequestsAssumption DEF Init
<1>2. batch \in [manual : BOOLEAN, resync : BOOLEAN, stop : BOOLEAN]
  BY DEF Init, EmptyBatch
<1>3. gate \in BOOLEAN /\ auto \in BOOLEAN /\ due \in BOOLEAN /\ stopping \in BOOLEAN
  BY RequestsAssumption, Zenon DEF Init
<1>4. timers \in 0..MaxTimers /\ taken \subseteq Manual
  BY RequestsAssumption DEF Init
<1>5. TypeOK
  BY <1>1, <1>2, <1>3, <1>4, Zenon DEF Init, TypeOK
<1>6. AcceptedStaysCovered /\ BatchEndsWithItsAnswer
  BY DEF Init, AcceptedStaysCovered, BatchEndsWithItsAnswer
<1> QED
  BY <1>5, <1>6 DEF Inv

\* A step that only adds to the channel keeps the invariant.
LEMMA OfferKeeps ==
    ASSUME Inv, NEW r \in Request, Offer(r),
           UNCHANGED <<engine, batch, state, gate, due, taken>>,
           auto' \in BOOLEAN, timers' \in 0..MaxTimers, stopping' \in BOOLEAN
    PROVE  Inv'
<1>1. /\ queue' \in Seq(Request)
      /\ Len(queue') <= Capacity
      /\ \A q : Queued(q) => Queued(q)'
  BY OfferFacts DEF Inv, TypeOK
<1>2. TypeOK'
  BY <1>1 DEF Inv, TypeOK
<1>3. AcceptedStaysCovered'
  BY <1>1 DEF Inv, AcceptedStaysCovered
<1> QED
  BY <1>2, <1>3 DEF Inv, BatchEndsWithItsAnswer

\* A step that only changes what surrounds the engine keeps the invariant.
LEMMA ContextKeeps ==
    ASSUME Inv, UNCHANGED <<queue, engine, batch, state, taken>>,
           gate' \in BOOLEAN, auto' \in BOOLEAN, due' \in BOOLEAN,
           timers' \in 0..MaxTimers, stopping' \in BOOLEAN
    PROVE  Inv'
  BY DEF Inv, TypeOK, BatchEndsWithItsAnswer, AcceptedStaysCovered, Queued

\* Taking a request folds it into what the batch already stands for.
LEMMA TakeKeeps ==
    ASSUME Inv, NEW b, Take(b), b = batch
    PROVE  Inv'
<1>1. /\ Head(queue) \in Request
      /\ queue' \in Seq(Request)
      /\ Len(queue') <= Capacity
      /\ \A q : Queued(q) => q = Head(queue) \/ Queued(q)'
  BY TakeFacts DEF Inv, TypeOK, Take
<1>2. /\ batch' \in [manual : BOOLEAN, resync : BOOLEAN, stop : BOOLEAN]
      /\ Covers(batch) \subseteq Covers(batch')
      /\ Head(queue) \in Manual => Head(queue) \in Covers(batch')
  BY <1>1, ApplyFacts DEF Inv, TypeOK, Take
<1>3. TypeOK'
  BY <1>1, <1>2 DEF Inv, TypeOK, Take
<1>4. AcceptedStaysCovered'
  <2> SUFFICES ASSUME NEW r \in taken
               PROVE  Queued(r)' \/ r \in Covers(batch')
    BY DEF AcceptedStaysCovered, Take
  <2>1. r \in Manual
    BY DEF Inv, TypeOK
  <2>2. Queued(r) \/ r \in Covers(batch)
    BY DEF Inv, AcceptedStaysCovered
  <2> QED
    BY <1>1, <1>2, <2>1, <2>2
<1> QED
  BY <1>3, <1>4 DEF Inv, BatchEndsWithItsAnswer, Take

\* An answer settles what the batch stands for, and only that.
LEMMA AnswerKeeps ==
    ASSUME Inv, NEW to \in {"waiting", "cycling", "stopped"},
           NEW published \in {"disabled", "idle", "syncing", "offline", "error"},
           Answer(to, published)
    PROVE  Inv'
<1>1. TypeOK'
  BY DEF Inv, TypeOK, Answer, EmptyBatch
<1>2. AcceptedStaysCovered'
  <2> SUFFICES ASSUME NEW r \in taken, r \notin Covers(batch)
               PROVE  Queued(r)'
    BY DEF AcceptedStaysCovered, Answer
  <2> QED
    BY DEF Inv, AcceptedStaysCovered, Answer, Queued
<1> QED
  BY <1>1, <1>2 DEF Inv, BatchEndsWithItsAnswer, Answer

\* The end of a cycle leaves the requests alone.
LEMMA EndKeeps ==
    ASSUME Inv, NEW published \in {"disabled", "idle", "syncing", "offline", "error"},
           End(published), due' \in BOOLEAN, timers' \in 0..MaxTimers
    PROVE  Inv'
  BY DEF Inv, TypeOK, BatchEndsWithItsAnswer, AcceptedStaysCovered, Queued, End

\* Every action keeps the invariant.
LEMMA InvStep == Inv /\ [Next]_vars => Inv'
<1> SUFFICES ASSUME Inv, [Next]_vars
             PROVE  Inv'
  OBVIOUS
<1> USE DEF Request, Manual
<1>1. ASSUME NEW r \in Manual, Ask(r)
      PROVE  Inv'
  <2>1. /\ queue' \in Seq(Request)
        /\ Len(queue') <= Capacity
        /\ \A q : Queued(q) => Queued(q)'
        /\ Room => Queued(r)'
    BY <1>1, OfferFacts DEF Inv, TypeOK, Ask
  <2>2. TypeOK'
    BY <1>1, <2>1 DEF Inv, TypeOK, Ask
  <2>3. AcceptedStaysCovered'
    BY <1>1, <2>1 DEF Inv, AcceptedStaysCovered, Ask
  <2> QED
    BY <1>1, <2>2, <2>3 DEF Inv, BatchEndsWithItsAnswer, Ask
<1>2. ASSUME NEW on \in AutoChoices, SetAuto(on)
      PROVE  Inv'
  <2>1. on \in BOOLEAN
    BY RequestsAssumption
  <2>2. CASE on
    BY <1>2, <2>1, <2>2, OfferKeeps DEF SetAuto, Inv, TypeOK
  <2>3. CASE ~on
    BY <1>2, <2>1, <2>3, ContextKeeps DEF SetAuto, Inv, TypeOK
  <2> QED
    BY <2>2, <2>3
<1>3. CASE TickerFires
  BY <1>3, OfferKeeps DEF TickerFires, Inv, TypeOK
<1>4. CASE RetryFires
  <2>1. timers' \in 0..MaxTimers
    BY <1>4, RequestsAssumption DEF RetryFires, Inv, TypeOK
  <2> QED
    BY <1>4, <2>1, OfferKeeps DEF RetryFires, Inv, TypeOK
<1>5. CASE CallShutdown
  BY <1>5, OfferKeeps DEF CallShutdown, Inv, TypeOK
<1>6. CASE SwitchGate
  BY <1>6, ContextKeeps DEF SwitchGate, Inv, TypeOK
<1>7. CASE IntervalElapses
  BY <1>7, ContextKeeps DEF IntervalElapses, Inv, TypeOK
<1>8. CASE Receive
  BY <1>8, TakeKeeps DEF Receive, Inv, BatchEndsWithItsAnswer
<1>9. CASE DrainOne
  BY <1>9, TakeKeeps DEF DrainOne
<1>10. CASE Stop
  BY <1>10, AnswerKeeps DEF Stop, Inv, TypeOK
<1>11. CASE Refuse \/ SkipTick \/ CannotStart \/ Start
  BY <1>11, AnswerKeeps DEF Refuse, SkipTick, CannotStart, Start, Inv, TypeOK
<1>12. CASE CycleSucceeds \/ CycleFails
  BY <1>12, EndKeeps DEF CycleSucceeds, CycleFails, Inv, TypeOK
<1>13. CASE CycleOffline
  <2>1. timers' \in 0..MaxTimers
    BY <1>13, RequestsAssumption DEF CycleOffline, Inv, TypeOK
  <2> QED
    BY <1>13, <2>1, EndKeeps DEF CycleOffline, Inv, TypeOK
<1>14. CASE UNCHANGED vars
  BY <1>14, ContextKeeps DEF vars, Inv, TypeOK
<1> QED
  BY <1>1, <1>2, <1>3, <1>4, <1>5, <1>6, <1>7, <1>8, <1>9, <1>10, <1>11, <1>12, <1>13, <1>14
  DEF Next, Engine

\* Every reachable state has the shape TypeOK gives it.
THEOREM RequestsTyped == Spec => []TypeOK
<1>1. Inv => TypeOK
  BY DEF Inv
<1> QED
  BY InvInit, InvStep, <1>1, PTL DEF Spec

\* Whatever the channel's capacity, a manual request it accepted waits in it or
\* is part of the batch until a cycle or a refusal answers for it.
THEOREM AcceptedAlwaysCovered == Spec => []AcceptedStaysCovered
<1>1. Inv => AcceptedStaysCovered
  BY DEF Inv
<1> QED
  BY InvInit, InvStep, <1>1, PTL DEF Spec

=============================================================================
