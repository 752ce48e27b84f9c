-------------------------- MODULE InferenceBatching --------------------------
(***************************************************************************)
(* The private inference services: an HTTP handler in front of dynamic     *)
(* batchers (one per purpose in the embedding service, one in the          *)
(* reranker) in front of one model back end.                               *)
(*                                                                         *)
(*   backend/app/inference_batching.py   DynamicBatcher                    *)
(*   backend/app/embedding_service.py    lifespan, embeddings handler      *)
(*   backend/app/reranker_service.py     lifespan, rerank handler          *)
(*                                                                         *)
(* Everything runs in one event loop, so what happens between two awaits   *)
(* is one step; the back end runs in a thread.  An item is <<request,      *)
(* position>>, and the back end's result for an item is the item itself:   *)
(* what matters is which result reaches which caller.  Time is left out:   *)
(* the collecting worker may find its deadline passed at any moment.       *)
(***************************************************************************)
EXTENDS Naturals, Sequences, SequencesExt

CONSTANTS
    Requests,
    NBatchers,      \* batchers, numbered in the order in which they close
    MaxItems,       \* max_items: the largest batch
    MaxQueue,       \* max_queue_items: the largest reservation
    MaxSize,        \* bound: the largest request
    None

Batchers == 1..NBatchers

VARIABLES
    service,    \* the lifespan of the application
    backend,    \* the model back end
    closing,    \* batcher: _closing
    worker,     \* batcher: where its worker task is
    notified,   \* batcher: the condition was notified since the worker slept
    pending,    \* batcher: _pending
    batch,      \* batcher: the requests the worker has taken
    results,    \* batcher: what the back end returned for them
    reserved,   \* batcher: _reserved_items
    caller,     \* request: where its handler is
    target,     \* request: its batcher
    size,       \* request: its number of items
    future,     \* request: the state of its future
    answer      \* request: the value of its future

queue == <<closing, notified, pending, reserved>>
work == <<worker, batch, results>>
life == <<service, backend>>
client == <<caller, target, size>>
outcome == <<future, answer>>
vars == <<life, queue, work, client, outcome>>

Init ==
    /\ service = "loading" /\ backend = "none"
    /\ closing = [b \in Batchers |-> FALSE]
    /\ worker = [b \in Batchers |-> "none"]
    /\ notified = [b \in Batchers |-> FALSE]
    /\ pending = [b \in Batchers |-> <<>>]
    /\ batch = [b \in Batchers |-> <<>>]
    /\ results = [b \in Batchers |-> <<>>]
    /\ reserved = [b \in Batchers |-> 0]
    /\ caller = [r \in Requests |-> "new"]
    /\ target = [r \in Requests |-> 1]
    /\ size = [r \in Requests |-> 0]
    /\ future = [r \in Requests |-> "none"]
    /\ answer = [r \in Requests |-> <<>>]

Own(r) == [i \in 1..size[r] |-> <<r, i>>]
ItemsOf(requests) == FoldLeft(LAMBDA n, r : n + size[r], 0, requests)
FlatItems(requests) == FlattenSeq([i \in DOMAIN requests |-> Own(requests[i])])

-----------------------------------------------------------------------------
(* Lifespan: load and probe the model, start the batchers, serve, close.   *)

\* The configuration, the loading or the self-test may fail: nothing was
\* started then, and the lifespan closes the back end if there is one.
LoadBackend ==
    /\ service = "loading"
    /\ \/ service' = "starting" /\ backend' = "open"
       \/ service' = "stopping" /\ backend' \in {"none", "open"}
    /\ UNCHANGED <<queue, work, client, outcome>>

StartBatcher(b) ==
    /\ service = "starting"
    /\ worker[b] = "none"
    /\ worker' = [worker EXCEPT ![b] = "take"]
    /\ UNCHANGED <<life, queue, batch, results, client, outcome>>

BecomeReady ==
    /\ service = "starting"
    /\ \A b \in Batchers : worker[b] # "none"
    /\ service' = "ready"
    /\ UNCHANGED <<backend, queue, work, client, outcome>>

Stopped(b) == worker[b] \in {"none", "stopped"}

\* The flag is cleared before the batchers are closed.
BeginShutdown ==
    /\ service = "ready"
    /\ service' = "stopping"
    /\ UNCHANGED <<backend, queue, work, client, outcome>>

\* close() sets the flag, wakes the worker and waits until it has drained the
\* queue; the batchers are closed one after the other.
AwaitsEarlier(b) == \A earlier \in 1..(b - 1) : Stopped(earlier)
CloseBatcher(b) ==
    /\ service = "stopping"
    /\ ~closing[b] /\ worker[b] # "none"
    /\ AwaitsEarlier(b)
    /\ closing' = [closing EXCEPT ![b] = TRUE]
    /\ notified' = [notified EXCEPT ![b] = TRUE]
    /\ UNCHANGED <<life, pending, reserved, work, client, outcome>>

BackendUnused == \A b \in Batchers : Stopped(b)
CloseBackend ==
    /\ service = "stopping"
    /\ BackendUnused
    /\ service' = "stopped"
    /\ backend' = IF backend = "open" THEN "closed" ELSE backend
    /\ UNCHANGED <<queue, work, client, outcome>>

-----------------------------------------------------------------------------
(* The handler of one request.                                             *)

\* require_runtime.  The size and the purpose come with the payload.
Arrive(r) ==
    /\ caller[r] = "new"
    /\ caller' = [caller EXCEPT ![r] = IF service = "ready" THEN "submit" ELSE "refused"]
    /\ \E b \in Batchers : target' = [target EXCEPT ![r] = b]
    /\ \E n \in 1..MaxSize : size' = [size EXCEPT ![r] = n]
    /\ UNCHANGED <<life, queue, work, outcome>>

FitsBarely(r) == reserved[target[r]] < MaxQueue     \* mutant: any free place is enough
Fits(r) == reserved[target[r]] + size[r] <= MaxQueue

NotifyWorker(b) == notified' = [notified EXCEPT ![b] = TRUE]

Admit(r) ==
    LET b == target[r] IN
    /\ caller[r] = "submit"
    /\ size[r] <= MaxItems
    /\ ~closing[b]
    /\ Fits(r)
    /\ reserved' = [reserved EXCEPT ![b] = @ + size[r]]
    /\ pending' = [pending EXCEPT ![b] = Append(@, r)]
    /\ NotifyWorker(b)
    /\ caller' = [caller EXCEPT ![r] = "waiting"]
    /\ future' = [future EXCEPT ![r] = "pending"]
    /\ UNCHANGED <<life, closing, work, target, size, answer>>

\* Too many items for any batch and a closed batcher are answered 503, a full
\* queue 429.
Reject(r) ==
    LET b == target[r] IN
    /\ caller[r] = "submit"
    /\ \/ /\ size[r] > MaxItems \/ closing[b]
          /\ caller' = [caller EXCEPT ![r] = "failed"]
       \/ /\ size[r] <= MaxItems /\ ~closing[b] /\ ~Fits(r)
          /\ caller' = [caller EXCEPT ![r] = "full"]
    /\ UNCHANGED <<life, queue, work, target, size, outcome>>

Deliver(r) ==
    /\ caller[r] = "waiting"
    /\ future[r] \in {"done", "error"}
    /\ caller' = [caller EXCEPT ![r] = IF future[r] = "done" THEN "answered" ELSE "failed"]
    /\ UNCHANGED <<life, queue, work, target, size, outcome>>

\* The client goes away.  The future is shielded: the request stays in the
\* queue with its reservation.
Abandon(r) ==
    /\ caller' = [caller EXCEPT ![r] = "cancelled"]
    /\ UNCHANGED reserved
Cancel(r) ==
    /\ caller[r] = "waiting"
    /\ Abandon(r)
    /\ UNCHANGED <<life, closing, notified, pending, work, target, size, outcome>>

-----------------------------------------------------------------------------
(* The worker task: _run and _take_batch.                                  *)

At(b, place) == worker[b] = place
Go(b, place) == worker' = [worker EXCEPT ![b] = place]

HasWork(b) == pending[b] # <<>> \/ closing[b]

\* An empty batch ends _run.
AfterEmptyBatch == "stopped"

WaitForWork(b) ==
    /\ At(b, "take")
    /\ IF HasWork(b)
       THEN Go(b, IF pending[b] = <<>> THEN AfterEmptyBatch ELSE "collect") /\ UNCHANGED notified
       ELSE Go(b, "asleep") /\ notified' = [notified EXCEPT ![b] = FALSE]
    /\ UNCHANGED <<life, closing, pending, reserved, batch, results, client, outcome>>

WakeUp(b) ==
    /\ notified[b]
    /\ \/ At(b, "asleep") /\ Go(b, "take")
       \/ At(b, "collecting") /\ Go(b, "collect")
    /\ UNCHANGED <<life, queue, batch, results, client, outcome>>

\* How many pending requests the next batch takes: as many as fit.
Takes(b, n) ==
    /\ n \in 1..Len(pending[b])
    /\ ItemsOf(SubSeq(pending[b], 1, n)) <= MaxItems
    /\ n < Len(pending[b]) => ItemsOf(SubSeq(pending[b], 1, n + 1)) > MaxItems

\* _batchable_item_count() >= max_items
EnoughToBatch(b) ==
    \E n \in 1..Len(pending[b]) : ItemsOf(SubSeq(pending[b], 1, n)) = MaxItems

TakeBatch(b) ==
    /\ \E n \in 1..Len(pending[b]) :
        /\ Takes(b, n)
        /\ batch' = [batch EXCEPT ![b] = SubSeq(pending[b], 1, n)]
        /\ pending' = [pending EXCEPT ![b] = SubSeq(pending[b], n + 1, Len(pending[b]))]
    /\ Go(b, "process")
    /\ UNCHANGED <<life, closing, notified, reserved, results, client, outcome>>

\* Collect until the batch is full, the deadline passes or the batcher closes.
CollectNow(b) == At(b, "collect") /\ TakeBatch(b)
CollectMore(b) ==
    /\ At(b, "collect")
    /\ ~closing[b] /\ ~EnoughToBatch(b)
    /\ Go(b, "collecting")
    /\ notified' = [notified EXCEPT ![b] = FALSE]
    /\ UNCHANGED <<life, closing, pending, reserved, batch, results, client, outcome>>
Deadline(b) == At(b, "collecting") /\ TakeBatch(b)

\* The thread returns: results in the order of the items, an exception, or a
\* number of results that is not that of the items.
Process(b) ==
    /\ At(b, "process")
    /\ Go(b, "answer")
    /\ \/ results' = [results EXCEPT ![b] = FlatItems(batch[b])]
       \/ results' = [results EXCEPT ![b] = <<>>]
       \/ results' = [results EXCEPT ![b] = Tail(FlatItems(batch[b]))]
    /\ UNCHANGED <<life, queue, batch, client, outcome>>

SameOffset(b, i) == 0       \* mutant: the offset does not advance
Offset(b, i) == ItemsOf(SubSeq(batch[b], 1, i - 1))
Slice(b, i) ==
    SubSeq(results[b], Offset(b, i) + 1, Offset(b, i) + size[batch[b][i]])

CountMatches(b) == Len(results[b]) = ItemsOf(batch[b])

AnswerBatch(b) ==
    LET taken == {batch[b][i] : i \in DOMAIN batch[b]}
        place(r) == CHOOSE i \in DOMAIN batch[b] : batch[b][i] = r IN
    /\ At(b, "answer")
    /\ Go(b, "release")
    /\ future' = [r \in Requests |->
                    IF r \notin taken THEN future[r]
                    ELSE IF CountMatches(b) THEN "done" ELSE "error"]
    /\ answer' = [r \in Requests |->
                    IF r \in taken /\ CountMatches(b) THEN Slice(b, place(r)) ELSE answer[r]]
    /\ UNCHANGED <<life, queue, batch, results, client>>

ReleaseBatch(b) ==
    /\ At(b, "release")
    /\ Go(b, "take")
    /\ reserved' = [reserved EXCEPT ![b] = @ - ItemsOf(batch[b])]
    /\ NotifyWorker(b)
    /\ batch' = [batch EXCEPT ![b] = <<>>]
    /\ results' = [results EXCEPT ![b] = <<>>]
    /\ UNCHANGED <<life, closing, pending, client, outcome>>

-----------------------------------------------------------------------------
Work(b) ==
    \/ WaitForWork(b) \/ WakeUp(b) \/ CollectNow(b) \/ Deadline(b)
    \/ Process(b) \/ AnswerBatch(b) \/ ReleaseBatch(b)
Lifespan ==
    \/ LoadBackend \/ BecomeReady \/ BeginShutdown \/ CloseBackend
    \/ \E b \in Batchers : StartBatcher(b) \/ CloseBatcher(b)
Handle(r) == Arrive(r) \/ Admit(r) \/ Reject(r) \/ Deliver(r) \/ Cancel(r)

\* The only state in which nothing can happen any more.
Terminated ==
    /\ service = "stopped"
    /\ \A r \in Requests : caller[r] \notin {"new", "submit", "waiting"}
    /\ UNCHANGED vars

Next ==
    \/ Lifespan
    \/ \E b \in Batchers : Work(b) \/ CollectMore(b)
    \/ \E r \in Requests : Handle(r)
    \/ Terminated

Spec == Init /\ [][Next]_vars

\* The event loop runs every ready task, the deadline is a timer and the back
\* end has request timeouts; once shutdown began the lifespan goes on.
Fairness ==
    /\ \A b \in Batchers : WF_vars(Work(b))
    /\ \A r \in Requests : WF_vars(Deliver(r))
    /\ WF_vars(CloseBackend \/ \E b \in Batchers : CloseBatcher(b))
FairSpec == Spec /\ Fairness

-----------------------------------------------------------------------------
Place ==
    {"none", "take", "asleep", "collect", "collecting", "process", "answer", "release", "stopped"}

\* Types; a batcher's counter is a number of items, never negative
\* (_reserved_items).
TypeOK ==
    /\ service \in {"loading", "starting", "ready", "stopping", "stopped"}
    /\ backend \in {"none", "open", "closed"}
    /\ closing \in [Batchers -> BOOLEAN]
    /\ worker \in [Batchers -> Place]
    /\ notified \in [Batchers -> BOOLEAN]
    /\ pending \in [Batchers -> Seq(Requests)]
    /\ batch \in [Batchers -> Seq(Requests)]
    /\ results \in [Batchers -> Seq(Requests \X (Nat \ {0}))]
    /\ reserved \in [Batchers -> Nat]
    /\ caller \in [Requests -> {"new", "submit", "waiting", "answered", "failed", "full",
                               "refused", "cancelled"}]
    /\ target \in [Requests -> Batchers]
    /\ size \in [Requests -> 0..MaxSize]
    /\ future \in [Requests -> {"none", "pending", "done", "error"}]
    /\ answer \in [Requests -> Seq(Requests \X (Nat \ {0}))]

\* "An accepted request retains its reservation even if its waiter is
\* cancelled; capacity is released only after the worker finishes that
\* request's batch" (inference_batching.py:28): the counter is exactly the
\* items of the queue and of the worker's batch, and within the capacity.
ReservationExact ==
    \A b \in Batchers :
        /\ reserved[b] = ItemsOf(pending[b] \o batch[b])
        /\ reserved[b] <= MaxQueue

\* The model back end is closed only when no worker can call it any more
\* (the finally block of the lifespan), and a batcher that stopped leaves
\* nobody waiting in its queue.
BackendOpenInUse ==
    \A b \in Batchers :
        /\ worker[b] \notin {"none", "stopped"} => backend = "open"
        /\ worker[b] = "stopped" => pending[b] = <<>> /\ batch[b] = <<>> /\ reserved[b] = 0

\* The batchers' books are exact and their back end outlives them.
BatchersSound == TypeOK /\ ReservationExact /\ BackendOpenInUse

\* The batcher is a bounded first-in first-out service: every admitted request
\* is settled in the order of admission, with its own results or an error,
\* whatever was merged with it and whoever went away.
Outstanding ==
    [b \in Batchers |-> (IF worker[b] = "release" THEN <<>> ELSE batch[b]) \o pending[b]]
AdmittedSize == [r \in Requests |-> IF future[r] = "none" THEN 0 ELSE size[r]]
Abstract == INSTANCE AnswerQueue
                WITH outstanding <- Outstanding, size <- AdmittedSize
ServesAnswerQueue == Abstract!FairSpec

\* A shutdown comes to its end with requests in the queue and a worker asleep
\* (close).
ShutdownEnds == []<>(service # "stopping")

=============================================================================
