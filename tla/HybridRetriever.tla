--------------------------- MODULE HybridRetriever ---------------------------
(***************************************************************************)
(* The thread pools of the hybrid retriever.  A request runs its           *)
(* operations on the active generation, a pool of worker threads.  An      *)
(* operation that is late cannot be interrupted: its generation is         *)
(* quarantined, a new one takes its place, and the old one is dropped when *)
(* its requests and its operations have ended.  There are never more than  *)
(* MaxGenerations.  close() lets the requests in flight finish.            *)
(*                                                                         *)
(*   backend/app/hybrid_retriever.py   HybridRetriever                     *)
(*                                                                         *)
(* Everything under self._lifecycle is one step.  What the operations      *)
(* return is left out.  A request has StageCount stages of Parallel        *)
(* operations each (the code: two stages of two, then up to two of one).   *)
(* A request may find its deadline passed at every look it takes at it.    *)
(***************************************************************************)
EXTENDS Naturals, FiniteSets

CONSTANTS
    Requests,
    Closers,            \* threads that call close()
    MaxGenerations,     \* _MAX_EXECUTOR_GENERATIONS
    Workers,            \* max_workers of a generation
    StageCount,         \* bound: stages of a request
    Parallel,           \* bound: operations of a stage
    MaxIds,             \* bound: generations ever created
    None

Generations == 1..MaxIds
Stages == 1..StageCount
Slots == 1..Parallel
Futures == Requests \X Stages \X Slots

ASSUME PoolBounds ==
    /\ MaxGenerations \in Nat \ {0}
    /\ Workers \in Nat \ {0}
    /\ MaxIds \in Nat \ {0}
    /\ StageCount \in Nat \ {0}
    /\ Parallel \in Nat \ {0}
ASSUME NoGeneration == None \notin Generations

VARIABLES
    generations,    \* _executor_generations
    active,         \* _active_generation
    nextId,         \* _next_generation_id
    users,          \* generation: the requests in it (active_requests)
    quarantined,    \* generations that are quarantined
    shutdown,       \* generations whose shutdown has started
    closing, closed,
    pc,             \* request or closer: where it is
    home,           \* request: its generation
    stage, slot,    \* request: which operation it waits for
    outcome,        \* request: how it ended
    toStop,         \* request or closer: executors it has to shut down
    future          \* future: its state

pools == <<generations, active, nextId, users, quarantined, shutdown>>
flags == <<closing, closed>>
where == <<home, stage, slot>>
vars == <<pools, flags, pc, where, outcome, toStop, future>>

Actors == Requests \cup Closers

Init ==
    /\ generations = {1} /\ active = 1 /\ nextId = 2
    /\ users = [g \in Generations |-> {}]
    /\ quarantined = {} /\ shutdown = {}
    /\ closing = FALSE /\ closed = FALSE
    /\ pc = [a \in Actors |-> "new"]
    /\ home = [r \in Requests |-> None]
    /\ stage = [r \in Requests |-> 1]
    /\ slot = [r \in Requests |-> 1]
    /\ outcome = [r \in Requests |-> "none"]
    /\ toStop = [a \in Actors |-> {}]
    /\ future = [f \in Futures |-> "none"]

Goto(a, label) == pc' = [pc EXCEPT ![a] = label]
Ended(r, how) == outcome' = [outcome EXCEPT ![r] = how]
Request(f) == f[1]

\* A future is pending until its completion callback has run.
PendingIn(g, states) ==
    \E f \in Futures : home[Request(f)] = g /\ states[f] \in {"queued", "running", "completed"}

\* _prune_generations_locked
PrunedLeavingBusy(gens, busy, down, states) ==     \* mutant: threads are forgotten
    {g \in gens : ~(g \in down /\ busy[g] = {})}
Pruned(gens, busy, down, states) ==
    {g \in gens : ~(g \in down /\ busy[g] = {} /\ ~PendingIn(g, states))}

\* A new generation, if there is room for one.
RoomIn(gens) == Cardinality(gens) < MaxGenerations
Replace(gens) ==
    /\ RoomIn(gens)
    /\ nextId <= MaxIds
    /\ generations' = gens \cup {nextId}
    /\ active' = nextId
    /\ nextId' = nextId + 1

-----------------------------------------------------------------------------
(* retrieve()                                                              *)

\* _acquire_request_generation: refused when closed, closing or without
\* capacity.
AcquireRefused(r) ==
    LET kept == Pruned(generations, users, shutdown, future) IN
    /\ pc[r] = "new"
    /\ closed \/ closing \/ (active = None /\ ~RoomIn(kept))
    /\ generations' = kept
    /\ Goto(r, "done") /\ Ended(r, "refused")
    /\ UNCHANGED <<active, nextId, users, quarantined, shutdown, flags, where,
                   toStop, future>>

Enter(r, g) ==
    /\ users' = [users EXCEPT ![g] = @ \cup {r}]
    /\ home' = [home EXCEPT ![r] = g]
    /\ Goto(r, "submit")

Acquire(r) ==
    LET kept == Pruned(generations, users, shutdown, future) IN
    /\ pc[r] = "new"
    /\ ~closed /\ ~closing
    /\ \/ /\ active # None
          /\ Enter(r, active)
          /\ generations' = kept
          /\ UNCHANGED <<active, nextId>>
       \/ /\ active = None
          /\ Replace(kept)
          /\ Enter(r, nextId)
    /\ UNCHANGED <<quarantined, shutdown, flags, stage, slot, outcome, toStop,
                   future>>

\* _submit, once for every operation of the stage.
Usable(g) == users[g] # {} /\ g \notin shutdown
Submit(r) ==
    /\ pc[r] = "submit"
    /\ IF Usable(home[r])
       THEN /\ future' = [f \in Futures |->
                    IF f[1] = r /\ f[2] = stage[r] THEN "queued" ELSE future[f]]
            /\ slot' = [slot EXCEPT ![r] = 1]
            /\ Goto(r, "check")
            /\ UNCHANGED outcome
       ELSE /\ Goto(r, "release") /\ Ended(r, "shut out")
            /\ UNCHANGED <<future, slot>>
    /\ UNCHANGED <<pools, flags, home, stage, toStop>>

Awaited(r) == <<r, stage[r], slot[r]>>
Arrived(r) == future[Awaited(r)] \in {"completed", "settled"}

\* _future_result: the deadline is looked at before the wait ...
CheckTime(r) ==
    /\ pc[r] = "check"
    /\ \/ Goto(r, "cancel") /\ Ended(r, "timeout")
       \/ Goto(r, "wait") /\ UNCHANGED outcome
    /\ UNCHANGED <<pools, flags, where, toStop, future>>

\* ... and during it.
TakeResult(r) ==
    /\ pc[r] = "wait"
    /\ Arrived(r)
    /\ \/ Goto(r, "cancel") /\ Ended(r, "error") /\ UNCHANGED <<stage, slot>>
       \/ /\ UNCHANGED outcome
          /\ IF slot[r] + 1 \in Slots
             THEN /\ slot' = [slot EXCEPT ![r] = @ + 1]
                  /\ Goto(r, "check")
                  /\ UNCHANGED stage
             ELSE IF stage[r] + 1 \in Stages
             THEN /\ stage' = [stage EXCEPT ![r] = @ + 1]
                  /\ Goto(r, "submit")
                  /\ UNCHANGED slot
             ELSE Goto(r, "finish") /\ UNCHANGED <<stage, slot>>
    /\ UNCHANGED <<pools, flags, home, toStop, future>>

\* The last check of the deadline, after the last stage.
FinishRequest(r) ==
    /\ pc[r] = "finish"
    /\ \/ Ended(r, "ok")
       \/ Ended(r, "timeout")
    /\ Goto(r, "release")
    /\ UNCHANGED <<pools, flags, where, toStop, future>>

\* _quarantine_generation
ActiveWithout(g) == IF active = g THEN None ELSE active
Quarantine(g) ==
    IF g \in quarantined THEN UNCHANGED <<generations, active, nextId, quarantined>>
    ELSE LET kept == Pruned(generations, users, shutdown, future) IN
         /\ quarantined' = quarantined \cup {g}
         /\ IF ~closing /\ ~closed /\ ActiveWithout(g) = None /\ RoomIn(kept)
            THEN Replace(kept)
            ELSE /\ generations' = kept
                 /\ active' = ActiveWithout(g)
                 /\ UNCHANGED nextId

\* The wait timed out, or the operation itself found its deadline passed and
\* failed with HybridRetrievalTimeout, which is a TimeoutError.
Timeout(r) ==
    /\ pc[r] = "wait"
    /\ Quarantine(home[r])
    /\ Goto(r, "cancel") /\ Ended(r, "timeout")
    /\ UNCHANGED <<users, shutdown, flags, where, toStop, future>>

\* Operations that have not started are cancelled, the others go on.  The
\* completion callback of a cancelled future runs in the caller.
Cancelled(states, mine) ==
    [f \in Futures |-> IF f \in mine /\ states[f] = "queued" THEN "settled" ELSE states[f]]
CancelFutures(r) ==
    LET left == Cancelled(future, {f \in Futures : f[1] = r /\ f[2] = stage[r]}) IN
    /\ pc[r] = "cancel"
    /\ future' = left
    /\ generations' = Pruned(generations, users, shutdown, left)
    /\ Goto(r, "release")
    /\ UNCHANGED <<active, nextId, users, quarantined, shutdown, flags, where,
                   outcome, toStop>>

\* _finalize_close_locked
FinalizeClose(a, down) ==
    /\ closed' = TRUE
    /\ active' = None
    /\ shutdown' = down \cup generations'
    /\ toStop' = [toStop EXCEPT ![a] = (down \ shutdown) \cup (generations' \ shutdown)]

\* _release_request_generation
NeverLast(busy) == FALSE        \* mutant: a close that timed out is never completed
LastOut(busy) == closing /\ ~closed /\ \A g \in Generations : busy[g] = {}
Release(r) ==
    LET g == home[r]
        busy == [users EXCEPT ![g] = @ \ {r}]
        down == shutdown \cup {d \in {g} : g \in quarantined /\ busy[g] = {}} IN
    /\ pc[r] = "release"
    /\ users' = busy
    /\ generations' = Pruned(generations, busy, down, future)
    /\ IF LastOut(busy)
       THEN FinalizeClose(r, down)
       ELSE /\ shutdown' = down
            /\ toStop' = [toStop EXCEPT ![r] = down \ shutdown]
            /\ UNCHANGED <<closed, active>>
    /\ Goto(r, "shutdown")
    /\ UNCHANGED <<nextId, quarantined, closing, where, outcome, future>>

\* _shutdown_executors, outside the lock: queued operations are cancelled.
ShutdownExecutors(a) ==
    LET left == Cancelled(future, {f \in Futures : home[Request(f)] \in toStop[a]}) IN
    /\ pc[a] = "shutdown"
    /\ toStop' = [toStop EXCEPT ![a] = {}]
    /\ future' = left
    /\ generations' = Pruned(generations, users, shutdown, left)
    /\ Goto(a, "done")
    /\ UNCHANGED <<active, nextId, users, quarantined, shutdown, flags, where, outcome>>

-----------------------------------------------------------------------------
(* close()                                                                 *)

NobodyInside == \A g \in Generations : users[g] = {}

Close(c) ==
    /\ pc[c] = "new"
    /\ IF closed
       THEN Goto(c, "done") /\ UNCHANGED closing
       ELSE closing' = TRUE /\ Goto(c, "closing")
    /\ UNCHANGED <<pools, closed, where, outcome, toStop, future>>

CloseEarly == TRUE      \* mutant: close() does not wait for the requests
CloseWhenIdle == NobodyInside
FinishClose(c) ==
    /\ pc[c] = "closing"
    /\ \/ /\ closed
          /\ Goto(c, "done")
          /\ UNCHANGED <<pools, closed, toStop>>
       \/ /\ ~closed /\ CloseWhenIdle
          /\ UNCHANGED <<generations, nextId, users, quarantined>>
          /\ FinalizeClose(c, shutdown)
          /\ Goto(c, "shutdown")
    /\ UNCHANGED <<closing, where, outcome, future>>

\* "hybrid retriever close timed out"
CloseTimesOut(c) ==
    /\ pc[c] = "closing"
    /\ ~closed /\ ~NobodyInside
    /\ Goto(c, "done")
    /\ UNCHANGED <<pools, flags, where, outcome, toStop, future>>

-----------------------------------------------------------------------------
(* The worker threads.                                                     *)

RunningIn(g) == {f \in Futures : home[Request(f)] = g /\ future[f] = "running"}

StartOperation(f) ==
    /\ future[f] = "queued"
    /\ Cardinality(RunningIn(home[Request(f)])) < Workers
    /\ future' = [future EXCEPT ![f] = "running"]
    /\ UNCHANGED <<pools, flags, pc, where, outcome, toStop>>

CompleteOperation(f) ==
    /\ future[f] = "running"
    /\ future' = [future EXCEPT ![f] = "completed"]
    /\ UNCHANGED <<pools, flags, pc, where, outcome, toStop>>

\* _future_completed
FutureCompleted(f) ==
    LET left == [future EXCEPT ![f] = "settled"] IN
    /\ future[f] = "completed"
    /\ future' = left
    /\ generations' = Pruned(generations, users, shutdown, left)
    /\ UNCHANGED <<active, nextId, users, quarantined, shutdown, flags, pc, where,
                   outcome, toStop>>

-----------------------------------------------------------------------------
Retrieve(r) ==
    \/ AcquireRefused(r) \/ Acquire(r) \/ Submit(r) \/ CheckTime(r) \/ TakeResult(r)
    \/ FinishRequest(r) \/ Timeout(r) \/ CancelFutures(r) \/ Release(r)
Operate(f) == StartOperation(f) \/ CompleteOperation(f) \/ FutureCompleted(f)
Shut(c) == Close(c) \/ FinishClose(c) \/ CloseTimesOut(c)

Terminated ==
    /\ \A a \in Actors : pc[a] = "done"
    /\ \A f \in Futures : future[f] \in {"none", "settled"}
    /\ UNCHANGED vars

Next ==
    \/ \E r \in Requests : Retrieve(r)
    \/ \E c \in Closers : Shut(c)
    \/ \E a \in Actors : ShutdownExecutors(a)
    \/ \E f \in Futures : Operate(f)
    \/ Terminated

Spec == Init /\ [][Next]_vars

\* Threads run, and every operation ends: the clients of the embedding and
\* reranker services and of Qdrant have request timeouts.
Fairness ==
    /\ \A r \in Requests : WF_vars(Retrieve(r) /\ pc[r] # "new")
    /\ \A a \in Actors : WF_vars(ShutdownExecutors(a))
    /\ \A c \in Closers : WF_vars(FinishClose(c))
    /\ \A f \in Futures : WF_vars(Operate(f))
FairSpec == Spec /\ Fairness

-----------------------------------------------------------------------------
\* Types, and the limit on thread pools (_MAX_EXECUTOR_GENERATIONS).
TypeOK ==
    /\ generations \subseteq Generations
    /\ Cardinality(generations) <= MaxGenerations
    /\ active \in Generations \cup {None}
    /\ nextId \in 1..(MaxIds + 1)
    /\ users \in [Generations -> SUBSET Requests]
    /\ quarantined \subseteq Generations
    /\ shutdown \subseteq Generations
    /\ closing \in BOOLEAN /\ closed \in BOOLEAN
    /\ pc \in [Actors -> {"new", "submit", "check", "wait", "cancel", "finish", "release",
                          "shutdown", "closing", "done"}]
    /\ home \in [Requests -> Generations \cup {None}]
    /\ stage \in [Requests -> Stages]
    /\ slot \in [Requests -> Slots]
    /\ outcome \in [Requests -> {"none", "ok", "timeout", "error", "refused", "shut out"}]
    /\ toStop \in [Actors -> SUBSET Generations]
    /\ future \in [Futures -> {"none", "queued", "running", "completed", "settled"}]
\* No thread is forgotten: a generation that has a request or an operation in
\* it is counted, so the process never has more than MaxGenerations * Workers
\* retrieval threads at work, however many operations hang.
ThreadsBounded ==
    \A g \in Generations : users[g] # {} \/ PendingIn(g, future) => g \in generations

\* A request that was let in is never turned away between two stages, by a
\* quarantine, another request's release or a close
\* ("hybrid retrieval worker unavailable").
NeverShutOut ==
    /\ \A g \in shutdown : users[g] = {}
    /\ \A r \in Requests : outcome[r] # "shut out"

\* New requests go to a healthy pool: the active generation is known, not
\* quarantined and not shut down; once closed there is none, and no request is
\* inside.
ActiveIsHealthy ==
    /\ active # None => active \in generations \ (quarantined \cup shutdown)
    /\ closed => active = None /\ NobodyInside

\* The books of the pools are right at every moment: typed, bounded, complete
\* and pointing new requests to a healthy pool.
PoolsSound == TypeOK /\ ThreadsBounded /\ ActiveIsHealthy

\* close(), even one that gave up waiting, is completed by the last request
\* that leaves, and every executor is shut down.
CloseCompletes == closing ~> (closed /\ \A a \in Actors : toStop[a] = {})

\* Without capacity, the operations that hang end and their generations are
\* given up: the next request finds room.
CapacityReturns ==
    (active = None /\ ~closing) ~> (closing \/ active # None \/ RoomIn(generations))

\* Neither a close nor exhausted capacity waits for ever.
PoolsRecover == CloseCompletes /\ CapacityReturns

=============================================================================
