----------------------------- MODULE MCServices -----------------------------
(***************************************************************************)
(* The concurrent parts of the serving processes that share no state, for  *)
(* TLC: the retrieval router's circuit breaker and its two queues, the     *)
(* batchers of an inference service, the lazy ClickHouse gateway in the    *)
(* application's lifespan and the readiness checks.  A behaviour is one of *)
(* a single part, chosen at the start; the others stay where they began.   *)
(***************************************************************************)
EXTENDS CircuitBreaker, FiniteSets

CONSTANTS
    Tasks, Closers, MaxSize, MaxCloses, EndMark, Nobody,       \* ShadowQueue
    Callers, NBatchers, MaxItems, MaxQueue, None,           \* InferenceBatching
    Queriers, Database, Gateway, Repository,                 \* LazyQueryGateway
    Checks, Probes, MaxRounds, Silent                       \* DependencyHealth

\* retrieval_router.py refuses a max_size that is not positive; threads, tasks
\* and resources are told apart, and the probes are some of the checks.
ASSUME QueueConstants ==
    /\ IsFiniteSet(Tasks) /\ MaxSize \in Nat \ {0} /\ MaxCloses \in Nat
    /\ EndMark \notin Tasks \cup Closers
    /\ Nobody \notin Tasks \cup Closers \cup {EndMark}
\* inference_batching.py refuses capacities that are not positive; there is at
\* least one batcher in a service.
ASSUME BatchingConstants ==
    NBatchers \in Nat \ {0} /\ MaxItems \in Nat \ {0} /\ MaxQueue \in Nat \ {0}
ASSUME AppConstants ==
    /\ None \notin Queriers
    /\ Database # Gateway /\ Repository \notin {Database, Gateway}
ASSUME ReadinessConstants ==
    Probes \subseteq Checks /\ MaxRounds \in Nat /\ Silent \in Nat

VARIABLES
    part,       \* "breaker", "shadow", "log", "batching", "gateway" or "health"
    queue, lock, closing, closed, dropped, worker, task, closer, calls, fate,
    service, backend, ending, runner, notified, pending, batch, results, reserved,
    caller, target, size, future, answer,
    stage, owned, closedOnce, shut, initializing, users, pair, open, at, using,
    reply, inflight, fresh, waiter, verdict, slot, gate, thread, outcome, cancelled,
    captured, known, connected, wasGood, rounds, silences

queues == <<queue, lock, closing, closed, dropped, worker, task, closer, calls, fate>>
inference == <<service, backend, ending, runner, notified, pending, batch, results, reserved,
               caller, target, size, future, answer>>
application == <<stage, owned, closedOnce, shut, initializing, users, pair, open, at, using>>
readiness == <<reply, inflight, fresh, waiter, verdict, slot, gate, thread, outcome, cancelled,
               captured, known, connected, wasGood, rounds, silences>>

ShadowComparisons == INSTANCE ShadowQueue WITH pc <- closer, Cleans <- TRUE, Stop <- EndMark
FailureLogs == INSTANCE ShadowQueue WITH pc <- closer, Cleans <- FALSE, Stop <- EndMark
Batching == INSTANCE InferenceBatching
                WITH Requests <- Callers, closing <- ending, worker <- runner
Application == INSTANCE LazyQueryGateway
                WITH pc <- at, Threads <- Queriers, Resources <- <<Database, Gateway, Repository>>, Absent <- None
Readiness == INSTANCE DependencyHealth WITH open <- connected

ServicesInit ==
    /\ part \in {"breaker", "shadow", "log", "batching", "gateway", "health"}
    /\ Init
    /\ IF part = "log" THEN FailureLogs!Init ELSE ShadowComparisons!Init
    /\ Batching!Init /\ Application!Init /\ Readiness!Init

ServicesNext ==
    /\ UNCHANGED part
    /\ \/ /\ part = "breaker" /\ Next
          /\ UNCHANGED <<queues, inference, application, readiness>>
       \/ /\ part = "shadow" /\ ShadowComparisons!Next
          /\ UNCHANGED <<vars, inference, application, readiness>>
       \/ /\ part = "log" /\ FailureLogs!Next
          /\ UNCHANGED <<vars, inference, application, readiness>>
       \/ /\ part = "batching" /\ Batching!Next
          /\ UNCHANGED <<vars, queues, application, readiness>>
       \/ /\ part = "gateway" /\ Application!Next
          /\ UNCHANGED <<vars, queues, inference, readiness>>
       \/ /\ part = "health" /\ Readiness!Next
          /\ UNCHANGED <<vars, queues, inference, application>>

\* Each part under its own fairness.  Only the breaker's asks something of its
\* part before anything happened: that requests keep coming.
ServicesSpec ==
    /\ ServicesInit
    /\ [][ServicesNext]_<<part, vars, queues, inference, application, readiness>>
    /\ \A r \in Requests :
          WF_vars(Serve(r)) /\ WF_vars(part = "breaker" /\ Acquire(r))
    /\ WF_vars(IntervalPasses) /\ WF_vars(ComesUp)
    /\ ShadowComparisons!Fairness
    /\ Batching!Fairness
    /\ Application!Fairness
    /\ Readiness!Fairness

\* ShadowQueue, SanitizedLogQueue: no task disappears, the dropped counter
\* shows exactly the tasks that were not run, the queue never overflows, the
\* stop marker of close() included, and a closed one stays quiet.
QueuesSound ==
    IF part = "log" THEN FailureLogs!QueueSound ELSE ShadowComparisons!QueueSound

\* DynamicBatcher: see InferenceBatching.
BatchersSound == Batching!BatchersSound
ServesAnswerQueue == Batching!ServesAnswerQueue

\* _LazyStructuredQueryGateway, DependencyHealthRegistry: queries run on
\* connected clients and nothing stays connected, threads and connections of
\* readiness checks are bounded and no late answer counts.
ResourcesSound == Application!GatewaySound /\ Readiness!ChecksSound

\* Everything that was begun comes to its end: the circuit closes after the
\* outages (report_failure, acquire), whoever calls close() stops the worker of
\* the shadow queue, both kinds of service shut down, and a round of readiness
\* checks ends although a dependency does not answer.
ServicesSettle ==
    /\ Recovers
    /\ []<>(/\ part = "shadow" /\ closing => ~ShadowComparisons!Alive
            /\ service # "stopping"
            /\ Application!Quiet
            /\ Readiness!Quiet)

=============================================================================
