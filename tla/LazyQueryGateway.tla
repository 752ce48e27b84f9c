-------------------------- MODULE LazyQueryGateway --------------------------
(***************************************************************************)
(* The lifespan of the production application and the ClickHouse gateway   *)
(* it owns, which connects on the first query.                             *)
(*                                                                         *)
(*   backend/app/main.py   create_production_app, _close_owned_resource,   *)
(*                         _LazyStructuredQueryGateway                     *)
(*                                                                         *)
(* Start-up builds its resources one after the other and owns each at      *)
(* once; whatever ends it, they are closed in reverse.  Requests run in    *)
(* threads of a pool that nobody stops: one may still ask for the gateway  *)
(* while it is being closed.  A pair of ClickHouse clients is known by the *)
(* thread that built it.                                                   *)
(***************************************************************************)
EXTENDS Naturals, Sequences, FiniteSets

CONSTANTS
    Threads,        \* request threads, each of which queries once
    Resources,      \* what start-up builds, in order; one is the gateway
    Gateway,
    Absent

VARIABLES
    stage,          \* "starting", "serving", "closing" or "stopped"
    owned,          \* owned_resources
    closedOnce,     \* what was closed, in order
    shut,           \* _closed
    initializing,   \* _initializing
    users,          \* the queries counted by _active_queries
    pair,           \* _clients: the thread that built them, or Absent
    open,           \* <<thread, "ingest" | "query">>: clients that are connected
    pc,             \* thread: where its query is
    using           \* thread: the pair its query runs on

lifespan == <<stage, owned, closedOnce>>
gateway == <<shut, initializing, users, pair>>
vars == <<lifespan, gateway, open, pc, using>>

Init ==
    /\ stage = "starting" /\ owned = <<>> /\ closedOnce = <<>>
    /\ shut = FALSE /\ initializing = FALSE /\ users = {} /\ pair = Absent
    /\ open = {}
    /\ pc = [t \in Threads |-> "new"] /\ using = [t \in Threads |-> Absent]

Goto(t, label) == pc' = [pc EXCEPT ![t] = label]
PairOf(t) == {<<t, "ingest">>, <<t, "query">>}

-----------------------------------------------------------------------------
\* The lifespan.  A resource that is not the gateway closes at once, with or
\* without an error (_close_owned_resource suppresses it).

Own ==
    /\ stage = "starting" /\ Len(owned) < Len(Resources)
    /\ owned' = Append(owned, Resources[Len(owned) + 1])
    /\ stage' = IF Len(owned') = Len(Resources) THEN "serving" ELSE stage
    /\ UNCHANGED <<closedOnce, gateway, open, pc, using>>
StartFails ==
    /\ stage = "starting"
    /\ stage' = "closing"
    /\ UNCHANGED <<owned, closedOnce, gateway, open, pc, using>>
Shutdown ==
    /\ stage = "serving"
    /\ stage' = "closing"
    /\ UNCHANGED <<owned, closedOnce, gateway, open, pc, using>>

Last == owned[Len(owned)]
Released ==
    /\ owned' = SubSeq(owned, 1, Len(owned) - 1)
    /\ closedOnce' = Append(closedOnce, Last)
CloseResource ==
    /\ stage = "closing" /\ owned # <<>> /\ Last # Gateway
    /\ Released
    /\ UNCHANGED <<stage, gateway, open, pc, using>>
Stop ==
    /\ stage = "closing" /\ owned = <<>>
    /\ stage' = "stopped"
    /\ UNCHANGED <<owned, closedOnce, gateway, open, pc, using>>

\* _LazyStructuredQueryGateway.close: nobody new from now on, and wait for
\* whoever builds or queries.
BeginClose ==
    /\ stage = "closing" /\ owned # <<>> /\ Last = Gateway /\ ~shut
    /\ shut' = TRUE
    /\ UNCHANGED <<lifespan, initializing, users, pair, open, pc, using>>
QueriesOnly == users = {}       \* mutant: close() does not wait for a builder
Idle == ~initializing /\ users = {}
FinishClose ==
    /\ stage = "closing" /\ owned # <<>> /\ Last = Gateway /\ shut
    /\ Idle
    /\ open' = IF pair = Absent THEN open ELSE open \ PairOf(pair)
    /\ pair' = Absent
    /\ Released
    /\ UNCHANGED <<stage, shut, initializing, users, pc, using>>

-----------------------------------------------------------------------------
\* query: _acquire_gateway_for_query waits while another thread builds.

Ask(t) ==
    /\ pc[t] = "new" /\ stage = "serving"
    /\ Goto(t, "acquire")
    /\ UNCHANGED <<lifespan, gateway, open, using>>
Refuse(t) ==
    /\ pc[t] = "acquire" /\ shut
    /\ Goto(t, "refused")
    /\ UNCHANGED <<lifespan, gateway, open, using>>
Join(t) ==
    /\ pc[t] = "acquire" /\ ~shut /\ pair # Absent
    /\ users' = users \cup {t}
    /\ using' = [using EXCEPT ![t] = pair]
    /\ Goto(t, "query")
    /\ UNCHANGED <<lifespan, shut, initializing, pair, open>>
BeginBuild(t) ==
    /\ pc[t] = "acquire" /\ ~shut /\ pair = Absent /\ ~initializing
    /\ initializing' = TRUE
    /\ Goto(t, "ingest")
    /\ UNCHANGED <<lifespan, shut, users, pair, open, using>>

\* _build_gateway: two clients, then the preflight; a failure closes what is
\* open.
Connect(t) ==
    /\ \/ /\ pc[t] = "ingest" /\ open' = open \cup {<<t, "ingest">>}
          /\ Goto(t, "second")
       \/ /\ pc[t] = "second" /\ open' = open \cup {<<t, "query">>}
          /\ Goto(t, "preflight")
    /\ UNCHANGED <<lifespan, gateway, using>>
Preflight(t) ==
    /\ pc[t] = "preflight"
    /\ Goto(t, "publish")
    /\ UNCHANGED <<lifespan, gateway, open, using>>
ClosedOnFailure(t) == open \ PairOf(t)
BuildFails(t) ==
    /\ pc[t] \in {"ingest", "second", "preflight"}
    /\ open' = ClosedOnFailure(t)
    /\ initializing' = FALSE
    /\ Goto(t, "failed")
    /\ UNCHANGED <<lifespan, shut, users, pair, using>>

\* A gateway that was closed meanwhile gets no new clients.
StillOpen == ~shut
Publish(t) ==
    /\ pc[t] = "publish" /\ StillOpen
    /\ pair' = t /\ users' = users \cup {t} /\ initializing' = FALSE
    /\ using' = [using EXCEPT ![t] = t]
    /\ Goto(t, "query")
    /\ UNCHANGED <<lifespan, shut, open>>
Abandon(t) ==
    /\ pc[t] = "publish" /\ ~StillOpen
    /\ open' = open \ PairOf(t)
    /\ initializing' = FALSE
    /\ Goto(t, "refused")
    /\ UNCHANGED <<lifespan, shut, users, pair, using>>

\* The query answers or fails.
Query(t) ==
    /\ pc[t] = "query"
    /\ users' = users \ {t}
    /\ using' = [using EXCEPT ![t] = Absent]
    /\ \/ Goto(t, "answered")
       \/ Goto(t, "failed")
    /\ UNCHANGED <<lifespan, shut, initializing, pair, open>>

-----------------------------------------------------------------------------
Life == Own \/ CloseResource \/ Stop \/ BeginClose \/ FinishClose
Serve(t) ==
    \/ Refuse(t) \/ Join(t) \/ BeginBuild(t) \/ Connect(t) \/ Preflight(t)
    \/ BuildFails(t) \/ Publish(t) \/ Abandon(t) \/ Query(t)
Next == Life \/ StartFails \/ Shutdown \/ \E t \in Threads : Ask(t) \/ Serve(t)

Spec == Init /\ [][Next]_vars

\* Clients have connect and receive timeouts, so a build and a query end.
Fairness ==
    /\ WF_vars(stage = "closing" /\ Life)
    /\ \A t \in Threads : WF_vars(Serve(t))

-----------------------------------------------------------------------------
Steps == {"new", "acquire", "ingest", "second", "preflight", "publish", "query",
          "answered", "failed", "refused"}
TypeOK ==
    /\ stage \in {"starting", "serving", "closing", "stopped"}
    /\ owned \o closedOnce \in Seq({Resources[i] : i \in DOMAIN Resources})
    /\ shut \in BOOLEAN /\ initializing \in BOOLEAN
    /\ users \subseteq Threads /\ pair \in Threads \cup {Absent}
    /\ open \subseteq UNION {PairOf(t) : t \in Threads}
    /\ pc \in [Threads -> Steps] /\ using \in [Threads -> Threads \cup {Absent}]

\* A query runs on connected clients until it ends, whatever closes meanwhile;
\* only one thread builds; clients that nobody can reach are closed.
QueriesConnected ==
    \A t \in Threads : pc[t] = "query" => PairOf(using[t]) \subseteq open
Building(t) == pc[t] \in {"ingest", "second", "preflight", "publish"}
OneBuilder == Cardinality({t \in Threads : Building(t)}) = (IF initializing THEN 1 ELSE 0)
NoneForgotten ==
    \A c \in open : c[1] = pair \/ Building(c[1])

\* What start-up owned is closed once, in reverse, and when the application has
\* stopped nothing is connected any more.
ClosedInReverse ==
    /\ \A i, j \in DOMAIN closedOnce :
          i < j => \E m, n \in DOMAIN Resources :
                      m > n /\ closedOnce[i] = Resources[m] /\ closedOnce[j] = Resources[n]
    /\ stage = "stopped" => open = {} /\ owned = <<>>

GatewaySound == TypeOK /\ QueriesConnected /\ OneBuilder /\ NoneForgotten /\ ClosedInReverse

\* Shutting down and every query come to an end.
Quiet ==
    /\ stage # "closing"
    /\ \A t \in Threads : pc[t] \in {"new", "answered", "failed", "refused"}
=============================================================================
