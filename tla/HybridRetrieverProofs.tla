------------------------- MODULE HybridRetrieverProofs -------------------------
(***************************************************************************)
(* Theorems about HybridRetriever, for any number of requests, closing     *)
(* threads, stages and operations, and any limits.                         *)
(*                                                                         *)
(* That no request is shut out between two stages is not inductive.  It    *)
(* rests on the books: a request is registered with exactly the generation *)
(* it works on (Registered), a generation whose shutdown began has nobody  *)
(* in it and gets nobody (Quiet, ActiveIsHealthy), which needs that a new  *)
(* generation was never quarantined or shut down: Types bounds all ids by  *)
(* the next one.                                                           *)
(***************************************************************************)
EXTENDS HybridRetriever, FiniteSetTheorems, TLAPS

Ids == 1..(nextId - 1)
Labels == {"new", "submit", "check", "wait", "cancel", "finish", "release", "shutdown",
           "closing", "done"}
Inside(r) == pc[r] \in {"submit", "check", "wait", "cancel", "finish", "release"}

Types ==
    /\ nextId \in 1..(MaxIds + 1)
    /\ generations \subseteq Ids /\ quarantined \subseteq Ids /\ shutdown \subseteq Ids
    /\ active \in Ids \cup {None}
    /\ users \in [Generations -> SUBSET Requests]
    /\ closing \in BOOLEAN /\ closed \in BOOLEAN
    /\ pc \in [Actors -> Labels]
    /\ home \in [Requests -> Ids \cup {None}]
    /\ stage \in [Requests -> Stages] /\ slot \in [Requests -> Slots]
    /\ outcome \in [Requests -> {"none", "ok", "timeout", "error", "refused"}]
    /\ toStop \in [Actors -> SUBSET Ids]
    /\ future \in [Futures -> {"none", "queued", "running", "completed", "settled"}]

Few == IsFiniteSet(generations) /\ Cardinality(generations) <= MaxGenerations

Registered ==
    \A r \in Requests :
        /\ Inside(r) => home[r] \in Generations
        /\ \A g \in Generations : r \in users[g] <=> Inside(r) /\ home[r] = g

Quiet == \A g \in shutdown : users[g] = {}

IInv == Types /\ Few /\ Registered /\ ThreadsBounded /\ Quiet /\ ActiveIsHealthy

-----------------------------------------------------------------------------
LEMMA InitHolds == Init => IInv
<1> SUFFICES ASSUME Init PROVE IInv
  OBVIOUS
<1> USE PoolBounds DEF Generations
<1>0. nextId = 2 /\ generations = {1} /\ active = 1 /\ quarantined = {} /\ shutdown = {}
      /\ closed = FALSE /\ closing = FALSE
  BY DEF Init
<1>1. Types
  <2>1. nextId \in 1..(MaxIds + 1) /\ generations \subseteq Ids /\ active \in Ids
    BY <1>0 DEF Ids
  <2>2. 1 \in Stages /\ 1 \in Slots
    BY DEF Stages, Slots
  <2> QED BY <1>0, <2>1, <2>2 DEF Init, Types, Labels
<1>2. Few
  <2>1. IsFiniteSet({1}) /\ Cardinality({1}) = 1
    BY FS_Singleton
  <2> QED BY <1>0, <2>1 DEF Few
<1>3. Registered /\ ThreadsBounded
  BY DEF Init, Registered, Inside, ThreadsBounded, PendingIn, Actors
<1>4. Quiet /\ ActiveIsHealthy
  BY <1>0 DEF Quiet, ActiveIsHealthy
<1> QED BY <1>1, <1>2, <1>3, <1>4 DEF IInv

-----------------------------------------------------------------------------
(* The number of generations.                                              *)

LEMMA PrunedIsFew ==
    ASSUME Few, NEW busy, NEW down, NEW states, NEW kept,
           kept = Pruned(generations, busy, down, states)
    PROVE  /\ kept \subseteq generations
           /\ IsFiniteSet(kept) /\ Cardinality(kept) \in Nat
           /\ Cardinality(kept) <= MaxGenerations
<1>1. kept \subseteq generations
  BY DEF Pruned
<1>2. IsFiniteSet(kept) /\ Cardinality(kept) <= Cardinality(generations)
  BY <1>1, FS_Subset DEF Few
<1>3. Cardinality(kept) \in Nat /\ Cardinality(generations) \in Nat
  BY <1>2, FS_CardinalityType DEF Few
<1> QED BY <1>1, <1>2, <1>3, PoolBounds DEF Few

LEMMA ReplaceIsFew ==
    ASSUME NEW kept, IsFiniteSet(kept), Replace(kept)
    PROVE  Few'
<1>1. IsFiniteSet(generations') /\ Cardinality(generations') <= Cardinality(kept) + 1
  <2>1. Cardinality(kept) \in Nat
    BY FS_CardinalityType
  <2>2. /\ IsFiniteSet(kept \cup {nextId})
        /\ Cardinality(kept \cup {nextId})
             = IF nextId \in kept THEN Cardinality(kept) ELSE Cardinality(kept) + 1
    BY FS_AddElement
  <2> QED BY <2>1, <2>2 DEF Replace
<1>2. Cardinality(kept) \in Nat /\ Cardinality(generations') \in Nat
  BY <1>1, FS_CardinalityType
<1>3. Cardinality(kept) < MaxGenerations
  BY DEF Replace, RoomIn
<1> QED BY <1>1, <1>2, <1>3, PoolBounds DEF Few

-----------------------------------------------------------------------------
(* Requests.                                                               *)

\* Steps of a request that stays where it is, threads that start or complete
\* an operation, and a close that only announces itself.
LEMMA LocalSteps ==
    ASSUME IInv,
           \/ \E r \in Requests : CheckTime(r) \/ TakeResult(r) \/ FinishRequest(r)
           \/ \E f \in Futures : StartOperation(f) \/ CompleteOperation(f)
           \/ \E c \in Closers : Close(c) \/ CloseTimesOut(c)
           \/ UNCHANGED vars
    PROVE  IInv'
<1> USE DEF IInv
<1>1. ASSUME NEW r \in Requests, CheckTime(r) \/ TakeResult(r) \/ FinishRequest(r)
      PROVE  IInv'
  <2>1. /\ UNCHANGED <<pools, flags, home, toStop, future>>
        /\ \A q \in Requests : Inside(q)' = Inside(q)
    BY <1>1 DEF CheckTime, TakeResult, FinishRequest, Goto, Inside, where, Types, Actors
  <2>2. Types'
    BY <1>1, <2>1 DEF CheckTime, TakeResult, FinishRequest, Goto, Ended, where, pools, flags,
       Types, Ids, Actors, Labels
  <2> QED BY <2>1, <2>2 DEF Few, Registered, ThreadsBounded, PendingIn, Quiet, ActiveIsHealthy,
          NobodyInside, pools, flags
<1>2. ASSUME NEW f \in Futures, StartOperation(f) \/ CompleteOperation(f) PROVE IInv'
  <2>1. UNCHANGED <<pools, flags, pc, where, outcome, toStop>>
    BY <1>2 DEF StartOperation, CompleteOperation
  <2>2. Types'
    BY <1>2, <2>1 DEF StartOperation, CompleteOperation, pools, flags, where, Types, Ids
  <2>3. \A g \in Generations : PendingIn(g, future') => PendingIn(g, future)
    BY <1>2, <2>1 DEF StartOperation, CompleteOperation, PendingIn, where, Types
  <2> QED BY <2>1, <2>2, <2>3 DEF Few, Registered, Inside, ThreadsBounded, PendingIn, Quiet,
          ActiveIsHealthy, NobodyInside, pools, flags, where
<1>3. ASSUME NEW c \in Closers, Close(c) \/ CloseTimesOut(c) PROVE IInv'
  <2>1. PICK label \in {"closing", "done"} :
          /\ pc[c] \in {"new", "closing"} /\ pc' = [pc EXCEPT ![c] = label]
          /\ UNCHANGED <<pools, closed, where, outcome, toStop, future>>
          /\ closing' \in BOOLEAN
    BY <1>3 DEF Close, CloseTimesOut, Goto, flags, Types
  <2>2. pc' \in [Actors -> Labels] /\ \A q \in Requests : Inside(q)' = Inside(q)
    BY <2>1 DEF Inside, Types, Actors, Labels
  <2> QED BY <2>1, <2>2 DEF Types, Ids, Few, Registered, ThreadsBounded, PendingIn, Quiet,
          ActiveIsHealthy, NobodyInside, pools, where
<1>4. CASE UNCHANGED vars
  BY <1>4 DEF Types, Ids, Few, Registered, Inside, ThreadsBounded, PendingIn, Quiet,
     ActiveIsHealthy, NobodyInside, pools, flags, where, vars
<1> QED BY <1>1, <1>2, <1>3, <1>4

LEMMA RefusedStep ==
    ASSUME IInv, NEW r \in Requests, AcquireRefused(r)
    PROVE  IInv'
<1> USE DEF IInv
<1>1. /\ UNCHANGED <<active, nextId, users, quarantined, shutdown, flags, where, toStop, future>>
      /\ generations' = Pruned(generations, users, shutdown, future)
      /\ \A q \in Requests : Inside(q)' = Inside(q)
  BY DEF AcquireRefused, Goto, Inside, Types, Actors
<1>2. Few'
  BY <1>1, PrunedIsFew DEF Few
<1>3. Types'
  BY <1>1 DEF AcquireRefused, Goto, Ended, Pruned, where, flags, Types, Ids, Actors, Labels
<1>4. ThreadsBounded'
  BY <1>1 DEF Pruned, ThreadsBounded, PendingIn, where
<1>5. Registered' /\ Quiet'
  BY <1>1 DEF Registered, Quiet, where
<1>6. ActiveIsHealthy'
  BY <1>1 DEF ActiveIsHealthy, Pruned, NobodyInside, flags
<1> QED BY <1>2, <1>3, <1>4, <1>5, <1>6

\* A request enters generation g, the active one or a new one.
Enters(r, g) ==
    /\ Enter(r, g)
    /\ g \in generations' /\ g \in Generations /\ g \notin shutdown /\ g \notin quarantined
    /\ active' = g

LEMMA AcquireStep ==
    ASSUME IInv, NEW r \in Requests, Acquire(r)
    PROVE  IInv'
<1> DEFINE kept == Pruned(generations, users, shutdown, future)
<1> USE DEF IInv
<1>0. /\ pc[r] = "new" /\ ~closed
      /\ UNCHANGED <<quarantined, shutdown, flags, stage, slot, outcome, toStop, future>>
  BY DEF Acquire
<1>1. /\ kept \subseteq generations /\ IsFiniteSet(kept)
      /\ Cardinality(kept) \in Nat /\ Cardinality(kept) <= MaxGenerations
  BY PrunedIsFew
<1>2. PICK g \in Generations :
        /\ Enters(r, g)
        /\ \/ g = active /\ generations' = kept /\ nextId' = nextId
           \/ g = nextId /\ Replace(kept)
  <2>1. CASE active # None /\ Enter(r, active) /\ generations' = kept /\ UNCHANGED <<active, nextId>>
    <3>1. active \in generations /\ active \notin quarantined \cup shutdown
      BY <2>1 DEF ActiveIsHealthy
    <3>2. active \in kept
      BY <3>1 DEF Pruned
    <3>3. active \in Generations
      BY <3>1, PoolBounds DEF Types, Ids, Generations
    <3> QED BY <2>1, <3>1, <3>2, <3>3 DEF Enters
  <2>2. CASE Replace(kept) /\ Enter(r, nextId)
    <3>1. nextId \in Generations /\ nextId \notin shutdown /\ nextId \notin quarantined
      BY <2>2, PoolBounds DEF Replace, Types, Ids, Generations
    <3> QED BY <2>2, <3>1 DEF Enters, Replace
  <2> QED BY <2>1, <2>2 DEF Acquire
<1> HIDE DEF kept
<1>3. /\ nextId \in Nat /\ nextId' \in 1..(MaxIds + 1) /\ Ids \subseteq Ids'
      /\ generations' \subseteq Ids' /\ g \in Ids' /\ kept \subseteq generations'
      /\ generations' \subseteq kept \cup {g}
  <2>1. CASE g = active /\ generations' = kept /\ nextId' = nextId
    <3>1. nextId \in Nat /\ Ids' = Ids
      BY <2>1, PoolBounds DEF Types, Ids
    <3> QED BY <1>1, <1>2, <2>1, <3>1 DEF Types, Enters
  <2>2. CASE g = nextId /\ Replace(kept)
    <3>1. nextId' = nextId + 1 /\ nextId <= MaxIds /\ generations' = kept \cup {nextId}
      BY <2>2 DEF Replace
    <3>2. nextId \in Nat /\ Ids \subseteq Ids' /\ nextId \in Ids'
      BY <3>1, PoolBounds DEF Types, Ids
    <3>3. nextId' \in 1..(MaxIds + 1)
      BY <3>1, <3>2, PoolBounds
    <3>4. generations' \subseteq Ids'
      BY <1>1, <3>1, <3>2 DEF Types
    <3> QED BY <2>2, <3>1, <3>2, <3>3, <3>4
  <2> QED BY <1>2, <2>1, <2>2
<1>4. Few'
  BY <1>1, <1>2, ReplaceIsFew DEF Few
<1>5. /\ users' = [users EXCEPT ![g] = @ \cup {r}] /\ home' = [home EXCEPT ![r] = g]
      /\ pc' = [pc EXCEPT ![r] = "submit"] /\ active' = g
  BY <1>2 DEF Enters, Enter, Goto
<1>6. Types'
  BY <1>0, <1>2, <1>3, <1>5 DEF Types, Actors, Labels, flags, Enters
<1>7. Registered'
  BY <1>0, <1>5 DEF Types, Actors, Registered, Inside
<1>8. ThreadsBounded'
  <2> SUFFICES ASSUME NEW h \in Generations, h # g, users'[h] # {} \/ PendingIn(h, future)'
               PROVE  h \in generations'
    BY <1>2 DEF ThreadsBounded, Enters
  <2>1. users[h] # {} \/ PendingIn(h, future)
    BY <1>0, <1>5 DEF PendingIn, Types
  <2>2. h \in kept
    BY <2>1 DEF ThreadsBounded, Pruned, kept
  <2> QED BY <1>3, <2>2
<1>9. Quiet'
  BY <1>0, <1>2, <1>5 DEF Quiet, Enters, Types, Ids
<1>10. ActiveIsHealthy'
  BY <1>0, <1>2 DEF ActiveIsHealthy, Enters, flags
<1> QED BY <1>4, <1>6, <1>7, <1>8, <1>9, <1>10

\* A request inside is registered with a generation that is not shut down.
LEMMA InsideIsUsable ==
    ASSUME IInv, NEW r \in Requests, Inside(r)
    PROVE  /\ home[r] \in Generations /\ r \in users[home[r]]
           /\ home[r] \notin shutdown /\ home[r] \in generations /\ ~closed
  BY DEF IInv, Registered, Quiet, ThreadsBounded, ActiveIsHealthy, NobodyInside

LEMMA SubmitStep ==
    ASSUME IInv, NEW r \in Requests, Submit(r)
    PROVE  IInv'
<1> USE DEF IInv
<1>1. /\ home[r] \in Generations /\ r \in users[home[r]]
      /\ home[r] \notin shutdown /\ home[r] \in generations
  BY InsideIsUsable DEF Submit, Inside
<1>2. /\ UNCHANGED <<pools, flags, home, stage, toStop, outcome>>
      /\ future' = [f \in Futures |->
                       IF f[1] = r /\ f[2] = stage[r] THEN "queued" ELSE future[f]]
      /\ slot' = [slot EXCEPT ![r] = 1]
      /\ pc' = [pc EXCEPT ![r] = "check"] /\ pc[r] = "submit"
  BY <1>1 DEF Submit, Usable, Goto
<1>3. \A q \in Requests : Inside(q)' = Inside(q)
  BY <1>2 DEF Inside, Types, Actors
<1>4. Types'
  <2>1. 1 \in Slots
    BY PoolBounds DEF Slots
  <2> QED BY <1>2, <2>1 DEF pools, flags, Types, Ids, Actors, Labels
<1>5. ThreadsBounded'
  BY <1>1, <1>2 DEF ThreadsBounded, PendingIn, Request, pools
<1> QED BY <1>2, <1>3, <1>4, <1>5 DEF Few, Registered, Quiet, ActiveIsHealthy, NobodyInside,
        pools, flags

LEMMA TimeoutStep ==
    ASSUME IInv, NEW r \in Requests, Timeout(r)
    PROVE  IInv'
<1> DEFINE kept == Pruned(generations, users, shutdown, future)
           g == home[r]
<1> USE DEF IInv
<1>1. /\ UNCHANGED <<users, shutdown, flags, where, toStop, future>>
      /\ pc' = [pc EXCEPT ![r] = "cancel"] /\ pc[r] = "wait"
      /\ outcome' = [outcome EXCEPT ![r] = "timeout"]
      /\ Quarantine(g)
  BY DEF Timeout, Goto, Ended
<1>2. g \in generations /\ ~closed /\ ~closed'
  BY <1>1, InsideIsUsable DEF Inside, flags
<1>3. \A q \in Requests : Inside(q)' = Inside(q)
  BY <1>1 DEF Inside, Types, Actors
<1>4. /\ kept \subseteq generations /\ IsFiniteSet(kept) /\ Cardinality(kept) <= MaxGenerations
      /\ \A h \in Generations : users[h] # {} \/ PendingIn(h, future) => h \in kept
      /\ \A h \in generations : h \notin shutdown => h \in kept
  <2>1. kept \subseteq generations /\ IsFiniteSet(kept) /\ Cardinality(kept) <= MaxGenerations
    BY PrunedIsFew
  <2>2. \A h \in generations : h \notin shutdown => h \in kept
    BY DEF Pruned
  <2>3. ASSUME NEW h \in Generations, users[h] # {} \/ PendingIn(h, future) PROVE h \in kept
    BY <2>3 DEF ThreadsBounded, Pruned
  <2> QED BY <2>1, <2>2, <2>3
<1> HIDE DEF kept
<1>5. CASE UNCHANGED <<generations, active, nextId, quarantined>>
  <2>1. Types'
    BY <1>1, <1>5 DEF Types, Ids, Actors, Labels, flags, where
  <2> QED BY <1>1, <1>3, <1>5, <2>1 DEF Few, Registered, ThreadsBounded, PendingIn, Quiet,
          ActiveIsHealthy, NobodyInside, flags, where
<1>6. CASE /\ g \notin quarantined /\ quarantined' = quarantined \cup {g}
           /\ generations' = kept /\ active' = ActiveWithout(g) /\ nextId' = nextId
  <2>1. Types'
    BY <1>1, <1>2, <1>4, <1>6 DEF Types, Ids, Actors, Labels, flags, where, ActiveWithout
  <2>2. Few' /\ ThreadsBounded'
    BY <1>1, <1>4, <1>6 DEF Few, ThreadsBounded, PendingIn, where
  <2>3. ActiveIsHealthy'
    BY <1>1, <1>2, <1>4, <1>6 DEF ActiveIsHealthy, ActiveWithout
  <2> QED BY <1>1, <1>3, <2>1, <2>2, <2>3 DEF Registered, Quiet, where
<1>7. CASE /\ g \notin quarantined /\ quarantined' = quarantined \cup {g} /\ Replace(kept)
  <2>1. /\ nextId' = nextId + 1 /\ nextId <= MaxIds /\ active' = nextId
        /\ generations' = kept \cup {nextId}
    BY <1>7 DEF Replace
  <2>2. /\ nextId \in Nat /\ Ids \subseteq Ids' /\ nextId \in Ids' /\ nextId \notin Ids
        /\ nextId' \in 1..(MaxIds + 1)
    BY <2>1, PoolBounds DEF Types, Ids
  <2>3. Types'
    BY <1>1, <1>2, <1>4, <1>7, <2>1, <2>2 DEF Types, Actors, Labels, flags, where
  <2>4. Few'
    BY <1>4, <1>7, ReplaceIsFew
  <2>5. ThreadsBounded'
    BY <1>1, <1>4, <2>1 DEF ThreadsBounded, PendingIn, where
  <2>6. ActiveIsHealthy'
    BY <1>1, <1>2, <1>7, <2>1, <2>2 DEF ActiveIsHealthy, Types
  <2> QED BY <1>1, <1>3, <2>3, <2>4, <2>5, <2>6 DEF Registered, Quiet, where
<1> QED BY <1>1, <1>5, <1>6, <1>7 DEF Quarantine, kept

-----------------------------------------------------------------------------
(* Operations that end.                                                    *)

\* Futures settle, idle generations are pruned, and an actor may move on.
LEMMA SettleStep ==
    ASSUME IInv, NEW left \in [Futures -> {"none", "queued", "running", "completed", "settled"}],
           \A f \in Futures : left[f] = future[f] \/ left[f] = "settled",
           future' = left, generations' = Pruned(generations, users, shutdown, left),
           UNCHANGED <<active, nextId, users, quarantined, shutdown, flags, where, outcome>>,
           pc' \in [Actors -> Labels], \A q \in Requests : Inside(q)' = Inside(q),
           toStop' \in [Actors -> SUBSET Ids]
    PROVE  IInv'
<1> USE DEF IInv
<1>1. Few'
  BY PrunedIsFew DEF Few
<1>2. Types'
  BY DEF Pruned, Types, Ids, flags, where
<1>3. \A g \in Generations : PendingIn(g, left) => PendingIn(g, future)
  BY DEF PendingIn
<1>4. ThreadsBounded'
  BY <1>3 DEF ThreadsBounded, Pruned, PendingIn, where
<1>5. Registered' /\ Quiet'
  BY DEF Registered, Quiet, where
<1>6. ActiveIsHealthy'
  BY DEF ActiveIsHealthy, Pruned, NobodyInside, flags
<1> QED BY <1>1, <1>2, <1>4, <1>5, <1>6

LEMMA SettlingSteps ==
    ASSUME IInv,
           \/ \E r \in Requests : CancelFutures(r)
           \/ \E a \in Actors : ShutdownExecutors(a)
           \/ \E f \in Futures : FutureCompleted(f)
    PROVE  IInv'
<1> USE DEF IInv
<1>1. ASSUME NEW r \in Requests, CancelFutures(r) PROVE IInv'
  <2> DEFINE left == Cancelled(future, {f \in Futures : f[1] = r /\ f[2] = stage[r]})
  <2>1. /\ left \in [Futures -> {"none", "queued", "running", "completed", "settled"}]
        /\ \A f \in Futures : left[f] = future[f] \/ left[f] = "settled"
    BY DEF Cancelled, Types
  <2>2. /\ pc' = [pc EXCEPT ![r] = "release"] /\ pc[r] = "cancel"
        /\ future' = left /\ generations' = Pruned(generations, users, shutdown, left)
        /\ UNCHANGED <<active, nextId, users, quarantined, shutdown, flags, where, outcome, toStop>>
    BY <1>1 DEF CancelFutures, Goto
  <2>3. pc' \in [Actors -> Labels] /\ \A q \in Requests : Inside(q)' = Inside(q)
    BY <2>2 DEF Inside, Types, Actors, Labels
  <2>4. toStop' \in [Actors -> SUBSET Ids]
    BY <2>2 DEF Types
  <2> HIDE DEF left
  <2> QED BY <2>1, <2>2, <2>3, <2>4, SettleStep
<1>2. ASSUME NEW a \in Actors, ShutdownExecutors(a) PROVE IInv'
  <2> DEFINE left == Cancelled(future, {f \in Futures : home[Request(f)] \in toStop[a]})
  <2>1. /\ left \in [Futures -> {"none", "queued", "running", "completed", "settled"}]
        /\ \A f \in Futures : left[f] = future[f] \/ left[f] = "settled"
    BY DEF Cancelled, Types
  <2>2. /\ pc' = [pc EXCEPT ![a] = "done"] /\ pc[a] = "shutdown"
        /\ toStop' = [toStop EXCEPT ![a] = {}]
        /\ future' = left /\ generations' = Pruned(generations, users, shutdown, left)
        /\ UNCHANGED <<active, nextId, users, quarantined, shutdown, flags, where, outcome>>
    BY <1>2 DEF ShutdownExecutors, Goto
  <2>3. pc' \in [Actors -> Labels] /\ \A q \in Requests : Inside(q)' = Inside(q)
    BY <2>2 DEF Inside, Types, Actors, Labels
  <2>4. toStop' \in [Actors -> SUBSET Ids]
    BY <2>2 DEF Types
  <2> HIDE DEF left
  <2> QED BY <2>1, <2>2, <2>3, <2>4, SettleStep
<1>3. ASSUME NEW f \in Futures, FutureCompleted(f) PROVE IInv'
  <2> DEFINE left == [future EXCEPT ![f] = "settled"]
  <2>1. /\ left \in [Futures -> {"none", "queued", "running", "completed", "settled"}]
        /\ \A e \in Futures : left[e] = future[e] \/ left[e] = "settled"
    BY DEF Types
  <2>2. /\ future' = left /\ generations' = Pruned(generations, users, shutdown, left)
        /\ UNCHANGED <<active, nextId, users, quarantined, shutdown, flags, pc, where, outcome,
                       toStop>>
    BY <1>3 DEF FutureCompleted
  <2>3. /\ pc' \in [Actors -> Labels] /\ toStop' \in [Actors -> SUBSET Ids]
        /\ \A q \in Requests : Inside(q)' = Inside(q)
    BY <2>2 DEF Inside, Types
  <2> HIDE DEF left
  <2> QED BY <2>1, <2>2, <2>3, SettleStep
<1> QED BY <1>1, <1>2, <1>3

-----------------------------------------------------------------------------
(* Leaving and closing.                                                    *)

LEMMA ReleaseStep ==
    ASSUME IInv, NEW r \in Requests, Release(r)
    PROVE  IInv'
<1> DEFINE g == home[r]
           busy == [users EXCEPT ![g] = @ \ {r}]
           down == shutdown \cup {d \in {g} : g \in quarantined /\ busy[g] = {}}
           kept == Pruned(generations, busy, down, future)
<1> USE DEF IInv
<1>1. /\ users' = busy /\ generations' = kept
      /\ pc' = [pc EXCEPT ![r] = "shutdown"] /\ pc[r] = "release"
      /\ UNCHANGED <<nextId, quarantined, closing, where, outcome, future>>
  BY DEF Release, Goto
<1>2. g \in Generations /\ r \in users[g] /\ g \in generations /\ ~closed
  BY <1>1, InsideIsUsable DEF Inside
<1>3. kept \subseteq generations /\ IsFiniteSet(kept) /\ Cardinality(kept) <= MaxGenerations
  BY PrunedIsFew
<1>4. /\ \A h \in Generations : busy[h] \subseteq users[h]
      /\ \A d \in down : busy[d] = {}
      /\ down \subseteq Ids /\ down \subseteq shutdown \cup quarantined
  <2>1. \A h \in Generations : busy[h] \subseteq users[h]
    BY <1>2 DEF Types
  <2>2. Ids \subseteq Generations /\ shutdown \subseteq Ids /\ quarantined \subseteq Ids
    BY PoolBounds DEF Types, Ids, Generations
  <2>3. down \subseteq Ids /\ down \subseteq shutdown \cup quarantined
    BY <2>2
  <2>4. \A d \in shutdown : busy[d] = {}
    BY <2>1, <2>2 DEF Quiet
  <2>5. \A d \in down : busy[d] = {}
    BY <2>4
  <2> QED BY <2>1, <2>3, <2>5
<1>5. /\ \A h \in Generations : busy[h] # {} \/ PendingIn(h, future) => h \in kept
      /\ \A h \in generations : h \notin down => h \in kept
  BY <1>4 DEF ThreadsBounded, Pruned
<1>6. Few' /\ ThreadsBounded'
  BY <1>1, <1>3, <1>5 DEF Few, ThreadsBounded, PendingIn, where
<1>7. Registered'
  BY <1>1, <1>2 DEF Registered, Inside, Types, Actors, where
<1>8. users' \in [Generations -> SUBSET Requests] /\ pc' \in [Actors -> Labels]
  BY <1>1, <1>2 DEF Types, Actors, Labels
<1> HIDE DEF busy, down, kept
<1>9. CASE LastOut(busy) /\ FinalizeClose(r, down)
  <2>1. /\ closed' = TRUE /\ active' = None /\ shutdown' = down \cup kept
        /\ toStop' = [toStop EXCEPT ![r] = (down \ shutdown) \cup (kept \ shutdown)]
        /\ \A h \in Generations : busy[h] = {}
    BY <1>1, <1>9 DEF FinalizeClose, LastOut
  <2>2. Types'
    BY <1>1, <1>3, <1>4, <1>8, <2>1 DEF Types, Ids, where
  <2>3. Quiet' /\ ActiveIsHealthy'
    BY <1>1, <1>3, <1>4, <2>1, PoolBounds DEF Quiet, ActiveIsHealthy, NobodyInside, Types, Ids, Generations
  <2> QED BY <1>6, <1>7, <2>2, <2>3
<1>10. CASE /\ shutdown' = down /\ toStop' = [toStop EXCEPT ![r] = down \ shutdown]
            /\ UNCHANGED <<closed, active>>
  <2>1. Types'
    BY <1>1, <1>3, <1>4, <1>8, <1>10 DEF Types, Ids, where
  <2>2. Quiet'
    BY <1>1, <1>4, <1>10 DEF Quiet
  <2>3. ActiveIsHealthy'
    BY <1>1, <1>2, <1>4, <1>5, <1>10 DEF ActiveIsHealthy
  <2> QED BY <1>6, <1>7, <2>1, <2>2, <2>3
<1> QED BY <1>9, <1>10 DEF Release, busy, down

LEMMA FinishCloseStep ==
    ASSUME IInv, NEW c \in Closers, FinishClose(c)
    PROVE  IInv'
<1> USE DEF IInv
<1>1. PICK label \in {"done", "shutdown"} :
        /\ pc[c] = "closing" /\ pc' = [pc EXCEPT ![c] = label]
        /\ UNCHANGED <<generations, nextId, users, quarantined, closing, where, outcome, future>>
        /\ \/ UNCHANGED <<active, shutdown, closed, toStop>>
           \/ NobodyInside /\ FinalizeClose(c, shutdown)
  BY DEF FinishClose, CloseWhenIdle, Goto, pools
<1>2. pc' \in [Actors -> Labels] /\ \A q \in Requests : Inside(q)' = Inside(q)
  BY <1>1 DEF Inside, Types, Actors, Labels
<1>3. Few' /\ Registered' /\ ThreadsBounded'
  BY <1>1, <1>2 DEF Few, Registered, ThreadsBounded, PendingIn, where
<1>4. CASE UNCHANGED <<active, shutdown, closed, toStop>>
  BY <1>1, <1>2, <1>3, <1>4 DEF Types, Ids, Quiet, ActiveIsHealthy, NobodyInside, where
<1>5. CASE NobodyInside /\ FinalizeClose(c, shutdown)
  <2>1. /\ closed' = TRUE /\ active' = None /\ shutdown' = shutdown \cup generations
        /\ toStop' \in [Actors -> SUBSET Ids]
    BY <1>1, <1>5 DEF FinalizeClose, Types
  <2>2. Types'
    BY <1>1, <1>2, <2>1 DEF Types, Ids, where
  <2>3. Quiet' /\ ActiveIsHealthy'
    BY <1>1, <1>5, <2>1, PoolBounds DEF Quiet, ActiveIsHealthy, NobodyInside, Types, Ids, Generations
  <2> QED BY <1>3, <2>2, <2>3
<1> QED BY <1>1, <1>4, <1>5

-----------------------------------------------------------------------------
(* The theorems.                                                           *)

\* The books of requests and generations are right in every state.
THEOREM Bookkeeping == Spec => []IInv
<1>1. ASSUME IInv, [Next]_vars PROVE IInv'
  <2>1. CASE UNCHANGED vars \/ Terminated
    BY <1>1, <2>1, LocalSteps DEF Terminated
  <2>2. ASSUME NEW r \in Requests, Retrieve(r) PROVE IInv'
    BY <1>1, <2>2, RefusedStep, AcquireStep, SubmitStep, LocalSteps, TimeoutStep,
       SettlingSteps, ReleaseStep DEF Retrieve
  <2>3. ASSUME NEW c \in Closers, Shut(c) PROVE IInv'
    BY <1>1, <2>3, LocalSteps, FinishCloseStep DEF Shut
  <2>4. ASSUME NEW a \in Actors, ShutdownExecutors(a) PROVE IInv'
    BY <1>1, <2>4, SettlingSteps
  <2>5. ASSUME NEW f \in Futures, Operate(f) PROVE IInv'
    BY <1>1, <2>5, LocalSteps, SettlingSteps DEF Operate
  <2> QED BY <1>1, <2>1, <2>2, <2>3, <2>4, <2>5 DEF Next
<1> QED BY InitHolds, <1>1, PTL DEF Spec

\* Thread pools stay within _MAX_EXECUTOR_GENERATIONS, none with a request or an
\* operation in it is forgotten, and new requests go to a healthy one.
THEOREM PoolsAreSound == Spec => []PoolsSound
<1>1. IInv => PoolsSound
  <2> SUFFICES ASSUME IInv PROVE TypeOK
    BY DEF IInv, PoolsSound
  <2>1. Types /\ Few
    BY DEF IInv
  <2>2. Ids \subseteq Generations
    BY <2>1, PoolBounds DEF Types, Ids, Generations
  <2>3. toStop \in [Actors -> SUBSET Generations] /\ home \in [Requests -> Generations \cup {None}]
    BY <2>1, <2>2 DEF Types
  <2>4. /\ generations \subseteq Generations /\ quarantined \subseteq Generations
        /\ shutdown \subseteq Generations /\ active \in Generations \cup {None}
    BY <2>1, <2>2 DEF Types
  <2>5. outcome \in [Requests -> {"none", "ok", "timeout", "error", "refused", "shut out"}]
    BY <2>1 DEF Types
  <2> HIDE DEF Ids
  <2> QED BY <2>1, <2>3, <2>4, <2>5 DEF Types, Few, TypeOK, Labels
<1> QED BY Bookkeeping, <1>1, PTL

\* No request is turned away between two stages (_submit finds its generation
\* usable), whoever quarantines, releases or closes meanwhile.
THEOREM NeverTurnedAway == Spec => []NeverShutOut
<1>1. IInv => NeverShutOut
  BY DEF IInv, Types, Quiet, NeverShutOut
<1> QED BY Bookkeeping, <1>1, PTL
=============================================================================
