--------------------------- MODULE ServicesProofs ---------------------------
(***************************************************************************)
(* Proofs about the concurrent parts of the serving processes, for any     *)
(* number of requests, tasks, threads and checks: the circuit breaker and  *)
(* the two queues of the retrieval router, the ClickHouse gateway in the   *)
(* application's lifespan, the readiness checks, and the batchers of an    *)
(* inference service.  Each part has an inductive invariant of its own;    *)
(* the composition only says that a step of one part leaves the others     *)
(* alone.                                                                  *)
(***************************************************************************)
EXTENDS MCServices, Sequences, FiniteSetTheorems, SequenceTheorems, WellFoundedInduction, TLAPS

-----------------------------------------------------------------------------
(* The circuit breaker.                                                    *)
(*                                                                         *)
(* HalfOpenHasProbe is not inductive: that a probe of the current epoch is *)
(* under way, and the only one, rests on three facts about every state.    *)
(* Permits are held by requests under way only (Held); an open circuit has *)
(* forgotten every permit (OpenForgetsAll), so the probe it lets in is     *)
(* alone; and a closed circuit has no probe of its epoch.                  *)

\* A permit is a request's that is under way, and one probe decides.
Held == \A r \in current \cup probes : InFlight(r)

OneProbe ==
    /\ state = "half_open" => \E r \in Requests : probes \cap current = {r}
    /\ state = "closed" => probes \cap current = {}

BreakerInv == TypeOK /\ OpenForgetsAll /\ Held /\ OneProbe

-----------------------------------------------------------------------------
\* What a report can do: open the circuit, close it (the probe came back), or
\* leave its state alone, which no deciding probe does.
Opens == state' = "open" /\ failures' = 0 /\ current' = {}
Closes(r) ==
    /\ state = "half_open" /\ r \in probes \cap current
    /\ pc[r] \in {"found", "empty"} /\ pc' # pc
    /\ state' = "closed" /\ failures' = 0 /\ current' = {}
Leaves(r) ==
    /\ ~(state = "half_open" /\ r \in probes \cap current)
    /\ state' = state /\ current' = current \ {r}
    /\ \/ failures' = failures
       \/ state = "closed" /\ (failures' = 0 \/ (failures' = failures + 1 /\ ~Trips(failures')))

LEMMA ReportCases ==
    ASSUME NEW r \in Requests, Report(r), TypeOK
    PROVE  /\ probes' = probes \ {r}
           /\ pc' = [pc EXCEPT ![r] = "idle"] \/ pc' = [pc EXCEPT ![r] = "legacy"]
           /\ Opens \/ Closes(r) \/ Leaves(r)
<1>1. probes' = probes \ {r}
  BY DEF Report
<1>2. pc' = [pc EXCEPT ![r] = "idle"] \/ pc' = [pc EXCEPT ![r] = "legacy"]
  BY DEF Report, Goto
<1>3. CASE pc[r] \in {"found", "empty"} /\ RecordSuccess(r)
  <2>1. pc'[r] # pc[r]
    BY <1>2, <1>3 DEF TypeOK
  <2>2. CASE ~Counts(r)
    <3>1. state' = state /\ failures' = failures /\ current' = current \ {r}
      BY <1>3, <2>2 DEF RecordSuccess, Ignore, KeepEpoch, breaker
    <3> QED BY <1>1, <1>2, <2>2, <3>1 DEF Leaves, Counts
  <2>3. CASE Counts(r) /\ state = "half_open" /\ r \in probes
    <3>1. state' = "closed" /\ failures' = 0 /\ current' = {}
      BY <1>3, <2>3 DEF RecordSuccess, NewEpoch
    <3> QED BY <1>1, <1>2, <1>3, <2>1, <2>3, <3>1 DEF Closes, Counts
  <2>4. CASE Counts(r) /\ ~(state = "half_open" /\ r \in probes)
    <3>1. current' = current \ {r} /\ state' = state
      BY <1>3, <2>4 DEF RecordSuccess, KeepEpoch
    <3>2. failures' = failures \/ (state = "closed" /\ failures' = 0)
      BY <1>3, <2>4 DEF RecordSuccess
    <3> QED BY <1>1, <1>2, <2>4, <3>1, <3>2 DEF Leaves
  <2> QED BY <2>2, <2>3, <2>4
<1>4. CASE pc[r] = "failed" /\ RecordFailure(r)
  BY <1>1, <1>2, <1>4
  DEF RecordFailure, Open, Ignore, NewEpoch, KeepEpoch, breaker, Counts, Opens, Leaves
<1>5. CASE pc[r] = "interrupted" /\ Abandon(r)
  BY <1>1, <1>2, <1>5 DEF Abandon, Open, Ignore, NewEpoch, KeepEpoch, breaker, Counts, Opens, Leaves
<1> QED BY <1>1, <1>2, <1>3, <1>4, <1>5 DEF Report

LEMMA InitHolds == Init => BreakerInv
<1> SUFFICES ASSUME Init PROVE BreakerInv
  OBVIOUS
<1>1. failures \in 0..(FailureThreshold - 1) /\ outages \in 0..MaxOutages
  BY ThresholdIsPositive, OutagesBounded DEF Init
<1>2. TypeOK
  BY <1>1 DEF Init, TypeOK
<1> QED BY <1>2 DEF Init, BreakerInv, OpenForgetsAll, Held, OneProbe

-----------------------------------------------------------------------------
\* Every step keeps the types.
LEMMA TypeStep == TypeOK /\ [Next]_vars => TypeOK'
<1> SUFFICES ASSUME TypeOK, [Next]_vars PROVE TypeOK'
  OBVIOUS
<1> USE DEF TypeOK, Goto, breaker
<1>1. ASSUME NEW r \in Requests, AcquireClosed(r) PROVE TypeOK'
  BY <1>1 DEF AcquireClosed
<1>2. ASSUME NEW r \in Requests, AcquireProbe(r) PROVE TypeOK'
  BY <1>2 DEF AcquireProbe
<1>3. ASSUME NEW r \in Requests, Refused(r) PROVE TypeOK'
  BY <1>3 DEF Refused
<1>4. ASSUME NEW r \in Requests, Retrieve(r) PROVE TypeOK'
  <2>1. outages' \in 0..MaxOutages
    BY <1>4, OutagesBounded DEF Retrieve
  <2>2. \E l \in {"found", "empty", "failed", "interrupted"} : pc' = [pc EXCEPT ![r] = l]
    BY <1>4 DEF Retrieve
  <2> QED BY <1>4, <2>1, <2>2 DEF Retrieve
<1>5. ASSUME NEW r \in Requests, Report(r) PROVE TypeOK'
  <2>1. current' \subseteq Requests /\ probes' \subseteq Requests
    BY <1>5, ReportCases DEF Opens, Closes, Leaves
  <2>2. failures' \in 0..(FailureThreshold - 1)
    BY <1>5, ReportCases, ThresholdIsPositive DEF Trips, Opens, Closes, Leaves
  <2>3. state' \in {"closed", "open", "half_open"} /\ elapsed' \in BOOLEAN
    BY <1>5 DEF Report, RecordSuccess, RecordFailure, Abandon, Open, Ignore
  <2>4. pc' = [pc EXCEPT ![r] = "idle"] \/ pc' = [pc EXCEPT ![r] = "legacy"]
    BY <1>5, ReportCases
  <2> QED BY <1>5, <2>1, <2>2, <2>3, <2>4 DEF Report
<1>6. ASSUME NEW r \in Requests, Legacy(r) PROVE TypeOK'
  BY <1>6 DEF Legacy
<1>7. CASE IntervalPasses
  BY <1>7 DEF IntervalPasses
<1>8. CASE GoesDown
  <2>1. outages' \in 0..MaxOutages
    BY <1>8, OutagesBounded DEF GoesDown
  <2>2. healthy' \in BOOLEAN
    BY <1>8 DEF GoesDown
  <2> QED BY <1>8, <2>1, <2>2 DEF GoesDown
<1>9. CASE ComesUp
  BY <1>9 DEF ComesUp
<1>10. CASE UNCHANGED vars
  BY <1>10 DEF vars
<1> QED
  BY <1>1, <1>2, <1>3, <1>4, <1>5, <1>6, <1>7, <1>8, <1>9, <1>10
  DEF Next, Acquire, Serve

-----------------------------------------------------------------------------
\* Every step keeps the permits straight.
LEMMA PermitStep == BreakerInv /\ [Next]_vars => (OpenForgetsAll /\ Held /\ OneProbe)'
<1> SUFFICES ASSUME BreakerInv, [Next]_vars PROVE (OpenForgetsAll /\ Held /\ OneProbe)'
  OBVIOUS
<1> USE DEF BreakerInv, OpenForgetsAll, Held, OneProbe, InFlight, Goto, breaker
<1>0. TypeOK
  OBVIOUS
<1>1. ASSUME NEW r \in Requests, AcquireClosed(r) PROVE (OpenForgetsAll /\ Held /\ OneProbe)'
  <2>1. r \notin probes
    BY <1>1 DEF AcquireClosed
  <2> QED BY <1>1, <2>1 DEF AcquireClosed, TypeOK
<1>2. ASSUME NEW r \in Requests, AcquireProbe(r) PROVE (OpenForgetsAll /\ Held /\ OneProbe)'
  <2>1. current = {} /\ failures = 0
    BY <1>2 DEF AcquireProbe, MayProbe
  <2>2. probes' \cap current' = {r}
    BY <1>2, <2>1 DEF AcquireProbe
  <2> QED BY <1>2, <2>1, <2>2 DEF AcquireProbe, TypeOK
<1>3. ASSUME NEW r \in Requests, Refused(r) PROVE (OpenForgetsAll /\ Held /\ OneProbe)'
  BY <1>3 DEF Refused, TypeOK
<1>4. ASSUME NEW r \in Requests, Retrieve(r) PROVE (OpenForgetsAll /\ Held /\ OneProbe)'
  <2>1. \E l \in {"found", "empty", "failed", "interrupted"} : pc' = [pc EXCEPT ![r] = l]
    BY <1>4 DEF Retrieve
  <2> QED BY <1>4, <2>1 DEF Retrieve, TypeOK
<1>5. ASSUME NEW r \in Requests, Report(r) PROVE (OpenForgetsAll /\ Held /\ OneProbe)'
  <2>1. probes' = probes \ {r} /\ (Opens \/ Closes(r) \/ Leaves(r))
    BY <1>0, <1>5, ReportCases
  <2>2. current' \subseteq current \ {r}
    BY <2>1 DEF Opens, Closes, Leaves
  <2>3. \A q \in Requests \ {r} : pc'[q] = pc[q]
    BY <1>0, <1>5, ReportCases DEF TypeOK
  <2>4. Held'
    BY <2>1, <2>2, <2>3 DEF TypeOK
  <2>5. OneProbe' /\ OpenForgetsAll'
    BY <2>1 DEF Opens, Closes, Leaves
  <2> QED BY <2>4, <2>5
<1>6. ASSUME NEW r \in Requests, Legacy(r) PROVE (OpenForgetsAll /\ Held /\ OneProbe)'
  BY <1>6 DEF Legacy, TypeOK
<1>7. CASE IntervalPasses \/ GoesDown \/ ComesUp \/ UNCHANGED vars
  BY <1>7 DEF IntervalPasses, GoesDown, ComesUp, vars
<1> QED
  BY <1>1, <1>2, <1>3, <1>4, <1>5, <1>6, <1>7 DEF Next, Acquire, Serve

\* The inductive invariant.
THEOREM Permits == Spec => []BreakerInv
<1>1. BreakerInv /\ [Next]_vars => BreakerInv'
  BY TypeStep, PermitStep DEF BreakerInv
<1> QED BY InitHolds, <1>1, PTL DEF Spec

\* Type correctness (_CircuitBreaker's fields, and every thread's place).
THEOREM TypeCorrect == Spec => []TypeOK
BY Permits, PTL DEF BreakerInv

\* A half-open circuit has exactly one probe under way that can decide it; in
\* any other state of the circuit no probe can (acquire, abandon).
THEOREM NeverOrphaned == Spec => []HalfOpenHasProbe
<1>1. BreakerInv => HalfOpenHasProbe
  <2> SUFFICES ASSUME BreakerInv PROVE HalfOpenHasProbe
    OBVIOUS
  <2> DEFINE deciding == {r \in probes \cap current : InFlight(r)}
  <2>1. deciding = probes \cap current
    BY DEF BreakerInv, Held
  <2>2. state \in {"closed", "open", "half_open"}
    BY DEF BreakerInv, TypeOK
  <2>3. CASE state = "half_open"
    BY <2>1, <2>3 DEF HalfOpenHasProbe, BreakerInv, OneProbe
  <2>4. CASE state # "half_open"
    <3>1. probes \cap current = {}
      BY <2>2, <2>4 DEF BreakerInv, OneProbe, OpenForgetsAll
    <3> QED BY <2>1, <2>4, <3>1 DEF HalfOpenHasProbe
  <2> QED BY <2>3, <2>4
<1> QED BY <1>1, Permits, PTL

\* No request let in before the circuit opened can move it (record_success,
\* record_failure compare the epochs).
THEOREM OpenMeansOpen == Spec => []OpenForgetsAll
BY Permits, PTL DEF BreakerInv

\* The circuit closes through a probe that came back, and a result from before
\* the last change of state moves nothing (record_success, record_failure).
THEOREM ProbesDecide == Spec => OnlyProbesClose
<1>1. ASSUME BreakerInv, Next PROVE ProbeCloses /\ LateIsIgnored
  <2>0. TypeOK /\ Held
    BY <1>1 DEF BreakerInv
  <2>1. ASSUME NEW r \in Requests, Report(r) PROVE ProbeCloses /\ LateIsIgnored
    <3>1. \A q \in Requests \ {r} : pc'[q] = pc[q]
      BY <2>0, <2>1, ReportCases DEF TypeOK
    <3>2. ProbeCloses
      <4>1. Opens \/ Closes(r) \/ Leaves(r)
        BY <2>0, <2>1, ReportCases
      <4>2. CASE Closes(r)
        <5>1. pc'[r] # pc[r]
          BY <2>0, <2>1, <4>2, ReportCases DEF Closes, TypeOK
        <5> QED BY <4>2, <5>1 DEF Closes, ProbeCloses
      <4> QED BY <4>1, <4>2 DEF Opens, Leaves, ProbeCloses
    <3>3. r \notin current => UNCHANGED breaker
      BY <2>1 DEF Report, RecordSuccess, RecordFailure, Abandon, Counts, Ignore
    <3>4. LateIsIgnored
      BY <3>1, <3>3 DEF LateIsIgnored, InFlight
    <3> QED BY <3>2, <3>4
  <2>2. ASSUME NEW r \in Requests, AcquireClosed(r) PROVE ProbeCloses /\ LateIsIgnored
    BY <2>0, <2>2 DEF AcquireClosed, ProbeCloses, LateIsIgnored, breaker, TypeOK
  <2>3. ASSUME NEW r \in Requests, AcquireProbe(r) PROVE ProbeCloses /\ LateIsIgnored
    <3>1. \A q \in Requests : InFlight(q) => InFlight(q)'
      BY <2>0, <2>3 DEF AcquireProbe, InFlight, Goto, TypeOK
    <3> QED BY <2>3, <3>1 DEF AcquireProbe, ProbeCloses, LateIsIgnored
  <2>4. ASSUME NEW r \in Requests, Refused(r) \/ Retrieve(r) \/ Legacy(r)
        PROVE  ProbeCloses /\ LateIsIgnored
    BY <2>4 DEF Refused, Retrieve, Legacy, ProbeCloses, LateIsIgnored, breaker
  <2>5. CASE IntervalPasses \/ GoesDown \/ ComesUp
    <3>1. state' = state /\ pc' = pc
      BY <2>5 DEF IntervalPasses, GoesDown, ComesUp, breaker
    <3> QED BY <3>1 DEF ProbeCloses, LateIsIgnored, InFlight
  <2> QED BY <1>1, <2>1, <2>2, <2>3, <2>4, <2>5 DEF Next, Acquire, Serve
<1> QED BY <1>1, Permits, PTL DEF Spec, OnlyProbesClose

-----------------------------------------------------------------------------
(* The two queues of the retrieval router.                                 *)
(*                                                                         *)
(* Both are one module, told apart by what an interrupted worker does      *)
(* (Cleans), and one proof.  The books are exact because a task is in one  *)
(* place at a time (Books).  A closed queue stays quiet because only the   *)
(* call that sets _closing discards under the lock, so a shadow worker     *)
(* that ends leaves an empty queue that takes nothing any more (Closing).  *)

\* Either queue.
Queue(cleans) == INSTANCE ShadowQueue
                    WITH pc <- closer, Cleans <- cleans, Stop <- EndMark

\* Where a task is: queued once, in the worker's hands, or nowhere.
QueueTypes ==
    /\ queue \in Seq(Tasks \cup {EndMark}) /\ Len(queue) <= MaxSize
    /\ lock \in Closers \cup {EndMark, Nobody}
    /\ closing \in BOOLEAN /\ closed \in BOOLEAN /\ dropped \in Nat
    /\ worker \in {"get", "run", "clean", "exiting", "dead"}
    /\ task \in Tasks \cup {EndMark, Nobody}
    /\ closer \in [Closers -> {"idle", "discard", "join"}]
    /\ calls \in [Closers -> 0..MaxCloses]
    /\ fate \in [Tasks -> {"new", "accepted", "refused", "discarded", "done",
                           "interrupted"}]
QueuedOnce ==
    \A i, j \in 1..Len(queue) : queue[i] = queue[j] /\ queue[i] \in Tasks => i = j
InHand == task \in Tasks <=> worker = "run"
Accepted ==
    \A t \in Tasks :
        /\ fate[t] = "accepted" <=> (t = task \/ \E i \in 1..Len(queue) : queue[i] = t)
        /\ \A i \in 1..Len(queue) : queue[i] # task \/ task \notin Tasks
\* What the dropped counter counts.
NotRun == {t \in Tasks : fate[t] \in {"refused", "discarded"}}
Books == QueuedOnce /\ InHand /\ Accepted /\ dropped = Cardinality(NotRun)

\* Who may discard, and what _closing and _closed promise.
Closing(cleans) ==
    /\ \A c \in Closers : closer[c] = "discard" <=> lock = c
    /\ \A c \in Closers : closer[c] # "idle" => closing
    /\ lock = EndMark => worker = "clean" /\ closing
    /\ closed => closing /\ worker = "dead" /\ lock = Nobody
    /\ \A i \in 1..Len(queue) : queue[i] = EndMark =>
          closing /\ Len(queue) = 1 /\ lock \notin Closers
    /\ cleans /\ worker \in {"exiting", "dead"} =>
          closing /\ queue = <<>> /\ lock = Nobody

\* The inductive invariant of either queue.
QueueInv(cleans) == QueueTypes /\ Books /\ Closing(cleans)

\* The invariant gives the property of the run.
LEMMA QueueInvSuffices ==
  ASSUME NEW cleans \in BOOLEAN, QueueInv(cleans)
  PROVE  Queue(cleans)!QueueSound
<1> USE QueueConstants DEF QueueInv, QueueTypes, Books, Closing
<1>1. NotRun = {t \in Tasks : fate[t] \in {"refused", "discarded"}}
  BY DEF NotRun
<1>2. dropped = Queue(cleans)!Count({"refused", "discarded"})
  BY DEF NotRun, Queue!Count, Queue!Cardinality, Cardinality
<1>3. dropped \in 0..Cardinality(Tasks)
  <2>1. IsFiniteSet(NotRun) /\ Cardinality(NotRun) <= Cardinality(Tasks)
    BY FS_Subset DEF NotRun
  <2> QED
    BY <2>1, FS_CardinalityType
<1>4. {t \in Tasks : fate[t] = "accepted"}
         = (Queue(cleans)!Elements \cup {task}) \cap Tasks
  BY DEF Accepted, Queue!Elements
<1>5. Queue(cleans)!TypeOK
  BY <1>3 DEF Queue!TypeOK, Queue!Threads, Queue!Cardinality, Cardinality
<1>6. Queue(cleans)!ClosedIsQuiet
  BY DEF Queue!ClosedIsQuiet, Queue!Alive
<1> QED
  BY <1>2, <1>4, <1>5, <1>6 DEF Queue!QueueSound, Queue!DroppedExact

\* The queue starts empty, with a worker or without.
LEMMA QueueInit ==
  ASSUME NEW cleans \in BOOLEAN, Queue(cleans)!Init
  PROVE  QueueInv(cleans)
<1> USE QueueConstants DEF Queue!Init
<1>1. NotRun = {}
  BY DEF NotRun
<1>2. dropped = Cardinality(NotRun)
  BY <1>1, FS_EmptySet
<1>3. QueueTypes
  <2>1. queue \in Seq(Tasks \cup {EndMark}) /\ Len(queue) <= MaxSize
    OBVIOUS
  <2>2. closer \in [Closers -> {"idle", "discard", "join"}]
    OBVIOUS
  <2>3. calls \in [Closers -> 0..MaxCloses]
    OBVIOUS
  <2>4. worker \in {"get", "run", "clean", "exiting", "dead"}
    OBVIOUS
  <2> QED
    BY <2>1, <2>2, <2>3, <2>4 DEF QueueTypes
<1>4. Books
  BY <1>2 DEF Books, QueuedOnce, InHand, Accepted
<1>5. Closing(cleans)
  BY DEF Closing
<1> QED
  BY <1>3, <1>4, <1>5 DEF QueueInv

\* One task more that is not run.
LEMMA OneMore ==
  ASSUME QueueTypes, dropped = Cardinality(NotRun), NEW t \in Tasks,
         t \notin NotRun, NotRun' = NotRun \cup {t}, dropped' = dropped + 1
  PROVE  dropped' = Cardinality(NotRun')
<1>1. IsFiniteSet(NotRun)
  BY QueueConstants, FS_Subset DEF NotRun
<1> QED
  BY <1>1, FS_AddElement

\* The front of the queue is discarded.
LEMMA DiscardKeeps ==
  ASSUME NEW cleans \in BOOLEAN, QueueTypes, Books, Queue(cleans)!DiscardOne,
         task' = task, worker' = worker
  PROVE  Books' /\ queue' \in Seq(Tasks \cup {EndMark}) /\ Len(queue') = Len(queue) - 1
           /\ fate' \in [Tasks -> {"new", "accepted", "refused", "discarded", "done",
                           "interrupted"}]
           /\ \A i \in 1..Len(queue') : queue'[i] = queue[i + 1]
<1> USE QueueConstants DEF Queue!DiscardOne
<1>1. /\ queue # <<>> /\ queue' = Tail(queue) /\ Len(queue) \in Nat \ {0}
      /\ queue' \in Seq(Tasks \cup {EndMark}) /\ Len(queue') = Len(queue) - 1
      /\ \A i \in 1..Len(queue') : queue'[i] = queue[i + 1]
      /\ Head(queue) = queue[1] /\ queue[1] \in Tasks \cup {EndMark}
  BY DEF QueueTypes
<1>2. CASE queue[1] = EndMark
  <2>1. fate' = fate /\ dropped' = dropped /\ queue[1] \notin Tasks
    BY <1>1, <1>2 DEF Queue!Counted, Books, NotRun, QueueTypes
  <2>2. NotRun' = NotRun
    BY <2>1 DEF NotRun
  <2>3. Accepted'
    <3> SUFFICES ASSUME NEW u \in Tasks
                 PROVE  /\ fate[u] = "accepted" <=>
                             (u = task \/ \E i \in 1..Len(queue') : queue'[i] = u)
                        /\ \A i \in 1..Len(queue') : queue'[i] # task \/ task \notin Tasks
      BY <2>1 DEF Accepted
    <3>1. \A i \in 1..Len(queue) : queue[i] = u => i - 1 \in 1..Len(queue')
      BY <1>1, <1>2
    <3>2. \A i \in 1..Len(queue') : i + 1 \in 1..Len(queue)
      BY <1>1
    <3>3. (\E i \in 1..Len(queue') : queue'[i] = u)
             <=> (\E i \in 1..Len(queue) : queue[i] = u)
      BY <1>1, <3>1, <3>2
    <3> QED
      BY <1>1, <3>2, <3>3 DEF Books, Accepted
  <2> QED
    BY <1>1, <2>1, <2>2, <2>3 DEF Books, QueuedOnce, InHand, QueueTypes
<1>3. CASE queue[1] # EndMark
  <2> DEFINE t == queue[1]
  <2>1. t \in Tasks /\ fate' = [fate EXCEPT ![t] = "discarded"] /\ dropped' = dropped + 1
    BY <1>1, <1>3 DEF Queue!Counted, Queue!Becomes
  <2>2. fate[t] = "accepted" /\ t # task
    BY <1>1, <2>1 DEF Books, Accepted
  <2>3. NotRun' = NotRun \cup {t} /\ t \notin NotRun
    BY <2>1, <2>2 DEF NotRun, QueueTypes
  <2>4. dropped' = Cardinality(NotRun')
    BY <2>1, <2>3, OneMore DEF Books
  <2>5. \A i \in 1..Len(queue') : queue'[i] # t
    BY <1>1, <2>1 DEF Books, QueuedOnce
  <2>6. Accepted'
    <3> SUFFICES ASSUME NEW u \in Tasks
                 PROVE  /\ fate'[u] = "accepted" <=>
                             (u = task \/ \E i \in 1..Len(queue') : queue'[i] = u)
                        /\ \A i \in 1..Len(queue') : queue'[i] # task \/ task \notin Tasks
      BY DEF Accepted
    <3>1. \A i \in 1..Len(queue) : queue[i] = u /\ u # t => i - 1 \in 1..Len(queue')
      BY <1>1
    <3>2. \A i \in 1..Len(queue') : i + 1 \in 1..Len(queue)
      BY <1>1
    <3>3. fate'[u] = IF u = t THEN "discarded" ELSE fate[u]
      BY <2>1 DEF QueueTypes
    <3> QED
      BY <1>1, <2>2, <2>5, <3>1, <3>2, <3>3 DEF Books, Accepted
  <2>7. QueuedOnce' /\ InHand'
    BY <1>1 DEF Books, QueuedOnce, InHand
  <2> QED
    BY <1>1, <2>1, <2>4, <2>6, <2>7 DEF Books, QueueTypes
<1> QED
  BY <1>1, <1>2, <1>3

\* The books come through a step that touches neither queue nor tasks.
LEMMA BooksUntouched ==
  ASSUME Books, UNCHANGED <<queue, task, fate, dropped>>, InHand'
  PROVE  Books'
  BY DEF Books, QueuedOnce, Accepted, NotRun

\* submit: the task is queued, or counted as dropped.
LEMMA SubmitKeeps ==
  ASSUME NEW cleans \in BOOLEAN, QueueInv(cleans), NEW t \in Tasks, Queue(cleans)!Submit(t)
  PROVE  QueueInv(cleans)'
<1> USE QueueConstants DEF Queue!Submit
<1>1. QueueTypes /\ Books /\ Closing(cleans)
  BY DEF QueueInv
<1>2. t # task /\ \A i \in 1..Len(queue) : queue[i] # t
  BY <1>1 DEF Books, Accepted
<1>3. /\ UNCHANGED <<lock, closing, closed, worker, task, closer, calls>>
      /\ fate[t] = "new" /\ t \notin NotRun
  BY DEF NotRun
<1>4. CASE /\ ~Queue(cleans)!Refuses /\ Queue(cleans)!HasRoom
           /\ queue' = Append(queue, t) /\ UNCHANGED dropped
           /\ fate' = [fate EXCEPT ![t] = "accepted"]
  <2>1. /\ queue' \in Seq(Tasks \cup {EndMark}) /\ Len(queue') = Len(queue) + 1
        /\ Len(queue) \in Nat /\ Len(queue') <= MaxSize
        /\ \A i \in 1..Len(queue) : queue'[i] = queue[i]
        /\ queue'[Len(queue) + 1] = t
        /\ ~closing
    BY <1>1, <1>4 DEF QueueTypes, Queue!HasRoom, Queue!Refuses
  <2>2. QueueTypes'
    BY <1>1, <1>3, <1>4, <2>1 DEF QueueTypes
  <2>3. NotRun' = NotRun
    BY <1>1, <1>3, <1>4 DEF NotRun, QueueTypes
  <2>4. QueuedOnce'
    BY <1>1, <1>2, <2>1 DEF Books, QueuedOnce
  <2>5. Accepted'
    <3> SUFFICES ASSUME NEW u \in Tasks
                 PROVE  /\ fate'[u] = "accepted" <=>
                             (u = task \/ \E i \in 1..Len(queue') : queue'[i] = u)
                        /\ \A i \in 1..Len(queue') : queue'[i] # task \/ task \notin Tasks
      BY <1>3 DEF Accepted
    <3>1. (\E i \in 1..Len(queue') : queue'[i] = u) <=>
             (u = t \/ \E i \in 1..Len(queue) : queue[i] = u)
      BY <2>1
    <3>2. fate'[u] = "accepted" <=> u = t \/ fate[u] = "accepted"
      BY <1>1, <1>4 DEF QueueTypes
    <3>3. \A i \in 1..Len(queue') : i \in 1..Len(queue) \/ queue'[i] = t
      BY <2>1
    <3> QED
      BY <1>1, <1>2, <2>1, <3>1, <3>2, <3>3 DEF Books, Accepted
  <2>6. InHand' /\ dropped' = Cardinality(NotRun')
    BY <1>1, <1>3, <1>4, <2>3 DEF Books, InHand
  <2>7. ~cleans \/ worker \notin {"exiting", "dead"}
    BY <1>1, <2>1 DEF Closing
  <2>8. Closing(cleans)'
    <3>1. \A i \in 1..Len(queue') : queue'[i] # EndMark
      BY <1>1, <2>1 DEF Closing
    <3> QED
      BY <1>1, <1>3, <2>1, <2>7, <3>1 DEF Closing
  <2> QED
    BY <2>2, <2>4, <2>5, <2>6, <2>8 DEF QueueInv, Books
<1>5. CASE dropped' = dropped + 1 /\ UNCHANGED queue
           /\ fate' = [fate EXCEPT ![t] = "refused"]
  <2>1. NotRun' = NotRun \cup {t}
    BY <1>1, <1>3, <1>5 DEF NotRun, QueueTypes
  <2>2. dropped' = Cardinality(NotRun')
    BY <1>1, <1>3, <1>5, <2>1, OneMore DEF Books
  <2>3. QueueTypes'
    BY <1>1, <1>3, <1>5 DEF QueueTypes
  <2>4. QueuedOnce' /\ InHand' /\ Accepted'
    BY <1>1, <1>2, <1>3, <1>5 DEF Books, QueuedOnce, InHand, Accepted, QueueTypes
  <2>5. Closing(cleans)'
    BY <1>1, <1>3, <1>5 DEF Closing
  <2> QED
    BY <2>2, <2>3, <2>4, <2>5 DEF QueueInv, Books
<1> QED
  BY <1>4, <1>5 DEF Queue!Becomes

\* close: its discarding, and the marker it leaves for the worker.
LEMMA CloseKeeps ==
  ASSUME NEW cleans \in BOOLEAN, QueueInv(cleans), NEW c \in Closers, Queue(cleans)!Close(c)
  PROVE  QueueInv(cleans)'
<1> USE QueueConstants DEF Queue!Goto
<1>1. QueueTypes /\ Books /\ Closing(cleans)
  BY DEF QueueInv
<1>2. CASE Queue(cleans)!CallClose(c)
  <2> USE <1>2 DEF Queue!CallClose
  <2>1. QueueTypes'
    <3>1. calls' \in [Closers -> 0..MaxCloses]
      BY <1>1 DEF QueueTypes
    <3>2. closer' \in [Closers -> {"idle", "discard", "join"}]
      BY <1>1 DEF QueueTypes
    <3>3. lock' \in Closers \cup {EndMark, Nobody} /\ closing' \in BOOLEAN
      BY <1>1 DEF QueueTypes
    <3> QED
      BY <1>1, <3>1, <3>2, <3>3 DEF QueueTypes
  <2>2. Books'
    BY <1>1, BooksUntouched DEF Books, InHand
  <2>3. Closing(cleans)'
    BY <1>1 DEF Closing, QueueTypes
  <2> QED
    BY <2>1, <2>2, <2>3 DEF QueueInv
<1>3. CASE Queue(cleans)!Discard(c)
  <2> USE <1>3 DEF Queue!Discard
  <2>1. /\ Books' /\ queue' \in Seq(Tasks \cup {EndMark}) /\ Len(queue') = Len(queue) - 1
        /\ fate' \in [Tasks -> {"new", "accepted", "refused", "discarded", "done",
                                "interrupted"}]
        /\ \A i \in 1..Len(queue') : queue'[i] = queue[i + 1]
    BY <1>1, DiscardKeeps
  <2>2. dropped' \in Nat
    BY <1>1 DEF Queue!DiscardOne, Queue!Counted, QueueTypes
  <2>3. QueueTypes'
    BY <1>1, <2>1, <2>2 DEF QueueTypes
  <2>5. \A i \in 1..Len(queue) : queue[i] # EndMark
    BY <1>1 DEF Closing
  <2>6. \A i \in 1..Len(queue') : queue'[i] # EndMark
    BY <1>1, <2>1, <2>5 DEF QueueTypes
  <2>7. Closing(cleans)'
    BY <1>1, <2>6 DEF Closing, QueueTypes
  <2> QED
    BY <2>1, <2>3, <2>7 DEF QueueInv
<1>4. CASE Queue(cleans)!TellWorker(c)
  <2> USE <1>4 DEF Queue!TellWorker, Queue!Marker, Queue!Alive
  <2>1. lock = c /\ closing
    BY <1>1 DEF Closing
  <2>2. CASE /\ queue' = <<EndMark>> /\ worker # "dead"
             /\ closer' = [closer EXCEPT ![c] = "join"]
             /\ closed' = closed
    <3>1. /\ queue' \in Seq(Tasks \cup {EndMark}) /\ Len(queue') = 1
          /\ queue'[1] = EndMark /\ \A i \in 1..Len(queue') : queue'[i] = EndMark
      BY <2>2
    <3>2. QueueTypes'
      BY <1>1, <2>2, <3>1 DEF QueueTypes
    <3>3. Books'
      <4>1. NotRun' = NotRun
        BY DEF NotRun
      <4>2. Accepted'
        BY <1>1, <3>1 DEF Books, Accepted
      <4> QED
        BY <1>1, <3>1, <4>1, <4>2 DEF Books, QueuedOnce, InHand
    <3>4. worker \notin {"exiting", "dead"} \/ ~cleans
      BY <1>1, <2>1 DEF Closing
    <3>5. Closing(cleans)'
      BY <1>1, <2>1, <2>2, <3>1, <3>4 DEF Closing, QueueTypes
    <3> QED
      BY <3>2, <3>3, <3>5 DEF QueueInv
  <2>3. CASE UNCHANGED queue /\ worker = "dead" /\ closer' = [closer EXCEPT ![c] = "idle"]
             /\ closed' = TRUE
    <3>1. QueueTypes'
      BY <1>1, <2>3 DEF QueueTypes
    <3>2. Books'
      BY <1>1, <2>3, BooksUntouched DEF Books, InHand
    <3>3. Closing(cleans)'
      BY <1>1, <2>1, <2>3 DEF Closing, QueueTypes
    <3> QED
      BY <3>1, <3>2, <3>3 DEF QueueInv
  <2> QED
    BY <2>2, <2>3
<1>5. CASE Queue(cleans)!Joined(c) \/ Queue(cleans)!JoinTimesOut(c)
  <2> USE <1>5 DEF Queue!Joined, Queue!JoinTimesOut, Queue!WorkerGone, Queue!Alive
  <2>1. QueueTypes'
    BY <1>1 DEF QueueTypes
  <2>2. Books'
    BY <1>1, BooksUntouched DEF Books, InHand
  <2>3. Closing(cleans)'
    BY <1>1 DEF Closing, QueueTypes
  <2> QED
    BY <2>1, <2>2, <2>3 DEF QueueInv
<1> QED
  BY <1>2, <1>3, <1>4, <1>5 DEF Queue!Close

\* _run: what the worker does.
LEMMA WorkerKeeps ==
  ASSUME NEW cleans \in BOOLEAN, QueueInv(cleans), Queue(cleans)!Run
  PROVE  QueueInv(cleans)'
<1> USE QueueConstants
<1>1. QueueTypes /\ Books /\ Closing(cleans)
  BY DEF QueueInv
<1>2. CASE Queue(cleans)!Get
  <2> USE <1>2 DEF Queue!Get, Queue!Rest
  <2>1. /\ queue # <<>> /\ queue' = Tail(queue) /\ Len(queue) \in Nat \ {0}
        /\ queue' \in Seq(Tasks \cup {EndMark}) /\ Len(queue') = Len(queue) - 1
        /\ \A i \in 1..Len(queue') : queue'[i] = queue[i + 1] /\ i + 1 \in 1..Len(queue)
        /\ task' = queue[1] /\ queue[1] \in Tasks \cup {EndMark}
    BY <1>1 DEF QueueTypes
  <2>2. QueueTypes'
    BY <1>1, <2>1 DEF QueueTypes
  <2>3. NotRun' = NotRun
    BY DEF NotRun
  <2>4. task \notin Tasks /\ InHand'
    BY <1>1, <2>1 DEF Books, InHand
  <2>5. QueuedOnce'
    BY <1>1, <2>1 DEF Books, QueuedOnce
  <2>6. Accepted'
    <3> SUFFICES ASSUME NEW u \in Tasks
                 PROVE  /\ fate[u] = "accepted" <=>
                             (u = task' \/ \E i \in 1..Len(queue') : queue'[i] = u)
                        /\ \A i \in 1..Len(queue') : queue'[i] # task' \/ task' \notin Tasks
      BY DEF Accepted
    <3>1. \A i \in 1..Len(queue) : i = 1 \/ i - 1 \in 1..Len(queue')
      BY <2>1
    <3>2. (\E i \in 1..Len(queue) : queue[i] = u) <=>
             (u = queue[1] \/ \E i \in 1..Len(queue') : queue'[i] = u)
      BY <2>1, <3>1
    <3>3. \A i \in 1..Len(queue') : queue'[i] # queue[1] \/ queue[1] \notin Tasks
      BY <1>1, <2>1 DEF Books, QueuedOnce
    <3> QED
      BY <1>1, <2>1, <2>4, <3>2, <3>3 DEF Books, Accepted
  <2>7. Closing(cleans)'
    <3>1. CASE queue[1] = EndMark
      <4>1. closing /\ queue' = <<>> /\ Len(queue') = 0
        BY <1>1, <2>1, <3>1 DEF Closing
      <4>2. lock = Nobody
        BY <1>1, <2>1, <3>1 DEF Closing, QueueTypes
      <4> QED
        BY <1>1, <2>1, <4>1, <4>2 DEF Closing
    <3>2. CASE queue[1] # EndMark
      <4>1. \A i \in 1..Len(queue) : queue[i] # EndMark
        BY <1>1, <2>1, <3>2 DEF Closing
      <4>2. Head(queue) # EndMark /\ worker' = "run"
        BY <2>1, <3>2 DEF QueueTypes
      <4> QED
        BY <1>1, <2>1, <4>1, <4>2 DEF Closing
    <3> QED
      BY <3>1, <3>2
  <2> QED
    BY <1>1, <2>2, <2>3, <2>4, <2>5, <2>6, <2>7 DEF QueueInv, Books
<1>3. CASE Queue(cleans)!RunTask
  <2> USE <1>3 DEF Queue!RunTask, Queue!Becomes
  <2>1. task \in Tasks /\ fate[task] = "accepted"
    BY <1>1 DEF Books, InHand, Accepted
  <2>2. /\ task' = Nobody /\ UNCHANGED <<queue, lock, closing, closed, dropped>>
        /\ UNCHANGED <<closer, calls>>
        /\ \/ fate' = [fate EXCEPT ![task] = "done"] /\ worker' = "get"
           \/ /\ fate' = [fate EXCEPT ![task] = "interrupted"]
              /\ worker' = IF cleans THEN "clean" ELSE "exiting"
    OBVIOUS
  <2>3. QueueTypes'
    BY <1>1, <2>1, <2>2 DEF QueueTypes
  <2>4. NotRun' = NotRun
    BY <1>1, <2>1, <2>2 DEF NotRun, QueueTypes
  <2>5. Accepted'
    BY <1>1, <2>1, <2>2 DEF Books, Accepted, QueueTypes
  <2>6. InHand' /\ QueuedOnce'
    BY <1>1, <2>2 DEF Books, InHand, QueuedOnce
  <2>7. Closing(cleans)'
    BY <1>1, <2>2 DEF Closing
  <2> QED
    BY <1>1, <2>2, <2>3, <2>4, <2>5, <2>6, <2>7 DEF QueueInv, Books
<1>4. CASE Queue(cleans)!BeginClean
  <2> USE <1>4 DEF Queue!BeginClean
  <2>1. QueueTypes'
    BY <1>1 DEF QueueTypes
  <2>2. Books'
    BY <1>1, BooksUntouched DEF Books, InHand
  <2>3. Closing(cleans)'
    BY <1>1 DEF Closing, QueueTypes
  <2> QED
    BY <2>1, <2>2, <2>3 DEF QueueInv
<1>5. CASE Queue(cleans)!Clean
  <2> USE <1>5 DEF Queue!Clean
  <2>1. CASE Queue(cleans)!DiscardOne /\ UNCHANGED <<lock, worker>>
    <3>1. /\ Books' /\ queue' \in Seq(Tasks \cup {EndMark}) /\ Len(queue') = Len(queue) - 1
          /\ fate' \in [Tasks -> {"new", "accepted", "refused", "discarded", "done",
                                  "interrupted"}]
          /\ \A i \in 1..Len(queue') : queue'[i] = queue[i + 1]
      BY <1>1, <2>1, DiscardKeeps
    <3>2. dropped' \in Nat
      BY <1>1, <2>1 DEF Queue!DiscardOne, Queue!Counted, QueueTypes
    <3>3. QueueTypes'
      BY <1>1, <2>1, <3>1, <3>2 DEF QueueTypes
    <3>4. \A i \in 1..Len(queue') : queue'[i] # EndMark
      <4>1. Len(queue) \in Nat /\ \A i \in 1..Len(queue') : i + 1 \in 1..Len(queue)
        BY <1>1, <3>1 DEF QueueTypes
      <4> QED
        BY <1>1, <3>1, <4>1 DEF Closing
    <3>5. Closing(cleans)'
      BY <1>1, <2>1, <3>4 DEF Closing
    <3> QED
      BY <3>1, <3>3, <3>5 DEF QueueInv
  <2>2. CASE queue = <<>> /\ lock' = Nobody /\ worker' = "exiting"
             /\ UNCHANGED <<queue, dropped, fate>>
    <3>1. QueueTypes'
      BY <1>1, <2>2 DEF QueueTypes
    <3>2. Books'
      BY <1>1, <2>2, BooksUntouched DEF Books, InHand
    <3>3. Closing(cleans)'
      BY <1>1, <2>2 DEF Closing
    <3> QED
      BY <3>1, <3>2, <3>3 DEF QueueInv
  <2> QED
    BY <2>1, <2>2
<1>6. CASE Queue(cleans)!Exit
  <2> USE <1>6 DEF Queue!Exit
  <2>1. QueueTypes'
    BY <1>1 DEF QueueTypes
  <2>2. Books'
    BY <1>1, BooksUntouched DEF Books, InHand
  <2>3. Closing(cleans)'
    BY <1>1 DEF Closing
  <2> QED
    BY <2>1, <2>2, <2>3 DEF QueueInv
<1> QED
  BY <1>2, <1>3, <1>4, <1>5, <1>6 DEF Queue!Run

\* Every step of a queue keeps the invariant.
LEMMA QueueStep ==
  ASSUME NEW cleans \in BOOLEAN, QueueInv(cleans), Queue(cleans)!Next
  PROVE  QueueInv(cleans)'
  BY SubmitKeeps, CloseKeeps, WorkerKeeps DEF Queue!Next

\* The queue of shadow comparisons is that queue with Cleans TRUE.
LEMMA ShadowIsQueue ==
  /\ ShadowComparisons!Init => Queue(TRUE)!Init
  /\ ShadowComparisons!Next => Queue(TRUE)!Next
  /\ Queue(TRUE)!QueueSound => ShadowComparisons!QueueSound
<1>1. ShadowComparisons!Init => Queue(TRUE)!Init
  BY DEF ShadowComparisons!Init, Queue!Init
<1>2. ShadowComparisons!Next => Queue(TRUE)!Next
  BY DEF ShadowComparisons!Next, ShadowComparisons!Run, ShadowComparisons!Submit,
     ShadowComparisons!Close, ShadowComparisons!Get, ShadowComparisons!RunTask,
     ShadowComparisons!BeginClean, ShadowComparisons!Clean, ShadowComparisons!Exit,
     ShadowComparisons!CallClose, ShadowComparisons!Discard,
     ShadowComparisons!TellWorker, ShadowComparisons!Joined,
     ShadowComparisons!JoinTimesOut, ShadowComparisons!Refuses,
     ShadowComparisons!HasRoom, ShadowComparisons!Becomes, ShadowComparisons!Alive,
     ShadowComparisons!Goto, ShadowComparisons!DiscardOne,
     ShadowComparisons!Counted, ShadowComparisons!Marker,
     ShadowComparisons!WorkerGone, ShadowComparisons!Rest, Queue!Next, Queue!Run,
     Queue!Submit, Queue!Close, Queue!Get, Queue!RunTask, Queue!BeginClean,
     Queue!Clean, Queue!Exit, Queue!CallClose, Queue!Discard, Queue!TellWorker,
     Queue!Joined, Queue!JoinTimesOut, Queue!Refuses, Queue!HasRoom, Queue!Becomes,
     Queue!Alive, Queue!Goto, Queue!DiscardOne, Queue!Counted, Queue!Marker,
     Queue!WorkerGone, Queue!Rest
<1>3. Queue(TRUE)!QueueSound => ShadowComparisons!QueueSound
  BY DEF ShadowComparisons!QueueSound, ShadowComparisons!TypeOK,
     ShadowComparisons!DroppedExact, ShadowComparisons!ClosedIsQuiet,
     ShadowComparisons!Count, ShadowComparisons!Elements,
     ShadowComparisons!Threads, ShadowComparisons!Alive,
     ShadowComparisons!Cardinality, Queue!QueueSound, Queue!TypeOK,
     Queue!DroppedExact, Queue!ClosedIsQuiet, Queue!Count, Queue!Elements,
     Queue!Threads, Queue!Alive, Queue!Cardinality, Cardinality
<1> QED
  BY <1>1, <1>2, <1>3

\* The queue of failure logs is that queue with Cleans FALSE.
LEMMA LogIsQueue ==
  /\ FailureLogs!Init => Queue(FALSE)!Init
  /\ FailureLogs!Next => Queue(FALSE)!Next
  /\ Queue(FALSE)!QueueSound => FailureLogs!QueueSound
<1>1. FailureLogs!Init => Queue(FALSE)!Init
  BY DEF FailureLogs!Init, Queue!Init
<1>2. FailureLogs!Next => Queue(FALSE)!Next
  BY DEF FailureLogs!Next, FailureLogs!Run, FailureLogs!Submit, FailureLogs!Close,
     FailureLogs!Get, FailureLogs!RunTask, FailureLogs!BeginClean,
     FailureLogs!Clean, FailureLogs!Exit, FailureLogs!CallClose,
     FailureLogs!Discard, FailureLogs!TellWorker, FailureLogs!Joined,
     FailureLogs!JoinTimesOut, FailureLogs!Refuses, FailureLogs!HasRoom,
     FailureLogs!Becomes, FailureLogs!Alive, FailureLogs!Goto,
     FailureLogs!DiscardOne, FailureLogs!Counted, FailureLogs!Marker,
     FailureLogs!WorkerGone, FailureLogs!Rest, Queue!Next, Queue!Run, Queue!Submit,
     Queue!Close, Queue!Get, Queue!RunTask, Queue!BeginClean, Queue!Clean,
     Queue!Exit, Queue!CallClose, Queue!Discard, Queue!TellWorker, Queue!Joined,
     Queue!JoinTimesOut, Queue!Refuses, Queue!HasRoom, Queue!Becomes, Queue!Alive,
     Queue!Goto, Queue!DiscardOne, Queue!Counted, Queue!Marker, Queue!WorkerGone,
     Queue!Rest
<1>3. Queue(FALSE)!QueueSound => FailureLogs!QueueSound
  BY DEF FailureLogs!QueueSound, FailureLogs!TypeOK, FailureLogs!DroppedExact,
     FailureLogs!ClosedIsQuiet, FailureLogs!Count, FailureLogs!Elements,
     FailureLogs!Threads, FailureLogs!Alive, FailureLogs!Cardinality,
     Queue!QueueSound, Queue!TypeOK, Queue!DroppedExact, Queue!ClosedIsQuiet,
     Queue!Count, Queue!Elements, Queue!Threads, Queue!Alive, Queue!Cardinality, Cardinality
<1> QED
  BY <1>1, <1>2, <1>3

\* Either queue, in its part of the services.
RouterQueue == QueueInv(part # "log")

\* Every step of the serving processes keeps the invariant of the queue that runs.
LEMMA RouterQueueStep ==
  ASSUME RouterQueue,
         [ServicesNext]_<<part, vars, queues, inference, application, readiness>>
  PROVE  RouterQueue'
<1>1. part' = part
  BY DEF ServicesNext
<1>2. CASE UNCHANGED queues
  BY <1>1, <1>2 DEF queues, RouterQueue, QueueInv, QueueTypes, Books, QueuedOnce,
     InHand, Accepted, NotRun, Closing
<1>3. CASE part = "shadow" /\ ShadowComparisons!Next
  <2>1. Queue(TRUE)!Next /\ QueueInv(TRUE)
    BY <1>3, ShadowIsQueue DEF RouterQueue
  <2>2. QueueInv(TRUE)'
    BY <2>1, QueueStep
  <2> QED
    BY <1>1, <1>3, <2>2 DEF RouterQueue
<1>4. CASE part = "log" /\ FailureLogs!Next
  <2>1. Queue(FALSE)!Next /\ QueueInv(FALSE)
    BY <1>4, LogIsQueue DEF RouterQueue
  <2>2. QueueInv(FALSE)'
    BY <2>1, QueueStep
  <2> QED
    BY <1>1, <1>4, <2>2 DEF RouterQueue
<1> QED
  BY <1>2, <1>3, <1>4 DEF ServicesNext

\* No task of the router's two queues disappears, the dropped counter shows
\* exactly those that were not run, the stop marker of close() always has room,
\* and a closed queue stays quiet: for any number of tasks and closers, whether
\* the worker is interrupted, never started or outlives the wait of close().
THEOREM QueuesAreSound == ServicesSpec => []QueuesSound
<1>1. ServicesInit => RouterQueue
  <2> SUFFICES ASSUME ServicesInit PROVE RouterQueue
    OBVIOUS
  <2>1. CASE part = "log"
    <3>1. Queue(FALSE)!Init
      BY <2>1, LogIsQueue DEF ServicesInit
    <3> QED
      BY <2>1, <3>1, QueueInit DEF RouterQueue
  <2>2. CASE part # "log"
    <3>1. Queue(TRUE)!Init
      BY <2>2, ShadowIsQueue DEF ServicesInit
    <3> QED
      BY <2>2, <3>1, QueueInit DEF RouterQueue
  <2> QED
    BY <2>1, <2>2
<1>2. RouterQueue => QueuesSound
  <2> SUFFICES ASSUME RouterQueue PROVE QueuesSound
    OBVIOUS
  <2>1. CASE part = "log"
    <3>1. Queue(FALSE)!QueueSound
      BY <2>1, QueueInvSuffices DEF RouterQueue
    <3> QED
      BY <2>1, <3>1, LogIsQueue DEF QueuesSound
  <2>2. CASE part # "log"
    <3>1. Queue(TRUE)!QueueSound
      BY <2>2, QueueInvSuffices DEF RouterQueue
    <3> QED
      BY <2>2, <3>1, ShadowIsQueue DEF QueuesSound
  <2> QED
    BY <2>1, <2>2
<1> QED
  BY RouterQueueStep, <1>1, <1>2, PTL DEF ServicesSpec

-----------------------------------------------------------------------------
(* The application's lifespan and its lazy gateway.                        *)
(*                                                                         *)
(* A query keeps its connected clients because the pair is replaced only   *)
(* by the one thread that builds, while there is none, and given up only   *)
(* when nobody builds or queries (Clients).  Nothing is connected at the   *)
(* end because requests are served only after everything is owned: then    *)
(* the gateway is still owned, or was closed for good (GatewayClosed).     *)

\* The types; tuples for what is connected.
AppTypes ==
    /\ stage \in {"starting", "serving", "closing", "stopped"}
    /\ shut \in BOOLEAN /\ initializing \in BOOLEAN
    /\ users \subseteq Queriers /\ pair \in Queriers \cup {None}
    /\ open \subseteq Queriers \X {"ingest", "query"}
    /\ at \in [Queriers -> Application!Steps]
    /\ using \in [Queriers -> Queriers \cup {None}]

\* What is owned, and what was closed of it, last first.
All == <<Database, Gateway, Repository>>
OwnedAndClosed ==
    \/ owned = <<>> /\ closedOnce \in
          {<<>>, <<Database>>, <<Gateway, Database>>, <<Repository, Gateway, Database>>}
    \/ owned = <<Database>> /\ closedOnce \in {<<>>, <<Gateway>>, <<Repository, Gateway>>}
    \/ owned = <<Database, Gateway>> /\ closedOnce \in {<<>>, <<Repository>>}
    \/ owned = All /\ closedOnce = <<>>
GatewayOwned == owned = <<Database, Gateway>> \/ owned = All
\* What the three phases of the lifespan say of the gateway.
NobodyAsked == \A t \in Queriers : at[t] = "new"
GatewayClosed == shut /\ pair = None /\ ~initializing /\ users = {}
Lifespan ==
    /\ OwnedAndClosed
    /\ stage = "starting" => owned # All /\ closedOnce = <<>> /\ NobodyAsked
    /\ stage = "serving" => owned = All
    /\ stage = "stopped" => owned = <<>>
    /\ NobodyAsked \/ GatewayOwned \/ GatewayClosed

\* One thread builds, while there are no clients; who queries uses the pair.
Builds(t) == at[t] \in {"ingest", "second", "preflight", "publish"}
Clients ==
    /\ \A t \in Queriers :
         /\ at[t] = "query" <=> t \in users
         /\ t \in users => using[t] = pair /\ pair # None
         /\ Builds(t) => initializing
         /\ at[t] \in {"second", "preflight", "publish"} => <<t, "ingest">> \in open
         /\ at[t] \in {"preflight", "publish"} => <<t, "query">> \in open
    /\ \A s, t \in Queriers : Builds(s) /\ Builds(t) => s = t
    /\ initializing => pair = None /\ \E t \in Queriers : Builds(t)
    /\ pair # None => /\ <<pair, "ingest">> \in open /\ <<pair, "query">> \in open
                      /\ at[pair] # "new"
    /\ \A c \in open : c[1] = pair \/ Builds(c[1])

\* The inductive invariant of the lifespan and its gateway.
AppInv == AppTypes /\ Lifespan /\ Clients

\* Short tuples are sequences.
LEMMA ShortTuples ==
  ASSUME NEW S, NEW x \in S, NEW y \in S, NEW z \in S
  PROVE  /\ <<>> \in Seq(S) /\ <<x>> \in Seq(S)
         /\ <<x, y>> \in Seq(S) /\ <<x, y, z>> \in Seq(S)
  OBVIOUS

\* The length and the last element of a short tuple.
LEMMA TupleLengths ==
  ASSUME NEW x, NEW y, NEW z
  PROVE  /\ Len(<<>>) = 0 /\ Len(<<x>>) = 1 /\ Len(<<x, y>>) = 2 /\ Len(<<x, y, z>>) = 3
         /\ <<x>>[1] = x /\ <<x, y>>[2] = y /\ <<x, y, z>>[3] = z
  OBVIOUS

\* Appending to a short tuple.
LEMMA TupleAppends ==
  ASSUME NEW S, NEW x \in S, NEW y \in S, NEW z \in S
  PROVE  /\ Append(<<>>, x) = <<x>> /\ Append(<<x>>, y) = <<x, y>>
         /\ Append(<<x, y>>, z) = <<x, y, z>>
<1>1. /\ <<>> \in Seq(S) /\ <<x>> \in Seq(S)
      /\ <<x, y>> \in Seq(S) /\ <<x, y, z>> \in Seq(S)
  BY ShortTuples
<1>2. Append(<<>>, x) = <<x>>
  <2>1. /\ Append(<<>>, x) \in Seq(S) /\ Len(Append(<<>>, x)) = 1
        /\ Append(<<>>, x)[1] = x
    BY <1>1, AppendProperties
  <2> QED
    BY <1>1, <2>1, SeqEqual
<1>3. Append(<<x>>, y) = <<x, y>>
  <2>1. /\ Append(<<x>>, y) \in Seq(S) /\ Len(Append(<<x>>, y)) = 2
        /\ Append(<<x>>, y)[1] = x /\ Append(<<x>>, y)[2] = y
    BY <1>1, AppendProperties
  <2>2. \A i \in 1..2 : Append(<<x>>, y)[i] = <<x, y>>[i]
    BY <2>1
  <2>3. Len(<<x, y>>) = 2
    OBVIOUS
  <2> QED
    BY <1>1, <2>1, <2>2, <2>3, SeqEqual
<1>4. Append(<<x, y>>, z) = <<x, y, z>>
  <2>1. /\ Append(<<x, y>>, z) \in Seq(S) /\ Len(Append(<<x, y>>, z)) = 3
        /\ Append(<<x, y>>, z)[1] = x /\ Append(<<x, y>>, z)[2] = y
        /\ Append(<<x, y>>, z)[3] = z
    BY <1>1, AppendProperties
  <2>2. \A i \in 1..3 : Append(<<x, y>>, z)[i] = <<x, y, z>>[i]
    BY <2>1
  <2>3. Len(<<x, y, z>>) = 3
    OBVIOUS
  <2> QED
    BY <1>1, <2>1, <2>2, <2>3, SeqEqual
<1> QED
  BY <1>2, <1>3, <1>4

\* Dropping the last element of a short tuple.
LEMMA TuplePrefixes ==
  ASSUME NEW S, NEW x \in S, NEW y \in S, NEW z \in S
  PROVE  /\ SubSeq(<<x>>, 1, 0) = <<>> /\ SubSeq(<<x, y>>, 1, 1) = <<x>>
         /\ SubSeq(<<x, y, z>>, 1, 2) = <<x, y>>
<1>1. <<x>> \in Seq(S) /\ <<x, y>> \in Seq(S)
  BY ShortTuples
<1>2. SubSeq(<<x>>, 1, 0) = <<>>
  BY SubSeqEmpty
<1>3. SubSeq(<<x, y>>, 1, 1) = <<x>>
  <2>1. \A i \in 1..1 : <<x, y>>[i] \in S
    OBVIOUS
  <2>2. /\ SubSeq(<<x, y>>, 1, 1) \in Seq(S) /\ Len(SubSeq(<<x, y>>, 1, 1)) = 1
        /\ \A i \in 1..1 : SubSeq(<<x, y>>, 1, 1)[i] = <<x, y>>[1 + i - 1]
    BY <2>1, SubSeqProperties
  <2>3. SubSeq(<<x, y>>, 1, 1)[1] = x
    BY <2>2
  <2>4. \A i \in 1..1 : SubSeq(<<x, y>>, 1, 1)[i] = <<x>>[i]
    BY <2>2, <2>3
  <2>5. Len(<<x>>) = 1
    OBVIOUS
  <2> QED
    BY <1>1, <2>2, <2>3, <2>4, <2>5, SeqEqual
<1>4. SubSeq(<<x, y, z>>, 1, 2) = <<x, y>>
  <2>1. \A i \in 1..2 : <<x, y, z>>[i] \in S
    OBVIOUS
  <2>2. /\ SubSeq(<<x, y, z>>, 1, 2) \in Seq(S) /\ Len(SubSeq(<<x, y, z>>, 1, 2)) = 2
        /\ \A i \in 1..2 : SubSeq(<<x, y, z>>, 1, 2)[i] = <<x, y, z>>[1 + i - 1]
    BY <2>1, SubSeqProperties
  <2>3. SubSeq(<<x, y, z>>, 1, 2)[1] = x /\ SubSeq(<<x, y, z>>, 1, 2)[2] = y
    BY <2>2
  <2>4. \A i \in 1..2 : SubSeq(<<x, y, z>>, 1, 2)[i] = <<x, y>>[i]
    BY <2>2, <2>3
  <2>5. Len(<<x, y>>) = 2
    OBVIOUS
  <2> QED
    BY <1>1, <2>2, <2>3, <2>4, <2>5, SeqEqual
<1> QED
  BY <1>2, <1>3, <1>4

\* What closing appends to the list of the closed, and what it leaves of the owned.
LEMMA ClosingLists ==
  /\ Append(<<>>, Database) = <<Database>>
  /\ Append(<<Gateway>>, Database) = <<Gateway, Database>>
  /\ Append(<<Repository, Gateway>>, Database) = <<Repository, Gateway, Database>>
  /\ Append(<<>>, Gateway) = <<Gateway>>
  /\ Append(<<Repository>>, Gateway) = <<Repository, Gateway>>
  /\ Append(<<>>, Repository) = <<Repository>>
  /\ SubSeq(<<Database>>, 1, 0) = <<>>
  /\ SubSeq(<<Database, Gateway>>, 1, 1) = <<Database>>
  /\ SubSeq(<<Database, Gateway, Repository>>, 1, 2) = <<Database, Gateway>>
<1> DEFINE S == {Database, Gateway, Repository}
<1>1. Database \in S /\ Gateway \in S /\ Repository \in S
  OBVIOUS
<1> HIDE DEF S
<1>2. /\ Append(<<>>, Database) = <<Database>>
      /\ Append(<<Gateway>>, Database) = <<Gateway, Database>>
      /\ Append(<<Repository, Gateway>>, Database) = <<Repository, Gateway, Database>>
  BY <1>1, TupleAppends, Zenon
<1>3. /\ Append(<<>>, Gateway) = <<Gateway>>
      /\ Append(<<Repository>>, Gateway) = <<Repository, Gateway>>
      /\ Append(<<>>, Repository) = <<Repository>>
  BY <1>1, TupleAppends, Zenon
<1>4. /\ SubSeq(<<Database>>, 1, 0) = <<>>
      /\ SubSeq(<<Database, Gateway>>, 1, 1) = <<Database>>
      /\ SubSeq(<<Database, Gateway, Repository>>, 1, 2) = <<Database, Gateway>>
  BY <1>1, TuplePrefixes, Zenon
<1> QED
  BY <1>2, <1>3, <1>4

\* The invariant gives the property of the run.
LEMMA AppInvSuffices == AppInv => Application!GatewaySound
<1> SUFFICES ASSUME AppInv PROVE Application!GatewaySound
  OBVIOUS
<1> USE AppConstants DEF AppInv
<1>1. Application!TypeOK
  <2>1. owned \o closedOnce \in Seq({All[i] : i \in DOMAIN All})
    <3> DEFINE R == {All[i] : i \in DOMAIN All}
    <3>1. Database \in R /\ Gateway \in R /\ Repository \in R
      BY DEF All
    <3> HIDE DEF R
    <3>2. /\ <<>> \in Seq(R) /\ <<Database>> \in Seq(R) /\ <<Gateway>> \in Seq(R)
          /\ <<Repository>> \in Seq(R) /\ <<Database, Gateway>> \in Seq(R)
          /\ <<Gateway, Database>> \in Seq(R) /\ <<Repository, Gateway>> \in Seq(R)
          /\ All \in Seq(R) /\ <<Repository, Gateway, Database>> \in Seq(R)
      BY <3>1, ShortTuples DEF All
    <3>3. owned \in Seq(R) /\ closedOnce \in Seq(R)
      BY <3>2, Zenon DEF Lifespan, OwnedAndClosed
    <3> QED
      BY <3>3 DEF R
  <2>2. open \subseteq UNION {Application!PairOf(t) : t \in Queriers}
    BY DEF AppTypes, Application!PairOf
  <2> QED
    BY <2>1, <2>2 DEF Application!TypeOK, AppTypes, All
<1>2. Application!QueriesConnected
  <2> SUFFICES ASSUME NEW t \in Queriers, at[t] = "query"
      PROVE  <<using[t], "ingest">> \in open /\ <<using[t], "query">> \in open
    BY DEF Application!QueriesConnected, Application!PairOf
  <2>1. using[t] = pair /\ pair # None
    BY DEF Clients
  <2>2. <<pair, "ingest">> \in open /\ <<pair, "query">> \in open
    BY <2>1 DEF Clients
  <2> QED
    BY ONLY <2>1, <2>2
<1>3. Application!OneBuilder
  <2> DEFINE B == {t \in Queriers : Application!Building(t)}
  <2>1. Cardinality(B) = IF initializing THEN 1 ELSE 0
    <3>1. CASE initializing
      <4>1. PICK t \in Queriers : Builds(t)
        BY <3>1 DEF Clients
      <4>2. B = {t}
        BY <4>1 DEF Clients, Builds, Application!Building
      <4> QED
        BY <3>1, <4>2, FS_Singleton
    <3>2. CASE ~initializing
      <4>1. B = {}
        BY <3>2 DEF Clients, Builds, Application!Building
      <4> QED
        BY <3>2, <4>1, FS_EmptySet
    <3> QED
      BY <3>1, <3>2
  <2> QED
    BY <2>1 DEF Application!OneBuilder, Application!Cardinality, Cardinality
<1>4. Application!NoneForgotten
  BY DEF Application!NoneForgotten, Application!Building, Clients, Builds
<1>5. Application!ClosedInReverse
  <2>1. \A i, j \in DOMAIN closedOnce :
          i < j => \E m, n \in DOMAIN All :
                      m > n /\ closedOnce[i] = All[m] /\ closedOnce[j] = All[n]
    <3>1. /\ DOMAIN All = 1..3 /\ All[1] = Database /\ All[2] = Gateway
          /\ All[3] = Repository
      BY DEF All
    <3> QED
      BY <3>1 DEF Lifespan, OwnedAndClosed
  <2>2. stage = "stopped" => open = {} /\ owned = <<>>
    <3> SUFFICES ASSUME stage = "stopped" PROVE open = {}
      BY DEF Lifespan
    <3>1. NobodyAsked \/ GatewayClosed
      BY DEF Lifespan, GatewayOwned, All
    <3>2. \A t \in Queriers : ~Builds(t)
      BY <3>1 DEF NobodyAsked, GatewayClosed, Clients, Builds
    <3>3. pair = None
      BY <3>1 DEF NobodyAsked, GatewayClosed, Clients, AppTypes
    <3> QED
      BY <3>2, <3>3 DEF Clients, AppTypes
  <2> QED
    BY <2>1, <2>2 DEF Application!ClosedInReverse, All
<1> QED
  BY <1>1, <1>2, <1>3, <1>4, <1>5 DEF Application!GatewaySound

\* Nothing is owned at first, and nobody asks.
LEMMA AppInit == Application!Init => AppInv
<1> SUFFICES ASSUME Application!Init PROVE AppInv
  OBVIOUS
<1> USE AppConstants DEF Application!Init
<1>1. AppTypes
  BY DEF AppTypes, Application!Steps
<1>2. Lifespan
  <2>1. owned # All
    BY TupleLengths DEF All
  <2> QED
    BY <2>1 DEF Lifespan, OwnedAndClosed, NobodyAsked
<1>3. Clients
  BY DEF Clients, Builds
<1> QED
  BY <1>1, <1>2, <1>3 DEF AppInv

\* The lifespan: start-up, and closing in reverse.
LEMMA LifespanKeeps ==
  ASSUME AppInv, Application!Life \/ Application!StartFails \/ Application!Shutdown
  PROVE  AppInv'
<1> USE AppConstants DEF AppInv, Application!lifespan, Application!gateway, All,
                         Application!Last, Application!Released
<1> DEFINE R == {Database, Gateway, Repository}
<1>. Database \in R /\ Gateway \in R /\ Repository \in R
  OBVIOUS
<1>0. /\ Len(<<>>) = 0 /\ Len(<<Database>>) = 1 /\ Len(<<Database, Gateway>>) = 2
      /\ Len(All) = 3 /\ <<Database>>[1] = Database /\ <<Database, Gateway>>[2] = Gateway
      /\ All[3] = Repository /\ All[1] = Database /\ All[2] = Gateway
  BY TupleLengths
<1>1. CASE Application!Own
  <2> USE <1>1 DEF Application!Own
  <2>1. /\ owned \in {<<>>, <<Database>>, <<Database, Gateway>>} /\ closedOnce = <<>>
        /\ NobodyAsked
    BY DEF Lifespan, OwnedAndClosed
  <2>2. /\ owned = <<>> => owned' = <<Database>>
        /\ owned = <<Database>> => owned' = <<Database, Gateway>>
        /\ owned = <<Database, Gateway>> => owned' = All
    <3>1. owned' = Append(owned, All[Len(owned) + 1])
      OBVIOUS
    <3>2. owned = <<>> => owned' = Append(<<>>, Database)
      BY <3>1, <1>0
    <3>3. owned = <<Database>> => owned' = Append(<<Database>>, Gateway)
      BY <3>1, <1>0
    <3>4. owned = <<Database, Gateway>> =>
             owned' = Append(<<Database, Gateway>>, Repository)
      BY <3>1, <1>0
    <3> QED
      BY <3>2, <3>3, <3>4, TupleAppends
  <2>3. stage' = IF owned' = All THEN "serving" ELSE "starting"
    <3>1. stage' = IF Len(owned') = 3 THEN "serving" ELSE "starting"
      BY <1>0
    <3> QED
      BY <3>1, <2>1, <2>2, <1>0
  <2>4. Lifespan'
    BY <2>1, <2>2, <2>3
       DEF Lifespan, OwnedAndClosed, NobodyAsked, GatewayOwned, GatewayClosed
  <2> QED
    BY <2>3, <2>4 DEF AppTypes, Clients, Builds
<1>2. CASE Application!StartFails \/ Application!Shutdown
  BY <1>2 DEF Application!StartFails, Application!Shutdown, AppTypes, Lifespan,
     OwnedAndClosed, NobodyAsked, GatewayOwned, GatewayClosed, Clients, Builds
<1>3. CASE Application!CloseResource
  <2> USE <1>3 DEF Application!CloseResource
  <2>1. owned \in {<<Database>>, All}
    BY <1>0 DEF Lifespan, OwnedAndClosed
  <2>2. owned = <<Database>> => Lifespan'
    <3> SUFFICES ASSUME owned = <<Database>> PROVE Lifespan'
      OBVIOUS
    <3>1. owned' = <<>> /\ closedOnce' = Append(closedOnce, Database)
      <4>1. Len(owned) = 1 /\ owned' = SubSeq(<<Database>>, 1, 0)
        BY <1>0
      <4>2. closedOnce' = Append(closedOnce, Database)
        BY <1>0
      <4> QED
        BY ONLY <4>1, <4>2, ClosingLists, Zenon
    <3>2. closedOnce \in {<<>>, <<Gateway>>, <<Repository, Gateway>>}
      BY <1>0 DEF Lifespan, OwnedAndClosed
    <3>3. closedOnce' \in {<<Database>>, <<Gateway, Database>>,
                           <<Repository, Gateway, Database>>}
      <4>1. CASE closedOnce = <<>>
        BY ONLY <3>1, <4>1, ClosingLists, Zenon
      <4>2. CASE closedOnce = <<Gateway>>
        BY ONLY <3>1, <4>2, ClosingLists, Zenon
      <4>3. CASE closedOnce = <<Repository, Gateway>>
        BY ONLY <3>1, <4>3, ClosingLists, Zenon
      <4> QED
        BY ONLY <3>2, <4>1, <4>2, <4>3, Zenon
    <3>4. NobodyAsked \/ GatewayClosed
      BY <1>0 DEF Lifespan, GatewayOwned
    <3> QED
      BY <3>1, <3>3, <3>4, <1>0
         DEF Lifespan, OwnedAndClosed, NobodyAsked, GatewayOwned, GatewayClosed
  <2>3. owned = All => Lifespan'
    <3> SUFFICES ASSUME owned = All PROVE Lifespan'
      OBVIOUS
    <3>1. owned' = <<Database, Gateway>> /\ closedOnce' = Append(closedOnce, Repository)
      <4>1. Len(owned) = 3 /\ owned' = SubSeq(<<Database, Gateway, Repository>>, 1, 2)
        BY <1>0
      <4>2. closedOnce' = Append(closedOnce, Repository)
        BY <1>0
      <4> QED
        BY ONLY <4>1, <4>2, ClosingLists, Zenon
    <3>2. closedOnce = <<>>
      BY <1>0 DEF Lifespan, OwnedAndClosed
    <3>3. closedOnce' = <<Repository>>
      BY ONLY <3>1, <3>2, ClosingLists, Zenon
    <3> QED
      BY <3>1, <3>3, <1>0
         DEF Lifespan, OwnedAndClosed, NobodyAsked, GatewayOwned, GatewayClosed
  <2>4. Lifespan'
    BY <2>1, <2>2, <2>3
  <2> QED
    BY <2>4 DEF AppTypes, Clients, Builds
<1>4. CASE Application!Stop
  BY <1>4 DEF Application!Stop, AppTypes, Lifespan,
     OwnedAndClosed, NobodyAsked, GatewayOwned, GatewayClosed, Clients, Builds
<1>5. CASE Application!BeginClose
  BY <1>5 DEF Application!BeginClose, AppTypes, Lifespan,
     OwnedAndClosed, NobodyAsked, GatewayOwned, GatewayClosed, Clients, Builds
<1>6. CASE Application!FinishClose
  <2> USE <1>6 DEF Application!FinishClose, Application!Idle
  <2>1. owned = <<Database, Gateway>>
    BY <1>0 DEF Lifespan, OwnedAndClosed
  <2>10. owned' = <<Database>> /\ closedOnce' = Append(closedOnce, Gateway)
    <3>1. Len(owned) = 2 /\ owned' = SubSeq(<<Database, Gateway>>, 1, 1)
      BY <2>1, <1>0
    <3>2. closedOnce' = Append(closedOnce, Gateway)
      BY <2>1, <1>0
    <3> QED
      BY ONLY <3>1, <3>2, ClosingLists, Zenon
  <2>11. closedOnce \in {<<>>, <<Repository>>}
    BY <2>1, <1>0 DEF Lifespan, OwnedAndClosed
  <2>2. closedOnce' \in {<<Gateway>>, <<Repository, Gateway>>}
    <3>1. CASE closedOnce = <<>>
      BY ONLY <2>10, <3>1, ClosingLists, Zenon
    <3>2. CASE closedOnce = <<Repository>>
      BY ONLY <2>10, <3>2, ClosingLists, Zenon
    <3> QED
      BY ONLY <2>11, <3>1, <3>2, Zenon
  <2>3. GatewayClosed'
    BY DEF GatewayClosed
  <2>4. Lifespan'
    BY <2>10, <2>2, <2>3 DEF Lifespan, OwnedAndClosed
  <2>5. AppTypes'
    BY DEF AppTypes
  <2>6. open' = IF pair = None THEN open ELSE open \ {<<pair, "ingest">>, <<pair, "query">>}
    BY DEF Application!PairOf
  <2>7. \A t \in Queriers : ~Builds(t) /\ ~Builds(t)'
    BY DEF Clients, Builds
  <2>8. open' = {}
    <3>1. \A c \in open : /\ c[1] = pair /\ c[1] \in Queriers
                        /\ c \in {<<c[1], "ingest">>, <<c[1], "query">>}
      BY <2>7 DEF Clients, AppTypes
    <3> QED
      BY <2>6, <3>1
  <2>9. Clients'
    BY <2>3, <2>7, <2>8 DEF Clients, GatewayClosed, Builds
  <2> QED
    BY <2>4, <2>5, <2>9
<1> QED
  BY <1>1, <1>2, <1>3, <1>4, <1>5, <1>6 DEF Application!Life

\* A query: asking, building the clients, querying, giving up.
LEMMA QueryKeeps ==
  ASSUME AppInv, NEW t \in Queriers, Application!Ask(t) \/ Application!Serve(t)
  PROVE  AppInv'
<1> USE AppConstants DEF AppInv, AppTypes, Application!Steps, Application!lifespan,
                         Application!gateway, Application!Goto
<1>1. CASE Application!Ask(t)
  <2> USE <1>1 DEF Application!Ask
  <2>1. Lifespan'
    BY DEF Lifespan, OwnedAndClosed, NobodyAsked, GatewayOwned, GatewayClosed
  <2>2. Clients'
    BY DEF Clients, Builds
  <2> QED
    BY <2>1, <2>2
<1>2. CASE ~Application!Ask(t)
  <2>1. \/ UNCHANGED <<shut, initializing, users, pair>>
        \/ ~GatewayClosed
    BY <1>2 DEF Application!Serve, Application!Refuse, Application!Join,
       Application!BeginBuild, Application!Connect, Application!Preflight,
       Application!BuildFails, Application!Publish, Application!Abandon,
       Application!Query, GatewayClosed, Clients, Builds
  <2>2. ~NobodyAsked /\ UNCHANGED <<stage, owned, closedOnce>>
    BY <1>2 DEF Application!Serve, Application!Refuse, Application!Join,
       Application!BeginBuild, Application!Connect, Application!Preflight,
       Application!BuildFails, Application!Publish, Application!Abandon,
       Application!Query, NobodyAsked
  <2>3. Lifespan'
    BY <2>1, <2>2 DEF Lifespan, OwnedAndClosed, GatewayOwned, GatewayClosed
  <2>4. CASE Application!Refuse(t)
    BY <2>3, <2>4 DEF Application!Refuse, Clients, Builds
  <2>5. CASE Application!Join(t)
    BY <2>3, <2>5 DEF Application!Join, Clients, Builds
  <2>6. CASE Application!BeginBuild(t)
    <3>1. /\ initializing' = TRUE /\ pair = None /\ ~initializing /\ at[t] = "acquire"
          /\ at' = [at EXCEPT ![t] = "ingest"]
          /\ UNCHANGED <<stage, owned, closedOnce, shut, users, pair, open, using>>
      BY <2>6 DEF Application!BeginBuild
    <3>2. /\ at'[t] = "ingest" /\ \A s \in Queriers : s # t => at'[s] = at[s]
          /\ at' \in [Queriers -> Application!Steps]
      BY <3>1
    <3>3. \A s \in Queriers : ~Builds(s)
      BY <3>1 DEF Clients
    <3>4. /\ Builds(t)' /\ \A s \in Queriers : s # t => ~Builds(s)'
      BY <3>2, <3>3 DEF Builds
    <3>5. open = {}
      <4>1. \A c \in open : c[1] \in Queriers /\ (c[1] = pair \/ Builds(c[1]))
        BY DEF Clients
      <4> QED
        BY <3>1, <3>3, <4>1, AppConstants
    <3>6. ASSUME NEW s \in Queriers
          PROVE  /\ at'[s] = "query" <=> s \in users
                 /\ s \in users => using[s] = pair /\ pair # None
                 /\ at'[s] \notin {"second", "preflight", "publish"}
      <4>1. CASE s = t
        BY <4>1, <3>1, <3>2 DEF Clients
      <4>2. CASE s # t
        <5>1. at'[s] = at[s]
          BY ONLY <3>2, <4>2, s \in Queriers
        <5>2. at[s] \notin {"second", "preflight", "publish"}
          BY ONLY <3>3, s \in Queriers DEF Builds
        <5>3. /\ at[s] = "query" <=> s \in users
              /\ s \in users => using[s] = pair /\ pair # None
          BY DEF Clients
        <5> QED
          BY ONLY <5>1, <5>2, <5>3
      <4> QED
        BY <4>1, <4>2
    <3>7. Clients'
      BY ONLY <3>1, <3>4, <3>5, <3>6, t \in Queriers DEF Clients
    <3>8. AppTypes'
      BY <3>1, <3>2
    <3> QED
      BY <2>3, <3>7, <3>8
  <2>7. CASE Application!Connect(t)
    BY <2>3, <2>7 DEF Application!Connect, Clients, Builds
  <2>8. CASE Application!Preflight(t)
    BY <2>3, <2>8 DEF Application!Preflight, Clients, Builds
  <2>9. CASE Application!BuildFails(t) \/ Application!Abandon(t)
    <3>1. /\ Builds(t) /\ initializing' = FALSE /\ UNCHANGED <<users, pair, using, shut>>
          /\ open' = open \ {<<t, "ingest">>, <<t, "query">>}
          /\ at' \in [Queriers -> Application!Steps]
          /\ at'[t] \in {"failed", "refused"} /\ \A s \in Queriers : s # t => at'[s] = at[s]
      BY <2>9 DEF Application!BuildFails, Application!ClosedOnFailure, Application!PairOf,
         Application!Abandon, Builds
    <3>2. \A s \in Queriers : ~Builds(s)'
      BY <3>1 DEF Clients, Builds
    <3>3. pair = None
      BY <3>1 DEF Clients
    <3>4. t \notin users /\ open' = {}
      <4>1. \A c \in open : Builds(c[1])
        BY <3>3 DEF Clients
      <4>2. \A c \in open : c \in Queriers \X {"ingest", "query"} /\ c[1] = t
        BY <3>1, <4>1 DEF Clients
      <4>3. \A c \in open : c \in {<<t, "ingest">>, <<t, "query">>}
        BY <4>2
      <4>4. t \notin users
        BY <3>1 DEF Clients, Builds
      <4> QED
        BY <3>1, <4>3, <4>4
    <3>5. \A s \in Queriers : at'[s] = "query" <=> s \in users
      BY <3>1, <3>4 DEF Clients
    <3>6. Clients'
      BY <3>1, <3>2, <3>3, <3>4, <3>5 DEF Clients, Builds
    <3>7. AppTypes'
      <4>1. UNCHANGED stage
        BY <2>9 DEF Application!BuildFails, Application!Abandon
      <4> QED
        BY <4>1, <3>1, <3>4
    <3> QED
      BY <2>3, <3>7, <3>6 DEF AppInv
  <2>10. CASE Application!Publish(t)
    <3> USE <2>10 DEF Application!Publish, Application!StillOpen
    <3>1. /\ at'[t] = "query" /\ \A s \in Queriers : s # t => at'[s] = at[s]
          /\ using'[t] = t /\ \A s \in Queriers : s # t => using'[s] = using[s]
          /\ at' \in [Queriers -> Application!Steps]
          /\ using' \in [Queriers -> Queriers \cup {None}]
      OBVIOUS
    <3>2. /\ Builds(t) /\ initializing /\ pair = None /\ users = {}
      BY DEF Clients, Builds
    <3>3. \A s \in Queriers : ~Builds(s)'
      BY <3>1, <3>2 DEF Clients, Builds
    <3>4. \A c \in open : c[1] = t
      BY <3>2 DEF Clients
    <3>5. <<t, "ingest">> \in open /\ <<t, "query">> \in open
      BY DEF Clients
    <3>6. ASSUME NEW s \in Queriers PROVE at'[s] = "query" <=> s \in users'
      <4>1. at[s] = "query" <=> s \in users
        BY DEF Clients
      <4>2. users' = users \cup {t}
        OBVIOUS
      <4> QED
        BY ONLY <3>1, <4>1, <4>2, s \in Queriers
    <3>7. Clients'
      BY <3>1, <3>2, <3>3, <3>4, <3>5, <3>6 DEF Clients, Builds
    <3> QED
      BY <2>3, <3>1, <3>7
  <2>12. CASE Application!Query(t)
    BY <2>3, <2>12 DEF Application!Query, Clients, Builds
  <2> QED
    BY <1>2, <2>4, <2>5, <2>6, <2>7, <2>8, <2>9, <2>10, <2>12 DEF Application!Serve
<1> QED
  BY <1>1, <1>2

\* Every step of the application keeps its invariant.
LEMMA AppStep == AppInv /\ Application!Next => AppInv'
  BY LifespanKeeps, QueryKeeps DEF Application!Next

\* So does a step of another part.
LEMMA AppStutter == AppInv /\ UNCHANGED application => AppInv'
  BY DEF application, AppInv, AppTypes, Lifespan, OwnedAndClosed, NobodyAsked,
     GatewayOwned, GatewayClosed, Clients, Builds

-----------------------------------------------------------------------------
(* The readiness checks.                                                   *)
(*                                                                         *)
(* A check has one thread at most because its gate is closed exactly while *)
(* the thread of its first slot lives (Gates).  A verdict is never late:   *)
(* the waiter reads the outcome of a thread that it started itself in this *)
(* round, so a thread that found the dependency well found it during the   *)
(* round (Verdicts).                                                       *)

\* The types; a line is a check and one of its slots.
Lines == Checks \X {1, 2}
HealthTypes ==
    /\ reply \in [Checks -> {"good", "bad", "silent"}]
    /\ silences \in 0..Silent /\ rounds \in 0..MaxRounds
    /\ inflight \in BOOLEAN /\ fresh \in BOOLEAN /\ wasGood \subseteq Checks
    /\ waiter \in [Checks -> {"idle", "start", "wait", "cancel", "close", "join", "done"}]
    /\ verdict \in [Checks -> BOOLEAN] /\ slot \in [Checks -> {0, 1, 2}]
    /\ gate \subseteq Checks /\ thread \in [Lines -> Readiness!Labels]
    /\ outcome \in [Lines -> BOOLEAN] /\ cancelled \subseteq Probes

\* The thread of a check, its gate and its connections.
Gates ==
    \A c \in Checks :
        /\ thread[<<c, 2>>] = "none"
        /\ c \in gate <=> thread[<<c, 1>>] = "none"
        /\ waiter[c] \in {"wait", "cancel", "close"} => slot[c] = 1
\* A connection belongs to a thread between its creation and its finally block.
Connections ==
    /\ connected \subseteq Checks \X {1, 2} \X {"client", "response"}
    /\ \A x \in connected :
         thread[<<x[1], x[2]>>] \in {"register", "send", "respond", "read", "end"}

\* What a round may report.
Verdicts ==
    \A c \in Checks :
        /\ waiter[c] = "idle" <=> ~inflight
        /\ inflight /\ reply[c] = "good" => c \in wasGood
        /\ verdict[c] => inflight /\ c \in wasGood
        /\ waiter[c] = "wait" /\ outcome[<<c, 1>>] => c \in wasGood
        /\ waiter[c] \in {"cancel", "close"} => c \in Probes

\* The inductive invariant of the readiness checks.
HealthInv == HealthTypes /\ Gates /\ Connections /\ Verdicts

\* The invariant gives the property of the run.
LEMMA HealthInvSuffices == HealthInv => Readiness!ChecksSound
<1> SUFFICES ASSUME HealthInv PROVE Readiness!ChecksSound
  OBVIOUS
<1> USE ReadinessConstants DEF HealthInv, HealthTypes, Lines, Readiness!Slots,
                               Readiness!Threads, Readiness!At
<1>1. Readiness!TypeOK
  BY DEF Readiness!TypeOK
<1>2. Readiness!OneThread
  <2> SUFFICES ASSUME NEW c \in Checks
      PROVE  Cardinality({s \in {1, 2} : thread[<<c, s>>] # "none"})
               = IF c \in gate THEN 0 ELSE 1
    BY DEF Readiness!OneThread, Readiness!Cardinality, Cardinality
  <2> DEFINE B == {s \in {1, 2} : thread[<<c, s>>] # "none"}
  <2>1. /\ thread[<<c, 2>>] = "none"
        /\ c \in gate <=> thread[<<c, 1>>] = "none"
    BY DEF Gates
  <2>2. B = IF c \in gate THEN {} ELSE {1}
    BY <2>1
  <2> QED
    BY <2>2, FS_Singleton, FS_EmptySet
<1>3. Readiness!CancelsItsOwn
  BY DEF Readiness!CancelsItsOwn, Gates
<1>4. Readiness!NothingLeft
  BY DEF Readiness!NothingLeft, Connections
<1>5. Readiness!NoLateVerdict
  BY DEF Readiness!NoLateVerdict, Verdicts
<1> QED
  BY <1>1, <1>2, <1>3, <1>4, <1>5 DEF Readiness!ChecksSound

\* Nothing runs at first.
LEMMA HealthInit == Readiness!Init => HealthInv
<1> SUFFICES ASSUME Readiness!Init PROVE HealthInv
  OBVIOUS
<1> USE ReadinessConstants DEF Readiness!Init, Lines, Readiness!Threads, Readiness!Slots
<1>1. HealthTypes
  <2>1. thread \in [Lines -> Readiness!Labels] /\ outcome \in [Lines -> BOOLEAN]
    BY DEF Readiness!Labels
  <2>2. /\ reply \in [Checks -> {"good", "bad", "silent"}] /\ slot \in [Checks -> {0, 1, 2}]
        /\ waiter \in [Checks -> {"idle", "start", "wait", "cancel", "close", "join", "done"}]
        /\ verdict \in [Checks -> BOOLEAN]
    OBVIOUS
  <2>3. silences \in 0..Silent /\ rounds \in 0..MaxRounds
    OBVIOUS
  <2> QED
    BY <2>1, <2>2, <2>3 DEF HealthTypes
<1>2. Gates /\ Connections
  BY DEF Gates, Connections
<1>3. Verdicts
  BY DEF Verdicts
<1> QED
  BY <1>1, <1>2, <1>3 DEF HealthInv

\* A round begins and ends.
LEMMA RoundKeeps ==
  ASSUME HealthInv, Readiness!Begin \/ Readiness!Finish \/ Readiness!GrowsOld
  PROVE  HealthInv'
<1> USE ReadinessConstants DEF HealthInv, Lines, Readiness!registry, Readiness!round,
                               Readiness!threads, Readiness!probe, Readiness!world
<1>1. CASE Readiness!Begin
  <2> USE <1>1 DEF Readiness!Begin
  <2>1. HealthTypes'
    BY DEF HealthTypes
  <2>2. Gates' /\ Connections'
    BY DEF HealthTypes, Gates, Connections
  <2>3. Verdicts'
    BY DEF HealthTypes, Verdicts
  <2> QED
    BY <2>1, <2>2, <2>3
<1>2. CASE Readiness!Finish
  <2> USE <1>2 DEF Readiness!Finish
  <2>1. HealthTypes'
    BY DEF HealthTypes
  <2>2. Gates' /\ Connections'
    BY DEF HealthTypes, Gates, Connections
  <2>3. Verdicts'
    BY DEF HealthTypes, Verdicts
  <2> QED
    BY <2>1, <2>2, <2>3
<1>3. CASE Readiness!GrowsOld
  BY <1>3 DEF Readiness!GrowsOld, HealthTypes, Gates, Connections, Verdicts
<1> QED
  BY <1>1, <1>2, <1>3

\* bounded_check moves on while its thread goes its own way: what it returns
\* has to be true of the round.
LEMMA WaiterMoves ==
  ASSUME HealthInv, NEW c \in Checks, waiter[c] # "idle",
         NEW w \in {"cancel", "close", "join", "done"}, NEW v \in BOOLEAN,
         waiter' = [waiter EXCEPT ![c] = w],
         verdict' = verdict \/ verdict' = [verdict EXCEPT ![c] = v],
         v => c \in wasGood,
         w \in {"cancel", "close"} => c \in Probes /\ slot[c] = 1,
         cancelled' \subseteq Probes,
         UNCHANGED <<reply, silences, rounds, inflight, fresh, wasGood, slot, gate, thread,
                     outcome>>
  PROVE  HealthTypes' /\ Gates' /\ Verdicts'
<1> USE DEF HealthInv, Lines
<1>1. HealthTypes'
  BY DEF HealthTypes
<1>2. /\ waiter'[c] = w /\ \A d \in Checks : d # c => waiter'[d] = waiter[d]
      /\ verdict'[c] => verdict[c] \/ v
      /\ \A d \in Checks : d # c => verdict'[d] = verdict[d]
  BY DEF HealthTypes
<1>3. Gates'
  BY <1>2 DEF Gates
<1>4. Verdicts'
  BY <1>2 DEF Verdicts
<1> QED
  BY <1>1, <1>3, <1>4

\* The waiter gives up, cancels or collects what its own thread found.
LEMMA WaitKeeps ==
  ASSUME HealthInv, NEW c \in Checks, Readiness!Wait(c)
  PROVE  HealthInv'
<1> USE ReadinessConstants DEF HealthInv, Lines, Readiness!registry, Readiness!round,
                               Readiness!threads, Readiness!probe, Readiness!world,
                               Readiness!Return
<1>1. CASE Readiness!StartThread(c)
  <2> USE <1>1 DEF Readiness!StartThread
  <2>1. /\ thread[<<c, 1>>] = "none" /\ waiter[c] = "start"
        /\ slot' = [slot EXCEPT ![c] = 1]
        /\ thread' = [thread EXCEPT ![<<c, 1>>] = "call"]
        /\ outcome' = [outcome EXCEPT ![<<c, 1>>] = FALSE]
        /\ gate' = gate \ {c} /\ waiter' = [waiter EXCEPT ![c] = "wait"]
    BY DEF Gates
  <2>2. UNCHANGED <<inflight, fresh, rounds, verdict, cancelled, connected, reply, silences,
                    wasGood>>
    OBVIOUS
  <2>3. HealthTypes'
    BY <2>1, <2>2 DEF HealthTypes, Readiness!Labels
  <2>4. /\ slot'[c] = 1 /\ thread'[<<c, 1>>] = "call" /\ waiter'[c] = "wait"
        /\ outcome'[<<c, 1>>] = FALSE /\ thread'[<<c, 2>>] = thread[<<c, 2>>]
        /\ \A d \in Checks : d # c => /\ slot'[d] = slot[d] /\ waiter'[d] = waiter[d]
                                     /\ thread'[<<d, 1>>] = thread[<<d, 1>>]
                                     /\ thread'[<<d, 2>>] = thread[<<d, 2>>]
                                     /\ outcome'[<<d, 1>>] = outcome[<<d, 1>>]
    BY <2>1 DEF HealthTypes
  <2>5. Gates'
    <3> HIDE <1>1 DEF Readiness!StartThread
    <3>1. ASSUME NEW d \in Checks
          PROVE  /\ thread'[<<d, 2>>] = "none"
                 /\ d \in gate' <=> thread'[<<d, 1>>] = "none"
                 /\ waiter'[d] \in {"wait", "cancel", "close"} => slot'[d] = 1
      <4>1. CASE d = c
        BY <2>1, <2>4, <4>1 DEF Gates
      <4>2. CASE d # c
        BY <2>1, <2>4, <4>2 DEF Gates
      <4> QED BY <4>1, <4>2
    <3> QED BY <3>1 DEF Gates
  <2>6. Connections'
    BY <2>1, <2>2 DEF HealthTypes, Connections
  <2>7. Verdicts'
    <3> HIDE <1>1 DEF Readiness!StartThread
    <3> SUFFICES ASSUME NEW d \in Checks
        PROVE  /\ waiter'[d] = "idle" <=> ~inflight
               /\ inflight /\ reply[d] = "good" => d \in wasGood
               /\ verdict[d] => inflight /\ d \in wasGood
               /\ waiter'[d] = "wait" /\ outcome'[<<d, 1>>] => d \in wasGood
               /\ waiter'[d] \in {"cancel", "close"} => d \in Probes
      BY <2>2 DEF Verdicts
    <3> QED
      BY <2>1, <2>4 DEF Verdicts
  <2> QED
    BY <2>3, <2>5, <2>6, <2>7
<1>2. CASE Readiness!GateTaken(c) \/ Readiness!Joined(c)
  <2>1. HealthTypes' /\ Gates' /\ Verdicts'
    BY <1>2, WaiterMoves DEF Readiness!GateTaken, Readiness!Joined, HealthTypes
  <2> QED
    BY <1>2, <2>1 DEF Readiness!GateTaken, Readiness!Joined, Connections
<1>3. CASE Readiness!Collect(c)
  <2> USE <1>3 DEF Readiness!Collect, Readiness!OwnOutcome
  <2>1. /\ waiter[c] = "wait" /\ slot[c] = 1 /\ outcome[<<c, 1>>] \in BOOLEAN
        /\ outcome[<<c, 1>>] => c \in wasGood
    BY DEF Gates, Verdicts, HealthTypes
  <2>2. HealthTypes' /\ Gates' /\ Verdicts'
    BY <2>1, WaiterMoves DEF HealthTypes
  <2> QED
    BY <2>2 DEF Connections
<1>4. CASE Readiness!TimesOut(c)
  <2> USE <1>4 DEF Readiness!TimesOut
  <2>1. slot[c] = 1
    BY DEF Gates
  <2>2. HealthTypes' /\ Gates' /\ Verdicts'
    BY <2>1, WaiterMoves DEF HealthTypes
  <2> QED
    BY <2>2 DEF Connections
<1>5. CASE Readiness!Cancel(c)
  <2> USE <1>5 DEF Readiness!Cancel
  <2>1. slot[c] = 1 /\ c \in Probes
    BY DEF Gates, Verdicts
  <2>2. cancelled' \subseteq Probes
    BY <2>1 DEF HealthTypes
  <2>3. HealthTypes' /\ Gates' /\ Verdicts'
    BY <2>1, <2>2, WaiterMoves
  <2> QED
    BY <2>3 DEF Connections
<1>6. CASE Readiness!CloseCaptured(c)
  <2> USE <1>6 DEF Readiness!CloseCaptured
  <2>1. HealthTypes' /\ Gates' /\ Verdicts'
    BY WaiterMoves DEF HealthTypes
  <2> QED
    BY <2>1 DEF Connections
<1> QED
  BY <1>1, <1>2, <1>3, <1>4, <1>5, <1>6 DEF Readiness!Wait

\* A thread moves on: it gives its gate back when it ends, and finds its
\* dependency well only when it is.
LEMMA ThreadMoves ==
  ASSUME HealthInv, NEW c \in Checks, NEW l \in Readiness!Labels, NEW v \in BOOLEAN,
         thread[<<c, 1>>] # "none", thread' = [thread EXCEPT ![<<c, 1>>] = l],
         outcome' = outcome \/ outcome' = [outcome EXCEPT ![<<c, 1>>] = v],
         v => reply[c] = "good",
         gate' = IF l = "none" THEN gate \cup {c} ELSE gate,
         cancelled' \subseteq Probes,
         UNCHANGED <<reply, silences, rounds, inflight, fresh, wasGood, waiter, verdict, slot>>
  PROVE  HealthTypes' /\ Gates' /\ Verdicts'
<1> USE DEF HealthInv, Lines
<1>1. HealthTypes'
  BY DEF HealthTypes
<1>2. /\ thread'[<<c, 1>>] = l /\ thread'[<<c, 2>>] = thread[<<c, 2>>]
      /\ outcome'[<<c, 1>>] => outcome[<<c, 1>>] \/ v
      /\ \A d \in Checks : d # c => /\ thread'[<<d, 1>>] = thread[<<d, 1>>]
                                   /\ thread'[<<d, 2>>] = thread[<<d, 2>>]
                                   /\ outcome'[<<d, 1>>] = outcome[<<d, 1>>]
  BY DEF HealthTypes
<1>3. Gates'
  BY <1>2 DEF Gates
<1>4. Verdicts'
  BY <1>2 DEF Verdicts
<1> QED
  BY <1>1, <1>3, <1>4

\* The connections of a thread while it lives: it opens none but its own, and
\* closes both before it ends.
LEMMA ConnectionsFollow ==
  ASSUME HealthInv, NEW c \in Checks, NEW l,
         thread' = [thread EXCEPT ![<<c, 1>>] = l],
         connected' \subseteq connected \cup {<<c, 1, "client">>, <<c, 1, "response">>},
         \/ l \in {"register", "send", "respond", "read", "end"}
         \/ <<c, 1, "client">> \notin connected' /\ <<c, 1, "response">> \notin connected'
  PROVE  Connections'
<1> USE DEF HealthInv, HealthTypes, Lines, Connections
<1>1. connected' \subseteq Checks \X {1, 2} \X {"client", "response"}
  OBVIOUS
<1> SUFFICES ASSUME NEW x \in connected'
    PROVE  thread'[<<x[1], x[2]>>] \in {"register", "send", "respond", "read", "end"}
  BY <1>1
<1>2. /\ x = <<x[1], x[2], x[3]>> /\ x[3] \in {"client", "response"}
      /\ <<x[1], x[2]>> \in Lines
  BY <1>1
<1>3. CASE <<x[1], x[2]>> = <<c, 1>>
  <2>1. x \in {<<c, 1, "client">>, <<c, 1, "response">>}
    BY <1>2, <1>3
  <2>2. thread'[<<x[1], x[2]>>] = l
    BY <1>2, <1>3
  <2> QED
    BY <2>1, <2>2
<1>4. CASE <<x[1], x[2]>> # <<c, 1>>
  <2>1. x \in connected
    BY <1>4
  <2>2. thread'[<<x[1], x[2]>>] = thread[<<x[1], x[2]>>]
    BY <1>2, <1>4
  <2> QED
    BY <2>1, <2>2
<1> QED
  BY <1>3, <1>4

\* The thread of a check.
LEMMA WorkKeeps ==
  ASSUME HealthInv, NEW c \in Checks, NEW s \in {1, 2}, Readiness!Work(c, s)
  PROVE  HealthInv'
<1> USE DEF Readiness!registry, Readiness!round, Readiness!threads, Readiness!probe,
            Readiness!world, Readiness!At, Readiness!Move, Readiness!Found, Readiness!Fails,
            Readiness!Register
<1>0. s = 1 /\ thread[<<c, 1>>] # "none"
  BY DEF Readiness!Work, Readiness!PlainCheck, Readiness!BeginProbe, Readiness!CreateClient,
     Readiness!RegisterClient, Readiness!Send, Readiness!RegisterResponse, Readiness!Read,
     Readiness!EndProbe, Readiness!Release, HealthInv, Gates
<1>10. /\ cancelled \subseteq Probes
       /\ \A k \in {"client", "response"} : <<c, 1, k>> \in connected =>
             thread[<<c, 1>>] \in {"register", "send", "respond", "read", "end"}
  BY DEF HealthInv, HealthTypes, Connections
<1>1. CASE Readiness!PlainCheck(c, s)
  <2> USE <1>1, <1>0 DEF Readiness!PlainCheck, Readiness!Accepted
  <2>1. HealthTypes' /\ Gates' /\ Verdicts'
    BY <1>10, ThreadMoves DEF Readiness!Labels
  <2>2. Connections'
    BY <1>10, ConnectionsFollow
  <2> QED
    BY <2>1, <2>2 DEF HealthInv
<1>2. CASE Readiness!BeginProbe(c, s)
  <2> USE <1>2, <1>0 DEF Readiness!BeginProbe
  <2>1. HealthTypes' /\ Gates' /\ Verdicts'
    BY <1>10, ThreadMoves DEF Readiness!Labels
  <2>2. Connections'
    BY <1>10, ConnectionsFollow
  <2> QED
    BY <2>1, <2>2 DEF HealthInv
<1>3. CASE Readiness!CreateClient(c, s)
  <2> USE <1>3, <1>0 DEF Readiness!CreateClient
  <2>1. HealthTypes' /\ Gates' /\ Verdicts'
    BY <1>10, ThreadMoves DEF Readiness!Labels
  <2>2. Connections'
    BY <1>10, ConnectionsFollow
  <2> QED
    BY <2>1, <2>2 DEF HealthInv
<1>4. CASE Readiness!RegisterClient(c, s)
  <2> USE <1>4, <1>0 DEF Readiness!RegisterClient
  <2>1. HealthTypes' /\ Gates' /\ Verdicts'
    BY <1>10, ThreadMoves DEF Readiness!Labels
  <2>2. Connections'
    BY <1>10, ConnectionsFollow
  <2> QED
    BY <2>1, <2>2 DEF HealthInv
<1>5. CASE Readiness!Send(c, s)
  <2> USE <1>5, <1>0 DEF Readiness!Send
  <2>1. HealthTypes' /\ Gates' /\ Verdicts'
    BY <1>10, ThreadMoves DEF Readiness!Labels
  <2>2. Connections'
    BY <1>10, ConnectionsFollow
  <2> QED
    BY <2>1, <2>2 DEF HealthInv
<1>6. CASE Readiness!RegisterResponse(c, s)
  <2> USE <1>6, <1>0 DEF Readiness!RegisterResponse
  <2>1. HealthTypes' /\ Gates' /\ Verdicts'
    BY <1>10, ThreadMoves DEF Readiness!Labels
  <2>2. Connections'
    BY <1>10, ConnectionsFollow
  <2> QED
    BY <2>1, <2>2 DEF HealthInv
<1>7. CASE Readiness!Read(c, s)
  <2> USE <1>7, <1>0 DEF Readiness!Read, Readiness!Accepted
  <2>1. HealthTypes' /\ Gates' /\ Verdicts'
    BY <1>10, ThreadMoves DEF Readiness!Labels
  <2>2. Connections'
    BY <1>10, ConnectionsFollow
  <2> QED
    BY <2>1, <2>2 DEF HealthInv
<1>8. CASE Readiness!EndProbe(c, s)
  <2> USE <1>8, <1>0 DEF Readiness!EndProbe
  <2>1. HealthTypes' /\ Gates' /\ Verdicts'
    BY <1>10, ThreadMoves DEF Readiness!Labels
  <2>2. Connections'
    BY <1>10, ConnectionsFollow
  <2> QED
    BY <2>1, <2>2 DEF HealthInv
<1>9. CASE Readiness!Release(c, s)
  <2> USE <1>9, <1>0 DEF Readiness!Release
  <2>1. HealthTypes' /\ Gates' /\ Verdicts'
    BY <1>10, ThreadMoves DEF Readiness!Labels
  <2>2. Connections'
    BY <1>10, ConnectionsFollow
  <2> QED
    BY <2>1, <2>2 DEF HealthInv
<1> QED
  BY <1>1, <1>2, <1>3, <1>4, <1>5, <1>6, <1>7, <1>8, <1>9 DEF Readiness!Work

\* A dependency changes.
LEMMA ChangeKeeps ==
  ASSUME HealthInv, NEW c \in Checks, Readiness!Changes(c)
  PROVE  HealthInv'
<1> USE ReadinessConstants DEF HealthInv, Lines, Readiness!registry, Readiness!round,
                               Readiness!threads, Readiness!probe, Readiness!Changes, HealthTypes
<1>1. HealthTypes'
  OBVIOUS
<1>2. Gates' /\ Connections'
  BY DEF Gates, Connections
<1>3. Verdicts'
  BY DEF Verdicts
<1> QED
  BY <1>1, <1>2, <1>3

\* Every step of the readiness checks keeps their invariant.
LEMMA HealthStep == HealthInv /\ Readiness!Next => HealthInv'
  BY RoundKeeps, WaitKeeps, WorkKeeps, ChangeKeeps DEF Readiness!Next, Readiness!Slots

\* So does a step of another part.
LEMMA HealthStutter == HealthInv /\ UNCHANGED readiness => HealthInv'
  BY DEF readiness, HealthInv, HealthTypes, Gates, Connections, Verdicts

-----------------------------------------------------------------------------
\* A step of the serving processes is one of the gateway's lifespan or leaves
\* it alone, and the same for the readiness checks.
LEMMA ResourcesStep ==
  ASSUME AppInv, HealthInv,
         [ServicesNext]_<<part, vars, queues, inference, application, readiness>>
  PROVE  AppInv' /\ HealthInv'
<1>1. Application!Next \/ UNCHANGED application
  BY DEF ServicesNext
<1>2. Readiness!Next \/ UNCHANGED readiness
  BY DEF ServicesNext
<1> QED
  BY <1>1, <1>2, AppStep, AppStutter, HealthStep, HealthStutter

\* Queries run on connected clients whatever closes meanwhile, one thread
\* builds them, and a stopped application has nothing connected; a dependency
\* that hangs holds one thread, no connection outlives its thread, and no late
\* answer counts: for any number of request threads, checks and probes.
THEOREM ResourcesAreSound == ServicesSpec => []ResourcesSound
<1>1. ServicesInit => AppInv /\ HealthInv
  BY AppInit, HealthInit DEF ServicesInit
<1>2. AppInv /\ HealthInv => ResourcesSound
  BY AppInvSuffices, HealthInvSuffices DEF ResourcesSound
<1> QED
  BY ResourcesStep, <1>1, <1>2, PTL DEF ServicesSpec

-----------------------------------------------------------------------------
(* Sums along a sequence.                                                  *)

\* Induction over the natural numbers, in terms of the set of numbers for which
\* the fact holds.
LEMMA SetInduction ==
    ASSUME NEW T \in SUBSET Nat, 0 \in T, \A n \in T : n + 1 \in T
    PROVE  T = Nat
<1> DEFINE Less == OpToRel(<, Nat)
<1>1. IsWellFoundedOn(Less, Nat)
  BY NatLessThanWellFounded
<1>2. \A m, n \in Nat : <<m, n>> \in Less <=> m < n
  BY DEF OpToRel
<1> HIDE DEF Less
<1> SUFFICES ASSUME Nat \ T # {} PROVE FALSE
  OBVIOUS
<1>3. PICK m \in Nat \ T : \A n \in Nat \ T : ~(<<n, m>> \in Less)
  BY <1>1, WFMin
<1>4. m # 0 /\ m - 1 \in Nat /\ m - 1 < m /\ (m - 1) + 1 = m
  BY <1>3
<1>5. m - 1 \in T
  BY <1>2, <1>3, <1>4
<1> QED BY <1>3, <1>4, <1>5

\* The partial sums of weight w along s, and their last one.
PartialSums(w, s, a) ==
    /\ a \in [0..Len(s) -> Nat]
    /\ a[0] = 0
    /\ \A i \in 1..Len(s) : a[i] = a[i - 1] + w[s[i]]
Sum(w, s) == CHOOSE n \in Nat : \E a : PartialSums(w, s, a) /\ n = a[Len(s)]

\* Partial sums are determined by the sequence.
LEMMA OneSum ==
    ASSUME NEW R, NEW w \in [R -> Nat], NEW s \in Seq(R),
           NEW a, PartialSums(w, s, a), NEW b, PartialSums(w, s, b)
    PROVE  a = b
<1> DEFINE T == {i \in Nat : i <= Len(s) => a[i] = b[i]}
<1>1. Len(s) \in Nat
  OBVIOUS
<1>2. 0 \in T
  BY DEF PartialSums
<1>3. ASSUME NEW n \in T PROVE n + 1 \in T
  <2>1. CASE n + 1 <= Len(s)
    <3>1. n + 1 \in 1..Len(s) /\ (n + 1) - 1 = n /\ a[n] = b[n]
      BY <1>1, <1>3, <2>1
    <3>2. a[n + 1] = a[n] + w[s[n + 1]] /\ b[n + 1] = b[n] + w[s[n + 1]]
      BY <3>1 DEF PartialSums
    <3> QED BY <1>3, <3>1, <3>2
  <2> QED BY <1>1, <1>3, <2>1
<1> HIDE DEF T
<1>4. T = Nat
  <2>1. T \in SUBSET Nat
    BY DEF T
  <2> QED BY <1>2, <1>3, <2>1, SetInduction
<1>5. \A i \in 0..Len(s) : a[i] = b[i]
  BY <1>1, <1>4 DEF T
<1> QED BY <1>5 DEF PartialSums

\* Whatever has the form of the partial sums gives the sum.
LEMMA SumIs ==
    ASSUME NEW R, NEW w \in [R -> Nat], NEW s \in Seq(R), NEW a, PartialSums(w, s, a)
    PROVE  Sum(w, s) = a[Len(s)]
<1>1. a[Len(s)] \in Nat
  BY DEF PartialSums
<1>2. \A n \in Nat : (\E b : PartialSums(w, s, b) /\ n = b[Len(s)]) => n = a[Len(s)]
  BY OneSum
<1>3. \E b : PartialSums(w, s, b) /\ a[Len(s)] = b[Len(s)]
  OBVIOUS
<1> QED BY <1>1, <1>2, <1>3 DEF Sum

\* There are partial sums.
LEMMA SumExists ==
    ASSUME NEW R, NEW w \in [R -> Nat], NEW s \in Seq(R)
    PROVE  \E a : PartialSums(w, s, a)
<1> DEFINE Up(k, a) ==
             /\ a \in [0..k -> Nat] /\ a[0] = 0
             /\ \A i \in 1..k : a[i] = a[i - 1] + w[s[i]]
           T == {k \in Nat : k <= Len(s) => \E a : Up(k, a)}
<1>1. 0 \in T
  <2> DEFINE z == [i \in 0..0 |-> 0]
  <2>1. z \in [0..0 -> Nat] /\ z[0] = 0 /\ 1..0 = {}
    OBVIOUS
  <2> HIDE DEF z
  <2>2. Up(0, z)
    BY <2>1
  <2> QED BY <2>2
<1>2. ASSUME NEW k \in T PROVE k + 1 \in T
  <2> HIDE DEF Up
  <2>0. k \in Nat /\ Len(s) \in Nat
    BY <1>2
  <2> SUFFICES ASSUME k + 1 <= Len(s) PROVE \E a : Up(k + 1, a)
    BY <2>0
  <2>1. PICK a : Up(k, a)
    BY <1>2, <2>0
  <2> USE DEF Up
  <2> DEFINE b == [i \in 0..(k + 1) |-> IF i = k + 1 THEN a[k] + w[s[k + 1]] ELSE a[i]]
  <2>2. k + 1 \in 1..Len(s) /\ w[s[k + 1]] \in Nat
    OBVIOUS
  <2>3. b \in [0..(k + 1) -> Nat]
    BY <2>1, <2>2
  <2>4. b[0] = 0
    BY <2>1
  <2>5. ASSUME NEW i \in 1..(k + 1) PROVE b[i] = b[i - 1] + w[s[i]]
    BY <2>1, <2>5
  <2> HIDE DEF b
  <2> QED BY <2>3, <2>4, <2>5
<1> HIDE DEF T
<1>3. T = Nat
  <2>1. T \in SUBSET Nat
    BY DEF T
  <2> QED BY <1>1, <1>2, <2>1, SetInduction
<1>4. \E a : Up(Len(s), a)
  <2>1. Len(s) \in T /\ Len(s) <= Len(s)
    BY <1>3
  <2> QED BY <2>1 DEF T
<1> QED BY <1>4 DEF PartialSums

\* A sum is a number, that of no element is 0, and that of one is its weight.
LEMMA SumOfFew ==
    ASSUME NEW R, NEW w \in [R -> Nat]
    PROVE  /\ \A s \in Seq(R) : Sum(w, s) \in Nat
           /\ Sum(w, <<>>) = 0
           /\ \A r \in R : Sum(w, <<r>>) = w[r]
<1>1. ASSUME NEW s \in Seq(R) PROVE Sum(w, s) \in Nat
  <2>1. PICK a : PartialSums(w, s, a)
    BY SumExists
  <2>2. Sum(w, s) = a[Len(s)]
    BY <2>1, SumIs
  <2> QED BY <2>1, <2>2 DEF PartialSums
<1>2. Sum(w, <<>>) = 0
  <2> DEFINE a == [i \in 0..0 |-> 0]
  <2>1. PartialSums(w, <<>>, a) /\ a[0] = 0
    BY DEF PartialSums
  <2>2. <<>> \in Seq(R) /\ Len(<<>>) = 0
    OBVIOUS
  <2> HIDE DEF a
  <2>3. Sum(w, <<>>) = a[Len(<<>>)]
    BY <2>1, <2>2, SumIs
  <2> QED BY <2>1, <2>2, <2>3
<1>3. ASSUME NEW r \in R PROVE Sum(w, <<r>>) = w[r]
  <2> DEFINE a == [i \in 0..1 |-> IF i = 0 THEN 0 ELSE w[r]]
  <2>1. <<r>> \in Seq(R) /\ Len(<<r>>) = 1 /\ <<r>>[1] = r
    OBVIOUS
  <2>2. a \in [0..1 -> Nat] /\ a[0] = 0 /\ a[1] = a[0] + w[r]
    OBVIOUS
  <2> HIDE DEF a
  <2>3. PartialSums(w, <<r>>, a)
    BY <2>1, <2>2 DEF PartialSums
  <2> QED BY <2>1, <2>2, <2>3, SumIs
<1> QED BY <1>1, <1>2, <1>3

\* The sum of a concatenation.
LEMMA SumOfBoth ==
    ASSUME NEW R, NEW w \in [R -> Nat], NEW s \in Seq(R), NEW t \in Seq(R)
    PROVE  Sum(w, s \o t) = Sum(w, s) + Sum(w, t)
<1>1. PICK a : PartialSums(w, s, a)
  BY SumExists
<1>2. PICK b : PartialSums(w, t, b)
  BY SumExists
<1> DEFINE n == Len(s)
           m == Len(t)
           c == [i \in 0..(n + m) |-> IF i <= n THEN a[i] ELSE a[n] + b[i - n]]
<1>3. n \in Nat /\ m \in Nat /\ s \o t \in Seq(R) /\ Len(s \o t) = n + m
  OBVIOUS
<1>4. \A i \in 1..n : (s \o t)[i] = s[i]
  OBVIOUS
<1>5. \A i \in (n + 1)..(n + m) : (s \o t)[i] = t[i - n]
  OBVIOUS
<1> HIDE DEF n, m
<1>a. /\ a \in [0..n -> Nat] /\ a[0] = 0
      /\ \A i \in 1..n : a[i] = a[i - 1] + w[s[i]]
  BY <1>1 DEF PartialSums, n
<1>b. /\ b \in [0..m -> Nat] /\ b[0] = 0
      /\ \A i \in 1..m : b[i] = b[i - 1] + w[t[i]]
  BY <1>2 DEF PartialSums, m
<1>6. c \in [0..(n + m) -> Nat]
  <2>1. ASSUME NEW i \in 0..(n + m) PROVE c[i] \in Nat
    <3>1. CASE i <= n
      BY <1>3, <1>a, <3>1
    <3>2. CASE i > n
      <4>1. i - n \in 0..m /\ n \in 0..n
        BY <1>3, <3>2
      <4> QED BY <1>3, <1>a, <1>b, <3>2, <4>1, SMTT(60)
    <3> QED BY <1>3, <3>1, <3>2
  <2> QED BY <2>1
<1>7. c[0] = 0
  BY <1>3, <1>a
<1>8. ASSUME NEW i \in 1..(n + m) PROVE c[i] = c[i - 1] + w[(s \o t)[i]]
  <2>1. CASE i <= n
    <3>1. i \in 1..n /\ i - 1 \in 0..n /\ c[i] = a[i] /\ c[i - 1] = a[i - 1]
      BY <1>3, <2>1
    <3> QED BY <1>4, <1>a, <3>1
  <2>2. CASE i = n + 1
    <3>1. 1 \in 1..m /\ t[1] \in R
      BY <1>3, <2>2 DEF m
    <3>4. b[1] = b[0] + w[t[1]] /\ b[0] = 0 /\ w[t[1]] \in Nat
      BY <1>b, <3>1
    <3>2. (s \o t)[i] = t[1]
      <4>1. i \in (n + 1)..(n + m) /\ i - n = 1
        BY <1>3, <2>2
      <4> QED BY <1>5, <4>1
    <3>3. c[i] = a[n] + b[1] /\ c[i - 1] = a[n]
      BY <1>3, <2>2
    <3> QED BY <3>2, <3>3, <3>4
  <2>3. CASE i > n + 1
    <3>1. i - n \in 1..m /\ b[i - n] = b[(i - n) - 1] + w[t[i - n]]
          /\ (i - n) - 1 = (i - 1) - n
      BY <1>3, <1>b, <2>3
    <3>2. (s \o t)[i] = t[i - n]
      BY <1>3, <1>5, <2>3
    <3>3. c[i] = a[n] + b[i - n] /\ c[i - 1] = a[n] + b[(i - 1) - n]
      BY <1>3, <2>3
    <3>4. (i - 1) - n \in 0..m /\ n \in 0..n /\ t[i - n] \in R
      BY <1>3, <2>3 DEF m
    <3>5. a[n] \in Nat /\ b[(i - 1) - n] \in Nat /\ w[t[i - n]] \in Nat
      BY <1>a, <1>b, <3>4
    <3> QED BY <3>1, <3>2, <3>3, <3>5, SMTT(60)
  <2> QED BY <1>3, <2>1, <2>2, <2>3, SMTT(60)
<1>9. c[n + m] = a[n] + b[m]
  <2>1. CASE m = 0
    BY <1>3, <1>a, <1>b, <2>1
  <2>2. CASE m # 0
    BY <1>3, <2>2
  <2> QED BY <2>1, <2>2
<1> HIDE DEF c
<1>10. PartialSums(w, s \o t, c)
  BY <1>3, <1>6, <1>7, <1>8 DEF PartialSums
<1>11. Sum(w, s \o t) = c[n + m]
  BY <1>3, <1>10, SumIs
<1>12. Sum(w, s) = a[n] /\ Sum(w, t) = b[m]
  BY <1>1, <1>2, SumIs DEF n, m
<1> QED BY <1>9, <1>11, <1>12

\* Only the weights of the elements count.
LEMMA SumOfSame ==
    ASSUME NEW R, NEW w \in [R -> Nat], NEW v \in [R -> Nat], NEW s \in Seq(R),
           \A i \in 1..Len(s) : v[s[i]] = w[s[i]]
    PROVE  Sum(v, s) = Sum(w, s)
<1>1. PICK a : PartialSums(w, s, a)
  BY SumExists
<1>2. PartialSums(v, s, a)
  BY <1>1 DEF PartialSums
<1>3. Sum(v, s) = a[Len(s)]
  BY <1>2, SumIs
<1> QED BY <1>1, <1>3, SumIs
-----------------------------------------------------------------------------
(* The folds of the models are sums.                                       *)

\* FoldLeft, as the community modules define it: a function on the sets of
\* positions that takes the greatest one out.
Greatest(S) == CHOOSE n \in S : \A m \in S : n >= m
Accumulates(w, s, f) ==
    f = [S \in SUBSET DOMAIN s |->
            IF S = {} THEN 0 ELSE f[S \ {Greatest(S)}] + w[s[Greatest(S)]]]

\* The greatest of the first positions is the last.
LEMMA LastIsGreatest ==
    ASSUME NEW k \in Nat, NEW S \in SUBSET (1..k), k \in S
    PROVE  Greatest(S) = k
<1>1. \A m \in S : k >= m
  OBVIOUS
<1>2. \A n \in S : (\A m \in S : n >= m) => n = k
  OBVIOUS
<1> QED BY <1>1, <1>2 DEF Greatest

\* Such a function exists for every sequence.
LEMMA AccumulatorExists ==
    ASSUME NEW w, NEW R, NEW s \in Seq(R)
    PROVE  \E f : Accumulates(w, s, f)
<1> DEFINE Up(k, f) ==
             f = [S \in SUBSET (1..k) |->
                     IF S = {} THEN 0 ELSE f[S \ {Greatest(S)}] + w[s[Greatest(S)]]]
           T == {k \in Nat : \E f : Up(k, f)}
<1> HIDE DEF Up
<1>1. 0 \in T
  <2> DEFINE z == [S \in SUBSET (1..0) |-> 0]
  <2>1. \A S \in SUBSET (1..0) : S = {}
    OBVIOUS
  <2>2. z = [S \in SUBSET (1..0) |->
               IF S = {} THEN 0 ELSE z[S \ {Greatest(S)}] + w[s[Greatest(S)]]]
    BY <2>1
  <2>3. Up(0, z)
    BY <2>2 DEF Up
  <2> QED BY <2>3
<1>2. ASSUME NEW k \in T PROVE k + 1 \in T
  <2>1. PICK f : Up(k, f)
    OBVIOUS
  <2>2. k \in Nat
    OBVIOUS
  <2> DEFINE g == [S \in SUBSET (1..(k + 1)) |->
                    IF S = {} THEN 0
                    ELSE IF k + 1 \in S THEN f[S \ {k + 1}] + w[s[k + 1]] ELSE f[S]]
  <2>3. ASSUME NEW S \in SUBSET (1..(k + 1))
        PROVE  g[S] = IF S = {} THEN 0 ELSE g[S \ {Greatest(S)}] + w[s[Greatest(S)]]
    <3>1. CASE S = {}
      BY <3>1
    <3>2. CASE k + 1 \in S
      <4>1. Greatest(S) = k + 1
        BY <2>2, <3>2, LastIsGreatest
      <4>2. S \ {k + 1} \in SUBSET (1..k) /\ S \ {k + 1} \in SUBSET (1..(k + 1))
        BY <2>2
      <4>3. f[{}] = 0
        BY <2>1 DEF Up
      <4>4. g[S \ {k + 1}] = f[S \ {k + 1}]
        BY <4>2, <4>3
      <4> QED BY <3>2, <4>1, <4>4
    <3>3. CASE S # {} /\ k + 1 \notin S
      <4>1. S \in SUBSET (1..k)
        BY <2>2, <3>3
      <4> DEFINE U == S \ {Greatest(S)}
      <4>2. U \in SUBSET (1..k) /\ U \in SUBSET (1..(k + 1)) /\ k + 1 \notin U
        BY <2>2, <3>3, <4>1
      <4>3. f[S] = f[U] + w[s[Greatest(S)]]
        BY <2>1, <3>3, <4>1 DEF Up
      <4>4. f[{}] = 0
        BY <2>1 DEF Up
      <4>5. g[U] = f[U] /\ g[S] = f[S]
        BY <3>3, <4>2, <4>4
      <4> QED BY <3>3, <4>3, <4>5
    <3> QED BY <3>1, <3>2, <3>3
  <2>4. g = [S \in SUBSET (1..(k + 1)) |->
               IF S = {} THEN 0 ELSE g[S \ {Greatest(S)}] + w[s[Greatest(S)]]]
    BY <2>3
  <2>5. Up(k + 1, g)
    BY <2>4 DEF Up
  <2> QED BY <2>2, <2>5
<1>3. T = Nat
  <2>1. T \in SUBSET Nat
    OBVIOUS
  <2> HIDE DEF T
  <2> QED BY <1>1, <1>2, <2>1, SetInduction
<1>4. PICK f : Up(Len(s), f)
  <2> HIDE DEF T
  <2>1. Len(s) \in T
    BY <1>3
  <2> QED BY <2>1 DEF T
<1>5. DOMAIN s = 1..Len(s)
  OBVIOUS
<1> QED BY <1>4, <1>5 DEF Up, Accumulates

\* It holds the partial sums.
LEMMA AccumulatorSums ==
    ASSUME NEW R, NEW w \in [R -> Nat], NEW s \in Seq(R)
    PROVE  (CHOOSE f : Accumulates(w, s, f))[DOMAIN s] = Sum(w, s)
<1> DEFINE f == CHOOSE h : Accumulates(w, s, h)
           a == [i \in 0..Len(s) |-> f[1..i]]
           T == {i \in Nat : i <= Len(s) => f[1..i] \in Nat}
<1>1. Accumulates(w, s, f)
  BY AccumulatorExists
<1>2. DOMAIN s = 1..Len(s) /\ Len(s) \in Nat
  OBVIOUS
<1> HIDE DEF f
<1>3. f[1..0] = 0
  <2>1. 1..0 = {} /\ {} \in SUBSET (1..Len(s))
    OBVIOUS
  <2> QED BY <1>1, <1>2, <2>1 DEF Accumulates
<1>4. ASSUME NEW i \in 1..Len(s) PROVE f[1..i] = f[1..(i - 1)] + w[s[i]]
  <2>1. i \in Nat /\ 1..i \in SUBSET (1..i) /\ i \in 1..i /\ 1..i \in SUBSET (1..Len(s))
    BY <1>2
  <2>2. Greatest(1..i) = i
    BY <2>1, LastIsGreatest
  <2>3. (1..i) \ {i} = 1..(i - 1)
    OBVIOUS
  <2> QED BY <1>1, <1>2, <2>1, <2>2, <2>3 DEF Accumulates
<1>5. ASSUME NEW n \in T PROVE n + 1 \in T
  <2>1. CASE n + 1 <= Len(s)
    <3>1. n + 1 \in 1..Len(s) /\ (n + 1) - 1 = n /\ f[1..n] \in Nat
      BY <1>2, <2>1
    <3>2. s[n + 1] \in R /\ w[s[n + 1]] \in Nat
      BY <3>1
    <3>3. f[1..(n + 1)] = f[1..n] + w[s[n + 1]]
      BY <1>4, <3>1
    <3> QED BY <3>1, <3>2, <3>3
  <2> QED BY <1>2, <2>1
<1>6. 0 \in T
  BY <1>3
<1>7. T = Nat
  <2>1. T \in SUBSET Nat
    OBVIOUS
  <2> HIDE DEF T
  <2> QED BY <1>5, <1>6, <2>1, SetInduction
<1>8. a \in [0..Len(s) -> Nat]
  <2>1. \A i \in 0..Len(s) : i \in T /\ i <= Len(s)
    BY <1>2, <1>7
  <2>2. \A i \in 0..Len(s) : f[1..i] \in Nat
    BY <2>1
  <2> QED BY <2>2
<1>9. PartialSums(w, s, a)
  <2>1. a[0] = 0
    BY <1>2, <1>3
  <2>2. \A i \in 1..Len(s) : a[i] = a[i - 1] + w[s[i]]
    BY <1>2, <1>4
  <2> QED BY <1>8, <2>1, <2>2 DEF PartialSums
<1>10. a[Len(s)] = f[DOMAIN s]
  BY <1>2
<1> HIDE DEF a
<1>11. Sum(w, s) = a[Len(s)]
  BY <1>9, SumIs
<1> QED BY <1>10, <1>11 DEF f

\* ItemsOf of the batchers and Items of what they promise.
LEMMA ItemsAreSums ==
    ASSUME NEW s \in Seq(Callers)
    PROVE  /\ size \in [Callers -> Nat] => Batching!ItemsOf(s) = Sum(size, s)
           /\ Batching!AdmittedSize \in [Callers -> Nat] =>
                  Batching!Abstract!Items(s) = Sum(Batching!AdmittedSize, s)
<1>1. Batching!ItemsOf(s) = (CHOOSE f : Accumulates(size, s, f))[DOMAIN s]
  BY DEF Batching!ItemsOf, Batching!FoldLeft, Batching!MapThenFoldSet, Batching!Max,
      Greatest, Accumulates
<1>2. Batching!Abstract!Items(s)
        = (CHOOSE f : Accumulates(Batching!AdmittedSize, s, f))[DOMAIN s]
  BY DEF Batching!Abstract!Items, Batching!Abstract!FoldLeft,
      Batching!Abstract!MapThenFoldSet, Batching!Abstract!Max, Greatest, Accumulates
<1>3. size \in [Callers -> Nat] => Batching!ItemsOf(s) = Sum(size, s)
  BY <1>1, AccumulatorSums
<1>4. Batching!AdmittedSize \in [Callers -> Nat] =>
          Batching!Abstract!Items(s) = Sum(Batching!AdmittedSize, s)
  <2> HIDE DEF Batching!AdmittedSize
  <2> QED BY <1>2, AccumulatorSums
<1> QED BY <1>3, <1>4
\* A sequence is what it begins with and the rest.
LEMMA Splits ==
    ASSUME NEW R, NEW s \in Seq(R), NEW n \in 0..Len(s)
    PROVE  /\ SubSeq(s, 1, n) \in Seq(R) /\ Len(SubSeq(s, 1, n)) = n
           /\ \A i \in 1..n : SubSeq(s, 1, n)[i] = s[i]
           /\ SubSeq(s, n + 1, Len(s)) \in Seq(R)
           /\ Len(SubSeq(s, n + 1, Len(s))) = Len(s) - n
           /\ \A i \in 1..(Len(s) - n) : SubSeq(s, n + 1, Len(s))[i] = s[n + i]
           /\ SubSeq(s, 1, n) \o SubSeq(s, n + 1, Len(s)) = s
<1> DEFINE b == SubSeq(s, 1, n)
           e == SubSeq(s, n + 1, Len(s))
<1>1. b \in Seq(R) /\ Len(b) = n /\ \A i \in 1..n : b[i] = s[i]
  BY SubSeqProperties
<1>2. e \in Seq(R) /\ Len(e) = Len(s) - n /\ \A i \in 1..(Len(s) - n) : e[i] = s[n + i]
  BY SubSeqProperties
<1>3. b \o e = SubSeq(s, 1, Len(s))
  <2>1. 1 \in 1..(Len(s) + 1) /\ n \in (1 - 1)..Len(s) /\ Len(s) \in n..Len(s)
    OBVIOUS
  <2> QED BY <2>1, ConcatAdjacentSubSeq
<1>4. SubSeq(s, 1, Len(s)) = s
  BY SubSeqFull
<1> QED BY <1>1, <1>2, <1>3, <1>4

\* The partial sums are the sums of the beginnings.
LEMMA SumOfBeginning ==
    ASSUME NEW R, NEW w \in [R -> Nat], NEW s \in Seq(R), NEW a, PartialSums(w, s, a),
           NEW n \in 0..Len(s)
    PROVE  Sum(w, SubSeq(s, 1, n)) = a[n]
<1> DEFINE b == SubSeq(s, 1, n)
           c == [i \in 0..n |-> a[i]]
<1>1. b \in Seq(R) /\ Len(b) = n /\ \A i \in 1..n : b[i] = s[i]
  BY Splits
<1>2. n \in Nat /\ Len(s) \in Nat /\ n <= Len(s)
  OBVIOUS
<1>3. c \in [0..n -> Nat] /\ c[0] = 0 /\ c[n] = a[n]
  BY <1>2 DEF PartialSums
<1>4. ASSUME NEW i \in 1..n PROVE c[i] = c[i - 1] + w[b[i]]
  <2>1. i \in 1..Len(s) /\ c[i] = a[i] /\ c[i - 1] = a[i - 1]
    BY <1>2
  <2> QED BY <1>1, <2>1 DEF PartialSums
<1> HIDE DEF b, c
<1>5. PartialSums(w, b, c)
  BY <1>1, <1>3, <1>4 DEF PartialSums
<1>6. Sum(w, b) = c[n]
  BY <1>1, <1>5, SumIs
<1> QED BY <1>3, <1>6 DEF b

\* The sum of a sequence that begins with a positive weight.
LEMMA SumPositive ==
    ASSUME NEW R, NEW w \in [R -> Nat], NEW s \in Seq(R), 1 \in 1..Len(s), w[s[1]] >= 1
    PROVE  Sum(w, s) \in Nat /\ Sum(w, s) >= 1
<1>1. PICK a : PartialSums(w, s, a)
  BY SumExists
<1>2. 1 \in 0..Len(s)
  OBVIOUS
<1> DEFINE t == SubSeq(s, 1, 1)
           u == SubSeq(s, 2, Len(s))
<1>3. t \in Seq(R) /\ u \in Seq(R) /\ t \o u = s
  <2>1. SubSeq(s, 1, 1) \in Seq(R) /\ SubSeq(s, 1 + 1, Len(s)) \in Seq(R)
        /\ SubSeq(s, 1, 1) \o SubSeq(s, 1 + 1, Len(s)) = s
    BY <1>2, Splits
  <2> QED BY <2>1
<1>4. Sum(w, t) = a[1]
  BY <1>1, <1>2, SumOfBeginning
<1>5. a[1] = w[s[1]] /\ a[1] \in Nat
  BY <1>1, <1>2 DEF PartialSums
<1> HIDE DEF t, u
<1>6. Sum(w, t \o u) = Sum(w, t) + Sum(w, u)
  BY <1>3, SumOfBoth
<1>7. Sum(w, u) \in Nat
  BY <1>3, SumOfFew
<1> QED BY <1>3, <1>4, <1>5, <1>6, <1>7

-----------------------------------------------------------------------------
(* Flattening.                                                             *)

\* FlattenSeq, as the community modules define it.
Flattens(q, n, f) == f = [i \in 1..n |-> IF i = 1 THEN q[i] ELSE f[i - 1] \o q[i]]

\* Such a function exists.
LEMMA FlatteningExists ==
    ASSUME NEW q, NEW m \in Nat
    PROVE  \E f : Flattens(q, m, f)
<1> DEFINE T == {n \in Nat : \E f : Flattens(q, n, f)}
<1>1. 0 \in T
  <2> DEFINE z == [i \in 1..0 |-> 0]
  <2>1. z = [i \in 1..0 |-> IF i = 1 THEN q[i] ELSE z[i - 1] \o q[i]]
    OBVIOUS
  <2>2. Flattens(q, 0, z)
    BY <2>1 DEF Flattens
  <2> QED BY <2>2
<1>2. ASSUME NEW n \in T PROVE n + 1 \in T
  <2>1. PICK f : Flattens(q, n, f)
    OBVIOUS
  <2>2. n \in Nat
    OBVIOUS
  <2> DEFINE g == [i \in 1..(n + 1) |->
                    IF i = 1 THEN q[1] ELSE IF i = n + 1 THEN f[n] \o q[n + 1] ELSE f[i]]
  <2>3. ASSUME NEW i \in 1..(n + 1)
        PROVE  g[i] = IF i = 1 THEN q[i] ELSE g[i - 1] \o q[i]
    <3>1. CASE i = 1
      BY <3>1
    <3>2. CASE i # 1
      <4>1. i - 1 \in 1..n /\ i - 1 \in 1..(n + 1) /\ i - 1 # n + 1
        BY <2>2, <3>2
      <4>2. 1 \in 1..n => f[1] = q[1]
        BY <2>1 DEF Flattens
      <4>3. g[i - 1] = f[i - 1]
        BY <4>1, <4>2
      <4>4. CASE i = n + 1
        <5>1. n + 1 \in 1..(n + 1) /\ n + 1 # 1 /\ i - 1 = n
          BY <2>2, <3>2, <4>4
        <5>2. g[n + 1] = f[n] \o q[n + 1]
          BY <5>1
        <5> QED BY <3>2, <4>3, <4>4, <5>1, <5>2
      <4>5. CASE i # n + 1
        <5>1. i \in 1..n /\ g[i] = f[i]
          BY <2>2, <3>2, <4>5
        <5>2. f[i] = f[i - 1] \o q[i]
          BY <2>1, <3>2, <5>1 DEF Flattens
        <5> QED BY <3>2, <4>3, <5>1, <5>2
      <4> QED BY <4>4, <4>5
    <3> QED BY <3>1, <3>2
  <2>4. g = [i \in 1..(n + 1) |-> IF i = 1 THEN q[i] ELSE g[i - 1] \o q[i]]
    BY <2>3
  <2>5. Flattens(q, n + 1, g)
    BY <2>4 DEF Flattens
  <2> QED BY <2>2, <2>5
<1>3. T = Nat
  <2>1. T \in SUBSET Nat
    OBVIOUS
  <2> HIDE DEF T
  <2> QED BY <1>1, <1>2, <2>1, SetInduction
<1> HIDE DEF T
<1>4. m \in T
  BY <1>3
<1> QED BY <1>4 DEF T

\* The elements of a concatenation, for a first part of known length.
LEMMA ConcatAt ==
    ASSUME NEW E, NEW s \in Seq(E), NEW t \in Seq(E), NEW n, n = Len(s)
    PROVE  /\ s \o t \in Seq(E)
           /\ Len(s \o t) = n + Len(t)
           /\ \A k \in 1..(n + Len(t)) : (s \o t)[k] = IF k <= n THEN s[k] ELSE t[k - n]
  BY ConcatProperties

\* Where each of the sequences ends.
Offsets(q, m, a) ==
    /\ a \in [0..m -> Nat] /\ a[0] = 0
    /\ \A i \in 1..m : a[i] = a[i - 1] + Len(q[i])

\* The elements of the i-th sequence come after those before.
Places(E, q, m, f, a) ==
    \A n \in 1..m :
        /\ f[n] \in Seq(E) /\ Len(f[n]) = a[n]
        /\ \A i \in 1..n : \A j \in 1..Len(q[i]) : f[n][a[i - 1] + j] = q[i][j]

\* That is what a flattening does.
LEMMA FlatteningPlaces ==
    ASSUME NEW E, NEW m \in Nat, NEW q \in [1..m -> Seq(E)], NEW f, Flattens(q, m, f),
           NEW a, Offsets(q, m, a)
    PROVE  Places(E, q, m, f, a)
<1> DEFINE Placed(n) ==
             /\ f[n] \in Seq(E) /\ Len(f[n]) = a[n]
             /\ \A i \in 1..n : \A j \in 1..Len(q[i]) : f[n][a[i - 1] + j] = q[i][j]
           T == {n \in Nat : n \in 1..m => Placed(n)}
           Ends(n) == \A i \in 1..n : \A j \in 1..Len(q[i]) : a[i - 1] + j \in 1..a[n]
           U == {n \in Nat : n <= m => Ends(n)}
<1>1. \A i \in 1..m : Len(q[i]) \in Nat /\ a[i] \in Nat /\ a[i - 1] \in Nat
  BY DEF Offsets
<1>0. a[0] = 0
  BY DEF Offsets
<1>2. ASSUME NEW n \in U PROVE n + 1 \in U
  <2> SUFFICES ASSUME n + 1 <= m, NEW i \in 1..(n + 1), NEW j \in 1..Len(q[i])
      PROVE  a[i - 1] + j \in 1..a[n + 1]
    OBVIOUS
  <2>1. n \in Nat /\ n <= m /\ n + 1 \in 1..m /\ (n + 1) - 1 = n
    OBVIOUS
  <2>5. i \in 1..m /\ a[i - 1] \in Nat /\ Len(q[i]) \in Nat
    BY <1>1, <2>1
  <2>2. a[n + 1] = a[n] + Len(q[n + 1]) /\ a[n] \in Nat /\ Len(q[n + 1]) \in Nat
    BY <1>1, <2>1 DEF Offsets
  <2>3. CASE i = n + 1
    BY <2>1, <2>2, <2>3
  <2>4. CASE i # n + 1
    <3>1. i \in 1..n
      BY <2>1, <2>4
    <3>2. a[i - 1] + j \in 1..a[n]
      BY <2>1, <3>1
    <3>3. a[i - 1] + j \in Nat
      BY <2>5
    <3> QED BY <2>2, <3>2, <3>3
  <2> QED BY <2>3, <2>4
<1>3. 0 \in U
  OBVIOUS
<1>4. U = Nat
  <2>1. U \in SUBSET Nat
    OBVIOUS
  <2> HIDE DEF U
  <2> QED BY <1>2, <1>3, <2>1, SetInduction
<1>5. \A n \in 0..m : Ends(n)
  <2> HIDE DEF Ends
  <2>1. \A n \in 0..m : n \in U /\ n <= m
    BY <1>4
  <2> QED BY <2>1
<1> HIDE DEF U
<1>6. 0 \in T
  OBVIOUS
<1>7. ASSUME NEW n \in T PROVE n + 1 \in T
  <2> HIDE DEF Placed
  <2> SUFFICES ASSUME n + 1 \in 1..m PROVE Placed(n + 1)
    OBVIOUS
  <2>0. n \in 1..m => Placed(n)
    OBVIOUS
  <2> USE DEF Placed
  <2>1. n \in Nat /\ (n + 1) - 1 = n /\ n \in 0..m
    OBVIOUS
  <2>2. a[n + 1] = a[n] + Len(q[n + 1]) /\ q[n + 1] \in Seq(E)
    BY <2>1 DEF Offsets
  <2> HIDE DEF T
  <2>3. CASE n = 0
    <3>1. f[1] = q[1] /\ n + 1 = 1
      BY <2>3 DEF Flattens
    <3>2. \A j \in 1..Len(q[1]) : a[0] + j = j
      BY <1>0
    <3>3. Len(q[1]) \in Nat
      BY <1>1, <2>3
    <3> QED BY <1>0, <2>2, <2>3, <3>1, <3>2, <3>3
  <2>4. CASE n # 0
    <3>1. n \in 1..m /\ n + 1 # 1
      BY <2>1, <2>4
    <3>2. f[n + 1] = f[n] \o q[n + 1]
      BY <2>1, <3>1 DEF Flattens
    <3>3. Placed(n)
      BY <2>0, <3>1
    <3>6. /\ f[n] \o q[n + 1] \in Seq(E)
          /\ Len(f[n] \o q[n + 1]) = a[n] + Len(q[n + 1])
          /\ \A k \in 1..(a[n] + Len(q[n + 1])) :
                (f[n] \o q[n + 1])[k] = IF k <= a[n] THEN f[n][k] ELSE q[n + 1][k - a[n]]
      <4>1. f[n] \in Seq(E) /\ Len(f[n]) = a[n]
        BY <3>3
      <4> HIDE DEF Placed
      <4>2. q[n + 1] \in Seq(E)
        BY <2>2
      <4> DEFINE u == f[n]
                 v == q[n + 1]
                 l == a[n]
      <4>3. u \in Seq(E) /\ v \in Seq(E) /\ l = Len(u)
        BY <4>1, <4>2
      <4> HIDE DEF u, v, l
      <4>4. /\ u \o v \in Seq(E) /\ Len(u \o v) = l + Len(v)
            /\ \A k \in 1..(l + Len(v)) : (u \o v)[k] = IF k <= l THEN u[k] ELSE v[k - l]
        BY <4>3, ConcatAt
      <4> QED BY <4>4 DEF u, v, l
    <3>7. a[n] \in Nat /\ Len(q[n + 1]) \in Nat
      BY <1>1, <2>1
    <3>4. f[n + 1] \in Seq(E) /\ Len(f[n + 1]) = a[n + 1]
      BY <2>2, <3>2, <3>6
    <3>5. ASSUME NEW i \in 1..(n + 1), NEW j \in 1..Len(q[i])
          PROVE  f[n + 1][a[i - 1] + j] = q[i][j]
      <4>1. CASE i = n + 1
        <5>1. a[i - 1] + j = a[n] + j /\ j \in 1..Len(q[n + 1])
          BY <2>1, <4>1
        <5>2. /\ a[n] + j \in 1..(a[n] + Len(q[n + 1]))
              /\ ~(a[n] + j <= a[n]) /\ (a[n] + j) - a[n] = j
          <6>1. j \in Nat /\ 1 <= j /\ j <= Len(q[n + 1])
            BY <3>7, <5>1
          <6> HIDE DEF Placed, Ends
          <6> QED BY <3>7, <6>1
        <5>3. (f[n] \o q[n + 1])[a[n] + j] = q[n + 1][j]
          BY <3>6, <5>2
        <5> QED BY <3>2, <4>1, <5>1, <5>3
      <4>2. CASE i # n + 1
        <5>1. i \in 1..n
          BY <2>1, <4>2
        <5>2. a[i - 1] + j \in 1..a[n]
          BY <1>5, <2>1, <5>1
        <5>4. a[i - 1] + j \in 1..(a[n] + Len(q[n + 1])) /\ a[i - 1] + j <= a[n]
          <6> HIDE DEF Placed, Ends
          <6> QED BY <3>7, <5>2
        <5>3. f[n][a[i - 1] + j] = q[i][j]
          BY <3>3, <5>1
        <5> QED BY <3>2, <3>6, <5>3, <5>4
      <4> QED BY <4>1, <4>2
    <3> QED BY <3>4, <3>5
  <2> QED BY <2>3, <2>4
<1>8. T = Nat
  <2>1. T \in SUBSET Nat
    OBVIOUS
  <2> HIDE DEF T
  <2> QED BY <1>6, <1>7, <2>1, SetInduction
<1>9. \A n \in 1..m : Placed(n)
  <2> HIDE DEF Placed
  <2>1. \A n \in 1..m : n \in Nat
    OBVIOUS
  <2>2. \A n \in Nat : n \in T
    <3> HIDE DEF T
    <3> QED BY <1>8
  <2> QED BY <2>1, <2>2
<1> QED BY <1>9 DEF Places
-----------------------------------------------------------------------------
(* The batchers of an inference service.                                   *)

\* The items of a batch, each in its place.
LEMMA FlatItemsPlaces ==
    ASSUME size \in [Callers -> Nat], NEW s \in Seq(Callers), s # <<>>
    PROVE  /\ Batching!FlatItems(s) \in Seq(Callers \X (Nat \ {0}))
           /\ Len(Batching!FlatItems(s)) = Sum(size, s)
           /\ \A i \in 1..Len(s) : \A j \in 1..size[s[i]] :
                 Batching!FlatItems(s)[Sum(size, SubSeq(s, 1, i - 1)) + j] = <<s[i], j>>
<1> DEFINE E == Callers \X (Nat \ {0})
           m == Len(s)
           q == [i \in DOMAIN s |-> Batching!Own(s[i])]
           f == CHOOSE g : Flattens(q, m, g)
<1>1. m \in Nat /\ DOMAIN s = 1..m /\ m # 0
  BY EmptySeq
<1>2. ASSUME NEW i \in 1..m
      PROVE  /\ q[i] = [j \in 1..size[s[i]] |-> <<s[i], j>>]
             /\ q[i] \in Seq(E) /\ Len(q[i]) = size[s[i]]
  <2>1. s[i] \in Callers /\ size[s[i]] \in Nat
    OBVIOUS
  <2>2. q[i] = [j \in 1..size[s[i]] |-> <<s[i], j>>]
    BY <1>1 DEF Batching!Own
  <2>3. q[i] \in [1..size[s[i]] -> E]
    BY <2>1, <2>2
  <2> HIDE DEF q, E
  <2>4. q[i] \in Seq(E)
    <3>1. q[i] \in UNION {[1..k -> E] : k \in Nat}
      BY <2>1, <2>3
    <3> QED BY <3>1, SeqDef
  <2>5. DOMAIN q[i] = 1..size[s[i]]
    BY <2>3
  <2> QED BY <2>1, <2>2, <2>4, <2>5, LenProperties
<1>3. q \in [1..m -> Seq(E)]
  BY <1>1, <1>2
<1>4. PICK a : PartialSums(size, s, a)
  BY SumExists
<1>5. Offsets(q, m, a)
  BY <1>2, <1>4 DEF PartialSums, Offsets
<1>6. Len(q) = m
  <2>1. DOMAIN q = 1..m
    BY <1>1
  <2> HIDE DEF q, m
  <2> QED BY <1>1, <1>3, <2>1, LenProperties
<1>7. Batching!FlatItems(s) = f[m]
  <2>1. Batching!FlatItems(s) = Batching!FlattenSeq(q)
    BY DEF Batching!FlatItems
  <2> HIDE DEF q, m
  <2> QED BY <1>1, <1>6, <2>1 DEF Batching!FlattenSeq, Flattens, f
<1> HIDE DEF q, m, f
<1>8. Flattens(q, m, f)
  BY <1>1, FlatteningExists DEF f
<1>9. /\ f[m] \in Seq(E) /\ Len(f[m]) = a[m]
      /\ \A i \in 1..m : \A j \in 1..Len(q[i]) : f[m][a[i - 1] + j] = q[i][j]
  <2>1. m \in 1..m
    BY <1>1
  <2> HIDE DEF E
  <2>2. Places(E, q, m, f, a)
    BY <1>1, <1>3, <1>5, <1>8, FlatteningPlaces
  <2> QED BY <2>1, <2>2 DEF Places
<1>10. Sum(size, s) = a[m]
  BY <1>4, SumIs DEF m
<1>11. ASSUME NEW i \in 1..m, NEW j \in 1..size[s[i]]
       PROVE  f[m][Sum(size, SubSeq(s, 1, i - 1)) + j] = <<s[i], j>>
  <2>1. i - 1 \in 0..Len(s)
    BY <1>1 DEF m
  <2>2. Sum(size, SubSeq(s, 1, i - 1)) = a[i - 1]
    BY <1>4, <2>1, SumOfBeginning
  <2>3. f[m][a[i - 1] + j] = q[i][j]
    BY <1>2, <1>9
  <2>4. q[i][j] = <<s[i], j>>
    <3>1. q[i] = [k \in 1..size[s[i]] |-> <<s[i], k>>]
      BY <1>2
    <3> QED BY <3>1
  <2> QED BY <2>2, <2>3, <2>4
<1> QED BY <1>7, <1>9, <1>10, <1>11 DEF m
Busy == {"process", "answer", "release"}

\* The reservation is that of the queue and of the batch under way.
Exact(b) ==
    /\ reserved[b] = Sum(size, pending[b]) + Sum(size, batch[b])
    /\ reserved[b] <= MaxQueue

\* A worker has a batch while it works on one, and no larger than allowed.
Taken(b) ==
    IF runner[b] \in Busy THEN batch[b] # <<>> /\ Sum(size, batch[b]) <= MaxItems
    ELSE batch[b] = <<>>

\* As many results as items are those of the items, in their order.
Returned(b) ==
    runner[b] = "answer" /\ Len(results[b]) = Sum(size, batch[b]) =>
        \A i \in 1..Len(batch[b]) : \A j \in 1..size[batch[b][i]] :
            results[b][Sum(size, SubSeq(batch[b], 1, i - 1)) + j] = <<batch[b][i], j>>

\* What waits in the queue or in the batch was accepted.
Admitted(b) ==
    /\ \A i \in 1..Len(pending[b]) : future[pending[b][i]] # "none"
    /\ \A i \in 1..Len(batch[b]) : future[batch[b][i]] # "none"

BatcherBooks(b) == Exact(b) /\ Taken(b) /\ Returned(b) /\ Admitted(b)
AllBooks == \A b \in 1..NBatchers : BatcherBooks(b)

\* A request has no future before it is accepted, and then at least one item.
Waits ==
    \A r \in Callers :
        /\ caller[r] \in {"new", "submit"} => future[r] = "none"
        /\ caller[r] # "new" => size[r] >= 1
        /\ future[r] # "none" => size[r] >= 1

\* Workers run between the loading of the back end and its closing.
Serves ==
    /\ service = "loading" => \A b \in 1..NBatchers : runner[b] = "none"
    /\ service \in {"starting", "ready"} => backend = "open"
    /\ \A b \in 1..NBatchers : runner[b] \notin {"none", "stopped"} => backend = "open"
    /\ \A b \in 1..NBatchers : runner[b] = "stopped" => ending[b] /\ pending[b] = <<>>

\* The inductive invariant of the batchers.
BatchInv == Batching!TypeOK /\ AllBooks /\ Waits /\ Serves

\* The invariant gives the property of the run.
LEMMA BatchInvSuffices == BatchInv => BatchersSound
<1> SUFFICES ASSUME BatchInv PROVE BatchersSound
  OBVIOUS
<1>1. size \in [Callers -> Nat]
  BY DEF BatchInv, Batching!TypeOK
<1>2. ASSUME NEW b \in 1..NBatchers
      PROVE  /\ reserved[b] = Batching!ItemsOf(pending[b] \o batch[b])
             /\ reserved[b] <= MaxQueue
             /\ runner[b] \notin {"none", "stopped"} => backend = "open"
             /\ runner[b] = "stopped" => pending[b] = <<>> /\ batch[b] = <<>>
                  /\ reserved[b] = 0
  <2>1. pending[b] \in Seq(Callers) /\ batch[b] \in Seq(Callers)
    BY DEF BatchInv, Batching!TypeOK, Batching!Batchers
  <2>2. pending[b] \o batch[b] \in Seq(Callers)
    BY <2>1, ConcatProperties
  <2>3. Batching!ItemsOf(pending[b] \o batch[b]) = Sum(size, pending[b]) + Sum(size, batch[b])
    BY <1>1, <2>1, <2>2, ItemsAreSums, SumOfBoth
  <2>4. Exact(b) /\ Taken(b)
    BY DEF BatchInv, AllBooks, BatcherBooks
  <2>5. runner[b] = "stopped" => pending[b] = <<>> /\ batch[b] = <<>>
    BY <2>4 DEF BatchInv, Serves, Taken, Busy
  <2>6. Sum(size, <<>>) = 0
    BY <1>1, SumOfFew
  <2>7. runner[b] = "stopped" => reserved[b] = 0
    BY <2>4, <2>5, <2>6 DEF Exact
  <2> QED BY <2>3, <2>4, <2>5, <2>7 DEF BatchInv, Serves, Exact
<1> QED
  BY <1>2 DEF BatchersSound, Batching!BatchersSound, Batching!ReservationExact,
      Batching!BackendOpenInUse, Batching!Batchers, BatchInv

\* It holds at the start.
LEMMA BatchInit == Batching!Init => BatchInv
<1> SUFFICES ASSUME Batching!Init PROVE BatchInv
  OBVIOUS
<1> USE DEF Batching!Init, Batching!Batchers
<1>1. size \in [Callers -> Nat] /\ size \in [Callers -> 0..MaxSize]
  BY QueueConstants
<1>2. Batching!TypeOK
  <2>1. 1 \in 1..NBatchers
    BY BatchingConstants
  <2> QED BY <1>1, <2>1 DEF Batching!TypeOK, Batching!Place
<1>3. ASSUME NEW b \in 1..NBatchers PROVE BatcherBooks(b)
  <2>1. Sum(size, <<>>) = 0
    BY <1>1, SumOfFew
  <2>2. Exact(b)
    BY <2>1, BatchingConstants DEF Exact
  <2>3. Len(pending[b]) = 0 /\ Len(batch[b]) = 0
    OBVIOUS
  <2> QED BY <2>2, <2>3 DEF BatcherBooks, Taken, Returned, Admitted, Busy
<1>4. Waits /\ Serves
  BY DEF Waits, Serves
<1> QED BY <1>2, <1>3, <1>4 DEF BatchInv, AllBooks
\* What no step does: take a future back, or change what was accepted.
Keeps ==
    \A r \in Callers : future[r] # "none" => future'[r] # "none" /\ size'[r] = size[r]

\* The sums of accepted requests stay.
LEMMA SumKept ==
    ASSUME size \in [Callers -> Nat], size' \in [Callers -> Nat], Keeps,
           NEW s \in Seq(Callers), \A i \in 1..Len(s) : future[s[i]] # "none"
    PROVE  /\ Sum(size', s) = Sum(size, s)
           /\ \A i \in 1..Len(s) : size'[s[i]] = size[s[i]] /\ future'[s[i]] # "none"
           /\ \A n \in 0..Len(s) : Sum(size', SubSeq(s, 1, n)) = Sum(size, SubSeq(s, 1, n))
<1>1. \A i \in 1..Len(s) : size'[s[i]] = size[s[i]] /\ future'[s[i]] # "none"
  BY DEF Keeps
<1>2. Sum(size', s) = Sum(size, s)
  BY <1>1, SumOfSame
<1>3. ASSUME NEW n \in 0..Len(s)
      PROVE  Sum(size', SubSeq(s, 1, n)) = Sum(size, SubSeq(s, 1, n))
  <2> DEFINE b == SubSeq(s, 1, n)
  <2>1. b \in Seq(Callers) /\ Len(b) = n /\ \A i \in 1..n : b[i] = s[i]
    BY Splits
  <2>2. \A i \in 1..n : i \in 1..Len(s)
    OBVIOUS
  <2> HIDE DEF b
  <2>3. \A i \in 1..Len(b) : size'[b[i]] = size[b[i]]
    BY <1>1, <2>1, <2>2
  <2>4. Sum(size', b) = Sum(size, b)
    BY <2>1, <2>3, SumOfSame
  <2> QED BY <2>4 DEF b
<1> QED BY <1>1, <1>2, <1>3

\* What a batcher holds are sequences of requests, and sizes are numbers.
LEMMA BatcherTypes ==
    ASSUME Batching!TypeOK, NEW b \in 1..NBatchers
    PROVE  /\ pending[b] \in Seq(Callers) /\ batch[b] \in Seq(Callers)
           /\ results[b] \in Seq(Callers \X (Nat \ {0}))
           /\ reserved[b] \in Nat
           /\ size \in [Callers -> Nat]
<1>1. /\ pending[b] \in Seq(Callers) /\ batch[b] \in Seq(Callers)
      /\ results[b] \in Seq(Callers \X (Nat \ {0})) /\ reserved[b] \in Nat
  BY DEF Batching!TypeOK, Batching!Batchers
<1>2. size \in [Callers -> Nat]
  BY DEF Batching!TypeOK
<1> QED BY <1>1, <1>2

\* A batcher whose queue, batch and results stay keeps its books, wherever its
\* worker goes, if it is no more and no less at work.
LEMMA BooksKept ==
    ASSUME Batching!TypeOK, size' \in [Callers -> Nat], Keeps,
           NEW b \in 1..NBatchers, BatcherBooks(b),
           pending'[b] = pending[b], batch'[b] = batch[b], results'[b] = results[b],
           reserved'[b] = reserved[b],
           \/ runner'[b] = runner[b]
           \/ runner'[b] # "answer" /\ (runner'[b] \in Busy <=> runner[b] \in Busy)
    PROVE  BatcherBooks(b)'
<1>1. pending[b] \in Seq(Callers) /\ batch[b] \in Seq(Callers) /\ size \in [Callers -> Nat]
  BY BatcherTypes
<1>2. /\ \A i \in 1..Len(pending[b]) : future[pending[b][i]] # "none"
      /\ \A i \in 1..Len(batch[b]) : future[batch[b][i]] # "none"
  BY DEF BatcherBooks, Admitted
<1> DEFINE s == pending[b]
           t == batch[b]
<1> HIDE DEF s, t
<1>3. /\ Sum(size', s) = Sum(size, s)
      /\ \A i \in 1..Len(s) : future'[s[i]] # "none"
  BY <1>1, <1>2, SumKept DEF s
<1>4. /\ Sum(size', t) = Sum(size, t)
      /\ \A i \in 1..Len(t) : size'[t[i]] = size[t[i]] /\ future'[t[i]] # "none"
      /\ \A n \in 0..Len(t) : Sum(size', SubSeq(t, 1, n)) = Sum(size, SubSeq(t, 1, n))
  BY <1>1, <1>2, SumKept DEF t
<1>5. Exact(b)'
  BY <1>3, <1>4 DEF BatcherBooks, Exact, s, t
<1>6. Taken(b)'
  BY <1>4 DEF BatcherBooks, Taken, t
<1>7. Returned(b)'
  <2> SUFFICES ASSUME runner'[b] = "answer", Len(results[b]) = Sum(size', t),
                      NEW i \in 1..Len(t), NEW j \in 1..size'[t[i]]
      PROVE  results[b][Sum(size', SubSeq(t, 1, i - 1)) + j] = <<t[i], j>>
    BY DEF Returned, t
  <2>1. runner[b] = "answer" /\ Len(results[b]) = Sum(size, t) /\ j \in 1..size[t[i]]
    BY <1>4
  <2>2. i - 1 \in 0..Len(t)
    BY <1>1 DEF t
  <2>3. Sum(size', SubSeq(t, 1, i - 1)) = Sum(size, SubSeq(t, 1, i - 1))
    BY <1>4, <2>2
  <2>4. results[b][Sum(size, SubSeq(t, 1, i - 1)) + j] = <<t[i], j>>
    BY <2>1 DEF BatcherBooks, Returned, t
  <2> QED BY <2>3, <2>4
<1>8. Admitted(b)'
  BY <1>3, <1>4 DEF Admitted, s, t
<1> QED BY <1>5, <1>6, <1>7, <1>8 DEF BatcherBooks

-----------------------------------------------------------------------------
\* A request is accepted.
LEMMA AdmitKeeps ==
    ASSUME BatchInv, NEW r \in Callers, Batching!Admit(r)
    PROVE  BatchInv'
<1>b. PICK b \in 1..NBatchers : b = target[r]
  BY DEF BatchInv, Batching!TypeOK, Batching!Batchers
<1> USE DEF Batching!life, Batching!queue, Batching!work, Batching!client, Batching!outcome
<1>1. /\ size \in [Callers -> Nat] /\ size[r] \in Nat
      /\ pending[b] \in Seq(Callers) /\ batch[b] \in Seq(Callers) /\ reserved[b] \in Nat
  BY BatcherTypes DEF BatchInv
<1>2. /\ caller[r] = "submit" /\ future[r] = "none" /\ size[r] >= 1 /\ ~ending[b]
      /\ reserved[b] + size[r] <= MaxQueue
  BY <1>b DEF BatchInv, Waits, Batching!Admit, Batching!Fits
<1>3. /\ reserved' = [reserved EXCEPT ![b] = @ + size[r]]
      /\ pending' = [pending EXCEPT ![b] = Append(@, r)]
      /\ notified' = [notified EXCEPT ![b] = TRUE]
      /\ caller' = [caller EXCEPT ![r] = "waiting"]
      /\ future' = [future EXCEPT ![r] = "pending"]
      /\ UNCHANGED <<service, backend, ending, runner, batch, results, target, size, answer>>
  BY <1>b DEF Batching!Admit, Batching!NotifyWorker
<1>4. Batching!TypeOK'
  <2>1. reserved' \in [Batching!Batchers -> Nat]
    BY <1>1, <1>3 DEF BatchInv, Batching!TypeOK, Batching!Batchers
  <2>2. pending' \in [Batching!Batchers -> Seq(Callers)]
    BY <1>1, <1>3 DEF BatchInv, Batching!TypeOK, Batching!Batchers
  <2>3. caller' \in [Callers -> {"new", "submit", "waiting", "answered", "failed", "full",
                                 "refused", "cancelled"}]
    BY <1>3 DEF BatchInv, Batching!TypeOK
  <2>4. notified' \in [Batching!Batchers -> BOOLEAN]
    BY <1>3 DEF BatchInv, Batching!TypeOK
  <2>5. future' \in [Callers -> {"none", "pending", "done", "error"}]
    BY <1>3 DEF BatchInv, Batching!TypeOK
  <2> QED
    BY <1>3, <2>1, <2>2, <2>3, <2>4, <2>5 DEF BatchInv, Batching!TypeOK
<1>5. Keeps
  BY <1>3 DEF Keeps, BatchInv, Batching!TypeOK
<1>6. ASSUME NEW c \in 1..NBatchers PROVE BatcherBooks(c)'
  <2>1. CASE c # b
    <3>1. pending'[c] = pending[c] /\ reserved'[c] = reserved[c]
      BY <1>3, <2>1 DEF BatchInv, Batching!TypeOK, Batching!Batchers
    <3>2. BatcherBooks(c) /\ Batching!TypeOK /\ size' \in [Callers -> Nat]
      BY <1>1, <1>3 DEF BatchInv, AllBooks
    <3> QED BY <1>3, <1>5, <3>1, <3>2, BooksKept
  <2>2. CASE c = b
    <3> DEFINE s == pending[b]
    <3>1. /\ pending'[b] = Append(s, r) /\ reserved'[b] = reserved[b] + size[r]
          /\ batch'[b] = batch[b] /\ results'[b] = results[b] /\ runner'[b] = runner[b]
          /\ size' = size
      BY <1>1, <1>3 DEF BatchInv, Batching!TypeOK, Batching!Batchers
    <3>2. Append(s, r) = s \o <<r>> /\ <<r>> \in Seq(Callers)
      <4>1. <<r>> \in Seq(Callers)
        OBVIOUS
      <4> QED BY <1>1, <4>1, AppendIsConcat
    <3>3. Sum(size, Append(s, r)) = Sum(size, s) + size[r]
      <4>1. Sum(size, s \o <<r>>) = Sum(size, s) + Sum(size, <<r>>)
        BY <1>1, <3>2, SumOfBoth
      <4>2. Sum(size, <<r>>) = size[r]
        BY <1>1, SumOfFew
      <4> QED BY <3>2, <4>1, <4>2
    <3>4. BatcherBooks(b)
      BY <1>1 DEF BatchInv, AllBooks
    <3>5. Sum(size, s) \in Nat /\ Sum(size, batch[b]) \in Nat
      BY <1>1, SumOfFew
    <3>6. Exact(b)'
      <4> HIDE DEF s
      <4> QED BY <1>1, <1>2, <3>1, <3>3, <3>4, <3>5 DEF BatcherBooks, Exact, s
    <3>7. Taken(b)' /\ Returned(b)'
      <4> HIDE DEF s
      <4> QED BY <3>1, <3>4 DEF BatcherBooks, Taken, Returned
    <3>8. Admitted(b)'
      <4>1. /\ Len(Append(s, r)) = Len(s) + 1 /\ Append(s, r)[Len(s) + 1] = r
            /\ \A i \in 1..Len(s) : Append(s, r)[i] = s[i] /\ s[i] \in Callers
        BY <1>1
      <4>2. future'[r] = "pending" /\ \A q \in Callers : future[q] # "none" => future'[q] # "none"
        BY <1>3 DEF BatchInv, Batching!TypeOK
      <4>3. \A i \in 1..Len(s) : future[s[i]] # "none"
        BY <3>4 DEF BatcherBooks, Admitted
      <4>4. \A i \in 1..Len(batch[b]) : future[batch[b][i]] # "none"
            /\ batch[b][i] \in Callers
        BY <1>1, <3>4 DEF BatcherBooks, Admitted
      <4> HIDE DEF s
      <4>5. ASSUME NEW i \in 1..Len(Append(s, r)) PROVE future'[Append(s, r)[i]] # "none"
        <5>1. CASE i \in 1..Len(s)
          BY <4>1, <4>2, <4>3, <5>1
        <5>2. CASE i = Len(s) + 1
          BY <4>1, <4>2, <5>2
        <5> QED BY <1>1, <4>1, <5>1, <5>2 DEF s
      <4> QED BY <3>1, <4>2, <4>4, <4>5 DEF Admitted
    <3> QED BY <2>2, <3>6, <3>7, <3>8 DEF BatcherBooks
  <2> QED BY <2>1, <2>2
<1>7. Waits'
  BY <1>2, <1>3 DEF Waits, BatchInv, Batching!TypeOK
<1>8. Serves'
  <2>1. \A c \in 1..NBatchers : c # b => pending'[c] = pending[c]
    BY <1>3 DEF BatchInv, Batching!TypeOK, Batching!Batchers
  <2> QED BY <1>2, <1>3, <2>1 DEF Serves, BatchInv
<1> QED BY <1>4, <1>6, <1>7, <1>8 DEF BatchInv, AllBooks
\* All books are kept by a step that only moves workers and requests.
LEMMA AllBooksKept ==
    ASSUME BatchInv, size' \in [Callers -> Nat], Keeps,
           UNCHANGED <<pending, batch, results, reserved>>,
           \A b \in 1..NBatchers :
               \/ runner'[b] = runner[b]
               \/ runner'[b] # "answer" /\ (runner'[b] \in Busy <=> runner[b] \in Busy)
    PROVE  AllBooks'
<1>1. Batching!TypeOK /\ \A b \in 1..NBatchers : BatcherBooks(b)
  BY DEF BatchInv, AllBooks
<1>2. ASSUME NEW b \in 1..NBatchers PROVE BatcherBooks(b)'
  BY <1>1, BooksKept
<1> QED BY <1>2 DEF AllBooks

\* The handler of a request, but for its admission.
LEMMA HandleKeeps ==
    ASSUME BatchInv, NEW r \in Callers, Batching!Handle(r), ~Batching!Admit(r)
    PROVE  BatchInv'
<1> USE DEF Batching!life, Batching!queue, Batching!work, Batching!client, Batching!outcome
<1>0. Batching!TypeOK /\ Waits /\ Serves /\ size \in [Callers -> Nat]
  BY DEF BatchInv, Batching!TypeOK
<1>1. CASE Batching!Arrive(r)
  <2>1. PICK b \in 1..NBatchers, n \in 1..MaxSize :
           /\ caller[r] = "new"
           /\ caller' = [caller EXCEPT ![r] = IF service = "ready" THEN "submit" ELSE "refused"]
           /\ target' = [target EXCEPT ![r] = b]
           /\ size' = [size EXCEPT ![r] = n]
           /\ UNCHANGED <<service, backend, ending, notified, pending, reserved, runner, batch,
                          results, future, answer>>
    BY <1>1 DEF Batching!Arrive, Batching!Batchers
  <2>2. future[r] = "none"
    BY <1>0, <2>1 DEF Waits
  <2>3. size' \in [Callers -> 0..MaxSize] /\ target' \in [Callers -> 1..NBatchers]
    BY <1>0, <2>1 DEF Batching!TypeOK, Batching!Batchers
  <2>4. caller' \in [Callers -> {"new", "submit", "waiting", "answered", "failed", "full",
                                 "refused", "cancelled"}]
    BY <1>0, <2>1 DEF Batching!TypeOK
  <2>5. Batching!TypeOK'
    BY <1>0, <2>1, <2>3, <2>4 DEF Batching!TypeOK, Batching!Batchers
  <2>6. Keeps
    BY <1>0, <2>1, <2>2 DEF Keeps
  <2>7. size' \in [Callers -> Nat]
    BY <2>3
  <2>8. AllBooks'
    BY <2>1, <2>6, <2>7, AllBooksKept
  <2>9. Waits'
    BY <1>0, <2>1, <2>2 DEF Waits, Batching!TypeOK
  <2>10. Serves'
    BY <1>0, <2>1 DEF Serves
  <2> QED BY <2>5, <2>8, <2>9, <2>10 DEF BatchInv
<1>2. CASE Batching!Reject(r) \/ Batching!Deliver(r) \/ Batching!Cancel(r)
  <2>1. PICK c \in {"failed", "full", "answered", "cancelled"} : caller' = [caller EXCEPT ![r] = c]
    <3>1. CASE Batching!Reject(r)
      BY <3>1 DEF Batching!Reject
    <3>2. CASE Batching!Deliver(r)
      BY <3>2 DEF Batching!Deliver
    <3>3. CASE Batching!Cancel(r)
      BY <3>3 DEF Batching!Cancel, Batching!Abandon
    <3> QED BY <1>2, <3>1, <3>2, <3>3
  <2>2. /\ caller[r] \in {"submit", "waiting"}
        /\ UNCHANGED <<service, backend, ending, notified, pending, reserved, runner, batch,
                       results, target, size, future, answer>>
    BY <1>2 DEF Batching!Reject, Batching!Deliver, Batching!Cancel, Batching!Abandon
  <2>3. caller' \in [Callers -> {"new", "submit", "waiting", "answered", "failed", "full",
                                 "refused", "cancelled"}]
    BY <1>0, <2>1 DEF Batching!TypeOK
  <2>4. Batching!TypeOK'
    BY <1>0, <2>2, <2>3 DEF Batching!TypeOK
  <2>5. Keeps /\ size' \in [Callers -> Nat]
    BY <1>0, <2>2 DEF Keeps
  <2>6. AllBooks'
    BY <2>2, <2>5, AllBooksKept
  <2>7. Waits'
    BY <1>0, <2>1, <2>2 DEF Waits, Batching!TypeOK
  <2>8. Serves'
    BY <1>0, <2>2 DEF Serves
  <2> QED BY <2>4, <2>6, <2>7, <2>8 DEF BatchInv
<1> QED BY <1>1, <1>2 DEF Batching!Handle

\* The lifespan.
LEMMA BatcherLifeKeeps ==
    ASSUME BatchInv, Batching!Lifespan
    PROVE  BatchInv'
<1> USE DEF Batching!life, Batching!queue, Batching!work, Batching!client, Batching!outcome
<1>0. Batching!TypeOK /\ Waits /\ Serves /\ size \in [Callers -> Nat]
  BY DEF BatchInv, Batching!TypeOK
<1>1. UNCHANGED <<pending, reserved, batch, results, caller, target, size, future, answer>>
  BY DEF Batching!Lifespan, Batching!LoadBackend, Batching!BecomeReady,
      Batching!BeginShutdown, Batching!CloseBackend, Batching!StartBatcher,
      Batching!CloseBatcher
<1>2. Keeps /\ size' \in [Callers -> Nat] /\ Waits'
  BY <1>0, <1>1 DEF Keeps, Waits
<1>3. ASSUME UNCHANGED runner PROVE AllBooks'
  BY <1>1, <1>2, <1>3, AllBooksKept
<1>4. CASE Batching!LoadBackend
  <2>1. Batching!TypeOK'
    BY <1>0, <1>4 DEF Batching!TypeOK, Batching!LoadBackend
  <2>2. Serves'
    BY <1>0, <1>4 DEF Serves, Batching!LoadBackend
  <2> QED BY <1>2, <1>3, <1>4, <2>1, <2>2 DEF BatchInv, Batching!LoadBackend
<1>5. CASE Batching!BecomeReady \/ Batching!BeginShutdown
  <2>1. Batching!TypeOK'
    BY <1>0, <1>5 DEF Batching!TypeOK, Batching!BecomeReady, Batching!BeginShutdown
  <2>2. Serves'
    BY <1>0, <1>5 DEF Serves, Batching!BecomeReady, Batching!BeginShutdown
  <2> QED
    BY <1>2, <1>3, <1>5, <2>1, <2>2 DEF BatchInv, Batching!BecomeReady, Batching!BeginShutdown
<1>6. CASE Batching!CloseBackend
  <2>1. Batching!TypeOK'
    BY <1>0, <1>6 DEF Batching!TypeOK, Batching!CloseBackend
  <2>2. \A b \in 1..NBatchers : runner[b] \in {"none", "stopped"}
    BY <1>6 DEF Batching!CloseBackend, Batching!BackendUnused, Batching!Stopped,
        Batching!Batchers
  <2>3. Serves'
    BY <1>0, <1>6, <2>2 DEF Serves, Batching!CloseBackend
  <2> QED BY <1>2, <1>3, <1>6, <2>1, <2>3 DEF BatchInv, Batching!CloseBackend
<1>7. ASSUME NEW b \in 1..NBatchers, Batching!StartBatcher(b) PROVE BatchInv'
  <2>1. /\ service = "starting" /\ runner[b] = "none"
        /\ runner' = [runner EXCEPT ![b] = "take"]
        /\ UNCHANGED <<service, backend, ending, notified>>
    BY <1>7 DEF Batching!StartBatcher
  <2>2. runner' \in [1..NBatchers -> Batching!Place]
    BY <1>0, <2>1 DEF Batching!TypeOK, Batching!Batchers, Batching!Place
  <2>3. Batching!TypeOK'
    BY <1>0, <1>1, <2>1, <2>2 DEF Batching!TypeOK, Batching!Batchers
  <2>4. runner'[b] = "take" /\ \A c \in 1..NBatchers : c # b => runner'[c] = runner[c]
    BY <1>0, <2>1 DEF Batching!TypeOK, Batching!Batchers
  <2>5. AllBooks'
    BY <1>1, <1>2, <2>1, <2>4, AllBooksKept DEF Busy
  <2>6. Serves'
    BY <1>0, <1>1, <2>1, <2>4 DEF Serves
  <2> QED BY <1>2, <2>3, <2>5, <2>6 DEF BatchInv
<1>8. ASSUME NEW b \in 1..NBatchers, Batching!CloseBatcher(b) PROVE BatchInv'
  <2>1. /\ ending' = [ending EXCEPT ![b] = TRUE] /\ notified' = [notified EXCEPT ![b] = TRUE]
        /\ UNCHANGED <<service, backend, runner>>
    BY <1>8 DEF Batching!CloseBatcher
  <2>2. ending' \in [1..NBatchers -> BOOLEAN] /\ notified' \in [1..NBatchers -> BOOLEAN]
    BY <1>0, <2>1 DEF Batching!TypeOK, Batching!Batchers
  <2>3. Batching!TypeOK'
    BY <1>0, <1>1, <2>1, <2>2 DEF Batching!TypeOK, Batching!Batchers
  <2>4. \A c \in 1..NBatchers : ending[c] => ending'[c]
    BY <1>0, <2>1 DEF Batching!TypeOK, Batching!Batchers
  <2>5. Serves'
    BY <1>0, <1>1, <2>1, <2>4 DEF Serves
  <2> QED BY <1>2, <1>3, <2>1, <2>3, <2>5 DEF BatchInv
<1> QED
  BY <1>4, <1>5, <1>6, <1>7, <1>8 DEF Batching!Lifespan, Batching!Batchers

\* The worker goes to sleep, wakes up or ends.
LEMMA WorkerMovesKeep ==
    ASSUME BatchInv, NEW b \in 1..NBatchers,
           Batching!WaitForWork(b) \/ Batching!WakeUp(b) \/ Batching!CollectMore(b)
    PROVE  BatchInv'
<1> USE DEF Batching!life, Batching!queue, Batching!work, Batching!client, Batching!outcome,
            Batching!At, Batching!Go
<1>0. Batching!TypeOK /\ Waits /\ Serves /\ size \in [Callers -> Nat]
  BY DEF BatchInv, Batching!TypeOK
<1>1. UNCHANGED <<service, backend, ending, pending, reserved, batch, results, caller, target,
                  size, future, answer>>
  BY DEF Batching!WaitForWork, Batching!WakeUp, Batching!CollectMore
<1>2. /\ runner[b] \in {"take", "asleep", "collect", "collecting"}
      /\ notified' = notified \/ notified' = [notified EXCEPT ![b] = FALSE]
  BY DEF Batching!WaitForWork, Batching!WakeUp, Batching!CollectMore
<1>3. PICK p \in {"take", "asleep", "collect", "collecting", "stopped"} :
         /\ runner' = [runner EXCEPT ![b] = p]
         /\ p = "stopped" => ending[b] /\ pending[b] = <<>>
  BY DEF Batching!WaitForWork, Batching!WakeUp, Batching!CollectMore, Batching!HasWork,
      Batching!AfterEmptyBatch
<1>4. Batching!TypeOK'
  <2>1. runner' \in [1..NBatchers -> Batching!Place]
    BY <1>0, <1>3 DEF Batching!TypeOK, Batching!Batchers, Batching!Place
  <2>2. notified' \in [1..NBatchers -> BOOLEAN]
    BY <1>0, <1>2 DEF Batching!TypeOK, Batching!Batchers
  <2> QED BY <1>0, <1>1, <2>1, <2>2 DEF Batching!TypeOK, Batching!Batchers
<1>5. runner'[b] = p /\ \A c \in 1..NBatchers : c # b => runner'[c] = runner[c]
  BY <1>0, <1>3 DEF Batching!TypeOK, Batching!Batchers
<1>6. Keeps /\ size' \in [Callers -> Nat] /\ Waits'
  BY <1>0, <1>1 DEF Keeps, Waits
<1>7. AllBooks'
  BY <1>1, <1>2, <1>5, <1>6, AllBooksKept DEF Busy
<1>8. Serves'
  BY <1>0, <1>1, <1>2, <1>3, <1>5 DEF Serves
<1> QED BY <1>4, <1>6, <1>7, <1>8 DEF BatchInv
\* The worker takes the first requests of the queue, as many as fit.
LEMMA TakeKeeps ==
    ASSUME BatchInv, NEW b \in 1..NBatchers, Batching!CollectNow(b) \/ Batching!Deadline(b)
    PROVE  BatchInv'
<1> USE DEF Batching!life, Batching!queue, Batching!work, Batching!client, Batching!outcome,
            Batching!At, Batching!Go
<1> DEFINE s == pending[b]
<1>0. /\ Batching!TypeOK /\ Waits /\ Serves /\ BatcherBooks(b)
      /\ s \in Seq(Callers) /\ batch[b] \in Seq(Callers) /\ size \in [Callers -> Nat]
  BY BatcherTypes DEF BatchInv, AllBooks
<1>1. PICK n \in 1..Len(s) :
         /\ Batching!ItemsOf(SubSeq(s, 1, n)) <= MaxItems
         /\ batch' = [batch EXCEPT ![b] = SubSeq(s, 1, n)]
         /\ pending' = [pending EXCEPT ![b] = SubSeq(s, n + 1, Len(s))]
  BY DEF Batching!CollectNow, Batching!Deadline, Batching!TakeBatch, Batching!Takes
<1>2. /\ runner[b] \in {"collect", "collecting"} /\ runner' = [runner EXCEPT ![b] = "process"]
      /\ UNCHANGED <<service, backend, ending, notified, reserved, results, caller, target,
                     size, future, answer>>
  BY DEF Batching!CollectNow, Batching!Deadline, Batching!TakeBatch
<1>3. /\ SubSeq(s, 1, n) \in Seq(Callers) /\ Len(SubSeq(s, 1, n)) = n
      /\ \A i \in 1..n : SubSeq(s, 1, n)[i] = s[i]
      /\ SubSeq(s, n + 1, Len(s)) \in Seq(Callers)
      /\ Len(SubSeq(s, n + 1, Len(s))) = Len(s) - n
      /\ \A i \in 1..(Len(s) - n) : SubSeq(s, n + 1, Len(s))[i] = s[n + i]
      /\ SubSeq(s, 1, n) \o SubSeq(s, n + 1, Len(s)) = s
  <2>1. n \in 0..Len(s)
    OBVIOUS
  <2> QED BY <1>0, <2>1, Splits
<1>4. PICK t \in Seq(Callers), u \in Seq(Callers) :
         /\ t = SubSeq(s, 1, n) /\ u = SubSeq(s, n + 1, Len(s)) /\ t \o u = s
         /\ Len(t) = n /\ \A i \in 1..n : t[i] = s[i]
         /\ Len(u) = Len(s) - n /\ \A i \in 1..(Len(s) - n) : u[i] = s[n + i]
  BY <1>3
<1>5. Batching!TypeOK'
  <2>1. batch' \in [1..NBatchers -> Seq(Callers)]
        /\ pending' \in [1..NBatchers -> Seq(Callers)]
    BY <1>0, <1>1, <1>3 DEF Batching!TypeOK, Batching!Batchers
  <2>2. runner' \in [1..NBatchers -> Batching!Place]
    BY <1>0, <1>2 DEF Batching!TypeOK, Batching!Batchers, Batching!Place
  <2> QED BY <1>0, <1>2, <2>1, <2>2 DEF Batching!TypeOK, Batching!Batchers
<1>6. /\ batch'[b] = t /\ pending'[b] = u /\ runner'[b] = "process"
      /\ \A c \in 1..NBatchers : c # b =>
            batch'[c] = batch[c] /\ pending'[c] = pending[c] /\ runner'[c] = runner[c]
  BY <1>0, <1>1, <1>2, <1>4 DEF Batching!TypeOK, Batching!Batchers
<1>7. Keeps /\ size' \in [Callers -> Nat]
  BY <1>0, <1>2 DEF Keeps
<1>8. ASSUME NEW c \in 1..NBatchers, c # b PROVE BatcherBooks(c)'
  <2>1. BatcherBooks(c)
    BY DEF BatchInv, AllBooks
  <2>2. results'[c] = results[c] /\ reserved'[c] = reserved[c]
    BY <1>2
  <2> QED BY <1>0, <1>6, <1>7, <1>8, <2>1, <2>2, BooksKept
<1>9. BatcherBooks(b)'
  <2>1. batch[b] = <<>>
    BY <1>0, <1>2 DEF BatcherBooks, Taken, Busy
  <2>2. Sum(size, batch[b]) = 0
    BY <1>0, <2>1, SumOfFew
  <2>3. Sum(size, s) = Sum(size, t) + Sum(size, u)
    <3>1. Sum(size, t \o u) = Sum(size, t) + Sum(size, u)
      BY <1>0, SumOfBoth
    <3> QED BY <1>4, <3>1
  <2>4. Sum(size, s) \in Nat /\ Sum(size, t) \in Nat /\ Sum(size, u) \in Nat
    BY <1>0, SumOfFew
  <2>5. reserved'[b] = Sum(size, s) + Sum(size, batch[b]) /\ reserved'[b] <= MaxQueue
    BY <1>0, <1>2 DEF BatcherBooks, Exact
  <2>6. size' = size
    BY <1>2
  <2> HIDE DEF s
  <2>7. Exact(b)'
    BY <1>6, <2>2, <2>3, <2>4, <2>5, <2>6 DEF Exact
  <2>8. Taken(b)'
    <3>1. Sum(size, t) <= MaxItems
      BY <1>0, <1>1, <1>4, ItemsAreSums
    <3>2. t # <<>>
      BY <1>0, <1>4
    <3> QED BY <1>6, <2>6, <3>1, <3>2 DEF Taken, Busy
  <2>9. Returned(b)'
    BY <1>6 DEF Returned
  <2>10. Admitted(b)'
    <3>1. \A i \in 1..Len(s) : future'[s[i]] # "none"
      BY <1>0, <1>2 DEF BatcherBooks, Admitted, s
    <3>2. \A i \in 1..n : i \in 1..Len(s)
      BY <1>0
    <3>3. \A i \in 1..(Len(s) - n) : n + i \in 1..Len(s)
      BY <1>0
    <3> QED BY <1>4, <1>6, <3>1, <3>2, <3>3 DEF Admitted
  <2> QED BY <2>7, <2>8, <2>9, <2>10 DEF BatcherBooks
<1>10. Waits' /\ Serves'
  <2>1. Waits'
    BY <1>0, <1>2 DEF Waits
  <2>2. Serves'
    BY <1>0, <1>2, <1>6 DEF Serves
  <2> QED BY <2>1, <2>2
<1> QED BY <1>5, <1>8, <1>9, <1>10 DEF BatchInv, AllBooks

\* The back end returns results, or fails.
LEMMA ProcessKeeps ==
    ASSUME BatchInv, NEW b \in 1..NBatchers, Batching!Process(b)
    PROVE  BatchInv'
<1> USE DEF Batching!life, Batching!queue, Batching!client, Batching!outcome,
            Batching!At, Batching!Go
<1> DEFINE s == batch[b]
           flat == Batching!FlatItems(s)
           E == Callers \X (Nat \ {0})
<1>0. /\ Batching!TypeOK /\ Waits /\ Serves /\ BatcherBooks(b)
      /\ s \in Seq(Callers) /\ size \in [Callers -> Nat]
  BY BatcherTypes DEF BatchInv, AllBooks
<1>1. /\ runner[b] = "process" /\ runner' = [runner EXCEPT ![b] = "answer"]
      /\ UNCHANGED <<service, backend, ending, notified, pending, reserved, batch, caller,
                     target, size, future, answer>>
  BY DEF Batching!Process
<1>2. PICK x \in {flat, <<>>, Tail(flat)} : results' = [results EXCEPT ![b] = x]
  BY DEF Batching!Process
<1>3. s # <<>> /\ \A i \in 1..Len(s) : size[s[i]] >= 1
  BY <1>0, <1>1 DEF BatcherBooks, Taken, Busy, Admitted, Waits
<1>4. /\ flat \in Seq(E) /\ Len(flat) = Sum(size, s)
      /\ \A i \in 1..Len(s) : \A j \in 1..size[s[i]] :
            flat[Sum(size, SubSeq(s, 1, i - 1)) + j] = <<s[i], j>>
  BY <1>0, <1>3, FlatItemsPlaces
<1>5. Sum(size, s) \in Nat /\ Sum(size, s) # 0
  <2>1. 1 \in 1..Len(s)
    BY <1>0, <1>3, EmptySeq
  <2>2. Sum(size, s) \in Nat /\ Sum(size, s) >= 1
    BY <1>0, <1>3, <2>1, SumPositive
  <2> QED BY <2>2
<1> HIDE DEF flat, E
<1>6. x \in Seq(E) /\ (Len(x) = Sum(size, s) => x = flat)
  <2>1. flat # <<>> /\ Len(Tail(flat)) = Len(flat) - 1 /\ Tail(flat) \in Seq(E)
    <3>1. flat # <<>>
      BY <1>4, <1>5
    <3> QED BY <1>4, <3>1, HeadTailProperties
  <2>2. Len(<<>>) = 0 /\ <<>> \in Seq(E)
    OBVIOUS
  <2>3. CASE x = flat
    BY <1>4, <2>3
  <2>4. CASE x = <<>>
    BY <1>5, <2>2, <2>4
  <2>5. CASE x = Tail(flat)
    BY <1>4, <1>5, <2>1, <2>5
  <2> QED BY <1>2, <2>3, <2>4, <2>5
<1>7. Batching!TypeOK'
  <2>1. results' \in [1..NBatchers -> Seq(E)]
    BY <1>0, <1>2, <1>6 DEF Batching!TypeOK, Batching!Batchers, E
  <2>2. runner' \in [1..NBatchers -> Batching!Place]
    BY <1>0, <1>1 DEF Batching!TypeOK, Batching!Batchers, Batching!Place
  <2> QED BY <1>0, <1>1, <2>1, <2>2 DEF Batching!TypeOK, Batching!Batchers, E
<1>8. /\ runner'[b] = "answer" /\ results'[b] = x
      /\ \A c \in 1..NBatchers : c # b => runner'[c] = runner[c] /\ results'[c] = results[c]
  BY <1>0, <1>1, <1>2 DEF Batching!TypeOK, Batching!Batchers
<1>9. Keeps /\ size' \in [Callers -> Nat] /\ size' = size /\ future' = future
  BY <1>0, <1>1 DEF Keeps
<1>10. ASSUME NEW c \in 1..NBatchers, c # b PROVE BatcherBooks(c)'
  <2>1. BatcherBooks(c)
    BY DEF BatchInv, AllBooks
  <2>2. pending'[c] = pending[c] /\ batch'[c] = batch[c] /\ reserved'[c] = reserved[c]
    BY <1>1
  <2> QED BY <1>0, <1>8, <1>9, <1>10, <2>1, <2>2, BooksKept
<1>11. BatcherBooks(b)'
  <2>1. batch'[b] = s /\ pending'[b] = pending[b] /\ reserved'[b] = reserved[b]
    BY <1>1
  <2> HIDE DEF s
  <2>2. Exact(b)'
    BY <1>0, <1>9, <2>1 DEF BatcherBooks, Exact, s
  <2>3. Taken(b)'
    BY <1>0, <1>1, <1>8, <1>9, <2>1 DEF BatcherBooks, Taken, Busy, s
  <2>4. Returned(b)'
    BY <1>4, <1>6, <1>8, <1>9, <2>1 DEF Returned
  <2>5. Admitted(b)'
    BY <1>0, <1>9, <2>1 DEF BatcherBooks, Admitted, s
  <2> QED BY <2>2, <2>3, <2>4, <2>5 DEF BatcherBooks
<1>12. Waits' /\ Serves'
  BY <1>0, <1>1, <1>8 DEF Waits, Serves
<1> QED BY <1>7, <1>10, <1>11, <1>12 DEF BatchInv, AllBooks
\* The items of one request.
LEMMA OwnIs ==
    ASSUME size \in [Callers -> Nat], NEW r \in Callers
    PROVE  /\ Batching!Own(r) \in Seq(Callers \X (Nat \ {0}))
           /\ Len(Batching!Own(r)) = size[r]
           /\ \A j \in 1..size[r] : Batching!Own(r)[j] = <<r, j>>
<1> DEFINE E == Callers \X (Nat \ {0})
           o == [j \in 1..size[r] |-> <<r, j>>]
<1>1. size[r] \in Nat /\ o \in [1..size[r] -> E] /\ DOMAIN o = 1..size[r]
  OBVIOUS
<1>2. \A j \in 1..size[r] : o[j] = <<r, j>>
  OBVIOUS
<1>3. Batching!Own(r) = o
  BY DEF Batching!Own
<1> HIDE DEF o, E
<1>4. o \in Seq(E)
  <2>1. o \in UNION {[1..k -> E] : k \in Nat}
    BY <1>1
  <2> QED BY <2>1, SeqDef
<1>5. Len(o) = size[r]
  BY <1>1, <1>4, LenProperties
<1> QED BY <1>2, <1>3, <1>4, <1>5 DEF E

\* When the numbers match, each request of the batch gets its own items.
LEMMA Slices ==
    ASSUME BatchInv, NEW b \in 1..NBatchers, runner[b] = "answer", Batching!CountMatches(b),
           NEW k \in 1..Len(batch[b])
    PROVE  Batching!Slice(b, k) = Batching!Own(batch[b][k])
<1> DEFINE s == batch[b]
           r == s[k]
           x == results[b]
           E == Callers \X (Nat \ {0})
           d == Sum(size, SubSeq(s, 1, k - 1))
<1>0. /\ s \in Seq(Callers) /\ size \in [Callers -> Nat] /\ x \in Seq(E) /\ BatcherBooks(b)
  BY BatcherTypes DEF BatchInv, AllBooks
<1>1. r \in Callers /\ size[r] \in Nat /\ k - 1 \in 0..Len(s) /\ k \in 0..Len(s)
  BY <1>0
<1>2. Len(x) = Sum(size, s)
  BY <1>0, ItemsAreSums DEF Batching!CountMatches
<1>3. \A j \in 1..size[r] : x[d + j] = <<r, j>>
  <2>1. \A i \in 1..Len(batch[b]) : \A j \in 1..size[batch[b][i]] :
           results[b][Sum(size, SubSeq(batch[b], 1, i - 1)) + j] = <<batch[b][i], j>>
    BY <1>0, <1>2 DEF BatcherBooks, Returned
  <2> QED BY <2>1
<1>4. PICK a : PartialSums(size, s, a)
  BY <1>0, SumExists
<1>5. d = a[k - 1] /\ Sum(size, SubSeq(s, 1, k)) = a[k] /\ a[k] = a[k - 1] + size[r]
  <2> HIDE DEF s, r, x
  <2>4. ASSUME NEW n \in 0..Len(s) PROVE Sum(size, SubSeq(s, 1, n)) = a[n]
    <3>1. s \in Seq(Callers) /\ size \in [Callers -> Nat]
      BY <1>0
    <3> QED BY <1>4, <3>1, SumOfBeginning
  <2>1. d = a[k - 1]
    BY <1>1, <2>4
  <2>2. Sum(size, SubSeq(s, 1, k)) = a[k]
    BY <1>1, <2>4
  <2>3. a[k] = a[k - 1] + size[r]
    BY <1>4 DEF PartialSums, r, s
  <2> QED BY <2>1, <2>2, <2>3
<1>6. d \in Nat /\ d + size[r] <= Len(x) /\ Len(x) \in Nat
  <2>1. d \in Nat
    BY <1>1, <1>4, <1>5 DEF PartialSums
  <2>2. PICK t \in Seq(Callers), u \in Seq(Callers) : t = SubSeq(s, 1, k) /\ t \o u = s
    <3>1. SubSeq(s, 1, k) \in Seq(Callers) /\ SubSeq(s, k + 1, Len(s)) \in Seq(Callers)
          /\ SubSeq(s, 1, k) \o SubSeq(s, k + 1, Len(s)) = s
      BY <1>0, <1>1, Splits
    <3> QED BY <3>1
  <2>3. Sum(size, t \o u) = Sum(size, t) + Sum(size, u)
    BY <1>0, SumOfBoth
  <2>4. Sum(size, t) \in Nat /\ Sum(size, u) \in Nat
    BY <1>0, SumOfFew
  <2>5. Sum(size, t) = d + size[r]
    BY <1>5, <2>2
  <2> HIDE DEF s, r, x, d
  <2> QED BY <1>2, <2>1, <2>2, <2>3, <2>4, <2>5
<1>7. Batching!Slice(b, k) = SubSeq(x, d + 1, d + size[r])
  <2>1. SubSeq(s, 1, k - 1) \in Seq(Callers)
    BY <1>0, <1>1, Splits
  <2>2. Batching!Offset(b, k) = d
    BY <1>0, <2>1, ItemsAreSums DEF Batching!Offset
  <2> QED BY <2>2 DEF Batching!Slice
<1> DEFINE y == SubSeq(x, d + 1, d + size[r])
           o == Batching!Own(r)
<1>8. o \in Seq(E) /\ Len(o) = size[r] /\ \A j \in 1..size[r] : o[j] = <<r, j>>
  BY <1>0, <1>1, OwnIs
<1> HIDE DEF s, r, x, d, o, E
<1>9. /\ y \in Seq(E) /\ Len(y) = size[r]
      /\ \A j \in 1..size[r] : y[j] = x[d + j]
  <2>1. d + 1 \in 1..(Len(x) + 1) /\ d + size[r] \in ((d + 1) - 1)..Len(x)
    BY <1>1, <1>6
  <2>2. /\ y \in Seq(E)
        /\ Len(y) = (d + size[r]) - (d + 1) + 1
        /\ \A j \in 1..((d + size[r]) - (d + 1) + 1) : y[j] = x[(d + 1) + j - 1]
    <3>1. d + 1 \in Int /\ d + size[r] \in Int /\ d + 1 <= (d + size[r]) + 1
      BY <1>1, <1>6
    <3>2. ASSUME NEW i \in (d + 1)..(d + size[r]) PROVE x[i] \in E
      <4>1. i \in 1..Len(x)
        BY <1>1, <1>6
      <4> QED BY <1>0, <4>1
    <3>3. /\ y \in Seq(E)
          /\ Len(y) = IF d + 1 <= d + size[r] THEN (d + size[r]) - (d + 1) + 1 ELSE 0
          /\ \A j \in 1..((d + size[r]) - (d + 1) + 1) : y[j] = x[(d + 1) + j - 1]
      BY <3>1, <3>2, SubSeqProperties
    <3> HIDE DEF y
    <3> QED BY <1>1, <1>6, <3>3
  <2>3. (d + size[r]) - (d + 1) + 1 = size[r]
    BY <1>1, <1>6, SMTT(60)
  <2>4. \A j \in 1..size[r] : (d + 1) + j - 1 = d + j
    BY <1>1, <1>6
  <2> HIDE DEF y
  <2> QED BY <1>1, <1>6, <2>2, <2>3, <2>4
<1> HIDE DEF y
<1>10. \A j \in 1..Len(y) : y[j] = o[j]
  BY <1>3, <1>8, <1>9
<1>11. y = o
  BY <1>8, <1>9, <1>10, SeqEqual
<1> QED BY <1>7, <1>11 DEF y, o, r, s

\* All requests of a batch are settled together, with their own items or an
\* error.
LEMMA AnswerEffect ==
    ASSUME BatchInv, NEW b \in 1..NBatchers, Batching!AnswerBatch(b)
    PROVE  \E good \in BOOLEAN :
              /\ future' = [r \in Callers |->
                              IF \E i \in 1..Len(batch[b]) : batch[b][i] = r
                              THEN IF good THEN "done" ELSE "error" ELSE future[r]]
              /\ answer' = [r \in Callers |->
                              IF (\E i \in 1..Len(batch[b]) : batch[b][i] = r) /\ good
                              THEN Batching!Own(r) ELSE answer[r]]
<1> DEFINE s == batch[b]
           good == Batching!CountMatches(b)
           taken == {s[i] : i \in DOMAIN s}
           place(r) == CHOOSE i \in DOMAIN s : s[i] = r
<1>0. s \in Seq(Callers) /\ DOMAIN s = 1..Len(s)
  BY BatcherTypes DEF BatchInv
<1>1. /\ runner[b] = "answer"
      /\ future' = [r \in Callers |->
                      IF r \notin taken THEN future[r] ELSE IF good THEN "done" ELSE "error"]
      /\ answer' = [r \in Callers |->
                      IF r \in taken /\ good THEN Batching!Slice(b, place(r)) ELSE answer[r]]
  BY DEF Batching!AnswerBatch, Batching!At
<1>2. good \in BOOLEAN
  BY DEF Batching!CountMatches
<1>3. \A r \in Callers : r \in taken <=> \E i \in 1..Len(s) : s[i] = r
  BY <1>0
<1>4. ASSUME NEW r \in Callers, r \in taken, good
      PROVE  Batching!Slice(b, place(r)) = Batching!Own(r)
  <2>1. place(r) \in 1..Len(s) /\ s[place(r)] = r
    BY <1>0, <1>4
  <2> HIDE DEF place
  <2>2. Batching!Slice(b, place(r)) = Batching!Own(s[place(r)])
    BY <1>1, <1>4, <2>1, Slices
  <2> QED BY <2>1, <2>2
<1> HIDE DEF good, taken, place
<1>5. future' = [r \in Callers |->
                   IF \E i \in 1..Len(s) : s[i] = r
                   THEN IF good THEN "done" ELSE "error" ELSE future[r]]
  BY <1>1, <1>3
<1>6. answer' = [r \in Callers |->
                   IF (\E i \in 1..Len(s) : s[i] = r) /\ good
                   THEN Batching!Own(r) ELSE answer[r]]
  BY <1>1, <1>3, <1>4
<1> QED BY <1>2, <1>5, <1>6
\* The batch is settled.
LEMMA AnswerKeeps ==
    ASSUME BatchInv, NEW b \in 1..NBatchers, Batching!AnswerBatch(b)
    PROVE  BatchInv'
<1> USE DEF Batching!life, Batching!queue, Batching!client
<1> DEFINE E == Callers \X (Nat \ {0})
           in(r) == \E i \in 1..Len(batch[b]) : batch[b][i] = r
<1>0. Batching!TypeOK /\ Waits /\ Serves /\ BatcherBooks(b) /\ size \in [Callers -> Nat]
  BY BatcherTypes DEF BatchInv, AllBooks
<1>1. /\ runner[b] = "answer" /\ runner' = [runner EXCEPT ![b] = "release"]
      /\ UNCHANGED <<service, backend, ending, notified, pending, reserved, batch, results,
                     caller, target, size>>
  BY DEF Batching!AnswerBatch, Batching!At, Batching!Go
<1>2. PICK good \in BOOLEAN :
         /\ future' = [r \in Callers |->
                         IF in(r) THEN IF good THEN "done" ELSE "error" ELSE future[r]]
         /\ answer' = [r \in Callers |->
                         IF in(r) /\ good THEN Batching!Own(r) ELSE answer[r]]
  BY AnswerEffect
<1>3. \A r \in Callers : in(r) => future[r] # "none"
  BY <1>0 DEF BatcherBooks, Admitted
<1>4. \A r \in Callers : Batching!Own(r) \in Seq(E)
  BY <1>0, OwnIs
<1> HIDE DEF in, E
<1>5. future' \in [Callers -> {"none", "pending", "done", "error"}]
  BY <1>0, <1>2 DEF Batching!TypeOK
<1>6. answer' \in [Callers -> Seq(E)]
  BY <1>0, <1>2, <1>4 DEF Batching!TypeOK, E
<1>7. runner' \in [1..NBatchers -> Batching!Place]
  BY <1>0, <1>1 DEF Batching!TypeOK, Batching!Batchers, Batching!Place
<1>8. Batching!TypeOK'
  BY <1>0, <1>1, <1>5, <1>6, <1>7 DEF Batching!TypeOK, Batching!Batchers, E
<1>9. \A r \in Callers : future'[r] = "none" <=> future[r] = "none"
  BY <1>2, <1>3
<1>10. Keeps /\ size' \in [Callers -> Nat]
  BY <1>0, <1>1, <1>9 DEF Keeps
<1>11. runner'[b] = "release" /\ \A c \in 1..NBatchers : c # b => runner'[c] = runner[c]
  BY <1>0, <1>1 DEF Batching!TypeOK, Batching!Batchers
<1>12. AllBooks'
  BY <1>1, <1>10, <1>11, AllBooksKept DEF Busy
<1>13. Waits'
  BY <1>0, <1>1, <1>9 DEF Waits
<1>14. Serves'
  BY <1>0, <1>1, <1>11 DEF Serves
<1> QED BY <1>8, <1>12, <1>13, <1>14 DEF BatchInv

\* The reservation of the batch is given back.
LEMMA ReleaseKeeps ==
    ASSUME BatchInv, NEW b \in 1..NBatchers, Batching!ReleaseBatch(b)
    PROVE  BatchInv'
<1> USE DEF Batching!life, Batching!client, Batching!outcome
<1> DEFINE E == Callers \X (Nat \ {0})
<1>0. /\ Batching!TypeOK /\ Waits /\ Serves /\ BatcherBooks(b) /\ size \in [Callers -> Nat]
      /\ batch[b] \in Seq(Callers) /\ pending[b] \in Seq(Callers) /\ reserved[b] \in Nat
  BY BatcherTypes DEF BatchInv, AllBooks
<1>1. /\ runner[b] = "release" /\ runner' = [runner EXCEPT ![b] = "take"]
      /\ reserved' = [reserved EXCEPT ![b] = @ - Batching!ItemsOf(batch[b])]
      /\ notified' = [notified EXCEPT ![b] = TRUE]
      /\ batch' = [batch EXCEPT ![b] = <<>>] /\ results' = [results EXCEPT ![b] = <<>>]
      /\ UNCHANGED <<service, backend, ending, pending, caller, target, size, future, answer>>
  BY DEF Batching!ReleaseBatch, Batching!At, Batching!Go, Batching!NotifyWorker
<1>2. Batching!ItemsOf(batch[b]) = Sum(size, batch[b])
  BY <1>0, ItemsAreSums
<1>3. Sum(size, pending[b]) \in Nat /\ Sum(size, batch[b]) \in Nat
  BY <1>0, SumOfFew
<1>4. /\ reserved[b] - Batching!ItemsOf(batch[b]) = Sum(size, pending[b])
      /\ Sum(size, pending[b]) <= MaxQueue
  <2>1. reserved[b] = Sum(size, pending[b]) + Sum(size, batch[b]) /\ reserved[b] <= MaxQueue
    BY <1>0 DEF BatcherBooks, Exact
  <2> QED BY <1>2, <1>3, <2>1, BatchingConstants
<1>5. Batching!TypeOK'
  <2>1. reserved' \in [1..NBatchers -> Nat]
    BY <1>0, <1>1, <1>3, <1>4 DEF Batching!TypeOK, Batching!Batchers
  <2>2. batch' \in [1..NBatchers -> Seq(Callers)] /\ results' \in [1..NBatchers -> Seq(E)]
    BY <1>0, <1>1 DEF Batching!TypeOK, Batching!Batchers
  <2>3. runner' \in [1..NBatchers -> Batching!Place]
        /\ notified' \in [1..NBatchers -> BOOLEAN]
    BY <1>0, <1>1 DEF Batching!TypeOK, Batching!Batchers, Batching!Place
  <2> QED BY <1>0, <1>1, <2>1, <2>2, <2>3 DEF Batching!TypeOK, Batching!Batchers
<1>6. /\ reserved'[b] = Sum(size, pending[b]) /\ batch'[b] = <<>> /\ runner'[b] = "take"
      /\ \A c \in 1..NBatchers : c # b =>
            /\ reserved'[c] = reserved[c] /\ batch'[c] = batch[c]
            /\ results'[c] = results[c] /\ runner'[c] = runner[c]
  BY <1>0, <1>1, <1>4 DEF Batching!TypeOK, Batching!Batchers
<1>7. Keeps /\ size' \in [Callers -> Nat] /\ size' = size /\ future' = future
      /\ pending' = pending
  BY <1>0, <1>1 DEF Keeps
<1>8. ASSUME NEW c \in 1..NBatchers, c # b PROVE BatcherBooks(c)'
  <2>1. BatcherBooks(c)
    BY DEF BatchInv, AllBooks
  <2>2. pending'[c] = pending[c]
    BY <1>7
  <2> QED BY <1>0, <1>6, <1>7, <1>8, <2>1, <2>2, BooksKept
<1>9. BatcherBooks(b)'
  <2>1. Sum(size, <<>>) = 0 /\ Len(<<>>) = 0
    BY <1>0, SumOfFew
  <2>2. Exact(b)'
    BY <1>3, <1>4, <1>6, <1>7, <2>1 DEF Exact
  <2>3. Taken(b)' /\ Returned(b)'
    BY <1>6 DEF Taken, Returned, Busy
  <2>4. Admitted(b)'
    BY <1>0, <1>6, <1>7, <2>1 DEF BatcherBooks, Admitted
  <2> QED BY <2>2, <2>3, <2>4 DEF BatcherBooks
<1>10. Waits' /\ Serves'
  BY <1>0, <1>1, <1>6 DEF Waits, Serves
<1> QED BY <1>5, <1>8, <1>9, <1>10 DEF BatchInv, AllBooks

\* Nothing happens.
LEMMA BatchStutter == BatchInv /\ UNCHANGED inference => BatchInv'
<1> SUFFICES ASSUME BatchInv, UNCHANGED inference PROVE BatchInv'
  OBVIOUS
<1> USE DEF inference
<1>0. Batching!TypeOK /\ Waits /\ Serves /\ size \in [Callers -> Nat]
  BY DEF BatchInv, Batching!TypeOK
<1>1. Batching!TypeOK'
  BY <1>0 DEF Batching!TypeOK
<1>2. Keeps /\ size' \in [Callers -> Nat]
  BY <1>0 DEF Keeps
<1>3. AllBooks'
  BY <1>2, AllBooksKept
<1>4. Waits' /\ Serves'
  BY <1>0 DEF Waits, Serves
<1> QED BY <1>1, <1>3, <1>4 DEF BatchInv

\* Every step of the batchers keeps their invariant.
LEMMA BatchStep == BatchInv /\ Batching!Next => BatchInv'
<1> SUFFICES ASSUME BatchInv, Batching!Next PROVE BatchInv'
  OBVIOUS
<1>1. CASE Batching!Lifespan
  BY <1>1, BatcherLifeKeeps
<1>2. ASSUME NEW b \in 1..NBatchers, Batching!Work(b) \/ Batching!CollectMore(b)
      PROVE  BatchInv'
  BY <1>2, WorkerMovesKeep, TakeKeeps, ProcessKeeps, AnswerKeeps, ReleaseKeeps
  DEF Batching!Work
<1>3. ASSUME NEW r \in Callers, Batching!Handle(r) PROVE BatchInv'
  BY <1>3, AdmitKeeps, HandleKeeps
<1>4. CASE Batching!Terminated
  <2>1. UNCHANGED inference
    BY <1>4 DEF Batching!Terminated, Batching!vars, Batching!life, Batching!queue,
        Batching!work, Batching!client, Batching!outcome, inference
  <2> QED BY <2>1, BatchStutter
<1> QED BY <1>1, <1>2, <1>3, <1>4 DEF Batching!Next, Batching!Batchers

\* The counters of the batchers are exact and within the capacity, whatever was
\* cancelled, and the back end is open while a worker may call it
\* (DynamicBatcher, the finally blocks of the services' lifespans).
THEOREM BatchersAreSound == ServicesSpec => []BatchersSound
<1>1. ServicesInit => BatchInv
  BY BatchInit DEF ServicesInit
<1>2. BatchInv /\ [ServicesNext]_<<part, vars, queues, inference, application, readiness>>
        => BatchInv'
  <2> SUFFICES ASSUME BatchInv,
                      [ServicesNext]_<<part, vars, queues, inference, application, readiness>>
      PROVE  BatchInv'
    OBVIOUS
  <2>1. CASE Batching!Next
    BY <2>1, BatchStep
  <2>2. CASE UNCHANGED inference
    BY <2>2, BatchStutter
  <2> QED BY <2>1, <2>2 DEF ServicesNext
<1> QED BY <1>1, <1>2, BatchInvSuffices, PTL DEF ServicesSpec
-----------------------------------------------------------------------------
(* The batchers implement AnswerQueue: what it promises without fairness.  *)

\* What a batcher has not settled yet.
Ahead(b) == IF runner[b] = "release" THEN <<>> ELSE batch[b]

\* The halves of a concatenation.
LEMMA Halves ==
    ASSUME NEW R, NEW s \in Seq(R), NEW t \in Seq(R)
    PROVE  /\ s \o t \in Seq(R) /\ Len(s \o t) = Len(s) + Len(t)
           /\ SubSeq(s \o t, 1, Len(s)) = s
           /\ SubSeq(s \o t, Len(s) + 1, Len(s \o t)) = t
<1> DEFINE c == s \o t
           n == Len(s)
           m == Len(t)
<1>1. /\ n \in Nat /\ m \in Nat /\ c \in Seq(R) /\ Len(c) = n + m
      /\ \A i \in 1..(n + m) : c[i] = IF i <= n THEN s[i] ELSE t[i - n]
  BY ConcatAt
<1> HIDE DEF c
<1>2. n \in 0..Len(c)
  BY <1>1
<1>3. /\ SubSeq(c, 1, n) \in Seq(R) /\ Len(SubSeq(c, 1, n)) = n
      /\ \A i \in 1..n : SubSeq(c, 1, n)[i] = c[i]
      /\ SubSeq(c, n + 1, Len(c)) \in Seq(R)
      /\ Len(SubSeq(c, n + 1, Len(c))) = Len(c) - n
      /\ \A i \in 1..(Len(c) - n) : SubSeq(c, n + 1, Len(c))[i] = c[n + i]
  BY <1>1, <1>2, Splits
<1> DEFINE u == SubSeq(c, 1, n)
           v == SubSeq(c, n + 1, Len(c))
<1>4. \A i \in 1..n : i \in 1..(n + m) /\ i <= n
  BY <1>1
<1>5. \A i \in 1..m : n + i \in 1..(n + m) /\ ~(n + i <= n) /\ (n + i) - n = i
  BY <1>1
<1>6. u \in Seq(R) /\ Len(u) = Len(s) /\ \A i \in 1..Len(u) : u[i] = s[i]
  <2>1. \A i \in 1..n : u[i] = s[i]
    BY <1>1, <1>3, <1>4
  <2> QED BY <1>3, <2>1
<1>7. v \in Seq(R) /\ Len(v) = Len(t) /\ \A i \in 1..Len(v) : v[i] = t[i]
  <2>1. Len(c) - n = m
    BY <1>1
  <2>2. \A i \in 1..m : v[i] = t[i]
    BY <1>1, <1>3, <1>5, <2>1
  <2> QED BY <1>3, <2>1, <2>2
<1> HIDE DEF u, v
<1>8. u = s
  BY <1>6, SeqEqual
<1>9. v = t
  BY <1>7, SeqEqual
<1> QED BY <1>1, <1>8, <1>9 DEF u, v, c

\* The abstract queue and sizes.
LEMMA OutstandingIs ==
    ASSUME BatchInv
    PROVE  /\ Batching!Outstanding = [b \in 1..NBatchers |-> Ahead(b) \o pending[b]]
           /\ Batching!AdmittedSize \in [Callers -> Nat]
           /\ \A b \in 1..NBatchers : Ahead(b) \in Seq(Callers) /\ pending[b] \in Seq(Callers)
           /\ \A b \in 1..NBatchers : Batching!Outstanding[b] \in Seq(Callers)
<1>1. Batching!Outstanding = [b \in 1..NBatchers |-> Ahead(b) \o pending[b]]
  BY DEF Batching!Outstanding, Batching!Batchers, Ahead
<1>2. Batching!AdmittedSize \in [Callers -> Nat]
  BY DEF Batching!AdmittedSize, BatchInv, Batching!TypeOK
<1>3. ASSUME NEW b \in 1..NBatchers PROVE Ahead(b) \in Seq(Callers)
                                           /\ pending[b] \in Seq(Callers)
  <2>1. pending[b] \in Seq(Callers) /\ batch[b] \in Seq(Callers)
    BY BatcherTypes DEF BatchInv
  <2> QED BY <2>1 DEF Ahead
<1>4. \A b \in 1..NBatchers : Ahead(b) \o pending[b] \in Seq(Callers)
  BY <1>3, ConcatProperties
<1>5. \A b \in 1..NBatchers : Batching!Outstanding[b] \in Seq(Callers)
  BY <1>1, <1>4
<1> HIDE DEF Batching!Outstanding, Batching!AdmittedSize
<1> QED BY <1>1, <1>2, <1>3, <1>5

\* The items of accepted requests are those of the abstract queue.
LEMMA AdmittedItems ==
    ASSUME BatchInv, NEW s \in Seq(Callers), \A i \in 1..Len(s) : future[s[i]] # "none"
    PROVE  Batching!Abstract!Items(s) = Sum(size, s)
<1>1. size \in [Callers -> Nat] /\ Batching!AdmittedSize \in [Callers -> Nat]
  BY OutstandingIs DEF BatchInv, Batching!TypeOK
<1>2. \A i \in 1..Len(s) : Batching!AdmittedSize[s[i]] = size[s[i]]
  <2>1. \A i \in 1..Len(s) : s[i] \in Callers
    OBVIOUS
  <2> QED BY <2>1 DEF Batching!AdmittedSize
<1> HIDE DEF Batching!AdmittedSize
<1>3. Batching!Abstract!Items(s) = Sum(Batching!AdmittedSize, s)
  BY <1>1, ItemsAreSums
<1>4. Sum(Batching!AdmittedSize, s) = Sum(size, s)
  BY <1>1, <1>2, SumOfSame
<1> QED BY <1>3, <1>4

\* What has not been accepted and is not settled leaves the abstract state alone.
LEMMA Unseen ==
    ASSUME BatchInv, Keeps, UNCHANGED <<future, answer>>,
           \A b \in 1..NBatchers : Ahead(b)' \o pending'[b] = Ahead(b) \o pending[b]
    PROVE  UNCHANGED Batching!Abstract!vars
<1>1. Batching!AdmittedSize' = Batching!AdmittedSize
  BY DEF Batching!AdmittedSize, Keeps
<1>2. Batching!Outstanding' = [b \in 1..NBatchers |-> Ahead(b)' \o pending'[b]]
  BY DEF Batching!Outstanding, Batching!Batchers, Ahead
<1>3. Batching!Outstanding = [b \in 1..NBatchers |-> Ahead(b) \o pending[b]]
  BY OutstandingIs
<1>4. Batching!Outstanding' = Batching!Outstanding
  BY <1>2, <1>3
<1> QED BY <1>1, <1>4 DEF Batching!Abstract!vars

\* An admission is one of the abstract queue.
LEMMA AdmitRefines ==
    ASSUME BatchInv, NEW r \in Callers, Batching!Admit(r)
    PROVE  Batching!Abstract!Next
<1>b. PICK b \in 1..NBatchers : b = target[r]
  BY DEF BatchInv, Batching!TypeOK, Batching!Batchers
<1>0. /\ size \in [Callers -> Nat] /\ BatcherBooks(b) /\ reserved[b] \in Nat
      /\ batch[b] \in Seq(Callers)
      /\ future \in [Callers -> {"none", "pending", "done", "error"}]
  <2>1. BatcherBooks(b)
    BY DEF BatchInv, AllBooks
  <2>2. future \in [Callers -> {"none", "pending", "done", "error"}]
    BY DEF BatchInv, Batching!TypeOK
  <2> QED BY <2>1, <2>2, BatcherTypes DEF BatchInv
<1>1. /\ future[r] = "none" /\ size[r] \in 1..MaxSize /\ size[r] <= MaxItems
      /\ reserved[b] + size[r] <= MaxQueue
  <2>1. caller[r] = "submit" /\ size[r] <= MaxItems /\ reserved[b] + size[r] <= MaxQueue
    BY <1>b DEF Batching!Admit, Batching!Fits
  <2>2. size[r] \in 0..MaxSize
    BY DEF BatchInv, Batching!TypeOK
  <2>3. future[r] = "none" /\ size[r] >= 1
    BY <2>1 DEF BatchInv, Waits
  <2> QED BY <2>1, <2>2, <2>3
<1>2. /\ pending' = [pending EXCEPT ![b] = Append(@, r)]
      /\ future' = [future EXCEPT ![r] = "pending"]
      /\ UNCHANGED <<runner, batch, size, answer>>
  BY <1>b DEF Batching!Admit, Batching!work
<1> DEFINE a == Ahead(b)
           p == pending[b]
<1>3. /\ a \in Seq(Callers) /\ p \in Seq(Callers) /\ a \o p \in Seq(Callers)
      /\ Batching!Outstanding[b] = a \o p
  BY OutstandingIs
<1>4. Batching!Abstract!Items(a \o p) = Sum(size, a) + Sum(size, p)
  <2>1. \A i \in 1..Len(a) : future[a[i]] # "none"
    BY <1>0 DEF BatcherBooks, Admitted, Ahead
  <2>2. \A i \in 1..Len(p) : future[p[i]] # "none"
    BY <1>0 DEF BatcherBooks, Admitted
  <2> HIDE DEF a, p
  <2>3. /\ Len(a) \in Nat /\ Len(p) \in Nat /\ Len(a \o p) = Len(a) + Len(p)
        /\ \A i \in 1..(Len(a) + Len(p)) :
              (a \o p)[i] = IF i <= Len(a) THEN a[i] ELSE p[i - Len(a)]
    BY <1>3, ConcatAt
  <2>4. ASSUME NEW i \in 1..Len(a \o p) PROVE future[(a \o p)[i]] # "none"
    <3>1. CASE i <= Len(a)
      <4>1. i \in 1..Len(a) /\ i \in 1..(Len(a) + Len(p))
        BY <2>3, <3>1
      <4> QED BY <2>1, <2>3, <3>1, <4>1
    <3>2. CASE ~(i <= Len(a))
      <4>1. i - Len(a) \in 1..Len(p) /\ i \in 1..(Len(a) + Len(p))
        BY <2>3, <3>2
      <4> QED BY <2>2, <2>3, <3>2, <4>1
    <3> QED BY <3>1, <3>2
  <2>5. Batching!Abstract!Items(a \o p) = Sum(size, a \o p)
    BY <1>3, <2>4, AdmittedItems
  <2>6. Sum(size, a \o p) = Sum(size, a) + Sum(size, p)
    BY <1>0, <1>3, SumOfBoth
  <2> QED BY <2>5, <2>6
<1>5. Batching!Abstract!Items(Batching!Outstanding[b]) + size[r] <= MaxQueue
  <2>1. /\ Sum(size, a) \in Nat /\ Sum(size, p) \in Nat /\ Sum(size, batch[b]) \in Nat
        /\ Sum(size, <<>>) = 0
    BY <1>0, <1>3, SumOfFew
  <2>2. reserved[b] = Sum(size, p) + Sum(size, batch[b])
    BY <1>0 DEF BatcherBooks, Exact
  <2>3. Sum(size, a) <= Sum(size, batch[b])
    BY <2>1 DEF Ahead
  <2> HIDE DEF a, p
  <2> QED BY <1>0, <1>1, <1>3, <1>4, <2>1, <2>2, <2>3, BatchingConstants
<1>6. Batching!Outstanding' = [Batching!Outstanding EXCEPT ![b] = Append(@, r)]
  <2>1. Append(a \o p, r) = a \o Append(p, r)
    <3>1. <<r>> \in Seq(Callers)
      OBVIOUS
    <3> HIDE DEF a, p
    <3>2. Append(p, r) = p \o <<r>> /\ Append(a \o p, r) = (a \o p) \o <<r>>
      BY <1>3, AppendIsConcat
    <3>3. (a \o p) \o <<r>> = a \o (p \o <<r>>)
      BY <1>3, <3>1, ConcatAssociative
    <3> QED BY <3>2, <3>3
  <2>2. Batching!Outstanding' = [c \in 1..NBatchers |-> Ahead(c)' \o pending'[c]]
    BY DEF Batching!Outstanding, Batching!Batchers, Ahead
  <2>3. \A c \in 1..NBatchers : Ahead(c)' = Ahead(c)
    BY <1>2 DEF Ahead
  <2>4. pending'[b] = Append(p, r) /\ \A c \in 1..NBatchers : c # b => pending'[c] = pending[c]
    BY <1>2 DEF BatchInv, Batching!TypeOK, Batching!Batchers
  <2>5. Batching!Outstanding = [c \in 1..NBatchers |-> Ahead(c) \o pending[c]]
    BY OutstandingIs
  <2> QED BY <2>1, <2>2, <2>3, <2>4, <2>5
<1>7. Batching!AdmittedSize' = [Batching!AdmittedSize EXCEPT ![r] = size[r]]
  BY <1>0, <1>2 DEF Batching!AdmittedSize
<1>8. Batching!Abstract!Admit(b, r, size[r])
  BY <1>1, <1>2, <1>5, <1>6, <1>7 DEF Batching!Abstract!Admit
<1> QED BY <1>1, <1>8 DEF Batching!Abstract!Next, Batching!Abstract!Queues
\* A settled batch is the beginning of the abstract queue.
LEMMA AnswerRefines ==
    ASSUME BatchInv, NEW b \in 1..NBatchers, Batching!AnswerBatch(b)
    PROVE  Batching!Abstract!Next
<1> DEFINE s == batch[b]
           p == pending[b]
           in(r) == \E i \in 1..Len(s) : s[i] = r
<1>0. /\ BatcherBooks(b) /\ s \in Seq(Callers) /\ p \in Seq(Callers)
      /\ size \in [Callers -> Nat]
      /\ runner \in [1..NBatchers -> Batching!Place]
  <2>1. BatcherBooks(b)
    BY DEF BatchInv, AllBooks
  <2>2. runner \in [1..NBatchers -> Batching!Place]
    BY DEF BatchInv, Batching!TypeOK, Batching!Batchers
  <2> QED BY <2>1, <2>2, BatcherTypes DEF BatchInv
<1>1. /\ runner[b] = "answer" /\ runner' = [runner EXCEPT ![b] = "release"]
      /\ UNCHANGED <<pending, batch, size>>
  BY DEF Batching!AnswerBatch, Batching!At, Batching!Go, Batching!queue, Batching!client
<1>2. PICK good \in BOOLEAN :
         /\ future' = [r \in Callers |->
                         IF in(r) THEN IF good THEN "done" ELSE "error" ELSE future[r]]
         /\ answer' = [r \in Callers |->
                         IF in(r) /\ good THEN Batching!Own(r) ELSE answer[r]]
  BY AnswerEffect
<1>3. /\ s # <<>> /\ Sum(size, s) <= MaxItems
      /\ \A i \in 1..Len(s) : future[s[i]] # "none"
  BY <1>0, <1>1 DEF BatcherBooks, Taken, Busy, Admitted
<1>4. Batching!Outstanding[b] = s \o p
  BY <1>1, OutstandingIs DEF Ahead
<1>5. /\ s \o p \in Seq(Callers) /\ Len(s \o p) = Len(s) + Len(p)
      /\ SubSeq(s \o p, 1, Len(s)) = s /\ SubSeq(s \o p, Len(s) + 1, Len(s \o p)) = p
  <2>1. s \in Seq(Callers) /\ p \in Seq(Callers)
    BY <1>0
  <2> HIDE DEF s, p
  <2> QED BY <2>1, Halves
<1>6. Len(s) \in 1..Len(s \o p)
  <2>1. Len(s) \in Nat /\ Len(p) \in Nat /\ Len(s) # 0
    BY <1>0, <1>3, EmptySeq
  <2> HIDE DEF s, p
  <2> QED BY <1>5, <2>1
<1>7. Batching!Abstract!Items(s) <= MaxItems
  BY <1>0, <1>3, AdmittedItems
<1>8. Batching!Outstanding' = [Batching!Outstanding EXCEPT ![b] = p]
  <2>1. Batching!Outstanding' = [c \in 1..NBatchers |-> Ahead(c)' \o pending'[c]]
    BY DEF Batching!Outstanding, Batching!Batchers, Ahead
  <2>2. Batching!Outstanding = [c \in 1..NBatchers |-> Ahead(c) \o pending[c]]
    BY OutstandingIs
  <2>3. \A c \in 1..NBatchers : c # b => Ahead(c)' = Ahead(c)
    BY <1>0, <1>1 DEF Ahead
  <2>4. Ahead(b)' = <<>>
    BY <1>0, <1>1 DEF Ahead
  <2>5. <<>> \o p = p
    BY <1>0, ConcatEmptySeq
  <2> HIDE DEF Ahead
  <2> QED BY <1>1, <2>1, <2>2, <2>3, <2>4, <2>5
<1>9. \A r \in Callers : in(r) => future[r] # "none"
  BY <1>3
<1> HIDE DEF in
<1>10. \A r \in Callers : future'[r] = "none" <=> future[r] = "none"
  BY <1>2, <1>9
<1>11. Batching!AdmittedSize' = Batching!AdmittedSize
  BY <1>1, <1>10 DEF Batching!AdmittedSize
<1>12. \A r \in Callers : in(r) => Batching!Abstract!Own(r) = Batching!Own(r)
  <2>1. \A r \in Callers : in(r) => Batching!AdmittedSize[r] = size[r]
    BY <1>9 DEF Batching!AdmittedSize
  <2> QED BY <2>1 DEF Batching!Abstract!Own, Batching!Own
<1>13. \A r \in Callers : Batching!Abstract!Contains(s, r) <=> in(r)
  BY DEF Batching!Abstract!Contains, in
<1>14. Batching!Abstract!Settle(b, Len(s))
  <2>1. /\ Batching!Abstract!Items(SubSeq(Batching!Outstanding[b], 1, Len(s))) <= MaxItems
        /\ Batching!Outstanding' =
              [Batching!Outstanding EXCEPT
                  ![b] = SubSeq(@, Len(s) + 1, Len(@))]
    BY <1>4, <1>5, <1>7, <1>8
  <2>2. CASE good
    <3>1. /\ future' = [r \in Callers |->
                          IF Batching!Abstract!Contains(s, r) THEN "done" ELSE future[r]]
          /\ answer' = [r \in Callers |-> IF Batching!Abstract!Contains(s, r)
                                          THEN Batching!Abstract!Own(r) ELSE answer[r]]
      BY <1>2, <1>12, <1>13, <2>2
    <3> QED BY <1>4, <1>5, <1>11, <2>1, <3>1 DEF Batching!Abstract!Settle
  <2>3. CASE ~good
    <3>1. future' = [r \in Callers |->
                       IF Batching!Abstract!Contains(s, r) THEN "error" ELSE future[r]]
      BY <1>2, <1>13, <2>3
    <3>2. answer' = answer
      <4>1. answer \in [Callers -> Seq(Callers \X (Nat \ {0}))]
        BY DEF BatchInv, Batching!TypeOK
      <4> QED BY <1>2, <2>3, <4>1
    <3> QED BY <1>4, <1>5, <1>11, <2>1, <3>1, <3>2 DEF Batching!Abstract!Settle
  <2> QED BY <2>2, <2>3
<1> QED
  BY <1>4, <1>6, <1>14 DEF Batching!Abstract!Next, Batching!Abstract!SettleSome,
      Batching!Abstract!Queues

\* Taking a batch only moves a bracket.
LEMMA TakeUnseen ==
    ASSUME BatchInv, NEW b \in 1..NBatchers, Batching!CollectNow(b) \/ Batching!Deadline(b)
    PROVE  UNCHANGED Batching!Abstract!vars
<1> DEFINE s == pending[b]
<1>0. /\ BatcherBooks(b) /\ s \in Seq(Callers) /\ size \in [Callers -> Nat]
      /\ runner \in [1..NBatchers -> Batching!Place]
      /\ batch \in [1..NBatchers -> Seq(Callers)]
      /\ pending \in [1..NBatchers -> Seq(Callers)]
  <2>1. BatcherBooks(b)
    BY DEF BatchInv, AllBooks
  <2>2. /\ runner \in [1..NBatchers -> Batching!Place]
        /\ batch \in [1..NBatchers -> Seq(Callers)]
        /\ pending \in [1..NBatchers -> Seq(Callers)]
    BY DEF BatchInv, Batching!TypeOK, Batching!Batchers
  <2> QED BY <2>1, <2>2, BatcherTypes DEF BatchInv
<1>1. PICK n \in 1..Len(s) :
         /\ batch' = [batch EXCEPT ![b] = SubSeq(s, 1, n)]
         /\ pending' = [pending EXCEPT ![b] = SubSeq(s, n + 1, Len(s))]
  BY DEF Batching!CollectNow, Batching!Deadline, Batching!TakeBatch
<1>2. /\ runner[b] \in {"collect", "collecting"} /\ runner' = [runner EXCEPT ![b] = "process"]
      /\ UNCHANGED <<size, future, answer>>
  BY DEF Batching!CollectNow, Batching!Deadline, Batching!TakeBatch, Batching!At, Batching!Go,
      Batching!client, Batching!outcome
<1>3. SubSeq(s, 1, n) \o SubSeq(s, n + 1, Len(s)) = s
  <2>1. n \in 0..Len(s)
    BY <1>0
  <2> QED BY <1>0, <2>1, Splits
<1>4. batch[b] = <<>> /\ <<>> \o s = s
  BY <1>0, <1>2, ConcatEmptySeq DEF BatcherBooks, Taken, Busy
<1>5. Ahead(b)' \o pending'[b] = Ahead(b) \o pending[b]
  <2>1. Ahead(b)' = SubSeq(s, 1, n) /\ pending'[b] = SubSeq(s, n + 1, Len(s))
        /\ Ahead(b) = <<>>
    BY <1>0, <1>1, <1>2, <1>4 DEF Ahead
  <2> QED BY <1>3, <1>4, <2>1
<1>6. \A c \in 1..NBatchers : c # b => Ahead(c)' = Ahead(c) /\ pending'[c] = pending[c]
  BY <1>0, <1>1, <1>2 DEF Ahead
<1>7. Keeps
  BY <1>2 DEF Keeps
<1> QED BY <1>2, <1>5, <1>6, <1>7, Unseen

\* So does giving back a reservation.
LEMMA ReleaseUnseen ==
    ASSUME BatchInv, NEW b \in 1..NBatchers, Batching!ReleaseBatch(b)
    PROVE  UNCHANGED Batching!Abstract!vars
<1>0. runner \in [1..NBatchers -> Batching!Place] /\ batch \in [1..NBatchers -> Seq(Callers)]
  BY DEF BatchInv, Batching!TypeOK, Batching!Batchers
<1>1. /\ runner[b] = "release" /\ runner' = [runner EXCEPT ![b] = "take"]
      /\ batch' = [batch EXCEPT ![b] = <<>>]
      /\ UNCHANGED <<pending, size, future, answer>>
  BY DEF Batching!ReleaseBatch, Batching!At, Batching!Go, Batching!client, Batching!outcome
<1>2. \A c \in 1..NBatchers : Ahead(c)' = Ahead(c)
  BY <1>0, <1>1 DEF Ahead
<1>3. Keeps
  BY <1>1 DEF Keeps
<1> QED BY <1>1, <1>2, <1>3, Unseen

\* All other steps leave queues and futures alone.
LEMMA OthersUnseen ==
    ASSUME BatchInv,
           \/ Batching!Lifespan
           \/ \E b \in 1..NBatchers : Batching!WaitForWork(b) \/ Batching!WakeUp(b)
                                         \/ Batching!CollectMore(b) \/ Batching!Process(b)
           \/ \E r \in Callers : Batching!Arrive(r) \/ Batching!Reject(r)
                                    \/ Batching!Deliver(r) \/ Batching!Cancel(r)
           \/ UNCHANGED inference
    PROVE  UNCHANGED Batching!Abstract!vars
<1> USE DEF Batching!life, Batching!queue, Batching!client, Batching!outcome, Batching!work,
            Batching!At, Batching!Go
<1>0. /\ runner \in [1..NBatchers -> Batching!Place] /\ Waits
      /\ size \in [Callers -> Nat]
  BY DEF BatchInv, Batching!TypeOK, Batching!Batchers
<1>1. UNCHANGED <<pending, batch, future, answer>>
  <2>1. CASE Batching!Lifespan
    BY <2>1 DEF Batching!Lifespan, Batching!LoadBackend, Batching!BecomeReady,
        Batching!BeginShutdown, Batching!CloseBackend, Batching!StartBatcher,
        Batching!CloseBatcher
  <2>2. ASSUME NEW b \in 1..NBatchers,
               Batching!WaitForWork(b) \/ Batching!WakeUp(b) \/ Batching!CollectMore(b)
                  \/ Batching!Process(b)
        PROVE  UNCHANGED <<pending, batch, future, answer>>
    BY <2>2 DEF Batching!WaitForWork, Batching!WakeUp, Batching!CollectMore, Batching!Process
  <2>3. ASSUME NEW r \in Callers,
               Batching!Arrive(r) \/ Batching!Reject(r) \/ Batching!Deliver(r)
                  \/ Batching!Cancel(r)
        PROVE  UNCHANGED <<pending, batch, future, answer>>
    BY <2>3 DEF Batching!Arrive, Batching!Reject, Batching!Deliver, Batching!Cancel,
        Batching!Abandon
  <2> QED BY <2>1, <2>2, <2>3 DEF inference
<1>2. \A c \in 1..NBatchers : runner'[c] = "release" <=> runner[c] = "release"
  <2>1. CASE Batching!Lifespan
    BY <1>0, <2>1 DEF Batching!Lifespan, Batching!LoadBackend, Batching!BecomeReady,
        Batching!BeginShutdown, Batching!CloseBackend, Batching!StartBatcher,
        Batching!CloseBatcher, Batching!Batchers
  <2>2. ASSUME NEW b \in 1..NBatchers,
               Batching!WaitForWork(b) \/ Batching!WakeUp(b) \/ Batching!CollectMore(b)
                  \/ Batching!Process(b)
        PROVE  \A c \in 1..NBatchers : runner'[c] = "release" <=> runner[c] = "release"
    <3>1. /\ runner[b] \in {"take", "asleep", "collect", "collecting", "process"}
          /\ \E q \in {"take", "asleep", "collect", "collecting", "answer", "stopped"} :
                runner' = [runner EXCEPT ![b] = q]
      BY <2>2 DEF Batching!WaitForWork, Batching!WakeUp, Batching!CollectMore,
          Batching!Process, Batching!AfterEmptyBatch
    <3> QED BY <1>0, <3>1
  <2>3. CASE UNCHANGED runner
    BY <2>3
  <2>4. ASSUME NEW r \in Callers,
               Batching!Arrive(r) \/ Batching!Reject(r) \/ Batching!Deliver(r)
                  \/ Batching!Cancel(r)
        PROVE  UNCHANGED runner
    BY <2>4 DEF Batching!Arrive, Batching!Reject, Batching!Deliver, Batching!Cancel,
        Batching!Abandon
  <2> QED BY <2>1, <2>2, <2>3, <2>4 DEF inference
<1>3. Keeps
  <2>1. ASSUME NEW r \in Callers, Batching!Arrive(r) PROVE Keeps
    <3>1. future[r] = "none" /\ (\E n \in 1..MaxSize : size' = [size EXCEPT ![r] = n])
      BY <1>0, <2>1 DEF Batching!Arrive, Waits
    <3> QED BY <1>0, <1>1, <3>1 DEF Keeps
  <2>2. ASSUME UNCHANGED size PROVE Keeps
    BY <1>1, <2>2 DEF Keeps
  <2>3. CASE Batching!Lifespan
    BY <2>2, <2>3 DEF Batching!Lifespan, Batching!LoadBackend, Batching!BecomeReady,
        Batching!BeginShutdown, Batching!CloseBackend, Batching!StartBatcher,
        Batching!CloseBatcher
  <2>4. ASSUME NEW b \in 1..NBatchers,
               Batching!WaitForWork(b) \/ Batching!WakeUp(b) \/ Batching!CollectMore(b)
                  \/ Batching!Process(b)
        PROVE  Keeps
    BY <2>2, <2>4 DEF Batching!WaitForWork, Batching!WakeUp, Batching!CollectMore,
        Batching!Process
  <2>5. ASSUME NEW r \in Callers,
               Batching!Reject(r) \/ Batching!Deliver(r) \/ Batching!Cancel(r)
        PROVE  Keeps
    BY <2>2, <2>5 DEF Batching!Reject, Batching!Deliver, Batching!Cancel, Batching!Abandon
  <2> QED BY <2>1, <2>2, <2>3, <2>4, <2>5 DEF inference
<1>4. \A c \in 1..NBatchers : Ahead(c)' \o pending'[c] = Ahead(c) \o pending[c]
  BY <1>1, <1>2 DEF Ahead
<1> QED BY <1>1, <1>3, <1>4, Unseen

\* The batchers implement AnswerQueue: a request is admitted within the capacity,
\* settled in the order of admission, no more at a time than a batch holds, and
\* with the results of its own items or with an error, whatever it was merged with
\* and whoever went away (DynamicBatcher.submit, _run, _take_batch).
THEOREM BatchersServeInOrder == ServicesSpec => Batching!Abstract!Spec
<1>1. ServicesInit => BatchInv /\ Batching!Abstract!Init
  <2> SUFFICES ASSUME ServicesInit PROVE BatchInv /\ Batching!Abstract!Init
    OBVIOUS
  <2>1. Batching!Init
    BY DEF ServicesInit
  <2>2. BatchInv
    BY <2>1, BatchInit
  <2>3. Batching!Outstanding = [b \in Batching!Abstract!Queues |-> <<>>]
    <3>1. <<>> \o <<>> = <<>>
      BY ConcatEmptySeq
    <3>2. \A b \in 1..NBatchers : Ahead(b) \o pending[b] = <<>>
      BY <2>1, <3>1 DEF Batching!Init, Batching!Batchers, Ahead
    <3> QED BY <2>2, <3>2, OutstandingIs DEF Batching!Abstract!Queues
  <2>4. Batching!AdmittedSize = [r \in Callers |-> 0]
    BY <2>1 DEF Batching!Init, Batching!AdmittedSize
  <2> QED BY <2>1, <2>2, <2>3, <2>4 DEF Batching!Init, Batching!Abstract!Init
<1>2. BatchInv /\ [ServicesNext]_<<part, vars, queues, inference, application, readiness>>
        => BatchInv' /\ [Batching!Abstract!Next]_(Batching!Abstract!vars)
  <2> SUFFICES ASSUME BatchInv,
                      [ServicesNext]_<<part, vars, queues, inference, application, readiness>>
      PROVE  BatchInv' /\ [Batching!Abstract!Next]_(Batching!Abstract!vars)
    OBVIOUS
  <2>1. CASE UNCHANGED inference
    BY <2>1, BatchStutter, OthersUnseen
  <2>2. CASE Batching!Next
    <3>1. BatchInv'
      BY <2>2, BatchStep
    <3>2. CASE Batching!Lifespan
      BY <3>1, <3>2, OthersUnseen
    <3>3. ASSUME NEW b \in 1..NBatchers, Batching!Work(b) \/ Batching!CollectMore(b)
          PROVE  [Batching!Abstract!Next]_(Batching!Abstract!vars)
      BY <3>3, OthersUnseen, TakeUnseen, ReleaseUnseen, AnswerRefines DEF Batching!Work
    <3>4. ASSUME NEW r \in Callers, Batching!Handle(r)
          PROVE  [Batching!Abstract!Next]_(Batching!Abstract!vars)
      BY <3>4, OthersUnseen, AdmitRefines DEF Batching!Handle
    <3>5. CASE Batching!Terminated
      <4>1. UNCHANGED inference
        BY <3>5 DEF Batching!Terminated, Batching!vars, Batching!life, Batching!queue,
            Batching!work, Batching!client, Batching!outcome, inference
      <4> QED BY <3>1, <4>1, OthersUnseen
    <3> QED
      BY <2>2, <3>1, <3>2, <3>3, <3>4, <3>5 DEF Batching!Next, Batching!Batchers
  <2> QED BY <2>1, <2>2 DEF ServicesNext
<1> QED BY <1>1, <1>2, PTL DEF ServicesSpec, Batching!Abstract!Spec

=============================================================================
