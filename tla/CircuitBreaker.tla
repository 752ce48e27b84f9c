--------------------------- MODULE CircuitBreaker ---------------------------
(***************************************************************************)
(* The circuit breaker in front of the hybrid retriever: request threads   *)
(* ask for a permit, retrieve outside the lock and report what happened,   *)
(* in any order.                                                           *)
(*                                                                         *)
(*   backend/app/retrieval_router.py   _CircuitBreaker, _search (qwen3)    *)
(*                                                                         *)
(* The code numbers the periods between two changes of state (epochs) and  *)
(* stores the number in the permit.  Only whether a permit's epoch is the  *)
(* current one is ever looked at, so the model keeps the set of requests   *)
(* for which it is.  A thread serves one request after another.            *)
(***************************************************************************)
EXTENDS Naturals

CONSTANTS
    Requests,           \* threads that serve requests
    FailureThreshold,   \* failure_threshold
    MaxOutages          \* bound: how often the hybrid retriever goes down

ASSUME ThresholdIsPositive == FailureThreshold \in Nat \ {0}
ASSUME OutagesBounded == MaxOutages \in Nat

VARIABLES
    state,      \* _state
    failures,   \* _consecutive_failures
    elapsed,    \* the reset interval has passed since _opened_at
    current,    \* requests whose permit is of the current epoch
    probes,     \* requests whose permit is a half-open probe
    pc,         \* request: where it is
    healthy,    \* the hybrid retriever works
    outages

breaker == <<state, failures, elapsed>>
vars == <<breaker, current, probes, pc, healthy, outages>>

Init ==
    /\ state = "closed" /\ failures = 0 /\ elapsed = FALSE
    /\ current = {} /\ probes = {}
    /\ pc = [r \in Requests |-> "idle"]
    /\ healthy = TRUE /\ outages = 0

Goto(r, label) == pc' = [pc EXCEPT ![r] = label]

-----------------------------------------------------------------------------
\* acquire
MayProbe == state = "open" /\ elapsed

AcquireClosed(r) ==
    /\ pc[r] = "idle" /\ state = "closed"
    /\ current' = current \cup {r}
    /\ Goto(r, "retrieve")
    /\ UNCHANGED <<breaker, probes, healthy, outages>>

AcquireProbe(r) ==
    /\ pc[r] = "idle" /\ MayProbe
    /\ state' = "half_open"
    /\ current' = current \cup {r}
    /\ probes' = probes \cup {r}
    /\ Goto(r, "retrieve")
    /\ UNCHANGED <<failures, elapsed, healthy, outages>>

\* "circuit_open": answered by the legacy search at once.
Refused(r) ==
    /\ pc[r] = "idle" /\ state # "closed" /\ ~MayProbe
    /\ Goto(r, "legacy")
    /\ UNCHANGED <<breaker, current, probes, healthy, outages>>

\* The retrieval: an answer, nothing found, an Exception, or another
\* BaseException (the thread is interrupted).
Retrieve(r) ==
    /\ pc[r] = "retrieve"
    /\ \/ /\ \E result \in IF healthy THEN {"found", "empty"} ELSE {"failed"} : Goto(r, result)
          /\ UNCHANGED outages
       \/ /\ outages < MaxOutages /\ outages' = outages + 1
          /\ Goto(r, "interrupted")
    /\ UNCHANGED <<breaker, current, probes, healthy>>

-----------------------------------------------------------------------------
(* record_success, record_failure, abandon                                 *)

NewEpoch == current' = {}
KeepEpoch(r) == current' = current \ {r}
Ignore(r) == UNCHANGED breaker /\ KeepEpoch(r)

Open ==
    /\ state' = "open" /\ failures' = 0 /\ elapsed' = FALSE
    /\ NewEpoch

Always(r) == TRUE       \* mutant: late results count
Counts(r) == r \in current

RecordSuccess(r) ==
    IF ~Counts(r) THEN Ignore(r)
    ELSE IF state = "half_open" /\ r \in probes
    THEN /\ state' = "closed" /\ failures' = 0
         /\ NewEpoch
         /\ UNCHANGED elapsed
    ELSE /\ failures' = IF state = "closed" THEN 0 ELSE failures
         /\ KeepEpoch(r)
         /\ UNCHANGED <<state, elapsed>>

Trips(n) == n >= FailureThreshold
RecordFailure(r) ==
    IF ~Counts(r) THEN Ignore(r)
    ELSE IF state = "half_open" /\ r \in probes THEN Open
    ELSE IF state # "closed" THEN Ignore(r)
    ELSE IF Trips(failures + 1) THEN Open
    ELSE /\ failures' = failures + 1
         /\ KeepEpoch(r)
         /\ UNCHANGED <<state, elapsed>>

AbandonNothing(r) == Ignore(r)  \* mutant: an interrupted probe
Abandon(r) ==
    IF Counts(r) /\ state = "half_open" /\ r \in probes
    THEN Open
    ELSE Ignore(r)

\* _search after the retrieval.
Report(r) ==
    /\ \/ /\ pc[r] = "found" /\ RecordSuccess(r)
          /\ Goto(r, "idle")
       \/ /\ pc[r] = "empty" /\ RecordSuccess(r)
          /\ Goto(r, "legacy")
       \/ /\ pc[r] = "failed" /\ RecordFailure(r)
          /\ Goto(r, "legacy")
       \/ /\ pc[r] = "interrupted" /\ Abandon(r)
          /\ Goto(r, "idle")
    /\ probes' = probes \ {r}
    /\ UNCHANGED <<healthy, outages>>

\* The legacy search answers or fails; which of the two hits the caller gets is
\* left out.
Legacy(r) ==
    /\ pc[r] = "legacy"
    /\ Goto(r, "idle")
    /\ UNCHANGED <<breaker, current, probes, healthy, outages>>

-----------------------------------------------------------------------------
(* The environment                                                         *)

IntervalPasses ==
    /\ state = "open" /\ ~elapsed
    /\ elapsed' = TRUE
    /\ UNCHANGED <<state, failures, current, probes, pc, healthy, outages>>
GoesDown ==
    /\ healthy /\ outages < MaxOutages
    /\ healthy' = FALSE /\ outages' = outages + 1
    /\ UNCHANGED <<breaker, current, probes, pc>>
ComesUp ==
    /\ ~healthy
    /\ healthy' = TRUE
    /\ UNCHANGED <<breaker, current, probes, pc, outages>>

Acquire(r) == AcquireClosed(r) \/ AcquireProbe(r) \/ Refused(r)
Serve(r) == Retrieve(r) \/ Report(r) \/ Legacy(r)

Next ==
    \/ \E r \in Requests : Acquire(r) \/ Serve(r)
    \/ IntervalPasses \/ GoesDown \/ ComesUp

Spec == Init /\ [][Next]_vars

\* Retrievals end (they have a deadline), time passes, requests keep coming and
\* an outage ends.
Fairness ==
    /\ \A r \in Requests : WF_vars(Serve(r)) /\ WF_vars(Acquire(r))
    /\ WF_vars(IntervalPasses) /\ WF_vars(ComesUp)
FairSpec == Spec /\ Fairness

-----------------------------------------------------------------------------
InFlight(r) == pc[r] \in {"retrieve", "found", "empty", "failed", "interrupted"}

\* Types.
TypeOK ==
    /\ state \in {"closed", "open", "half_open"}
    /\ failures \in 0..(FailureThreshold - 1)
    /\ elapsed \in BOOLEAN
    /\ current \subseteq Requests /\ probes \subseteq Requests
    /\ pc \in [Requests -> {"idle", "retrieve", "found", "empty", "failed", "interrupted",
                            "legacy"}]
    /\ healthy \in BOOLEAN /\ outages \in 0..MaxOutages

\* A half-open circuit is never orphaned: exactly one request is probing, and
\* it is still under way; outside half-open no probe can decide anything.
HalfOpenHasProbe ==
    LET deciding == {r \in probes \cap current : InFlight(r)} IN
    IF state = "half_open" THEN \E r \in Requests : deciding = {r} ELSE deciding = {}

\* An open circuit is open for everyone: no request let in earlier can still
\* close it or count against it.
OpenForgetsAll ==
    /\ state = "open" => current = {}
    /\ state # "closed" => failures = 0

ProbeCloses ==
    state # "closed" /\ state' = "closed" =>
        \E r \in probes : pc[r] \in {"found", "empty"} /\ pc'[r] # pc[r]
LateIsIgnored ==
    \A r \in Requests : InFlight(r) /\ ~InFlight(r)' /\ r \notin current => UNCHANGED breaker

\* The circuit closes only when a probe came back; a result that arrives late,
\* from before the last change of state, moves nothing.
OnlyProbesClose == [][ProbeCloses /\ LateIsIgnored]_vars

\* When the outages are over, the circuit closes again and stays closed.
Recovers == <>[](state = "closed")

=============================================================================
