------------------------ MODULE StructuredPublication ------------------------
(***************************************************************************)
(* The publication of a spreadsheet.  The API confirms schemas and         *)
(* enqueues jobs; workers claim a job under a lease that a heartbeat       *)
(* renews, stage its rows in ClickHouse, promote the staging table, switch *)
(* the active publication in PostgreSQL and index the data set's metadata  *)
(* for retrieval.                                                          *)
(*                                                                         *)
(*   backend/app/structured_repository.py   confirm, enqueue, claim, renew,*)
(*                                complete, fail, retrieval outcomes       *)
(*   backend/app/structured_worker.py       one job of a worker            *)
(*   backend/app/structured_ingestion.py    publish                        *)
(*   backend/app/clickhouse_gateway.py      staging and promotion          *)
(*                                                                         *)
(* One source with one data set.  A transaction that changes a job or its  *)
(* publication locks the source's row first, so it is one step.  Time is   *)
(* abstract: a lease may expire and a retry may fall due at any moment; a  *)
(* renewal in time changes nothing.                                        *)
(* Parquet files live in directories per attempt like the staging tables   *)
(* and are left out.                                                       *)
(***************************************************************************)
EXTENDS Naturals, FiniteSets

CONSTANTS
    Workers,
    MaxJobs,        \* bound: jobs ever enqueued
    MaxVersions,    \* bound: schemas ever confirmed
    MaxTroubles,    \* bound: stalls and crashes of a worker, calls that fail and
                    \* lost replies
    NullsFirst,     \* how the database orders a missing next_attempt_at
    NoJob

Jobs == 1..MaxJobs
Versions == 1..MaxVersions
Attempts == 1..(1 + MaxTroubles)

ASSUME Bounds ==
    /\ MaxJobs \in Nat /\ MaxVersions \in Nat /\ MaxTroubles \in Nat
    /\ NullsFirst \in BOOLEAN
ASSUME NoJobIsNoJob == NoJob \notin Jobs

VARIABLES
    latest,     \* the newest confirmed schema version
    dataset,    \* schema version: status
    created,    \* number of jobs enqueued
    version,    \* job: its schema version
    status,     \* job: status
    attempt,    \* job: how often it was claimed
    lease,      \* job: the attempt whose token it carries, 0 for none
    live,       \* jobs whose lease has not expired
    due,        \* failed jobs whose next_attempt_at has come
    pub,        \* job: status of its publication
    source,     \* the source's status
    staging,    \* ClickHouse: staging tables, <<job, attempt>>
    filled,     \* ... those that hold all the rows
    tables,     \* ClickHouse: jobs whose physical table exists
    point,      \* Qdrant: the publication the metadata point describes
    outcome,    \* job: outcome of its metadata indexing
    sourceIndex,\* status of the source in the retrieval index
    missed,     \* history, job: failed calls of its indexing while no outcome is
                \* recorded, 2 for more and when its worker was lost
    pc, mine, token,    \* worker: where it is, its job and its attempt
    lost,       \* workers that know that they lost their lease
    troubles

queue == <<created, version>>
rows == <<status, lease, live, due, pub, source>>
clickhouse == <<staging, filled, tables>>
index == <<point, outcome, sourceIndex, missed>>
worker == <<pc, mine, token, lost>>
vars == <<latest, dataset, queue, attempt, rows, clickhouse, index, worker, troubles>>

Init ==
    /\ latest = 0 /\ dataset = [v \in Versions |-> "none"]
    /\ created = 0
    /\ version = [j \in Jobs |-> 0]
    /\ status = [j \in Jobs |-> "none"]
    /\ attempt = [j \in Jobs |-> 0]
    /\ lease = [j \in Jobs |-> 0]
    /\ live = {} /\ due = {}
    /\ pub = [j \in Jobs |-> "none"]
    /\ source = "awaiting_schema"
    /\ staging = {} /\ filled = {} /\ tables = {}
    /\ point = NoJob
    /\ outcome = [j \in Jobs |-> "none"]
    /\ sourceIndex = "none" /\ missed = [j \in Jobs |-> 0]
    /\ pc = [w \in Workers |-> "idle"]
    /\ mine = [w \in Workers |-> NoJob]
    /\ token = [w \in Workers |-> 0]
    /\ lost = {}
    /\ troubles = 0

Goto(w, label) == pc' = [pc EXCEPT ![w] = label] /\ UNCHANGED <<mine, token>>
\* The end of a job's run: its local variables are gone.
Leave(w) ==
    /\ pc' = [pc EXCEPT ![w] = "idle"]
    /\ mine' = [mine EXCEPT ![w] = NoJob]
    /\ token' = [token EXCEPT ![w] = 0]
    /\ lost' = lost \ {w}
Fault == troubles < MaxTroubles /\ troubles' = troubles + 1
Served(pubs) == {j \in Jobs : pubs[j] = "published"}

\* _refresh_source_publication_state
Refresh(states, pubs) ==
    source' = IF \E j \in Jobs : states[j] \in {"queued", "running"} THEN "importing"
              ELSE IF Served(pubs) # {} THEN "indexed"
              ELSE IF \E j \in Jobs : states[j] = "failed" THEN "failed"
              ELSE source

-----------------------------------------------------------------------------
(* The API                                                                 *)

ConfirmSchema ==
    /\ latest < MaxVersions
    /\ latest' = latest + 1
    /\ dataset' = [dataset EXCEPT ![latest + 1] = "confirmed"]
    /\ UNCHANGED <<queue, attempt, rows, clickhouse, index, worker, troubles>>

\* Unfinished jobs of the newest schema are used again.
Current == {j \in Jobs : version[j] = latest /\ status[j] \in {"queued", "running", "failed"}}

NewJob(j) ==
    /\ created' = j
    /\ version' = [version EXCEPT ![j] = latest]
    /\ status' = [status EXCEPT ![j] = "queued"]
    /\ pub' = [pub EXCEPT ![j] = "queued"]
    /\ UNCHANGED due

Requeue(j) ==
    /\ status' = [status EXCEPT ![j] = IF @ = "failed" THEN "queued" ELSE @]
    /\ pub' = [pub EXCEPT ![j] = IF status[j] = "failed" THEN "queued" ELSE @]
    /\ due' = due \ {j}
    /\ UNCHANGED queue

EnqueuePublication ==
    /\ latest > 0
    /\ \/ Current = {} /\ created < MaxJobs /\ NewJob(created + 1)
       \/ \E j \in Current : Requeue(j)
    /\ Refresh(status', pub')
    /\ UNCHANGED <<latest, dataset, attempt, lease, live, clickhouse, index, worker, troubles>>

-----------------------------------------------------------------------------
(* The lease                                                               *)

LeaseHeld(j) == j \in live
NoRetry(j) == status[j] = "queued" \/ (status[j] = "running" /\ ~LeaseHeld(j))   \* mutant
Eligible(j) ==
    \/ status[j] = "queued"
    \/ status[j] = "failed" /\ j \in due
    \/ status[j] = "running" /\ ~LeaseHeld(j)

\* publication_candidate_statement: by next_attempt_at, which only a failed
\* job has, then by sequence.
Before(i, j) ==
    LET retry(k) == status[k] = "failed" IN
    IF retry(i) = retry(j) THEN ~retry(i) /\ i < j
    ELSE IF NullsFirst THEN ~retry(i) ELSE retry(i)
Candidate(j) == Eligible(j) /\ ~\E i \in Jobs : Eligible(i) /\ Before(i, j)

ClaimPublication(w, j) ==
    /\ pc[w] = "idle"
    /\ Candidate(j)
    /\ status' = [status EXCEPT ![j] = "running"]
    /\ attempt' = [attempt EXCEPT ![j] = @ + 1]
    /\ lease' = [lease EXCEPT ![j] = attempt[j] + 1]
    /\ live' = live \cup {j}
    /\ due' = due \ {j}
    /\ pub' = [pub EXCEPT ![j] = "running"]
    /\ Refresh(status', pub')
    /\ mine' = [mine EXCEPT ![w] = j]
    /\ token' = [token EXCEPT ![w] = attempt[j] + 1]
    /\ lost' = lost \ {w}
    /\ pc' = [pc EXCEPT ![w] = "input"]
    /\ UNCHANGED <<latest, dataset, queue, clickhouse, index, troubles>>

\* _require_current_lease
AnyRunning(j, t) == status[j] = "running" /\ j \in live    \* mutant: the token is not compared
CurrentLease(j, t) == status[j] = "running" /\ lease[j] = t /\ j \in live
Holds(w) == CurrentLease(mine[w], token[w])

\* The owner is late; a dead owner needs no stall.
Busy(w) == pc[w] # "idle"
Owned(j) == \E w \in Workers : Busy(w) /\ mine[w] = j /\ token[w] = lease[j]
LeaseExpires(j) ==
    /\ j \in live
    /\ live' = live \ {j}
    /\ IF Owned(j) THEN Fault ELSE UNCHANGED troubles
    /\ UNCHANGED <<latest, dataset, queue, attempt, status, lease, due, pub, source, clickhouse,
                   index, worker>>
RetryFallsDue(j) ==
    /\ status[j] = "failed" /\ j \notin due
    /\ due' = due \cup {j}
    /\ UNCHANGED <<latest, dataset, queue, attempt, status, lease, live, pub, source, clickhouse,
                   index, worker, troubles>>

\* A renewal by the heartbeat (or by a guard of the publisher) that fails; once
\* the job is published it can only fail and changes nothing.
Indexing == {"index", "finalize", "onFailure", "recordFailure"}
Heartbeat(w) ==
    /\ Busy(w) /\ pc[w] \notin Indexing /\ w \notin lost
    /\ IF Holds(w) THEN Fault ELSE UNCHANGED troubles
    /\ lost' = lost \cup {w}
    /\ UNCHANGED <<latest, dataset, queue, attempt, rows, clickhouse, index, pc, mine, token>>

\* renew(force=True): goes on with the lease, or knows that it is lost.
Renew(w, next, otherwise) ==
    IF w \notin lost /\ Holds(w)
    THEN Goto(w, next) /\ UNCHANGED lost
    ELSE Goto(w, otherwise) /\ lost' = lost \cup {w}

-----------------------------------------------------------------------------
(* The publisher                                                           *)

Staged(w) == <<mine[w], token[w]>>
\* A step of the publisher that raises: because the lease is known to be lost
\* or because a call fails.
Raises(w) == IF w \in lost THEN UNCHANGED troubles ELSE Fault

GetInput(w) ==
    /\ pc[w] = "input"
    /\ \/ Renew(w, "stage", "abort") /\ UNCHANGED troubles
       \/ Fault /\ Goto(w, "abort") /\ UNCHANGED lost
    /\ UNCHANGED <<latest, dataset, queue, attempt, rows, clickhouse, index>>

\* prepare_publication: older attempts of this publication are dropped.
Stale(s, w) == s[1] = mine[w] /\ s[2] < token[w]
Prepare(w) ==
    LET kept == {s \in staging : ~Stale(s, w)} IN
    /\ pc[w] = "stage"
    /\ \/ /\ w \notin lost
          /\ staging' = kept \cup {Staged(w)}
          /\ filled' = (filled \cap kept) \ {Staged(w)}
          /\ Goto(w, "insert")
          /\ UNCHANGED troubles
       \/ Raises(w) /\ Goto(w, "abort") /\ UNCHANGED <<staging, filled>>
    /\ UNCHANGED <<latest, dataset, queue, attempt, rows, tables, index, lost>>

\* insert_batch, with a checkpoint after every batch.
InsertRows(w) ==
    /\ pc[w] = "insert"
    /\ \/ /\ w \notin lost /\ Staged(w) \in staging
          /\ filled' = filled \cup {Staged(w)}
          /\ Renew(w, "promote", "discard")
          /\ UNCHANGED troubles
       \/ Staged(w) \notin staging /\ Goto(w, "discard") /\ UNCHANGED <<filled, troubles, lost>>
       \/ Raises(w) /\ Goto(w, "discard") /\ UNCHANGED <<filled, lost>>
    /\ UNCHANGED <<latest, dataset, queue, attempt, rows, staging, tables, index>>

\* validate_and_promote: RENAME fails when the publication's table exists, from
\* an earlier attempt or because only the reply was lost; that table is
\* validated instead.
Promote(w) ==
    /\ pc[w] = "promote"
    /\ \/ /\ w \notin lost /\ Staged(w) \in filled
          /\ tables' = tables \cup {mine[w]}
          /\ staging' = staging \ {Staged(w)}
          /\ filled' = filled \ {Staged(w)}
          /\ Goto(w, "final")
          /\ UNCHANGED troubles
       \/ Staged(w) \notin filled /\ Goto(w, "discard") /\ UNCHANGED <<clickhouse, troubles>>
       \/ Raises(w) /\ Goto(w, "discard") /\ UNCHANGED <<clickhouse>>
    /\ UNCHANGED <<latest, dataset, queue, attempt, rows, index, lost>>

\* discard_publication, best effort.
DropsTarget(w) == {mine[w]}     \* mutant: the physical table is dropped as well
Dropped(w) == {}
Discard(w) ==
    /\ pc[w] = "discard"
    /\ \/ staging' = staging \ {Staged(w)} /\ filled' = filled \ {Staged(w)} /\ UNCHANGED troubles
       \/ Fault /\ UNCHANGED <<staging, filled>>
    /\ tables' = tables \ Dropped(w)
    /\ Goto(w, "abort")
    /\ UNCHANGED <<latest, dataset, queue, attempt, rows, index, lost>>

\* The guard after the promotion discards, the checkpoint after it does not.
AfterPromotion(w) ==
    /\ pc[w] = "final"
    /\ \/ w \in lost /\ Goto(w, "discard") /\ UNCHANGED lost
       \/ /\ w \notin lost
          /\ \E otherwise \in {"discard", "abort"} : Renew(w, "complete", otherwise)
    /\ UNCHANGED <<latest, dataset, queue, attempt, rows, clickhouse, index, troubles>>

-----------------------------------------------------------------------------
(* The outcome                                                             *)

Release(j) == lease' = [lease EXCEPT ![j] = 0] /\ live' = live \ {j}

\* complete_publication
KeepOthers(j) == [pub EXCEPT ![j] = "published"]   \* mutant: the old one stays published
Switched(j) ==
    [k \in Jobs |-> IF k = j THEN "published"
                    ELSE IF pub[k] = "published" THEN "superseded" ELSE pub[k]]
Published(j) ==
    /\ pub' = Switched(j)
    /\ status' = [status EXCEPT ![j] = "published"]
    /\ dataset' = [dataset EXCEPT ![version[j]] = "published"]
    /\ Release(j)
    /\ Refresh(status', pub')

CompletePublication(w) ==
    LET j == mine[w] IN
    /\ pc[w] = "complete"
    /\ \/ /\ Holds(w)
          /\ Published(j)
          /\ \/ Goto(w, "index") /\ UNCHANGED <<missed, troubles>>
             \/ /\ Fault /\ Goto(w, "abort")     \* the reply to COMMIT is lost
                /\ missed' = [missed EXCEPT ![j] = 2]
       \/ /\ IF Holds(w) THEN Fault ELSE UNCHANGED troubles
          /\ Goto(w, "abort")
          /\ UNCHANGED <<pub, status, dataset, lease, live, source, missed>>
    /\ UNCHANGED <<latest, queue, attempt, due, clickhouse, point, outcome, sourceIndex, lost>>

\* fail_publication, unless the lease is known to be lost; a stale lease is
\* ignored.
Failed(j) ==
    /\ pub' = [pub EXCEPT ![j] = "failed"]
    /\ status' = [status EXCEPT ![j] = "failed"]
    /\ due' = due \ {j}
    /\ dataset' = [dataset EXCEPT ![version[j]] =
                        IF Served(pub) # {} THEN "published" ELSE "failed"]
    /\ Release(j)
    /\ Refresh(status', pub')

FailPublication(w) ==
    /\ pc[w] = "abort"
    /\ IF w \notin lost /\ Holds(w)
       THEN Failed(mine[w])
       ELSE UNCHANGED <<rows, dataset>>
    /\ Leave(w)
    /\ UNCHANGED <<latest, queue, attempt, clickhouse, index, troubles>>

-----------------------------------------------------------------------------
(* The metadata for retrieval                                              *)

\* _refresh_structured_retrieval_source_index: the newest schema decides.
RefreshIndex(outcomes, active) ==
    LET found == {outcomes[j] : j \in {k \in active : version[k] = latest}} IN
    sourceIndex' = IF "failed" \in found THEN "failed"
                   ELSE IF found = {"indexed"} THEN "indexed"
                   ELSE "indexing"

\* _record_retrieval_dataset_outcome: its check that the publication is active
\* takes no lock, so one superseded since is recorded too, by what was active.
Record(j, result) ==
    /\ pub[j] \in {"published", "superseded"}
    /\ outcome' = [outcome EXCEPT ![j] = result]
    /\ \E active \in {Served(pub), {j}} : RefreshIndex(outcome', active)
    /\ missed' = [missed EXCEPT ![j] = 0]
Inactive(j) == pub[j] # "published"

\* A call fails that had to do with the indexing of a job.
Miss(j) == Fault /\ missed' = [missed EXCEPT ![j] = IF @ = 0 THEN 1 ELSE 2]

\* The alias and the source's maintenance lock, held to the end of finalize or
\* on_failure.
Locking == {"finalize", "onFailure"}

\* _index_publication_locked: it may fail before or after the point is written
\* (_require_live_alias); without the locks nothing has begun.
IndexPublication(w) ==
    /\ pc[w] = "index"
    /\ \/ /\ \A v \in Workers : pc[v] \notin Locking
          /\ \/ point' = mine[w] /\ Goto(w, "finalize") /\ UNCHANGED <<missed, troubles>>
             \/ Miss(mine[w]) /\ point' \in {point, mine[w]} /\ Goto(w, "onFailure")
       \/ Miss(mine[w]) /\ Goto(w, "recordFailure") /\ UNCHANGED point
    /\ UNCHANGED <<latest, dataset, queue, attempt, rows, clickhouse, outcome, sourceIndex,
                   lost>>

\* A transaction that records the outcome: it is the end, is refused, or fails,
\* before or after its commit.
RecordOutcome(w, result, otherwise) ==
    /\ \/ Record(mine[w], result) /\ Leave(w) /\ UNCHANGED troubles
       \/ /\ Goto(w, otherwise) /\ UNCHANGED lost
          /\ \/ Inactive(mine[w]) /\ UNCHANGED <<outcome, sourceIndex, missed, troubles>>
             \/ Record(mine[w], result) /\ Fault
             \/ Miss(mine[w]) /\ UNCHANGED <<outcome, sourceIndex>>
    /\ UNCHANGED <<latest, dataset, queue, attempt, rows, clickhouse, point>>

\* finalize_index and, when the indexing raised, finalize_failure; when either
\* raises, the worker records the failure once more, without the locks.
AbortAtOnce(w) == pc[w] = "finalize" /\ RecordOutcome(w, "indexed", "abort")   \* mutant
FinalizeIndex(w) == pc[w] = "finalize" /\ RecordOutcome(w, "indexed", "recordFailure")
FinalizeFailure(w) == pc[w] = "onFailure" /\ RecordOutcome(w, "failed", "recordFailure")
RecordFailure(w) == pc[w] = "recordFailure" /\ RecordOutcome(w, "failed", "abort")

\* The worker's process dies; its supervisor starts it again.
Crash(w) ==
    /\ Busy(w)
    /\ Fault
    /\ Leave(w)
    /\ missed' = IF pc[w] \in Indexing THEN [missed EXCEPT ![mine[w]] = 2] ELSE missed
    /\ UNCHANGED <<latest, dataset, queue, attempt, rows, clickhouse, point, outcome, sourceIndex>>

-----------------------------------------------------------------------------
RunClaimed(w) ==
    \/ GetInput(w) \/ Prepare(w) \/ InsertRows(w) \/ Promote(w) \/ Discard(w)
    \/ AfterPromotion(w) \/ CompletePublication(w) \/ FailPublication(w) \/ IndexPublication(w)
    \/ FinalizeIndex(w) \/ FinalizeFailure(w) \/ RecordFailure(w)

Next ==
    \/ ConfirmSchema \/ EnqueuePublication
    \/ \E j \in Jobs : LeaseExpires(j) \/ RetryFallsDue(j)
    \/ \E w \in Workers :
        \/ RunClaimed(w) \/ Heartbeat(w) \/ Crash(w)
        \/ \E j \in Jobs : ClaimPublication(w, j)

Spec == Init /\ [][Next]_vars

\* run_forever polls, steps of a job run, time passes; a live owner's lease
\* need not expire.
FairSpec ==
    /\ Spec
    /\ \A w \in Workers : WF_vars(RunClaimed(w))
    /\ WF_vars(\E w \in Workers, j \in Jobs : ClaimPublication(w, j))
    /\ \A j \in Jobs : WF_vars(~Owned(j) /\ LeaseExpires(j)) /\ WF_vars(RetryFallsDue(j))

-----------------------------------------------------------------------------
\* Types, and what a job's columns say together: a token exactly while it runs,
\* an attempt for every claim.
TypeOK ==
    /\ latest \in 0..MaxVersions /\ created \in 0..MaxJobs
    /\ dataset \in [Versions -> {"none", "confirmed", "published", "failed"}]
    /\ version \in [Jobs -> 0..MaxVersions]
    /\ status \in [Jobs -> {"none", "queued", "running", "failed", "published"}]
    /\ attempt \in [Jobs -> 0..(1 + MaxTroubles)]
    /\ lease \in [Jobs -> 0..(1 + MaxTroubles)]
    /\ live \subseteq Jobs /\ due \subseteq Jobs
    /\ pub \in [Jobs -> {"none", "queued", "running", "failed", "published", "superseded"}]
    /\ source \in {"awaiting_schema", "importing", "indexed", "failed"}
    /\ staging \subseteq Jobs \X Attempts /\ filled \subseteq staging /\ tables \subseteq Jobs
    /\ point \in Jobs \cup {NoJob}
    /\ outcome \in [Jobs -> {"none", "indexed", "failed"}]
    /\ sourceIndex \in {"none", "indexing", "indexed", "failed"}
    /\ missed \in [Jobs -> 0..2]
    /\ pc \in [Workers -> {"idle", "input", "stage", "insert", "promote", "discard", "final",
                           "complete", "abort"} \cup Indexing]
    /\ mine \in [Workers -> Jobs \cup {NoJob}]
    /\ token \in [Workers -> 0..(1 + MaxTroubles)]
    /\ lost \subseteq Workers
    /\ troubles \in 0..MaxTroubles
    /\ \A j \in Jobs : lease[j] = IF status[j] = "running" THEN attempt[j] ELSE 0

\* The holder of the lease works undisturbed: no late worker of an earlier
\* attempt drops its staging table (prepare_staging).
StagingIntact ==
    \A w \in Workers :
        /\ pc[w] \in {"insert", "promote"} /\ Holds(w) => Staged(w) \in staging
        /\ pc[w] = "promote" /\ Holds(w) => Staged(w) \in filled

\* Every publication that queries may read, the active one or one that a query
\* began with, has its table.
ServedHasTable ==
    \A j \in Jobs : pub[j] \in {"published", "superseded"} => j \in tables

\* Only the worker of the latest attempt decides the fate of a running job, and
\* what was published is never taken back by a late one.
OnlyHolderDecides ==
    [][\A j \in Jobs :
        /\ status[j] = "running" /\ status'[j] \in {"published", "failed"} =>
            \E w \in Workers :
                mine[w] = j /\ token[w] = attempt[j] /\ pc[w] # "idle" /\ pc'[w] # pc[w]
        /\ status[j] = "published" => status'[j] = "published"]_vars

\* Queries always find exactly one active publication, the one published last,
\* and no job is published twice.
Log == INSTANCE ServedPublication WITH
    asked <- 1..created,
    published <- {j \in Jobs : pub[j] \in {"published", "superseded"}},
    served <- Served(pub)
RefinesServedPublication == Log!Spec

\* When the worker of the active publication is done, the outcome of its
\* metadata indexing is on record, whoever ran beside it, unless the worker was
\* lost on the way or two calls failed (_run_claimed records the failure of a
\* failure once and gives up).
OutcomeRecorded ==
    \A j \in Jobs :
        pub[j] = "published" /\ (\A w \in Workers : ~(Busy(w) /\ mine[w] = j))
            => outcome[j] # "none" \/ missed[j] = 2

\* What the rows say of the jobs and of the work on them is true.
JobsSound == TypeOK /\ StagingIntact /\ OutcomeRecorded

\* Once calls stop failing, every job is published, whoever died meanwhile.
EventuallyPublished ==
    \A j \in Jobs : status[j] = "queued" ~> status[j] = "published"

=============================================================================
