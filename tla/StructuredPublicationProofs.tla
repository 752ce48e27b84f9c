---------------------- MODULE StructuredPublicationProofs ----------------------
(***************************************************************************)
(* Theorems about StructuredPublication, for any number of workers, jobs,  *)
(* schemas and troubles.                                                   *)
(*                                                                         *)
(* Three groups of facts, each inductive with those before it.  Books: a   *)
(* running job carries the token of its latest attempt and no other job    *)
(* carries one, and a busy worker has a job.  Agree: job and publication   *)
(* rows tell the same story, so a job whose publication was completed is   *)
(* never claimed or completed again.  Tables: a worker that may complete   *)
(* its job has promoted its table, and no table is dropped.  A fourth      *)
(* group at the end, Jobs, accounts for attempts, staging tables and       *)
(* outcomes.                                                               *)
(***************************************************************************)
EXTENDS StructuredPublication, TLAPS

JobStatus == {"none", "queued", "running", "failed", "published"}
Place == {"idle", "input", "stage", "insert", "promote", "discard", "final", "complete",
          "abort"} \cup Indexing

Types ==
    /\ created \in 0..MaxJobs
    /\ status \in [Jobs -> JobStatus]
    /\ pub \in [Jobs -> JobStatus \cup {"superseded"}]
    /\ attempt \in [Jobs -> Nat] /\ lease \in [Jobs -> Nat]
    /\ pc \in [Workers -> Place]
    /\ mine \in [Workers -> Jobs \cup {NoJob}] /\ token \in [Workers -> Nat]

Leased == \A j \in Jobs : lease[j] = IF status[j] = "running" THEN attempt[j] ELSE 0
Employed == \A w \in Workers : pc[w] # "idle" => mine[w] \in Jobs

Books == Types /\ Leased /\ Employed

Agree ==
    \A j \in Jobs :
        /\ j <= created <=> status[j] # "none"
        /\ status[j] # "published" => pub[j] = status[j]
        /\ status[j] = "published" => pub[j] \in {"published", "superseded"}

Promoted == \A w \in Workers : pc[w] \in {"final", "complete"} => mine[w] \in tables
Tables == Promoted /\ ServedHasTable

IInv == Books /\ Agree /\ Tables

LEMMA InitHolds == Init => IInv
<1> SUFFICES ASSUME Init PROVE IInv
  OBVIOUS
<1>. created = 0
  BY DEF Init
<1>1. Types
  <2>1. created \in 0..MaxJobs
    BY Bounds
  <2> QED BY <2>1 DEF Init, Types, JobStatus, Place
<1>2. Leased /\ Employed
  BY DEF Init, Leased, Employed
<1>3. Agree
  <2>1. \A j \in Jobs : ~(j <= created)
    BY Bounds DEF Jobs
  <2> QED BY <2>1 DEF Init, Agree
<1>4. Tables
  BY DEF Init, Tables, Promoted, ServedHasTable
<1> QED BY <1>1, <1>2, <1>3, <1>4 DEF IInv, Books

-----------------------------------------------------------------------------
(* The books: types, tokens and who has a job.                             *)

LEMMA BooksStep == Books /\ Agree /\ [Next]_vars => Books'
<1> SUFFICES ASSUME Books, Agree, [Next]_vars PROVE Books'
  OBVIOUS
<1> USE Bounds DEF Books, Types, Leased, Employed, JobStatus, Place, Indexing, Jobs
<1>1. CASE UNCHANGED vars
  BY <1>1 DEF vars, queue, rows, worker
<1>2. CASE ConfirmSchema
  BY <1>2 DEF ConfirmSchema, queue, rows, worker
<1>3. CASE EnqueuePublication
  <2>1. CASE NewJob(created + 1) /\ created < MaxJobs
    <3>1. UNCHANGED <<attempt, lease, pc, mine, token>>
      BY <1>3 DEF EnqueuePublication, worker
    <3>2. created + 1 \in Jobs
      BY <2>1
    <3>3. /\ created' = created + 1
          /\ status' = [status EXCEPT ![created + 1] = "queued"]
          /\ pub' = [pub EXCEPT ![created + 1] = "queued"]
      BY <2>1 DEF NewJob
    <3>4. status[created + 1] = "none"
      BY <3>2 DEF Agree
    <3> QED BY <2>1, <3>1, <3>2, <3>3, <3>4
  <2>2. ASSUME NEW j \in Current, Requeue(j) PROVE Books'
    <3>1. UNCHANGED <<created, attempt, lease, pc, mine, token>>
      BY <1>3, <2>2 DEF EnqueuePublication, Requeue, queue, worker
    <3>2. /\ status' \in [Jobs -> JobStatus] /\ pub' \in [Jobs -> JobStatus \cup {"superseded"}]
          /\ \A k \in Jobs : status'[k] = "running" <=> status[k] = "running"
      BY <2>2 DEF Requeue, Current
    <3> QED BY <3>1, <3>2
  <2> QED BY <1>3, <2>1, <2>2 DEF EnqueuePublication
<1>4. ASSUME NEW j \in Jobs, LeaseExpires(j) \/ RetryFallsDue(j) PROVE Books'
  BY <1>4 DEF LeaseExpires, RetryFallsDue, queue, worker
<1>5. ASSUME NEW w \in Workers, NEW j \in Jobs, ClaimPublication(w, j) PROVE Books'
  <2>1. /\ created' = created
        /\ status' = [status EXCEPT ![j] = "running"] /\ pub' = [pub EXCEPT ![j] = "running"]
        /\ attempt' = [attempt EXCEPT ![j] = @ + 1] /\ lease' = [lease EXCEPT ![j] = attempt[j] + 1]
        /\ pc' = [pc EXCEPT ![w] = "input"] /\ mine' = [mine EXCEPT ![w] = j]
        /\ token' = [token EXCEPT ![w] = attempt[j] + 1]
    BY <1>5 DEF ClaimPublication, Goto, queue
  <2>2. attempt[j] + 1 \in Nat
    OBVIOUS
  <2>3. Types'
    BY <2>1, <2>2
  <2>4. Leased' /\ Employed'
    BY <2>1, <2>2
  <2> QED BY <2>3, <2>4
<1> DEFINE Rest == UNCHANGED <<created, status, pub, attempt, lease>>
<1>8. ASSUME NEW w \in Workers, Leave(w), Rest PROVE Books'
  BY <1>8 DEF Leave
<1>9. ASSUME NEW w \in Workers, pc[w] # "idle", NEW place \in Place \ {"idle"}, Goto(w, place), Rest
      PROVE  Books'
  BY <1>9 DEF Goto
<1>6. ASSUME NEW w \in Workers, Heartbeat(w) \/ Crash(w) PROVE Books'
  <2>1. CASE Heartbeat(w)
    BY <2>1 DEF Heartbeat, queue, rows
  <2>2. CASE Crash(w)
    BY <2>2, <1>8 DEF Crash, queue, rows
  <2> QED BY <1>6, <2>1, <2>2
<1>7. ASSUME NEW w \in Workers, RunClaimed(w) PROVE Books'
  <2>1. CASE GetInput(w) \/ Prepare(w) \/ InsertRows(w) \/ Promote(w) \/ Discard(w)
             \/ AfterPromotion(w) \/ IndexPublication(w)
    <3>1. \E place \in Place \ {"idle"} : Goto(w, place)
      BY <2>1 DEF GetInput, Prepare, InsertRows, Promote, Discard, AfterPromotion,
         IndexPublication, Renew
    <3>2. pc[w] # "idle" /\ Rest
      BY <2>1, ZenonT(60) DEF GetInput, Prepare, InsertRows, Promote, Discard, AfterPromotion,
         IndexPublication, queue, rows
    <3> QED BY <3>1, <3>2, <1>9
  <2>4. CASE FinalizeIndex(w) \/ FinalizeFailure(w) \/ RecordFailure(w)
    <3>1. Leave(w) \/ \E place \in Place \ {"idle"} : Goto(w, place)
      BY <2>4 DEF FinalizeIndex, FinalizeFailure, RecordFailure, RecordOutcome
    <3>2. pc[w] # "idle" /\ Rest
      BY <2>4 DEF FinalizeIndex, FinalizeFailure, RecordFailure, RecordOutcome, queue, rows
    <3> QED BY <3>1, <3>2, <1>8, <1>9
  <2>2. CASE CompletePublication(w)
    <3>1. /\ UNCHANGED <<created, attempt, mine, token>>
          /\ pc' \in [Workers -> Place] /\ \A v \in Workers : pc'[v] # "idle" => pc[v] # "idle"
      BY <2>2 DEF CompletePublication, Goto, queue
    <3>2. CASE Published(mine[w])
      BY <3>1, <3>2 DEF Published, Switched, Release
    <3>3. CASE UNCHANGED <<pub, status, lease>>
      BY <3>1, <3>3
    <3> QED BY <2>2, <3>2, <3>3 DEF CompletePublication
  <2>3. CASE FailPublication(w)
    <3>1. UNCHANGED <<created, attempt>> /\ Leave(w)
      BY <2>3 DEF FailPublication, queue
    <3> USE DEF Leave
    <3>2. CASE Failed(mine[w])
      BY <3>1, <3>2 DEF Failed, Release
    <3>3. CASE UNCHANGED <<pub, status, lease>>
      BY <3>1, <3>3
    <3> QED BY <2>3, <3>2, <3>3 DEF FailPublication, rows
  <2> QED BY <1>7, <2>1, <2>2, <2>3, <2>4 DEF RunClaimed
<1> QED
  BY <1>1, <1>2, <1>3, <1>4, <1>5, <1>6, <1>7 DEF Next

-----------------------------------------------------------------------------
(* What the steps do to job and publication rows.                          *)

\* A worker that holds the job's token leaves a place.
Decides(j, place) ==
    \E w \in Workers :
        /\ pc[w] = place /\ pc'[w] # place
        /\ mine[w] = j /\ token[w] = lease[j]
Unmoved == UNCHANGED <<created, status, pub>>
Asks(j) ==
    /\ j = created + 1 /\ created' = j
    /\ status' = [status EXCEPT ![j] = "queued"] /\ pub' = [pub EXCEPT ![j] = "queued"]
Moves(j, to) ==
    /\ status[j] \in {"queued", "running", "failed"} /\ created' = created
    /\ status' = [status EXCEPT ![j] = to] /\ pub' = [pub EXCEPT ![j] = to]
    /\ to = "failed" => Decides(j, "abort")
Publishes(j) ==
    /\ status[j] = "running" /\ created' = created
    /\ status' = [status EXCEPT ![j] = "published"] /\ pub' = Switched(j)
    /\ Decides(j, "complete")

\* Every step leaves the rows alone, enqueues a job, moves one that is not
\* published or publishes one that is running; the last two are up to a worker
\* with the token.
LEMMA RowSteps ==
    ASSUME Books, Agree, [Next]_vars
    PROVE  \/ Unmoved
           \/ \E j \in Jobs : \/ Asks(j) \/ Publishes(j)
                              \/ \E to \in {"queued", "running", "failed"} : Moves(j, to)
<1> USE DEF Unmoved
<1>1. CASE UNCHANGED vars
  BY <1>1 DEF vars, queue, rows
<1>2. CASE ConfirmSchema
  BY <1>2 DEF ConfirmSchema, queue, rows
<1>3. CASE EnqueuePublication
  <2>1. CASE NewJob(created + 1) /\ created < MaxJobs
    <3>1. created + 1 \in Jobs
      BY <2>1, Bounds DEF Books, Types, Jobs
    <3> QED BY <2>1, <3>1 DEF NewJob, Asks
  <2>2. ASSUME NEW j \in Current, Requeue(j) PROVE Unmoved \/ \E k \in Jobs : Moves(k, "queued")
    <3>1. CASE status[j] = "failed"
      BY <2>2, <3>1 DEF Requeue, Current, Moves, queue
    <3>2. CASE status[j] # "failed"
      BY <2>2, <3>2 DEF Requeue, Current, queue, Books, Types
    <3> QED BY <3>1, <3>2
  <2> QED BY <1>3, <2>1, <2>2 DEF EnqueuePublication
<1>4. ASSUME NEW j \in Jobs, LeaseExpires(j) \/ RetryFallsDue(j) PROVE Unmoved
  BY <1>4 DEF LeaseExpires, RetryFallsDue, queue
<1>5. ASSUME NEW w \in Workers, NEW j \in Jobs, ClaimPublication(w, j) PROVE Moves(j, "running")
  BY <1>5 DEF ClaimPublication, Candidate, Eligible, Moves, queue
<1>6. ASSUME NEW w \in Workers, Heartbeat(w) \/ Crash(w) PROVE Unmoved
  BY <1>6 DEF Heartbeat, Crash, queue, rows
<1>7. ASSUME NEW w \in Workers, RunClaimed(w)
      PROVE  Unmoved \/ \E j \in Jobs : Publishes(j) \/ Moves(j, "failed")
  <2>1. CASE GetInput(w) \/ Prepare(w) \/ InsertRows(w) \/ Promote(w) \/ Discard(w)
             \/ AfterPromotion(w) \/ IndexPublication(w) \/ FinalizeIndex(w)
             \/ FinalizeFailure(w) \/ RecordFailure(w)
    BY <2>1, SMTT(60) DEF GetInput, Prepare, InsertRows, Promote, Discard, AfterPromotion,
       IndexPublication, FinalizeIndex, FinalizeFailure, RecordFailure, RecordOutcome, queue, rows
  <2>2. CASE CompletePublication(w)
    <3>1. mine[w] \in Jobs
      BY <2>2 DEF CompletePublication, Books, Employed
    <3>2. pc[w] = "complete" /\ pc'[w] # "complete"
      BY <2>2 DEF CompletePublication, Goto, Books, Types
    <3> QED BY <2>2, <3>1, <3>2 DEF CompletePublication, Published, Publishes, Decides,
            Holds, CurrentLease, queue
  <2>3. CASE FailPublication(w)
    <3>1. mine[w] \in Jobs
      BY <2>3 DEF FailPublication, Books, Employed
    <3>2. pc[w] = "abort" /\ pc'[w] # "abort"
      BY <2>3 DEF FailPublication, Leave, Books, Types
    <3> QED BY <2>3, <3>1, <3>2 DEF FailPublication, Failed, Moves, Decides, Holds,
            CurrentLease, queue, rows
  <2> QED BY <1>7, <2>1, <2>2, <2>3 DEF RunClaimed
<1> QED
  BY <1>1, <1>2, <1>3, <1>4, <1>5, <1>6, <1>7 DEF Next

LEMMA AgreeStep == Books /\ Agree /\ [Next]_vars => Agree'
<1> SUFFICES ASSUME Books, Agree, [Next]_vars PROVE Agree'
  OBVIOUS
<1> USE DEF Agree, Books, Types
<1>1. CASE Unmoved
  BY <1>1 DEF Unmoved
<1>2. ASSUME NEW j \in Jobs, Asks(j) PROVE Agree'
  BY <1>2 DEF Asks, Jobs
<1>3. ASSUME NEW j \in Jobs, NEW to \in {"queued", "running", "failed"}, Moves(j, to)
      PROVE  Agree'
  BY <1>3 DEF Moves
<1>4. ASSUME NEW j \in Jobs, Publishes(j) PROVE Agree'
  BY <1>4 DEF Publishes, Switched
<1> QED
  BY <1>1, <1>2, <1>3, <1>4, RowSteps

-----------------------------------------------------------------------------
(* The tables.                                                             *)

\* Tables are only ever added, and a worker comes to "final" by adding its own.
LEMMA TableSteps ==
    ASSUME Books, Tables, [Next]_vars
    PROVE  tables \subseteq tables' /\ Promoted'
<1> USE DEF Tables, Promoted, Books, Types
<1>1. CASE UNCHANGED vars
  BY <1>1 DEF vars, clickhouse, worker
<1>2. CASE ConfirmSchema \/ EnqueuePublication
  BY <1>2 DEF ConfirmSchema, EnqueuePublication, clickhouse, worker
<1>3. ASSUME NEW j \in Jobs, LeaseExpires(j) \/ RetryFallsDue(j)
      PROVE  tables \subseteq tables' /\ Promoted'
  BY <1>3 DEF LeaseExpires, RetryFallsDue, clickhouse, worker
<1>4. ASSUME NEW w \in Workers, NEW j \in Jobs, ClaimPublication(w, j)
      PROVE  tables \subseteq tables' /\ Promoted'
  BY <1>4 DEF ClaimPublication, Goto, clickhouse
<1>5. ASSUME NEW w \in Workers, Heartbeat(w) \/ Crash(w)
      PROVE  tables \subseteq tables' /\ Promoted'
  BY <1>5 DEF Heartbeat, Crash, Leave, clickhouse
<1>6. ASSUME NEW w \in Workers, RunClaimed(w)
      PROVE  tables \subseteq tables' /\ Promoted'
  <2>1. CASE GetInput(w) \/ Prepare(w) \/ InsertRows(w) \/ IndexPublication(w)
             \/ FinalizeIndex(w) \/ FinalizeFailure(w) \/ RecordFailure(w)
    BY <2>1 DEF GetInput, Prepare, InsertRows, IndexPublication, FinalizeIndex, FinalizeFailure,
       RecordFailure, RecordOutcome, Renew, Goto, Leave, clickhouse
  <2>2. CASE Promote(w)
    BY <2>2 DEF Promote, Goto, clickhouse
  <2>3. CASE Discard(w)
    BY <2>3 DEF Discard, Dropped, Goto
  <2>4. CASE AfterPromotion(w)
    BY <2>4 DEF AfterPromotion, Renew, Goto, clickhouse
  <2>5. CASE CompletePublication(w)
    BY <2>5 DEF CompletePublication, Goto, clickhouse
  <2>6. CASE FailPublication(w)
    BY <2>6 DEF FailPublication, Leave, clickhouse
  <2> QED BY <1>6, <2>1, <2>2, <2>3, <2>4, <2>5, <2>6 DEF RunClaimed
<1> QED
  BY <1>1, <1>2, <1>3, <1>4, <1>5, <1>6 DEF Next

LEMMA TablesStep == Books /\ Agree /\ Tables /\ [Next]_vars => Tables'
<1> SUFFICES ASSUME Books, Agree, Tables, [Next]_vars PROVE Tables'
  OBVIOUS
<1>1. tables \subseteq tables' /\ Promoted'
  BY TableSteps
<1>2. ServedHasTable'
  <2> USE <1>1 DEF Tables, ServedHasTable, Books, Types
  <2>1. CASE Unmoved
    BY <2>1 DEF Unmoved
  <2>2. ASSUME NEW j \in Jobs, Asks(j) PROVE ServedHasTable'
    BY <2>2 DEF Asks
  <2>3. ASSUME NEW j \in Jobs, NEW to \in {"queued", "running", "failed"}, Moves(j, to)
        PROVE  ServedHasTable'
    BY <2>3 DEF Moves
  <2>4. ASSUME NEW j \in Jobs, Publishes(j) PROVE ServedHasTable'
    <3>1. j \in tables
      BY <2>4 DEF Publishes, Decides, Promoted
    <3> QED BY <2>4, <3>1 DEF Publishes, Switched
  <2> QED BY <2>1, <2>2, <2>3, <2>4, RowSteps
<1> QED BY <1>1, <1>2 DEF Tables

-----------------------------------------------------------------------------
(* The theorems.                                                           *)

\* What the three groups say holds in every state.
THEOREM Bookkeeping == Spec => []IInv
<1>1. IInv /\ [Next]_vars => IInv'
  BY BooksStep, AgreeStep, TablesStep DEF IInv
<1> QED BY InitHolds, <1>1, PTL DEF Spec

\* Every publication that queries may read has its table (validate_and_promote
\* comes before complete_publication, and nothing drops a promoted table).
THEOREM TablesServed == Spec => []ServedHasTable
<1>1. IInv => ServedHasTable
  BY DEF IInv, Tables
<1> QED BY Bookkeeping, <1>1, PTL

\* Only the worker that holds the token of the latest attempt ends a running
\* job, and a published job stays published (_require_current_lease).
THEOREM HolderDecides == Spec => OnlyHolderDecides
<1> DEFINE Kept(j) ==
      /\ status[j] = "running" /\ status'[j] \in {"published", "failed"} =>
            \E w \in Workers :
                mine[w] = j /\ token[w] = attempt[j] /\ pc[w] # "idle" /\ pc'[w] # pc[w]
      /\ status[j] = "published" => status'[j] = "published"
<1>1. ASSUME IInv, [Next]_vars, NEW j \in Jobs PROVE Kept(j)
  <2> USE <1>1 DEF IInv, Books, Types
  <2>1. CASE Unmoved
    BY <2>1 DEF Unmoved
  <2>2. ASSUME NEW k \in Jobs, Asks(k) PROVE Kept(j)
    <3>1. status[k] = "none"
      BY <2>2 DEF Asks, Agree, Jobs
    <3> QED BY <2>2, <3>1 DEF Asks
  <2>3. ASSUME NEW k \in Jobs, NEW to \in {"queued", "running", "failed"}, Moves(k, to)
        PROVE  Kept(j)
    BY <2>3 DEF Moves, Decides, Leased
  <2>4. ASSUME NEW k \in Jobs, Publishes(k) PROVE Kept(j)
    BY <2>4 DEF Publishes, Decides, Leased
  <2> QED BY <2>1, <2>2, <2>3, <2>4, RowSteps
<1>2. IInv /\ [Next]_vars => [\A j \in Jobs : Kept(j)]_vars
  BY <1>1
<1> QED BY Bookkeeping, <1>2, PTL DEF Spec, OnlyHolderDecides

\* Leases, staging, promotion and the switch implement the abstract log: no job
\* is published twice and the one published last is the only one served.
THEOREM ServesTheLastPublication == Spec => RefinesServedPublication
<1> USE DEF Log!Init, Log!Next, Log!Ask, Log!Publish, Log!vars
<1>1. Init => Log!Init
  <2> SUFFICES ASSUME Init PROVE Log!Init
    OBVIOUS
  <2>1. created = 0 /\ \A j \in Jobs : pub[j] = "none"
    BY DEF Init
  <2> QED BY <2>1, Bounds DEF Served, Jobs
<1>2. ASSUME IInv, [Next]_vars PROVE [Log!Next]_Log!vars
  <2> USE <1>2 DEF IInv, Books, Types, Served
  <2>1. CASE Unmoved
    BY <2>1 DEF Unmoved
  <2>2. ASSUME NEW j \in Jobs, Asks(j) PROVE Log!Ask(j)
    <3>1. status[j] = "none" /\ pub[j] = "none"
      BY <2>2 DEF Asks, Agree, Jobs
    <3>2. 1..created' = (1..created) \cup {j}
      BY <2>2 DEF Asks
    <3> QED BY <2>2, <3>1, <3>2 DEF Asks
  <2>3. ASSUME NEW j \in Jobs, NEW to \in {"queued", "running", "failed"}, Moves(j, to)
        PROVE  UNCHANGED Log!vars
    BY <2>3 DEF Moves, Agree
  <2>4. ASSUME NEW j \in Jobs, Publishes(j) PROVE Log!Publish(j)
    <3>1. j \in 1..created /\ pub[j] = "running"
      BY <2>4, Bounds DEF Publishes, Agree, Jobs
    <3> QED BY <2>4, <3>1 DEF Publishes, Switched
  <2> QED BY <2>1, <2>2, <2>3, <2>4, RowSteps
<1> QED BY Bookkeeping, <1>1, <1>2, PTL DEF Spec, RefinesServedPublication, Log!Spec

-----------------------------------------------------------------------------
(* The jobs.                                                               *)

\* A worker's token is one of its job's attempts and no other worker has it.
Tokens ==
    /\ \A w \in Workers :
        token[w] \in IF mine[w] \in Jobs THEN 1..attempt[mine[w]] ELSE {0}
    /\ \A v, w \in Workers :
        mine[v] \in Jobs /\ mine[v] = mine[w] /\ token[v] = token[w] => v = w

\* An attempt that nothing has disturbed: its worker holds the lease and is on
\* its way, or has published.
Clean(j) ==
    \/ status[j] = "published"
    \/ \E w \in Workers :
        /\ mine[w] = j /\ Holds(w) /\ w \notin lost
        /\ pc[w] \in {"input", "stage", "insert", "promote", "final", "complete"}
\* Every attempt but a clean one is charged to a trouble of its own.
Charged ==
    \A j \in Jobs : attempt[j] <= troubles + (IF Clean(j) THEN 1 ELSE 0)

\* Between the switch and the record the worker is on its way, and has not
\* given up before a second call failed.
Recorded ==
    \A j \in Jobs : pub[j] = "published" =>
        \/ outcome[j] # "none" \/ missed[j] = 2
        \/ \E w \in Workers :
            /\ mine[w] = j /\ pc[w] \in Indexing
            /\ pc[w] \in {"onFailure", "recordFailure"} => missed[j] = 1

\* The remaining columns, by what the provers need together.
Counts ==
    /\ latest \in 0..MaxVersions
    /\ version \in [Jobs -> 0..MaxVersions]
    /\ troubles \in 0..MaxTroubles
Misses == missed \in [Jobs -> 0..2]
Texts ==
    /\ dataset \in [Versions -> {"none", "confirmed", "published", "failed"}]
    /\ outcome \in [Jobs -> {"none", "indexed", "failed"}]
    /\ point \in Jobs \cup {NoJob}
Summaries ==
    /\ source \in {"awaiting_schema", "importing", "indexed", "failed"}
    /\ sourceIndex \in {"none", "indexing", "indexed", "failed"}
Sets ==
    /\ live \subseteq Jobs /\ due \subseteq Jobs
    /\ tables \subseteq Jobs /\ lost \subseteq Workers
Columns == Counts /\ Misses /\ Texts /\ Summaries /\ Sets
\* At most one attempt more than stalls, failures and crashes.
AttemptsBounded == \A j \in Jobs : attempt[j] <= 1 + MaxTroubles

\* Tables hold all rows only if they exist, one per attempt.
StagingTyped == filled \subseteq staging /\ staging \subseteq Jobs \X Attempts

JInv == Columns /\ Tokens /\ StagingTyped /\ StagingIntact /\ Charged /\ Recorded

\* Counters and versions keep their bounds.
LEMMA CountsStep ==
  ASSUME Books, Counts, [Next]_vars
  PROVE  Counts'
<1> USE Bounds DEF Counts, Books, Types, Employed, Jobs, Versions, queue, rows,
        clickhouse, index, worker, Goto, Leave, Fault, Indexing
<1>1. CASE UNCHANGED vars
  BY <1>1, SMTT(60) DEF vars
<1>2. CASE ConfirmSchema
  BY <1>2, SMTT(60) DEF ConfirmSchema
<1>3. CASE EnqueuePublication
  <2>1. UNCHANGED <<latest, troubles>>
    BY <1>3 DEF EnqueuePublication
  <2>2. version' = version \/ version' = [version EXCEPT ![created + 1] = latest]
    BY <1>3 DEF EnqueuePublication, NewJob, Requeue
  <2>3. version' \in [Jobs -> 0..MaxVersions]
    BY <2>2
  <2> QED
    BY <2>1, <2>3
<1>4. ASSUME NEW j \in Jobs, LeaseExpires(j) \/ RetryFallsDue(j) PROVE Counts'
  BY <1>4, SMTT(60) DEF LeaseExpires, RetryFallsDue, Owned
<1>5. ASSUME NEW w \in Workers, NEW j \in Jobs, ClaimPublication(w, j) PROVE Counts'
  BY <1>5, SMTT(60) DEF ClaimPublication, Candidate, Eligible, Refresh
<1>6. ASSUME NEW w \in Workers, Heartbeat(w) \/ Crash(w) PROVE Counts'
  BY <1>6, SMTT(60) DEF Heartbeat, Crash
<1>7. ASSUME NEW w \in Workers, RunClaimed(w) PROVE Counts'
  <2>1. CASE GetInput(w)
    BY <2>1, SMTT(60) DEF GetInput, Renew
  <2>2. CASE Prepare(w)
    BY <2>2, SMTT(60) DEF Prepare, Stale, Raises
  <2>3. CASE InsertRows(w)
    BY <2>3, SMTT(60) DEF InsertRows, Renew, Raises
  <2>4. CASE Promote(w)
    BY <2>4, SMTT(60) DEF Promote, Raises
  <2>5. CASE Discard(w)
    BY <2>5, SMTT(60) DEF Discard, Dropped
  <2>6. CASE AfterPromotion(w)
    BY <2>6, SMTT(60) DEF AfterPromotion, Renew
  <2>7. CASE CompletePublication(w)
    BY <2>7, SMTT(60) DEF CompletePublication
  <2>8. CASE FailPublication(w)
    BY <2>8, SMTT(60) DEF FailPublication, Failed, Release, Refresh
  <2>9. CASE IndexPublication(w)
    BY <2>9, SMTT(60) DEF IndexPublication, Miss
  <2>10. CASE FinalizeIndex(w) \/ FinalizeFailure(w) \/ RecordFailure(w)
    BY <2>10, SMTT(60) DEF FinalizeIndex, FinalizeFailure, RecordFailure, RecordOutcome, Record,
       Inactive, Miss, RefreshIndex
  <2> QED
    BY <1>7, <2>1, <2>2, <2>3, <2>4, <2>5, <2>6, <2>7, <2>8, <2>9, <2>10 DEF RunClaimed
<1> QED
  BY <1>1, <1>2, <1>3, <1>4, <1>5, <1>6, <1>7 DEF Next

\* Failed calls are counted to two.
LEMMA MissesStep ==
  ASSUME Books, Misses, [Next]_vars
  PROVE  Misses'
<1> USE DEF index
<1> DEFINE Counted == \E j \in Jobs, n \in 0..2 : missed' = [missed EXCEPT ![j] = n]
<1>1. ASSUME missed' = missed \/ Counted PROVE Misses'
  BY <1>1 DEF Misses
<1>2. ASSUME NEW w \in Workers, pc[w] # "idle",
             Miss(mine[w]) \/ missed' = [missed EXCEPT ![mine[w]] = 2]
                \/ \E result \in {"indexed", "failed"} : Record(mine[w], result)
      PROVE  Counted
  BY <1>2 DEF Miss, Record, Books, Employed
<1> HIDE DEF Counted
<1>3. CASE UNCHANGED vars
  BY <1>3, <1>1 DEF vars
<1>4. CASE ConfirmSchema \/ EnqueuePublication
  BY <1>4, <1>1 DEF ConfirmSchema, EnqueuePublication
<1>5. ASSUME NEW j \in Jobs, LeaseExpires(j) \/ RetryFallsDue(j) PROVE Misses'
  BY <1>5, <1>1 DEF LeaseExpires, RetryFallsDue
<1>6. ASSUME NEW w \in Workers, NEW j \in Jobs, ClaimPublication(w, j) PROVE Misses'
  BY <1>6, <1>1 DEF ClaimPublication
<1>7. ASSUME NEW w \in Workers, Heartbeat(w) \/ Crash(w) PROVE Misses'
  BY <1>7, <1>1, <1>2 DEF Heartbeat, Crash, Busy
<1>8. ASSUME NEW w \in Workers, RunClaimed(w) PROVE Misses'
  <2>1. CASE GetInput(w) \/ Prepare(w) \/ InsertRows(w) \/ Promote(w) \/ Discard(w)
             \/ AfterPromotion(w) \/ FailPublication(w)
    BY <2>1, <1>1 DEF GetInput, Prepare, InsertRows, Promote, Discard, AfterPromotion,
       FailPublication
  <2>2. CASE CompletePublication(w)
    BY <2>2, <1>1, <1>2 DEF CompletePublication
  <2>3. CASE IndexPublication(w)
    BY <2>3, <1>1, <1>2 DEF IndexPublication
  <2>4. CASE FinalizeIndex(w) \/ FinalizeFailure(w) \/ RecordFailure(w)
    BY <2>4, <1>1, <1>2 DEF FinalizeIndex, FinalizeFailure, RecordFailure, RecordOutcome
  <2> QED BY <1>8, <2>1, <2>2, <2>3, <2>4 DEF RunClaimed
<1> QED
  BY <1>3, <1>4, <1>5, <1>6, <1>7, <1>8 DEF Next

\* Statuses of data sets and indexing outcomes keep their values.
LEMMA TextsStep ==
  ASSUME Books, Counts, Texts, [Next]_vars
  PROVE  Texts'
<1> USE Bounds DEF Texts, Books, Types, Employed, Jobs, Versions, queue, rows,
        clickhouse, index, worker
<1>1. CASE UNCHANGED vars
  BY <1>1, SMTT(60) DEF vars
<1>2. CASE ConfirmSchema
  BY <1>2, SMTT(60) DEF ConfirmSchema, Counts
<1>3. CASE EnqueuePublication
  BY <1>3, SMTT(60) DEF EnqueuePublication, NewJob, Requeue, Current, Refresh
<1>4. ASSUME NEW j \in Jobs, LeaseExpires(j) \/ RetryFallsDue(j) PROVE Texts'
  BY <1>4, SMTT(60) DEF LeaseExpires, RetryFallsDue, Owned
<1>5. ASSUME NEW w \in Workers, NEW j \in Jobs, ClaimPublication(w, j) PROVE Texts'
  BY <1>5, SMTT(60) DEF ClaimPublication, Candidate, Eligible, Refresh
<1>6. ASSUME NEW w \in Workers, Heartbeat(w) \/ Crash(w) PROVE Texts'
  BY <1>6, SMTT(60) DEF Heartbeat, Crash
<1>7. ASSUME NEW w \in Workers, RunClaimed(w) PROVE Texts'
  <2>1. CASE GetInput(w)
    BY <2>1, SMTT(60) DEF GetInput, Renew
  <2>2. CASE Prepare(w)
    BY <2>2, SMTT(60) DEF Prepare, Stale, Raises
  <2>3. CASE InsertRows(w)
    BY <2>3, SMTT(60) DEF InsertRows, Renew, Raises
  <2>4. CASE Promote(w)
    BY <2>4, SMTT(60) DEF Promote, Raises
  <2>5. CASE Discard(w)
    BY <2>5, SMTT(60) DEF Discard, Dropped
  <2>6. CASE AfterPromotion(w)
    BY <2>6, SMTT(60) DEF AfterPromotion, Renew
  <2>7. CASE CompletePublication(w)
    <3>1. UNCHANGED <<outcome, point>>
      BY <2>7 DEF CompletePublication
    <3>2. dataset' = dataset \/ dataset' = [dataset EXCEPT ![version[mine[w]]] = "published"]
      BY <2>7 DEF CompletePublication, Published
    <3> QED
      BY <3>1, <3>2
  <2>8. CASE FailPublication(w)
    <3>1. UNCHANGED <<outcome, point>>
      BY <2>8 DEF FailPublication
    <3>2. \/ dataset' = dataset
          \/ \E r \in {"published", "failed"} : dataset' = [dataset EXCEPT ![version[mine[w]]] = r]
      BY <2>8 DEF FailPublication, Failed
    <3> QED
      BY <3>1, <3>2
  <2>9. CASE IndexPublication(w)
    <3>1. mine[w] \in Jobs /\ dataset' = dataset /\ outcome' = outcome
      BY <2>9 DEF IndexPublication
    <3>2. point' = point \/ point' = mine[w]
      BY <2>9 DEF IndexPublication
    <3> QED
      BY <3>1, <3>2
  <2>10. CASE FinalizeIndex(w) \/ FinalizeFailure(w) \/ RecordFailure(w)
    <3>1. UNCHANGED <<dataset, point>>
      BY <2>10 DEF FinalizeIndex, FinalizeFailure, RecordFailure, RecordOutcome
    <3>2. \/ outcome' = outcome
          \/ \E r \in {"indexed", "failed"} : outcome' = [outcome EXCEPT ![mine[w]] = r]
      BY <2>10 DEF FinalizeIndex, FinalizeFailure, RecordFailure, RecordOutcome, Record
    <3> QED
      BY <3>1, <3>2
  <2> QED
    BY <1>7, <2>1, <2>2, <2>3, <2>4, <2>5, <2>6, <2>7, <2>8, <2>9, <2>10 DEF RunClaimed
<1> QED
  BY <1>1, <1>2, <1>3, <1>4, <1>5, <1>6, <1>7 DEF Next

\* What is summed up for the source keeps its values.
LEMMA SummariesStep ==
  ASSUME Books, Summaries, [Next]_vars
  PROVE  Summaries'
<1> USE Bounds DEF Summaries, queue, rows, clickhouse, index, worker, Goto, Leave, Fault, Indexing
<1>1. CASE UNCHANGED vars
  BY <1>1, SMTT(60) DEF vars
<1>2. CASE ConfirmSchema
  BY <1>2, SMTT(60) DEF ConfirmSchema
<1>3. CASE EnqueuePublication
  BY <1>3, SMTT(60) DEF EnqueuePublication, NewJob, Requeue, Current, Refresh
<1>4. ASSUME NEW j \in Jobs, LeaseExpires(j) \/ RetryFallsDue(j) PROVE Summaries'
  BY <1>4, SMTT(60) DEF LeaseExpires, RetryFallsDue, Owned
<1>5. ASSUME NEW w \in Workers, NEW j \in Jobs, ClaimPublication(w, j) PROVE Summaries'
  BY <1>5, SMTT(60) DEF ClaimPublication, Candidate, Eligible, Refresh
<1>6. ASSUME NEW w \in Workers, Heartbeat(w) \/ Crash(w) PROVE Summaries'
  BY <1>6, SMTT(60) DEF Heartbeat, Crash
<1>7. ASSUME NEW w \in Workers, RunClaimed(w) PROVE Summaries'
  <2>1. CASE GetInput(w)
    BY <2>1, SMTT(60) DEF GetInput, Renew
  <2>2. CASE Prepare(w)
    BY <2>2, SMTT(60) DEF Prepare, Stale, Raises
  <2>3. CASE InsertRows(w)
    BY <2>3, SMTT(60) DEF InsertRows, Renew, Raises
  <2>4. CASE Promote(w)
    BY <2>4, SMTT(60) DEF Promote, Raises
  <2>5. CASE Discard(w)
    BY <2>5, SMTT(60) DEF Discard, Dropped
  <2>6. CASE AfterPromotion(w)
    BY <2>6, SMTT(60) DEF AfterPromotion, Renew
  <2>7. CASE CompletePublication(w)
    BY <2>7, SMTT(60) DEF CompletePublication, Published, Switched, Release, Refresh
  <2>8. CASE FailPublication(w)
    BY <2>8, SMTT(60) DEF FailPublication, Failed, Release, Refresh
  <2>9. CASE IndexPublication(w)
    BY <2>9, SMTT(60) DEF IndexPublication, Miss
  <2>10. CASE FinalizeIndex(w) \/ FinalizeFailure(w) \/ RecordFailure(w)
    <3>1. source' = source
      BY <2>10 DEF FinalizeIndex, FinalizeFailure, RecordFailure, RecordOutcome
    <3>2. sourceIndex' \in {"none", "indexing", "indexed", "failed"}
      BY <2>10 DEF FinalizeIndex, FinalizeFailure, RecordFailure, RecordOutcome, Record, RefreshIndex
    <3> QED
      BY <3>1, <3>2
  <2> QED
    BY <1>7, <2>1, <2>2, <2>3, <2>4, <2>5, <2>6, <2>7, <2>8, <2>9, <2>10 DEF RunClaimed
<1> QED
  BY <1>1, <1>2, <1>3, <1>4, <1>5, <1>6, <1>7 DEF Next

\* The sets stay sets of jobs and workers.
LEMMA SetsStep ==
  ASSUME Books, Sets, [Next]_vars
  PROVE  Sets'
<1> USE Bounds DEF Sets, Books, Types, Employed, queue, rows, clickhouse, index,
        worker, Goto, Leave, Fault, Indexing
<1>1. CASE UNCHANGED vars
  BY <1>1, SMTT(60) DEF vars
<1>2. CASE ConfirmSchema
  BY <1>2, SMTT(60) DEF ConfirmSchema
<1>3. CASE EnqueuePublication
  BY <1>3, SMTT(60) DEF EnqueuePublication, NewJob, Requeue, Current, Refresh
<1>4. ASSUME NEW j \in Jobs, LeaseExpires(j) \/ RetryFallsDue(j) PROVE Sets'
  BY <1>4, SMTT(60) DEF LeaseExpires, RetryFallsDue, Owned
<1>5. ASSUME NEW w \in Workers, NEW j \in Jobs, ClaimPublication(w, j) PROVE Sets'
  BY <1>5, SMTT(60) DEF ClaimPublication, Candidate, Eligible, Refresh
<1>6. ASSUME NEW w \in Workers, Heartbeat(w) \/ Crash(w) PROVE Sets'
  BY <1>6, SMTT(60) DEF Heartbeat, Crash
<1>7. ASSUME NEW w \in Workers, RunClaimed(w) PROVE Sets'
  <2>1. CASE GetInput(w)
    BY <2>1, SMTT(60) DEF GetInput, Renew
  <2>2. CASE Prepare(w)
    BY <2>2, SMTT(60) DEF Prepare, Stale, Raises
  <2>3. CASE InsertRows(w)
    BY <2>3, SMTT(60) DEF InsertRows, Renew, Raises
  <2>4. CASE Promote(w)
    BY <2>4, SMTT(60) DEF Promote, Raises
  <2>5. CASE Discard(w)
    BY <2>5, SMTT(60) DEF Discard, Dropped
  <2>6. CASE AfterPromotion(w)
    BY <2>6, SMTT(60) DEF AfterPromotion, Renew
  <2>7. CASE CompletePublication(w)
    BY <2>7, SMTT(60) DEF CompletePublication, Published, Switched, Release, Refresh
  <2>8. CASE FailPublication(w)
    BY <2>8, SMTT(60) DEF FailPublication, Failed, Release, Refresh
  <2>9. CASE IndexPublication(w)
    BY <2>9, SMTT(60) DEF IndexPublication, Miss
  <2>10. CASE FinalizeIndex(w) \/ FinalizeFailure(w) \/ RecordFailure(w)
    BY <2>10, SMTT(60) DEF FinalizeIndex, FinalizeFailure, RecordFailure, RecordOutcome
  <2> QED
    BY <1>7, <2>1, <2>2, <2>3, <2>4, <2>5, <2>6, <2>7, <2>8, <2>9, <2>10 DEF RunClaimed
<1> QED
  BY <1>1, <1>2, <1>3, <1>4, <1>5, <1>6, <1>7 DEF Next

\* A claim hands out a token nobody has; no other step hands out one.
LEMMA TokensStep ==
  ASSUME Books, Tokens, [Next]_vars
  PROVE  Tokens'
<1> USE NoJobIsNoJob DEF Tokens, Books, Types, queue, rows, clickhouse, index,
        worker, Goto, Leave, Fault, Indexing
<1>1. CASE UNCHANGED vars
  BY <1>1, SMTT(60) DEF vars
<1>2. CASE ConfirmSchema
  BY <1>2, SMTT(60) DEF ConfirmSchema
<1>3. CASE EnqueuePublication
  BY <1>3, SMTT(60) DEF EnqueuePublication, NewJob, Requeue, Current, Refresh
<1>4. ASSUME NEW j \in Jobs, LeaseExpires(j) \/ RetryFallsDue(j) PROVE Tokens'
  BY <1>4, SMTT(60) DEF LeaseExpires, RetryFallsDue, Owned
<1>5. ASSUME NEW w \in Workers, NEW j \in Jobs, ClaimPublication(w, j) PROVE Tokens'
  BY <1>5, SMTT(60) DEF ClaimPublication, Candidate, Eligible, Refresh
<1>6. ASSUME NEW w \in Workers, Heartbeat(w) \/ Crash(w) PROVE Tokens'
  BY <1>6, SMTT(60) DEF Heartbeat, Crash
<1>7. ASSUME NEW w \in Workers, RunClaimed(w) PROVE Tokens'
  <2>1. CASE GetInput(w)
    BY <2>1, SMTT(60) DEF GetInput, Renew
  <2>2. CASE Prepare(w)
    BY <2>2, SMTT(60) DEF Prepare, Stale, Raises
  <2>3. CASE InsertRows(w)
    BY <2>3, SMTT(60) DEF InsertRows, Renew, Raises
  <2>4. CASE Promote(w)
    BY <2>4, SMTT(60) DEF Promote, Raises
  <2>5. CASE Discard(w)
    BY <2>5, SMTT(60) DEF Discard, Dropped
  <2>6. CASE AfterPromotion(w)
    BY <2>6, SMTT(60) DEF AfterPromotion, Renew
  <2>7. CASE CompletePublication(w)
    BY <2>7, SMTT(60) DEF CompletePublication, Published, Switched, Release, Refresh
  <2>8. CASE FailPublication(w)
    BY <2>8, SMTT(60) DEF FailPublication, Failed, Release, Refresh
  <2>9. CASE IndexPublication(w)
    BY <2>9, SMTT(60) DEF IndexPublication, Miss
  <2>10. CASE FinalizeIndex(w) \/ FinalizeFailure(w) \/ RecordFailure(w)
    <3>1. attempt' = attempt /\ (Leave(w) \/ UNCHANGED <<mine, token>>)
      BY <2>10 DEF FinalizeIndex, FinalizeFailure, RecordFailure, RecordOutcome
    <3>2. CASE UNCHANGED <<mine, token>>
      BY <3>1, <3>2
    <3>3. CASE Leave(w)
      BY <3>1, <3>3
    <3> QED BY <3>1, <3>2, <3>3
  <2> QED
    BY <1>7, <2>1, <2>2, <2>3, <2>4, <2>5, <2>6, <2>7, <2>8, <2>9, <2>10 DEF RunClaimed
<1> QED
  BY <1>1, <1>2, <1>3, <1>4, <1>5, <1>6, <1>7 DEF Next

\* A staging table is dropped by its own worker or for a newer attempt; while
\* the lease holds there is none.
LEMMA StagingStep ==
  ASSUME Books, Columns, Tokens, StagingTyped, StagingIntact, AttemptsBounded, [Next]_vars
  PROVE  StagingTyped' /\ StagingIntact'
<1> USE Bounds DEF AttemptsBounded, StagingTyped, StagingIntact, Attempts, Staged,
        Holds, CurrentLease, Leased, Tokens, Books, Types, Employed, queue, rows,
        clickhouse, index, worker, Goto, Leave, Fault, Indexing
<1>1. CASE UNCHANGED vars
  BY <1>1, SMTT(60) DEF vars
<1>2. CASE ConfirmSchema
  BY <1>2, SMTT(60) DEF ConfirmSchema
<1>3. CASE EnqueuePublication
  BY <1>3, SMTT(60) DEF EnqueuePublication, NewJob, Requeue, Current, Refresh
<1>4. ASSUME NEW j \in Jobs, LeaseExpires(j) \/ RetryFallsDue(j) PROVE StagingTyped' /\ StagingIntact'
  BY <1>4, SMTT(60) DEF LeaseExpires, RetryFallsDue, Owned
<1>5. ASSUME NEW w \in Workers, NEW j \in Jobs, ClaimPublication(w, j) PROVE StagingTyped' /\ StagingIntact'
  BY <1>5, SMTT(60) DEF ClaimPublication, Candidate, Eligible, Refresh
<1>6. ASSUME NEW w \in Workers, Heartbeat(w) \/ Crash(w) PROVE StagingTyped' /\ StagingIntact'
  BY <1>6, SMTT(60) DEF Heartbeat, Crash
<1>7. ASSUME NEW w \in Workers, RunClaimed(w) PROVE StagingTyped' /\ StagingIntact'
  <2>1. CASE GetInput(w)
    BY <2>1, SMTT(60) DEF GetInput, Renew
  <2>2. CASE Prepare(w)
    BY <2>2, SMTT(60) DEF Prepare, Stale, Raises
  <2>3. CASE InsertRows(w)
    BY <2>3, SMTT(60) DEF InsertRows, Renew, Raises
  <2>4. CASE Promote(w)
    BY <2>4, SMTT(60) DEF Promote, Raises
  <2>5. CASE Discard(w)
    BY <2>5, SMTT(60) DEF Discard, Dropped
  <2>6. CASE AfterPromotion(w)
    BY <2>6, SMTT(60) DEF AfterPromotion, Renew
  <2>7. CASE CompletePublication(w)
    BY <2>7, SMTT(60) DEF CompletePublication, Published, Switched, Release, Refresh
  <2>8. CASE FailPublication(w)
    BY <2>8, SMTT(60) DEF FailPublication, Failed, Release, Refresh
  <2>9. CASE IndexPublication(w)
    BY <2>9, SMTT(60) DEF IndexPublication, Miss
  <2>10. CASE FinalizeIndex(w) \/ FinalizeFailure(w) \/ RecordFailure(w)
    BY <2>10, SMTT(60) DEF FinalizeIndex, FinalizeFailure, RecordFailure, RecordOutcome
  <2> QED
    BY <1>7, <2>1, <2>2, <2>3, <2>4, <2>5, <2>6, <2>7, <2>8, <2>9, <2>10 DEF RunClaimed
<1> QED
  BY <1>1, <1>2, <1>3, <1>4, <1>5, <1>6, <1>7 DEF Next

\* A worker of the job that is on its way to an outcome.
Working(w, j) ==
    /\ mine[w] = j /\ pc[w] \in Indexing
    /\ pc[w] \in {"onFailure", "recordFailure"} => missed[j] = 1

\* A worker that has published goes on to record the outcome, and a failed call
\* leaves it another.
LEMMA RecordedStep ==
  ASSUME Books, Misses, Texts, Recorded, [Next]_vars
  PROVE  Recorded'
<1> SUFFICES ASSUME NEW j \in Jobs, pub'[j] = "published"
    PROVE  outcome'[j] # "none" \/ missed'[j] = 2 \/ \E w \in Workers : Working(w, j)'
  BY DEF Recorded, Working
<1> DEFINE Told == outcome[j] # "none" \/ missed[j] = 2 \/ \E w \in Workers : Working(w, j)
<1>1. ASSUME pub[j] = "published" PROVE Told
  BY <1>1 DEF Recorded, Working
<1>2. ASSUME pub[j] = "published", outcome' = outcome, missed'[j] = missed[j],
             \A v \in Workers : mine[v] = j /\ pc[v] \in Indexing => pc'[v] = pc[v] /\ mine'[v] = j
      PROVE  Told'
  BY <1>1, <1>2 DEF Working
<1>3. CASE UNCHANGED vars
  BY <1>2, <1>3 DEF vars, rows, index, worker
<1>4. CASE ConfirmSchema
  BY <1>2, <1>4 DEF ConfirmSchema, rows, index, worker
<1>5. CASE EnqueuePublication
  <2>1. pub[j] = "published"
    BY <1>5 DEF EnqueuePublication, NewJob, Requeue, Books, Types
  <2> QED BY <1>2, <1>5, <2>1 DEF EnqueuePublication, index, worker
<1>6. ASSUME NEW i \in Jobs, LeaseExpires(i) \/ RetryFallsDue(i) PROVE Told'
  BY <1>2, <1>6 DEF LeaseExpires, RetryFallsDue, index, worker
<1>7. ASSUME NEW w \in Workers, NEW i \in Jobs, ClaimPublication(w, i) PROVE Told'
  <2>1. pub[j] = "published"
    BY <1>7 DEF ClaimPublication, Books, Types
  <2> QED BY <1>2, <1>7, <2>1 DEF ClaimPublication, index, Indexing
<1>8. ASSUME NEW w \in Workers, Heartbeat(w) PROVE Told'
  BY <1>2, <1>8 DEF Heartbeat, rows, index
<1>9. ASSUME NEW w \in Workers, Crash(w) PROVE Told'
  <2>1. pub[j] = "published" /\ outcome' = outcome
    BY <1>9 DEF Crash, rows
  <2>2. CASE pc[w] \in Indexing /\ mine[w] = j
    BY <1>9, <2>2 DEF Crash, Misses
  <2>3. CASE ~(pc[w] \in Indexing /\ mine[w] = j)
    <3>1. missed'[j] = missed[j]
      BY <1>9, <2>3 DEF Crash, Misses
    <3>2. \A v \in Workers : mine[v] = j /\ pc[v] \in Indexing => pc'[v] = pc[v] /\ mine'[v] = j
      BY <1>9, <2>3 DEF Crash, Leave, Books, Types
    <3> QED BY <1>2, <2>1, <3>1, <3>2
  <2> QED BY <2>2, <2>3
<1>10. ASSUME NEW w \in Workers, RunClaimed(w) PROVE Told'
  <2> DEFINE Others == \A v \in Workers \ {w} : pc'[v] = pc[v] /\ mine'[v] = mine[v]
  <2>1. CASE GetInput(w) \/ Prepare(w) \/ InsertRows(w) \/ Promote(w) \/ Discard(w)
             \/ AfterPromotion(w) \/ FailPublication(w)
    <3>1. pc[w] \notin Indexing
      BY <2>1 DEF GetInput, Prepare, InsertRows, Promote, Discard, AfterPromotion,
         FailPublication, Indexing
    <3>2. outcome' = outcome /\ missed' = missed
      BY <2>1 DEF GetInput, Prepare, InsertRows, Promote, Discard, AfterPromotion,
         FailPublication, index
    <3>3. Others
      BY <2>1 DEF GetInput, Prepare, InsertRows, Promote, Discard, AfterPromotion,
         FailPublication, Renew, Goto, Leave, Books, Types
    <3>4. pub[j] = "published"
      BY <2>1 DEF GetInput, Prepare, InsertRows, Promote, Discard, AfterPromotion,
         FailPublication, Failed, rows, Books, Types
    <3> QED BY <1>2, <3>1, <3>2, <3>3, <3>4
  <2>2. CASE CompletePublication(w)
    <3>1. CASE /\ Published(mine[w])
               /\ Goto(w, "index") \/ missed' = [missed EXCEPT ![mine[w]] = 2]
      <4>1. mine[w] = j
        BY <3>1 DEF Published, Switched
      <4>2. CASE Goto(w, "index")
        BY <4>1, <4>2 DEF Goto, Working, Indexing, Books, Types
      <4>3. CASE missed' = [missed EXCEPT ![j] = 2]
        BY <4>3 DEF Misses
      <4> QED BY <3>1, <4>1, <4>2, <4>3
    <3>2. CASE UNCHANGED <<pub, missed>> /\ Goto(w, "abort")
      <4>1. outcome' = outcome /\ pc[w] = "complete"
        BY <2>2 DEF CompletePublication
      <4> QED BY <1>2, <3>2, <4>1 DEF Goto, Indexing, Books, Types
    <3> QED BY <2>2, <3>1, <3>2 DEF CompletePublication
  <2> DEFINE Missed == Miss(mine[w]) /\ outcome' = outcome
  <2>3. ASSUME pub[j] = "published", Others, mine[w] # j, outcome'[j] = outcome[j],
               missed'[j] = missed[j]
        PROVE  Told'
    BY <1>1, <2>3 DEF Working
  <2>4. ASSUME pub[j] = "published", Others, mine[w] = j, mine'[w] = j, Missed, pc[w] \in Indexing,
               \/ pc[w] \in {"index", "finalize"} /\ pc'[w] \in {"onFailure", "recordFailure"}
               \/ pc[w] \in {"onFailure", "recordFailure"}
        PROVE  Told'
    <3>1. missed'[j] = IF missed[j] = 0 THEN 1 ELSE 2
      BY <2>4 DEF Miss, Misses
    <3> QED BY <1>1, <2>4, <3>1 DEF Working, Misses, Indexing
  <2>5. CASE IndexPublication(w)
    <3>1. pub[j] = "published" /\ outcome' = outcome /\ pc[w] = "index"
      BY <2>5 DEF IndexPublication, rows
    <3>2. Others /\ mine'[w] = mine[w]
      BY <2>5 DEF IndexPublication, Goto, Books, Types
    <3>3. CASE mine[w] = j
      <4>1. CASE Goto(w, "finalize")
        BY <3>2, <3>3, <4>1 DEF Goto, Working, Indexing, Books, Types
      <4>2. CASE Miss(mine[w]) /\ pc'[w] \in {"onFailure", "recordFailure"}
        BY <2>4, <3>1, <3>2, <3>3, <4>2 DEF Indexing
      <4> QED BY <2>5, <4>1, <4>2 DEF IndexPublication, Goto, Books, Types
    <3>4. CASE mine[w] # j
      <4>1. missed'[j] = missed[j]
        BY <2>5, <3>4 DEF IndexPublication, Miss, Misses
      <4> QED BY <2>3, <3>1, <3>2, <3>4, <4>1
    <3> QED BY <3>3, <3>4
  <2>6. ASSUME NEW result \in {"indexed", "failed"}, NEW otherwise \in {"recordFailure", "abort"},
               RecordOutcome(w, result, otherwise), pc[w] \in Indexing \ {"index"},
               pc[w] = "finalize" => otherwise = "recordFailure"
        PROVE  Told'
    <3>1. pub[j] = "published"
      BY <2>6 DEF RecordOutcome, rows
    <3>2. Others
      BY <2>6 DEF RecordOutcome, Goto, Leave, Books, Types
    <3>3. CASE mine[w] = j
      <4>1. CASE Record(j, result)
        BY <4>1 DEF Record, Texts
      <4>2. CASE Missed /\ Goto(w, otherwise)
        <5>1. mine'[w] = j /\ pc'[w] = otherwise
          BY <3>3, <4>2 DEF Goto, Books, Types
        <5> QED BY <2>4, <2>6, <3>1, <3>2, <3>3, <4>2, <5>1 DEF Indexing
      <4> QED BY <2>6, <3>1, <3>3, <4>1, <4>2 DEF RecordOutcome, Inactive
    <3>4. CASE mine[w] # j
      <4>1. missed'[j] = missed[j] /\ outcome'[j] = outcome[j]
        BY <2>6, <3>4 DEF RecordOutcome, Record, Miss, Misses, Texts
      <4> QED BY <2>3, <3>1, <3>2, <3>4, <4>1
    <3> QED BY <3>3, <3>4
  <2>7. CASE FinalizeIndex(w) \/ FinalizeFailure(w) \/ RecordFailure(w)
    BY <2>6, <2>7 DEF FinalizeIndex, FinalizeFailure, RecordFailure, Indexing
  <2> QED BY <1>10, <2>1, <2>2, <2>5, <2>7 DEF RunClaimed
<1> QED
  BY <1>3, <1>4, <1>5, <1>6, <1>7, <1>8, <1>9, <1>10 DEF Next

\* Only a stall, a failed call or a crash spoils a clean attempt, and only what
\* is spoilt is claimed again.
LEMMA ChargedStep ==
  ASSUME Books, Agree, Columns, Tokens, StagingIntact, Charged, [Next]_vars
  PROVE  Charged'
<1> USE DEF Charged, Clean, Columns, Counts, Sets, Tokens, Holds, CurrentLease,
        Leased, StagingIntact, Staged, Books, Types, Employed, Busy, queue, rows,
        clickhouse, index, worker, Goto, Leave, Fault, Indexing
<1>1. CASE UNCHANGED vars
  BY <1>1, SMTT(60) DEF vars
<1>2. CASE ConfirmSchema
  BY <1>2, SMTT(60) DEF ConfirmSchema
<1>3. CASE EnqueuePublication
  <2>1. UNCHANGED <<attempt, lease, live, pc, mine, token, lost, troubles>>
    BY <1>3 DEF EnqueuePublication
  <2>2. \A j \in Jobs : status[j] \in {"running", "published"} => status'[j] = status[j]
    <3>1. created + 1 \in Jobs => status[created + 1] = "none"
      BY DEF Agree, Jobs
    <3> QED
      BY <1>3, <3>1, SMTT(60) DEF EnqueuePublication, NewJob, Requeue, Current
  <2> QED
    BY <2>1, <2>2, SMTT(60)
<1>4. ASSUME NEW j \in Jobs, LeaseExpires(j) \/ RetryFallsDue(j) PROVE Charged'
  BY <1>4, SMTT(60) DEF LeaseExpires, RetryFallsDue, Owned
<1>5. ASSUME NEW w \in Workers, NEW j \in Jobs, ClaimPublication(w, j) PROVE Charged'
  <2>1. ~Clean(j)
    BY <1>5 DEF ClaimPublication, Candidate, Eligible, LeaseHeld
  <2>2. attempt[j] + 1 <= troubles + 1
    BY <2>1
  <2>3. Clean(j)'
    BY <1>5 DEF ClaimPublication
  <2>4. ASSUME NEW k \in Jobs, k # j, Clean(k) PROVE Clean(k)'
    BY <1>5, <2>4, SMTT(60) DEF ClaimPublication
  <2>5. /\ attempt'[j] = attempt[j] + 1
        /\ \A k \in Jobs : k # j => attempt'[k] = attempt[k]
        /\ troubles' = troubles
    BY <1>5 DEF ClaimPublication
  <2> QED
    BY <2>2, <2>3, <2>4, <2>5, SMTT(60)
<1>6. ASSUME NEW w \in Workers, Heartbeat(w) \/ Crash(w) PROVE Charged'
  BY <1>6, SMTT(60) DEF Heartbeat, Crash
<1>7. ASSUME NEW w \in Workers, RunClaimed(w) PROVE Charged'
  <2>1. CASE GetInput(w)
    BY <2>1, SMTT(60) DEF GetInput, Renew
  <2>2. CASE Prepare(w)
    BY <2>2, SMTT(60) DEF Prepare, Stale, Raises
  <2>3. CASE InsertRows(w)
    BY <2>3, SMTT(60) DEF InsertRows, Renew, Raises
  <2>4. CASE Promote(w)
    BY <2>4, SMTT(60) DEF Promote, Raises
  <2>5. CASE Discard(w)
    BY <2>5, SMTT(60) DEF Discard, Dropped
  <2>6. CASE AfterPromotion(w)
    BY <2>6, SMTT(60) DEF AfterPromotion, Renew
  <2>7. CASE CompletePublication(w)
    BY <2>7, SMTT(60) DEF CompletePublication, Published, Switched, Release, Refresh
  <2>8. CASE FailPublication(w)
    BY <2>8, SMTT(60) DEF FailPublication, Failed, Release, Refresh
  <2>9. CASE IndexPublication(w)
    BY <2>9, SMTT(60) DEF IndexPublication, Miss
  <2>10. CASE FinalizeIndex(w) \/ FinalizeFailure(w) \/ RecordFailure(w)
    BY <2>10, SMTT(60) DEF FinalizeIndex, FinalizeFailure, RecordFailure, RecordOutcome, Miss
  <2> QED
    BY <1>7, <2>1, <2>2, <2>3, <2>4, <2>5, <2>6, <2>7, <2>8, <2>9, <2>10 DEF RunClaimed
<1> QED
  BY <1>1, <1>2, <1>3, <1>4, <1>5, <1>6, <1>7 DEF Next

\* No job has been enqueued at first.
LEMMA InitJobs == Init => JInv
<1> SUFFICES ASSUME Init PROVE JInv
  OBVIOUS
<1>1. Counts
  BY Bounds DEF Init, Counts
<1>2. Misses /\ Texts /\ Summaries /\ Sets
  BY DEF Init, Misses, Texts, Summaries, Sets
<1>3. Tokens
  BY NoJobIsNoJob DEF Init, Tokens
<1>4. StagingTyped /\ StagingIntact
  BY DEF Init, StagingTyped, StagingIntact
<1>5. Charged
  BY DEF Init, Charged
<1>6. Recorded
  BY DEF Init, Recorded
<1> QED
  BY <1>1, <1>2, <1>3, <1>4, <1>5, <1>6 DEF JInv, Columns

\* So the bound on troubles bounds the attempts.
LEMMA AttemptsAreBounded ==
  ASSUME Books, Columns, Charged
  PROVE  AttemptsBounded
  BY Bounds DEF AttemptsBounded, Books, Types, Columns, Counts, Charged

\* Every step keeps all of it.
LEMMA JobsStep == IInv /\ JInv /\ [Next]_vars => JInv'
<1> SUFFICES ASSUME IInv, JInv, [Next]_vars PROVE JInv'
  OBVIOUS
<1> USE DEF IInv, JInv
<1>1. Columns'
  BY CountsStep, MissesStep, TextsStep, SummariesStep, SetsStep DEF Columns
<1>2. Tokens'
  BY TokensStep
<1>3. StagingTyped' /\ StagingIntact'
  BY StagingStep, AttemptsAreBounded
<1>4. Charged' /\ Recorded'
  BY ChargedStep, RecordedStep DEF Columns
<1> QED
  BY <1>1, <1>2, <1>3, <1>4

\* A job's columns are true of the work on it: a token while it runs and an
\* attempt for every claim, each retry paid for by a stall, a failed call or a
\* crash; the lease holder's staging table is never dropped under it; and the
\* active publication has an indexing outcome once its worker is done, unless the
\* worker was lost or two calls of that indexing failed.
THEOREM JobsAreSound == Spec => []JobsSound
<1>1. ASSUME IInv, JInv PROVE TypeOK
  <2>1. AttemptsBounded
    BY <1>1, AttemptsAreBounded DEF IInv, JInv
  <2>2. attempt \in [Jobs -> 0..(1 + MaxTroubles)]
    BY <1>1, <2>1, Bounds DEF AttemptsBounded, IInv, Books, Types
  <2>3. lease \in [Jobs -> 0..(1 + MaxTroubles)]
    BY <1>1, <2>1, Bounds DEF AttemptsBounded, IInv, Books, Types, Leased
  <2>4. token \in [Workers -> 0..(1 + MaxTroubles)]
    BY <1>1, <2>1, Bounds DEF AttemptsBounded, IInv, Books, Types, JInv, Tokens
  <2>5. /\ created \in 0..MaxJobs
        /\ status \in [Jobs -> JobStatus] /\ pub \in [Jobs -> JobStatus \cup {"superseded"}]
        /\ pc \in [Workers -> Place] /\ mine \in [Workers -> Jobs \cup {NoJob}]
        /\ Leased
    BY <1>1 DEF IInv, Books, Types
  <2>6. Counts /\ Misses /\ Texts /\ Summaries /\ Sets /\ StagingTyped
    BY <1>1 DEF JInv, Columns
  <2>7. pub \in [Jobs -> {"none", "queued", "running", "failed", "published", "superseded"}]
    BY <2>5 DEF JobStatus
  <2> QED
    BY <2>2, <2>3, <2>4, <2>5, <2>6, <2>7
       DEF TypeOK, JobStatus, Place, Leased, Counts, Misses, Texts, Summaries, Sets,
           StagingTyped
<1>2. ASSUME IInv, JInv PROVE OutcomeRecorded
  BY <1>2 DEF JInv, Recorded, OutcomeRecorded, Busy, Indexing
<1>3. IInv /\ JInv => JobsSound
  BY <1>1, <1>2 DEF JInv, JobsSound
<1> QED
  BY Bookkeeping, InitJobs, JobsStep, <1>3, PTL DEF Spec
=============================================================================
