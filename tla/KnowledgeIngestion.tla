------------------------- MODULE KnowledgeIngestion -------------------------
(***************************************************************************)
(* The life of an uploaded knowledge source.  Two processes work on it:    *)
(* background tasks of the API and the ingestion worker, which finds       *)
(* sources left in status "indexing" by polling.  Its rows are in          *)
(* PostgreSQL, its points in the live Qdrant collection; administrators    *)
(* delete and re-index it meanwhile.                                       *)
(*                                                                         *)
(*   backend/app/ingestion.py            one processing of a source        *)
(*   backend/app/ingestion_worker.py     the polling worker                *)
(*   backend/app/sql_repository.py       the source and chunk rows         *)
(*   backend/app/retrieval_publication.py  upsert_source, delete_source    *)
(*   backend/app/routes.py               upload, delete, re-index          *)
(*                                                                         *)
(* The chunks of a source are represented by the processor that parsed     *)
(* them.  The alias fence and the per-source lock are always taken         *)
(* together and are one lock.  The publication protocol itself is module   *)
(* RetrievalPublication; here the index is "none" or "live".               *)
(*                                                                         *)
(* A completion, a failure and a re-index each replace the chunk rows of a *)
(* source in one transaction of three statements, at READ COMMITTED and    *)
(* with no lock on the source row: SELECT it, DELETE the chunk rows the    *)
(* statement sees, and at the commit write what changed against what was   *)
(* loaded.  (Of two DELETEs of one row the second waits for the commit of  *)
(* the first, with the snapshot it began with.  Here either may commit     *)
(* first, which allows all that the code does, and more.)  A transaction   *)
(* that fails in any statement ends like one that fails at its commit, and *)
(* is modelled so.                                                         *)
(***************************************************************************)
EXTENDS Naturals, FiniteSets

CONSTANTS
    Sources,        \* source ids, numbers: the worker takes the smallest
    StableSources,  \* those whose chunk ids are hashes of the text (.docx)
    SheetSources,   \* spreadsheets whose schema is previewed
    Tasks,          \* background tasks of the API process
    Worker,         \* the ingestion worker
    Clients,        \* delete and re-index requests in the API process
    None,
    MaxRequests,    \* bound: delete and re-index requests
    MaxTroubles     \* bound: unreadable files, failed calls and crashes together

Processors == Tasks \cup {Worker}
Actors == Processors \cup Clients

ASSUME SourcesAreNat == Sources \subseteq Nat
ASSUME KindsOfSources ==
    /\ StableSources \subseteq Sources
    /\ SheetSources \subseteq Sources \ StableSources
ASSUME ActorsDisjoint ==
    /\ Worker \notin Tasks \cup Clients
    /\ Tasks \cap Clients = {}
    /\ None \notin Actors \cup Sources
ASSUME IngestionBounds ==
    {MaxRequests, MaxTroubles} \subseteq Nat

VARIABLES
    status,     \* status of the source row
    chunks,     \* processors whose chunk rows are in PostgreSQL
    record,     \* status of the retrieval_source_indexes row
    points,     \* processors whose chunks are in the live collection
    index,      \* is a retrieval index published?
    queued,     \* background tasks added to a response and not yet running
    lock,       \* holder of the alias fence
    pc, job,    \* what each actor does, and to which source
    loaded,     \* status the actor's open transaction has loaded
    seen,       \* chunk rows its DELETE saw
    draft,      \* chunk rows read for Qdrant
    crossed,    \* history: <<s, "fail">>, <<s, "reindex">> when such a
                \* transaction was open together with a completion of s
    requests, badFiles, faults, crashes

rows == <<status, chunks, record>>
qdrant == <<points, index>>
control == <<pc, job>>
transaction == <<loaded, seen, crossed>>
reads == <<transaction, draft>>
bounds == <<requests, badFiles, faults, crashes>>
vars == <<rows, qdrant, queued, lock, control, reads, bounds>>

Exists(s) == status[s] \notin {"absent", "deleted"}
NoChunks == [s \in Sources |-> {}]

Init ==
    /\ status = [s \in Sources |-> "absent"]
    /\ chunks = NoChunks
    /\ record = [s \in Sources |-> "none"]
    /\ points = NoChunks
    /\ index = "none"
    /\ queued = {}
    /\ lock = None
    /\ pc = [a \in Actors |-> "idle"]
    /\ job = [a \in Actors |-> None]
    /\ loaded = [a \in Actors |-> "none"]
    /\ seen = [a \in Actors |-> {}]
    /\ crossed = {}
    /\ draft = [p \in Processors |-> NoChunks]
    /\ requests = 0 /\ badFiles = 0 /\ faults = 0 /\ crashes = 0

Goto(a, label) == pc' = [pc EXCEPT ![a] = label]
Troubles == badFiles + faults + crashes
Sound == UNCHANGED bounds
Fault ==
    /\ Troubles < MaxTroubles
    /\ faults' = faults + 1
    /\ UNCHANGED <<requests, badFiles, crashes>>

\* A processor is done with what it read, and with its job.
Forget(p) == draft' = [draft EXCEPT ![p] = NoChunks]
Finish(p) ==
    /\ Goto(p, "idle")
    /\ job' = [job EXCEPT ![p] = None]
    /\ Forget(p)

(* The transactions that replace the chunk rows of a source.               *)
Open == [complete |-> {"clear", "complete"},
         fail     |-> {"failClear", "failCommit"},
         reindex  |-> {"reindexClear", "reindexCommit"}]
IsOpen(kind, s) == \E a \in Actors : job[a] = s /\ pc[a] \in Open[kind]
Crosses(kind, k, s) ==
    (kind = "complete" /\ IsOpen(k, s)) \/ (kind = k /\ IsOpen("complete", s))

\* SELECT
LoadSource(a, kind) ==
    /\ Exists(job[a])
    /\ loaded' = [loaded EXCEPT ![a] = status[job[a]]]
    /\ crossed' = crossed \cup
        {<<job[a], k>> : k \in {k \in {"fail", "reindex"} : Crosses(kind, k, job[a])}}

\* DELETE
ClearChunks(a) == seen' = [seen EXCEPT ![a] = chunks[job[a]]]

\* UPDATE, at the commit: only of a status that differs from the loaded one.
SetStatus(a, new) ==
    status' = IF loaded[a] = new THEN status ELSE [status EXCEPT ![job[a]] = new]
KeptRows(a) == chunks[job[a]] \ seen[a]
SetChunks(a, new) == chunks' = [chunks EXCEPT ![job[a]] = KeptRows(a) \cup new]

EndTransaction(a) ==
    /\ loaded' = [loaded EXCEPT ![a] = "none"]
    /\ seen' = [seen EXCEPT ![a] = {}]

TakeUnlocked(a) == lock' = a        \* mutant: no lock (as under SQLite)
TakeLock(a) == lock = None /\ lock' = a
ReleaseLock(a) == lock' = IF lock = a THEN None ELSE lock

-----------------------------------------------------------------------------
(* Upload, and the two ways a source gets processed.                       *)

\* The row is committed in status "indexing".  The background task is part of
\* the response: a later file of the same upload that is refused drops it.
Upload(s) ==
    /\ status[s] = "absent"
    /\ status' = [status EXCEPT ![s] = "indexing"]
    /\ queued' \in {queued, queued \cup {s}}
    /\ Sound
    /\ UNCHANGED <<chunks, record, qdrant, lock, control, reads>>

StartTask(t) ==
    /\ pc[t] = "idle"
    /\ \E s \in queued :
        /\ queued' = queued \ {s}
        /\ job' = [job EXCEPT ![t] = s]
    /\ Goto(t, "parse") /\ Sound
    /\ UNCHANGED <<rows, qdrant, lock, reads>>

\* _next_source
CandidatesNeverFailed == {s \in Sources : status[s] = "indexing" /\ record[s] = "none"} \* mutant
Candidates == {s \in Sources : status[s] = "indexing"}
PollWorker ==
    /\ pc[Worker] = "idle"
    /\ \E s \in Candidates :
        /\ \A r \in Candidates : s <= r
        /\ job' = [job EXCEPT ![Worker] = s]
    /\ Goto(Worker, "parse") /\ Sound
    /\ UNCHANGED <<rows, qdrant, queued, lock, reads>>

-----------------------------------------------------------------------------
(* _process: parse and store the chunks.                                   *)

Parse(p) ==
    /\ pc[p] = "parse"
    /\ \/ Goto(p, IF job[p] \in SheetSources THEN "preview" ELSE "replace") /\ Sound
       \/ /\ Troubles < MaxTroubles
          /\ badFiles' = badFiles + 1
          /\ Goto(p, "fail")
          /\ UNCHANGED <<requests, faults, crashes>>
    /\ UNCHANGED <<rows, qdrant, queued, lock, job, reads>>

\* save_preview: the schema waits for its confirmation.
SavePreview(p) ==
    LET s == job[p] IN
    /\ pc[p] = "preview"
    /\ \/ /\ Exists(s)
          /\ status' = [status EXCEPT ![s] = "preview"]
          /\ Finish(p) /\ Sound
       \/ ~Exists(s) /\ Goto(p, "fail") /\ Sound /\ UNCHANGED <<status, job, draft>>
       \/ Goto(p, "fail") /\ Fault /\ UNCHANGED <<status, job, draft>>
    /\ UNCHANGED <<chunks, record, qdrant, queued, lock, transaction>>

\* complete_knowledge_source_indexing.  Rows another processor committed since
\* the DELETE stay; with stable chunk ids they are duplicate keys.
ReplaceChunks(p) ==
    /\ pc[p] = "replace"
    /\ \/ LoadSource(p, "complete") /\ Goto(p, "clear")
       \/ ~Exists(job[p]) /\ Goto(p, "fail") /\ UNCHANGED <<loaded, crossed>>
    /\ Sound
    /\ UNCHANGED <<rows, qdrant, queued, lock, job, seen, draft>>
ClearReplaced(p) ==
    /\ pc[p] = "clear"
    /\ ClearChunks(p) /\ Goto(p, "complete") /\ Sound
    /\ UNCHANGED <<rows, qdrant, queued, lock, job, loaded, draft, crossed>>

DuplicateKeys(p) == job[p] \in StableSources /\ KeptRows(p) # {}
Completed(p) == SetChunks(p, {p}) /\ SetStatus(p, "indexed")
CompleteIndexing(p) ==
    /\ pc[p] = "complete"
    /\ EndTransaction(p)
    /\ \/ /\ Exists(job[p]) /\ ~DuplicateKeys(p)
          /\ Completed(p)
          /\ \/ Goto(p, "ensure") /\ Sound
             \/ Goto(p, "fail") /\ Fault
       \/ /\ ~Exists(job[p]) \/ DuplicateKeys(p)
          /\ Goto(p, "fail") /\ Sound /\ UNCHANGED <<chunks, status>>
       \/ Goto(p, "fail") /\ Fault /\ UNCHANGED <<chunks, status>>
    /\ UNCHANGED <<record, qdrant, queued, lock, job, draft, crossed>>

\* fail_knowledge_source_indexing; its own failure is swallowed.
FailIndexing(p) ==
    /\ pc[p] = "fail"
    /\ \/ LoadSource(p, "fail") /\ Goto(p, "failClear") /\ UNCHANGED <<job, draft>>
       \/ ~Exists(job[p]) /\ Finish(p) /\ UNCHANGED <<loaded, crossed>>
    /\ Sound
    /\ UNCHANGED <<rows, qdrant, queued, lock, seen>>
ClearFailed(p) ==
    /\ pc[p] = "failClear"
    /\ ClearChunks(p) /\ Goto(p, "failCommit") /\ Sound
    /\ UNCHANGED <<rows, qdrant, queued, lock, job, loaded, draft, crossed>>

FailKeepingChunks(p) ==     \* mutant: the chunk rows are not deleted
    SetStatus(p, "failed") /\ UNCHANGED chunks
MarkSourceFailed(p) == SetChunks(p, {}) /\ SetStatus(p, "failed")
CommitFailure(p) ==
    /\ pc[p] = "failCommit"
    /\ EndTransaction(p) /\ Finish(p)
    /\ \/ Exists(job[p]) /\ MarkSourceFailed(p) /\ (Sound \/ Fault)
       \/ ~Exists(job[p]) /\ Sound /\ UNCHANGED <<status, chunks>>
       \/ Fault /\ UNCHANGED <<status, chunks>>
    /\ UNCHANGED <<record, qdrant, queued, lock, crossed>>

-----------------------------------------------------------------------------
(* _process: the retrieval index.                                          *)

\* ensure_active_publication
EnsurePublication(p) ==
    /\ pc[p] = "ensure"
    /\ \/ /\ index = "none" /\ \E s \in Sources : chunks[s] # {}
          /\ Goto(p, "buildLock") /\ Sound
       \/ /\ index = "live" \/ \A s \in Sources : chunks[s] = {}
          /\ Goto(p, "upsertLock") /\ Sound
       \/ Goto(p, "recordFailure") /\ Fault
    /\ UNCHANGED <<rows, qdrant, queued, lock, job, reads>>

Lock(p, before, after) ==
    /\ pc[p] = before
    /\ \/ TakeLock(p) /\ Goto(p, after) /\ Sound
       \/ Goto(p, "recordFailure") /\ Fault /\ UNCHANGED lock
    /\ UNCHANGED <<rows, qdrant, queued, job, reads>>
LockForBuild(p) == Lock(p, "buildLock", "buildRead")
LockForUpsert(p) == Lock(p, "upsertLock", "readChunks")

\* build_and_activate reads every source, then publishes what it read.
BuildRead(p) ==
    /\ pc[p] = "buildRead"
    /\ draft' = [draft EXCEPT ![p] = chunks]
    /\ Goto(p, "publish") /\ Sound
    /\ UNCHANGED <<rows, qdrant, queued, lock, job, transaction>>
PublishBuild(p) ==
    /\ pc[p] = "publish"
    /\ ReleaseLock(p)
    /\ \/ /\ index' = "live" /\ points' = draft[p]
          /\ Goto(p, "upsertLock") /\ Sound
       \/ Goto(p, "recordFailure") /\ Fault /\ UNCHANGED qdrant
    /\ Forget(p)
    /\ UNCHANGED <<rows, queued, job, transaction>>

\* _upsert_source_locked: nothing is touched unless an index is live and the
\* source row is still there.
ReadChunks(p) ==
    LET s == job[p] IN
    /\ pc[p] = "readChunks"
    /\ \/ /\ index = "live" /\ Exists(s)
          /\ draft' = [draft EXCEPT ![p] = [NoChunks EXCEPT ![s] = chunks[s]]]
          /\ Goto(p, "unindex") /\ Sound
       \/ /\ index = "none" \/ ~Exists(s)
          /\ Goto(p, "onFailure") /\ Sound /\ UNCHANGED draft
       \/ Goto(p, "onFailure") /\ Fault /\ UNCHANGED draft
    /\ UNCHANGED <<rows, qdrant, queued, lock, job, transaction>>

RemoveNoPoints(s) == UNCHANGED points   \* mutant: the old points stay
RemovePoints(s) == points' = [points EXCEPT ![s] = {}]
UnindexSource(p) ==
    /\ pc[p] = "unindex"
    /\ \/ RemovePoints(job[p]) /\ Goto(p, "upsert") /\ Sound
       \/ RemovePoints(job[p]) /\ Goto(p, "onFailure") /\ Fault
       \/ Goto(p, "onFailure") /\ Fault /\ UNCHANGED points
    /\ UNCHANGED <<rows, index, queued, lock, job, reads>>

\* The upsert batches and the last look at the alias.
UpsertSource(p) ==
    LET s == job[p] IN
    /\ pc[p] = "upsert"
    /\ \/ /\ points' = [points EXCEPT ![s] = @ \cup draft[p][s]]
          /\ \/ Goto(p, "finalize") /\ Sound
             \/ Goto(p, "onFailure") /\ Fault
       \/ Goto(p, "onFailure") /\ Fault /\ UNCHANGED points
    /\ Forget(p)
    /\ UNCHANGED <<rows, index, queued, lock, job, transaction>>

\* complete_retrieval_source_indexing, called with the lock held.
Recorded(s, value) == record' = [record EXCEPT ![s] = value]
FinalizeIndex(p) ==
    /\ pc[p] = "finalize"
    /\ ReleaseLock(p)
    /\ \/ Recorded(job[p], "indexed") /\ Finish(p) /\ Sound
       \/ /\ Goto(p, "recordFailure") /\ Fault
          /\ Recorded(job[p], "indexed") \/ UNCHANGED record
          /\ UNCHANGED <<job, draft>>
    /\ UNCHANGED <<status, chunks, qdrant, queued, transaction>>

\* fail_retrieval_source_indexing: from upsert_source with the lock held, and
\* once more from _process when that did not get through.
RecordIndexFailure(p, next) ==
    \/ Exists(job[p]) /\ Recorded(job[p], "failed") /\ Finish(p) /\ Sound
    \/ ~Exists(job[p]) /\ Finish(p) /\ Sound /\ UNCHANGED record
    \/ /\ Fault
       /\ (Exists(job[p]) /\ Recorded(job[p], "failed")) \/ UNCHANGED record
       /\ IF next = "idle" THEN Finish(p)
          ELSE Goto(p, next) /\ UNCHANGED <<job, draft>>
OnFailure(p) ==
    /\ pc[p] = "onFailure"
    /\ ReleaseLock(p)
    /\ RecordIndexFailure(p, "recordFailure")
    /\ UNCHANGED <<status, chunks, qdrant, queued, transaction>>
RecordFailure(p) ==
    /\ pc[p] = "recordFailure"
    /\ RecordIndexFailure(p, "idle")
    /\ UNCHANGED <<status, chunks, qdrant, queued, lock, transaction>>

-----------------------------------------------------------------------------
(* Delete and re-index: discard_source with the row's change as finalize.  *)

StartRequest(c) ==
    /\ pc[c] = "idle"
    /\ requests < MaxRequests
    /\ requests' = requests + 1
    /\ \E s \in Sources, kind \in {"delete", "reindex"} :
        /\ status[s] # "absent"
        /\ kind = "reindex" => Exists(s)
        /\ job' = [job EXCEPT ![c] = s]
        /\ Goto(c, kind)
    /\ UNCHANGED <<rows, qdrant, queued, lock, reads, badFiles, faults, crashes>>

\* 200, or 503 with "source was not changed".
Answer(c) ==
    /\ Goto(c, "idle")
    /\ job' = [job EXCEPT ![c] = None]

LockForRequest(c) ==
    LET next == [delete |-> "deletePoints", reindex |-> "reindexPoints"] IN
    /\ pc[c] \in DOMAIN next
    /\ \/ /\ TakeLock(c) /\ Goto(c, next[pc[c]]) /\ Sound
          /\ UNCHANGED job
       \/ Answer(c) /\ Fault /\ UNCHANGED lock
    /\ UNCHANGED <<rows, qdrant, queued, reads>>

\* delete_source removes the points first, if an index is published.
DiscardPoints(c) ==
    LET s == job[c]
        next == [deletePoints |-> "deleteRow", reindexPoints |-> "reindexRow"]
    IN
    /\ pc[c] \in DOMAIN next
    /\ \/ /\ index = "live" /\ RemovePoints(s)
          /\ Goto(c, next[pc[c]]) /\ Sound
          /\ UNCHANGED <<lock, job>>
       \/ /\ index = "none"
          /\ Goto(c, next[pc[c]]) /\ Sound
          /\ UNCHANGED <<points, lock, job>>
       \/ /\ (index = "live" /\ RemovePoints(s)) \/ UNCHANGED points
          /\ Answer(c) /\ ReleaseLock(c) /\ Fault
    /\ UNCHANGED <<rows, index, queued, reads>>

\* delete_knowledge_source; chunk rows and the index record go with the row.
DeleteRow(c) ==
    LET s == job[c]
        drop == /\ status' = [status EXCEPT ![s] = "deleted"]
                /\ chunks' = [chunks EXCEPT ![s] = {}]
                /\ Recorded(s, "none")
    IN
    /\ pc[c] = "deleteRow"
    /\ ReleaseLock(c)
    /\ \/ Exists(s) /\ drop /\ Answer(c) /\ (Sound \/ Fault)
       \/ ~Exists(s) /\ Answer(c) /\ Sound /\ UNCHANGED rows
       \/ Answer(c) /\ Fault /\ UNCHANGED rows
    /\ UNCHANGED <<qdrant, queued, reads>>

\* reindex_knowledge_source, then a background task with the response.
ReindexRow(c) ==
    /\ pc[c] = "reindexRow"
    /\ \/ /\ LoadSource(c, "reindex") /\ Goto(c, "reindexClear")
          /\ UNCHANGED <<job, lock>>
       \/ ~Exists(job[c]) /\ Answer(c) /\ ReleaseLock(c) /\ UNCHANGED <<loaded, crossed>>
    /\ Sound
    /\ UNCHANGED <<rows, qdrant, queued, seen, draft>>
ClearReindexed(c) ==
    /\ pc[c] = "reindexClear"
    /\ ClearChunks(c) /\ Goto(c, "reindexCommit") /\ Sound
    /\ UNCHANGED <<rows, qdrant, queued, lock, job, loaded, draft, crossed>>
CommitReindex(c) ==
    LET s == job[c]
        reset == SetChunks(c, {}) /\ SetStatus(c, "indexing")
    IN
    /\ pc[c] = "reindexCommit"
    /\ EndTransaction(c) /\ Answer(c) /\ ReleaseLock(c)
    /\ \/ Exists(s) /\ reset /\ Sound /\ queued' = queued \cup {s}
       \/ Exists(s) /\ reset /\ Fault /\ UNCHANGED queued
       \/ ~Exists(s) /\ Sound /\ UNCHANGED <<status, chunks, queued>>
       \/ Fault /\ UNCHANGED <<status, chunks, queued>>
    /\ UNCHANGED <<record, qdrant, draft, crossed>>

-----------------------------------------------------------------------------
(* A process dies: its locals, its locks and its background tasks go.      *)

Crash(dead) ==
    /\ Troubles < MaxTroubles
    /\ crashes' = crashes + 1
    /\ pc' = [a \in Actors |-> IF a \in dead THEN "idle" ELSE pc[a]]
    /\ job' = [a \in Actors |-> IF a \in dead THEN None ELSE job[a]]
    /\ loaded' = [a \in Actors |-> IF a \in dead THEN "none" ELSE loaded[a]]
    /\ seen' = [a \in Actors |-> IF a \in dead THEN {} ELSE seen[a]]
    /\ draft' = [p \in Processors |-> IF p \in dead THEN NoChunks ELSE draft[p]]
    /\ lock' = IF lock \in dead THEN None ELSE lock
    /\ UNCHANGED <<rows, qdrant, crossed, requests, badFiles, faults>>
CrashWorker == Crash({Worker}) /\ UNCHANGED queued
CrashApi == Crash(Tasks \cup Clients) /\ queued' = {}

Process(p) ==
    \/ Parse(p) \/ SavePreview(p)
    \/ ReplaceChunks(p) \/ ClearReplaced(p) \/ CompleteIndexing(p)
    \/ FailIndexing(p) \/ ClearFailed(p) \/ CommitFailure(p)
    \/ EnsurePublication(p) \/ LockForBuild(p)
    \/ BuildRead(p) \/ PublishBuild(p) \/ LockForUpsert(p) \/ ReadChunks(p)
    \/ UnindexSource(p) \/ UpsertSource(p) \/ FinalizeIndex(p)
    \/ OnFailure(p) \/ RecordFailure(p)
Request(c) ==
    \/ LockForRequest(c) \/ DiscardPoints(c) \/ DeleteRow(c)
    \/ ReindexRow(c) \/ ClearReindexed(c) \/ CommitReindex(c)

Next ==
    \/ \E s \in Sources : Upload(s)
    \/ \E t \in Tasks : StartTask(t)
    \/ PollWorker
    \/ \E p \in Processors : Process(p)
    \/ \E c \in Clients : StartRequest(c) \/ Request(c)
    \/ CrashWorker \/ CrashApi

Spec == Init /\ [][Next]_vars

\* Threads and event loop run every actor; PostgreSQL queues those who wait
\* for the advisory lock, so nobody waits for it for ever.
Waiting(p) == pc[p] \in {"buildLock", "upsertLock"}
Fairness ==
    /\ WF_vars(PollWorker)
    /\ \A t \in Tasks : WF_vars(StartTask(t))
    /\ \A p \in Processors :
        /\ WF_vars(Process(p))
        /\ SF_vars(Waiting(p) /\ Process(p))
    /\ \A c \in Clients :
        /\ WF_vars(Request(c))
        /\ SF_vars(LockForRequest(c))
FairSpec == Spec /\ Fairness

-----------------------------------------------------------------------------
(* Properties.                                                             *)

ProcessorPC ==
    {"idle", "parse", "preview", "replace", "clear", "complete", "fail",
     "failClear", "failCommit", "ensure", "buildLock", "buildRead", "publish",
     "upsertLock", "readChunks", "unindex", "upsert", "finalize", "onFailure",
     "recordFailure"}
ClientPC ==
    {"idle", "delete", "reindex", "deletePoints", "reindexPoints",
     "deleteRow", "reindexRow", "reindexClear", "reindexCommit"}
Statuses == {"absent", "indexing", "indexed", "failed", "preview", "deleted"}

\* Every variable stays in its domain.
TypeOK ==
    /\ status \in [Sources -> Statuses]
    /\ chunks \in [Sources -> SUBSET Processors]
    /\ record \in [Sources -> {"none", "indexed", "failed"}]
    /\ points \in [Sources -> SUBSET Processors]
    /\ index \in {"none", "live"}
    /\ queued \subseteq Sources
    /\ pc \in [Actors -> ProcessorPC \cup ClientPC]
    /\ job \in [Actors -> Sources \cup {None}]
    /\ loaded \in [Actors -> Statuses \cup {"none"}]
    /\ seen \in [Actors -> SUBSET Processors]
    /\ draft \in [Processors -> [Sources -> SUBSET Processors]]
    /\ crossed \subseteq Sources \X {"fail", "reindex"}
    /\ requests \in 0..MaxRequests
    /\ {badFiles, faults, crashes} \subseteq 0..MaxTroubles
    /\ lock \in Actors \cup {None}

\* Deleting a source leaves nothing of it behind, in PostgreSQL or in Qdrant,
\* whatever was being parsed, indexed or rebuilt when it was deleted.
DeletedLeavesNothing ==
    \A s \in Sources :
        status[s] = "deleted" =>
            chunks[s] = {} /\ points[s] = {} /\ record[s] = "none"

\* The status tells the truth about the chunk rows: a failed or unprocessed
\* source has none and an indexed source has some, although two processors
\* may finish the same source differently and any of them may be killed or
\* lose a reply.  It does not for a source of which a failure or a re-index
\* was committed over a completion it had not seen, or the other way round.
Crossed(s) == \E k \in {"fail", "reindex"} : <<s, k>> \in crossed
StatusMatchesChunks ==
    \A s \in Sources : ~Crossed(s) =>
        /\ status[s] = "indexed" => chunks[s] # {}
        /\ status[s] \in {"indexing", "failed"} => chunks[s] = {}

RowsSound == TypeOK /\ StatusMatchesChunks

AtWork(s) == \/ s \in queued
             \/ \E a \in Actors : job[a] = s
             \/ status[s] = "indexing"

\* When nobody works on an indexed source and its record says its points are
\* in the index, the points are those of its chunks: no point of an earlier
\* parse is left and none is missing, whatever completions and re-indexings
\* overlapped, as long as nothing failed or crashed and no completion
\* overlapped another processor's report that the source is unreadable.
IndexAgrees ==
    faults + crashes = 0 => \A s \in Sources :
            /\ <<s, "fail">> \notin crossed
            /\ ~AtWork(s) /\ status[s] = "indexed" /\ record[s] = "indexed"
        => points[s] = chunks[s]

\* An uploaded or re-indexed source does not stay in status "indexing": with a
\* worker polling it ends indexed, failed, previewed or deleted, even when the
\* API dies with its background tasks or drops them.  Requests being bounded,
\* there is a time from which no source is left in that status.
EventuallyProcessed == []<>(\A s \in Sources : status[s] # "indexing")

\* The worker's docstring: a source stays in status "indexing" until its
\* processing is finished, so that unfinished work is found again.
UnfinishedIsDiscoverable ==
    \A s \in Sources :
        (~AtWork(s) /\ status[s] = "indexed") => record[s] # "none"

\* Only indexed sources are searched: a source nobody works on that has points
\* in the live collection is in status "indexed".
OnlyIndexedSearchable ==
    \A s \in Sources :
        (~AtWork(s) /\ points[s] # {}) => status[s] = "indexed"
=============================================================================
