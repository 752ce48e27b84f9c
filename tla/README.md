# DCAgent: a TLA+ verification project

DCAgent answers questions from a company's documents and spreadsheets. It is a
Python backend (FastAPI, PostgreSQL, Qdrant, ClickHouse), two Vue frontends, and
a set of tools that install and repair it on a machine with no network. This
directory models the parts of it where several processes, several stores and
failures meet, checks the models with TLC and proves theorems about them with
TLAPS.

    tlc -workers 2 -config publication.cfg MCRetrievalPublication
    tlapm RetrievalPublicationProofs.tla

`PROJECT.json` lists components, runs, mutants, the map from definitions to
source lines, hazards, findings and theorems.

## 1. The system

| Component | Source | State it keeps | Talks to |
|---|---|---|---|
| Retrieval publication | `retrieval_publication`, `retrieval_audit`, `retrieval_bootstrap`, `retrieval_scope`, `qdrant_retrieval` | publication rows (PostgreSQL), collections and one alias (Qdrant), an advisory lock | the index worker builds; ingestion upserts and deletes; queries resolve |
| Structured publication | `structured_repository`, `structured_worker`, `structured_ingestion`, `clickhouse_gateway` | schemas, publications, publication jobs with leases, ClickHouse tables, staging directories | routes enqueue; workers claim; retrieval publication indexes the metadata |
| Knowledge ingestion | `ingestion`, `ingestion_worker`, `sql_repository` (sources) | source rows and their status, chunks, retrieval index records | API background tasks and the worker process; retrieval publication |
| Evaluation | `evaluation`, `evaluation_batches`, `evaluation_import`, `sql_repository` (cases, batches, runs) | cases, batches and their counters, runs, import previews | routes; the retriever under test |
| Retrieval router | `retrieval_router` | circuit breaker, shadow and log queues, mode and percentages | legacy and hybrid retrievers |
| Hybrid retrieval | `hybrid_retriever`, `embedding_client`, `reranker_client`, `sparse_embedding` | none between calls | Qdrant, the inference services |
| Inference services | `inference_batching`, `embedding_service`, `reranker_service`, runtimes and back ends | a bounded queue of pending requests, reservations, a readiness state | hybrid retrieval, publication |
| Answering | `agent`, `llm`, `physoc_sse`, `ollama_client`, `knowledge_router`, `word_facts`, `structured_query`, `structured_answer` | conversations (through the repository), audits | retrieval router, the model servers, ClickHouse |
| Conversations | `sql_repository` (conversations, messages) | rows of conversations with their place in the list | routes; the agent between two transactions |
| Persistence and migrations | `database`, `repository`, `alembic/`, `migration_entrypoint` | all tables; the Alembic revision; a migration lock | everything |
| Start-up and health | `main`, `infra/health`, `infra/settings` | application state built in the lifespan, lazily created clients | every service |
| Offline deployment | `tools/offline_env`, `offline_deployment_state`, `offline_recovery`, `offline_compose`, the PowerShell wrappers | a state directory: identity, lock file, transaction journals, undo manifests, receipts, the start marker, the environment file | Docker Compose |
| Deployment gate, smoke tests, benchmarks | `tools/intranet_deployment_gate`, `compose_smoke`, `benchmarks/` | reports | the deployed system |
| Parsers | `docx_parser`, `text_parser`, `spreadsheet_schema`, `parser_runtime` | none | ingestion |
| Chat and admin frontends | `frontend/`, `admin-frontend/` | composable state, requests in flight | the API |

### What is hard in it, and what correctness means

*Retrieval publication.* The alias (Qdrant) and the active audit row
(PostgreSQL) share no transaction. Every call can fail before or after it took
effect, a builder can die anywhere, several builders run (index worker,
bootstrap on start-up, bootstrap from an ingestion). Correct means: never two
active rows; what the alias or the active row names is completely built; after
any failure that the publisher handles the two stores agree; a clean-up never
deletes what is in use; a query never searches a half-built collection.

*Structured publication.* Jobs are leased, leases expire, a slow worker may
still be running when another one claims its job. Correct means: at most one
valid lease, a result written only under it, at most one published version per
dataset, and a publication's metadata searchable only when it is the current
one.

*Knowledge ingestion.* The source row, its chunks and its points live in two
stores; the API process and the worker both process sources; a source can be
deleted or re-indexed while it is processed. Correct means: unfinished work is
found again after a crash, an indexed source has its chunks and points, a
deleted source leaves none.

*Evaluation.* A batch is claimed by one runner by a conditional update; its
counters are derived data. Correct means: the counters are the runs, and every
batch ends.

*Retrieval router.* A three-state circuit breaker used by concurrent requests,
bounded queues drained by daemon threads, a shutdown that may be interrupted.
Correct means: a stale answer never moves the breaker, one probe at a time in
half-open, nothing queued after shutdown, every request answered by one of the
two retrievers.

*Inference services.* Admission by reservation, dynamic batching, cancellation
of callers, close with requests in the queue. Correct means: reservations never
exceed the capacity and are always given back, every caller gets its own
result or an error, order inside a request is kept.

*Answering.* The catalog of the spreadsheets is read in three statements and
kept in a snapshot; clause parsers run one after the other and hide what they
understood; evidence is merged and cut twice; the model's answer arrives in
pieces. Correct means: a number comes from one publication that was active
while the question was asked, a word of the question means one thing, the
result is that of the rows meant, a budget is never exceeded and half an answer
is never shown as one.

*Conversations and imports.* Writers lock rows or keys one by one in orders
that differ. Correct means: an exchange is whole or absent, nothing is created
twice, and everybody who waits is released.

*Migrations.* Several processes migrate or heal one database, and any may die.
Correct means: the schema is one revision with all of it, or was left alone.

*Start-up and health.* Connections are opened lazily while the application may
be closing; checks run in threads that cannot be stopped. Correct means: every
connection is closed exactly when nobody uses it, a late answer never counts for
a later round.

*Offline deployment.* A transaction over a directory tree and an environment
file that must survive a kill between any two system calls, be resumed by a
second run, and never touch what it did not create. Correct means: every
interrupted run is either rolled back to the initial tree or completed;
containers start only with no incomplete transaction; recovery of recovery.

*Frontends.* Answers of older requests arrive after newer ones. Correct means:
the state shown belongs to the selection shown.


## 2. Plan

Order: what several processes and two stores decide together comes first, then
what one process does with threads, then pure algorithms.

| # | Module | Composed in | State |
|---|---|---|---|
| A | `RetrievalPublication` implements `ServedIndex` | `MCRetrievalPublication` | checked; its safety (agreement after up to two failed calls included), the clean-up's restraint and the refinement proved |
| B | `StructuredPublication` implements `ServedPublication` | `MCStructuredPublication` | checked; its safety and the refinement proved |
| C | `KnowledgeIngestion`, over A's result (an index that is live or not) | `MCKnowledgeIngestion` | checked; its safety proved |
| D | `EvaluationBatches`, `EvaluationImport`, `Conversations` | `MCChatRepository` | checked; the safety of all three proved |
| E | `CircuitBreaker`, `ShadowQueue`, `InferenceBatching` (implements `AnswerQueue`), `LazyQueryGateway`, `DependencyHealth` | `MCServices` | checked; its safety and, without fairness, the refinement of `AnswerQueue` proved |
| F | `HybridRetriever` | `MCQuestions` | checked; its safety proved |
| G | `KnowledgeAnswers`, `QuestionClauses`, `StructuredQueries`, `EvidenceAgent`, `EvidenceContext`, `AnswerStream` | `MCQuestions` | checked |
| H | `PreparationTransaction`, `BootstrapDirectories`, `EnvironmentExchange`, `DeploymentControl`, `Migrations` | `MCDeployment` | checked; the safety of all five proved |
| I | `ChatView`, `BatchPages`, `SourcePage`, `CasesPage` | `Pages`, in `MCChatRepository` | checked; their safety proved |

Modules that share no state are composed as *parts* of one run: a variable
`part` is chosen in the initial state, a behaviour moves that part alone, the
others stay in one initial state, and each property is a conjunction of those
of the parts. That costs the sum of the parts' states, not their product. What
does interact is inside one module (both stores of a publication, the tasks and
the worker of ingestion, the two exchanges of the environment) or joined by a
refinement.

Left of the plan: theorems about what an answer is made of. What a fold over a
sequence computes can be proved where the induction is put in terms of sets, as
`SetInduction` of `ServicesProofs` does for the sums of the batchers; the folds of
`QuestionClauses`, `StructuredQueries` and `EvidenceAgent` have not been tried.
`AnswerStream` and `EvidenceContext` have RECURSIVE operators and stay with TLC, as
every liveness property does.

## 3. The modules

`PROJECT.json` ("map") gives for every operator the lines it stands for. What
follows says how state and steps correspond, and what was left out.

### RetrievalPublication

A publication row and its collection have the same generated name, so one value
stands for both: `audit[c]` is the row's committed status, `store[c]` what Qdrant
has under the name, `alias` the one alias of the deployment. The alias fence is
a PostgreSQL session with a transaction-level advisory lock: `lock` is its
holder, `session[p]` says what is pending in the session and will be committed
or rolled back with it. Each call to either store is a step, with up to three
outcomes: it works, it fails without effect, it fails after it took effect.
`Build` is `QdrantPublisher.build` up to the exit of the fence; the steps
`Restore*`, `Cleanup*`, `RollbackFence` and `MarkFailed` are its handlers in the
order of the code; `Recover*` is `_recover_fence_exit_failure`, reached when the
exit of the fence raised. `Bootstrap*` is `bootstrap_publisher`, `Maintain*` the
body of `upsert_source` and `delete_source`, `Reader*` the resolution of a
query's collection. `Crash` drops a process and its session, `LoseSession` drops
the session (and the lock) of one that goes on.

Collapsed: the batches that fill a collection are one step that leaves it
complete or partial. Left out: schema checks of a collection, several aliases.

`ServedIndex` is what this promises its readers: one current generation, served
or out of service, replaced in one step, never resurrected. Under the mapping a
query is served when alias and audit agree, which is what
`resolve_retrieval_collection` tests.

### StructuredPublication

One source with one data set. A job's columns are functions of the job;
`attempt[j]` stands for the random lease token (each claim makes a new one), so
a worker holds the lease when `token[w] = lease[mine[w]]`. Time is abstract: a
lease may expire at any moment and a retry may fall due at any moment; a renewal
in time is no step, a renewal that comes too late tells the worker (`lost`). Each
repository method is a transaction that locks the source's row first and is one
step. ClickHouse is a set of staging tables by job and attempt, those of them
that are filled, and the promoted tables. `Prepare`, `InsertRows`, `Promote`,
`Discard` are the calls of the gateway, each of which may fail before or after its effect;
`CompletePublication` and `FailPublication` end a job. What follows a completion is
the metadata indexing: `IndexPublication` writes the point, `FinalizeIndex` and
`FinalizeFailure` are the callbacks that record the outcome while the locks are
held, `RecordFailure` is the handler of the worker that records a failure once more
when one of them raised. Each of these transactions may be refused (the publication was
superseded), fail, or commit and lose its reply; after `RecordFailure` the error goes to
`FailPublication`, which a published job refuses. `missed[j]` is history: how many
calls of the indexing failed since an outcome was last recorded, 2 also when the
worker was lost. All troubles (a stall, a failing call, a crash, a lost reply) are
counted together.
`NullsFirst` is how the data base orders a missing `next_attempt_at` (PostgreSQL:
last), which decides who is claimed.

`ServedPublication`: every job is published at most once, and from the first one
on exactly one publication is served, the one published last.

### KnowledgeIngestion

`status`, `chunks`, `record` are the rows of a source, `points` what the live
collection holds of it. Chunks are represented by the processor that parsed
them, which is what tells an old parse from a new one. Background tasks of the
API (`Tasks`) and the polling worker run the same code (`process_source`), one
step per transaction or call, and clients delete and re-index meanwhile. The three
transactions that replace chunk rows (a completion, a failure, a re-index) take no lock
on the source row and are three steps each: `SELECT` (`LoadSource`), `DELETE` of the rows
that statement sees (`ClearChunks`), and the commit, which keeps rows committed
since (`KeptRows`) and writes the status only if it differs from the one that was
loaded (`SetStatus`), as SQLAlchemy does. Two such transactions may commit in either
order, also where PostgreSQL makes the second `DELETE` wait for the first. `crossed` is history: of which sources a
failure or a re-index was open while a completion was. The
alias fence and the lock of a source are always taken together and are one lock.
The publication protocol appears as: no index yet, a build that reads all
sources and publishes, a live index. `.docx` chunk ids are hashes
(`StableSources`), so two parses of one file collide on the primary key; text
files get fresh ids, so they do not; spreadsheets only get a preview.

### HybridRetriever

Everything done under `_lifecycle` is one step. A generation is a thread pool;
`users`, `future`, `quarantined`, `shutdown` are the code's books. A request
runs its stages of parallel operations, may find its deadline passed whenever it
looks, quarantines its generation when it does so during a wait, cancels what
has not begun and releases. `Close`, `FinishClose` and `CloseTimesOut` include a
`close()` that gives up waiting; the last request to leave then completes it. Results and scores are left out.

### InferenceBatching

One event loop: what happens between two awaits is one step. `pending`,
`reserved`, `closing` are the batcher's fields, `worker` where its task is, and
`notified` whether the condition was notified since it slept. An item is a pair
of request and position and the back end returns the item itself, which makes
"the right result" visible. `LoadBackend`, `StartBatcher`,
`BecomeReady`, `BeginShutdown`, `CloseBatcher` and `CloseBackend` follow the
lifespan in the order of its `finally` block.

`AnswerQueue`: a bounded first-in first-out service that settles every admitted
request with its own results or an error, and eventually does.

### CircuitBreaker, ShadowQueue

The breaker numbers the periods between changes of state and writes the number
into the permit. Only whether a permit's number is the current one is ever
looked at, so the model keeps the set of requests for which it is: that makes the
state finite without a bound on epochs. A request may end in a result, an empty
result, a failure or an interrupt (`abandon`). The queues: the worker takes
without the lock, so `Get` interleaves with the discarding of `close()`; an
interrupt makes the shadow worker clean up, while the log worker only dies; its
start may fail too.

### LazyQueryGateway, DependencyHealth

The lifespan of the application builds its resources in order and closes those
it owns in reverse, whatever ended start-up. A query that finds no connection
builds one outside the lock; when it comes back it may find another thread's or
a gateway that is closed. The registry of health checks runs one round at a
time; others are answered from the last report while it is fresh or stale. A
check is a thread under a deadline; `Wait` may give it up, `Work` is the thread
that goes on, and a metadata probe is cancelled by closing its connection. Age
is one of fresh, stale, old.

### EvaluationBatches, EvaluationImport, Conversations

One step is one statement, or one transaction where nothing else can come
between. The transactions are READ COMMITTED: a check of an earlier statement
may be stale. A batch is claimed once, every run is recorded together with the
counters, cases are deleted or run by hand meanwhile, a write may fail and the
process may die; its reply may never come. Imports keep their previews under a
lock of the process, take one advisory lock per key in a fixed order and read all
cases again. `Conversations` has the row locks: a writer waits for the holder, and
a cycle of waiters is broken by aborting one of them, as PostgreSQL does.

### KnowledgeAnswers, QuestionClauses, StructuredQueries

`KnowledgeAnswers` has the order in which the services are asked, the three
statements of `get_catalog` and the snapshot that stands in for the catalog while
PostgreSQL does not answer; each request has its generation. What a question
says is data. `QuestionClauses` takes the occurrences that the patterns find in a
text, with their places, and is the order of the parsers and what each hides.
`StructuredQueries` begins where they end: which intent, what the planner accepts
(in a row lookup only equality and ranges), the meaning of the statement over a
small table (ordered by the group's column where the order names one, by the first
metric of that column otherwise) and the validation of the row
that comes back, which may be anything. A count without a named column is one of the
date column that stood next to its range, or of all rows. The reference definitions it is checked
against are written from the question.

### EvidenceAgent, EvidenceContext, AnswerStream

The graph of the agent as steps, with searches that may return any list of
hits, scores that may be NaN, and the rules by which a passage is kept.
`EvidenceContext` is the sharing of characters among passages and the excerpt cut
from each, over texts that are a length, line ends and the place of the answer.
`AnswerStream` receives any cut of a list of streams: lines, records, events in
events, limits and ends. `OnlyWhole` reads lines, records and events off the bytes of
the stream a second time, without the reader's state, and compares.

### ChatView, BatchPages, SourcePage, CasesPage

The composables of the two front ends. A request under way is a record with
what it asked and, once the server has acted, what it answered; replies are
applied in any order. A number or a token that is compared on arrival is
represented by whether the request is still the latest. Timers (the reveal of an
answer, polling) are steps; pages may be left at any time. The server's side is in them as
far as an order matters: a write of a case commits and reads the dashboard
afterwards (`ServeWrite`, `ReadDashboard`), lists are read some time before their
reply arrives. Texts, flags that are
only shown and formatting are left out.

### PreparationTransaction

One step is one durable write or one change of the tree. `wal` is the journal
directory (phase, how many operations the manifest and the operation log
mention, done and undone flags), `tree` the managed directories, secrets and
environment file, `cleanup` the companion directory (backups of rotated
secrets) and the history record, `proc` the one process under the deployment
lock. The plan is what `execute_preparation_plan` builds: directories, a mode
change, then each secret (old one to the companion, new one from staging), then
the exchange of the environment file. `Rollback` walks the operations in the
code's order (the environment, then the new secrets, then the old ones back,
modes and directories last), deciding from the
tree, via `Classify`, whether each took effect. `Clean` is the
clean-up after a decision, in its three places: journal, companion, history.
Commands of the operator: a new preparation, `ResumeRollback`,
`FinalizeCleanup`, `AcknowledgeRepaired`. The phases from `planned` to
`env_committed` say nothing the flags do not, and are one.

Left out here: what `BootstrapDirectories`, `EnvironmentExchange` and
`DeploymentControl` have.

### BootstrapDirectories, EnvironmentExchange, DeploymentControl

The first makes or tightens the two directories under a record of their own,
kept with the identities (device and inode) it saw; an operator may replace them.
The second refines the one step by which `PreparationTransaction` exchanges, or
puts back, the environment file: every write, rename and record is a step, and
the operator edits the file between any two. In the third, commands compete for
the lock: prepare, compose, adopt, clear the marker. A plan is read before the
lock; a kill frees the lock while the docker child of a wrapper goes on.

### Migrations

A table or column is an item that a revision makes exactly and healing makes
`odd`. A migrator classifies, stamps or not, applies revisions and validates
inside one transaction under the advisory lock; an application takes no lock and
heals in several transactions. Creating an item that another transaction is
creating waits for it. The backfills of the chain (sequence numbers of runs,
routes of agent runs) are part of the state.

## 4. The runs

Twelve runs. Every property has a mutant: a plausible mistake in one mapped
definition with which the run finds the property violated.

| Run | Question | Bounds |
|---|---|---|
| `publication` | safety of the publication under any two troubles | 3 names, 2 builders, 1 maintainer, 1 reader; up to 2 failed calls, or a crash and a fault, or one lost session |
| `publication_live` | builds end; the two stores implement an atomic switch | 2 names, 2 builders, 1 failed call |
| `ingestion` | rows, deletion, the index and that nothing stays unprocessed, with failures and crashes | a text file and a spreadsheet, a task and the worker, 1 request, 1 trouble |
| `ingestion_discoverable`, `ingestion_searchable` | claims of the documents that the code does not keep | one source, in the second a `.docx` |
| `structured` | leases, staging, publication, metadata | 2 workers, 2 jobs, 2 schemas, any 2 troubles (stalls, failing calls, crashes, lost replies) |
| `services` | breaker, queues, batchers, lazy gateway, health: nothing lost, everything closed, everything ends | 3 requests, threshold 2, 2 outages; 3 tasks, 2 closers, queue of 2; 2 batchers, 2 requests of up to 2 items, queue of 3; 3 query threads; 2 checks, 2 rounds |
| `offline` | the transaction, its directories, its exchanges, the commands and the migration under kills, faults and edits | 1 rotated and 1 new secret, 2 directories, 2 preparations, 3 kills, 2 faults, 1 edit; 2 kills in the directories, 2 edits of the environment; 2 operators, 2 commands, 1 kill, 1 fault; 2 migrators, 2 applications, 2 starts, 1 fault |
| `offline_resume`, `control_backup` | claims of the documents that the code does not keep | 2 kills; 1 kill and 1 fault |
| `repository` | batches, imports, conversations, and the pages in front of them | 2 cases, 1 batch, 2 troubles; 4 keys, 2 processes, 2 previews; 2 sends, 1 creation, 1 deletion; 3 sources, 4 operations on a page, 3 requests asked at once |
| `questions` | pools under hanging operations and close; what an answer is made of | 2 requests of 2 stages, 2 generations of 3, 1 closer; 2 askers, 2 schema versions, 2 changes; the questions, tables, hits, passages and streams listed in `MCQuestions` |

Why these bounds are enough to meet the interesting cases:

- *Publication.* The recovery protocol makes at most two attempts at each level;
  two troubles reach "the repair of a failure fails" and the second attempt of
  each. Three names allow a served generation, a failing one and a concurrent
  one. Three failed calls do make the stores diverge, so two is also the exact
  strength of the code. A lost session counts twice because it alone invalidates
  every guarantee of the fence.
- *Ingestion.* Two sources are needed for "a later file of the upload is
  refused" and for the order of the worker; one processor of each kind covers
  their race, since a source is queued at most once per process. One request and one
  unreadable parse are enough for each of the two crossings.
- *Pools.* `MaxIds` is larger than `MaxGenerations`, so that a generation is
  quarantined, given up and replaced.
- *Batching.* Two requests of two items exceed a queue of three and can share or
  split a batch of two.
- *Structured.* Two jobs of two schemas supersede each other; a stall lets a
  lease be taken over from a live worker, a crash from a dead one. Two troubles are
  the failure of an indexing and of the record of that failure, which is where the
  code gives up, and a takeover beside one failing call.
- *Router.* Three threads are a probe, a late result and a refused request.
- *Health.* Two rounds are a late answer of the first in the second.
- *Offline.* Three kills are one in the preparation, one in its recovery, one in
  the recovery of that; depth two orders nested directories. An exchange has
  two edits: one is kept by the first repair, one falls into that repair.
- *Commands, migrations.* Two of each meet at every step of each other; two
  applications beside two migrators give every order of healing and migrating.
- *Repository.* Two rows are the least that can be locked in two orders; two
  keys can cross. A batch of two cases lets one be deleted between two runs.
- *Pages.* Three sources are: one left, one shown, one asked for; the reply to
  each may arrive last.
- *Questions.* Pure algorithms are checked over lists of inputs built from pieces
  (a data set, a grouping, a condition, an aggregate), every combination of the
  pieces. The sizes of texts and limits are small multiples of the code's, so
  that caps, minima and rounding all happen; the order among them is the code's
  (`MinChunk >= 2 * Marker + 1`).

The passing runs that check safety check deadlock where a model always has a
next step. `CHECK_DEADLOCK FALSE` is set where the system really stops: sources
all processed and the request budget spent, jobs all published, queues closed,
no preparation left to start.

### Fairness

Fairness is assumed of nothing that can be withheld by the environment the code
does not control.

- Every process or thread that is alive takes its next step (weak fairness per
  actor, or of the union of a part's steps where all are independent):
  operating-system scheduling, one event loop, `run_forever` loops.
- Taking the advisory lock is strongly fair: PostgreSQL queues waiters in order.
- Operations of the hybrid retriever and batches of a back end end, because every
  client has a request timeout. A health check may hang for ever (`Silent`).
- A lease whose owner is gone expires and a retry falls due: time passes. No
  fairness makes a live owner's lease expire.
- Outages end.
- Replies of the server arrive and timers of the browser fire; a running batch and
  a running publication end on the server (`PartEnds`). A batch whose process died
  does not, and `WorkEnds` says so.
- Offline, a running process goes on, and the operator repeats a command that was
  killed, or runs the one the runbook prescribes for a decided transaction
  (`finalize-cleanup`). No fairness is assumed of starting preparations or of
  `resume-rollback`.
- Faults, crashes, kills, edits and cancellations are never fair. What a user or an
  operator begins is not either.

## 5. What the runs show

*Publication.* Whatever fails, audit and alias never name a half-built
collection and there is one active row; up to two failed calls are reconciled
completely. After a crash between the alias switch and the commit the two stay
apart, and what was checked is that everything then refuses
(`MaintenanceOnLive`) rather than writes to either. With a lost session the
alias's completeness, maintenance, agreement and the clean-up's restraint all
fail, so these are stated under `lost = 0`; one active row and queries that never search a partial collection hold even then.
That the active collection is complete survives one lost session and two troubles in
all, but not more: section 6 has the behaviour. The
refinement says that there is an outage around every switch.

*Structured.* Late workers cannot decide a job another holds, a promoted table
is never dropped while it is read, and jobs end published once failures stop.
The metadata indexing of the active publication has an outcome on record when its
worker is done, also when the indexing or one write of its outcome failed; with
two failed calls, or a lost worker, it has none (`OutcomeRecorded` excludes them, and
fails when it does not).
What does not hold, and is not promised: the newest schema wins (a retry of an
older job supersedes it), the metadata point follows the active publication, and
indexing is retried.

*Ingestion.* Deletion is final against every race modelled. Any number of completions
may overlap: the status then still tells the truth about the chunk rows, and the index
ends with them. A failure or a re-index that overlaps a completion breaks the first
(a failed or unprocessed source with chunk rows, an indexed one without any), so
`StatusMatchesChunks` is about sources for which that did not happen. `IndexAgrees`
needs the exclusion of failures only, and needs it from the second unreadable parse on,
one more than the run has: the theorem is for any number. Two claims of the documentation are refuted, see
below.

*Services.* Hold as stated: the circuit is never orphaned, what is dropped is
counted, capacity comes back, a client of the lazy gateway is closed by the last
thread that uses it.

*Repository.* Counters are the runs, also when cases are deleted under a batch. A
batch ends unless its process dies or the write that records its failure fails,
after which nothing ends it. Sends that lock each other's rows are released by the data base.
No case is created twice across processes. In the pages, a numbered
request never overrides a later one, a batch that was shown ended stays so, and flags
that refuse the next operation are taken back; what does not hold is listed below.

*Questions.* A number is from one schema and its publication, never from a mixture, although the
catalog is read in several statements; clauses are disjoint in the text; the
statement gives what the question says of the rows; the choice of evidence, the
shares and the excerpts keep their limits; a stream gives the same result
however it is cut. A deadline that passes between two waits of the pools, not
during one, fails the request without a quarantine.

*Migrations.* One revision, whole, whoever dies; a database that is neither a
revision nor the legacy baseline is left alone. An application started by hand on a managed,
older database creates the tables of later revisions, and the migration then
refuses: it fails closed, and that is what is checked. At the head the tables are
not validated again.

*Offline.* Under any three kills and two faults the journal precedes the tree,
old secrets survive until the commit, and a tree without incomplete transaction
is whole. One kill is always recoverable with a documented command, except
before the journal's files are complete: a directory with some of them can be
opened by no command but `acknowledge-repaired` (`OneKillRecovers` excludes
that phase by name). A second kill, inside a rollback, is not: see below. An edit
of the environment between planning and its backup is overwritten silently;
edits after the backup are kept (`NothingTaken`).

### Disagreements between the code and its documents

1. `ingestion_discoverable`: a source is marked indexed before its points are
   written; a crash in between is never found again.
2. `ingestion_searchable`: two processors of one `.docx` leave searchable points
   of a source marked failed.
3. `offline_resume`: a rollback killed after it restored a rotated secret is
   refused as a conflict by the next one.
4. `resume-rollback` refuses `rollback_failed`, for which the runbook prescribes it.
5. A call that raises between the undo manifest and the operation record makes
   the immediate rollback fail although nothing conflicts.
6. `acknowledge-repaired` leaves a companion behind that blocks every later
   preparation.

7. `control_backup`: `clear-start-marker` moves the marker and advances its record
   afterwards; killed between the two and repeated where docker cannot be asked, it
   removes the only copy without a receipt.
8. A batch whose process died stays queued or running.
9. Selecting two conversations in a row, or one while an answer is under way,
   leaves the messages of one under the name of the other (`useChat`).
10. `inspectKnowledgeSource` has no token: the chunks of the source left behind can
    replace those of the one shown.
11. The first load of the cases page can put an older dashboard over the reply of
    a write; a batch created as the page is left starts a poll nobody stops.
12. Metadata of a route are limited more tightly than the names and lists they are
    filled with, and the answer is refused after it was computed.
13. A distinct count without a column is refused by the planner instead of asked
    back; conditions inside a grouping phrase are dropped; the column of a condition
    can become a second metric; a single date without a free date column is ignored.
14. The audit of an answer may name a model that was not called.
15. A failure or a re-index that crosses a completion of the same source leaves a status
    that says the wrong thing about its chunk rows, which the worker goes by.
16. When the indexing of a publication and the record of its failure both fail, the
    worker goes on without a word and the active publication has no outcome.

1, 2, 3 and 7 have runs; the others are readings of the code met while modelling,
and several of them bound what the properties say: `PROJECT.json` has each with its line, and seven
more: six about the offline tools, one about a comment on excerpts. Also seen, without a document that
says otherwise: two bootstraps that start together publish twice, the second
replacing the first; a refused deletion answers that the source was not changed
although its points or its row may be gone.

## 6. Proofs

TLC checks small instances; the theorems hold for every value of the constants.
They assume only the named ASSUMEs of the modules, which TLC evaluates in the
runs.

`RetrievalPublicationProofs`

- `TypeCorrect`: one lemma per group of actions, one step per action.
- `AtMostOneActive`: `OneActive` is not inductive, because a step that commits an
  activation writes what was decided steps earlier. The strengthening
  (`FenceInv`) adds that a live session in the fence holds the lock
  (`LiveHoldsLock`), and that while a session in which a recovery ran is live, no
  row other than the recovery's own two is active (`RecoveredWithin`): a recovery
  makes the previous row active again without looking at the others in the step
  that commits, so what it checked must still hold then. Steps that make no row
  active and leave recovered sessions alone are dispatched by one lemma
  (`Harmless`); the two commits are the work. It holds with lost sessions too,
  because a lost session can commit nothing.
- `ServedIsComplete`: the active row and the alias name complete collections as
  long as no session is lost, and no query ever searches a partial one. The
  invariant adds to `FenceInv` that a builder's row and collection have the status
  its place in the code says, and nobody else changes them (`NameInv`), and that
  what a process in the fence looked at still holds while it has the lock
  (`HeldInv`). `lost = 0` is needed, which the proof attempt showed and a larger
  instance than the run's confirms: with three builders, two ambiguous commits and
  one dropped session, the builder whose session was dropped can point the alias
  back between another's clean-up check and its deletion, and the recovery of the
  third then makes the row of the deleted collection active again.
- `MaintenanceNeedsLive` and the action property `CleanupSparesServed` follow from
  the same invariant and one lemma: a collection disappears only in a clean-up of
  its own builder.
- `ImplementsServedIndex`: without lost sessions the model implements
  `ServedIndex`. One more invariant, `Lineage`, says of every builder which
  generation it replaces and that a served one descends from it; `RefinementStep`
  then maps a commit or a move of the alias to a step of `ServedIndex` and all else
  to a stutter.
- `TwoFailuresAreAbsorbed`: with at most two failed calls, alias and audit name the same
  generation whenever nobody is midway, for any number of publishers and names. The
  argument counts: whenever the two differ, some builder in the fence is
  responsible and has a step left that will mend it (`Answerable`), and every
  attempt that came to nothing has cost a failed call of its own (`Spent`), so the
  last attempt of the code is not reached with two. Kills and lost sessions are
  excluded, as the property excludes them.

`StructuredPublicationProofs`

- `Bookkeeping`: the inductive invariant, in three parts, each inductive with those
  before it. A running job's lease is the token of its latest attempt, no other
  job has one, and a busy worker has a job (`Books`). A job's row and its
  publication's row tell the same story, so a job whose publication was completed
  is never claimed or completed again (`Agree`). A worker that may complete its
  job has promoted its table, and no table is dropped (`Tables`).
- `TablesServed`: the table that queries read exists, whatever late workers
  promote, discard or complete. `HolderDecides`: a job's result is written only by
  a worker whose token is the job's lease.
- `ServesTheLastPublication`: the model implements `ServedPublication`. One lemma
  (`RowSteps`) says what a step does to the rows: nothing, a new job, a job that
  is not published moved on, or a running job published. The second and the last
  are the steps of the abstract specification, the others stutter.
- `JobsAreSound`: a fourth group (`JInv`) accounts for what a job has spent and left:
  every claim is charged to a trouble (`Charged`), the tokens of a job are its attempts,
  and a staging table belongs to an attempt that was made and is filled only by its owner.
  `Recorded` follows the indexing: at each of its four places the calls that
  failed so far are counted in `missed`, so a worker that leaves without an outcome
  was lost or has seen two fail. The number of troubles is arbitrary.

`HybridRetrieverProofs`

- `Bookkeeping`, from it `PoolsAreSound` and `NeverTurnedAway`. That no request is
  shut out between two stages rests on the books of the pools: a request is
  registered with exactly the generation it works on (`Registered`), a generation
  whose shutdown began has nobody in it (`Quiet`) and gets nobody, because new
  requests go to the active one or to a new one and all ids are below the next
  one (`Types`). The bound on generations uses the library's facts on
  cardinalities.

`KnowledgeIngestionProofs`

- `RowsAreSound`, `DeletedIsGone`, `IndexIsCurrent`, from six groups of facts. With
  transactions of three steps the truth about a row depends on what an open one has
  read (`Separate`): a completion and a failure or re-index that are open at once are in
  `crossed` (`Exclusive`); otherwise a status that a commit will not write is still
  right (`LoadedHolds`), and no chunk row was added since the `DELETE` of a failure or
  re-index (`ClearedHolds`). From it status and chunk rows agree (`Rows`).
  Whoever is between taking and releasing the fence holds it (`Locked`), so the
  points of a source are changed by one actor at a time. A deleted source has
  nothing left, and no build or upsert under way holds a draft of it (`Remains`):
  that is more than the property says, because the bad write comes steps after the
  deletion. Without faults the points are those of the chunks, or a processor that
  has not read the chunks yet is going to index the source again (`Current`).

`ChatRepositoryProofs`, for any number of cases, batches, keys, conversations and requests

- `BatchesAreSound` and the action property `HistoryIsKept` (`BatchInv`). The counters of a
  batch are numbers of runs only while none of its cases is deleted; what holds always,
  and carries the rest, is that a run is of a case its batch has counted, with a
  sequence of its own (`History`), and that what the task has left is what the row
  has not counted (`Progress`). Sequences are handled by their elements, cardinalities
  by the library's facts.
- `WritesAreSound`: imports (`ImportInv`) and conversations (`ChatInv`). Whoever has read
  the cases for an import holds the locks of its keys and has seen every case that has
  one of them (`ReadLocked`), which is why no case is created twice although the
  reading and the writing are steps apart; a preview belongs to at most one
  confirmation under way (`Confirming`), so it is imported once or given back. A
  row of the list is locked only by a request that shifts it (`RowLocks`), the
  messages of a conversation are the exchanges of the sends that ended
  (`Exchanges`), and nobody has read more turns than there were (`Turns`).
- `PagesAreSound`: for each page, which of its requests still count - at most one for
  each place of the page - and that what is shown was asked for by the request
  that counted last (`ViewInv`, `ReportInv`, `SourceInv`, `CasesInv`). A late reply
  changes nothing because its request has been replaced, whatever order the
  replies come in. From the same invariants the action property `RecordsAreKept`.
- They assume of the constants that the kinds of requests are disjoint, that what
  stands for nothing is none of them, and that the frames of an answer are a
  number (`ChatConstants`, `ImportConstants`, `PageConstants`).

`PreparationTransactionProofs`

- Lemmas about the plan first: it lists every secret and directory once, in the
  order of the code, and the environment last.
- `PrepInvariant`, from it `JournalIsTrue`, `OldSecretsAreKept` and the action
  property `NothingIsTakenBack`. What each record says at each place of the process
  is `Stages`; what the tree may hold then is `TreeInv`: an operation shows only if it
  was logged (`Underway`), all but the last logged one show while a preparation runs
  (`Exact`), none that a rollback has passed does (`Undone`), and a decided
  transaction is all or nothing (`Ended`).
- `OneKillIsRecovered` needs more, because after a second kill it is false: with one
  kill and no other trouble there is one rollback (`OneRollback`), the environment is
  on one side of its exchange (`EnvironmentKnown`), and what the rollback has not
  reached is as the preparation left it but for the one announced reversal
  (`UndoneInTurn`). So every operation it meets classifies as done or not done.

`ServicesProofs`

- `Permits` (`BreakerInv`), from it `NeverOrphaned`, `OpenMeansOpen`, `ProbesDecide`.
  That a half-open circuit has exactly one deciding probe follows from three
  facts about all states: permits are held by requests under way, an open circuit
  has forgotten every permit, a closed one has no probe of its period.
  `ProbesDecide` is the action property, from the same invariant.
- `QueuesAreSound`: one proof for both queues, which are one module. A task is in one
  place at a time, so the books are exact (`Books`); a queue stays quiet after its
  end because only the call that sets `_closing` discards under the lock, so a worker
  that ends leaves an empty queue that takes nothing any more (`Closing`). `max_size`
  is positive, which the constructors check.
- `ResourcesAreSound`: the gateway's clients are replaced only by the one thread that
  builds, while there are none, and given up only when nobody builds or queries
  (`Clients`); nothing is connected at the end because requests are served only while
  the gateway is owned, and it is closed for good before it is given up (`Lifespan`).
  Of the readiness checks, a gate is closed exactly while the check's thread lives
  (`Gates`), and a waiter collects from the thread it started itself in this round
  (`Verdicts`).
- `BatchersAreSound`: what a batcher has reserved is the number of items of the
  requests in its queue and its batch (`Taken`), also while a batch is released item
  by item (`Returned`) and whatever caller was cancelled, so it never exceeds
  `max_queue_items`; a request is admitted by one batcher and waits there until it is
  served (`Admitted`, `Waits`); the model client is closed only when every batcher
  has ended. The proof holds for any number of batchers and requests of any sizes.
  Sums over sequences are characterised by their partial sums, and the folds of the
  model are shown to be these sums.
- `BatchersServeInOrder`: the model implements the safety part of `AnswerQueue`: the
  results of a batch are cut so that each request gets the results of its own items, in
  their order, or fails as a whole. The requests that are outstanding change only when
  one is admitted or a batch ends (`AdmitRefines`, `AnswerRefines`; every other step
  stutters). The lemmas on flattening say at which place of a batch an item of a
  request is found.

  Induction is needed only over the length of a sequence. `SetInduction` states it for
  the set of the numbers for which the statement holds, not for an operator, and is proved
  from the well-foundedness of the order of the natural numbers. The settings of the
  batchers are assumed positive (`BatchingConstants`), which their constructor checks.

`DeploymentProofs`

- `StartedMarked`: what was started is marked as started, for any number of processes
  and commands. That a marker names the identity when a control record goes away
  rests on what the record says of the files and of what runs (`Recorded`), on what
  a process knows at the place it has reached (`Knows`) and on the lock: while one
  process is under way the others wait, and docker works for it (`Locked`). All of
  this ends when a docker compose outlives its wrapper, which the property excludes
  too (`ControlInv`). It assumes that 0, which stands for nobody, is no operator.

- `SchemaIsWhole`: for any number of migrators, applications, starts, failing statements
  and runs of cases (`SchemaInv`). A version says what is there: a migrator has applied, in
  its open transaction, every revision after the one the database was at
  (`Transacts`), so what it commits is whole (`Whole`). A database that was found wrong stays
  as it was, because no step of an application mends what is wrong with it
  (`Disordered`); one found in order is refused only after a failure (`Ordered`). What an
  application has created and healed before it serves is `Applications`. It assumes that no
  migrator is an application and that nobody is neither (`SchemaConstants`).
- `FilesAreWhole`, the directories and the environment around the transaction, for
  any number of kills and edits. For the directories (`DirectoryInv`) the record names
  whom it is about (`Named`) and says at each place what was done (`Advanced`); as long as
  the operator edits nothing, each directory is as recorded or one step ahead
  (`LeftAlone`). For the environment (`ExchangeInv`), what the backup is (`Backed`), which of
  the two exchanges is under way (`Sided`), what each has put beside the file
  (`Published`, `PutBack`) and, with no edit, on which side of the exchange the
  file is (`OnWay`, `Forth`, `Aback`): so an undo fails only over what a kill left half made.
- `NothingIsTaken`, the action property of the same parts, with that of the
  transaction (`NothingIsTakenBack`): what an operator made or edited is neither
  changed nor removed, because every step that writes or removes has compared
  identities with the record before.

Only model-checked: `AnswersSound`, which rests on recursive operators, for
which the provers have no backend; and every liveness property, which are out of
their reach, the fairness of `AnswerQueue` in `ServesAnswerQueue` among them. Every
other invariant and action property of the passing runs has a theorem.

## 7. Not modelled

`PROJECT.json` ("components") lists each part with its reason. In short:

- *Recognition of text.* Patterns, word lists, normalisation, the parsers of
  `.docx`, text and spreadsheets, scores of ranking, prompts. The models take what
  they find as data, any combination of it.
- *One call each.* The clients of the embedding, reranking and model servers, the
  model runtimes, the settings. Their failure is a step of the modules that
  call them.
- *No state.* Benchmarks, smoke tests, the deployment gate, the PowerShell wrappers,
  the routes that only read, the list pages and forms of the admin front end.
- *The in-memory repository*, a test double of the SQL one.
- *Time.* Durations are replaced by what can happen before or after them.
