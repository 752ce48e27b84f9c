----------------------------- MODULE Migrations -----------------------------
(***************************************************************************)
(* The schema of the relational database: migration_entrypoint.py and its  *)
(* chain of Alembic revisions, and Database.create_schema, by which an     *)
(* application that is not started through the deployment heals the schema *)
(* it finds.  The database is PostgreSQL.                                  *)
(*                                                                         *)
(* A migrator holds an advisory lock of its session and works in one       *)
(* transaction: it classifies the database, stamps it or not, applies the  *)
(* revisions one after the other, validates again and commits.  An         *)
(* application takes no lock: it creates the tables that are missing in    *)
(* one transaction, and then looks at the catalogue and heals columns,     *)
(* each in a transaction of its own.  A table or column is an item; an     *)
(* item that was not made by a revision is odd (a default, another type,   *)
(* an index that is not unique, ...).  What a transaction did not commit   *)
(* is seen by nobody else, who waits for it when he creates the same item. *)
(*                                                                         *)
(* Bounds: MaxStarts starts in all, MaxFaults processes that are killed and *)
(* statements or commits that fail, MaxRuns evaluation runs.               *)
(***************************************************************************)
EXTENDS Integers, Sequences, FiniteSetsExt, Functions

CONSTANTS Migrators, Apps, MaxStarts, MaxFaults, MaxRuns

VARIABLES
    origin,     \* how the database was found
    exact,      \* the items as a revision makes them
    odd,        \* the items that are there in another form: records item, how
    version,    \* alembic_version: is it there, is its structure right, its rows
    sequence,   \* evaluation_runs.sequence of the runs, the oldest first (0: NULL)
    counter,    \* evaluation_counters.next_value (0: the row is missing)
    unrouted,   \* is there an agent run without a route_type
    lock,       \* the migrator whose session holds the advisory lock
    work,       \* of each migrator: the items and the revision of its transaction
    pc,         \* where each process is
    missing,    \* of each application: what it found missing when it looked
    starts, faults

vars == <<origin, exact, odd, version, sequence, counter, unrouted, lock, work, pc, missing,
          starts, faults>>

Nobody == "nobody"
Unknown == 0    \* a row of alembic_version that is no revision, or abbreviated, or symbolic

-----------------------------------------------------------------------------
(* The revisions.                                                          *)

\* What the _ensure_... functions add to the tables of older installations.
UploadColumns == {"knowledge_sources.file_path"}
EmbeddingColumn == {"knowledge_chunks.embedding"}
EvaluationColumns == {"evaluation_cases.expect_answer", "evaluation_runs.sequence"}
SequenceIndex == "ix_evaluation_runs_sequence"

BaselineTables == {"conversations", "messages", "agent_runs", "agent_steps",
    "evaluation_cases", "evaluation_import_batches", "evaluation_counters",
    "evaluation_batches", "evaluation_runs", "knowledge_sources", "knowledge_chunks"}
Baseline == BaselineTables \cup UploadColumns \cup EmbeddingColumn \cup EvaluationColumns
            \cup {SequenceIndex}
Structured == {"structured_datasets", "structured_columns", "structured_publications",
               "structured_ingestion_jobs"}
Previews == {"structured_previews"}
JobSequence == {"structured_ingestion_jobs.sequence"}
Retrieval == {"knowledge_chunks.metadata", "retrieval_publications",
    "retrieval_source_indexes", "structured_retrieval_indexes", "retrieval_shadow_comparisons"}
ShadowLabels == {"retrieval_shadow_comparisons.evaluation_case_id"}
Fingerprint == {"retrieval_publications.embedding_model_name"}
WordFacts == {"knowledge_facts"}
RouteAudit == {"agent_runs.route_type"}

Revision == <<Baseline, Structured, Previews, JobSequence, Retrieval, ShadowLabels,
              Fingerprint, WordFacts, RouteAudit>>
HeadRevision == Len(Revision)
UpTo(r) == UNION {Revision[i] : i \in 1..r}

\* The columns and indexes that a table of the current model is created with.
ColumnsOf ==
    [evaluation_cases |-> {"evaluation_cases.expect_answer"},
     evaluation_runs |-> {"evaluation_runs.sequence", SequenceIndex},
     knowledge_sources |-> UploadColumns,
     knowledge_chunks |-> EmbeddingColumn \cup {"knowledge_chunks.metadata"},
     structured_ingestion_jobs |-> JobSequence,
     retrieval_shadow_comparisons |-> ShadowLabels,
     retrieval_publications |-> Fingerprint,
     agent_runs |-> RouteAudit]
Columns == UNION {ColumnsOf[t] : t \in DOMAIN ColumnsOf}
Tables == UpTo(HeadRevision) \ Columns
WithColumns(tables) == tables \cup UNION {ColumnsOf[t] : t \in tables \cap DOMAIN ColumnsOf}

Present == exact \cup {o.item : o \in odd}
Pending == UNION {work[m].items : m \in Migrators}

-----------------------------------------------------------------------------
(* Classification.                                                         *)

\* The ways in which an item may differ that the validators compare: the
\* reflected signatures of types, columns, keys and indexes, and the catalogues.
TypeAspects == {"family", "length", "collation", "precision", "scale", "asdecimal"}
ColumnAspects == TypeAspects \cup {"order", "nullable", "key", "computed", "identity", "autoincrement"}
KeyAspects == {"key columns", "key option"}
IndexAspects == {"index columns", "not unique", "expression", "sorting", "included columns",
                 "index option"}
ForeignKeyAspects == {"referred table", "referred schema", "ondelete", "onupdate", "deferrable",
                      "initially", "match", "foreign key option"}
ConstraintAspects == {"default", "unique constraint", "check constraint"}
IndexCatalogAspects == {"invalid", "not ready", "not live", "nulls not distinct", "reloptions",
    "tablespace", "access method", "predicate", "key definitions", "deferrable key"}
ForeignKeyCatalogAspects == {"not validated", "not enforced"}
TableCatalogAspects == {"kind", "unlogged", "partition", "table options", "table space",
                        "row security", "forced row security", "table method", "inheritance"}
TriggerCatalogAspects == {"disabled trigger", "user trigger", "unbound trigger"}
RuleCatalogAspects == {"rule"}
Fingerprinted == ColumnAspects \cup KeyAspects \cup IndexAspects \cup ForeignKeyAspects
                 \cup ConstraintAspects
Catalogued == IndexCatalogAspects \cup ForeignKeyCatalogAspects \cup TableCatalogAspects
              \cup TriggerCatalogAspects \cup RuleCatalogAspects

CounterPresent == counter > 0   \* a mutation of CounterValid

\* The counter has to be ahead of every run.
CounterValid == counter > Max({0} \cup Range(sequence))

\* Whether a validator reports the item.
Differs(o) == o.how \in Fingerprinted \cup Catalogued
ValidBaseline == Present = Baseline /\ ~(\E o \in odd : Differs(o)) /\ CounterValid

\* _validate_alembic_version_table and _read_managed_revision
Readable == version.sound /\ \E r \in 1..HeadRevision : version.rows = {r}
CurrentRevision == Max({0} \cup version.rows)

Verdict ==
    IF ~version.table
    THEN IF Present = {} THEN "upgrade" ELSE IF ValidBaseline THEN "stamp" ELSE "refuse"
    ELSE IF Readable /\ (CurrentRevision = 1 => ValidBaseline) THEN "upgrade" ELSE "refuse"

-----------------------------------------------------------------------------
(* A migrator.                                                             *)

Idle == [items |-> {}, rev |-> 0]
At(p, from, to) == pc[p] = from /\ pc' = [pc EXCEPT ![p] = to]
database == <<exact, odd, version, sequence, counter, unrouted>>

StartMigrator(m) ==
    /\ starts < MaxStarts /\ starts' = starts + 1
    /\ \E end \in {"off", "ok", "failed"} : At(m, end, "lock")
    /\ UNCHANGED <<origin, database, lock, work, missing, faults>>

\* _postgres_migration_lock: it waits for the session that has it.
TakeLock(m) ==
    /\ lock = Nobody
    /\ At(m, "lock", "classify")
    /\ lock' = m
    /\ UNCHANGED <<origin, database, work, missing, starts, faults>>

Classify(m) ==
    /\ \/ At(m, "classify", "release") /\ Verdict = "refuse" /\ UNCHANGED work
       \/ /\ At(m, "classify", "upgrade")
          /\ Verdict # "refuse"
          /\ work' = [work EXCEPT ![m].rev = IF Verdict = "stamp" THEN 1 ELSE CurrentRevision]
    /\ UNCHANGED <<origin, database, lock, missing, starts, faults>>

\* The next revision creates its items in the transaction: an item that an
\* application has committed by now makes the statement fail.
Clashes(m) == work[m].rev < HeadRevision /\ Revision[work[m].rev + 1] \cap Present # {}

ApplyRevision(m) ==
    /\ work[m].rev < HeadRevision /\ ~Clashes(m)
    /\ At(m, "upgrade", "upgrade")
    /\ work' = [work EXCEPT ![m] = [items |-> @.items \cup Revision[@.rev + 1], rev |-> @.rev + 1]]
    /\ UNCHANGED <<origin, database, lock, missing, starts, faults>>

\* A statement fails: the transaction is rolled back.
FailRevision(m) ==
    /\ \/ Clashes(m) /\ UNCHANGED faults
       \/ faults < MaxFaults /\ faults' = faults + 1
    /\ At(m, "upgrade", "release")
    /\ work' = [work EXCEPT ![m] = Idle]
    /\ UNCHANGED <<origin, database, lock, missing, starts>>

\* What the transaction leaves in the database: its items, the counter's row
\* of the baseline, a route for the runs there are, and one revision.
Committed(m) ==
    /\ exact' = exact \cup work[m].items
    /\ version' = [table |-> TRUE, sound |-> TRUE, rows |-> {work[m].rev}]
    /\ counter' = IF "evaluation_counters" \in work[m].items THEN 1 ELSE counter
    /\ unrouted' = (unrouted /\ RouteAudit \cap work[m].items = {})
    /\ UNCHANGED <<odd, sequence>>

\* At the head the second classification finds the managed state, and the
\* transaction is committed; the commit may raise although it was applied.
CommitMigration(m) ==
    /\ work[m].rev = HeadRevision
    /\ Committed(m)
    /\ \/ At(m, "upgrade", "done") /\ UNCHANGED faults
       \/ faults < MaxFaults /\ faults' = faults + 1 /\ At(m, "upgrade", "release")
    /\ work' = [work EXCEPT ![m] = Idle]
    /\ UNCHANGED <<origin, lock, missing, starts>>

ReleaseLock(m) ==
    /\ At(m, "done", "ok") \/ At(m, "release", "failed")
    /\ lock' = Nobody
    /\ UNCHANGED <<origin, database, work, missing, starts, faults>>

-----------------------------------------------------------------------------
(* An application that heals the schema it finds.                          *)

\* create_all looks for the tables that are missing ...
StartApplication(a) ==
    /\ starts < MaxStarts /\ starts' = starts + 1
    /\ \E end \in {"off", "failed"} : At(a, end, "create")
    /\ missing' = [missing EXCEPT ![a] = Tables \ Present]
    /\ UNCHANGED <<origin, database, lock, work, faults>>

\* ... and creates them in one transaction, which waits for another that
\* creates the same table and fails when it is there by then.
Waits(a) == missing[a] \cap Pending # {}
Late(a) == missing[a] \cap Present # {}

CreateTables(a) ==
    /\ ~Waits(a) /\ ~Late(a)
    /\ At(a, "create", "look upload")
    /\ exact' = exact \cup WithColumns(missing[a])
    /\ UNCHANGED <<origin, odd, version, sequence, counter, unrouted, lock, work, missing,
                   starts, faults>>

\* Each _ensure_... reads the catalogue before its transaction begins.
Look(a) ==
    /\ \E step \in {[from |-> "look upload", to |-> "upload", items |-> UploadColumns],
                    [from |-> "look embedding", to |-> "embedding", items |-> EmbeddingColumn],
                    [from |-> "look evaluation", to |-> "evaluation",
                     items |-> EvaluationColumns \cup {SequenceIndex}]} :
         /\ At(a, step.from, step.to)
         /\ missing' = [missing EXCEPT ![a] = step.items \ Present]
    /\ UNCHANGED <<origin, database, lock, work, starts, faults>>

\* ALTER TABLE puts the columns at the end of their table.
HealUpload(a) ==
    /\ ~Late(a)
    /\ At(a, "upload", "look embedding")
    /\ odd' = odd \cup {[item |-> i, how |-> "order"] : i \in missing[a]}
    /\ UNCHANGED <<origin, exact, version, sequence, counter, unrouted, lock, work, missing,
                   starts, faults>>

\* The embedding is the last column of the baseline too.
HealEmbedding(a) ==
    /\ ~Late(a)
    /\ At(a, "embedding", "look evaluation")
    /\ exact' = exact \cup missing[a]
    /\ UNCHANGED <<origin, odd, version, sequence, counter, unrouted, lock, work, missing,
                   starts, faults>>

\* The columns come with a default or may be NULL; when a run has no sequence,
\* or one that is not its own, all are numbered anew; an index that is missing
\* or not unique is made anew.
Doubtful == \E i \in DOMAIN sequence :
                sequence[i] = 0 \/ \E j \in DOMAIN sequence \ {i} : sequence[j] = sequence[i]

HealEvaluation(a) ==
    /\ ~Late(a)
    /\ At(a, "evaluation", "counter")
    /\ odd' = {o \in odd : o.item # SequenceIndex}
              \cup {[item |-> i, how |-> "default"] :
                        i \in missing[a] \cap {"evaluation_cases.expect_answer"}}
              \cup {[item |-> i, how |-> "nullable"] :
                        i \in missing[a] \cap {"evaluation_runs.sequence"}}
    /\ exact' = exact \cup {SequenceIndex}
    /\ sequence' = IF Doubtful THEN [i \in DOMAIN sequence |-> i] ELSE sequence
    /\ UNCHANGED <<origin, version, counter, unrouted, lock, work, missing, starts, faults>>

\* The statement fails: the item is there by now.
FailApplication(a) ==
    /\ Late(a)
    /\ \E step \in {"create", "upload", "embedding", "evaluation"} : At(a, step, "failed")
    /\ UNCHANGED <<origin, database, lock, work, missing, starts, faults>>

\* _ensure_evaluation_run_counter: one transaction that inserts and raises.
HealCounter(a) ==
    /\ At(a, "counter", "serving")
    /\ counter' = Max({1, counter} \cup {s + 1 : s \in Range(sequence)})
    /\ UNCHANGED <<origin, exact, odd, version, sequence, unrouted, lock, work, missing,
                   starts, faults>>

-----------------------------------------------------------------------------
(* The API that serves meanwhile, and what may go wrong.                   *)

\* A run takes the next value of the counter, under the unique index.
RecordRun ==
    /\ Len(sequence) < MaxRuns
    /\ {"evaluation_runs", SequenceIndex} \subseteq exact
    /\ counter > 0 /\ counter \notin Range(sequence)
    /\ sequence' = Append(sequence, counter)
    /\ counter' = counter + 1
    /\ UNCHANGED <<origin, exact, odd, version, unrouted, lock, work, pc, missing, starts,
                   faults>>

\* An API that was started before the revision of the route audit writes an
\* agent run without a route; while the column is added it waits.
OldAnswer ==
    /\ ~unrouted
    /\ "agent_runs" \in exact /\ RouteAudit \cap (Present \cup Pending) = {}
    /\ unrouted' = TRUE
    /\ UNCHANGED <<origin, exact, odd, version, sequence, counter, lock, work, pc, missing,
                   starts, faults>>

\* The death of a process ends its session: the transaction and the lock.
KillProcess(p) ==
    /\ faults < MaxFaults /\ faults' = faults + 1
    /\ pc[p] \notin {"off", "ok", "failed", "serving"}
    /\ pc' = [pc EXCEPT ![p] = "off"]
    /\ lock' = IF lock = p THEN Nobody ELSE lock
    /\ work' = [m \in Migrators |-> IF m = p THEN Idle ELSE work[m]]
    /\ UNCHANGED <<origin, database, missing, starts>>

-----------------------------------------------------------------------------
(* How a database may be found.                                            *)

NoVersion == [table |-> FALSE, sound |-> TRUE, rows |-> {}]
Managed(rows) == [table |-> TRUE, sound |-> TRUE, rows |-> rows]
Found(name, items, others, v, runs, next) ==
    /\ origin = name /\ exact = items /\ odd = others /\ version = v
    /\ sequence = runs /\ counter = next

\* An item of the baseline in another form: an index that is not unique, with
\* runs that share a sequence, and two that only a catalogue tells.
Oddities == {"not unique", "invalid", "unlogged"}
Unversioned ==
    \/ Found("empty", {}, {}, NoVersion, <<>>, 0)
    \/ Found("baseline", Baseline, {}, NoVersion, <<1>>, 2)
    \/ Found("drifted", Baseline, {}, NoVersion, <<1>>, 1)
    \/ Found("drifted", Baseline \ EmbeddingColumn, {}, NoVersion, <<>>, 1)
    \/ Found("drifted", Baseline \cup {"structured_previews"}, {}, NoVersion, <<>>, 1)
    \/ \E how \in Oddities :
         Found("drifted", Baseline \ {SequenceIndex}, {[item |-> SequenceIndex, how |-> how]},
               NoVersion, <<1, 1>>, 2)
    \/ Found("legacy", BaselineTables, {}, NoVersion, <<0, 0>>, 0)
Versioned ==
    \/ \E r \in {1, 4, HeadRevision} : Found("managed", UpTo(r), {}, Managed({r}), <<1>>, 2)
    \/ Found("drifted", Baseline \ EmbeddingColumn, {}, Managed({1}), <<>>, 1)
    \/ \E rows \in {{}, {Unknown}, {3, 4}} :
         Found("drifted", UpTo(4), {}, Managed(rows), <<>>, 1)
    \/ Found("drifted", UpTo(4), {}, [Managed({4}) EXCEPT !.sound = FALSE], <<>>, 1)

Init ==
    /\ Unversioned \/ Versioned
    /\ unrouted = FALSE
    /\ lock = Nobody
    /\ work = [m \in Migrators |-> Idle]
    /\ pc = [p \in Migrators \cup Apps |-> "off"]
    /\ missing = [a \in Apps |-> {}]
    /\ starts = 0 /\ faults = 0

Migrate(m) == TakeLock(m) \/ Classify(m) \/ ApplyRevision(m) \/ FailRevision(m)
              \/ CommitMigration(m) \/ ReleaseLock(m)
Heal(a) == CreateTables(a) \/ Look(a) \/ HealUpload(a) \/ HealEmbedding(a) \/ HealEvaluation(a)
           \/ FailApplication(a) \/ HealCounter(a)
Work == (\E m \in Migrators : Migrate(m)) \/ (\E a \in Apps : Heal(a))

Next ==
    \/ Work
    \/ \E m \in Migrators : StartMigrator(m)
    \/ \E a \in Apps : StartApplication(a)
    \/ RecordRun \/ OldAnswer
    \/ \E p \in Migrators \cup Apps : KillProcess(p)

\* PostgreSQL gives the lock to somebody who waits, and a process that runs
\* goes on.
Fairness == WF_vars(Work)
Spec == Init /\ [][Next]_vars /\ Fairness

-----------------------------------------------------------------------------
(* Properties.                                                             *)

TypeOK ==
    /\ exact \subseteq UpTo(HeadRevision) /\ exact \cap {o.item : o \in odd} = {}
    /\ version.rows \subseteq 0..HeadRevision
    /\ lock \in Migrators \cup {Nobody}
    /\ \A m \in Migrators : work[m].rev \in 0..HeadRevision

\* run_migrations: a database that was found in order is at exactly one
\* revision once it is managed, and has everything up to it; a transaction that
\* was cut off, refused or repeated leaves no part of a revision behind.
NothingHalf ==
    version.table /\ origin # "drifted" =>
        \E r \in 1..HeadRevision : version.rows = {r} /\ UpTo(r) \subseteq exact

\* _classify_and_validate: a database that differs from the frozen baseline, or
\* whose revision cannot be told, or that was healed by hand or by
\* create_schema, is never brought under management.
DriftRefused ==
    /\ origin = "legacy" => ~version.table
    /\ origin = "drifted" => version.rows \notin {{HeadRevision}}

\* An application that serves, beside others that heal and migrate, numbers
\* its runs with a counter that is ahead of all of them; and a run whose table
\* has a route has one.
CounterAhead ==
    /\ (\E a \in Apps : pc[a] = "serving") => CounterValid /\ ~Doubtful
    /\ RouteAudit \subseteq exact /\ version.rows = {HeadRevision} => ~unrouted

\* main: success is only reported at the head; and a database in order that
\* no application touched is only refused when a statement failed.
SuccessIsHead ==
    \A m \in Migrators :
        /\ pc[m] = "ok" => version.rows = {HeadRevision}
        /\ (pc[m] = "failed" /\ faults = 0 /\ \A a \in Apps : pc[a] = "off")
              => origin \in {"legacy", "drifted"}

SchemaWhole == TypeOK /\ NothingHalf /\ DriftRefused /\ CounterAhead /\ SuccessIsHead

\* Nobody waits for ever for the lock or for a transaction.
Quiet == lock = Nobody /\ \A p \in Migrators \cup Apps :
                              pc[p] \in {"off", "ok", "failed", "serving"}
MigrationEnds == []<>Quiet
=============================================================================
