---------------------- MODULE KnowledgeIngestionProofs ----------------------
(***************************************************************************)
(* Theorems about KnowledgeIngestion, for any number of sources, tasks and *)
(* clients, any faults and any crashes.                                    *)
(*                                                                         *)
(* Six groups of facts, each inductive with those before it.  Types: the   *)
(* domains of the variables, and that a busy actor has a source.           *)
(* Separate: a completion and a failure or re-index that are open at once  *)
(* are recorded in crossed; what an uncrossed transaction has read still   *)
(* holds where its commit depends on it.  Rows: status and chunk rows of   *)
(* an uncrossed source agree.  Locked: whoever is between taking and       *)
(* releasing the alias fence holds it, so there is at most one.  Remains:  *)
(* a deleted source has no rows, records or points, and nothing is on its  *)
(* way to bring any back.  Current: the points of an indexed source are    *)
(* those of its chunks, or somebody is about to index it again.            *)
(***************************************************************************)
EXTENDS KnowledgeIngestion, TLAPS

Stage ==
    /\ \A p \in Processors : pc[p] \in ProcessorPC
    /\ \A c \in Clients : pc[c] \in ClientPC
Employed == \A a \in Actors : pc[a] # "idle" => job[a] \in Sources
Types == TypeOK /\ Stage /\ Employed

\* A completion and a failure or a re-index of one source are not open at
\* once, unless this is recorded.
Completing(a) == pc[a] \in {"clear", "complete"}
Failing(a) == pc[a] \in {"failClear", "failCommit"}
Resetting(a) == pc[a] \in {"reindexClear", "reindexCommit"}
Exclusive ==
    \A a, b \in Actors :
        Completing(a) /\ job[a] = job[b] =>
            /\ Failing(b) => <<job[a], "fail">> \in crossed
            /\ Resetting(b) => <<job[a], "reindex">> \in crossed
Previewed ==
    \A a \in Actors :
        /\ pc[a] = "replace" \/ Completing(a) => job[a] \notin SheetSources
        /\ pc[a] = "preview" => job[a] \in SheetSources

\* A status that the commit will not write, because it was loaded, is still
\* right, and no chunk row was added since the DELETE of a failure or re-index.
LoadedHolds ==
    \A a \in Actors :
        /\ Failing(a) /\ loaded[a] = "failed" /\ <<job[a], "fail">> \notin crossed
            => status[job[a]] # "indexed"
        /\ Resetting(a) /\ loaded[a] = "indexing" /\ <<job[a], "reindex">> \notin crossed
            => status[job[a]] # "indexed"
        /\ Completing(a) /\ loaded[a] = "indexed" /\ ~Crossed(job[a])
            => status[job[a]] \in {"indexed", "deleted"}
ClearedHolds ==
    \A a \in Actors :
        /\ pc[a] = "failCommit" /\ <<job[a], "fail">> \notin crossed
            => chunks[job[a]] \subseteq seen[a]
        /\ pc[a] = "reindexCommit" /\ <<job[a], "reindex">> \notin crossed
            => chunks[job[a]] \subseteq seen[a]
Separate == Exclusive /\ Previewed /\ LoadedHolds /\ ClearedHolds

\* The status and the chunk rows of a source, also when it has no row.
Rows ==
    /\ StatusMatchesChunks
    /\ \A s \in Sources : ~Exists(s) => chunks[s] = {}

\* Between taking the fence and releasing it.
Indexing == {"unindex", "upsert", "finalize"}
Discarded == {"deleteRow", "reindexRow", "reindexClear", "reindexCommit"}
Holding == Indexing \cup Discarded \cup
    {"buildRead", "publish", "readChunks", "onFailure", "deletePoints", "reindexPoints"}
Locked == \A a \in Actors : pc[a] \in Holding => lock = a

\* Nothing is left of a deleted source, and what its holder of the fence is
\* about to write does not bring it back.
Unpublished == index = "none" => points = NoChunks
IndexesExisting ==
    \A p \in Processors : pc[p] \in Indexing => index = "live" /\ Exists(job[p])
BuildsExisting ==
    \A p \in Processors, s \in Sources :
        (pc[p] = "publish" /\ status[s] = "deleted") => draft[p][s] = {}
DropsLast == \A c \in Clients : pc[c] \in Discarded => points[job[c]] = {}
Remains ==
    /\ DeletedLeavesNothing /\ Unpublished
    /\ IndexesExisting /\ BuildsExisting /\ DropsLast

\* A processor that stored chunks of the source will index it: it has not
\* yet read the chunks it is going to upsert.
Due == {"ensure", "buildLock", "buildRead", "publish", "upsertLock", "readChunks"}
Pending(s) == \E p \in Processors : job[p] = s /\ pc[p] \in Due

\* Somebody holds the fence to change the points of this very source.
Changing(s) ==
    \E a \in Actors : job[a] = s /\ pc[a] \in Indexing \cup Discarded \cup {"onFailure"}

\* What a processor does to the index ends in the points of the chunks,
\* unless another processor stored others and is going to index them.
Upserts(p, s) ==
    /\ pc[p] \in {"unindex", "upsert"} => draft[p][s] = chunks[s]
    /\ pc[p] = "upsert" => points[s] = {}
    /\ pc[p] = "finalize" => points[s] = chunks[s]
Untouched(s) == status[s] = "indexed" /\ <<s, "fail">> \notin crossed
UpsertsCurrent ==
    \A p \in Processors, s \in Sources :
        (pc[p] \in Indexing /\ job[p] = s /\ Untouched(s)) => Pending(s) \/ Upserts(p, s)
BuildsCurrent ==
    \A p \in Processors, s \in Sources :
        (pc[p] = "publish" /\ Untouched(s)) => Pending(s) \/ draft[p][s] = chunks[s]
RecordedCurrent ==
    \A s \in Sources :
        (Untouched(s) /\ record[s] = "indexed")
            => Pending(s) \/ Changing(s) \/ points[s] = chunks[s]
\* Chunk rows a re-index leaves behind are those of a completion it missed.
ResetsCurrent ==
    \A c \in Clients, s \in Sources :
        (pc[c] = "reindexCommit" /\ job[c] = s) => Pending(s) \/ chunks[s] \subseteq seen[c]
NothingLost == \A a \in Actors : pc[a] # "recordFailure"
Current ==
    faults + crashes = 0 =>
        UpsertsCurrent /\ BuildsCurrent /\ RecordedCurrent /\ ResetsCurrent /\ NothingLost


\* The conjuncts of Types in groups that a step's proof can take one by one.
RowTypes ==
    /\ status \in [Sources -> Statuses]
    /\ record \in [Sources -> {"none", "indexed", "failed"}]
    /\ index \in {"none", "live"} /\ queued \subseteq Sources
SetTypes ==
    /\ chunks \in [Sources -> SUBSET Processors]
    /\ points \in [Sources -> SUBSET Processors]
PlaceTypes ==
    /\ pc \in [Actors -> ProcessorPC \cup ClientPC]
    /\ lock \in Actors \cup {None}
JobTypes == job \in [Actors -> Sources \cup {None}] /\ Employed
ReadTypes ==
    /\ loaded \in [Actors -> Statuses \cup {"none"}]
    /\ seen \in [Actors -> SUBSET Processors]
    /\ crossed \subseteq Sources \X {"fail", "reindex"}
    /\ draft \in [Processors -> [Sources -> SUBSET Processors]]
CountTypes ==
    /\ requests \in 0..MaxRequests
    /\ {badFiles, faults, crashes} \subseteq 0..MaxTroubles

\* The invariants hold before the first upload.
LEMMA InitHolds == Init => Types /\ Separate /\ Rows /\ Locked /\ Remains /\ Current
<1> SUFFICES ASSUME Init
             PROVE  Types /\ Separate /\ Rows /\ Locked /\ Remains /\ Current
  OBVIOUS
<1> USE DEF Init
<1>1. Types
  <2>1. TypeOK
    BY IngestionBounds DEF TypeOK, ProcessorPC, ClientPC, Statuses, NoChunks
  <2> QED
    BY <2>1 DEF Types, Stage, Employed, ProcessorPC, ClientPC, Actors
<1>2. Rows /\ Locked
  BY DEF Rows, StatusMatchesChunks, NoChunks, Locked, Holding, Indexing, Discarded
<1>3. Remains
  BY DEF Remains, DeletedLeavesNothing, Unpublished, IndexesExisting, BuildsExisting,
    DropsLast, Indexing, Discarded, Actors
<1>4. Current
  BY DEF Current, UpsertsCurrent, BuildsCurrent, RecordedCurrent, ResetsCurrent,
    NothingLost, Indexing, Actors
<1>5. Separate
  BY DEF Separate, Exclusive, Previewed, LoadedHolds, ClearedHolds, Completing, Failing,
    Resetting
<1> QED
  BY <1>1, <1>2, <1>3, <1>4, <1>5

\* Every step keeps the variables in their domains and a busy actor's source.
LEMMA TypesStep ==
  ASSUME Types, [Next]_vars
  PROVE  Types'
<1> USE IngestionBounds, ActorsDisjoint
    DEF Types, TypeOK, Stage, Employed, Processors, Actors, ProcessorPC, ClientPC,
        Statuses, NoChunks, RowTypes, SetTypes, PlaceTypes, JobTypes, ReadTypes, CountTypes,
            rows, qdrant, control, reads, transaction, bounds, Sound, Fault, Goto, Troubles
<1>1. CASE UNCHANGED vars
  BY <1>1, SMTT(60) DEF vars
<1>2. ASSUME NEW s \in Sources, Upload(s) PROVE Types'
  BY <1>2, SMTT(60) DEF Upload
<1>3. ASSUME NEW q \in Tasks, StartTask(q) PROVE Types'
  BY <1>3, SMTT(60) DEF StartTask
<1>4. CASE PollWorker
  BY <1>4, SMTT(60) DEF PollWorker, Candidates
<1>5. ASSUME NEW q \in Processors, Process(q) PROVE Types'
  <2>1. CASE Parse(q)
    <3>1. /\ pc[q] = "parse" /\ UNCHANGED <<lock, job>>
          /\ \E l \in {"preview", "replace", "fail"} : pc' = [pc EXCEPT ![q] = l]
      BY <2>1 DEF Parse
    <3>2. RowTypes'
      BY <2>1, SMTT(60) DEF Parse
    <3>3. SetTypes'
      BY <2>1, SMTT(60) DEF Parse
    <3>4. PlaceTypes'
      BY <3>1, SMTT(60)
    <3>5. JobTypes'
      BY <3>1, SMTT(60)
    <3>6. ReadTypes'
      BY <2>1, SMTT(60) DEF Parse
    <3>7. CountTypes'
      BY <2>1, SMTT(60) DEF Parse
    <3>8. Stage'
      BY <3>1, SMTT(60)
    <3> QED
      BY <3>2, <3>3, <3>4, <3>5, <3>6, <3>7, <3>8
  <2>2. CASE SavePreview(q)
    <3>1. /\ pc[q] = "preview" /\ UNCHANGED lock
          /\ \/ pc' = [pc EXCEPT ![q] = "idle"] /\ job' = [job EXCEPT ![q] = None]
             \/ pc' = [pc EXCEPT ![q] = "fail"] /\ UNCHANGED job
      BY <2>2 DEF SavePreview, Finish
    <3>2. RowTypes'
      BY <2>2, SMTT(60) DEF SavePreview, Finish, Forget
    <3>3. SetTypes'
      BY <2>2, SMTT(60) DEF SavePreview, Finish, Forget
    <3>4. PlaceTypes'
      BY <3>1, SMTT(60)
    <3>5. JobTypes'
      BY <3>1, SMTT(60)
    <3>6. ReadTypes'
      BY <2>2, SMTT(60) DEF SavePreview, Finish, Forget
    <3>7. CountTypes'
      BY <2>2, SMTT(60) DEF SavePreview, Finish, Forget
    <3>8. Stage'
      BY <3>1, SMTT(60)
    <3> QED
      BY <3>2, <3>3, <3>4, <3>5, <3>6, <3>7, <3>8
  <2>3. CASE ReplaceChunks(q)
    <3>1. RowTypes'
      BY <2>3, SMTT(60) DEF ReplaceChunks, LoadSource
    <3>2. SetTypes'
      BY <2>3, SMTT(60) DEF ReplaceChunks, LoadSource
    <3>3. PlaceTypes'
      BY <2>3, SMTT(60) DEF ReplaceChunks, LoadSource
    <3>4. JobTypes'
      BY <2>3, SMTT(60) DEF ReplaceChunks, LoadSource
    <3>5. ReadTypes'
      BY <2>3, SMTT(60) DEF ReplaceChunks, LoadSource
    <3>6. CountTypes'
      BY <2>3, SMTT(60) DEF ReplaceChunks, LoadSource
    <3>7. Stage'
      BY <2>3, SMTT(60) DEF ReplaceChunks, LoadSource
    <3> QED
      BY <3>1, <3>2, <3>3, <3>4, <3>5, <3>6, <3>7
  <2>4. CASE CompleteIndexing(q)
    <3>1. RowTypes'
      BY <2>4, SMTT(60) DEF CompleteIndexing, Completed, SetChunks, SetStatus, KeptRows, EndTransaction
    <3>2. SetTypes'
      BY <2>4, SMTT(60) DEF CompleteIndexing, Completed, SetChunks, SetStatus, KeptRows, EndTransaction
    <3>3. PlaceTypes'
      BY <2>4, SMTT(60) DEF CompleteIndexing, Completed, SetChunks, SetStatus, KeptRows, EndTransaction
    <3>4. JobTypes'
      BY <2>4, SMTT(60) DEF CompleteIndexing, Completed, SetChunks, SetStatus, KeptRows, EndTransaction
    <3>5. ReadTypes'
      BY <2>4, SMTT(60) DEF CompleteIndexing, Completed, SetChunks, SetStatus, KeptRows, EndTransaction
    <3>6. CountTypes'
      BY <2>4, SMTT(60) DEF CompleteIndexing, Completed, SetChunks, SetStatus, KeptRows, EndTransaction
    <3>7. Stage'
      BY <2>4, SMTT(60) DEF CompleteIndexing, Completed, SetChunks, SetStatus, KeptRows, EndTransaction
    <3> QED
      BY <3>1, <3>2, <3>3, <3>4, <3>5, <3>6, <3>7
  <2>5. CASE FailIndexing(q)
    <3>1. RowTypes'
      BY <2>5, SMTT(60) DEF FailIndexing, LoadSource, Finish, Forget
    <3>2. SetTypes'
      BY <2>5, SMTT(60) DEF FailIndexing, LoadSource, Finish, Forget
    <3>3. PlaceTypes'
      BY <2>5, SMTT(60) DEF FailIndexing, LoadSource, Finish, Forget
    <3>4. JobTypes'
      BY <2>5, SMTT(60) DEF FailIndexing, LoadSource, Finish, Forget
    <3>5. ReadTypes'
      BY <2>5, SMTT(60) DEF FailIndexing, LoadSource, Finish, Forget
    <3>6. CountTypes'
      BY <2>5, SMTT(60) DEF FailIndexing, LoadSource, Finish, Forget
    <3>7. Stage'
      BY <2>5, SMTT(60) DEF FailIndexing, LoadSource, Finish, Forget
    <3> QED
      BY <3>1, <3>2, <3>3, <3>4, <3>5, <3>6, <3>7
  <2>6. CASE EnsurePublication(q)
    BY <2>6, SMTT(60) DEF EnsurePublication
  <2>7. CASE LockForBuild(q)
    <3>1. /\ pc[q] = "buildLock" /\ UNCHANGED job
          /\ lock' \in {lock, q}
          /\ \E l \in {"buildRead", "recordFailure"} : pc' = [pc EXCEPT ![q] = l]
      BY <2>7 DEF LockForBuild, Lock, TakeLock
    <3>2. RowTypes'
      BY <2>7, SMTT(60) DEF LockForBuild, Lock, TakeLock
    <3>3. SetTypes'
      BY <2>7, SMTT(60) DEF LockForBuild, Lock, TakeLock
    <3>4. PlaceTypes'
      BY <3>1, SMTT(60)
    <3>5. JobTypes'
      BY <3>1, SMTT(60)
    <3>6. ReadTypes'
      BY <2>7, SMTT(60) DEF LockForBuild, Lock, TakeLock
    <3>7. CountTypes'
      BY <2>7, SMTT(60) DEF LockForBuild, Lock, TakeLock
    <3>8. Stage'
      BY <3>1, SMTT(60)
    <3> QED
      BY <3>2, <3>3, <3>4, <3>5, <3>6, <3>7, <3>8
  <2>8. CASE BuildRead(q)
    BY <2>8, SMTT(60) DEF BuildRead
  <2>9. CASE PublishBuild(q)
    BY <2>9, SMTT(60) DEF PublishBuild, ReleaseLock, Forget
  <2>10. CASE LockForUpsert(q)
    <3>1. /\ pc[q] = "upsertLock" /\ UNCHANGED job
          /\ lock' \in {lock, q}
          /\ \E l \in {"readChunks", "recordFailure"} : pc' = [pc EXCEPT ![q] = l]
      BY <2>10 DEF LockForUpsert, Lock, TakeLock
    <3>2. RowTypes'
      BY <2>10, SMTT(60) DEF LockForUpsert, Lock, TakeLock
    <3>3. SetTypes'
      BY <2>10, SMTT(60) DEF LockForUpsert, Lock, TakeLock
    <3>4. PlaceTypes'
      BY <3>1, SMTT(60)
    <3>5. JobTypes'
      BY <3>1, SMTT(60)
    <3>6. ReadTypes'
      BY <2>10, SMTT(60) DEF LockForUpsert, Lock, TakeLock
    <3>7. CountTypes'
      BY <2>10, SMTT(60) DEF LockForUpsert, Lock, TakeLock
    <3>8. Stage'
      BY <3>1, SMTT(60)
    <3> QED
      BY <3>2, <3>3, <3>4, <3>5, <3>6, <3>7, <3>8
  <2>11. CASE ReadChunks(q)
    <3>1. RowTypes'
      BY <2>11, SMTT(60) DEF ReadChunks
    <3>2. SetTypes'
      BY <2>11, SMTT(60) DEF ReadChunks
    <3>3. PlaceTypes'
      BY <2>11, SMTT(60) DEF ReadChunks
    <3>4. JobTypes'
      BY <2>11, SMTT(60) DEF ReadChunks
    <3>5. ReadTypes'
      BY <2>11, SMTT(60) DEF ReadChunks
    <3>6. CountTypes'
      BY <2>11, SMTT(60) DEF ReadChunks
    <3>7. Stage'
      BY <2>11, SMTT(60) DEF ReadChunks
    <3> QED
      BY <3>1, <3>2, <3>3, <3>4, <3>5, <3>6, <3>7
  <2>12. CASE UnindexSource(q)
    BY <2>12, SMTT(60) DEF UnindexSource, RemovePoints
  <2>13. CASE UpsertSource(q)
    <3>1. RowTypes'
      BY <2>13, SMTT(60) DEF UpsertSource, Forget
    <3>2. SetTypes'
      BY <2>13, SMTT(60) DEF UpsertSource, Forget
    <3>3. PlaceTypes'
      BY <2>13, SMTT(60) DEF UpsertSource, Forget
    <3>4. JobTypes'
      BY <2>13, SMTT(60) DEF UpsertSource, Forget
    <3>5. ReadTypes'
      BY <2>13, SMTT(60) DEF UpsertSource, Forget
    <3>6. CountTypes'
      BY <2>13, SMTT(60) DEF UpsertSource, Forget
    <3>7. Stage'
      BY <2>13, SMTT(60) DEF UpsertSource, Forget
    <3> QED
      BY <3>1, <3>2, <3>3, <3>4, <3>5, <3>6, <3>7
  <2>14. CASE FinalizeIndex(q)
    <3>1. /\ pc[q] = "finalize" /\ lock' \in {lock, None}
          /\ \/ pc' = [pc EXCEPT ![q] = "idle"] /\ job' = [job EXCEPT ![q] = None]
             \/ pc' = [pc EXCEPT ![q] = "recordFailure"] /\ UNCHANGED job
      BY <2>14 DEF FinalizeIndex, ReleaseLock, Finish
    <3>2. RowTypes'
      BY <2>14, SMTT(60) DEF FinalizeIndex, ReleaseLock, Recorded, Finish,
        Forget
    <3>3. SetTypes'
      BY <2>14, SMTT(60) DEF FinalizeIndex, ReleaseLock, Recorded, Finish,
        Forget
    <3>4. PlaceTypes'
      BY <3>1, SMTT(60)
    <3>5. JobTypes'
      BY <3>1, SMTT(60)
    <3>6. ReadTypes'
      BY <2>14, SMTT(60) DEF FinalizeIndex, ReleaseLock, Recorded, Finish,
        Forget
    <3>7. CountTypes'
      BY <2>14, SMTT(60) DEF FinalizeIndex, ReleaseLock, Recorded, Finish,
        Forget
    <3>8. Stage'
      BY <3>1, SMTT(60)
    <3> QED
      BY <3>2, <3>3, <3>4, <3>5, <3>6, <3>7, <3>8
  <2>15. CASE OnFailure(q)
    BY <2>15, SMTT(60) DEF OnFailure, RecordIndexFailure, ReleaseLock, Recorded, Finish, Forget
  <2>16. CASE RecordFailure(q)
    <3>1. RowTypes'
      BY <2>16, SMTT(60) DEF RecordFailure, RecordIndexFailure, Recorded, Finish, Forget
    <3>2. SetTypes'
      BY <2>16, SMTT(60) DEF RecordFailure, RecordIndexFailure, Recorded, Finish, Forget
    <3>3. PlaceTypes'
      BY <2>16, SMTT(60) DEF RecordFailure, RecordIndexFailure, Recorded, Finish, Forget
    <3>4. JobTypes'
      BY <2>16, SMTT(60) DEF RecordFailure, RecordIndexFailure, Recorded, Finish, Forget
    <3>5. ReadTypes'
      BY <2>16, SMTT(60) DEF RecordFailure, RecordIndexFailure, Recorded, Finish, Forget
    <3>6. CountTypes'
      BY <2>16, SMTT(60) DEF RecordFailure, RecordIndexFailure, Recorded, Finish, Forget
    <3>7. Stage'
      BY <2>16, SMTT(60) DEF RecordFailure, RecordIndexFailure, Recorded, Finish, Forget
    <3> QED
      BY <3>1, <3>2, <3>3, <3>4, <3>5, <3>6, <3>7
  <2>17. CASE ClearReplaced(q)
    <3>1. RowTypes'
      BY <2>17, SMTT(60) DEF ClearReplaced, ClearChunks
    <3>2. SetTypes'
      BY <2>17, SMTT(60) DEF ClearReplaced, ClearChunks
    <3>3. PlaceTypes'
      BY <2>17, SMTT(60) DEF ClearReplaced, ClearChunks
    <3>4. JobTypes'
      BY <2>17, SMTT(60) DEF ClearReplaced, ClearChunks
    <3>5. ReadTypes'
      BY <2>17, SMTT(60) DEF ClearReplaced, ClearChunks
    <3>6. CountTypes'
      BY <2>17, SMTT(60) DEF ClearReplaced, ClearChunks
    <3>7. Stage'
      BY <2>17, SMTT(60) DEF ClearReplaced, ClearChunks
    <3> QED
      BY <3>1, <3>2, <3>3, <3>4, <3>5, <3>6, <3>7
  <2>18. CASE ClearFailed(q)
    <3>1. RowTypes'
      BY <2>18, SMTT(60) DEF ClearFailed, ClearChunks
    <3>2. SetTypes'
      BY <2>18, SMTT(60) DEF ClearFailed, ClearChunks
    <3>3. PlaceTypes'
      BY <2>18, SMTT(60) DEF ClearFailed, ClearChunks
    <3>4. JobTypes'
      BY <2>18, SMTT(60) DEF ClearFailed, ClearChunks
    <3>5. ReadTypes'
      BY <2>18, SMTT(60) DEF ClearFailed, ClearChunks
    <3>6. CountTypes'
      BY <2>18, SMTT(60) DEF ClearFailed, ClearChunks
    <3>7. Stage'
      BY <2>18, SMTT(60) DEF ClearFailed, ClearChunks
    <3> QED
      BY <3>1, <3>2, <3>3, <3>4, <3>5, <3>6, <3>7
  <2>19. CASE CommitFailure(q)
    <3>1. RowTypes'
      BY <2>19, SMTT(60) DEF CommitFailure, MarkSourceFailed, SetChunks, SetStatus, KeptRows,
          EndTransaction, Finish, Forget
    <3>2. SetTypes'
      BY <2>19, SMTT(60) DEF CommitFailure, MarkSourceFailed, SetChunks, SetStatus, KeptRows,
          EndTransaction, Finish, Forget
    <3>3. PlaceTypes'
      BY <2>19, SMTT(60) DEF CommitFailure, MarkSourceFailed, SetChunks, SetStatus, KeptRows,
          EndTransaction, Finish, Forget
    <3>4. JobTypes'
      BY <2>19, SMTT(60) DEF CommitFailure, MarkSourceFailed, SetChunks, SetStatus, KeptRows,
          EndTransaction, Finish, Forget
    <3>5. ReadTypes'
      BY <2>19, SMTT(60) DEF CommitFailure, MarkSourceFailed, SetChunks, SetStatus, KeptRows,
          EndTransaction, Finish, Forget
    <3>6. CountTypes'
      BY <2>19, SMTT(60) DEF CommitFailure, MarkSourceFailed, SetChunks, SetStatus, KeptRows,
          EndTransaction, Finish, Forget
    <3>7. Stage'
      BY <2>19, SMTT(60) DEF CommitFailure, MarkSourceFailed, SetChunks, SetStatus, KeptRows,
          EndTransaction, Finish, Forget
    <3> QED
      BY <3>1, <3>2, <3>3, <3>4, <3>5, <3>6, <3>7
  <2> QED
    BY <1>5, <2>1, <2>2, <2>3, <2>4, <2>5, <2>6, <2>7, <2>8, <2>9, <2>10, <2>11,
        <2>12, <2>13, <2>14, <2>15, <2>16, <2>17, <2>18, <2>19 DEF Process
<1>6. ASSUME NEW d \in Clients, StartRequest(d) PROVE Types'
  BY <1>6, SMTT(60) DEF StartRequest
<1>7. ASSUME NEW d \in Clients, Request(d) PROVE Types'
  <2>1. CASE LockForRequest(d)
    BY <2>1, SMTT(60) DEF LockForRequest, TakeLock, Answer
  <2>2. CASE DiscardPoints(d)
    BY <2>2, SMTT(60) DEF DiscardPoints, RemovePoints, Answer, ReleaseLock
  <2>3. CASE DeleteRow(d)
    BY <2>3, SMTT(60) DEF DeleteRow, ReleaseLock, Answer, Recorded
  <2>4. CASE ReindexRow(d)
    <3>1. RowTypes'
      BY <2>4, SMTT(60) DEF ReindexRow, LoadSource, Answer, ReleaseLock
    <3>2. SetTypes'
      BY <2>4, SMTT(60) DEF ReindexRow, LoadSource, Answer, ReleaseLock
    <3>3. PlaceTypes'
      BY <2>4, SMTT(60) DEF ReindexRow, LoadSource, Answer, ReleaseLock
    <3>4. JobTypes'
      BY <2>4, SMTT(60) DEF ReindexRow, LoadSource, Answer, ReleaseLock
    <3>5. ReadTypes'
      BY <2>4, SMTT(60) DEF ReindexRow, LoadSource, Answer, ReleaseLock
    <3>6. CountTypes'
      BY <2>4, SMTT(60) DEF ReindexRow, LoadSource, Answer, ReleaseLock
    <3>7. Stage'
      BY <2>4, SMTT(60) DEF ReindexRow, LoadSource, Answer, ReleaseLock
    <3> QED
      BY <3>1, <3>2, <3>3, <3>4, <3>5, <3>6, <3>7
  <2>5. CASE ClearReindexed(d)
    <3>1. RowTypes'
      BY <2>5, SMTT(60) DEF ClearReindexed, ClearChunks
    <3>2. SetTypes'
      BY <2>5, SMTT(60) DEF ClearReindexed, ClearChunks
    <3>3. PlaceTypes'
      BY <2>5, SMTT(60) DEF ClearReindexed, ClearChunks
    <3>4. JobTypes'
      BY <2>5, SMTT(60) DEF ClearReindexed, ClearChunks
    <3>5. ReadTypes'
      BY <2>5, SMTT(60) DEF ClearReindexed, ClearChunks
    <3>6. CountTypes'
      BY <2>5, SMTT(60) DEF ClearReindexed, ClearChunks
    <3>7. Stage'
      BY <2>5, SMTT(60) DEF ClearReindexed, ClearChunks
    <3> QED
      BY <3>1, <3>2, <3>3, <3>4, <3>5, <3>6, <3>7
  <2>6. CASE CommitReindex(d)
    <3>1. RowTypes'
      BY <2>6, SMTT(60) DEF CommitReindex, SetChunks, SetStatus, KeptRows, EndTransaction,
          Answer, ReleaseLock
    <3>2. SetTypes'
      BY <2>6, SMTT(60) DEF CommitReindex, SetChunks, SetStatus, KeptRows, EndTransaction,
          Answer, ReleaseLock
    <3>3. PlaceTypes'
      BY <2>6, SMTT(60) DEF CommitReindex, SetChunks, SetStatus, KeptRows, EndTransaction,
          Answer, ReleaseLock
    <3>4. JobTypes'
      BY <2>6, SMTT(60) DEF CommitReindex, SetChunks, SetStatus, KeptRows, EndTransaction,
          Answer, ReleaseLock
    <3>5. ReadTypes'
      BY <2>6, SMTT(60) DEF CommitReindex, SetChunks, SetStatus, KeptRows, EndTransaction,
          Answer, ReleaseLock
    <3>6. CountTypes'
      BY <2>6, SMTT(60) DEF CommitReindex, SetChunks, SetStatus, KeptRows, EndTransaction,
          Answer, ReleaseLock
    <3>7. Stage'
      BY <2>6, SMTT(60) DEF CommitReindex, SetChunks, SetStatus, KeptRows, EndTransaction,
          Answer, ReleaseLock
    <3> QED
      BY <3>1, <3>2, <3>3, <3>4, <3>5, <3>6, <3>7
  <2> QED
    BY <1>7, <2>1, <2>2, <2>3, <2>4, <2>5, <2>6 DEF Request
<1>8. CASE CrashWorker \/ CrashApi
  BY <1>8, SMTT(60) DEF CrashWorker, CrashApi, Crash
<1> QED
  BY <1>1, <1>2, <1>3, <1>4, <1>5, <1>6, <1>7, <1>8 DEF Next

\* What another actor's open transaction on the same source relies on.
Spares(b) ==
    /\ \/ Failing(b) /\ <<job[b], "fail">> \notin crossed
       \/ Resetting(b) /\ <<job[b], "reindex">> \notin crossed
       => /\ chunks'[job[b]] \subseteq chunks[job[b]]
          /\ status'[job[b]] = "indexed" => status[job[b]] = "indexed"
    /\ Completing(b) /\ ~Crossed(job[b]) /\ status[job[b]] \in {"indexed", "deleted"}
       => status'[job[b]] \in {"indexed", "deleted"}

\* An actor that ends a transaction or is in none disturbs no open one if it
\* spares what these rely on.
Watched == {"preview", "replace", "clear", "complete", "failClear", "failCommit",
            "reindexClear", "reindexCommit"}
LEMMA SeparateMoves ==
  ASSUME Types, Separate, NEW a \in Actors, NEW l, l \notin Watched, NEW j,
         pc' = [pc EXCEPT ![a] = l], job' = [job EXCEPT ![a] = j],
         crossed' = crossed,
         \A b \in Actors \ {a} : loaded'[b] = loaded[b] /\ seen'[b] = seen[b],
         \A b \in Actors \ {a} : Spares(b)
  PROVE  Separate'
<1>1. \A b \in Actors : pc'[b] \in Watched =>
        b # a /\ pc'[b] = pc[b] /\ job'[b] = job[b]
  BY DEF Types, TypeOK, Watched
<1> USE <1>1 DEF Watched, Separate, Completing, Failing, Resetting, Crossed
<1>2. Exclusive'
  BY DEF Exclusive
<1>3. Previewed'
  BY DEF Previewed
<1>4. LoadedHolds'
  BY DEF LoadedHolds, Spares
<1>5. ClearedHolds'
  <2> SUFFICES ASSUME NEW b \in Actors
               PROVE  /\ pc'[b] = "failCommit" /\ <<job'[b], "fail">> \notin crossed
                         => chunks'[job'[b]] \subseteq seen'[b]
                      /\ pc'[b] = "reindexCommit" /\ <<job'[b], "reindex">> \notin crossed
                         => chunks'[job'[b]] \subseteq seen'[b]
    BY DEF ClearedHolds
  <2>1. CASE pc'[b] \in Watched
    <3>1. b # a /\ pc'[b] = pc[b] /\ job'[b] = job[b] /\ seen'[b] = seen[b]
      BY <2>1
    <3> QED
      BY <3>1 DEF ClearedHolds, Spares
  <2>2. CASE pc'[b] \notin Watched
    BY <2>2
  <2> QED
    BY <2>1, <2>2
<1> QED
  BY <1>2, <1>3, <1>4, <1>5

\* In particular if it leaves the rows alone.
LEMMA SeparateApart ==
  ASSUME Types, Separate, NEW a \in Actors, NEW l, l \notin Watched, NEW j,
         pc' = [pc EXCEPT ![a] = l], job' = [job EXCEPT ![a] = j],
         UNCHANGED <<status, chunks, transaction>>
  PROVE  Separate'
<1>1. /\ crossed' = crossed
      /\ \A b \in Actors \ {a} : loaded'[b] = loaded[b] /\ seen'[b] = seen[b]
  BY DEF transaction
<1>2. \A b \in Actors \ {a} : Spares(b)
  BY DEF Spares
<1> QED
  BY <1>1, <1>2, SeparateMoves

\* Every step keeps what the open transactions have read as true as it was.
LEMMA SeparateStep ==
  ASSUME Types, Separate, [Next]_vars
  PROVE  Separate'
<1> USE ActorsDisjoint DEF rows, qdrant, control, reads, Goto, Processors, Actors
<1>1. CASE UNCHANGED vars
  BY <1>1 DEF vars, transaction, Separate, Exclusive, Previewed, LoadedHolds,
    ClearedHolds, Completing, Failing, Resetting, Crossed
<1>10. \A a \in Actors : job = [job EXCEPT ![a] = job[a]]
  BY DEF Types, TypeOK
<1>11. \A a \in Actors : pc[a] # "idle" => job[a] \in Sources
  BY DEF Types, Employed
<1>2. ASSUME NEW s \in Sources, Upload(s) PROVE Separate'
  <2>1. /\ UNCHANGED <<chunks, pc, job, loaded, seen, crossed>>
        /\ \A r \in Sources :
             /\ status[r] \in {"indexed", "deleted"} => status'[r] = status[r]
             /\ status'[r] = "indexed" => status[r] = "indexed"
    BY <1>2 DEF Upload, transaction, Types, TypeOK
  <2> QED
    BY <1>11, <2>1 DEF Separate, Exclusive, Previewed, LoadedHolds, ClearedHolds,
      Completing, Failing, Resetting, Crossed
<1>3. ASSUME NEW q \in Tasks, StartTask(q) PROVE Separate'
  <2>1. /\ \E l \in {"parse"} : pc' = [pc EXCEPT ![q] = l]
        /\ \E j : job' = [job EXCEPT ![q] = j]
        /\ UNCHANGED <<status, chunks, transaction>>
    BY <1>3, <1>10 DEF StartTask
  <2> QED
    BY <2>1, SeparateApart DEF Watched
<1>4. CASE PollWorker
  <2>1. /\ \E l \in {"parse"} : pc' = [pc EXCEPT ![Worker] = l]
        /\ \E j : job' = [job EXCEPT ![Worker] = j]
        /\ UNCHANGED <<status, chunks, transaction>>
    BY <1>4, <1>10 DEF PollWorker
  <2> QED
    BY <2>1, SeparateApart DEF Watched
<1>5. ASSUME NEW q \in Processors, Process(q) PROVE Separate'
  <2>1. CASE Parse(q)
    <3>1. CASE pc'[q] = "fail"
      <4>1. /\ pc' = [pc EXCEPT ![q] = "fail"]
            /\ job' = [job EXCEPT ![q] = job[q]]
            /\ UNCHANGED <<status, chunks, transaction>>
        BY <2>1, <3>1, <1>10 DEF Parse, Types, TypeOK
      <4> QED
        BY <4>1, SeparateApart DEF Watched
    <3>2. CASE pc'[q] # "fail"
      <4>1. /\ pc' = [pc EXCEPT ![q] =
                        IF job[q] \in SheetSources THEN "preview" ELSE "replace"]
            /\ UNCHANGED <<status, chunks, job, loaded, seen, crossed>>
        BY <2>1, <3>2 DEF Parse, Types, TypeOK, transaction
      <4>2. \A b \in Actors \ {q} : pc'[b] = pc[b]
        BY <4>1
      <4>3. pc'[q] = IF job[q] \in SheetSources THEN "preview" ELSE "replace"
        BY <4>1 DEF Types, TypeOK
      <4>4. Exclusive'
        BY <4>1, <4>2, <4>3 DEF Separate, Exclusive, Completing, Failing, Resetting
      <4>5. Previewed'
        BY <4>1, <4>2, <4>3 DEF Separate, Previewed, Completing
      <4>6. LoadedHolds'
        BY <4>1, <4>2, <4>3 DEF Separate, LoadedHolds, Completing, Failing, Resetting, Crossed
      <4>7. ClearedHolds'
        BY <4>1, <4>2, <4>3 DEF Separate, ClearedHolds
      <4> QED
        BY <4>4, <4>5, <4>6, <4>7 DEF Separate
    <3> QED
      BY <3>1, <3>2
  <2>2. CASE SavePreview(q)
    <3>1. /\ \E l \in {"idle", "fail"} : pc' = [pc EXCEPT ![q] = l]
          /\ \E j : job' = [job EXCEPT ![q] = j]
          /\ crossed' = crossed
      BY <2>2, <1>10 DEF SavePreview, Finish, transaction
    <3>2. \A b \in Actors \ {q} : loaded'[b] = loaded[b] /\ seen'[b] = seen[b]
      BY <2>2 DEF SavePreview, Finish, transaction, Types, TypeOK
    <3>3. pc[q] = "preview" /\ job[q] \in Sources
      BY <2>2, <1>11 DEF SavePreview
    <3>4. /\ \A r \in Sources \ {job[q]} : status'[r] = status[r] /\ chunks'[r] = chunks[r]
          /\ chunks' = chunks
          /\ status'[job[q]] \in {status[job[q]], "preview"}
      BY <2>2, <3>3 DEF SavePreview, Finish, Types, TypeOK
    <3>5. \A b \in Actors \ {q} : Spares(b)
      BY <3>3, <3>4, <1>11 DEF Spares, Separate, Previewed, Completing, Failing, Resetting
    <3> QED
      BY <3>1, <3>2, <3>5, SeparateMoves DEF Watched
  <2>3. CASE ReplaceChunks(q)
    <3>1. CASE Exists(job[q])
      <4>1. /\ pc[q] = "replace" /\ pc' = [pc EXCEPT ![q] = "clear"]
            /\ UNCHANGED <<status, chunks, job, seen>>
            /\ loaded' = [loaded EXCEPT ![q] = status[job[q]]]
            /\ LoadSource(q, "complete")
        BY <2>3, <3>1 DEF ReplaceChunks, LoadSource
      <4>2. /\ crossed \subseteq crossed'
            /\ \A b \in Actors : job[b] = job[q] =>
                 /\ Failing(b) => <<job[q], "fail">> \in crossed'
                 /\ Resetting(b) => <<job[q], "reindex">> \in crossed'
        BY <4>1 DEF LoadSource, Crosses, IsOpen, Open, Completing, Failing, Resetting
      <4>3. \A b \in Actors \ {q} : pc'[b] = pc[b] /\ loaded'[b] = loaded[b]
        BY <4>1
      <4>4. pc'[q] = "clear" /\ loaded'[q] = status[job[q]]
        BY <4>1 DEF Types, TypeOK
      <4>5. \A s : Crossed(s) => Crossed(s)'
        BY <4>2 DEF Crossed
      <4>6. Exclusive'
        BY <4>1, <4>2, <4>3, <4>4 DEF Separate, Exclusive, Completing, Failing, Resetting
      <4>7. Previewed'
        BY <4>1, <4>3, <4>4 DEF Separate, Previewed, Completing
      <4>8. LoadedHolds'
        BY <4>1, <4>2, <4>3, <4>4, <4>5 DEF Separate, LoadedHolds, Completing, Failing,
          Resetting
      <4>9. ClearedHolds'
        BY <4>1, <4>2, <4>3, <4>4 DEF Separate, ClearedHolds
      <4> QED
        BY <4>6, <4>7, <4>8, <4>9 DEF Separate
    <3>2. CASE ~Exists(job[q])
      <4>1. /\ pc' = [pc EXCEPT ![q] = "fail"]
            /\ \E j : job' = [job EXCEPT ![q] = j]
            /\ UNCHANGED <<status, chunks, transaction>>
        BY <2>3, <3>2, <1>10 DEF ReplaceChunks, LoadSource, transaction
      <4> QED
        BY <4>1, SeparateApart DEF Watched
    <3> QED
      BY <3>1, <3>2
  <2>4. CASE CompleteIndexing(q)
    <3>1. /\ \E l \in {"ensure", "fail"} : pc' = [pc EXCEPT ![q] = l]
          /\ \E j : job' = [job EXCEPT ![q] = j]
          /\ crossed' = crossed
      BY <2>4, <1>10 DEF CompleteIndexing, Completed, SetChunks, SetStatus, KeptRows, EndTransaction, transaction
    <3>2. \A b \in Actors \ {q} : loaded'[b] = loaded[b] /\ seen'[b] = seen[b]
      BY <2>4 DEF CompleteIndexing, Completed, SetChunks, SetStatus, KeptRows, EndTransaction, transaction, Types, TypeOK
    <3>3. pc[q] = "complete" /\ job[q] \in Sources
      BY <2>4, <1>11 DEF CompleteIndexing
    <3>4. /\ \A r \in Sources \ {job[q]} : status'[r] = status[r] /\ chunks'[r] = chunks[r]
          /\ status'[job[q]] \in {status[job[q]], "indexed"}
      BY <2>4, <3>3 DEF CompleteIndexing, Completed, SetChunks, SetStatus, KeptRows, EndTransaction, Types, TypeOK
    <3>5. \A b \in Actors \ {q} : Spares(b)
      BY <3>3, <3>4, <1>11 DEF Spares, Separate, Exclusive, Completing, Failing, Resetting
    <3> QED
      BY <3>1, <3>2, <3>5, SeparateMoves DEF Watched
  <2>5. CASE FailIndexing(q)
    <3>1. CASE Exists(job[q])
      <4>1. /\ pc[q] = "fail" /\ pc' = [pc EXCEPT ![q] = "failClear"]
            /\ UNCHANGED <<status, chunks, job, seen>>
            /\ loaded' = [loaded EXCEPT ![q] = status[job[q]]]
            /\ LoadSource(q, "fail")
        BY <2>5, <3>1 DEF FailIndexing, LoadSource, Finish
      <4>2. /\ crossed \subseteq crossed'
            /\ \A b \in Actors : job[b] = job[q] /\ Completing(b) =>
                 <<job[q], "fail">> \in crossed'
        BY <4>1 DEF LoadSource, Crosses, IsOpen, Open, Completing, Failing, Resetting
      <4>3. \A b \in Actors \ {q} : pc'[b] = pc[b] /\ loaded'[b] = loaded[b]
        BY <4>1
      <4>4. pc'[q] = "failClear" /\ loaded'[q] = status[job[q]]
        BY <4>1 DEF Types, TypeOK
      <4>5. \A s : Crossed(s) => Crossed(s)'
        BY <4>2 DEF Crossed
      <4>6. Exclusive'
        BY <4>1, <4>2, <4>3, <4>4 DEF Separate, Exclusive, Completing, Failing, Resetting
      <4>7. Previewed'
        BY <4>1, <4>3, <4>4 DEF Separate, Previewed, Completing
      <4>8. LoadedHolds'
        BY <4>1, <4>2, <4>3, <4>4, <4>5 DEF Separate, LoadedHolds, Completing, Failing,
          Resetting
      <4>9. ClearedHolds'
        BY <4>1, <4>2, <4>3, <4>4 DEF Separate, ClearedHolds
      <4> QED
        BY <4>6, <4>7, <4>8, <4>9 DEF Separate
    <3>2. CASE ~Exists(job[q])
      <4>1. /\ pc' = [pc EXCEPT ![q] = "idle"]
            /\ \E j : job' = [job EXCEPT ![q] = j]
            /\ UNCHANGED <<status, chunks, transaction>>
        BY <2>5, <3>2, <1>10 DEF FailIndexing, LoadSource, Finish, transaction
      <4> QED
        BY <4>1, SeparateApart DEF Watched
    <3> QED
      BY <3>1, <3>2
  <2>6. CASE EnsurePublication(q)
    <3>1. /\ \E l \in {"buildLock", "upsertLock", "recordFailure"} : pc' = [pc EXCEPT ![q] = l]
          /\ \E j : job' = [job EXCEPT ![q] = j]
          /\ UNCHANGED <<status, chunks, transaction>>
      BY <2>6, <1>10 DEF EnsurePublication
    <3> QED
      BY <3>1, SeparateApart DEF Watched
  <2>7. CASE LockForBuild(q)
    <3>1. /\ \E l \in {"buildRead", "recordFailure"} : pc' = [pc EXCEPT ![q] = l]
          /\ \E j : job' = [job EXCEPT ![q] = j]
          /\ UNCHANGED <<status, chunks, transaction>>
      BY <2>7, <1>10 DEF LockForBuild, Lock
    <3> QED
      BY <3>1, SeparateApart DEF Watched
  <2>8. CASE BuildRead(q)
    <3>1. /\ \E l \in {"publish"} : pc' = [pc EXCEPT ![q] = l]
          /\ \E j : job' = [job EXCEPT ![q] = j]
          /\ UNCHANGED <<status, chunks, transaction>>
      BY <2>8, <1>10 DEF BuildRead
    <3> QED
      BY <3>1, SeparateApart DEF Watched
  <2>9. CASE PublishBuild(q)
    <3>1. /\ \E l \in {"upsertLock", "recordFailure"} : pc' = [pc EXCEPT ![q] = l]
          /\ \E j : job' = [job EXCEPT ![q] = j]
          /\ UNCHANGED <<status, chunks, transaction>>
      BY <2>9, <1>10 DEF PublishBuild
    <3> QED
      BY <3>1, SeparateApart DEF Watched
  <2>10. CASE LockForUpsert(q)
    <3>1. /\ \E l \in {"readChunks", "recordFailure"} : pc' = [pc EXCEPT ![q] = l]
          /\ \E j : job' = [job EXCEPT ![q] = j]
          /\ UNCHANGED <<status, chunks, transaction>>
      BY <2>10, <1>10 DEF LockForUpsert, Lock
    <3> QED
      BY <3>1, SeparateApart DEF Watched
  <2>11. CASE ReadChunks(q)
    <3>1. /\ \E l \in {"unindex", "onFailure"} : pc' = [pc EXCEPT ![q] = l]
          /\ \E j : job' = [job EXCEPT ![q] = j]
          /\ UNCHANGED <<status, chunks, transaction>>
      BY <2>11, <1>10 DEF ReadChunks
    <3> QED
      BY <3>1, SeparateApart DEF Watched
  <2>12. CASE UnindexSource(q)
    <3>1. /\ \E l \in {"upsert", "onFailure"} : pc' = [pc EXCEPT ![q] = l]
          /\ \E j : job' = [job EXCEPT ![q] = j]
          /\ UNCHANGED <<status, chunks, transaction>>
      BY <2>12, <1>10 DEF UnindexSource
    <3> QED
      BY <3>1, SeparateApart DEF Watched
  <2>13. CASE UpsertSource(q)
    <3>1. /\ \E l \in {"finalize", "onFailure"} : pc' = [pc EXCEPT ![q] = l]
          /\ \E j : job' = [job EXCEPT ![q] = j]
          /\ UNCHANGED <<status, chunks, transaction>>
      BY <2>13, <1>10 DEF UpsertSource
    <3> QED
      BY <3>1, SeparateApart DEF Watched
  <2>14. CASE FinalizeIndex(q)
    <3>1. /\ \E l \in {"idle", "recordFailure"} : pc' = [pc EXCEPT ![q] = l]
          /\ \E j : job' = [job EXCEPT ![q] = j]
          /\ UNCHANGED <<status, chunks, transaction>>
      BY <2>14, <1>10 DEF FinalizeIndex, Finish
    <3> QED
      BY <3>1, SeparateApart DEF Watched
  <2>15. CASE OnFailure(q)
    <3>1. /\ \E l \in {"idle", "recordFailure"} : pc' = [pc EXCEPT ![q] = l]
          /\ \E j : job' = [job EXCEPT ![q] = j]
          /\ UNCHANGED <<status, chunks, transaction>>
      BY <2>15, <1>10 DEF OnFailure, RecordIndexFailure, Finish
    <3> QED
      BY <3>1, SeparateApart DEF Watched
  <2>16. CASE RecordFailure(q)
    <3>1. /\ \E l \in {"idle"} : pc' = [pc EXCEPT ![q] = l]
          /\ \E j : job' = [job EXCEPT ![q] = j]
          /\ UNCHANGED <<status, chunks, transaction>>
      BY <2>16, <1>10 DEF RecordFailure, RecordIndexFailure, Finish
    <3> QED
      BY <3>1, SeparateApart DEF Watched
  <2>17. CASE ClearReplaced(q)
    <3>1. /\ pc[q] = "clear" /\ pc' = [pc EXCEPT ![q] = "complete"]
          /\ UNCHANGED <<status, chunks, job, loaded, crossed>>
          /\ seen' = [seen EXCEPT ![q] = chunks[job[q]]]
      BY <2>17 DEF ClearReplaced, ClearChunks
    <3>2. \A b \in Actors \ {q} : pc'[b] = pc[b] /\ seen'[b] = seen[b]
      BY <3>1
    <3>3. pc'[q] = "complete" /\ seen'[q] = chunks[job[q]]
      BY <3>1 DEF Types, TypeOK
    <3>4. Exclusive'
      BY <3>1, <3>2, <3>3 DEF Separate, Exclusive, Completing, Failing, Resetting
    <3>5. Previewed'
      BY <3>1, <3>2, <3>3 DEF Separate, Previewed, Completing
    <3>6. LoadedHolds'
      BY <3>1, <3>2, <3>3 DEF Separate, LoadedHolds, Completing, Failing, Resetting, Crossed
    <3>7. ClearedHolds'
      BY <3>1, <3>2, <3>3 DEF Separate, ClearedHolds
    <3> QED
      BY <3>4, <3>5, <3>6, <3>7 DEF Separate
  <2>18. CASE ClearFailed(q)
    <3>1. /\ pc[q] = "failClear" /\ pc' = [pc EXCEPT ![q] = "failCommit"]
          /\ UNCHANGED <<status, chunks, job, loaded, crossed>>
          /\ seen' = [seen EXCEPT ![q] = chunks[job[q]]]
      BY <2>18 DEF ClearFailed, ClearChunks
    <3>2. \A b \in Actors \ {q} : pc'[b] = pc[b] /\ seen'[b] = seen[b]
      BY <3>1
    <3>3. pc'[q] = "failCommit" /\ seen'[q] = chunks[job[q]]
      BY <3>1 DEF Types, TypeOK
    <3>4. Exclusive'
      BY <3>1, <3>2, <3>3 DEF Separate, Exclusive, Completing, Failing, Resetting
    <3>5. Previewed'
      BY <3>1, <3>2, <3>3 DEF Separate, Previewed, Completing
    <3>6. LoadedHolds'
      BY <3>1, <3>2, <3>3 DEF Separate, LoadedHolds, Completing, Failing, Resetting, Crossed
    <3>7. ClearedHolds'
      BY <3>1, <3>2, <3>3 DEF Separate, ClearedHolds
    <3> QED
      BY <3>4, <3>5, <3>6, <3>7 DEF Separate
  <2>19. CASE CommitFailure(q)
    <3>1. /\ \E l \in {"idle"} : pc' = [pc EXCEPT ![q] = l]
          /\ \E j : job' = [job EXCEPT ![q] = j]
          /\ crossed' = crossed
      BY <2>19, <1>10 DEF CommitFailure, MarkSourceFailed, Finish, SetChunks, SetStatus, KeptRows, EndTransaction, transaction
    <3>2. \A b \in Actors \ {q} : loaded'[b] = loaded[b] /\ seen'[b] = seen[b]
      BY <2>19 DEF CommitFailure, MarkSourceFailed, Finish, SetChunks, SetStatus, KeptRows, EndTransaction, transaction, Types, TypeOK
    <3>3. pc[q] = "failCommit" /\ job[q] \in Sources
      BY <2>19, <1>11 DEF CommitFailure
    <3>4. /\ \A r \in Sources \ {job[q]} : status'[r] = status[r] /\ chunks'[r] = chunks[r]
          /\ chunks'[job[q]] \subseteq chunks[job[q]]
          /\ status'[job[q]] \in {status[job[q]], "failed"}
      BY <2>19, <3>3 DEF CommitFailure, MarkSourceFailed, Finish, SetChunks, SetStatus, KeptRows, EndTransaction, Types, TypeOK
    <3>5. \A b \in Actors \ {q} : Spares(b)
      BY <3>3, <3>4, <1>11 DEF Spares, Separate, Exclusive, Crossed, Completing, Failing,
        Resetting
    <3> QED
      BY <3>1, <3>2, <3>5, SeparateMoves DEF Watched
  <2> QED
    BY <1>5, <2>1, <2>2, <2>3, <2>4, <2>5, <2>6, <2>7, <2>8, <2>9, <2>10, <2>11,
        <2>12, <2>13, <2>14, <2>15, <2>16, <2>17, <2>18, <2>19 DEF Process
<1>6. ASSUME NEW d \in Clients, StartRequest(d) PROVE Separate'
  <2>1. /\ \E l \in {"delete", "reindex"} : pc' = [pc EXCEPT ![d] = l]
        /\ \E j : job' = [job EXCEPT ![d] = j]
        /\ UNCHANGED <<status, chunks, transaction>>
    BY <1>6, <1>10 DEF StartRequest
  <2> QED
    BY <2>1, SeparateApart DEF Watched
<1>7. ASSUME NEW d \in Clients, Request(d) PROVE Separate'
  <2>1. CASE LockForRequest(d)
    <3>1. /\ \E l \in {"deletePoints", "reindexPoints", "idle"} : pc' = [pc EXCEPT ![d] = l]
          /\ \E j : job' = [job EXCEPT ![d] = j]
          /\ UNCHANGED <<status, chunks, transaction>>
      BY <2>1, <1>10 DEF LockForRequest, Answer
    <3> QED
      BY <3>1, SeparateApart DEF Watched
  <2>2. CASE DiscardPoints(d)
    <3>1. /\ \E l \in {"deleteRow", "reindexRow", "idle"} : pc' = [pc EXCEPT ![d] = l]
          /\ \E j : job' = [job EXCEPT ![d] = j]
          /\ UNCHANGED <<status, chunks, transaction>>
      BY <2>2, <1>10 DEF DiscardPoints, Answer
    <3> QED
      BY <3>1, SeparateApart DEF Watched
  <2>3. CASE DeleteRow(d)
    <3>1. /\ \E l \in {"idle"} : pc' = [pc EXCEPT ![d] = l]
          /\ \E j : job' = [job EXCEPT ![d] = j]
          /\ crossed' = crossed
      BY <2>3, <1>10 DEF DeleteRow, Answer, transaction
    <3>2. \A b \in Actors \ {d} : loaded'[b] = loaded[b] /\ seen'[b] = seen[b]
      BY <2>3 DEF DeleteRow, Answer, transaction, Types, TypeOK
    <3>3. pc[d] = "deleteRow" /\ job[d] \in Sources
      BY <2>3, <1>11 DEF DeleteRow
    <3>4. /\ \A r \in Sources \ {job[d]} : status'[r] = status[r] /\ chunks'[r] = chunks[r]
          /\ chunks'[job[d]] \subseteq chunks[job[d]]
          /\ status'[job[d]] \in {status[job[d]], "deleted"}
      BY <2>3, <3>3 DEF DeleteRow, Answer, Types, TypeOK
    <3>5. \A b \in Actors \ {d} : Spares(b)
      BY <3>3, <3>4, <1>11 DEF Spares, Completing, Failing, Resetting
    <3> QED
      BY <3>1, <3>2, <3>5, SeparateMoves DEF Watched
  <2>4. CASE ReindexRow(d)
    <3>1. CASE Exists(job[d])
      <4>1. /\ pc[d] = "reindexRow" /\ pc' = [pc EXCEPT ![d] = "reindexClear"]
            /\ UNCHANGED <<status, chunks, job, seen>>
            /\ loaded' = [loaded EXCEPT ![d] = status[job[d]]]
            /\ LoadSource(d, "reindex")
        BY <2>4, <3>1 DEF ReindexRow, LoadSource, Answer
      <4>2. /\ crossed \subseteq crossed'
            /\ \A b \in Actors : job[b] = job[d] /\ Completing(b) =>
                 <<job[d], "reindex">> \in crossed'
        BY <4>1 DEF LoadSource, Crosses, IsOpen, Open, Completing, Failing, Resetting
      <4>3. \A b \in Actors \ {d} : pc'[b] = pc[b] /\ loaded'[b] = loaded[b]
        BY <4>1
      <4>4. pc'[d] = "reindexClear" /\ loaded'[d] = status[job[d]]
        BY <4>1 DEF Types, TypeOK
      <4>5. \A s : Crossed(s) => Crossed(s)'
        BY <4>2 DEF Crossed
      <4>6. Exclusive'
        BY <4>1, <4>2, <4>3, <4>4 DEF Separate, Exclusive, Completing, Failing, Resetting
      <4>7. Previewed'
        BY <4>1, <4>3, <4>4 DEF Separate, Previewed, Completing
      <4>8. LoadedHolds'
        BY <4>1, <4>2, <4>3, <4>4, <4>5 DEF Separate, LoadedHolds, Completing, Failing,
          Resetting
      <4>9. ClearedHolds'
        BY <4>1, <4>2, <4>3, <4>4 DEF Separate, ClearedHolds
      <4> QED
        BY <4>6, <4>7, <4>8, <4>9 DEF Separate
    <3>2. CASE ~Exists(job[d])
      <4>1. /\ pc' = [pc EXCEPT ![d] = "idle"]
            /\ \E j : job' = [job EXCEPT ![d] = j]
            /\ UNCHANGED <<status, chunks, transaction>>
        BY <2>4, <3>2, <1>10 DEF ReindexRow, LoadSource, Answer, transaction
      <4> QED
        BY <4>1, SeparateApart DEF Watched
    <3> QED
      BY <3>1, <3>2
  <2>5. CASE ClearReindexed(d)
    <3>1. /\ pc[d] = "reindexClear" /\ pc' = [pc EXCEPT ![d] = "reindexCommit"]
          /\ UNCHANGED <<status, chunks, job, loaded, crossed>>
          /\ seen' = [seen EXCEPT ![d] = chunks[job[d]]]
      BY <2>5 DEF ClearReindexed, ClearChunks
    <3>2. \A b \in Actors \ {d} : pc'[b] = pc[b] /\ seen'[b] = seen[b]
      BY <3>1
    <3>3. pc'[d] = "reindexCommit" /\ seen'[d] = chunks[job[d]]
      BY <3>1 DEF Types, TypeOK
    <3>4. Exclusive'
      BY <3>1, <3>2, <3>3 DEF Separate, Exclusive, Completing, Failing, Resetting
    <3>5. Previewed'
      BY <3>1, <3>2, <3>3 DEF Separate, Previewed, Completing
    <3>6. LoadedHolds'
      BY <3>1, <3>2, <3>3 DEF Separate, LoadedHolds, Completing, Failing, Resetting, Crossed
    <3>7. ClearedHolds'
      BY <3>1, <3>2, <3>3 DEF Separate, ClearedHolds
    <3> QED
      BY <3>4, <3>5, <3>6, <3>7 DEF Separate
  <2>6. CASE CommitReindex(d)
    <3>1. /\ \E l \in {"idle"} : pc' = [pc EXCEPT ![d] = l]
          /\ \E j : job' = [job EXCEPT ![d] = j]
          /\ crossed' = crossed
      BY <2>6, <1>10 DEF CommitReindex, Answer, SetChunks, SetStatus, KeptRows, EndTransaction, transaction
    <3>2. \A b \in Actors \ {d} : loaded'[b] = loaded[b] /\ seen'[b] = seen[b]
      BY <2>6 DEF CommitReindex, Answer, SetChunks, SetStatus, KeptRows, EndTransaction, transaction, Types, TypeOK
    <3>3. pc[d] = "reindexCommit" /\ job[d] \in Sources
      BY <2>6, <1>11 DEF CommitReindex
    <3>4. /\ \A r \in Sources \ {job[d]} : status'[r] = status[r] /\ chunks'[r] = chunks[r]
          /\ chunks'[job[d]] \subseteq chunks[job[d]]
          /\ status'[job[d]] \in {status[job[d]], "indexing"}
      BY <2>6, <3>3 DEF CommitReindex, Answer, SetChunks, SetStatus, KeptRows, EndTransaction, Types, TypeOK
    <3>5. \A b \in Actors \ {d} : Spares(b)
      BY <3>3, <3>4, <1>11 DEF Spares, Separate, Exclusive, Crossed, Completing, Failing,
        Resetting
    <3> QED
      BY <3>1, <3>2, <3>5, SeparateMoves DEF Watched
  <2> QED
    BY <1>7, <2>1, <2>2, <2>3, <2>4, <2>5, <2>6 DEF Request
<1>8. CASE CrashWorker \/ CrashApi
  <2>1. /\ UNCHANGED <<status, chunks, crossed>>
        /\ \A b \in Actors : pc'[b] # "idle" =>
             /\ pc'[b] = pc[b] /\ job'[b] = job[b]
             /\ loaded'[b] = loaded[b] /\ seen'[b] = seen[b]
    BY <1>8 DEF CrashWorker, CrashApi, Crash
  <2> USE <2>1 DEF Separate, Completing, Failing, Resetting, Crossed
  <2>2. Exclusive'
    BY DEF Exclusive
  <2>3. Previewed'
    BY DEF Previewed
  <2>4. LoadedHolds'
    BY DEF LoadedHolds
  <2>5. ClearedHolds'
    BY DEF ClearedHolds
  <2> QED
    BY <2>2, <2>3, <2>4, <2>5
<1> QED
  BY <1>1, <1>2, <1>3, <1>4, <1>5, <1>6, <1>7, <1>8 DEF Next

\* Every step keeps status and chunk rows in agreement.
LEMMA RowsStep ==
  ASSUME Types, Separate, Rows, [Next]_vars
  PROVE  Rows'
<1> USE DEF rows, reads, transaction
<1>9. ASSUME UNCHANGED <<status, chunks>>, crossed \subseteq crossed' PROVE Rows'
  BY <1>9 DEF Rows, StatusMatchesChunks, Crossed, Exists
<1>10. ASSUME NEW r \in Sources,
              \A s \in Sources \ {r} : status'[s] = status[s] /\ chunks'[s] = chunks[s],
              crossed \subseteq crossed',
              ~Crossed(r) =>
                /\ status'[r] = "indexed" => chunks'[r] # {}
                /\ status'[r] \in {"indexing", "failed"} => chunks'[r] = {},
              status'[r] \in {"absent", "deleted"} => chunks'[r] = {}
       PROVE  Rows'
  <2> SUFFICES ASSUME NEW s \in Sources
               PROVE  /\ ~Crossed(s)' =>
                           /\ status'[s] = "indexed" => chunks'[s] # {}
                           /\ status'[s] \in {"indexing", "failed"} => chunks'[s] = {}
                      /\ ~Exists(s)' => chunks'[s] = {}
    BY DEF Rows, StatusMatchesChunks
  <2>1. ~Crossed(s)' => ~Crossed(s)
    BY <1>10 DEF Crossed
  <2>2. CASE s = r
    BY <2>1, <2>2, <1>10 DEF Exists
  <2>3. CASE s # r
    BY <2>1, <2>3, <1>10 DEF Rows, StatusMatchesChunks, Exists
  <2> QED
    BY <2>2, <2>3
<1>11. \A a \in Actors : pc[a] # "idle" => job[a] \in Sources
  BY DEF Types, Employed
<1>1. CASE UNCHANGED vars
  BY <1>1, <1>9 DEF vars
<1>2. ASSUME NEW s \in Sources, Upload(s) PROVE Rows'
  <2>1. chunks[s] = {}
    BY <1>2 DEF Upload, Rows, Exists
  <2>2. status'[s] = "indexing" /\ chunks' = chunks /\ crossed' = crossed
    BY <1>2 DEF Upload, Types, TypeOK
  <2>3. \A r \in Sources \ {s} : status'[r] = status[r]
    BY <1>2 DEF Upload
  <2> QED
    BY <2>1, <2>2, <2>3, <1>10
<1>3. ASSUME NEW q \in Tasks, StartTask(q) PROVE Rows'
  BY <1>3, <1>9 DEF StartTask
<1>4. CASE PollWorker
  BY <1>4, <1>9 DEF PollWorker
<1>5. ASSUME NEW q \in Processors, Process(q) PROVE Rows'
  <2> q \in Actors
    BY DEF Actors
  <2>1. CASE Parse(q)
    BY <2>1, <1>9 DEF Parse
  <2>2. CASE SavePreview(q)
    <3>1. job[q] \in Sources /\ chunks' = chunks /\ crossed' = crossed
      BY <2>2, <1>11 DEF SavePreview
    <3>2. CASE UNCHANGED status
      BY <3>1, <3>2, <1>9
    <3>3. CASE Exists(job[q]) /\ status' = [status EXCEPT ![job[q]] = "preview"]
      <4>1. status'[job[q]] = "preview" /\ status'[job[q]] \notin {"absent", "deleted"}
        BY <3>1, <3>3 DEF Types, TypeOK, Exists
      <4>2. \A s \in Sources \ {job[q]} : status'[s] = status[s]
        BY <3>3
      <4> QED
        BY <3>1, <4>1, <4>2, <1>10
    <3> QED
      BY <2>2, <3>2, <3>3 DEF SavePreview
  <2>3. CASE ReplaceChunks(q)
    BY <2>3, <1>9 DEF ReplaceChunks, LoadSource
  <2>4. CASE CompleteIndexing(q)
    <3>1. pc[q] = "complete" /\ job[q] \in Sources /\ crossed' = crossed
      BY <2>4, <1>11 DEF CompleteIndexing
    <3>2. CASE UNCHANGED <<status, chunks>>
      BY <3>1, <3>2, <1>9
    <3>3. CASE Exists(job[q]) /\ Completed(q)
      <4>1. /\ chunks'[job[q]] = KeptRows(q) \cup {q}
            /\ \A s \in Sources \ {job[q]} : status'[s] = status[s] /\ chunks'[s] = chunks[s]
        BY <3>1, <3>3 DEF Completed, SetChunks, SetStatus, Types, TypeOK
      <4>2. ~Crossed(job[q]) => status'[job[q]] = "indexed"
        <5>1. CASE loaded[q] = "indexed"
          BY <3>1, <3>3, <5>1 DEF Completed, SetStatus, Exists, Separate, LoadedHolds,
            Completing
        <5>2. CASE loaded[q] # "indexed"
          BY <3>1, <3>3, <5>2 DEF Completed, SetStatus, Types, TypeOK
        <5> QED
          BY <5>1, <5>2
      <4>3. status'[job[q]] \notin {"absent", "deleted"}
        BY <3>1, <3>3 DEF Completed, SetStatus, Exists, Types, TypeOK
      <4>4. chunks'[job[q]] # {}
        BY <4>1
      <4> QED
        BY <3>1, <4>1, <4>2, <4>3, <4>4, <1>10
    <3> QED
      BY <2>4, <3>2, <3>3 DEF CompleteIndexing
  <2>5. CASE FailIndexing(q)
    BY <2>5, <1>9 DEF FailIndexing, LoadSource
  <2>6. CASE EnsurePublication(q)
    BY <2>6, <1>9 DEF EnsurePublication
  <2>7. CASE LockForBuild(q)
    BY <2>7, <1>9 DEF LockForBuild, Lock
  <2>8. CASE BuildRead(q)
    BY <2>8, <1>9 DEF BuildRead
  <2>9. CASE PublishBuild(q)
    BY <2>9, <1>9 DEF PublishBuild
  <2>10. CASE LockForUpsert(q)
    BY <2>10, <1>9 DEF LockForUpsert, Lock
  <2>11. CASE ReadChunks(q)
    BY <2>11, <1>9 DEF ReadChunks
  <2>12. CASE UnindexSource(q)
    BY <2>12, <1>9 DEF UnindexSource
  <2>13. CASE UpsertSource(q)
    BY <2>13, <1>9 DEF UpsertSource
  <2>14. CASE FinalizeIndex(q)
    BY <2>14, <1>9 DEF FinalizeIndex
  <2>15. CASE OnFailure(q)
    BY <2>15, <1>9 DEF OnFailure
  <2>16. CASE RecordFailure(q)
    BY <2>16, <1>9 DEF RecordFailure
  <2>17. CASE ClearReplaced(q)
    BY <2>17, <1>9 DEF ClearReplaced
  <2>18. CASE ClearFailed(q)
    BY <2>18, <1>9 DEF ClearFailed
  <2>19. CASE CommitFailure(q)
    <3>1. pc[q] = "failCommit" /\ job[q] \in Sources /\ crossed' = crossed
      BY <2>19, <1>11 DEF CommitFailure
    <3>2. CASE UNCHANGED <<status, chunks>>
      BY <3>1, <3>2, <1>9
    <3>3. CASE Exists(job[q]) /\ SetChunks(q, {}) /\ SetStatus(q, "failed")
      <4>1. /\ chunks'[job[q]] = chunks[job[q]] \ seen[q]
            /\ \A s \in Sources \ {job[q]} : status'[s] = status[s] /\ chunks'[s] = chunks[s]
        BY <3>1, <3>3 DEF SetChunks, SetStatus, KeptRows, Types, TypeOK
      <4>2. ~Crossed(job[q]) => chunks'[job[q]] = {} /\ status'[job[q]] # "indexed"
        <5>1. ~Crossed(job[q]) => chunks'[job[q]] = {}
          BY <3>1, <4>1 DEF Crossed, Separate, ClearedHolds
        <5>2. CASE loaded[q] = "failed"
          BY <3>1, <3>3, <5>1, <5>2 DEF SetStatus, Crossed, Separate, LoadedHolds, Failing
        <5>3. CASE loaded[q] # "failed"
          BY <3>1, <3>3, <5>1, <5>3 DEF SetStatus, Types, TypeOK
        <5> QED
          BY <5>2, <5>3
      <4>3. status'[job[q]] \notin {"absent", "deleted"}
        BY <3>1, <3>3 DEF SetStatus, Exists, Types, TypeOK
      <4> QED
        BY <3>1, <4>1, <4>2, <4>3, <1>10
    <3> QED
      BY <2>19, <3>2, <3>3 DEF CommitFailure, MarkSourceFailed
  <2> QED
    BY <1>5, <2>1, <2>2, <2>3, <2>4, <2>5, <2>6, <2>7, <2>8, <2>9, <2>10, <2>11,
        <2>12, <2>13, <2>14, <2>15, <2>16, <2>17, <2>18, <2>19 DEF Process
<1>6. ASSUME NEW d \in Clients, StartRequest(d) PROVE Rows'
  BY <1>6, <1>9 DEF StartRequest
<1>7. ASSUME NEW d \in Clients, Request(d) PROVE Rows'
  <2> d \in Actors
    BY DEF Actors
  <2>1. CASE LockForRequest(d)
    BY <2>1, <1>9 DEF LockForRequest
  <2>2. CASE DiscardPoints(d)
    BY <2>2, <1>9 DEF DiscardPoints
  <2>3. CASE DeleteRow(d)
    <3>1. job[d] \in Sources /\ crossed' = crossed
      BY <2>3, <1>11 DEF DeleteRow
    <3>2. CASE UNCHANGED rows
      BY <3>1, <3>2, <1>9
    <3>3. CASE /\ status' = [status EXCEPT ![job[d]] = "deleted"]
               /\ chunks' = [chunks EXCEPT ![job[d]] = {}]
      <4>1. status'[job[d]] = "deleted" /\ chunks'[job[d]] = {}
        BY <3>1, <3>3 DEF Types, TypeOK
      <4>2. \A s \in Sources \ {job[d]} : status'[s] = status[s] /\ chunks'[s] = chunks[s]
        BY <3>3
      <4> QED
        BY <3>1, <4>1, <4>2, <1>10
    <3> QED
      BY <2>3, <3>2, <3>3 DEF DeleteRow
  <2>4. CASE ReindexRow(d)
    BY <2>4, <1>9 DEF ReindexRow, LoadSource
  <2>5. CASE ClearReindexed(d)
    BY <2>5, <1>9 DEF ClearReindexed
  <2>6. CASE CommitReindex(d)
    <3>1. pc[d] = "reindexCommit" /\ job[d] \in Sources /\ crossed' = crossed
      BY <2>6, <1>11 DEF CommitReindex
    <3>2. CASE UNCHANGED <<status, chunks>>
      BY <3>1, <3>2, <1>9
    <3>3. CASE Exists(job[d]) /\ SetChunks(d, {}) /\ SetStatus(d, "indexing")
      <4>1. /\ chunks'[job[d]] = chunks[job[d]] \ seen[d]
            /\ \A s \in Sources \ {job[d]} : status'[s] = status[s] /\ chunks'[s] = chunks[s]
        BY <3>1, <3>3 DEF SetChunks, SetStatus, KeptRows, Types, TypeOK
      <4>2. ~Crossed(job[d]) => chunks'[job[d]] = {} /\ status'[job[d]] # "indexed"
        <5>1. ~Crossed(job[d]) => chunks'[job[d]] = {}
          BY <3>1, <4>1 DEF Crossed, Separate, ClearedHolds
        <5>2. CASE loaded[d] = "indexing"
          BY <3>1, <3>3, <5>1, <5>2 DEF SetStatus, Crossed, Separate, LoadedHolds, Resetting
        <5>3. CASE loaded[d] # "indexing"
          BY <3>1, <3>3, <5>1, <5>3 DEF SetStatus, Types, TypeOK
        <5> QED
          BY <5>2, <5>3
      <4>3. status'[job[d]] \notin {"absent", "deleted"}
        BY <3>1, <3>3 DEF SetStatus, Exists, Types, TypeOK
      <4> QED
        BY <3>1, <4>1, <4>2, <4>3, <1>10
    <3> QED
      BY <2>6, <3>2, <3>3 DEF CommitReindex
  <2> QED
    BY <1>7, <2>1, <2>2, <2>3, <2>4, <2>5, <2>6 DEF Request
<1>8. CASE CrashWorker \/ CrashApi
  BY <1>8, <1>9 DEF CrashWorker, CrashApi, Crash
<1> QED
  BY <1>1, <1>2, <1>3, <1>4, <1>5, <1>6, <1>7, <1>8 DEF Next

\* Every step keeps the fence with whoever is inside it.
LEMMA LockedStep ==
  ASSUME Types, Locked, [Next]_vars
  PROVE  Locked'
<1> USE ActorsDisjoint DEF Types, TypeOK, Stage, Employed, Processors, Actors,
    ProcessorPC, ClientPC, NoChunks, Locked, Holding, Indexing, Discarded, rows,
        qdrant, control, reads, transaction, bounds, Sound, Fault, Goto, Troubles
<1>1. CASE UNCHANGED vars
  BY <1>1, SMTT(60) DEF vars
<1>2. ASSUME NEW s \in Sources, Upload(s) PROVE Locked'
  BY <1>2, SMTT(60) DEF Upload
<1>3. ASSUME NEW q \in Tasks, StartTask(q) PROVE Locked'
  BY <1>3, SMTT(60) DEF StartTask
<1>4. CASE PollWorker
  BY <1>4, SMTT(60) DEF PollWorker, Candidates
<1>5. ASSUME NEW q \in Processors, Process(q) PROVE Locked'
  <2>1. CASE Parse(q)
    BY <2>1, SMTT(60) DEF Parse
  <2>2. CASE SavePreview(q)
    BY <2>2, SMTT(60) DEF SavePreview, Finish, Forget
  <2>3. CASE ReplaceChunks(q)
    BY <2>3, SMTT(60) DEF ReplaceChunks, LoadSource
  <2>4. CASE CompleteIndexing(q)
    BY <2>4, SMTT(60) DEF CompleteIndexing, Completed, SetChunks, SetStatus, KeptRows, EndTransaction
  <2>5. CASE FailIndexing(q)
    BY <2>5, SMTT(60) DEF FailIndexing, LoadSource, Finish, Forget
  <2>6. CASE EnsurePublication(q)
    BY <2>6, SMTT(60) DEF EnsurePublication
  <2>7. CASE LockForBuild(q)
    BY <2>7, SMTT(60) DEF LockForBuild, Lock, TakeLock
  <2>8. CASE BuildRead(q)
    BY <2>8, SMTT(60) DEF BuildRead
  <2>9. CASE PublishBuild(q)
    BY <2>9, SMTT(60) DEF PublishBuild, ReleaseLock, Forget
  <2>10. CASE LockForUpsert(q)
    BY <2>10, SMTT(60) DEF LockForUpsert, Lock, TakeLock
  <2>11. CASE ReadChunks(q)
    BY <2>11, SMTT(60) DEF ReadChunks
  <2>12. CASE UnindexSource(q)
    BY <2>12, SMTT(60) DEF UnindexSource, RemovePoints
  <2>13. CASE UpsertSource(q)
    BY <2>13, SMTT(60) DEF UpsertSource, Forget
  <2>14. CASE FinalizeIndex(q)
    BY <2>14, SMTT(60) DEF FinalizeIndex, ReleaseLock, Recorded, Finish, Forget
  <2>15. CASE OnFailure(q)
    BY <2>15, SMTT(60) DEF OnFailure, RecordIndexFailure, ReleaseLock, Recorded, Finish, Forget
  <2>16. CASE RecordFailure(q)
    BY <2>16, SMTT(60) DEF RecordFailure, RecordIndexFailure, Recorded, Finish, Forget
  <2>17. CASE ClearReplaced(q)
    BY <2>17, SMTT(60) DEF ClearReplaced, ClearChunks
  <2>18. CASE ClearFailed(q)
    BY <2>18, SMTT(60) DEF ClearFailed, ClearChunks
  <2>19. CASE CommitFailure(q)
    BY <2>19, SMTT(60) DEF CommitFailure, MarkSourceFailed, SetChunks, SetStatus, KeptRows,
        EndTransaction, Finish, Forget
  <2> QED
    BY <1>5, <2>1, <2>2, <2>3, <2>4, <2>5, <2>6, <2>7, <2>8, <2>9, <2>10, <2>11,
        <2>12, <2>13, <2>14, <2>15, <2>16, <2>17, <2>18, <2>19 DEF Process
<1>6. ASSUME NEW d \in Clients, StartRequest(d) PROVE Locked'
  BY <1>6, SMTT(60) DEF StartRequest
<1>7. ASSUME NEW d \in Clients, Request(d) PROVE Locked'
  <2>1. CASE LockForRequest(d)
    BY <2>1, SMTT(60) DEF LockForRequest, TakeLock, Answer
  <2>2. CASE DiscardPoints(d)
    BY <2>2, SMTT(60) DEF DiscardPoints, RemovePoints, Answer, ReleaseLock
  <2>3. CASE DeleteRow(d)
    BY <2>3, SMTT(60) DEF DeleteRow, ReleaseLock, Answer, Recorded
  <2>4. CASE ReindexRow(d)
    BY <2>4, SMTT(60) DEF ReindexRow, LoadSource, Answer, ReleaseLock
  <2>5. CASE ClearReindexed(d)
    BY <2>5, SMTT(60) DEF ClearReindexed, ClearChunks
  <2>6. CASE CommitReindex(d)
    BY <2>6, SMTT(60) DEF CommitReindex, SetChunks, SetStatus, KeptRows, EndTransaction,
        Answer, ReleaseLock
  <2> QED
    BY <1>7, <2>1, <2>2, <2>3, <2>4, <2>5, <2>6 DEF Request
<1>8. CASE CrashWorker \/ CrashApi
  BY <1>8, SMTT(60) DEF CrashWorker, CrashApi, Crash
<1> QED
  BY <1>1, <1>2, <1>3, <1>4, <1>5, <1>6, <1>7, <1>8 DEF Next

\* No step leaves or brings back anything of a deleted source.
LEMMA RemainsStep ==
  ASSUME Types, Rows, Locked, Remains, [Next]_vars
  PROVE  Remains'
<1> USE ActorsDisjoint DEF Types, TypeOK, Stage, Employed, Processors, Actors,
    ProcessorPC, ClientPC, NoChunks, Rows, Locked, Holding, Indexing, Discarded,
        Remains, Unpublished, DeletedLeavesNothing, IndexesExisting, BuildsExisting,
            DropsLast, Exists, rows, qdrant, control, reads, transaction, bounds, Sound, Fault,
                Goto, Troubles
<1>1. CASE UNCHANGED vars
  BY <1>1, SMTT(60) DEF vars
<1>2. ASSUME NEW s \in Sources, Upload(s) PROVE Remains'
  BY <1>2, SMTT(60) DEF Upload
<1>3. ASSUME NEW q \in Tasks, StartTask(q) PROVE Remains'
  BY <1>3, SMTT(60) DEF StartTask
<1>4. CASE PollWorker
  BY <1>4, SMTT(60) DEF PollWorker, Candidates
<1>5. ASSUME NEW q \in Processors, Process(q) PROVE Remains'
  <2>1. CASE Parse(q)
    BY <2>1, SMTT(60) DEF Parse
  <2>2. CASE SavePreview(q)
    BY <2>2, SMTT(60) DEF SavePreview, Finish, Forget
  <2>3. CASE ReplaceChunks(q)
    BY <2>3, SMTT(60) DEF ReplaceChunks, LoadSource
  <2>4. CASE CompleteIndexing(q)
    BY <2>4, SMTT(60) DEF CompleteIndexing, Completed, SetChunks, SetStatus, KeptRows, EndTransaction
  <2>5. CASE FailIndexing(q)
    BY <2>5, SMTT(60) DEF FailIndexing, LoadSource, Finish, Forget
  <2>6. CASE EnsurePublication(q)
    BY <2>6, SMTT(60) DEF EnsurePublication
  <2>7. CASE LockForBuild(q)
    BY <2>7, SMTT(60) DEF LockForBuild, Lock, TakeLock
  <2>8. CASE BuildRead(q)
    BY <2>8, SMTT(60) DEF BuildRead
  <2>9. CASE PublishBuild(q)
    BY <2>9, SMTT(60) DEF PublishBuild, ReleaseLock, Forget
  <2>10. CASE LockForUpsert(q)
    BY <2>10, SMTT(60) DEF LockForUpsert, Lock, TakeLock
  <2>11. CASE ReadChunks(q)
    BY <2>11, SMTT(60) DEF ReadChunks
  <2>12. CASE UnindexSource(q)
    BY <2>12, SMTT(60) DEF UnindexSource, RemovePoints
  <2>13. CASE UpsertSource(q)
    <3>1. /\ UNCHANGED <<status, chunks, record, index, lock, job>>
          /\ draft' = [draft EXCEPT ![q] = NoChunks]
          /\ pc[q] = "upsert"
          /\ pc' = [pc EXCEPT ![q] = "finalize"] \/ pc' = [pc EXCEPT ![q] = "onFailure"]
      BY <2>13 DEF UpsertSource, Forget
    <3>2. /\ lock = q /\ Exists(job[q]) /\ job[q] \in Sources
          /\ \A s \in Sources \ {job[q]} : points'[s] = points[s]
          /\ index = "live"
      <4>1. job[q] \in Sources
        BY <3>1
      <4> QED
        BY <2>13, <3>1, <4>1, SMTT(60) DEF UpsertSource, Forget
    <3>3. DeletedLeavesNothing'
      BY <3>1, <3>2
    <3>4. Unpublished'
      BY <3>1, <3>2
    <3>5. IndexesExisting' /\ BuildsExisting'
      BY <3>1, <3>2
    <3>6. DropsLast'
      BY <3>1, <3>2
    <3> QED
      BY <3>3, <3>4, <3>5, <3>6
  <2>14. CASE FinalizeIndex(q)
    BY <2>14, SMTT(60) DEF FinalizeIndex, ReleaseLock, Recorded, Finish, Forget
  <2>15. CASE OnFailure(q)
    BY <2>15, SMTT(60) DEF OnFailure, RecordIndexFailure, ReleaseLock, Recorded, Finish, Forget
  <2>16. CASE RecordFailure(q)
    BY <2>16, SMTT(60) DEF RecordFailure, RecordIndexFailure, Recorded, Finish, Forget
  <2>17. CASE ClearReplaced(q)
    BY <2>17, SMTT(60) DEF ClearReplaced, ClearChunks
  <2>18. CASE ClearFailed(q)
    BY <2>18, SMTT(60) DEF ClearFailed, ClearChunks
  <2>19. CASE CommitFailure(q)
    BY <2>19, SMTT(60) DEF CommitFailure, MarkSourceFailed, SetChunks, SetStatus, KeptRows,
        EndTransaction, Finish, Forget
  <2> QED
    BY <1>5, <2>1, <2>2, <2>3, <2>4, <2>5, <2>6, <2>7, <2>8, <2>9, <2>10, <2>11,
        <2>12, <2>13, <2>14, <2>15, <2>16, <2>17, <2>18, <2>19 DEF Process
<1>6. ASSUME NEW d \in Clients, StartRequest(d) PROVE Remains'
  BY <1>6, SMTT(60) DEF StartRequest
<1>7. ASSUME NEW d \in Clients, Request(d) PROVE Remains'
  <2>1. CASE LockForRequest(d)
    BY <2>1, SMTT(60) DEF LockForRequest, TakeLock, Answer
  <2>2. CASE DiscardPoints(d)
    BY <2>2, SMTT(60) DEF DiscardPoints, RemovePoints, Answer, ReleaseLock
  <2>3. CASE DeleteRow(d)
    BY <2>3, SMTT(60) DEF DeleteRow, ReleaseLock, Answer, Recorded
  <2>4. CASE ReindexRow(d)
    BY <2>4, SMTT(60) DEF ReindexRow, LoadSource, Answer, ReleaseLock
  <2>5. CASE ClearReindexed(d)
    BY <2>5, SMTT(60) DEF ClearReindexed, ClearChunks
  <2>6. CASE CommitReindex(d)
    BY <2>6, SMTT(60) DEF CommitReindex, SetChunks, SetStatus, KeptRows, EndTransaction,
        Answer, ReleaseLock
  <2> QED
    BY <1>7, <2>1, <2>2, <2>3, <2>4, <2>5, <2>6 DEF Request
<1>8. CASE CrashWorker \/ CrashApi
  BY <1>8, SMTT(60) DEF CrashWorker, CrashApi, Crash
<1> QED
  BY <1>1, <1>2, <1>3, <1>4, <1>5, <1>6, <1>7, <1>8 DEF Next

\* The parts of Current, when nothing failed or crashed.
AllCurrent ==
    UpsertsCurrent /\ BuildsCurrent /\ RecordedCurrent /\ ResetsCurrent /\ NothingLost

\* A step of an actor that is not inside the fence leaves the index current if
\* it does not give up a pending update, and changes the chunks of an indexed
\* source only when a pending update follows.
LEMMA CurrentApart ==
  ASSUME Types, AllCurrent, NEW a \in Actors, pc[a] \notin Holding,
         NEW l, l \notin Indexing \cup {"publish", "reindexCommit", "recordFailure"},
         NEW j, pc' = [pc EXCEPT ![a] = l], job' = [job EXCEPT ![a] = j],
         pc[a] \in Due => j = job[a] /\ l \in Due,
         \A b \in Actors \ {a} : seen'[b] = seen[b],
         \A b \in Processors \ {a} : draft'[b] = draft[b],
         UNCHANGED <<record, points>>,
         \A s \in Sources :
            \/ Pending(s)'
            \/ chunks'[s] = chunks[s] /\ (Untouched(s)' => Untouched(s))
            \/ chunks'[s] \subseteq chunks[s] /\ ~Untouched(s)'
  PROVE  AllCurrent'
<1>1. \A b \in Actors : b # a => pc'[b] = pc[b] /\ job'[b] = job[b]
  OBVIOUS
<1>2. pc'[a] = l /\ job'[a] = j
  BY DEF Types, TypeOK
<1>3. \A s : Pending(s) => Pending(s)'
  BY <1>1, <1>2 DEF Pending, Processors, Actors
<1>4. \A s : Changing(s) => Changing(s)'
  BY <1>1, <1>2 DEF Changing, Holding
<1> USE DEF AllCurrent
<1>6. UpsertsCurrent'
  <2> SUFFICES ASSUME NEW p \in Processors, NEW s \in Sources, pc'[p] \in Indexing,
                      job'[p] = s, Untouched(s)', ~Pending(s)'
               PROVE  Upserts(p, s)'
    BY DEF UpsertsCurrent
  <2>1. p # a /\ p \in Actors
    BY <1>2 DEF Actors
  <2>2. pc'[p] = pc[p] /\ job'[p] = job[p] /\ draft'[p] = draft[p]
    BY <2>1, <1>1
  <2>3. chunks'[s] = chunks[s] /\ Untouched(s) /\ ~Pending(s)
    BY <1>3
  <2>4. Upserts(p, s)
    BY <2>2, <2>3 DEF UpsertsCurrent
  <2> QED
    BY <2>2, <2>3, <2>4 DEF Upserts
<1>7. BuildsCurrent'
  <2> SUFFICES ASSUME NEW p \in Processors, NEW s \in Sources, pc'[p] = "publish",
                      Untouched(s)', ~Pending(s)'
               PROVE  draft'[p][s] = chunks'[s]
    BY DEF BuildsCurrent
  <2>1. p # a /\ p \in Actors
    BY <1>2 DEF Actors
  <2> QED
    BY <2>1, <1>1, <1>3 DEF BuildsCurrent
<1>8. RecordedCurrent'
  BY <1>3, <1>4 DEF RecordedCurrent
<1>9. ResetsCurrent'
  <2> SUFFICES ASSUME NEW c \in Clients, NEW s \in Sources, pc'[c] = "reindexCommit",
                      job'[c] = s, ~Pending(s)'
               PROVE  chunks'[s] \subseteq seen'[c]
    BY DEF ResetsCurrent
  <2>1. c # a /\ c \in Actors
    BY <1>2 DEF Actors
  <2>2. pc'[c] = pc[c] /\ job'[c] = job[c] /\ seen'[c] = seen[c]
    BY <2>1, <1>1
  <2> QED
    BY <2>2, <1>3 DEF ResetsCurrent
<1>10. NothingLost'
  BY <1>1, <1>2 DEF NothingLost
<1> QED
  BY <1>6, <1>7, <1>8, <1>9, <1>10

\* No step takes back a failed call or a crash.
LEMMA TroublesStay ==
  ASSUME Types, [Next]_vars, faults' + crashes' = 0
  PROVE  faults + crashes = 0 /\ ~Fault /\ ~CrashWorker /\ ~CrashApi
<1>1. ~Fault
  BY SMTT(60) DEF Fault, Types, TypeOK
<1>2. faults \in Nat /\ crashes \in Nat
  BY IngestionBounds, SMT DEF Types, TypeOK
<1>4. ~CrashWorker /\ ~CrashApi
  <2> SUFFICES ASSUME CrashWorker \/ CrashApi PROVE FALSE
    OBVIOUS
  <2>1. crashes' = crashes + 1 /\ UNCHANGED faults
    BY DEF CrashWorker, CrashApi, Crash
  <2> QED
    BY <2>1, <1>2, SMT
<1>3. UNCHANGED <<faults, crashes>>
  <2> USE <1>1 DEF Sound, bounds
  <2>1. CASE UNCHANGED vars
    BY <2>1 DEF vars
  <2>2. ASSUME NEW s \in Sources, Upload(s) PROVE UNCHANGED <<faults, crashes>>
    BY <2>2 DEF Upload
  <2>3. ASSUME NEW q \in Tasks, StartTask(q) PROVE UNCHANGED <<faults, crashes>>
    BY <2>3 DEF StartTask
  <2>4. CASE PollWorker
    BY <2>4 DEF PollWorker
  <2>5. ASSUME NEW q \in Processors, Process(q) PROVE UNCHANGED <<faults, crashes>>
    BY <2>5 DEF Process, Parse, SavePreview, ReplaceChunks, ClearReplaced,
      CompleteIndexing, FailIndexing, ClearFailed, CommitFailure, EnsurePublication,
      LockForBuild, Lock, BuildRead, PublishBuild, LockForUpsert, ReadChunks,
      UnindexSource, UpsertSource, FinalizeIndex, OnFailure, RecordFailure,
      RecordIndexFailure
  <2>6. ASSUME NEW d \in Clients, StartRequest(d) PROVE UNCHANGED <<faults, crashes>>
    BY <2>6 DEF StartRequest
  <2>7. ASSUME NEW d \in Clients, Request(d) PROVE UNCHANGED <<faults, crashes>>
    BY <2>7 DEF Request, LockForRequest, DiscardPoints, DeleteRow, ReindexRow,
      ClearReindexed, CommitReindex
  <2>8. ~CrashWorker /\ ~CrashApi
    BY <1>4
  <2> QED
    BY <2>1, <2>2, <2>3, <2>4, <2>5, <2>6, <2>7, <2>8 DEF Next
<1> QED
  BY <1>1, <1>2, <1>3, <1>4

\* Every step keeps the index current or somebody due to make it so.
LEMMA CurrentStep ==
  ASSUME Types, Separate, Locked, Remains, Current, [Next]_vars
  PROVE  Current'
<1> SUFFICES ASSUME faults' + crashes' = 0 PROVE AllCurrent'
  BY DEF Current, AllCurrent
<1>10. AllCurrent /\ ~Fault /\ ~CrashWorker /\ ~CrashApi
  BY TroublesStay DEF Current, AllCurrent
<1>11. \A a \in Actors : job = [job EXCEPT ![a] = job[a]]
  BY DEF Types, TypeOK
<1>12. \A a \in Actors : pc[a] # "idle" => job[a] \in Sources
  BY DEF Types, Employed
<1>13. \A a, b \in Actors : pc[a] \in Holding /\ pc[b] \in Holding => a = b
  BY DEF Locked
<1> USE ActorsDisjoint, <1>10
    DEF rows, qdrant, control, reads, transaction, Goto
<1>14. /\ \A q \in Processors : q \in Actors
       /\ \A d \in Clients : d \in Actors /\ d \notin Processors
       /\ Worker \in Processors /\ \A q \in Tasks : q \in Processors
  BY DEF Processors, Actors
<1>1. CASE UNCHANGED vars
  BY <1>1 DEF vars, AllCurrent, UpsertsCurrent, BuildsCurrent, RecordedCurrent,
    ResetsCurrent, NothingLost, Pending, Changing, Upserts, Untouched
<1>2. ASSUME NEW s \in Sources, Upload(s) PROVE AllCurrent'
  <2>1. /\ UNCHANGED <<chunks, record, points, draft, seen, crossed, pc, job>>
        /\ \A r \in Sources : status'[r] = "indexed" => status[r] = "indexed"
    BY <1>2 DEF Upload, Types, TypeOK
  <2> QED
    BY <2>1 DEF AllCurrent, UpsertsCurrent, BuildsCurrent, RecordedCurrent,
      ResetsCurrent, NothingLost, Pending, Changing, Upserts, Untouched
<1>3. ASSUME NEW q \in Tasks, StartTask(q) PROVE AllCurrent'
  <2>1. /\ pc[q] \in {"idle"}
        /\ \E l \in {"parse"} : pc' = [pc EXCEPT ![q] = l]
        /\ \E j : job' = [job EXCEPT ![q] = j]
        /\ UNCHANGED <<record, points>>
    BY <1>3, <1>11, <1>14 DEF StartTask
  <2>2. /\ \A b \in Actors \ {q} : seen'[b] = seen[b]
        /\ \A b \in Processors \ {q} : draft'[b] = draft[b]
    BY <1>3, <1>14 DEF StartTask, Types, TypeOK
  <2>3. \A s \in Sources : chunks'[s] = chunks[s] /\ (Untouched(s)' => Untouched(s))
    BY <1>3, <1>14 DEF StartTask, Untouched, Types, TypeOK
  <2>4. PICK l \in {"parse"} : pc' = [pc EXCEPT ![q] = l]
    BY <2>1
  <2>5. PICK j : job' = [job EXCEPT ![q] = j]
    BY <2>1
  <2> QED
    BY <2>1, <2>2, <2>3, <2>4, <2>5, <1>14, CurrentApart DEF Holding, Indexing, Discarded, Due
<1>4. CASE PollWorker
  <2>1. /\ pc[Worker] \in {"idle"}
        /\ \E l \in {"parse"} : pc' = [pc EXCEPT ![Worker] = l]
        /\ \E j : job' = [job EXCEPT ![Worker] = j]
        /\ UNCHANGED <<record, points>>
    BY <1>4, <1>11, <1>14 DEF PollWorker
  <2>2. /\ \A b \in Actors \ {Worker} : seen'[b] = seen[b]
        /\ \A b \in Processors \ {Worker} : draft'[b] = draft[b]
    BY <1>4, <1>14 DEF PollWorker, Types, TypeOK
  <2>3. \A s \in Sources : chunks'[s] = chunks[s] /\ (Untouched(s)' => Untouched(s))
    BY <1>4, <1>14 DEF PollWorker, Untouched, Types, TypeOK
  <2>4. PICK l \in {"parse"} : pc' = [pc EXCEPT ![Worker] = l]
    BY <2>1
  <2>5. PICK j : job' = [job EXCEPT ![Worker] = j]
    BY <2>1
  <2> QED
    BY <2>1, <2>2, <2>3, <2>4, <2>5, <1>14, CurrentApart DEF Holding, Indexing, Discarded, Due
<1>5. ASSUME NEW q \in Processors, Process(q) PROVE AllCurrent'
  <2> q \in Actors /\ q \in Processors
    BY <1>14
  <2>1. CASE Parse(q)
    <3>1. /\ pc[q] \in {"parse"}
          /\ \E l \in {"preview", "replace", "fail"} : pc' = [pc EXCEPT ![q] = l]
          /\ \E j : job' = [job EXCEPT ![q] = j]
          /\ UNCHANGED <<record, points>>
      BY <2>1, <1>11, <1>14 DEF Parse
    <3>2. /\ \A b \in Actors \ {q} : seen'[b] = seen[b]
          /\ \A b \in Processors \ {q} : draft'[b] = draft[b]
      BY <2>1, <1>14 DEF Parse, Types, TypeOK
    <3>3. \A s \in Sources : chunks'[s] = chunks[s] /\ (Untouched(s)' => Untouched(s))
      BY <2>1, <1>14 DEF Parse, Untouched, Types, TypeOK
    <3>4. PICK l \in {"preview", "replace", "fail"} : pc' = [pc EXCEPT ![q] = l]
      BY <3>1
    <3>5. PICK j : job' = [job EXCEPT ![q] = j]
      BY <3>1
    <3> QED
      BY <3>1, <3>2, <3>3, <3>4, <3>5, <1>14, CurrentApart DEF Holding, Indexing, Discarded, Due
  <2>2. CASE SavePreview(q)
    <3>1. /\ pc[q] \in {"preview"}
          /\ \E l \in {"idle", "fail"} : pc' = [pc EXCEPT ![q] = l]
          /\ \E j : job' = [job EXCEPT ![q] = j]
          /\ UNCHANGED <<record, points>>
      BY <2>2, <1>11, <1>14 DEF SavePreview, Finish, Forget
    <3>2. /\ \A b \in Actors \ {q} : seen'[b] = seen[b]
          /\ \A b \in Processors \ {q} : draft'[b] = draft[b]
      BY <2>2, <1>14 DEF SavePreview, Finish, Forget, Types, TypeOK
    <3>3. \A s \in Sources : chunks'[s] = chunks[s] /\ (Untouched(s)' => Untouched(s))
      BY <2>2, <1>14 DEF SavePreview, Finish, Forget, Untouched, Types, TypeOK
    <3>4. PICK l \in {"idle", "fail"} : pc' = [pc EXCEPT ![q] = l]
      BY <3>1
    <3>5. PICK j : job' = [job EXCEPT ![q] = j]
      BY <3>1
    <3> QED
      BY <3>1, <3>2, <3>3, <3>4, <3>5, <1>14, CurrentApart DEF Holding, Indexing, Discarded, Due
  <2>3. CASE ReplaceChunks(q)
    <3>1. /\ pc[q] \in {"replace"}
          /\ \E l \in {"clear", "fail"} : pc' = [pc EXCEPT ![q] = l]
          /\ \E j : job' = [job EXCEPT ![q] = j]
          /\ UNCHANGED <<record, points>>
      BY <2>3, <1>11, <1>14 DEF ReplaceChunks, LoadSource
    <3>2. /\ \A b \in Actors \ {q} : seen'[b] = seen[b]
          /\ \A b \in Processors \ {q} : draft'[b] = draft[b]
      BY <2>3, <1>14 DEF ReplaceChunks, LoadSource, Types, TypeOK
    <3>3. \A s \in Sources : chunks'[s] = chunks[s] /\ (Untouched(s)' => Untouched(s))
      BY <2>3, <1>14 DEF ReplaceChunks, LoadSource, Untouched, Types, TypeOK
    <3>4. PICK l \in {"clear", "fail"} : pc' = [pc EXCEPT ![q] = l]
      BY <3>1
    <3>5. PICK j : job' = [job EXCEPT ![q] = j]
      BY <3>1
    <3> QED
      BY <3>1, <3>2, <3>3, <3>4, <3>5, <1>14, CurrentApart DEF Holding, Indexing, Discarded, Due
  <2>4. CASE CompleteIndexing(q)
    <3>1. /\ pc[q] \in {"complete"}
          /\ \E l \in {"ensure", "fail"} : pc' = [pc EXCEPT ![q] = l]
          /\ \E j : job' = [job EXCEPT ![q] = j]
          /\ UNCHANGED <<record, points>>
      BY <2>4, <1>11, <1>14 DEF CompleteIndexing, EndTransaction, Completed
    <3>2. /\ \A b \in Actors \ {q} : seen'[b] = seen[b]
          /\ \A b \in Processors \ {q} : draft'[b] = draft[b]
      BY <2>4, <1>14 DEF CompleteIndexing, EndTransaction, Completed, Types, TypeOK
    <3>3. ASSUME NEW s \in Sources
          PROVE  \/ Pending(s)'
                 \/ chunks'[s] = chunks[s] /\ (Untouched(s)' => Untouched(s))
      <4>1. CASE UNCHANGED <<status, chunks>>
        BY <2>4, <4>1 DEF CompleteIndexing, Untouched
      <4>2. CASE s # job[q]
        BY <2>4, <4>2 DEF CompleteIndexing, Completed, SetChunks, SetStatus, Untouched,
          Types, TypeOK
      <4>3. CASE s = job[q] /\ ~UNCHANGED <<status, chunks>>
        <5>1. pc' = [pc EXCEPT ![q] = "ensure"] /\ UNCHANGED job
          BY <2>4, <4>3 DEF CompleteIndexing
        <5> QED
          BY <4>3, <5>1 DEF Pending, Due, Types, TypeOK
      <4> QED
        BY <4>1, <4>2, <4>3
    <3>4. PICK l \in {"ensure", "fail"} : pc' = [pc EXCEPT ![q] = l]
      BY <3>1
    <3>5. PICK j : job' = [job EXCEPT ![q] = j]
      BY <3>1
    <3> QED
      BY <3>1, <3>2, <3>3, <3>4, <3>5, <1>14, CurrentApart DEF Holding, Indexing, Discarded, Due
  <2>5. CASE FailIndexing(q)
    <3>1. /\ pc[q] \in {"fail"}
          /\ \E l \in {"failClear", "idle"} : pc' = [pc EXCEPT ![q] = l]
          /\ \E j : job' = [job EXCEPT ![q] = j]
          /\ UNCHANGED <<record, points>>
      BY <2>5, <1>11, <1>14 DEF FailIndexing, LoadSource, Finish, Forget
    <3>2. /\ \A b \in Actors \ {q} : seen'[b] = seen[b]
          /\ \A b \in Processors \ {q} : draft'[b] = draft[b]
      BY <2>5, <1>14 DEF FailIndexing, LoadSource, Finish, Forget, Types, TypeOK
    <3>3. \A s \in Sources : chunks'[s] = chunks[s] /\ (Untouched(s)' => Untouched(s))
      BY <2>5, <1>14 DEF FailIndexing, LoadSource, Finish, Forget, Untouched, Types, TypeOK
    <3>4. PICK l \in {"failClear", "idle"} : pc' = [pc EXCEPT ![q] = l]
      BY <3>1
    <3>5. PICK j : job' = [job EXCEPT ![q] = j]
      BY <3>1
    <3> QED
      BY <3>1, <3>2, <3>3, <3>4, <3>5, <1>14, CurrentApart DEF Holding, Indexing, Discarded, Due
  <2>6. CASE EnsurePublication(q)
    <3>1. /\ pc[q] \in {"ensure"}
          /\ \E l \in {"buildLock", "upsertLock"} : pc' = [pc EXCEPT ![q] = l]
          /\ UNCHANGED job
          /\ UNCHANGED <<record, points>>
      BY <2>6, <1>11, <1>14 DEF EnsurePublication
    <3>2. /\ \A b \in Actors \ {q} : seen'[b] = seen[b]
          /\ \A b \in Processors \ {q} : draft'[b] = draft[b]
      BY <2>6, <1>14 DEF EnsurePublication, Types, TypeOK
    <3>3. \A s \in Sources : chunks'[s] = chunks[s] /\ (Untouched(s)' => Untouched(s))
      BY <2>6, <1>14 DEF EnsurePublication, Untouched, Types, TypeOK
    <3>4. job' = [job EXCEPT ![q] = job[q]]
      BY <3>1, <1>11
    <3>5. PICK l \in {"buildLock", "upsertLock"} : pc' = [pc EXCEPT ![q] = l]
      BY <3>1
    <3> QED
      BY <3>1, <3>2, <3>3, <3>4, <3>5, <1>14, CurrentApart DEF Holding, Indexing, Discarded, Due
  <2>7. CASE LockForBuild(q)
    <3>1. /\ pc[q] \in {"buildLock"}
          /\ \E l \in {"buildRead"} : pc' = [pc EXCEPT ![q] = l]
          /\ UNCHANGED job
          /\ UNCHANGED <<record, points>>
      BY <2>7, <1>11, <1>14 DEF LockForBuild, Lock
    <3>2. /\ \A b \in Actors \ {q} : seen'[b] = seen[b]
          /\ \A b \in Processors \ {q} : draft'[b] = draft[b]
      BY <2>7, <1>14 DEF LockForBuild, Lock, Types, TypeOK
    <3>3. \A s \in Sources : chunks'[s] = chunks[s] /\ (Untouched(s)' => Untouched(s))
      BY <2>7, <1>14 DEF LockForBuild, Lock, Untouched, Types, TypeOK
    <3>4. job' = [job EXCEPT ![q] = job[q]]
      BY <3>1, <1>11
    <3>5. PICK l \in {"buildRead"} : pc' = [pc EXCEPT ![q] = l]
      BY <3>1
    <3> QED
      BY <3>1, <3>2, <3>3, <3>4, <3>5, <1>14, CurrentApart DEF Holding, Indexing, Discarded, Due
  <2>8. CASE BuildRead(q)
    <3>1. /\ UNCHANGED <<rows, qdrant, job, seen, crossed>>
          /\ pc[q] = "buildRead" /\ pc' = [pc EXCEPT ![q] = "publish"]
          /\ draft' = [draft EXCEPT ![q] = chunks] /\ draft'[q] = chunks
          /\ pc'[q] = "publish" /\ job[q] \in Sources
      BY <2>8, <1>12, <1>14 DEF BuildRead, Types, TypeOK
    <3>2. pc[q] \in Holding /\ q \in Actors
      BY <3>1, <1>14 DEF Holding, Indexing, Discarded
    <3>3. \A b \in Actors \ {q} :
            pc[b] \notin Holding /\ pc'[b] = pc[b] /\ job'[b] = job[b]
      BY <3>1, <3>2, <1>13
    <3>4. \A s \in Sources \ {job[q]} :
            Pending(s) => Pending(s)'
      BY <3>1, <3>3 DEF Pending, Processors, Actors
    <3>5. \A s \in Sources \ {job[q]} : ~Changing(s)
      BY <3>1, <3>3 DEF Changing, Holding
    <3> USE <3>1, <3>2, <3>3, <3>4, <3>5, <1>14
    <3>6. UpsertsCurrent' /\ BuildsCurrent' /\ ResetsCurrent' /\ NothingLost'
      BY DEF UpsertsCurrent, BuildsCurrent, ResetsCurrent, NothingLost,
        AllCurrent, Pending, Changing, Upserts, Untouched, Holding, Indexing, Discarded,
        Due
    <3>7. RecordedCurrent'
      BY DEF RecordedCurrent, AllCurrent, Pending, Changing, Upserts, Untouched, Holding, Indexing, Discarded,
        Due
    <3> QED
      BY <3>6, <3>7 DEF AllCurrent
  <2>9. CASE PublishBuild(q)
    <3>1. /\ UNCHANGED <<rows, job, seen, crossed>>
          /\ pc[q] = "publish" /\ pc' = [pc EXCEPT ![q] = "upsertLock"]
          /\ points' = draft[q]
          /\ pc'[q] = "upsertLock" /\ job[q] \in Sources
      BY <2>9, <1>12, <1>14 DEF PublishBuild, Types, TypeOK
    <3>2. pc[q] \in Holding /\ q \in Actors
      BY <3>1, <1>14 DEF Holding, Indexing, Discarded
    <3>3. \A b \in Actors \ {q} :
            pc[b] \notin Holding /\ pc'[b] = pc[b] /\ job'[b] = job[b]
      BY <3>1, <3>2, <1>13
    <3>4. \A s \in Sources \ {job[q]} :
            Pending(s) => Pending(s)'
      BY <3>1, <3>3 DEF Pending, Processors, Actors
    <3>5. \A s \in Sources \ {job[q]} : ~Changing(s)
      BY <3>1, <3>3 DEF Changing, Holding
    <3> USE <3>1, <3>2, <3>3, <3>4, <3>5, <1>14
    <3>6. UpsertsCurrent' /\ BuildsCurrent' /\ ResetsCurrent' /\ NothingLost'
      BY DEF UpsertsCurrent, BuildsCurrent, ResetsCurrent, NothingLost,
        AllCurrent, Pending, Changing, Upserts, Untouched, Holding, Indexing, Discarded,
        Due
    <3>7. RecordedCurrent'
      <4> SUFFICES ASSUME NEW s \in Sources, Untouched(s)', ~Pending(s)'
                   PROVE  points'[s] = chunks'[s]
        BY DEF RecordedCurrent
      <4>1. Pending(s) => Pending(s)'
        BY DEF Pending, Due, Processors, Actors
      <4> QED
        BY <4>1 DEF AllCurrent, BuildsCurrent, Untouched
    <3> QED
      BY <3>6, <3>7 DEF AllCurrent
  <2>10. CASE LockForUpsert(q)
    <3>1. /\ pc[q] \in {"upsertLock"}
          /\ \E l \in {"readChunks"} : pc' = [pc EXCEPT ![q] = l]
          /\ UNCHANGED job
          /\ UNCHANGED <<record, points>>
      BY <2>10, <1>11, <1>14 DEF LockForUpsert, Lock
    <3>2. /\ \A b \in Actors \ {q} : seen'[b] = seen[b]
          /\ \A b \in Processors \ {q} : draft'[b] = draft[b]
      BY <2>10, <1>14 DEF LockForUpsert, Lock, Types, TypeOK
    <3>3. \A s \in Sources : chunks'[s] = chunks[s] /\ (Untouched(s)' => Untouched(s))
      BY <2>10, <1>14 DEF LockForUpsert, Lock, Untouched, Types, TypeOK
    <3>4. job' = [job EXCEPT ![q] = job[q]]
      BY <3>1, <1>11
    <3>5. PICK l \in {"readChunks"} : pc' = [pc EXCEPT ![q] = l]
      BY <3>1
    <3> QED
      BY <3>1, <3>2, <3>3, <3>4, <3>5, <1>14, CurrentApart DEF Holding, Indexing, Discarded, Due
  <2>11. CASE ReadChunks(q)
    <3>1. /\ UNCHANGED <<rows, qdrant, job, seen, crossed>>
          /\ pc[q] = "readChunks" /\ job[q] \in Sources
          /\ \A b \in Actors \ {q} : pc'[b] = pc[b]
          /\ \A b \in Processors \ {q} : draft'[b] = draft[b]
          /\ \/ pc'[q] = "unindex" /\ draft'[q][job[q]] = chunks[job[q]]
             \/ pc'[q] = "onFailure"
      BY <2>11, <1>12, <1>14 DEF ReadChunks, NoChunks, Types, TypeOK
    <3>2. pc[q] \in Holding /\ q \in Actors
      BY <3>1, <1>14 DEF Holding, Indexing, Discarded
    <3>3. \A b \in Actors \ {q} :
            pc[b] \notin Holding /\ pc'[b] = pc[b] /\ job'[b] = job[b]
      BY <3>1, <3>2, <1>13
    <3>4. \A s \in Sources \ {job[q]} :
            Pending(s) => Pending(s)'
      BY <3>1, <3>3 DEF Pending, Processors, Actors
    <3>5. \A s \in Sources \ {job[q]} : ~Changing(s)
      BY <3>1, <3>3 DEF Changing, Holding
    <3> USE <3>1, <3>2, <3>3, <3>4, <3>5, <1>14
    <3>6. UpsertsCurrent' /\ BuildsCurrent' /\ ResetsCurrent' /\ NothingLost'
      BY DEF UpsertsCurrent, BuildsCurrent, ResetsCurrent, NothingLost,
        AllCurrent, Pending, Changing, Upserts, Untouched, Holding, Indexing, Discarded,
        Due
    <3>7. RecordedCurrent'
      <4> SUFFICES ASSUME NEW s \in Sources, Untouched(s)', record'[s] = "indexed",
                          ~Pending(s)', ~Changing(s)'
                   PROVE  points'[s] = chunks'[s]
        BY DEF RecordedCurrent
      <4>1. CASE s # job[q]
        BY <4>1 DEF AllCurrent, RecordedCurrent, Untouched
      <4>2. CASE s = job[q]
        BY <4>2 DEF Changing, Indexing, Discarded
      <4> QED
        BY <4>1, <4>2
    <3> QED
      BY <3>6, <3>7 DEF AllCurrent
  <2>12. CASE UnindexSource(q)
    <3>1. /\ UNCHANGED <<rows, draft, job, seen, crossed>>
          /\ pc[q] = "unindex" /\ pc' = [pc EXCEPT ![q] = "upsert"] /\ pc'[q] = "upsert"
          /\ job[q] \in Sources
          /\ points' = [points EXCEPT ![job[q]] = {}] /\ points'[job[q]] = {}
      BY <2>12, <1>12, <1>14 DEF UnindexSource, RemovePoints, Types, TypeOK
    <3>2. pc[q] \in Holding /\ q \in Actors
      BY <3>1, <1>14 DEF Holding, Indexing, Discarded
    <3>3. \A b \in Actors \ {q} :
            pc[b] \notin Holding /\ pc'[b] = pc[b] /\ job'[b] = job[b]
      BY <3>1, <3>2, <1>13
    <3>4. \A s \in Sources \ {job[q]} :
            Pending(s) => Pending(s)'
      BY <3>1, <3>3 DEF Pending, Processors, Actors
    <3>5. \A s \in Sources \ {job[q]} : ~Changing(s)
      BY <3>1, <3>3 DEF Changing, Holding
    <3> USE <3>1, <3>2, <3>3, <3>4, <3>5, <1>14
    <3>6. UpsertsCurrent' /\ BuildsCurrent' /\ ResetsCurrent' /\ NothingLost'
      BY DEF UpsertsCurrent, BuildsCurrent, ResetsCurrent, NothingLost,
        AllCurrent, Pending, Changing, Upserts, Untouched, Holding, Indexing, Discarded,
        Due
    <3>7. RecordedCurrent'
      <4> SUFFICES ASSUME NEW s \in Sources, Untouched(s)', record'[s] = "indexed",
                          ~Pending(s)', ~Changing(s)'
                   PROVE  points'[s] = chunks'[s]
        BY DEF RecordedCurrent
      <4>1. CASE s # job[q]
        BY <4>1 DEF AllCurrent, RecordedCurrent, Untouched
      <4>2. CASE s = job[q]
        BY <4>2 DEF Changing, Indexing, Discarded
      <4> QED
        BY <4>1, <4>2
    <3> QED
      BY <3>6, <3>7 DEF AllCurrent
  <2>13. CASE UpsertSource(q)
    <3>1. /\ UNCHANGED <<rows, job, seen, crossed>>
          /\ pc[q] = "upsert" /\ pc' = [pc EXCEPT ![q] = "finalize"] /\ pc'[q] = "finalize"
          /\ job[q] \in Sources
          /\ points' = [points EXCEPT ![job[q]] = @ \cup draft[q][job[q]]]
          /\ points'[job[q]] = points[job[q]] \cup draft[q][job[q]]
      BY <2>13, <1>12, <1>14 DEF UpsertSource, Types, TypeOK
    <3>2. pc[q] \in Holding /\ q \in Actors
      BY <3>1, <1>14 DEF Holding, Indexing, Discarded
    <3>3. \A b \in Actors \ {q} :
            pc[b] \notin Holding /\ pc'[b] = pc[b] /\ job'[b] = job[b]
      BY <3>1, <3>2, <1>13
    <3>4. \A s \in Sources \ {job[q]} :
            Pending(s) => Pending(s)'
      BY <3>1, <3>3 DEF Pending, Processors, Actors
    <3>5. \A s \in Sources \ {job[q]} : ~Changing(s)
      BY <3>1, <3>3 DEF Changing, Holding
    <3> USE <3>1, <3>2, <3>3, <3>4, <3>5, <1>14
    <3>6. BuildsCurrent' /\ ResetsCurrent' /\ NothingLost'
      BY DEF BuildsCurrent, ResetsCurrent, NothingLost,
        AllCurrent, Pending, Changing, Upserts, Untouched, Holding, Indexing, Discarded,
        Due
    <3>7. UpsertsCurrent'
      <4> SUFFICES ASSUME NEW p \in Processors, NEW s \in Sources, pc'[p] \in Indexing,
                          job'[p] = s, Untouched(s)', ~Pending(s)'
                   PROVE  Upserts(p, s)'
        BY DEF UpsertsCurrent
      <4>1. p = q /\ s = job[q]
        BY DEF Actors, Holding, Indexing
      <4>2. Pending(s) => Pending(s)'
        BY <4>1 DEF Pending, Due, Processors, Actors
      <4>3. Untouched(s)
        BY DEF Untouched
      <4>4. Upserts(q, s)
        BY <4>1, <4>2, <4>3 DEF AllCurrent, UpsertsCurrent, Indexing
      <4>5. points'[s] = chunks[s]
        BY <4>1, <4>4 DEF Upserts
      <4> QED
        BY <4>1, <4>5 DEF Upserts
    <3>8. RecordedCurrent'
      <4> SUFFICES ASSUME NEW s \in Sources, Untouched(s)', record'[s] = "indexed",
                          ~Pending(s)', ~Changing(s)'
                   PROVE  points'[s] = chunks'[s]
        BY DEF RecordedCurrent
      <4>1. CASE s # job[q]
        BY <4>1 DEF AllCurrent, RecordedCurrent, Untouched
      <4>2. CASE s = job[q]
        BY <4>2 DEF Changing, Indexing, Discarded
      <4> QED
        BY <4>1, <4>2
    <3> QED
      BY <3>6, <3>7, <3>8 DEF AllCurrent
  <2>14. CASE FinalizeIndex(q)
    <3>1. /\ UNCHANGED <<status, chunks, points, seen, crossed>>
          /\ pc[q] = "finalize" /\ pc' = [pc EXCEPT ![q] = "idle"] /\ pc'[q] = "idle"
          /\ job[q] \in Sources /\ job' = [job EXCEPT ![q] = None]
          /\ record' = [record EXCEPT ![job[q]] = "indexed"]
      BY <2>14, <1>12, <1>14 DEF FinalizeIndex, Recorded, Finish, Types, TypeOK
    <3>2. pc[q] \in Holding /\ q \in Actors
      BY <3>1, <1>14 DEF Holding, Indexing, Discarded
    <3>3. \A b \in Actors \ {q} :
            pc[b] \notin Holding /\ pc'[b] = pc[b] /\ job'[b] = job[b]
      BY <3>1, <3>2, <1>13
    <3>4. \A s \in Sources \ {job[q]} :
            Pending(s) => Pending(s)'
      BY <3>1, <3>3 DEF Pending, Processors, Actors
    <3>5. \A s \in Sources \ {job[q]} : ~Changing(s)
      BY <3>1, <3>3 DEF Changing, Holding
    <3> USE <3>1, <3>2, <3>3, <3>4, <3>5, <1>14
    <3>6. UpsertsCurrent' /\ BuildsCurrent' /\ ResetsCurrent' /\ NothingLost'
      BY DEF UpsertsCurrent, BuildsCurrent, ResetsCurrent, NothingLost,
        AllCurrent, Pending, Changing, Upserts, Untouched, Holding, Indexing, Discarded,
        Due
    <3>7. RecordedCurrent'
      <4> SUFFICES ASSUME NEW s \in Sources, Untouched(s)', record'[s] = "indexed",
                          ~Pending(s)', ~Changing(s)'
                   PROVE  points'[s] = chunks'[s]
        BY DEF RecordedCurrent
      <4>1. CASE s # job[q]
        BY <4>1 DEF AllCurrent, RecordedCurrent, Untouched
      <4>2. CASE s = job[q]
        <5>1. Pending(s) => Pending(s)'
          BY <4>2 DEF Pending, Due, Processors, Actors
        <5>2. Untouched(s)
          BY DEF Untouched
        <5> QED
          BY <4>2, <5>1, <5>2 DEF AllCurrent, UpsertsCurrent, Upserts, Indexing
      <4> QED
        BY <4>1, <4>2
    <3> QED
      BY <3>6, <3>7 DEF AllCurrent
  <2>15. CASE OnFailure(q)
    <3>1. /\ UNCHANGED <<status, chunks, points, seen, crossed>>
          /\ pc[q] = "onFailure" /\ pc' = [pc EXCEPT ![q] = "idle"] /\ pc'[q] = "idle"
          /\ job[q] \in Sources /\ job' = [job EXCEPT ![q] = None]
          /\ \A s \in Sources \ {job[q]} : record'[s] = record[s]
          /\ record'[job[q]] = "failed" \/ ~Exists(job[q])
      BY <2>15, <1>12, <1>14 DEF OnFailure, RecordIndexFailure, Recorded, Finish, Types, TypeOK
    <3>2. pc[q] \in Holding /\ q \in Actors
      BY <3>1, <1>14 DEF Holding, Indexing, Discarded
    <3>3. \A b \in Actors \ {q} :
            pc[b] \notin Holding /\ pc'[b] = pc[b] /\ job'[b] = job[b]
      BY <3>1, <3>2, <1>13
    <3>4. \A s \in Sources \ {job[q]} :
            Pending(s) => Pending(s)'
      BY <3>1, <3>3 DEF Pending, Processors, Actors
    <3>5. \A s \in Sources \ {job[q]} : ~Changing(s)
      BY <3>1, <3>3 DEF Changing, Holding
    <3> USE <3>1, <3>2, <3>3, <3>4, <3>5, <1>14
    <3>6. UpsertsCurrent' /\ BuildsCurrent' /\ ResetsCurrent' /\ NothingLost'
      BY DEF UpsertsCurrent, BuildsCurrent, ResetsCurrent, NothingLost,
        AllCurrent, Pending, Changing, Upserts, Untouched, Holding, Indexing, Discarded,
        Due
    <3>7. RecordedCurrent'
      <4> SUFFICES ASSUME NEW s \in Sources, Untouched(s)', record'[s] = "indexed",
                          ~Pending(s)', ~Changing(s)'
                   PROVE  points'[s] = chunks'[s]
        BY DEF RecordedCurrent
      <4>1. CASE s # job[q]
        BY <4>1 DEF AllCurrent, RecordedCurrent, Untouched
      <4>2. CASE s = job[q]
        BY <4>2 DEF Untouched, Exists
      <4> QED
        BY <4>1, <4>2
    <3> QED
      BY <3>6, <3>7 DEF AllCurrent
  <2>16. CASE RecordFailure(q)
    BY <2>16 DEF RecordFailure, AllCurrent, NothingLost
  <2>17. CASE ClearReplaced(q)
    <3>1. /\ pc[q] \in {"clear"}
          /\ \E l \in {"complete"} : pc' = [pc EXCEPT ![q] = l]
          /\ \E j : job' = [job EXCEPT ![q] = j]
          /\ UNCHANGED <<record, points>>
      BY <2>17, <1>11, <1>14 DEF ClearReplaced, ClearChunks
    <3>2. /\ \A b \in Actors \ {q} : seen'[b] = seen[b]
          /\ \A b \in Processors \ {q} : draft'[b] = draft[b]
      BY <2>17, <1>14 DEF ClearReplaced, ClearChunks, Types, TypeOK
    <3>3. \A s \in Sources : chunks'[s] = chunks[s] /\ (Untouched(s)' => Untouched(s))
      BY <2>17, <1>14 DEF ClearReplaced, ClearChunks, Untouched, Types, TypeOK
    <3>4. PICK l \in {"complete"} : pc' = [pc EXCEPT ![q] = l]
      BY <3>1
    <3>5. PICK j : job' = [job EXCEPT ![q] = j]
      BY <3>1
    <3> QED
      BY <3>1, <3>2, <3>3, <3>4, <3>5, <1>14, CurrentApart DEF Holding, Indexing, Discarded, Due
  <2>18. CASE ClearFailed(q)
    <3>1. /\ pc[q] \in {"failClear"}
          /\ \E l \in {"failCommit"} : pc' = [pc EXCEPT ![q] = l]
          /\ \E j : job' = [job EXCEPT ![q] = j]
          /\ UNCHANGED <<record, points>>
      BY <2>18, <1>11, <1>14 DEF ClearFailed, ClearChunks
    <3>2. /\ \A b \in Actors \ {q} : seen'[b] = seen[b]
          /\ \A b \in Processors \ {q} : draft'[b] = draft[b]
      BY <2>18, <1>14 DEF ClearFailed, ClearChunks, Types, TypeOK
    <3>3. \A s \in Sources : chunks'[s] = chunks[s] /\ (Untouched(s)' => Untouched(s))
      BY <2>18, <1>14 DEF ClearFailed, ClearChunks, Untouched, Types, TypeOK
    <3>4. PICK l \in {"failCommit"} : pc' = [pc EXCEPT ![q] = l]
      BY <3>1
    <3>5. PICK j : job' = [job EXCEPT ![q] = j]
      BY <3>1
    <3> QED
      BY <3>1, <3>2, <3>3, <3>4, <3>5, <1>14, CurrentApart DEF Holding, Indexing, Discarded, Due
  <2>19. CASE CommitFailure(q)
    <3>1. /\ pc[q] \in {"failCommit"}
          /\ \E l \in {"idle"} : pc' = [pc EXCEPT ![q] = l]
          /\ \E j : job' = [job EXCEPT ![q] = j]
          /\ UNCHANGED <<record, points>>
      BY <2>19, <1>11, <1>14 DEF CommitFailure, EndTransaction, Finish, Forget
    <3>2. /\ \A b \in Actors \ {q} : seen'[b] = seen[b]
          /\ \A b \in Processors \ {q} : draft'[b] = draft[b]
      BY <2>19, <1>14 DEF CommitFailure, EndTransaction, Finish, Forget, Types, TypeOK
    <3>3. ASSUME NEW s \in Sources
          PROVE  \/ chunks'[s] = chunks[s] /\ (Untouched(s)' => Untouched(s))
                 \/ chunks'[s] \subseteq chunks[s] /\ ~Untouched(s)'
      <4>1. crossed' = crossed /\ job[q] \in Sources
        BY <2>19, <1>12 DEF CommitFailure
      <4>2. CASE UNCHANGED <<status, chunks>>
        BY <4>1, <4>2 DEF Untouched
      <4>3. CASE MarkSourceFailed(q) /\ s # job[q]
        BY <4>1, <4>3 DEF MarkSourceFailed, SetChunks, SetStatus, Untouched, Types, TypeOK
      <4>4. CASE MarkSourceFailed(q) /\ s = job[q]
        <5>1. chunks'[s] \subseteq chunks[s]
          BY <4>1, <4>4 DEF MarkSourceFailed, SetChunks, KeptRows, Types, TypeOK
        <5>2. CASE loaded[q] = "failed"
          BY <2>19, <4>1, <4>4, <5>1, <5>2 DEF CommitFailure, MarkSourceFailed, SetStatus,
            Untouched, Separate, LoadedHolds, Failing
        <5>3. CASE loaded[q] # "failed"
          BY <4>1, <4>4, <5>1, <5>3 DEF MarkSourceFailed, SetStatus, Untouched, Types, TypeOK
        <5> QED
          BY <5>2, <5>3
      <4> QED
        BY <2>19, <4>2, <4>3, <4>4 DEF CommitFailure
    <3>4. PICK l \in {"idle"} : pc' = [pc EXCEPT ![q] = l]
      BY <3>1
    <3>5. PICK j : job' = [job EXCEPT ![q] = j]
      BY <3>1
    <3> QED
      BY <3>1, <3>2, <3>3, <3>4, <3>5, <1>14, CurrentApart DEF Holding, Indexing, Discarded, Due
  <2> QED
    BY <1>5, <2>1, <2>2, <2>3, <2>4, <2>5, <2>6, <2>7, <2>8, <2>9, <2>10, <2>11,
        <2>12, <2>13, <2>14, <2>15, <2>16, <2>17, <2>18, <2>19 DEF Process
<1>6. ASSUME NEW d \in Clients, StartRequest(d) PROVE AllCurrent'
  <2>1. /\ pc[d] \in {"idle"}
        /\ \E l \in {"delete", "reindex"} : pc' = [pc EXCEPT ![d] = l]
        /\ \E j : job' = [job EXCEPT ![d] = j]
        /\ UNCHANGED <<record, points>>
    BY <1>6, <1>11, <1>14 DEF StartRequest
  <2>2. /\ \A b \in Actors \ {d} : seen'[b] = seen[b]
        /\ \A b \in Processors \ {d} : draft'[b] = draft[b]
    BY <1>6, <1>14 DEF StartRequest, Types, TypeOK
  <2>3. \A s \in Sources : chunks'[s] = chunks[s] /\ (Untouched(s)' => Untouched(s))
    BY <1>6, <1>14 DEF StartRequest, Untouched, Types, TypeOK
  <2>4. PICK l \in {"delete", "reindex"} : pc' = [pc EXCEPT ![d] = l]
    BY <2>1
  <2>5. PICK j : job' = [job EXCEPT ![d] = j]
    BY <2>1
  <2> QED
    BY <2>1, <2>2, <2>3, <2>4, <2>5, <1>14, CurrentApart DEF Holding, Indexing, Discarded, Due
<1>7. ASSUME NEW d \in Clients, Request(d) PROVE AllCurrent'
  <2> d \in Actors /\ d \notin Processors
    BY <1>14
  <2>1. CASE LockForRequest(d)
    <3>1. /\ pc[d] \in {"delete", "reindex"}
          /\ \E l \in {"deletePoints", "reindexPoints"} : pc' = [pc EXCEPT ![d] = l]
          /\ \E j : job' = [job EXCEPT ![d] = j]
          /\ UNCHANGED <<record, points>>
      BY <2>1, <1>11, <1>14 DEF LockForRequest, Answer
    <3>2. /\ \A b \in Actors \ {d} : seen'[b] = seen[b]
          /\ \A b \in Processors \ {d} : draft'[b] = draft[b]
      BY <2>1, <1>14 DEF LockForRequest, Answer, Types, TypeOK
    <3>3. \A s \in Sources : chunks'[s] = chunks[s] /\ (Untouched(s)' => Untouched(s))
      BY <2>1, <1>14 DEF LockForRequest, Answer, Untouched, Types, TypeOK
    <3>4. PICK l \in {"deletePoints", "reindexPoints"} : pc' = [pc EXCEPT ![d] = l]
      BY <3>1
    <3>5. PICK j : job' = [job EXCEPT ![d] = j]
      BY <3>1
    <3> QED
      BY <3>1, <3>2, <3>3, <3>4, <3>5, <1>14, CurrentApart DEF Holding, Indexing, Discarded, Due
  <2>2. CASE DiscardPoints(d)
    <3>1. /\ UNCHANGED <<rows, draft, seen, crossed, job>>
          /\ pc[d] \in {"deletePoints", "reindexPoints"} /\ job[d] \in Sources
          /\ \E l \in {"deleteRow", "reindexRow"} :
               pc' = [pc EXCEPT ![d] = l] /\ pc'[d] = l
          /\ \A s \in Sources \ {job[d]} : points'[s] = points[s]
      BY <2>2, <1>12, <1>14 DEF DiscardPoints, RemovePoints, Types, TypeOK
    <3>2. pc[d] \in Holding /\ d \in Actors
      BY <3>1, <1>14 DEF Holding, Indexing, Discarded
    <3>3. \A b \in Actors \ {d} :
            pc[b] \notin Holding /\ pc'[b] = pc[b] /\ job'[b] = job[b]
      BY <3>1, <3>2, <1>13
    <3>4. \A s \in Sources \ {job[d]} :
            Pending(s) => Pending(s)'
      BY <3>1, <3>3 DEF Pending, Processors, Actors
    <3>5. \A s \in Sources \ {job[d]} : ~Changing(s)
      BY <3>1, <3>3 DEF Changing, Holding
    <3> USE <3>1, <3>2, <3>3, <3>4, <3>5, <1>14
    <3>6. UpsertsCurrent' /\ BuildsCurrent' /\ ResetsCurrent' /\ NothingLost'
      BY DEF UpsertsCurrent, BuildsCurrent, ResetsCurrent, NothingLost,
        AllCurrent, Pending, Changing, Upserts, Untouched, Holding, Indexing, Discarded,
        Due
    <3>7. RecordedCurrent'
      <4> SUFFICES ASSUME NEW s \in Sources, Untouched(s)', record'[s] = "indexed",
                          ~Pending(s)', ~Changing(s)'
                   PROVE  points'[s] = chunks'[s]
        BY DEF RecordedCurrent
      <4>1. CASE s # job[d]
        BY <4>1 DEF AllCurrent, RecordedCurrent, Untouched
      <4>2. CASE s = job[d]
        BY <4>2 DEF Changing, Indexing, Discarded
      <4> QED
        BY <4>1, <4>2
    <3> QED
      BY <3>6, <3>7 DEF AllCurrent
  <2>3. CASE DeleteRow(d)
    <3>1. /\ UNCHANGED <<points, draft, seen, crossed>>
          /\ pc[d] = "deleteRow" /\ job[d] \in Sources
          /\ pc' = [pc EXCEPT ![d] = "idle"] /\ pc'[d] = "idle"
          /\ job' = [job EXCEPT ![d] = None]
          /\ status'[job[d]] # "indexed"
          /\ \A s \in Sources \ {job[d]} :
               status'[s] = status[s] /\ chunks'[s] = chunks[s] /\ record'[s] = record[s]
      BY <2>3, <1>12, <1>14 DEF DeleteRow, Answer, Recorded, Exists, Types, TypeOK
    <3>2. pc[d] \in Holding /\ d \in Actors
      BY <3>1, <1>14 DEF Holding, Indexing, Discarded
    <3>3. \A b \in Actors \ {d} :
            pc[b] \notin Holding /\ pc'[b] = pc[b] /\ job'[b] = job[b]
      BY <3>1, <3>2, <1>13
    <3>4. \A s \in Sources \ {job[d]} :
            Pending(s) => Pending(s)'
      BY <3>1, <3>3 DEF Pending, Processors, Actors
    <3>5. \A s \in Sources \ {job[d]} : ~Changing(s)
      BY <3>1, <3>3 DEF Changing, Holding
    <3> USE <3>1, <3>2, <3>3, <3>4, <3>5, <1>14
    <3>6. UpsertsCurrent' /\ BuildsCurrent' /\ ResetsCurrent' /\ NothingLost'
      BY DEF UpsertsCurrent, BuildsCurrent, ResetsCurrent, NothingLost,
        AllCurrent, Pending, Changing, Upserts, Untouched, Holding, Indexing, Discarded,
        Due
    <3>7. RecordedCurrent'
      <4> SUFFICES ASSUME NEW s \in Sources, Untouched(s)', record'[s] = "indexed",
                          ~Pending(s)', ~Changing(s)'
                   PROVE  points'[s] = chunks'[s]
        BY DEF RecordedCurrent
      <4>1. CASE s # job[d]
        BY <4>1 DEF AllCurrent, RecordedCurrent, Untouched
      <4>2. CASE s = job[d]
        BY <4>2 DEF Untouched, Exists
      <4> QED
        BY <4>1, <4>2
    <3> QED
      BY <3>6, <3>7 DEF AllCurrent
  <2>4. CASE ReindexRow(d)
    <3>1. /\ UNCHANGED <<rows, qdrant, draft, seen>> /\ crossed \subseteq crossed'
          /\ pc[d] = "reindexRow" /\ job[d] \in Sources
          /\ \A b \in Actors \ {d} : pc'[b] = pc[b] /\ job'[b] = job[b]
          /\ \/ pc'[d] = "reindexClear" /\ job'[d] = job[d]
             \/ pc'[d] = "idle" /\ ~Exists(job[d])
      BY <2>4, <1>12, <1>14 DEF ReindexRow, LoadSource, Answer, Types, TypeOK
    <3>2. pc[d] \in Holding /\ d \in Actors
      BY <3>1, <1>14 DEF Holding, Indexing, Discarded
    <3>3. \A b \in Actors \ {d} :
            pc[b] \notin Holding /\ pc'[b] = pc[b] /\ job'[b] = job[b]
      BY <3>1, <3>2, <1>13
    <3>4. \A s \in Sources \ {job[d]} :
            Pending(s) => Pending(s)'
      BY <3>1, <3>3 DEF Pending, Processors, Actors
    <3>5. \A s \in Sources \ {job[d]} : ~Changing(s)
      BY <3>1, <3>3 DEF Changing, Holding
    <3> USE <3>1, <3>2, <3>3, <3>4, <3>5, <1>14
    <3>6. UpsertsCurrent' /\ BuildsCurrent' /\ ResetsCurrent' /\ NothingLost'
      BY DEF UpsertsCurrent, BuildsCurrent, ResetsCurrent, NothingLost,
        AllCurrent, Pending, Changing, Upserts, Untouched, Holding, Indexing, Discarded,
        Due
    <3>7. RecordedCurrent'
      <4> SUFFICES ASSUME NEW s \in Sources, Untouched(s)', record'[s] = "indexed",
                          ~Pending(s)', ~Changing(s)'
                   PROVE  points'[s] = chunks'[s]
        BY DEF RecordedCurrent
      <4>1. CASE s # job[d]
        BY <4>1 DEF AllCurrent, RecordedCurrent, Untouched
      <4>2. CASE s = job[d]
        BY <4>2 DEF Changing, Indexing, Discarded, Untouched, Exists
      <4> QED
        BY <4>1, <4>2
    <3> QED
      BY <3>6, <3>7 DEF AllCurrent
  <2>5. CASE ClearReindexed(d)
    <3>1. /\ UNCHANGED <<rows, qdrant, draft, crossed, job>>
          /\ pc[d] = "reindexClear" /\ job[d] \in Sources
          /\ pc' = [pc EXCEPT ![d] = "reindexCommit"] /\ pc'[d] = "reindexCommit"
          /\ seen'[d] = chunks[job[d]]
      BY <2>5, <1>12, <1>14 DEF ClearReindexed, ClearChunks, Types, TypeOK
    <3>2. pc[d] \in Holding /\ d \in Actors
      BY <3>1, <1>14 DEF Holding, Indexing, Discarded
    <3>3. \A b \in Actors \ {d} :
            pc[b] \notin Holding /\ pc'[b] = pc[b] /\ job'[b] = job[b]
      BY <3>1, <3>2, <1>13
    <3>4. \A s \in Sources \ {job[d]} :
            Pending(s) => Pending(s)'
      BY <3>1, <3>3 DEF Pending, Processors, Actors
    <3>5. \A s \in Sources \ {job[d]} : ~Changing(s)
      BY <3>1, <3>3 DEF Changing, Holding
    <3> USE <3>1, <3>2, <3>3, <3>4, <3>5, <1>14
    <3>6. UpsertsCurrent' /\ BuildsCurrent' /\ ResetsCurrent' /\ NothingLost'
      BY DEF UpsertsCurrent, BuildsCurrent, ResetsCurrent, NothingLost,
        AllCurrent, Pending, Changing, Upserts, Untouched, Holding, Indexing, Discarded,
        Due
    <3>7. RecordedCurrent'
      <4> SUFFICES ASSUME NEW s \in Sources, Untouched(s)', record'[s] = "indexed",
                          ~Pending(s)', ~Changing(s)'
                   PROVE  points'[s] = chunks'[s]
        BY DEF RecordedCurrent
      <4>1. CASE s # job[d]
        BY <4>1 DEF AllCurrent, RecordedCurrent, Untouched
      <4>2. CASE s = job[d]
        BY <4>2 DEF Changing, Indexing, Discarded
      <4> QED
        BY <4>1, <4>2
    <3> QED
      BY <3>6, <3>7 DEF AllCurrent
  <2>6. CASE CommitReindex(d)
    <3>1. /\ UNCHANGED <<record, qdrant, draft, crossed>>
          /\ pc[d] = "reindexCommit" /\ job[d] \in Sources
          /\ pc' = [pc EXCEPT ![d] = "idle"] /\ pc'[d] = "idle"
          /\ job' = [job EXCEPT ![d] = None]
          /\ points[job[d]] = {}
          /\ \/ UNCHANGED <<status, chunks>> /\ ~Exists(job[d])
             \/ Exists(job[d]) /\ chunks'[job[d]] = chunks[job[d]] \ seen[d]
          /\ \A s \in Sources \ {job[d]} : status'[s] = status[s] /\ chunks'[s] = chunks[s]
      BY <2>6, <1>12, <1>14 DEF CommitReindex, SetChunks, SetStatus, KeptRows, Answer, Remains,
          DropsLast, Discarded, Types, TypeOK
    <3>2. pc[d] \in Holding /\ d \in Actors
      BY <3>1, <1>14 DEF Holding, Indexing, Discarded
    <3>3. \A b \in Actors \ {d} :
            pc[b] \notin Holding /\ pc'[b] = pc[b] /\ job'[b] = job[b]
      BY <3>1, <3>2, <1>13
    <3>4. \A s \in Sources \ {job[d]} :
            Pending(s) => Pending(s)'
      BY <3>1, <3>3 DEF Pending, Processors, Actors
    <3>5. \A s \in Sources \ {job[d]} : ~Changing(s)
      BY <3>1, <3>3 DEF Changing, Holding
    <3> USE <3>1, <3>2, <3>3, <3>4, <3>5, <1>14
    <3>6. UpsertsCurrent' /\ BuildsCurrent' /\ ResetsCurrent' /\ NothingLost'
      BY DEF UpsertsCurrent, BuildsCurrent, ResetsCurrent, NothingLost,
        AllCurrent, Pending, Changing, Upserts, Untouched, Holding, Indexing, Discarded,
        Due
    <3>7. RecordedCurrent'
      <4> SUFFICES ASSUME NEW s \in Sources, Untouched(s)', record'[s] = "indexed",
                          ~Pending(s)', ~Changing(s)'
                   PROVE  points'[s] = chunks'[s]
        BY DEF RecordedCurrent
      <4>1. CASE s # job[d]
        BY <4>1 DEF AllCurrent, RecordedCurrent, Untouched
      <4>2. CASE s = job[d]
        <5>1. Pending(s) => Pending(s)'
          BY <4>2 DEF Pending, Due, Processors, Actors
        <5>2. CASE ~Exists(s)
          BY <4>2, <5>2 DEF Untouched, Exists
        <5>3. CASE Exists(s)
          BY <4>2, <5>1, <5>3 DEF AllCurrent, ResetsCurrent
        <5> QED
          BY <5>2, <5>3
      <4> QED
        BY <4>1, <4>2
    <3> QED
      BY <3>6, <3>7 DEF AllCurrent
  <2> QED
    BY <1>7, <2>1, <2>2, <2>3, <2>4, <2>5, <2>6 DEF Request
<1>8. CASE CrashWorker \/ CrashApi
  BY <1>8
<1> QED
  BY <1>1, <1>2, <1>3, <1>4, <1>5, <1>6, <1>7, <1>8 DEF Next

\* Sources are typed, and the status of a source tells the truth about its
\* chunk rows, however many processors work on it and whatever fails.
THEOREM RowsAreSound == Spec => []RowsSound
<1>1. Init => Types /\ Separate /\ Rows
  BY InitHolds
<1>2. Types /\ Separate /\ Rows /\ [Next]_vars => (Types /\ Separate /\ Rows)'
  BY TypesStep, SeparateStep, RowsStep
<1>3. Types /\ Separate /\ Rows => RowsSound
  BY DEF Types, Rows, RowsSound
<1> QED
  BY <1>1, <1>2, <1>3, PTL DEF Spec

\* Whatever was being parsed, indexed, rebuilt, retried or re-indexed when a
\* source was deleted, nothing of it is left or comes back.
THEOREM DeletedIsGone == Spec => []DeletedLeavesNothing
<1> DEFINE I == Types /\ Separate /\ Rows /\ Locked /\ Remains
<1>1. Init => I
  BY InitHolds
<1>2. I /\ [Next]_vars => I'
  BY TypesStep, SeparateStep, RowsStep, LockedStep, RemainsStep
<1>3. I => DeletedLeavesNothing
  BY DEF Remains
<1> QED
  BY <1>1, <1>2, <1>3, PTL DEF Spec

\* A source at rest that is recorded as indexed has exactly the points of its
\* chunks, as long as no call failed and no process died.
THEOREM IndexIsCurrent == Spec => []IndexAgrees
<1> DEFINE I == Types /\ Separate /\ Rows /\ Locked /\ Remains /\ Current
<1>1. Init => I
  BY InitHolds
<1>2. I /\ [Next]_vars => I'
  BY TypesStep, SeparateStep, RowsStep, LockedStep, RemainsStep, CurrentStep
<1>3. I => IndexAgrees
  <2> SUFFICES ASSUME I, faults + crashes = 0, NEW s \in Sources,
                      << s, "fail" >> \notin crossed,
                      ~AtWork(s), status[s] = "indexed", record[s] = "indexed"
               PROVE  points[s] = chunks[s]
    BY DEF IndexAgrees
  <2>1. \A a \in Actors : job[a] # s
    BY DEF AtWork
  <2>2. ~Pending(s) /\ ~Changing(s)
    BY <2>1 DEF Pending, Changing, Actors
  <2> QED
    BY <2>2 DEF Current, RecordedCurrent, Untouched
<1> QED
  BY <1>1, <1>2, <1>3, PTL DEF Spec
=============================================================================
