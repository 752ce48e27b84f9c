------------------------- MODULE BootstrapDirectories -------------------------
(***************************************************************************)
(* The two directories a preparation needs before it can journal anything  *)
(* secret: the secret root and, inside it, the parent of the companions.   *)
(* They are made or tightened under a record of their own, which a         *)
(* rollback undoes and which journals of an older version hold in another  *)
(* form.                                                                   *)
(*                                                                         *)
(*   tools/offline_deployment_state.py  TransactionJournal.create, open    *)
(*   tools/offline_recovery.py          finalize_rollback_cleanup          *)
(*                                                                         *)
(* A directory is a mode and an identity (device and inode); the operator  *)
(* may change either at any time.  What the transaction does between its   *)
(* creation and its end is PreparationTransaction.                         *)
(***************************************************************************)
EXTENDS Naturals

CONSTANTS
    MaxKills,       \* bound: processes killed
    MaxEdits        \* bound: changes of a directory by the operator

\* _expected_bootstrap_directories: the second lies in the first.
SecretRoot == 1
CompanionParent == 2
Roles == {SecretRoot, CompanionParent}

Missing == [id |-> "none", mode |-> "none"]
Before(mode) == [id |-> "before", mode |-> mode]

VARIABLES
    dir,        \* the directories
    original,   \* what they were before the transaction
    journal,    \* "none", "bare", "open", "failed", "committed" or "undone"
    record,     \* bootstrap-directories.json
    metadata,   \* the protocol journal.json names
    companion,  \* the transaction's own directory exists
    pc, at,     \* the process that holds the deployment lock
    kills, edits

process == <<pc, at>>
spent == <<kills, edits>>
vars == <<dir, original, journal, record, metadata, companion, process, spent>>

\* _plan_bootstrap_directory
PlanEntry(r) ==
    [existed |-> dir[r] # Missing, mode |-> dir[r].mode, id |-> dir[r].id,
     prepared |-> FALSE, cleaned |-> FALSE]
Planned == [r \in Roles |-> PlanEntry(r)]

\* A journal of an older version: its entries hold neither identity nor
\* progress, and it never tightened a mode.
LegacyEntry(r) ==
    [existed |-> original[r] # Missing, mode |-> original[r].mode,
     id |-> "unknown", prepared |-> FALSE, cleaned |-> FALSE]
MadeUpTo(n) ==
    [r \in Roles |-> IF original[r] = Missing /\ r <= n
                     THEN [id |-> "made", mode |-> "private"] ELSE original[r]]

Fresh ==
    /\ dir = original
    /\ journal = "none" /\ metadata = "v2" /\ companion = FALSE
    /\ record = [protocol |-> "v2", state |-> "preparing", entries |-> Planned]
Legacy ==
    /\ \A r \in Roles : original[r].mode # "wide"
    /\ journal = "open" /\ metadata = "v1"
    /\ \E n \in 0..2, state \in {"preparing", "ready"} :
        /\ dir = MadeUpTo(n)
        /\ companion \in IF state = "ready" THEN {TRUE} ELSE {FALSE, n = 2}
        /\ state = "ready" => n = 2
        /\ record = [protocol |-> "v1", state |-> state,
                     entries |-> [r \in Roles |-> LegacyEntry(r)]]

Init ==
    /\ original \in [Roles -> {Missing, Before("private"), Before("wide")}]
    /\ original[CompanionParent].mode # "wide"
    /\ original[SecretRoot] = Missing => original[CompanionParent] = Missing
    /\ Fresh \/ Legacy
    /\ pc = "idle" /\ at = SecretRoot
    /\ kills = 0 /\ edits = 0

-----------------------------------------------------------------------------
At(place) == pc = place
Go(place) == pc' = place /\ UNCHANGED at
Step(place, r) == pc' = place /\ at' = r
Entry == record.entries[at]
Here == dir[at]

(* create.  An exception after the record is durable ends in a rollback by *)
(* the same process.                                                       *)
BeginCreate ==
    /\ At("idle") /\ journal = "none"
    /\ dir[SecretRoot] = Missing => dir[CompanionParent] = Missing
    /\ dir[CompanionParent].mode # "wide"
    /\ original' = dir
    /\ journal' = "bare"
    /\ record' = [record EXCEPT !.entries = Planned]
    /\ Step("files", SecretRoot)
    /\ UNCHANGED <<dir, metadata, companion, spent>>

WriteFiles ==
    /\ At("files")
    /\ \/ journal' = "open" /\ Go("make")
       \/ journal' = "none" /\ Go("idle")       \* a write fails: the tree is removed
    /\ UNCHANGED <<dir, original, record, metadata, companion, spent>>

MakeDirectory ==
    /\ At("make")
    /\ IF Entry.existed THEN Go("verify") /\ UNCHANGED dir
       ELSE IF Here # Missing THEN Go("rollback") /\ UNCHANGED dir
       ELSE /\ dir' = [dir EXCEPT ![at] = [id |-> "made", mode |-> "private"]]
            /\ Go("verify")
    /\ UNCHANGED <<original, journal, record, metadata, companion, spent>>

\* The repair of the mode is of the secret root only, and of what was planned.
AsPlanned == IF Entry.existed THEN Here = [id |-> Entry.id, mode |-> Entry.mode]
                              ELSE Here.mode = "private"
VerifyDirectory ==
    /\ At("verify")
    /\ IF AsPlanned
       THEN /\ dir' = [dir EXCEPT ![at].mode = "private"]
            /\ Go("record")
       ELSE Go("rollback") /\ UNCHANGED dir
    /\ UNCHANGED <<original, journal, record, metadata, companion, spent>>

RecordPrepared ==
    /\ At("record")
    /\ record' = [record EXCEPT !.entries[at] =
            [Entry EXCEPT !.id = IF Entry.existed THEN Entry.id ELSE Here.id, !.prepared = TRUE]]
    /\ IF at = CompanionParent THEN Go("companion") ELSE Step("make", CompanionParent)
    /\ UNCHANGED <<dir, original, journal, metadata, companion, spent>>

MakeCompanion ==
    /\ At("companion")
    /\ IF dir[CompanionParent] = Missing
       THEN Go("rollback") /\ UNCHANGED companion
       ELSE companion' = TRUE /\ Go("ready")
    /\ UNCHANGED <<dir, original, journal, record, metadata, spent>>

RecordReady ==
    /\ At("ready")
    /\ record' = [record EXCEPT !.state = "ready"]
    /\ Go("use")
    /\ UNCHANGED <<dir, original, journal, metadata, companion, spent>>

\* The transaction ends: committed, or rolled back with nothing left to undo
\* but these directories.
UseJournal ==
    /\ At("use")
    /\ \/ Go("rollback") /\ UNCHANGED <<journal, companion>>
       \/ journal' = "committed" /\ companion' = FALSE /\ Go("idle")
    /\ UNCHANGED <<dir, original, record, metadata, spent>>

-----------------------------------------------------------------------------
(* A later process opens the journal; one of the older version is brought  *)
(* to the present form first: the record, then the metadata.               *)

Snapshot(e, r) ==
    IF e.existed THEN [e EXCEPT !.id = dir[r].id, !.prepared = TRUE]
    ELSE [e EXCEPT !.id = dir[r].id, !.prepared = dir[r] # Missing]
Snapshots(entries) == [r \in Roles |-> Snapshot(entries[r], r)]
SnapshotSafe(entries) ==
    \A r \in Roles :
        IF entries[r].existed THEN dir[r].mode = entries[r].mode
        ELSE dir[r] = Missing \/ (~entries[r].cleaned /\ dir[r].mode = "private")

\* _write_bootstrap_directories, read_bootstrap_directories
Writable(state, entries) ==
    /\ state = "preparing" => (entries[CompanionParent].prepared => entries[SecretRoot].prepared)
    /\ state = "ready" => \A r \in Roles : entries[r].prepared
    /\ state \in {"preparing", "ready"} => \A r \in Roles : ~entries[r].cleaned
    /\ state = "cleanup_complete" => \A r \in Roles : entries[r].cleaned

Reopen ==
    /\ At("idle") /\ journal = "open"
    /\ CASE metadata = "v2" -> Go("rollback") /\ UNCHANGED record
         [] metadata = "v1" /\ record.protocol = "v1" ->
                /\ SnapshotSafe(record.entries)
                /\ Writable(record.state, Snapshots(record.entries))
                /\ record' = [record EXCEPT !.protocol = "v2",
                                            !.entries = Snapshots(record.entries)]
                /\ Go("migrated")
         [] metadata = "v1" /\ record.protocol = "v2" ->
                /\ SnapshotSafe(record.entries)
                /\ Snapshots(record.entries) = record.entries
                /\ Go("migrated")
                /\ UNCHANGED record
    /\ UNCHANGED <<dir, original, journal, metadata, companion, spent>>

MigrateMetadata ==
    /\ At("migrated")
    /\ metadata' = "v2"
    /\ Go("rollback")
    /\ UNCHANGED <<dir, original, journal, record, companion, spent>>

-----------------------------------------------------------------------------
(* finalize_rollback_cleanup: the companion, then the directories from the *)
(* inner one out.                                                          *)

RemoveCompanion ==
    /\ At("rollback")
    /\ companion' = FALSE
    /\ IF record.state = "cleanup_complete" THEN Go("bury") /\ UNCHANGED record
       ELSE /\ record' = [record EXCEPT !.state = "cleanup_in_progress"]
            /\ Step("clean", CompanionParent)
    /\ UNCHANGED <<dir, original, journal, metadata, spent>>

\* _bootstrap_entry_matches
SameIdentity == Entry.id \in {"unknown", "none", Here.id}
Matches(mode) == Here # Missing /\ SameIdentity /\ Here.mode = mode
AsBefore == Matches(Entry.mode)
AsAfter == Matches("private")

\* What has been undone must still be; what exists again must be restorable;
\* a directory is removed only by the identity the record holds.
KnownIdentity == Entry.id # "none"
AnyIdentity == TRUE         \* mutant: a directory of the right mode is removed
CleanSafe ==
    IF Entry.cleaned THEN (IF Entry.existed THEN AsBefore ELSE Here = Missing)
    ELSE IF Entry.existed THEN AsBefore \/ AsAfter
    ELSE Here = Missing \/ (AsAfter /\ KnownIdentity
                            /\ (at = SecretRoot => dir[CompanionParent] = Missing))

Restored == IF Entry.existed THEN [Here EXCEPT !.mode = Entry.mode] ELSE Missing
CleanDirectory ==
    /\ At("clean") /\ CleanSafe
    /\ dir' = [dir EXCEPT ![at] = Restored]
    /\ Go("mark")
    /\ UNCHANGED <<original, journal, record, metadata, companion, spent>>

Conflict ==
    /\ At("clean") /\ ~CleanSafe
    /\ journal' = "failed"
    /\ Go("idle")
    /\ UNCHANGED <<dir, original, record, metadata, companion, spent>>

RecordCleaned ==
    /\ At("mark")
    /\ record' = [record EXCEPT !.entries[at].cleaned = TRUE]
    /\ IF at = SecretRoot THEN Go("finish") ELSE Step("clean", SecretRoot)
    /\ UNCHANGED <<dir, original, journal, metadata, companion, spent>>

RecordComplete ==
    /\ At("finish")
    /\ record' = [record EXCEPT !.state = "cleanup_complete"]
    /\ Go("bury")
    /\ UNCHANGED <<dir, original, journal, metadata, companion, spent>>

Bury ==
    /\ At("bury")
    /\ journal' = "undone"
    /\ Go("idle")
    /\ UNCHANGED <<dir, original, record, metadata, companion, spent>>

-----------------------------------------------------------------------------
Kill ==
    /\ pc # "idle" /\ kills < MaxKills
    /\ kills' = kills + 1
    /\ Go("idle")
    /\ UNCHANGED <<dir, original, journal, record, metadata, companion, edits>>

\* The operator changes a mode, or removes, or replaces a directory.
Edit ==
    /\ edits < MaxEdits /\ edits' = edits + 1
    /\ \E r \in Roles :
        /\ dir[r] # Missing
        /\ \E d \in {Missing, [id |-> "operator", mode |-> "private"],
                     [dir[r] EXCEPT !.mode = "wide"]} :
            /\ d # dir[r]
            /\ (r = SecretRoot /\ d.id # dir[r].id) => dir[CompanionParent] = Missing
            /\ (r = CompanionParent /\ d.id # dir[r].id) => ~companion
            /\ dir' = [dir EXCEPT ![r] = d]
    /\ UNCHANGED <<original, journal, record, metadata, companion, process, kills>>

Create ==
    \/ BeginCreate \/ WriteFiles \/ MakeDirectory \/ VerifyDirectory \/ RecordPrepared
    \/ MakeCompanion \/ RecordReady \/ UseJournal
Undo ==
    \/ RemoveCompanion \/ CleanDirectory \/ Conflict \/ RecordCleaned \/ RecordComplete \/ Bury

Next == Create \/ Reopen \/ MigrateMetadata \/ Undo \/ Kill \/ Edit

Spec == Init /\ [][Next]_vars

\* A process goes on, and the operator runs the recovery of a journal.
Work == Create \/ Reopen \/ MigrateMetadata \/ Undo
Fairness == WF_vars(Work)

-----------------------------------------------------------------------------
Unrecorded(r) == ~record.entries[r].existed /\ record.entries[r].id = "none" /\ dir[r] # Missing

\* A rollback leaves both directories as it found them, or says so: without an
\* operator's change it fails only when a kill fell between mkdir and the
\* record of the new inode (finalize_rollback_cleanup).
DirectoriesRestored ==
    edits = 0 =>
        /\ journal = "undone" => dir = original
        /\ journal = "failed" => kills > 0 /\ \E r \in Roles : Unrecorded(r)
        /\ journal = "open" /\ pc # "idle" => Writable(record.state, record.entries)

\* The process removes or changes only a directory whose identity is the one it
\* planned with, found when it migrated or made itself.
TouchesOnlyRecorded ==
    [][\A r \in Roles : dir'[r] # dir[r] /\ UNCHANGED edits =>
            \/ dir[r] = Missing
            \/ record.entries[r].id = dir[r].id]_vars

\* Every journal that can be opened comes to an end.
Quiet == pc = "idle" /\ (journal = "open" => edits > 0)
JournalEnds == []<>Quiet

=============================================================================
