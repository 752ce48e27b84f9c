----------------------- MODULE PreparationTransaction -----------------------
(***************************************************************************)
(* Preparing a machine without a network: one transaction over managed     *)
(* directories, secret files and the environment file, with an undo        *)
(* journal that survives a kill between any two system calls.              *)
(*                                                                         *)
(*   tools/offline_env.py               execute_preparation_plan           *)
(*   tools/offline_deployment_state.py  TransactionJournal, the scan for   *)
(*                                      incomplete transactions            *)
(*   tools/offline_recovery.py          rollback, clean-up, the recovery   *)
(*                                      commands                           *)
(*                                                                         *)
(* One step is one durable write or one change of the tree.  Every command *)
(* holds the deployment lock to its end, so at most one process runs.      *)
(* Content is abstract: a secret is absent, old or new; the environment is *)
(* what the backup holds, what the plan writes, or an operator's edit.     *)
(* Left out: ownership and modes of files the plan does not change, the    *)
(* bootstrap of the secret root, the steps inside the exchange that        *)
(* restores the environment.                                               *)
(***************************************************************************)
EXTENDS Naturals, Sequences, FiniteSets, SequencesExt

CONSTANTS
    Secrets,        \* the names the plan publishes
    Existing,       \* those that are already there, and are rotated
    Depth,          \* nested directories the plan makes
    MaxPrepares,    \* bound: preparations started
    MaxKills,       \* bound: processes killed
    MaxFaults,      \* bound: calls that raise
    MaxEdits        \* bound: edits of the environment by an operator

ASSUME Bounds ==
    /\ Existing \subseteq Secrets /\ IsFiniteSet(Secrets)
    /\ {Depth, MaxPrepares, MaxKills, MaxFaults, MaxEdits} \subseteq Nat

VARIABLES
    tree,       \* what the transaction changes
    journal,    \* the transaction's directory under the state root
    wal,        \* the files in it
    cleanup,    \* the companion directory and the records in history
    proc,       \* the process that holds the deployment lock
    spent       \* preparations, kills, faults and edits so far
vars == <<tree, journal, wal, cleanup, proc, spent>>

-----------------------------------------------------------------------------
(* The plan: the operations in the order they are recorded.                *)

Op(kind, on) == [kind |-> kind, on |-> on]
OpsOn(kind, items) == [i \in 1..Len(items) |-> Op(kind, items[i])]

Plan == OpsOn("mkdir", [i \in 1..Depth |-> i])
        \o <<Op("chmod", "root")>>
        \o OpsOn("active_to_backup", SetToSeq(Existing))
        \o OpsOn("staging_to_active", SetToSeq(Secrets))
        \o <<Op("env_replace", "env")>>

Numbers == 1..Len(Plan)

(* The order of undoing: environment, published secrets, old secrets,      *)
(* modes, directories from the deepest; within a kind the last one first.  *)
OldSecretsFirst == [env_replace |-> 0, active_to_backup |-> 1, staging_to_active |-> 2,
                    chmod |-> 3, mkdir |-> 4]
Priority == [env_replace |-> 0, staging_to_active |-> 1, active_to_backup |-> 2,
             chmod |-> 3, mkdir |-> 4]
UndoneBefore(q, r) ==
    \/ Priority[Plan[q].kind] < Priority[Plan[r].kind]
    \/ Priority[Plan[q].kind] = Priority[Plan[r].kind] /\ q > r
\* The first n operations sorted: the i-th has i - 1 undone before it.
RollbackOrder ==
    [n \in 0..Len(Plan) |->
        [i \in 1..n |->
            CHOOSE q \in 1..n : Cardinality({r \in 1..n : UndoneBefore(r, q)}) = i - 1]]

-----------------------------------------------------------------------------
(* "planned" stands for every phase up to "env_committed": no decision of   *)
(* a recovery tells them apart.                                            *)
ForwardPhases == {"planned"}
Committed == {"committed", "committed_cleanup_required"}
RolledBack == {"rollback_complete", "rollback_cleanup_required"}
Phases == ForwardPhases \cup Committed \cup RolledBack
          \cup {"rollback_in_progress", "rollback_failed"}

NewWal == [phase |-> "planned", manifest |-> 0, logged |-> 0, done |-> {}, undone |-> {},
           intents |-> {}, backup |-> "none", forward |-> FALSE]

Idle == [pc |-> "idle", at |-> 0]
At(pc) == proc.pc = pc
Go(pc) == proc' = [proc EXCEPT !.pc = pc]

Untouched ==
    [active |-> [s \in Secrets |-> IF s \in Existing THEN "old" ELSE "none"],
     staged |-> {}, kept |-> {}, made |-> {}, private |-> FALSE,
     env |-> "before", candidate |-> "none"]

Init ==
    /\ tree = Untouched
    /\ journal = "none"
    /\ wal = NewWal
    /\ cleanup = [companion |-> FALSE, receipt |-> "none", metadata |-> "none"]
    /\ proc = Idle
    /\ spent = [prepares |-> 0, kills |-> 0, faults |-> 0, edits |-> 0]

TypeOK ==
    /\ tree \in [active : [Secrets -> {"none", "old", "new"}], staged : SUBSET Secrets,
                 kept : SUBSET Existing, made : SUBSET (1..Depth), private : BOOLEAN,
                 env : {"before", "after", "edited"}, candidate : {"none", "new", "old"}]
    /\ journal \in {"none", "bare", "open", "tombstone", "quarantined"}
    /\ wal \in [phase : Phases, manifest : 0..Len(Plan), logged : 0..Len(Plan),
                done : SUBSET Numbers, undone : SUBSET Numbers,
                intents : SUBSET Numbers, backup : {"none", "before", "edited"},
                forward : BOOLEAN]
    /\ cleanup \in [companion : BOOLEAN, receipt : {"none", "pending", "complete"},
                    metadata : {"none", "rollback", "committed"}]
    /\ proc.at \in Nat

(* A directory left by create() cut short cannot be opened; neither can a  *)
(* companion whose transaction is gone: both make the scan fail.           *)
NoIncompleteTransactions ==
    /\ journal \in {"none", "quarantined"}
    /\ cleanup.metadata = "none"
    /\ ~cleanup.companion

-----------------------------------------------------------------------------
(* One operation on the tree, and how a later process sees it.             *)

Env == wal.backup   \* the content before_digest names

Classify(op) ==
    CASE op.kind = "mkdir" ->
            IF op.on \notin tree.made THEN "not_executed"
            ELSE IF op.on + 1 \notin tree.made THEN "executed" ELSE "conflict"
      [] op.kind = "chmod" -> IF tree.private THEN "executed" ELSE "not_executed"
      [] op.kind = "active_to_backup" ->
            LET left == tree.active[op.on] # "none"
                right == op.on \in tree.kept
            IN  IF left = right THEN "conflict"
                ELSE IF left THEN "not_executed" ELSE "executed"
      [] op.kind = "staging_to_active" ->
            LET left == op.on \in tree.staged
                right == tree.active[op.on] # "none"
            IN  IF left = right THEN "conflict"
                ELSE IF left THEN "not_executed" ELSE "executed"
      [] op.kind = "env_replace" ->
            IF tree.env = Env THEN "not_executed"
            ELSE IF tree.env = "after" THEN "executed" ELSE "conflict"

ReverseStateIsSafe(op) ==
    IF op.kind = "staging_to_active"
    THEN tree.active[op.on] = "none" /\ op.on \in tree.staged
    ELSE Classify(op) = "not_executed"

Mutated(op) ==
    CASE op.kind = "mkdir" -> [tree EXCEPT !.made = @ \cup {op.on}]
      [] op.kind = "chmod" -> [tree EXCEPT !.private = TRUE]
      [] op.kind = "active_to_backup" ->
            [tree EXCEPT !.active[op.on] = "none", !.kept = @ \cup {op.on}]
      [] op.kind = "staging_to_active" ->
            [tree EXCEPT !.active[op.on] = "new", !.staged = @ \ {op.on}]

Reversed(op) ==
    CASE op.kind = "mkdir" -> [tree EXCEPT !.made = @ \ {op.on}]
      [] op.kind = "chmod" -> [tree EXCEPT !.private = FALSE]
      [] op.kind = "active_to_backup" ->
            [tree EXCEPT !.active[op.on] = "old", !.kept = @ \ {op.on}]
      [] op.kind = "staging_to_active" ->
            [tree EXCEPT !.active[op.on] = "none", !.staged = @ \cup {op.on}]
      [] op.kind = "env_replace" -> [tree EXCEPT !.env = Env]

-----------------------------------------------------------------------------
(* Preparing.  An exception anywhere before the commit leads to "rollback" *)
(* in the same process.                                                    *)

(* The scan finds nothing and the transaction's directory is made.         *)
Prepare ==
    /\ At("idle") /\ NoIncompleteTransactions
    /\ tree = Untouched
    /\ spent.prepares < MaxPrepares
    /\ spent' = [spent EXCEPT !.prepares = @ + 1]
    /\ journal' = "bare"
    /\ wal' = NewWal
    /\ cleanup' = [cleanup EXCEPT !.receipt = "none"]
    /\ Go("create")
    /\ UNCHANGED tree

(* Its files are written; the last of them makes it recoverable.           *)
CreateJournal ==
    /\ At("create")
    /\ journal' = "open"
    /\ Go("companion")
    /\ UNCHANGED <<tree, wal, cleanup, spent>>

CreateCompanion ==
    /\ At("companion")
    /\ cleanup' = [cleanup EXCEPT !.companion = TRUE]
    /\ Go("save")
    /\ UNCHANGED <<tree, journal, wal, spent>>

PersistEnvBackup ==
    /\ At("save")
    /\ wal' = [wal EXCEPT !.backup = tree.env]
    /\ Go("stage")
    /\ UNCHANGED <<tree, journal, cleanup, spent>>

Stage ==
    /\ At("stage")
    /\ tree' = [tree EXCEPT !.staged = Secrets]
    /\ Go("manifest")
    /\ UNCHANGED <<journal, wal, cleanup, spent>>

Current == Plan[wal.logged]

(* record_intent writes the undo manifest, then the operation.  The        *)
(* environment must still be what the backup holds.                        *)
WriteManifest ==
    /\ At("manifest") /\ wal.logged < Len(Plan)
    /\ Plan[wal.logged + 1].kind = "env_replace" => tree.env = Env
    /\ wal' = [wal EXCEPT !.manifest = wal.logged + 1]
    /\ Go("intent")
    /\ UNCHANGED <<tree, journal, cleanup, spent>>

WriteIntent ==
    /\ At("intent")
    /\ wal' = [wal EXCEPT !.logged = @ + 1]
    /\ Go("mutate")
    /\ UNCHANGED <<tree, journal, cleanup, spent>>

Mutate ==
    /\ At("mutate") /\ Current.kind # "env_replace"
    /\ tree' = Mutated(Current)
    /\ Go("done")
    /\ UNCHANGED <<journal, wal, cleanup, spent>>

(* publish_environment: a candidate beside the file, the exchange of the   *)
(* two if the file is unchanged, the removal of the old content.           *)
WriteCandidate ==
    /\ At("mutate") /\ Current.kind = "env_replace"
    /\ tree' = [tree EXCEPT !.candidate = "new"]
    /\ wal' = [wal EXCEPT !.forward = TRUE]
    /\ Go("exchange")
    /\ UNCHANGED <<journal, cleanup, spent>>

ExchangesAlways == TRUE
ExchangeAllowed == tree.env = Env

ExchangeEnvironment ==
    /\ At("exchange") /\ ExchangeAllowed
    /\ tree' = [tree EXCEPT !.env = "after", !.candidate = "old"]
    /\ Go("settle")
    /\ UNCHANGED <<journal, wal, cleanup, spent>>

SettleEnvironment ==
    /\ At("settle")
    /\ tree' = [tree EXCEPT !.candidate = "none"]
    /\ wal' = [wal EXCEPT !.forward = FALSE]
    /\ Go("done")
    /\ UNCHANGED <<journal, cleanup, spent>>

RecordDone ==
    /\ At("done")
    /\ wal' = [wal EXCEPT !.done = @ \cup {wal.logged}]
    /\ Go("manifest")
    /\ UNCHANGED <<tree, journal, cleanup, spent>>

(* The environment is read back before the transaction is committed.       *)
Verified == wal.logged = Len(Plan) /\ tree.env = "after"

Commit ==
    /\ At("manifest") /\ Verified
    /\ wal' = [wal EXCEPT !.phase = "committed"]
    /\ Go("receipt")
    /\ UNCHANGED <<tree, journal, cleanup, spent>>

Preparing == proc.pc \in {"companion", "save", "stage", "manifest", "intent", "mutate",
                          "exchange", "settle", "done"}

(* What the process itself finds wrong.                                    *)
Refused ==
    \/ At("manifest") /\ wal.logged < Len(Plan)
       /\ Plan[wal.logged + 1].kind = "env_replace" /\ tree.env # Env
    \/ At("exchange") /\ ~ExchangeAllowed
    \/ At("manifest") /\ wal.logged = Len(Plan) /\ tree.env # "after"

GiveUp ==
    /\ Refused
    /\ Go("rollback")
    /\ UNCHANGED <<tree, journal, wal, cleanup, spent>>

-----------------------------------------------------------------------------
(* Rolling back, in the process that failed or in a later one.             *)

StartRollback ==
    /\ At("rollback")
    /\ wal' = [wal EXCEPT !.phase = "rollback_in_progress"]
    /\ Go("forward_env")
    /\ UNCHANGED <<tree, journal, cleanup, spent>>

ManifestMatches == wal.manifest = wal.logged
CandidateKnown ==
    \/ tree.env = Env /\ tree.candidate \in {"none", "new"}
    \/ tree.env = "after" /\ tree.candidate \in {"none", "old"}

(* An exchange that was cut short is settled, whichever side it is on.     *)
ResumeForwardEnvironment ==
    /\ At("forward_env") /\ ManifestMatches
    /\ wal.forward => CandidateKnown
    /\ tree' = [tree EXCEPT !.candidate = IF wal.forward THEN "none" ELSE @]
    /\ wal' = [wal EXCEPT !.forward = FALSE]
    /\ proc' = [pc |-> "undo", at |-> 1]
    /\ UNCHANGED <<journal, cleanup, spent>>

Undoing == RollbackOrder[wal.logged][proc.at]
MoreToUndo == At("undo") /\ proc.at <= wal.logged
NextOperation == proc' = [proc EXCEPT !.at = @ + 1]

(* An operation an earlier attempt undid must still look undone.           *)
SkipCompleted ==
    /\ MoreToUndo /\ Undoing \in wal.undone
    /\ ReverseStateIsSafe(Plan[Undoing])
    /\ NextOperation
    /\ UNCHANGED <<tree, journal, wal, cleanup, spent>>

TrustsIntent(q) ==
    \/ q \in wal.intents
    \/ q \notin wal.done /\ Classify(Plan[q]) = "not_executed"
MayRecordUndone(q) ==
    \/ q \in wal.intents /\ ReverseStateIsSafe(Plan[q])
    \/ q \notin wal.intents \cup wal.done /\ Classify(Plan[q]) = "not_executed"

RecordUndone ==
    /\ MoreToUndo /\ Undoing \notin wal.undone
    /\ MayRecordUndone(Undoing)
    /\ wal' = [wal EXCEPT !.undone = @ \cup {Undoing}, !.intents = @ \ {Undoing}]
    /\ NextOperation
    /\ UNCHANGED <<tree, journal, cleanup, spent>>

RecordRollbackIntent ==
    /\ MoreToUndo /\ Undoing \notin wal.undone \cup wal.intents
    /\ Classify(Plan[Undoing]) = "executed"
    /\ wal' = [wal EXCEPT !.intents = @ \cup {Undoing}]
    /\ UNCHANGED <<tree, journal, cleanup, proc, spent>>

ReverseOperation ==
    /\ MoreToUndo /\ Undoing \in wal.intents \ wal.undone
    /\ ~ReverseStateIsSafe(Plan[Undoing])
    /\ Classify(Plan[Undoing]) = "executed"
    /\ tree' = Reversed(Plan[Undoing])
    /\ UNCHANGED <<journal, wal, cleanup, proc, spent>>

(* Anything else is a conflict: nothing is touched, everything is kept.    *)
Conflict ==
    \/ At("forward_env") /\ (~ManifestMatches \/ (wal.forward /\ ~CandidateKnown))
    \/ MoreToUndo /\ IF Undoing \in wal.undone
                     THEN ~ReverseStateIsSafe(Plan[Undoing])
                     ELSE ~MayRecordUndone(Undoing) /\ Classify(Plan[Undoing]) # "executed"

FailRollback ==
    /\ Conflict
    /\ wal' = [wal EXCEPT !.phase = "rollback_failed"]
    /\ proc' = Idle
    /\ UNCHANGED <<tree, journal, cleanup, spent>>

CompleteRollback ==
    /\ At("undo") /\ proc.at > wal.logged
    /\ wal' = [wal EXCEPT !.phase = "rollback_complete"]
    /\ Go("metadata")
    /\ UNCHANGED <<tree, journal, cleanup, spent>>

-----------------------------------------------------------------------------
(* Removing the material of a finished transaction: each step may find     *)
(* itself done already.                                                    *)

Outcome == IF cleanup.metadata # "none" THEN cleanup.metadata
           ELSE IF wal.phase \in RolledBack THEN "rollback" ELSE "committed"

WriteReceipt ==
    /\ At("receipt")
    /\ cleanup' = [cleanup EXCEPT !.receipt = IF @ = "none" THEN "pending" ELSE @]
    /\ Go("metadata")
    /\ UNCHANGED <<tree, journal, wal, spent>>

WriteMetadata ==
    /\ At("metadata")
    /\ cleanup' = [cleanup EXCEPT !.metadata = Outcome]
    /\ Go("remove_companion")
    /\ UNCHANGED <<tree, journal, wal, spent>>

RemoveCompanion ==
    /\ At("remove_companion")
    /\ cleanup' = [cleanup EXCEPT !.companion = FALSE]
    /\ tree' = [tree EXCEPT !.staged = {}, !.kept = {}]
    /\ Go(IF Outcome = "committed" THEN "complete_receipt" ELSE "bury")
    /\ UNCHANGED <<journal, wal, spent>>

MarkReceiptComplete ==
    /\ At("complete_receipt")
    /\ cleanup' = [cleanup EXCEPT !.receipt = "complete"]
    /\ Go("bury")
    /\ UNCHANGED <<tree, journal, wal, spent>>

(* The directory is renamed to its tombstone in history, then removed.     *)
Bury ==
    /\ At("bury")
    /\ journal' = IF journal = "open" THEN "tombstone" ELSE journal
    /\ Go("remove_tombstone")
    /\ UNCHANGED <<tree, wal, cleanup, spent>>

RemoveTombstone ==
    /\ At("remove_tombstone")
    /\ journal' = IF journal = "tombstone" THEN "none" ELSE journal
    /\ Go("unlink_metadata")
    /\ UNCHANGED <<tree, wal, cleanup, spent>>

UnlinkMetadata ==
    /\ At("unlink_metadata")
    /\ cleanup' = [cleanup EXCEPT !.metadata = "none"]
    /\ proc' = Idle
    /\ UNCHANGED <<tree, journal, wal, spent>>

Cleaning == proc.pc \in {"receipt", "metadata", "remove_companion", "complete_receipt",
                         "bury", "remove_tombstone", "unlink_metadata"}

-----------------------------------------------------------------------------
(* The operator's commands.                                                *)

(* Opening a journal drops an undo entry whose operation was never         *)
(* written, unless a rollback has begun; then a mismatch is an error.      *)
Openable == journal = "open" /\ (ManifestMatches \/ wal.phase \in ForwardPhases)
KeepsDone == [wal EXCEPT !.manifest = Cardinality(wal.done), !.logged = Cardinality(wal.done)]
Opened == [wal EXCEPT !.manifest = wal.logged]

NotRolledBack == Committed \cup {"rollback_failed"}

ResumeRollback ==
    /\ At("idle") /\ Openable
    /\ wal.phase \notin NotRolledBack
    /\ wal' = Opened
    /\ Go(IF wal.phase \in RolledBack THEN "metadata" ELSE "rollback")
    /\ UNCHANGED <<tree, journal, cleanup, spent>>

NeedsDirectory == journal = "open" /\ wal.phase \in RolledBack \cup Committed
Finalizable ==
    \/ journal = "open" /\ wal.phase \in RolledBack \cup Committed
    \/ journal # "open" /\ cleanup.metadata # "none"

FinalizeCleanup ==
    /\ At("idle") /\ Finalizable
    /\ Go(IF Outcome = "committed" THEN "receipt" ELSE "metadata")
    /\ UNCHANGED <<tree, journal, wal, cleanup, spent>>

(* acknowledge-repaired: the active secrets form a valid set, and the      *)
(* transaction's directory moves to quarantine; its companion stays.       *)
ActiveStateValid ==
    \E v \in {"old", "new"} : \A s \in Secrets : tree.active[s] = v

AcknowledgeRepaired ==
    /\ At("idle") /\ journal \in {"bare", "open"}
    /\ ActiveStateValid
    /\ journal' = "quarantined"
    /\ UNCHANGED <<tree, wal, cleanup, proc, spent>>

-----------------------------------------------------------------------------
(* What goes wrong from outside.                                           *)

Kill ==
    /\ ~At("idle") /\ spent.kills < MaxKills
    /\ spent' = [spent EXCEPT !.kills = @ + 1]
    /\ proc' = Idle
    /\ UNCHANGED <<tree, journal, wal, cleanup>>

CreationFails ==
    /\ At("create") /\ journal' = "none" /\ proc' = Idle
    /\ UNCHANGED wal

PreparationFails ==
    /\ Preparing /\ Go("rollback")
    /\ UNCHANGED <<journal, wal>>

(* Writing the phase may fail too.                                         *)
MarkFailure(phase) == UNCHANGED wal \/ wal' = [wal EXCEPT !.phase = phase]

RollbackFails ==
    /\ proc.pc \in {"forward_env", "undo"}
    /\ MarkFailure("rollback_failed")
    /\ proc' = Idle /\ UNCHANGED journal

CleanupFails ==
    /\ Cleaning
    /\ IF journal = "open"
       THEN MarkFailure(IF Outcome = "committed" THEN "committed_cleanup_required"
                        ELSE "rollback_cleanup_required")
       ELSE UNCHANGED wal
    /\ proc' = Idle /\ UNCHANGED journal

Fail ==
    /\ spent.faults < MaxFaults
    /\ spent' = [spent EXCEPT !.faults = @ + 1]
    /\ CreationFails \/ PreparationFails \/ RollbackFails \/ CleanupFails
    /\ UNCHANGED <<tree, cleanup>>

EditEnvironment ==
    /\ journal = "open" /\ spent.edits < MaxEdits /\ tree.env # "edited"
    /\ spent' = [spent EXCEPT !.edits = @ + 1]
    /\ tree' = [tree EXCEPT !.env = "edited"]
    /\ UNCHANGED <<journal, wal, cleanup, proc>>

-----------------------------------------------------------------------------
Forward == \/ CreateJournal \/ CreateCompanion \/ PersistEnvBackup \/ Stage
           \/ WriteManifest \/ WriteIntent \/ Mutate \/ WriteCandidate
           \/ ExchangeEnvironment \/ SettleEnvironment \/ RecordDone \/ Commit \/ GiveUp
Rollback == \/ StartRollback \/ ResumeForwardEnvironment \/ SkipCompleted \/ RecordUndone
            \/ RecordRollbackIntent \/ ReverseOperation \/ FailRollback \/ CompleteRollback
Clean == \/ WriteReceipt \/ WriteMetadata \/ RemoveCompanion \/ MarkReceiptComplete
         \/ Bury \/ RemoveTombstone \/ UnlinkMetadata
Command == Prepare \/ ResumeRollback \/ FinalizeCleanup \/ AcknowledgeRepaired

Next == Forward \/ Rollback \/ Clean \/ Command \/ Kill \/ Fail \/ EditEnvironment

Spec == Init /\ [][Next]_vars

(* A running process goes on; the operator runs the command the            *)
(* documentation prescribes for a transaction that is decided.             *)
FairSpec == Spec /\ WF_vars(Forward \/ Rollback \/ Clean) /\ WF_vars(FinalizeCleanup)

-----------------------------------------------------------------------------
Calm == spent.faults = 0 /\ spent.edits = 0

Restored == [tree EXCEPT !.env = "before"] = Untouched /\ tree.env # "after"
PublishedTree ==
    /\ \A s \in Secrets : tree.active[s] = "new"
    /\ tree.made = 1..Depth /\ tree.private /\ tree.candidate = "none"
    /\ tree.staged = {} /\ tree.kept = {}

(* What the tree itself shows of an operation.                             *)
Happened(op) ==
    CASE op.kind = "mkdir" -> op.on \in tree.made
      [] op.kind = "chmod" -> tree.private
      [] op.kind = "active_to_backup" -> op.on \in tree.kept
      [] op.kind = "staging_to_active" -> tree.active[op.on] = "new"
      [] op.kind = "env_replace" -> tree.env = "after"

(* A change of the tree is in the journal before it happens, so that no     *)
(* kill hides one from the recovery; and the journal is well formed.       *)
JournalSound ==
    /\ TypeOK
    /\ journal = "open" /\ wal.phase \notin Committed \cup RolledBack =>
        /\ \A q \in Numbers : Happened(Plan[q]) => q <= wal.logged
        /\ wal.done \cup wal.undone \cup wal.intents \subseteq 1..wal.logged

(* Whenever no transaction is incomplete, so that containers may start,    *)
(* the tree is as it was before the preparation or completely published.   *)
WholeWhenClear ==
    NoIncompleteTransactions /\ journal = "none" =>
        Restored \/ (PublishedTree /\ tree.env \in {"after", "edited"})

(* The journal tells the truth about the tree, and so does its absence.    *)
JournalTrue == JournalSound /\ WholeWhenClear

(* Until the transaction is committed, every secret that was there is      *)
(* still active or in the companion, under all failures together.          *)
OldSecretsKept ==
    wal.phase \notin Committed /\ journal \in {"bare", "open", "quarantined"} =>
        \A s \in Existing : tree.active[s] = "old" \/ s \in tree.kept

(* An edit of the environment made after it was backed up is never         *)
(* overwritten, neither by the transaction nor by a recovery.              *)
EditStays == tree.env = "edited" /\ wal.backup = "before" => tree'.env = "edited"

(* A process killed once, at whatever point after the journal was created, *)
(* leaves a transaction that resume-rollback or finalize-cleanup accepts.  *)
OneKillRecovers ==
    Calm /\ spent.kills <= 1 /\ At("idle") /\ journal \notin {"bare", "quarantined"} =>
        \/ NoIncompleteTransactions
        \/ Openable /\ wal.phase \notin NotRolledBack
        \/ Finalizable

(* Once committed, nothing of what was published is taken back.            *)
CommitStays ==
    wal.phase \in Committed /\ journal # "none" /\ journal' # "bare" =>
        /\ tree'.active = tree.active /\ tree'.made = tree.made
        /\ tree'.private = tree.private
        /\ wal'.phase \in Committed

(* No step takes back what an operator wrote or a commit decided.          *)
NothingTakenBack == [][EditStays /\ CommitStays]_vars

(* A committed transaction is cleaned up and stops blocking, however its   *)
(* clean-up is interrupted, unless an operator sends it to quarantine.     *)
CommittedIsCleaned ==
    wal.phase = "committed" /\ journal = "open" ~>
        NoIncompleteTransactions \/ journal = "quarantined"

(* Docs: resume-rollback resumes from every point of interruption,         *)
(* including an interrupted rollback.                                      *)
InterruptedRollbackResumes == Calm => wal.phase # "rollback_failed"
=============================================================================
