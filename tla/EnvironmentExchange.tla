------------------------- MODULE EnvironmentExchange -------------------------
(***************************************************************************)
(* The two exchanges of the environment file: the one that publishes what  *)
(* the plan wrote, and the one that puts back what was there, each under a *)
(* write-ahead record of its own that a later process goes on from.        *)
(*                                                                         *)
(*   tools/offline_env.py               publish_environment                *)
(*   tools/offline_deployment_state.py  the records and the backup         *)
(*   tools/offline_recovery.py          restore_environment                *)
(*                                                                         *)
(* A file is an identity (device and inode) and a content.  "raw" is a     *)
(* file that was made and has neither its mode nor its owner yet,          *)
(* "partial" one that has not all its bytes.  The operator, whom no lock   *)
(* holds, may write, replace or remove the file between any two steps.     *)
(***************************************************************************)
EXTENDS Naturals

CONSTANTS
    MaxKills,       \* bound: processes killed
    MaxEdits        \* bound: changes of the file by the operator

VARIABLES
    env,        \* the environment file
    beside,     \* the candidate of the publication, next to it
    private,    \* the private directory of the restoration: its two names
    backup,     \* environment.backup and its metadata
    forward,    \* the record of the publication
    reverse,    \* the record of the restoration
    op,         \* the operation in the journal: its intent, done and undone flags
    phase,      \* "open", "rollback", "undone", "committed" or "failed"
    pc, seen,   \* the process that holds the lock; the identity it saw
    kills, edits
files == <<env, beside, private>>
journal == <<backup, forward, reverse, op, phase>>
process == <<pc, seen>>
spent == <<kills, edits>>
vars == <<files, journal, process, spent>>

Missing == [id |-> "none", content |-> "none"]
File(id, content) == [id |-> id, content |-> content]
NoWal == [phase |-> "none", source |-> "none", candidate |-> "none"]
Wal(at, source, candidate) == [phase |-> at, source |-> source, candidate |-> candidate]
NoDirectory == [made |-> FALSE, candidate |-> Missing, removed |-> Missing]

Before == backup.digest
BeforeAbsent == backup.absent

Init ==
    /\ env \in {Missing, File("first", "before")}
    /\ beside = Missing /\ private = NoDirectory
    /\ backup = [state |-> "none", absent |-> TRUE, digest |-> "none", file |-> FALSE]
    /\ forward = NoWal /\ reverse = NoWal
    /\ op = [status |-> "none", undo |-> "none"]
    /\ phase = "open"
    /\ pc = "backup" /\ seen = "none"
    /\ kills = 0 /\ edits = 0

-----------------------------------------------------------------------------
At(place) == pc = place
Go(place) == pc' = place /\ UNCHANGED seen

(* An exception of the preparation is rolled back by the same process; one *)
(* of the rollback ends it.                                                *)
GiveUp == Go("resume") /\ phase' = "rollback"
Fail == Go("idle") /\ phase' = "failed"

\* _verify_regular_at: identity and content (the mode and the owner with it)
Is(file, id, content) == file = File(id, content)

-----------------------------------------------------------------------------
(* persist_env_backup: metadata, backup, metadata.                         *)
PrepareBackup ==
    /\ At("backup")
    /\ backup' = [state |-> "preparing", absent |-> env = Missing,
                  digest |-> env.content, file |-> FALSE]
    /\ Go("save")
    /\ UNCHANGED <<files, forward, reverse, op, phase, spent>>

SaveBackup ==
    /\ At("save")
    /\ backup' = [backup EXCEPT !.file = ~BeforeAbsent]
    /\ Go("saved")
    /\ UNCHANGED <<files, forward, reverse, op, phase, spent>>

BackupReady ==
    /\ At("saved")
    /\ backup' = [backup EXCEPT !.state = "ready"]
    /\ Go("intent")
    /\ UNCHANGED <<files, forward, reverse, op, phase, spent>>

(* The plan goes on only with the content it backed up.                    *)
RecordIntent ==
    /\ At("intent")
    /\ IF env.content = Before
       THEN /\ op' = [op EXCEPT !.status = "intent"]
            /\ pc' = "preparing" /\ seen' = env.id
            /\ UNCHANGED phase
       ELSE GiveUp /\ UNCHANGED op
    /\ UNCHANGED <<files, backup, forward, reverse, spent>>

-----------------------------------------------------------------------------
(* publish_environment.                                                    *)
WriteForward(at, candidate, to) ==
    /\ forward' = Wal(at, seen, candidate)
    /\ Go(to)
    /\ UNCHANGED <<files, backup, reverse, op, phase, spent>>

BeginPublication ==
    /\ At("preparing")
    /\ IF BeforeAbsent /\ env # Missing
       THEN GiveUp /\ UNCHANGED <<files, backup, forward, reverse, op, spent>>
       ELSE WriteForward("preparing", "none", "create")
CreateCandidate ==
    /\ At("create")
    /\ beside' = File("second", "partial")
    /\ Go("fill")
    /\ UNCHANGED <<env, private, journal, spent>>
FillCandidate ==
    /\ At("fill")
    /\ beside' = File("second", "after")
    /\ Go("ready")
    /\ UNCHANGED <<env, private, journal, spent>>
CandidateReady == At("ready") /\ WriteForward("candidate_ready", beside.id, "pending")
PublishPending == At("pending") /\ WriteForward("publish_pending", beside.id, "check")

ForwardSourceUnchanged ==
    IF BeforeAbsent THEN env = Missing ELSE Is(env, seen, Before)
CheckSource ==
    /\ At("check")
    /\ IF ForwardSourceUnchanged THEN Go("publish") /\ UNCHANGED phase ELSE GiveUp
    /\ UNCHANGED <<files, backup, forward, reverse, op, spent>>

(* The exchange cannot be made conditional on what was checked; a rename   *)
(* that may not replace anything can.                                      *)
Publish ==
    /\ At("publish")
    /\ IF (env = Missing) = BeforeAbsent
       THEN /\ env' = beside /\ beside' = env
            /\ Go("observe")
            /\ UNCHANGED phase
       ELSE GiveUp /\ UNCHANGED <<env, beside>>
    /\ UNCHANGED <<private, backup, forward, reverse, op, spent>>

Observe ==
    /\ At("observe")
    /\ IF Is(env, "second", "after")
       THEN WriteForward("applied", "second", "clean")
       ELSE GiveUp /\ UNCHANGED <<files, backup, forward, reverse, op, spent>>

UnlinksAnything == TRUE
OldContentOnly == beside = Missing \/ Is(beside, seen, Before)
UnlinkOld ==
    /\ At("clean")
    /\ IF OldContentOnly
       THEN beside' = Missing /\ Go("clear") /\ UNCHANGED phase
       ELSE GiveUp /\ UNCHANGED beside
    /\ UNCHANGED <<env, private, backup, forward, reverse, op, spent>>

ClearForward ==
    /\ At("clear")
    /\ forward' = NoWal
    /\ Go("done")
    /\ UNCHANGED <<files, backup, reverse, op, phase, spent>>

RecordDone ==
    /\ At("done")
    /\ op' = [op EXCEPT !.status = "done"]
    /\ Go("commit")
    /\ UNCHANGED <<files, backup, forward, reverse, phase, spent>>

Commit ==
    /\ At("commit")
    /\ IF env.content = "after" THEN phase' = "committed" /\ Go("idle") ELSE GiveUp
    /\ UNCHANGED <<files, backup, forward, reverse, op, spent>>

-----------------------------------------------------------------------------
(* A later process, or this one, rolls back.  A backup that was being made *)
(* is taken as it is found: with no file there was nothing to back up.     *)
Reopen ==
    /\ At("idle") /\ phase \in {"open", "rollback"} /\ backup.state # "none"
    /\ phase' = "rollback"
    /\ backup' = IF backup.state = "ready" THEN backup
                 ELSE [backup EXCEPT !.state = "ready", !.absent = ~backup.file,
                                     !.digest = IF backup.file THEN @ ELSE "none"]
    /\ Go("resume")
    /\ UNCHANGED <<files, forward, reverse, op, spent>>

\* _resume_forward_environment: which side of the exchange the files are on
EnvBefore == IF BeforeAbsent THEN env = Missing ELSE Is(env, forward.source, Before)
EnvAfter == Is(env, forward.candidate, "after")
CandidateAfter == Is(beside, forward.candidate, "after")
CandidateBefore == Is(beside, forward.source, Before)
PreState == EnvBefore /\ (CandidateAfter \/ beside = Missing)
NeverPublished == FALSE
PostState == EnvAfter /\ (beside = Missing \/ (~BeforeAbsent /\ CandidateBefore))

ForwardSafe ==
    CASE forward.phase = "none" -> TRUE
      [] forward.phase = "preparing" ->
            EnvBefore /\ (beside = Missing \/ beside.content = "after")
      [] forward.phase = "candidate_ready" -> PreState
      [] forward.phase = "publish_pending" -> PreState \/ PostState
      [] forward.phase = "applied" -> PostState

ResumeForward ==
    /\ At("resume")
    /\ IF ForwardSafe
       THEN /\ beside' = IF forward = NoWal THEN beside ELSE Missing
            /\ Go("resumed")
            /\ UNCHANGED phase
       ELSE Fail /\ UNCHANGED beside
    /\ UNCHANGED <<env, private, backup, forward, reverse, op, spent>>
ForwardResumed ==
    /\ At("resumed")
    /\ forward' = NoWal
    /\ Go(IF op.status = "none" THEN "complete" ELSE "undo")
    /\ UNCHANGED <<files, backup, reverse, op, phase, spent>>

\* _classify_intent: by content alone, as an edit that restored it would look
NotExecuted == env.content = Before
Executed == env.content = "after"

(* One operation of resume_transaction_rollback.                           *)
Restorable == backup.absent = BeforeAbsent /\ (backup.file \/ BeforeAbsent)
ContinueRestore ==
    /\ At("undo") /\ reverse # NoWal
    /\ IF op.undo = "intent" /\ Restorable
       THEN pc' = "directory" /\ seen' = "any" /\ UNCHANGED phase
       ELSE Fail
    /\ UNCHANGED <<files, backup, forward, reverse, op, spent>>
NothingToUndo ==
    /\ At("undo") /\ reverse = NoWal /\ NotExecuted
    /\ IF op.status = "done" /\ op.undo = "none"
       THEN Fail /\ UNCHANGED op
       ELSE /\ op' = [op EXCEPT !.undo = "done"]
            /\ Go("complete")
            /\ UNCHANGED phase
    /\ UNCHANGED <<files, backup, forward, reverse, spent>>
RecordUndoIntent ==
    /\ At("undo") /\ reverse = NoWal /\ Executed /\ op.undo # "done"
    /\ op' = [op EXCEPT !.undo = "intent"]
    /\ Go("begin")
    /\ UNCHANGED <<files, backup, forward, reverse, phase, spent>>
Conflict ==
    /\ At("undo") /\ reverse = NoWal
    /\ ~NotExecuted /\ (Executed => op.undo = "done")
    /\ Fail
    /\ UNCHANGED <<files, backup, forward, reverse, op, spent>>

(* restore_environment.                                                    *)
BeginRestore ==
    /\ At("begin")
    /\ IF Executed /\ Restorable
       THEN /\ reverse' = Wal("preparing", "none", "none")
            /\ pc' = "directory" /\ seen' = env.id
            /\ UNCHANGED phase
       ELSE Fail /\ UNCHANGED reverse
    /\ UNCHANGED <<files, backup, forward, op, spent>>

Places == [preparing |-> "source", exchange_pending |-> "pair", applied |-> "applied",
           absence_pending |-> "move", removed |-> "removed"]
OpenDirectory ==
    /\ At("directory")
    /\ private' = [private EXCEPT !.made = TRUE]
    /\ Go(Places[reverse.phase])
    /\ UNCHANGED <<env, beside, journal, spent>>

Replacement == IF BeforeAbsent THEN "empty" ELSE Before
VerifySource ==
    /\ At("source")
    /\ IF env.content = "after" /\ seen \in {"any", env.id} /\ private.removed = Missing
       THEN pc' = "candidate" /\ seen' = env.id /\ UNCHANGED phase
       ELSE Fail
    /\ UNCHANGED <<files, backup, forward, reverse, op, spent>>

\* _create_or_verify_private_file, over what an earlier attempt left
MakePrivate ==
    /\ At("candidate") /\ private.candidate.content # Replacement
    /\ IF private.candidate.content = "raw"
       THEN Fail /\ UNCHANGED private
       ELSE /\ \E c \in {"raw", IF BeforeAbsent THEN "empty" ELSE "partial"} :
                    private' = [private EXCEPT !.candidate = File("third", c)]
            /\ Go("write")
            /\ UNCHANGED phase
    /\ UNCHANGED <<env, beside, backup, forward, reverse, op, spent>>
WritePrivate ==
    /\ At("write")
    /\ private' = [private EXCEPT !.candidate.content = Replacement]
    /\ Go("candidate")
    /\ UNCHANGED <<env, beside, journal, spent>>

WriteReverse(at, source, to) ==
    /\ reverse' = Wal(at, source, "third")
    /\ Go(to)
    /\ UNCHANGED <<files, backup, forward, op, phase, spent>>
ExchangePending ==
    /\ At("candidate") /\ private.candidate.content = Replacement
    /\ WriteReverse("exchange_pending", seen, "pair")

SourceHere(file) == Is(file, reverse.source, "after")
ReplacementHere(file) == Is(file, "third", Replacement)
VerifyPair ==
    /\ At("pair")
    /\ IF SourceHere(env) /\ ReplacementHere(private.candidate)
       THEN Go("exchange") /\ UNCHANGED phase
       ELSE IF env.id = "third" /\ private.candidate.id = reverse.source
            THEN Go("relocated") /\ UNCHANGED phase
            ELSE Fail
    /\ UNCHANGED <<files, backup, forward, reverse, op, spent>>
ExchangeBack ==
    /\ At("exchange")
    /\ IF env = Missing THEN Fail /\ UNCHANGED <<env, private>>
       ELSE /\ env' = private.candidate
            /\ private' = [private EXCEPT !.candidate = env]
            /\ Go("relocated")
            /\ UNCHANGED phase
    /\ UNCHANGED <<beside, backup, forward, reverse, op, spent>>

(* What came back is not what was checked: it is put where it was, if the  *)
(* file is still the one this restoration put there.                       *)
VerifyRelocated ==
    /\ At("relocated")
    /\ IF ReplacementHere(env) /\ SourceHere(private.candidate)
       THEN WriteReverse("applied", reverse.source, "applied")
       ELSE /\ Fail
            /\ IF ReplacementHere(env) /\ private.candidate # Missing
               THEN /\ env' = private.candidate
                    /\ private' = [private EXCEPT !.candidate = env]
               ELSE UNCHANGED <<env, private>>
            /\ UNCHANGED <<beside, backup, forward, reverse, op, spent>>

\* Each unlink checks what it removes, and accepts that it is gone already.
Removable == private.candidate = Missing \/ SourceHere(private.candidate)

(* The file was there before: only the published content is left to remove.*)
SettleExisting ==
    /\ At("applied") /\ ~BeforeAbsent
    /\ IF ReplacementHere(env) /\ Removable
       THEN /\ private' = [private EXCEPT !.candidate = Missing]
            /\ Go("close")
            /\ UNCHANGED phase
       ELSE Fail /\ UNCHANGED private
    /\ UNCHANGED <<env, beside, backup, forward, reverse, op, spent>>

(* It was not: the placeholder is moved away, and both are removed.        *)
SettleAbsent ==
    /\ At("applied") /\ BeforeAbsent
    /\ IF ReplacementHere(env) /\ SourceHere(private.candidate) /\ private.removed = Missing
       THEN WriteReverse("absence_pending", reverse.source, "move")
       ELSE Fail /\ UNCHANGED <<files, backup, forward, reverse, op, spent>>

PutBackRemoved ==
    IF env = Missing /\ private.removed # Missing
    THEN env' = private.removed /\ private' = [private EXCEPT !.removed = Missing]
    ELSE UNCHANGED <<env, private>>
VerifyMove ==
    /\ At("move")
    /\ UNCHANGED <<beside, backup, forward, reverse, op, spent>>
    /\ CASE SourceHere(private.candidate) /\ ReplacementHere(env) /\ private.removed = Missing ->
                Go("rename") /\ UNCHANGED <<env, private, phase>>
         [] SourceHere(private.candidate) /\ env = Missing /\ private.removed.id = "third" ->
                Go("gone") /\ UNCHANGED <<env, private, phase>>
         [] OTHER ->
                /\ Fail
                /\ IF SourceHere(private.candidate) /\ private.removed # Missing
                   THEN PutBackRemoved ELSE UNCHANGED <<env, private>>
MoveAway ==
    /\ At("rename")
    /\ IF env = Missing THEN Fail /\ UNCHANGED <<env, private>>
       ELSE /\ private' = [private EXCEPT !.removed = env]
            /\ env' = Missing
            /\ Go("gone")
            /\ UNCHANGED phase
    /\ UNCHANGED <<beside, backup, forward, reverse, op, spent>>
VerifyGone ==
    /\ At("gone")
    /\ IF ReplacementHere(private.removed) /\ env = Missing
       THEN WriteReverse("removed", reverse.source, "removed")
       ELSE /\ Fail /\ UNCHANGED <<beside, backup, forward, reverse, op, spent>>
            /\ IF ReplacementHere(private.removed) THEN UNCHANGED <<env, private>>
               ELSE PutBackRemoved

RemoveSource ==
    /\ At("removed")
    /\ IF env = Missing /\ Removable
       THEN /\ private' = [private EXCEPT !.candidate = Missing]
            /\ Go("placeholder")
            /\ UNCHANGED phase
       ELSE Fail /\ UNCHANGED private
    /\ UNCHANGED <<env, beside, backup, forward, reverse, op, spent>>
RemovePlaceholder ==
    /\ At("placeholder")
    /\ private' = [private EXCEPT !.removed = Missing]
    /\ Go("close")
    /\ UNCHANGED <<env, beside, journal, spent>>

RemoveDirectory ==
    /\ At("close")
    /\ private' = NoDirectory
    /\ Go("forget")
    /\ UNCHANGED <<env, beside, journal, spent>>
ClearReverse ==
    /\ At("forget")
    /\ reverse' = NoWal
    /\ Go("check_undone")
    /\ UNCHANGED <<files, backup, forward, op, phase, spent>>
RecordUndone ==
    /\ At("check_undone")
    /\ IF NotExecuted
       THEN /\ op' = [op EXCEPT !.undo = "done"]
            /\ Go("complete")
            /\ UNCHANGED phase
       ELSE Fail /\ UNCHANGED op
    /\ UNCHANGED <<files, backup, forward, reverse, spent>>
Complete ==
    /\ At("complete")
    /\ phase' = "undone"
    /\ Go("idle")
    /\ UNCHANGED <<files, backup, forward, reverse, op, spent>>

-----------------------------------------------------------------------------
Kill ==
    /\ pc \notin {"idle", "backup"} /\ kills < MaxKills
    /\ kills' = kills + 1
    /\ pc' = "idle" /\ seen' = "none"
    /\ UNCHANGED <<files, journal, edits>>

\* An editor writes the file in place, or writes a new one over it; the
\* operator may also save it unchanged, or remove it.
Edit ==
    /\ edits < MaxEdits /\ edits' = edits + 1
    /\ pc # "backup" /\ phase \in {"open", "rollback"}
    /\ env' \in {File(IF env = Missing THEN "operator" ELSE env.id, "edited"),
                 File("operator", "edited"), File("operator", env.content), Missing} \ {env}
    /\ env' # File("operator", "none")
    /\ UNCHANGED <<beside, private, journal, process, kills>>

Forward ==
    \/ PrepareBackup \/ SaveBackup \/ BackupReady \/ RecordIntent \/ BeginPublication
    \/ CreateCandidate \/ FillCandidate \/ CandidateReady \/ PublishPending \/ CheckSource
    \/ Publish \/ Observe \/ UnlinkOld \/ ClearForward \/ RecordDone \/ Commit
Backward ==
    \/ Reopen \/ ResumeForward \/ ForwardResumed
    \/ ContinueRestore \/ NothingToUndo \/ RecordUndoIntent \/ Conflict
    \/ BeginRestore \/ OpenDirectory \/ VerifySource \/ MakePrivate \/ WritePrivate
    \/ ExchangePending \/ VerifyPair \/ ExchangeBack \/ VerifyRelocated
    \/ SettleExisting \/ SettleAbsent \/ VerifyMove \/ MoveAway \/ VerifyGone
    \/ RemoveSource \/ RemovePlaceholder \/ RemoveDirectory \/ ClearReverse
    \/ RecordUndone \/ Complete

Next == Forward \/ Backward \/ Kill \/ Edit
Spec == Init /\ [][Next]_vars

\* A process goes on, and the operator runs the recovery after a kill.
Work == Forward \/ Backward
Fairness == WF_vars(Work)

-----------------------------------------------------------------------------
\* _validate_forward_environment_payload, _validate_env_rollback_payload
ForwardReadable ==
    forward # NoWal =>
        /\ (forward.source = "none") = BeforeAbsent
        /\ (forward.candidate = "none") = (forward.phase = "preparing")
        /\ forward.source = "none" \/ forward.source # forward.candidate
ReverseReadable ==
    reverse # NoWal =>
        /\ (reverse.source = "none") = (reverse.phase = "preparing")
        /\ (reverse.candidate = "none") = (reverse.phase = "preparing")
        /\ reverse.phase # "preparing" => reverse.source # reverse.candidate
        /\ ~BeforeAbsent => reverse.phase \in {"preparing", "exchange_pending", "applied"}

Everywhere == {env, beside, private.candidate, private.removed}
HalfMade == \E f \in Everywhere : f.content \in {"raw", "partial"}
NothingLeft == beside = Missing /\ private = NoDirectory /\ forward = NoWal /\ reverse = NoWal

\* A transaction that ended is the environment of before or of after with no
\* other file left; without an edit it fails only over a candidate that a kill
\* left half made (_resume_forward_environment, _create_or_verify_private_file).
EnvironmentWhole ==
    /\ phase = "undone" => NothingLeft /\ (edits = 0 => env.id # "second"
                                                      /\ (op.status # "none" => env.content = Before))
    /\ phase = "committed" => NothingLeft
    /\ phase = "failed" /\ edits = 0 => kills > 0 /\ HalfMade
    /\ phase \in {"open", "rollback"} => ForwardReadable /\ ReverseReadable

\* What the operator wrote is never unlinked: it stays in place, or in one of
\* the files the transaction keeps, until the operator changes it again.
EditKept ==
    [][UNCHANGED edits =>
        \A f \in Everywhere : f.content = "edited" => f \in {env', beside',
                                        private'.candidate, private'.removed}]_vars

\* Every transaction is decided in the end.
Quiet == pc = "idle" /\ phase \in {"undone", "committed", "failed"}
EnvironmentSettles == []<>Quiet
=============================================================================
