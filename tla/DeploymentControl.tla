-------------------------- MODULE DeploymentControl --------------------------
(***************************************************************************)
(* Who may do what to a deployment on one machine: the lock, the identity, *)
(* the marker that it was started, and the control records of the commands *)
(* that adopt an existing deployment or clear the marker again.            *)
(*                                                                         *)
(*   tools/offline_env.py               prepare_environment, the identity  *)
(*   tools/offline_compose.py           run_compose                        *)
(*   tools/offline_recovery.py          adopt_existing, clear_start_marker *)
(*   tools/offline_deployment_state.py  the lock, the files                *)
(*                                                                         *)
(* A command reads what it plans with, waits for the lock, and under it    *)
(* checks again.  Its steps are the durable writes.  A killed process      *)
(* loses the lock; the docker child of a killed wrapper goes on without    *)
(* one.  Inside a preparation is PreparationTransaction; here it is an     *)
(* incomplete transaction, and new secrets.                                *)
(***************************************************************************)
EXTENDS Naturals, FiniteSets

CONSTANTS
    Procs,          \* processes of the operator
    MaxRuns,        \* bound: commands started, but for those that resume one
    MaxKills,       \* bound: processes killed
    MaxFaults       \* bound: answers docker does not give

VARIABLES
    identity,       \* deployment-identity.json: which identity, or None
    marker,         \* the start marker: the identity it names, or None
    control,        \* the directory in control-transactions and its record
    backup,         \* start-marker.backup in it
    receipt,        \* the receipt of that transaction is in history
    transaction,    \* an incomplete preparation
    secrets,        \* how often they were rotated
    runtime,        \* containers, an initialized PostgreSQL, and its secrets
    docker,         \* what docker compose is doing, and whether for a wrapper
    outlived,       \* a docker compose went on after its wrapper was killed
    holder,         \* who holds the deployment lock
    cmd, pc, plan,  \* of each process; plan is what it read before the lock
    used            \* identities issued, runs, kills, faults

None == 0
files == <<identity, marker, control, backup, receipt, transaction, secrets>>
world == <<runtime, docker, outlived>>
process == <<holder, cmd, pc, plan>>
vars == <<files, world, process, used>>

Rest == [command |-> "none"]
Bare == [command |-> "bare"]        \* the directory is there, control.json is not
Initializing == [command |-> "initialize"]
NewRecord(command, id) ==
    [command |-> command, phase |-> "planned", identity |-> id, runtime |-> FALSE]

Running == runtime.containers \/ runtime.data

Commands == {"prepare", "initialize", "up", "down", "clear", "adopt", "recover"}
Resumable == {"clear", "adopt"}

(* A machine with nothing, one that is prepared, one that was started, or  *)
(* one an older release was started on.                                    *)
Init ==
    /\ identity \in {None, 1} /\ marker \in {None, identity}
    /\ control = Rest /\ backup = None
    /\ receipt = FALSE /\ transaction = FALSE /\ secrets = 0
    /\ runtime \in [containers : BOOLEAN, data : BOOLEAN, secrets : {0}]
    /\ identity # None /\ marker = None => ~Running
    /\ docker = [verb |-> "none", by |-> None] /\ outlived = FALSE
    /\ holder = None
    /\ cmd = [p \in Procs |-> "none"] /\ pc = [p \in Procs |-> "idle"]
    /\ plan = [p \in Procs |-> None]
    /\ used = [ids |-> identity, runs |-> 0, kills |-> 0, faults |-> 0]

Started == marker # None
NoIncompleteTransactions == ~transaction /\ control = Rest
RotationAllowed == ~Started /\ ~runtime.data

At(p, place) == pc[p] = place
Runs(p, command, place) == cmd[p] = command /\ pc[p] = place
Go(p, place) == pc' = [pc EXCEPT ![p] = place] /\ UNCHANGED <<holder, cmd, plan>>
Leave(p) ==
    /\ holder' = None /\ pc' = [pc EXCEPT ![p] = "idle"]
    /\ UNCHANGED <<cmd, plan>>
Refuse(p) == Leave(p) /\ UNCHANGED files

-----------------------------------------------------------------------------
(* A command begins: what it reads and decides before it has the lock.     *)

Planned(p, command) ==
    CASE command = "prepare" -> identity # None /\ RotationAllowed /\ plan' = [plan EXCEPT ![p] = identity]
      [] command \in {"up", "down"} -> identity # None /\ plan' = [plan EXCEPT ![p] = identity]
      [] command = "initialize" ->
            plan' = [plan EXCEPT ![p] = IF identity = None THEN used.ids + 1 ELSE identity]
      [] command = "adopt" -> plan' = [plan EXCEPT ![p] = used.ids + 1]
      [] OTHER -> plan' = [plan EXCEPT ![p] = None]

Begin(p, command) ==
    /\ At(p, "idle")
    /\ Planned(p, command)
    /\ cmd' = [cmd EXCEPT ![p] = command]
    /\ pc' = [pc EXCEPT ![p] = "wait"]
    /\ UNCHANGED <<files, world, holder>>

Issues(command) == command = "adopt" \/ (command = "initialize" /\ identity = None)
Start(p, command) ==
    /\ used.runs < MaxRuns
    /\ command = "recover" => transaction
    /\ used' = [used EXCEPT !.runs = @ + 1, !.ids = IF Issues(command) THEN @ + 1 ELSE @]
    /\ Begin(p, command)

\* The operator repeats the command whose record is there.
Retry(p) ==
    /\ control.command \in Resumable
    /\ \A q \in Procs : At(q, "idle")
    /\ Begin(p, control.command)
    /\ UNCHANGED used

\* FcntlLockBackend.acquire: tries again until the time is over.
Acquire(p) ==
    /\ At(p, "wait") /\ holder = None
    /\ holder' = p /\ pc' = [pc EXCEPT ![p] = "locked"]
    /\ UNCHANGED <<files, world, cmd, plan, used>>
GiveUp(p) ==
    /\ At(p, "wait") /\ holder # None
    /\ pc' = [pc EXCEPT ![p] = "idle"]
    /\ UNCHANGED <<files, world, holder, cmd, plan, used>>

-----------------------------------------------------------------------------
(* prepare_environment, rotating the secrets; --initialize-state.          *)

TrustPlan == TRUE           \* mutant: the plan made before the lock is executed
PlanAgain == RotationAllowed
Prepare(p) ==
    /\ Runs(p, "prepare", "locked")
    /\ IF identity = plan[p] /\ NoIncompleteTransactions /\ PlanAgain
       THEN /\ transaction' = TRUE /\ Go(p, "rotate")
            /\ UNCHANGED <<identity, marker, control, backup, receipt, secrets>>
       ELSE Refuse(p)
    /\ UNCHANGED <<world, used>>

Rotate(p) ==
    /\ At(p, "rotate")
    /\ secrets' = secrets + 1
    /\ Go(p, "clean")
    /\ UNCHANGED <<identity, marker, control, backup, receipt, transaction, world, used>>

Clean(p) ==
    /\ At(p, "clean")
    /\ transaction' = FALSE /\ Leave(p)
    /\ UNCHANGED <<identity, marker, control, backup, receipt, secrets, world, used>>

InitializationGates == ~Started /\ ~Running
Initialize(p) ==
    /\ Runs(p, "initialize", "locked")
    /\ IF identity # None
       THEN Go(p, "execute") /\ UNCHANGED files
       ELSE IF NoIncompleteTransactions /\ InitializationGates
       THEN /\ control' = Initializing /\ Go(p, "identity")
            /\ UNCHANGED <<identity, marker, backup, receipt, transaction, secrets>>
       ELSE Refuse(p)
    /\ UNCHANGED <<world, used>>

PublishIdentity(p) ==
    /\ Runs(p, "initialize", "identity")
    /\ identity' = plan[p]
    /\ Go(p, "committed")
    /\ UNCHANGED <<marker, control, backup, receipt, transaction, secrets, world, used>>

FinishInitialization(p) ==
    /\ At(p, "committed")
    /\ control' = Rest /\ Go(p, "execute")
    /\ UNCHANGED <<identity, marker, backup, receipt, transaction, secrets, world, used>>

Execute(p) ==
    /\ At(p, "execute")
    /\ IF NoIncompleteTransactions
       THEN /\ transaction' = TRUE /\ Go(p, "clean")
            /\ UNCHANGED <<identity, marker, control, backup, receipt, secrets>>
       ELSE Refuse(p)
    /\ UNCHANGED <<world, used>>

\* resume-rollback and finalize-cleanup
Recover(p) ==
    /\ Runs(p, "recover", "locked")
    /\ transaction' = FALSE /\ Leave(p)
    /\ UNCHANGED <<identity, marker, control, backup, receipt, secrets, world, used>>

-----------------------------------------------------------------------------
(* run_compose: under the lock until docker compose returns.               *)

MarkerIs(id) == marker \in {None, id} /\ marker' = id      \* create_start_marker

Compose(p) ==
    /\ cmd[p] \in {"up", "down"} /\ At(p, "locked")
    /\ IF identity = plan[p] /\ NoIncompleteTransactions /\ (cmd[p] = "up" => marker \in {None, identity})
       THEN /\ IF cmd[p] = "up" THEN MarkerIs(identity) ELSE UNCHANGED marker
            /\ Go(p, "run")
            /\ UNCHANGED <<identity, control, backup, receipt, transaction, secrets>>
       ELSE Refuse(p)
    /\ UNCHANGED <<world, used>>

RunDocker(p) ==
    /\ At(p, "run")
    /\ docker' = [verb |-> cmd[p], by |-> p]
    /\ Go(p, "docker")
    /\ UNCHANGED <<files, runtime, outlived, used>>

\* Containers start with the secrets of the moment; PostgreSQL keeps the
\* password it was initialized with.
WithContainers == [runtime EXCEPT !.containers = TRUE,
                                  !.secrets = IF runtime.data THEN @ ELSE secrets]
DockerWorks ==
    /\ \/ docker.verb = "up" /\ runtime' = WithContainers
       \/ docker.verb = "down" /\ runtime' = [runtime EXCEPT !.containers = FALSE]
    /\ docker' = [docker EXCEPT !.verb = "done"]
    /\ UNCHANGED <<files, outlived, process, used>>

DockerFails ==
    /\ docker.verb \in {"up", "down"}
    /\ docker' = [docker EXCEPT !.verb = "done"]
    /\ UNCHANGED <<files, runtime, outlived, process, used>>

DockerReturns ==
    /\ docker.verb = "done"
    /\ docker' = [verb |-> "none", by |-> None]
    /\ IF docker.by = None THEN UNCHANGED process ELSE Leave(docker.by)
    /\ UNCHANGED <<files, runtime, outlived, used>>

PostgresInitializes ==
    /\ runtime.containers /\ ~runtime.data
    /\ runtime' = [runtime EXCEPT !.data = TRUE]
    /\ UNCHANGED <<files, docker, outlived, process, used>>

-----------------------------------------------------------------------------
(* ControlJournal: a directory, then the record in it; every advance       *)
(* replaces the record; remove deletes the files, then the directory.      *)

\* where a resumed command goes on
ResumeAt(r) ==
    IF r.command = "adopt" THEN (IF receipt THEN "adopted" ELSE "examine")
    ELSE CASE r.phase = "planned" -> "check"
           [] r.phase = "checked" -> "gates"
           [] r.phase = "backed" -> IF receipt THEN "receipt" ELSE "gates"
           [] r.phase = "written" -> "unlink"
           [] r.phase = "complete" -> "drop"

Opens(p) == control.command = cmd[p]        \* ControlJournal.open
SelectControl(p) ==
    /\ cmd[p] \in Resumable /\ At(p, "locked")
    /\ IF cmd[p] = "clear" /\ identity = None THEN Refuse(p)
       ELSE IF control = Rest
       THEN /\ control' = Bare /\ Go(p, "write")
            /\ UNCHANGED <<identity, marker, backup, receipt, transaction, secrets>>
       ELSE IF Opens(p)
       THEN Go(p, ResumeAt(control)) /\ UNCHANGED files
       ELSE Refuse(p)
    /\ UNCHANGED <<world, used>>

WriteRecord(p) ==
    /\ At(p, "write")
    /\ control' = NewRecord(cmd[p], IF cmd[p] = "clear" THEN identity ELSE plan[p])
    /\ Go(p, IF cmd[p] = "clear" THEN "check" ELSE "examine")
    /\ UNCHANGED <<identity, marker, backup, receipt, transaction, secrets, world, used>>

Advance(p, phase, place) ==
    /\ control' = [control EXCEPT !.phase = phase]
    /\ Go(p, place)
    /\ UNCHANGED <<identity, marker, backup, receipt, transaction, secrets, world, used>>

RemoveFile(p) ==
    /\ pc[p] \in {"drop", "rmdir"}
    /\ \/ At(p, "drop") /\ control' = Bare /\ Go(p, "rmdir") /\ UNCHANGED backup
       \/ backup # None /\ backup' = None /\ UNCHANGED <<control, process>>
    /\ UNCHANGED <<identity, marker, receipt, transaction, secrets, world, used>>

RemoveDirectory(p) ==
    /\ At(p, "rmdir") /\ backup = None
    /\ control' = Rest /\ receipt' = FALSE /\ Leave(p)
    /\ UNCHANGED <<identity, marker, backup, transaction, secrets, world, used>>

Writing(p) == SelectControl(p) \/ WriteRecord(p) \/ RemoveFile(p) \/ RemoveDirectory(p)

\* Docker cannot be asked: the gate counts as closed, an adoption stops.
Unreachable == used.faults < MaxFaults /\ used' = [used EXCEPT !.faults = @ + 1]
Reachable == UNCHANGED used

-----------------------------------------------------------------------------
(* clear_start_marker                                                      *)

ClearGates == ~transaction /\ ~Running

Check(p) ==
    /\ At(p, "check")
    /\ \/ marker = identity /\ ClearGates /\ Advance(p, "checked", "gates")
       \/ ~(marker = identity /\ ClearGates) /\ Reachable /\ Refuse(p) /\ UNCHANGED world
       \/ Unreachable /\ Refuse(p) /\ UNCHANGED world

\* A gate that closed in the meantime: what was moved is moved back.
Restore(p) ==
    IF control.phase = "checked" THEN Go(p, "drop") /\ UNCHANGED files
    ELSE IF marker = None /\ backup # None
    THEN /\ marker' = backup /\ backup' = None /\ Go(p, "drop")
         /\ UNCHANGED <<identity, control, receipt, transaction, secrets>>
    ELSE Refuse(p)
Gates(p) ==
    /\ At(p, "gates")
    /\ \/ ClearGates /\ Reachable /\ UNCHANGED files
          /\ Go(p, IF control.phase = "checked" THEN "move" ELSE "receipt")
       \/ ~ClearGates /\ Reachable /\ Restore(p)
       \/ Unreachable /\ Restore(p)
    /\ UNCHANGED world

MoveMarker(p) ==
    /\ At(p, "move")
    /\ IF backup = None /\ marker = identity
       THEN /\ backup' = marker /\ marker' = None /\ Go(p, "moved")
            /\ UNCHANGED <<identity, control, receipt, transaction, secrets>>
       ELSE IF backup # None /\ marker = None
       THEN Go(p, "moved") /\ UNCHANGED files
       ELSE Refuse(p)
    /\ UNCHANGED <<world, used>>
RecordMoved(p) == At(p, "moved") /\ Advance(p, "backed", "receipt")

WriteReceipt(p) ==
    /\ Runs(p, "clear", "receipt")
    /\ IF marker = None
       THEN /\ receipt' = TRUE /\ Go(p, "receipted")
            /\ UNCHANGED <<identity, marker, control, backup, transaction, secrets>>
       ELSE Refuse(p)
    /\ UNCHANGED <<world, used>>
RecordReceipt(p) == At(p, "receipted") /\ Advance(p, "written", "unlink")

UnlinkBackup(p) ==
    /\ At(p, "unlink")
    /\ backup' = None /\ Go(p, "cleared")
    /\ UNCHANGED <<identity, marker, control, receipt, transaction, secrets, world, used>>
RecordCleared(p) == At(p, "cleared") /\ Advance(p, "complete", "drop")

Clear(p) ==
    \/ Check(p) \/ Gates(p) \/ MoveMarker(p) \/ RecordMoved(p)
    \/ WriteReceipt(p) \/ RecordReceipt(p) \/ UnlinkBackup(p) \/ RecordCleared(p)

-----------------------------------------------------------------------------
(* adopt_existing: the marker of what already ran comes before the         *)
(* identity, which is what lets other commands in.                         *)

Candidate == control.identity

\* The record remembers that the runtime was seen.
Examine(p) ==
    /\ At(p, "examine")
    /\ \/ /\ ~transaction /\ Reachable
          /\ IF control.phase = "planned"
             THEN control' = [control EXCEPT !.phase = "created"] /\ UNCHANGED process
             ELSE /\ control' = [control EXCEPT
                                    !.runtime = @ \/ Running,
                                    !.phase = IF @ = "created" THEN "checked" ELSE @]
                  /\ Go(p, CASE control'.phase = "checked" -> "mark"
                             [] control'.phase = "marked" -> "remark"
                             [] control'.phase = "complete" -> "final")
          /\ UNCHANGED <<identity, marker, backup, receipt, transaction, secrets>>
       \/ transaction /\ Reachable /\ Refuse(p)
       \/ ~transaction /\ control.phase # "planned" /\ Unreachable /\ Refuse(p)
    /\ UNCHANGED world

MarkerAgrees == marker \in IF control.runtime THEN {None, Candidate} ELSE {None}
Mark(p, place) ==
    /\ IF MarkerAgrees
       THEN /\ IF control.runtime THEN MarkerIs(Candidate) ELSE UNCHANGED marker
            /\ Go(p, place)
            /\ UNCHANGED <<identity, control, backup, receipt, transaction, secrets>>
       ELSE Refuse(p)
    /\ UNCHANGED <<world, used>>

MarkFirst(p) == At(p, "mark") /\ Mark(p, "noted")
RecordMarked(p) == At(p, "noted") /\ Advance(p, "marked", "remark")
MarkAgain(p) == At(p, "remark") /\ Mark(p, "adopt")

AdoptIdentity(p) ==
    /\ At(p, "adopt")
    /\ IF identity \in {None, Candidate}
       THEN /\ identity' = Candidate /\ Go(p, "named")
            /\ UNCHANGED <<marker, control, backup, receipt, transaction, secrets>>
       ELSE Refuse(p)
    /\ UNCHANGED <<world, used>>
RecordAdopted(p) == At(p, "named") /\ Advance(p, "complete", "final")

MarkLast(p) ==
    /\ At(p, "final")
    /\ IF control.runtime THEN Mark(p, "receipt")
       ELSE Go(p, "receipt") /\ UNCHANGED <<files, world, used>>

AdoptionReceipt(p) ==
    /\ Runs(p, "adopt", "receipt")
    /\ receipt' = TRUE /\ Go(p, "drop")
    /\ UNCHANGED <<identity, marker, control, backup, transaction, secrets, world, used>>

\* The receipt is there and so is the record: the runtime is looked at again.
LookAgain(p) ==
    /\ At(p, "adopted")
    /\ \/ /\ Reachable
          /\ control' = [control EXCEPT !.runtime = @ \/ Running]
          /\ Go(p, "supplement")
          /\ UNCHANGED <<identity, marker, backup, receipt, transaction, secrets>>
       \/ Unreachable /\ Refuse(p)
    /\ UNCHANGED world
Supplement(p) ==
    /\ At(p, "supplement")
    /\ IF control.runtime THEN Mark(p, "drop")
       ELSE Go(p, "drop") /\ UNCHANGED <<files, world, used>>

Adopt(p) ==
    \/ Examine(p) \/ MarkFirst(p) \/ RecordMarked(p) \/ MarkAgain(p) \/ AdoptIdentity(p)
    \/ RecordAdopted(p) \/ MarkLast(p) \/ AdoptionReceipt(p) \/ LookAgain(p) \/ Supplement(p)

-----------------------------------------------------------------------------
(* The docker child of a killed wrapper goes on.                           *)
Kill(p) ==
    /\ holder = p /\ used.kills < MaxKills
    /\ used' = [used EXCEPT !.kills = @ + 1]
    /\ Leave(p)
    /\ IF docker.by = p
       THEN docker' = [docker EXCEPT !.by = None] /\ outlived' = TRUE
       ELSE UNCHANGED <<docker, outlived>>
    /\ UNCHANGED <<files, runtime>>

(* The older release is started by hand while no command runs: before it   *)
(* is adopted, or while an adoption lies interrupted.                      *)
StartOlderRelease ==
    /\ holder = None /\ ~runtime.containers
    /\ control.command = "adopt" \/ (control = Rest /\ identity = None)
    /\ runtime' = WithContainers
    /\ UNCHANGED <<files, docker, outlived, process, used>>

Step(p) ==
    \/ Prepare(p) \/ Rotate(p) \/ Clean(p) \/ Recover(p)
    \/ Initialize(p) \/ PublishIdentity(p) \/ FinishInitialization(p) \/ Execute(p)
    \/ Compose(p) \/ RunDocker(p) \/ Writing(p) \/ Clear(p) \/ Adopt(p)
Docker == DockerWorks \/ DockerFails \/ DockerReturns

Next ==
    \/ \E p \in Procs :
        \/ \E command \in Commands : Start(p, command)
        \/ Retry(p) \/ Acquire(p) \/ GiveUp(p) \/ Step(p) \/ Kill(p)
    \/ Docker \/ PostgresInitializes \/ StartOlderRelease

Spec == Init /\ [][Next]_vars

(* A process goes on, docker answers, and the operator repeats a command   *)
(* that was interrupted.                                                   *)
Fairness ==
    /\ WF_vars(Docker \/ \E p \in Procs : Step(p))
    /\ WF_vars(\E p \in Procs : Retry(p) \/ Acquire(p))

-----------------------------------------------------------------------------
\* What was started is marked as started before any other command may plan with
\* its identity, and the marker names that identity: by Compose before docker
\* runs, by an adoption before it publishes the identity, however either was
\* interrupted.  Not known to the tools: a docker compose that outlives its
\* killed wrapper (run_compose, adopt_existing).
StartedIsMarked ==
    ~outlived /\ Running /\ identity # None /\ control = Rest => marker = identity

\* The passwords PostgreSQL or a container was given are those on disk: no
\* rotation after a start, whatever was planned before the lock
\* (_assert_rotation_allowed, clear_start_marker).
RunsOnItsSecrets == ~outlived /\ Running => runtime.secrets = secrets

(* The records no repetition of a command ends.                            *)
Wedged ==
    \/ control \in {Bare, Initializing}
    \/ /\ control.command = "clear"
       /\ \/ control.phase = "planned" /\ (Running \/ transaction \/ marker # identity)
          \/ control.phase = "backed" /\ marker # None
          \/ control.phase = "checked" /\ marker = None /\ backup = None
    \/ /\ control.command = "adopt"
       /\ \/ transaction \/ identity \notin {None, Candidate}
          \/ ~MarkerAgrees

\* An interrupted command is finished by repeating it, but for the records
\* that are not resumable (ControlJournal, clear_start_marker, adopt_existing).
Quiet == holder = None /\ (control = Rest \/ Wedged)
ControlEnds == []<>Quiet

\* The plan: the marker is moved to the backup, and the backup is cleaned only
\* after the receipt is durable.
BackupKeptUntilReceipt ==
    [][backup # None /\ backup' = None => receipt \/ marker' # None]_vars

=============================================================================
