---------------------------- MODULE MCDeployment ----------------------------
(***************************************************************************)
(* The tools that prepare and run a machine without a network, for TLC.    *)
(* A behaviour is one of a single part, chosen at the start: a prepared    *)
(* transaction (two secrets, one of which is rotated, and two nested       *)
(* directories: every kind of operation), the directories it needs first,  *)
(* the exchanges of the environment file inside it, the commands that      *)
(* compete for the deployment, or the migration of the database when it    *)
(* starts.                                                                 *)
(***************************************************************************)
EXTENDS PreparationTransaction

CONSTANTS
    Operators, Migrators, Apps,
    MaxCuts,        \* bound: processes killed that prepare the directories
    MaxTouches,     \* bound: changes of the environment file by the operator
    MaxCommands,    \* bound: commands that compete for the deployment
    MaxDeaths,      \* bound: operators that are killed
    MaxErrors,      \* bound: calls of theirs that fail
    MaxStarts,      \* bound: migrators and applications started
    MaxFailures,    \* bound: of those, killed or with a statement that fails
    MaxEvaluations  \* bound: evaluation runs

\* Nobody holds the lock of the deployment when its holder is None, which is 0.
ASSUME NoneIsNoOperator == 0 \notin Operators

VARIABLES
    part,       \* "transaction", "directories", "exchange", "control" or "schema"
    dir, original, plans, record, metadata, companion, step, at, cuts, changes,
    env, beside, private, saved, forward, reverse, op, phase, place, seen, breaks, touches,
    identity, marker, control, backup, receipt, transaction, secrets, runtime,
    docker, outlived, holder, cmd, pc, plan, used,
    origin, exact, odd, version, sequence, counter, unrouted, session, work, stage, missing,
    starts, failures

directories == <<dir, original, plans, record, metadata, companion, step, at, cuts, changes>>
exchange == <<env, beside, private, saved, forward, reverse, op, phase, place, seen,
              breaks, touches>>
commands == <<identity, marker, control, backup, receipt, transaction, secrets, runtime,
              docker, outlived, holder, cmd, pc, plan, used>>
schema == <<origin, exact, odd, version, sequence, counter, unrouted, session, work, stage,
            missing, starts, failures>>

Directories == INSTANCE BootstrapDirectories
                WITH journal <- plans, pc <- step, MaxKills <- MaxCuts,
                     kills <- cuts, edits <- changes
Exchange == INSTANCE EnvironmentExchange
                WITH backup <- saved, pc <- place, MaxEdits <- MaxTouches,
                     kills <- breaks, edits <- touches
Control == INSTANCE DeploymentControl
                WITH Procs <- Operators, MaxRuns <- MaxCommands,
                     MaxKills <- MaxDeaths, MaxFaults <- MaxErrors
Schema == INSTANCE Migrations
                WITH lock <- session, pc <- stage, faults <- failures,
                     MaxFaults <- MaxFailures, MaxRuns <- MaxEvaluations

\* A migrator is no application, and nobody is none of them.
ASSUME SchemaConstants == Schema!Nobody \notin Migrators /\ Migrators \cap Apps = {}

DeploymentInit ==
    /\ part \in {"transaction", "directories", "exchange", "control", "schema"}
    /\ Init
    /\ Directories!Init /\ Exchange!Init /\ Control!Init /\ Schema!Init
    /\ part # "directories" => plans = "none" /\ \A r \in DOMAIN dir : dir[r].id = "none"
    /\ part # "exchange" => env.id = "none"
    /\ part # "control" => identity = 0 /\ ~runtime.containers /\ ~runtime.data
    /\ part # "schema" => origin = "empty"

DeploymentNext ==
    /\ UNCHANGED part
    /\ \/ part = "transaction" /\ Next /\ UNCHANGED <<directories, exchange, commands, schema>>
       \/ part = "directories" /\ Directories!Next /\ UNCHANGED <<vars, exchange, commands, schema>>
       \/ part = "exchange" /\ Exchange!Next /\ UNCHANGED <<vars, directories, commands, schema>>
       \/ part = "control" /\ Control!Next /\ UNCHANGED <<vars, directories, exchange, schema>>
       \/ part = "schema" /\ Schema!Next /\ UNCHANGED <<vars, directories, exchange, commands>>

\* Each part under its own fairness: what a command that runs does next, and
\* the commands that are repeated.
Proceeds ==
    \/ /\ part = "transaction" /\ (Forward \/ Rollback \/ Clean)
       /\ UNCHANGED <<directories, exchange, commands, schema>>
    \/ /\ part = "directories" /\ Directories!Work
       /\ UNCHANGED <<vars, exchange, commands, schema>>
    \/ /\ part = "exchange" /\ Exchange!Work
       /\ UNCHANGED <<vars, directories, commands, schema>>
    \/ /\ part = "control" /\ (Control!Docker \/ \E p \in Operators : Control!Step(p))
       /\ UNCHANGED <<vars, directories, exchange, schema>>
    \/ /\ part = "schema" /\ Schema!Work
       /\ UNCHANGED <<vars, directories, exchange, commands>>
Repeats ==
    \/ /\ part = "transaction" /\ FinalizeCleanup
       /\ UNCHANGED <<directories, exchange, commands, schema>>
    \/ /\ part = "control" /\ \E p \in Operators : Control!Retry(p) \/ Control!Acquire(p)
       /\ UNCHANGED <<vars, directories, exchange, schema>>

everything == <<vars, directories, exchange, commands, schema>>
DeploymentSpec ==
    /\ DeploymentInit
    /\ [][DeploymentNext]_<<part, everything>>
    /\ WF_everything(UNCHANGED part /\ Proceeds) /\ WF_everything(UNCHANGED part /\ Repeats)

\* TransactionJournal, finalize_rollback_cleanup, restore_environment: what a
\* transaction and the exchanges inside it leave behind is the state before or
\* the state after, and nothing beside it.
FilesWhole ==
    /\ part = "directories" => Directories!DirectoriesRestored
    /\ part = "exchange" => Exchange!EnvironmentWhole

\* run_compose, adopt_existing, clear_start_marker, _assert_rotation_allowed:
\* what runs is marked as started, and runs on the secrets on disk.
StartedIsMarked ==
    part = "control" => Control!StartedIsMarked /\ Control!RunsOnItsSecrets

\* run_migrations, create_schema: the database is at one revision with all of
\* it, one that differs from the baseline is left alone, and success is only
\* reported at the head.
SchemaWhole == part = "schema" => Schema!SchemaWhole

\* The directories and the files of an operator are left alone, and nothing a
\* transaction committed is taken back.
NothingTaken == NothingTakenBack /\ Directories!TouchesOnlyRecorded /\ Exchange!EditKept

\* Whatever was begun comes to an end when its command is repeated: a committed
\* transaction is cleaned up, the journal of the directories and the
\* environment are decided, a control record is finished, nobody holds the lock of the
\* migrations.
EverythingEnds ==
    /\ CommittedIsCleaned
    /\ []<>(/\ part = "directories" => Directories!Quiet
            /\ part = "exchange" => Exchange!Quiet
            /\ part = "control" => Control!Quiet
            /\ part = "schema" => Schema!Quiet)

=============================================================================
